----------------------------- MODULE BoundedFifo -----------------------------
(***************************************************************************)
(* What a buffer promises: values are delivered once each, in the order in *)
(* which they were accepted, and at most `bound` are waiting (any number,  *)
(* if the bound is not positive).                                          *)
(***************************************************************************)
EXTENDS Integers, Sequences

CONSTANT Values

VARIABLES accepted, delivered, bound

fifoVars == <<accepted, delivered, bound>>

Waiting == Len(accepted) - Len(delivered)

Init == accepted = <<>> /\ delivered = <<>> /\ bound \in Int

\* Deliver the n oldest values and accept the values s, at most one.
Pass(n, s) ==
  /\ accepted' = accepted \o s
  /\ delivered' = SubSeq(accepted, 1, Len(delivered) + n)
  /\ bound' = bound
  /\ bound > 0 => Waiting' <= bound

Next == \E n \in 0 .. Waiting, s \in {<<>>} \cup {<<v>> : v \in Values} : Pass(n, s)

Spec == Init /\ [][Next]_fifoVars
==============================================================================
