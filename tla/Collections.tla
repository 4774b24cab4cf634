----------------------------- MODULE Collections -----------------------------
(***************************************************************************)
(* The collections of generated C++ programs (runtime/cpp/Collections.hpp) *)
(* are lists.  A program holds two and calls their methods; the functions  *)
(* that it passes change neither.  Elements are numbers, as in a template  *)
(* instance, so that they can be folded.                                   *)
(***************************************************************************)
EXTENDS Integers, SequencesExt

CONSTANTS
  Elements,
  MaxSize    \* bound: the number of elements in both collections

ASSUME ElementAssumption == Elements \subseteq Nat /\ MaxSize \in Nat

VARIABLES
  data,      \* __data of the collection whose methods are called
  other      \* __data of another

vars == <<data, other>>

-----------------------------------------------------------------------------
(* The methods.  A function argument is a function. *)

\* The null pointer of an empty collection.
Nothing == -1

Peek(s) == IF s = <<>> THEN Nothing ELSE Head(s)

InsertBasic(s, e) == Append(s, e)

DeleteFirst(s, e) == RemoveFirst(s, e)

\* Fault, used in no specification: the last occurrence is updated.
UpdateLast(s, prev, next) ==
  IF Contains(s, prev) THEN ReplaceAt(s, SelectLastInSeq(s, LAMBDA x : x = prev), next) ELSE s

UpdateFirst(s, prev, next) ==
  IF Contains(s, prev) THEN ReplaceAt(s, SelectInSeq(s, LAMBDA x : x = prev), next) ELSE s

\* Fault: the right half begins after the middle.
SplitAfter(s) ==
  LET n == Len(s) \div 2 IN <<SubSeq(s, 1, n), SubSeq(s, n + 2, Len(s))>>

\* Fewer than two elements all go to the left.
Split(s) ==
  IF Len(s) < 2 THEN <<s, <<>>>>
  ELSE LET n == Len(s) \div 2 IN <<SubSeq(s, 1, n), SubSeq(s, n + 1, Len(s))>>

Combine(s, t) == s \o t

\* What a loop over a list makes of z, one element after the other.
Loop(step(_, _), z, s) ==
  LET r[n \in 0 .. Len(s)] == IF n = 0 THEN z ELSE step(r[n - 1], s[n])
  IN  r[Len(s)]

\* What iterate calls its function with, in order.
Iterate(s) == s

\* Fault: the result begins with as many zeros (resize for reserve).
MapResized(s, f) == [i \in DOMAIN s |-> 0] \o [i \in DOMAIN s |-> f[s[i]]]

Map(s, f) == [i \in DOMAIN s |-> f[s[i]]]

Filter(s, p) == Loop(LAMBDA r, e : IF p[e] THEN Append(r, e) ELSE r, <<>>, s)

Fold(s, f, z) == Loop(LAMBDA r, e : f[<<r, e>>], z, s)

\* The keys of a std::map, in order.
Ascending(keys) ==
  CHOOSE ks \in [1 .. Cardinality(keys) -> keys] :
    \A i, j \in DOMAIN ks : i < j => ks[i] < ks[j]

InKeyOrder(m) ==
  LET ks == Ascending(DOMAIN m) IN [i \in DOMAIN ks |-> <<ks[i], m[ks[i]]>>]

\* Fault: the first element of a group is its initial value.
GroupBySeeded(s, g, f, z) ==
  LET add(m, e) == [k \in DOMAIN m \cup {g[e]} |->
                      IF k # g[e] THEN m[k] ELSE IF k \in DOMAIN m THEN f[<<e, m[k]>>] ELSE e]
  IN  InKeyOrder(Loop(add, <<>>, s))

\* The first element of a group is folded into z; the later ones are the first
\* argument of f.
Groups(s, g, f, z) ==
  Loop(LAMBDA m, e : [k \in DOMAIN m \cup {g[e]} |->
                        IF k # g[e] THEN m[k] ELSE IF k \in DOMAIN m THEN f[<<e, m[k]>>] ELSE f[<<z, e>>]],
       <<>>, s)

GroupBy(s, g, f, z) == InKeyOrder(Groups(s, g, f, z))

\* Fault: what the function returns goes in front.
ExtInFront(s, f) == Loop(LAMBDA r, e : f[e] \o r, <<>>, s)

Ext(s, f) == Loop(LAMBDA r, e : r \o f[e], <<>>, s)

-----------------------------------------------------------------------------
Init == data = <<>> /\ other = <<>>

Insert(e) ==
  /\ Len(data) + Len(other) < MaxSize
  /\ data' = InsertBasic(data, e) /\ UNCHANGED other

Delete(e) == data' = DeleteFirst(data, e) /\ UNCHANGED other

Update(prev, next) == data' = UpdateFirst(data, prev, next) /\ UNCHANGED other

\* The program keeps the halves.
Halve == data' = Split(data)[1] /\ other' = Split(data)[2]

Join == data' = Combine(data, other) /\ UNCHANGED other /\ Len(data') + Len(other) <= MaxSize

\* The program goes on with its other collection.
Exchange == data' = other /\ other' = data

Keep(es) == data' = Filter(data, [e \in Elements |-> e \in es]) /\ UNCHANGED other

Apply(f) == data' = Map(data, f) /\ UNCHANGED other

Replicate(n) ==
  /\ n * Len(data) + Len(other) <= MaxSize
  /\ data' = Ext(data, [e \in Elements |-> [i \in 1 .. n |-> e]]) /\ UNCHANGED other

Next ==
  \/ \E e \in Elements : Insert(e) \/ Delete(e)
  \/ \E prev, next \in Elements : Update(prev, next)
  \/ Halve \/ Join \/ Exchange
  \/ \E es \in SUBSET Elements : Keep(es)
  \/ \E f \in [Elements -> Elements] : Apply(f)
  \/ \E n \in 0 .. 2 : Replicate(n)

Spec == Init /\ [][Next]_vars

-----------------------------------------------------------------------------
Plus   == [p \in Nat \X Nat |-> p[1] + p[2]]
Larger == [p \in Nat \X Nat |-> IF p[1] >= p[2] THEN p[1] ELSE p[2]]

Occurrences(s, e) == Cardinality({i \in DOMAIN s : s[i] = e})

\* The collections hold elements, and peek gives one of them unless there is none.
TypeOK ==
  /\ data \in Seq(Elements) /\ other \in Seq(Elements)
  /\ Peek(data) = Nothing <=> data = <<>>
  /\ ToSet(Iterate(data)) \subseteq Elements

\* Work that is split is done whole: the halves put together are the collection,
\* neither is empty if there is more than one element, and a fold with an associative
\* function over each half gives the fold over the collection.
SplitIsWhole ==
  LET l == Split(data)[1]
      r == Split(data)[2]
  IN  /\ Combine(l, r) = data
      /\ Len(data) >= 2 => l # <<>> /\ r # <<>> /\ Len(r) - Len(l) \in 0 .. 1
      /\ Fold(data, Plus, 0) = Fold(l, Plus, 0) + Fold(r, Plus, 0)

\* delete_first and update_first hit the same occurrence, the first, and no other:
\* updating it to what was not there and deleting that is deleting it.
FirstOccurrence ==
  \A prev, next \in Elements :
    /\ ~ Contains(data, next) =>
         DeleteFirst(UpdateFirst(data, prev, next), next) = DeleteFirst(data, prev)
    /\ Occurrences(DeleteFirst(InsertBasic(data, prev), prev), prev) = Occurrences(data, prev)

\* group_by calls f with its arguments the other way round once a group exists; the
\* result is the fold over each group all the same when f is commutative.  There is one
\* pair for each key, in the order of the keys.
GroupsAreFolds ==
  \A g \in [Elements -> 0 .. 1] :
    LET Of(k) == Filter(data, [e \in Elements |-> g[e] = k])
        keys  == Ascending({g[e] : e \in ToSet(data)})
    IN  /\ GroupBy(data, g, Plus, 1) = [i \in DOMAIN keys |-> <<keys[i], Fold(Of(keys[i]), Plus, 1)>>]
        /\ GroupBy(data, g, Larger, 0) = [i \in DOMAIN keys |-> <<keys[i], Fold(Of(keys[i]), Larger, 0)>>]

\* map and filter are ext with one result or none for an element, in the order of the
\* elements, and ext distributes over combine.
ExtSubsumes ==
  LET twice == [e \in Elements |-> <<e, e + 1>>] IN
  /\ \A p \in [Elements -> BOOLEAN] :
       Filter(data, p) = Ext(data, [e \in Elements |-> IF p[e] THEN <<e>> ELSE <<>>])
  /\ \A f \in [Elements -> Elements] : Map(data, f) = Ext(data, [e \in Elements |-> <<f[e]>>])
  /\ Ext(Combine(data, other), twice) = Combine(Ext(data, twice), Ext(other, twice))
==============================================================================
