---------------------------- MODULE EndpointProofs ----------------------------
(***************************************************************************)
(* What holds of an endpoint for every set of values, every maximum size   *)
(* and any sequence of calls.                                              *)
(***************************************************************************)
EXTENDS EndpointObject, SequenceTheorems, FiniteSetTheorems, TLAPS

-----------------------------------------------------------------------------
(* Buffers *)

\* What Bounded says of a buffer.
Fits(b) ==
  /\ ~ IsContainer(b) => Len(b.contents) <= 1
  /\ IsContainer(b) /\ b.max > 0 => Len(b.contents) <= b.max

SameSpec(a, b) == a.class = b.class /\ a.max = b.max

OptionalValue(v) == IF v = NoValue THEN <<>> ELSE <<v>>

\* Any contents make a buffer of the same specification.
LEMMA WithContents ==
  ASSUME NEW b \in Buffers(Values), NEW s \in Seq(Values)
  PROVE  /\ [b EXCEPT !.contents = s] \in Buffers(Values)
         /\ SameSpec([b EXCEPT !.contents = s], b)
         /\ [b EXCEPT !.contents = s].contents = s
BY DEF Buffers, SameSpec

\* A buffer that is not full has room for one more value.
LEMMA PutKeeps ==
  ASSUME NEW b \in Buffers(Values), Fits(b), NEW v \in Values
  PROVE  /\ Put(b, v) \in Buffers(Values) /\ SameSpec(Put(b, v), b) /\ Fits(Put(b, v))
         /\ Put(b, v).contents = IF Full(b) THEN b.contents ELSE Append(b.contents, v)
<1>1. b.contents \in Seq(Values) /\ b.max \in Int
  BY DEF Buffers
<1>2. CASE Full(b)
  BY <1>2 DEF Put, SameSpec
<1>3. CASE ~ Full(b)
  <2> DEFINE new == Append(b.contents, v)
  <2>1. new \in Seq(Values) /\ Len(new) = Len(b.contents) + 1
    BY <1>1
  <2>2. Put(b, v) = [b EXCEPT !.contents = new]
    BY <1>3 DEF Put
  <2>3. Put(b, v) \in Buffers(Values) /\ SameSpec(Put(b, v), b) /\ Put(b, v).contents = new
    BY <2>1, <2>2, WithContents
  <2>4. ~ IsContainer(b) => Len(b.contents) = 0
    BY <1>1, <1>3, EmptySeq DEF Full, Empty
  <2>5. IsContainer(b) /\ b.max > 0 => Len(b.contents) < b.max
    BY <1>1, <1>3 DEF Full, Fits
  <2>6. IsContainer(Put(b, v)) = IsContainer(b)
    BY <2>3 DEF IsContainer, SameSpec
  <2>7. Fits(Put(b, v))
    BY <1>1, <2>1, <2>3, <2>4, <2>5, <2>6 DEF Fits, SameSpec
  <2> QED
    BY <1>3, <2>3, <2>7
<1> QED
  BY <1>2, <1>3

\* refresh takes the oldest value out of a container and has room for the one it
\* read, if there is one; in a scalar it overwrites.
LEMMA RefreshedKeeps ==
  ASSUME NEW b \in Buffers(Values), Fits(b), NEW v \in Values \cup {NoValue}
  PROVE  /\ Refreshed(b, v) \in Buffers(Values) /\ SameSpec(Refreshed(b, v), b)
         /\ Fits(Refreshed(b, v))
         /\ IsContainer(b) =>
              Refreshed(b, v).contents
                = (IF Empty(b) THEN <<>> ELSE Tail(b.contents)) \o OptionalValue(v)
         /\ ~ IsContainer(b) =>
              Refreshed(b, v).contents = IF v = NoValue THEN b.contents ELSE <<v>>
<1>1. b.contents \in Seq(Values) /\ b.max \in Int /\ Len(b.contents) \in Nat
  BY LenProperties DEF Buffers
<1>2. CASE ~ IsContainer(b)
  <2>1. CASE v = NoValue
    BY <1>2, <2>1 DEF Refreshed, SameSpec
  <2>2. CASE v # NoValue
    <3>1. <<v>> \in Seq(Values) /\ Len(<<v>>) = 1
      BY <2>2
    <3>2. Refreshed(b, v) = [b EXCEPT !.contents = <<v>>]
      BY <1>2, <2>2 DEF Refreshed
    <3>3. /\ Refreshed(b, v) \in Buffers(Values) /\ SameSpec(Refreshed(b, v), b)
          /\ Refreshed(b, v).contents = <<v>>
      BY <3>1, <3>2, WithContents
    <3> QED
      BY <1>2, <2>2, <3>1, <3>3 DEF Fits, SameSpec, IsContainer
  <2> QED
    BY <2>1, <2>2
<1>3. CASE IsContainer(b)
  <2> DEFINE tail == IF Empty(b) THEN <<>> ELSE Tail(b.contents)
             rest == IF Empty(b) THEN b ELSE [b EXCEPT !.contents = Tail(b.contents)]
  <2>1. /\ tail \in Seq(Values)
        /\ Len(tail) = IF Empty(b) THEN 0 ELSE Len(b.contents) - 1
    BY <1>1, EmptySeq, HeadTailProperties DEF Empty
  <2>2. rest \in Buffers(Values) /\ SameSpec(rest, b) /\ rest.contents = tail
    BY <2>1, WithContents DEF Empty, SameSpec
  <2>3. IsContainer(rest) /\ Fits(rest) /\ ~ Full(rest)
    <3>1. IsContainer(rest) /\ rest.max = b.max
      BY <1>3, <2>2 DEF IsContainer, SameSpec
    <3>2. b.max > 0 => Len(tail) < b.max
      BY <1>1, <1>3, <2>1 DEF Fits
    <3> QED
      BY <1>1, <2>1, <2>2, <3>1, <3>2 DEF Fits, Full
  <2>4. CASE v = NoValue
    <3>1. Refreshed(b, v) = rest
      BY <1>3, <2>4 DEF Refreshed
    <3>2. tail \o OptionalValue(v) = tail
      BY <2>1, <2>4, ConcatEmptySeq DEF OptionalValue
    <3> QED
      BY <1>3, <2>2, <2>3, <3>1, <3>2
  <2>5. CASE v # NoValue
    <3>1. v \in Values /\ Refreshed(b, v) = Put(rest, v)
      BY <1>3, <2>5 DEF Refreshed
    <3>2. /\ Put(rest, v) \in Buffers(Values) /\ SameSpec(Put(rest, v), rest)
          /\ Fits(Put(rest, v)) /\ Put(rest, v).contents = Append(tail, v)
      BY <2>2, <2>3, <3>1, PutKeeps
    <3>3. Append(tail, v) = tail \o OptionalValue(v)
      BY <2>1, <2>5, <3>1 DEF OptionalValue
    <3>4. Refreshed(b, v).contents = tail \o OptionalValue(v)
      BY <3>1, <3>2, <3>3
    <3>5. SameSpec(Refreshed(b, v), b)
      BY <2>2, <3>1, <3>2 DEF SameSpec
    <3> QED
      BY <1>3, <3>1, <3>2, <3>4, <3>5
  <2> QED
    BY <2>4, <2>5
<1> QED
  BY <1>2, <1>3

\* flush takes the batch off the front of a container, and leaves a scalar alone.
LEMMA FlushedKeeps ==
  ASSUME NEW b \in Buffers(Values), Fits(b)
  PROVE  /\ Flushed(b) \in Buffers(Values) /\ SameSpec(Flushed(b), b) /\ Fits(Flushed(b))
         /\ Written(b) \in Seq(Values)
         /\ IsContainer(b) => Written(b) \o Flushed(b).contents = b.contents
         /\ ~ IsContainer(b) => Written(b) = b.contents /\ Flushed(b).contents = b.contents
<1>1. b.contents \in Seq(Values) /\ b.max \in Int /\ Len(b.contents) \in Nat
  BY LenProperties DEF Buffers
<1>2. CASE ~ (IsContainer(b) /\ BatchAvailable(b))
  <2>1. Flushed(b) = b /\ Written(b) = IF IsContainer(b) THEN <<>> ELSE b.contents
    BY <1>2 DEF Flushed, Written
  <2> QED
    BY <1>1, <2>1, EmptySeq, ConcatEmptySeq DEF SameSpec
<1>3. CASE IsContainer(b) /\ BatchAvailable(b)
  <2> DEFINE n     == BatchSize(b)
             first == SubSeq(b.contents, 1, n)
             last  == SubSeq(b.contents, n + 1, Len(b.contents))
  <2>1. n \in 1 .. Len(b.contents)
    BY <1>1, <1>3 DEF BatchAvailable, BatchSize
  <2>2. \A i \in 1 .. Len(b.contents) : b.contents[i] \in Values
    BY <1>1, ElementOfSeq
  <2>3. first \in Seq(Values) /\ last \in Seq(Values) /\ Len(last) = Len(b.contents) - n
    <3>1. \A i \in 1 .. n : b.contents[i] \in Values
      BY <1>1, <2>1, <2>2
    <3>2. \A i \in n + 1 .. Len(b.contents) : b.contents[i] \in Values
      BY <1>1, <2>1, <2>2
    <3>3. first \in Seq(Values)
      BY <2>1, <3>1, SubSeqProperties
    <3>4. /\ last \in Seq(Values)
          /\ Len(last) = IF n + 1 <= Len(b.contents) THEN Len(b.contents) - (n + 1) + 1 ELSE 0
      BY <1>1, <2>1, <3>2, SubSeqProperties
    <3> QED
      BY <1>1, <2>1, <3>3, <3>4
  <2>4. first \o last = b.contents
    <3>1. /\ 1 \in 1 .. Len(b.contents) + 1 /\ n \in 1 - 1 .. Len(b.contents)
          /\ Len(b.contents) \in n .. Len(b.contents)
      BY <1>1, <2>1
    <3> HIDE DEF n
    <3>2. first \o last = SubSeq(b.contents, 1, Len(b.contents))
      BY <1>1, <3>1, ConcatAdjacentSubSeq
    <3> QED
      BY <1>1, <3>2, SubSeqFull
  <2>5. Written(b) = first /\ Flushed(b) = [b EXCEPT !.contents = last]
    BY <1>3 DEF Written, Flushed
  <2>6. /\ Flushed(b) \in Buffers(Values) /\ SameSpec(Flushed(b), b)
        /\ Flushed(b).contents = last
    BY <2>3, <2>5, WithContents
  <2>7. Fits(Flushed(b))
    BY <1>1, <1>3, <2>1, <2>3, <2>6 DEF Fits, SameSpec, IsContainer
  <2> QED
    BY <1>3, <2>3, <2>4, <2>5, <2>6, <2>7
<1> QED
  BY <1>2, <1>3

-----------------------------------------------------------------------------
(* The endpoint *)

\* The invariant says everything of the data: the types, the bound, and where the
\* values are that were accepted.
Safe == DataTypeOK /\ Bounded /\ ContainerIsFifo /\ ScalarLosesNothing

LEMMA BoundedIsFits == Bounded = Fits(buf)
BY DEF Bounded, Fits

LEMMA ToSetConcat ==
  ASSUME NEW V, NEW s \in Seq(V), NEW t \in Seq(V)
  PROVE  ToSet(s \o t) = ToSet(s) \cup ToSet(t)
<1>1. /\ Len(s) \in Nat /\ Len(t) \in Nat
      /\ DOMAIN s = 1 .. Len(s) /\ DOMAIN t = 1 .. Len(t)
      /\ DOMAIN (s \o t) = 1 .. Len(s) + Len(t)
  BY LenProperties, ConcatProperties
<1>2. \A i \in 1 .. Len(s) + Len(t) : (s \o t)[i] = IF i <= Len(s) THEN s[i] ELSE t[i - Len(s)]
  BY ConcatProperties
<1>3. ASSUME NEW x \in ToSet(s \o t) PROVE x \in ToSet(s) \cup ToSet(t)
  BY <1>1, <1>2 DEF ToSet
<1>4. ASSUME NEW x \in ToSet(s) PROVE x \in ToSet(s \o t)
  BY <1>1, <1>2 DEF ToSet
<1>5. ASSUME NEW x \in ToSet(t) PROVE x \in ToSet(s \o t)
  <2>1. PICK i \in 1 .. Len(t) : x = t[i]
    BY <1>1 DEF ToSet
  <2>2. i + Len(s) \in 1 .. Len(s) + Len(t) /\ (s \o t)[i + Len(s)] = t[i]
    BY <1>1, <1>2
  <2> QED
    BY <1>1, <2>1, <2>2 DEF ToSet
<1> QED
  BY <1>3, <1>4, <1>5

LEMMA ToSetSingle == ASSUME NEW v \in Values PROVE ToSet(<<v>>) = {v}
<1>1. DOMAIN <<v>> = 1 .. 1 /\ <<v>>[1] = v
  OBVIOUS
<1> QED
  BY <1>1 DEF ToSet

LEMMA AppendValue ==
  ASSUME NEW s \in Seq(Values), NEW v \in Values
  PROVE  Append(s, v) = s \o <<v>> /\ <<v>> \in Seq(Values)
OBVIOUS

LEMMA SafeInit == Init => Safe
<1> SUFFICES ASSUME Init PROVE Safe
  OBVIOUS
<1>1. PICK c \in Scalars \cup Containers, m \in MaxSizes : buf = NewBuffer(c, m)
  BY DEF Init
<1>2. buf \in Buffers(Values) /\ buf.contents = <<>>
  BY <1>1, ValueAssumption, EmptySeq DEF NewBuffer, Buffers
<1>3. accepted = <<>> /\ delivered = <<>> /\ isFile \in BOOLEAN
  BY DEF Init
<1>4. <<>> \in Seq(Values) /\ <<>> \o <<>> = <<>> /\ Len(<<>>) = 0
  BY EmptySeq, ConcatEmptySeq
<1>5. DataTypeOK
  BY <1>2, <1>3, <1>4 DEF DataTypeOK
<1>6. Bounded
  BY <1>2, <1>4 DEF Bounded, Buffers
<1>7. ContainerIsFifo /\ ScalarLosesNothing
  BY <1>2, <1>3, <1>4 DEF ContainerIsFifo, ScalarLosesNothing, ToSet
<1> QED
  BY <1>5, <1>6, <1>7 DEF Safe

LEMMA ValuesAssociate ==
  \A s, t, u \in Seq(Values) : (s \o t) \o u = s \o (t \o u)
BY ConcatAssociative

\* A call changes the data in one of the ways that the hypotheses say.
LEMMA DataStep ==
  ASSUME Safe, buf' \in Buffers(Values), SameSpec(buf', buf), Fits(buf'),
         UNCHANGED isFile,
         NEW out \in Seq(Values), NEW in \in Seq(Values),
         delivered' = delivered \o out, accepted' = accepted \o in,
         IsContainer(buf) => buf.contents \o in = out \o buf'.contents,
         ~ IsContainer(buf) => ToSet(buf.contents) \cup ToSet(in) \subseteq ToSet(out) \cup ToSet(buf'.contents)
  PROVE  Safe'
<1>1. /\ accepted \in Seq(Values) /\ delivered \in Seq(Values)
      /\ buf.contents \in Seq(Values) /\ buf'.contents \in Seq(Values)
  BY DEF Safe, DataTypeOK, Buffers
<1>2. IsContainer(buf') = IsContainer(buf)
  BY DEF SameSpec, IsContainer
<1>3. DataTypeOK'
  BY <1>1, ConcatProperties DEF Safe, DataTypeOK
<1>4. Bounded'
  BY DEF Bounded, Fits
<1>5. ContainerIsFifo'
  <2>1. SUFFICES ASSUME IsContainer(buf) PROVE accepted' = delivered' \o buf'.contents
    BY <1>2 DEF ContainerIsFifo
  <2>2. accepted = delivered \o buf.contents
    BY <2>1 DEF Safe, ContainerIsFifo
  <2>3. (delivered \o buf.contents) \o in = delivered \o (buf.contents \o in)
    BY <1>1, ValuesAssociate, Zenon
  <2>4. (delivered \o out) \o buf'.contents = delivered \o (out \o buf'.contents)
    BY <1>1, ValuesAssociate, Zenon
  <2>5. buf.contents \o in = out \o buf'.contents
    BY <2>1
  <2> QED
    BY <2>2, <2>3, <2>4, <2>5, Zenon
<1>6. ScalarLosesNothing'
  <2>1. SUFFICES ASSUME ~ IsContainer(buf)
                 PROVE  ToSet(accepted') \subseteq ToSet(delivered') \cup ToSet(buf'.contents)
    BY <1>2 DEF ScalarLosesNothing
  <2>2. ToSet(accepted) \subseteq ToSet(delivered) \cup ToSet(buf.contents)
    BY <2>1 DEF Safe, ScalarLosesNothing
  <2>3. /\ ToSet(accepted') = ToSet(accepted) \cup ToSet(in)
        /\ ToSet(delivered') = ToSet(delivered) \cup ToSet(out)
    BY <1>1, ToSetConcat
  <2> QED
    BY <2>1, <2>2, <2>3
<1> QED
  BY <1>3, <1>4, <1>5, <1>6 DEF Safe

LEMMA KeptData ==
  ASSUME Safe, UNCHANGED <<buf, isFile, accepted, delivered>>
  PROVE  Safe'
BY DEF Safe, DataTypeOK, Bounded, ContainerIsFifo, ScalarLosesNothing, IsContainer

LEMMA DataFacts ==
  ASSUME Safe
  PROVE  /\ buf \in Buffers(Values) /\ Fits(buf) /\ buf.contents \in Seq(Values)
         /\ accepted \in Seq(Values) /\ delivered \in Seq(Values)
         /\ <<>> \in Seq(Values)
         /\ \A t \in Seq(Values) : t \o <<>> = t /\ <<>> \o t = t
BY BoundedIsFits, EmptySeq, ConcatEmptySeq DEF Safe, DataTypeOK, Buffers

LEMMA DoWriteSafe == ASSUME Safe, NEW v \in Values, DoWrite(v) PROVE Safe'
<1> DEFINE in == IF Full(buf) THEN <<>> ELSE <<v>>
<1>1. in \in Seq(Values) /\ <<v>> \in Seq(Values)
  BY DataFacts, AppendValue
<1>2. /\ buf' \in Buffers(Values) /\ SameSpec(buf', buf) /\ Fits(buf')
      /\ buf'.contents = IF Full(buf) THEN buf.contents ELSE Append(buf.contents, v)
  BY DataFacts, PutKeeps DEF DoWrite
<1>3. accepted' = accepted \o in
  BY DataFacts, AppendValue DEF DoWrite
<1>4. buf'.contents = buf.contents \o in
  BY <1>2, DataFacts, AppendValue
<1>5. delivered' = delivered \o <<>> /\ UNCHANGED isFile
  BY DataFacts DEF DoWrite
<1>6. buf.contents \o in = <<>> \o buf'.contents
  BY <1>4, <1>1, DataFacts, ConcatProperties
<1>7. ToSet(buf.contents) \cup ToSet(in) = ToSet(buf'.contents)
  <2> HIDE DEF in
  <2>1. buf.contents \in Seq(Values)
    BY DataFacts
  <2>2. ToSet(buf.contents \o in) = ToSet(buf.contents) \cup ToSet(in)
    BY <1>1, <2>1, ToSetConcat
  <2> QED
    BY <1>4, <2>2
<1> HIDE DEF in
<1> QED
  BY <1>1, <1>2, <1>3, <1>5, <1>6, <1>7, DataFacts, DataStep

\* What a read takes out of a container, and what it leaves.
Taken == IF Empty(buf) THEN <<>> ELSE <<Head(buf.contents)>>
Left  == IF Empty(buf) THEN <<>> ELSE Tail(buf.contents)

LEMMA TakeOldest ==
  ASSUME Safe
  PROVE  /\ Taken \in Seq(Values) /\ Left \in Seq(Values) /\ buf.contents = Taken \o Left
         /\ ~ Empty(buf) => /\ Head(buf.contents) \in Values
                            /\ Len(Left) = Len(buf.contents) - 1
<1>1. CASE Empty(buf)
  BY <1>1, DataFacts DEF Empty, Taken, Left
<1>2. CASE ~ Empty(buf)
  <2>1. /\ Head(buf.contents) \in Values /\ Tail(buf.contents) \in Seq(Values)
        /\ Len(Tail(buf.contents)) = Len(buf.contents) - 1
    BY <1>2, DataFacts, HeadTailProperties DEF Empty
  <2>2. buf.contents = <<Head(buf.contents)>> \o Tail(buf.contents)
    BY <1>2, DataFacts DEF Empty
  <2> QED
    BY <1>2, <2>1, <2>2, AppendValue DEF Taken, Left
<1> QED
  BY <1>1, <1>2

\* What a read does to the history.
LEMMA ReadHistory ==
  ASSUME Safe, NEW v \in Values \cup {NoValue}, DoRead(v)
  PROVE  /\ accepted' = accepted \o OptionalValue(v) /\ delivered' = delivered \o Taken
         /\ OptionalValue(v) \in Seq(Values) /\ UNCHANGED isFile
<1>1. OptionalValue(v) \in Seq(Values)
  BY DataFacts, AppendValue DEF OptionalValue
<1>2. accepted' = accepted \o OptionalValue(v)
  BY DataFacts, AppendValue DEF DoRead, OptionalValue
<1>3. delivered' = delivered \o Taken /\ UNCHANGED isFile
  BY TakeOldest, DataFacts, AppendValue DEF DoRead, Oldest, Taken
<1> QED
  BY <1>1, <1>2, <1>3

LEMMA DoReadSafe == ASSUME Safe, NEW v \in Values \cup {NoValue}, DoRead(v) PROVE Safe'
<1> DEFINE in   == OptionalValue(v)
<1>1. in \in Seq(Values)
  BY ReadHistory
<1>2. Taken \in Seq(Values) /\ Left \in Seq(Values) /\ buf.contents = Taken \o Left
  BY TakeOldest
<1>3. /\ buf' \in Buffers(Values) /\ SameSpec(buf', buf) /\ Fits(buf')
      /\ IsContainer(buf) => buf'.contents = Left \o in
      /\ ~ IsContainer(buf) => buf'.contents = IF v = NoValue THEN buf.contents ELSE <<v>>
  BY DataFacts, RefreshedKeeps DEF DoRead, Left
<1>4. accepted' = accepted \o in /\ delivered' = delivered \o Taken /\ UNCHANGED isFile
  BY ReadHistory
<1>5. IsContainer(buf) => buf.contents \o in = Taken \o buf'.contents
  <2>1. (Taken \o Left) \o in = Taken \o (Left \o in)
    BY <1>1, <1>2, ValuesAssociate, Zenon
  <2> QED
    BY <1>2, <1>3, <2>1, Zenon
<1>6. ASSUME ~ IsContainer(buf)
      PROVE  ToSet(buf.contents) \cup ToSet(in) \subseteq ToSet(Taken) \cup ToSet(buf'.contents)
  <2>1. CASE v = NoValue
    <3>1. buf'.contents = buf.contents /\ ToSet(in) = {}
      BY <1>3, <1>6, <2>1 DEF OptionalValue, ToSet
    <3> QED
      BY <3>1
  <2>2. CASE v # NoValue
    <3>1. buf'.contents = in
      BY <1>3, <1>6, <2>2 DEF OptionalValue
    <3>2. Len(buf.contents) <= 1
      BY <1>6, DataFacts DEF Fits
    <3>3. Left = <<>>
      BY <1>2, <3>2, TakeOldest, DataFacts, EmptySeq, LenProperties DEF Left
    <3>4. buf.contents = Taken
      BY <1>2, <3>3, DataFacts
    <3> QED
      BY <3>1, <3>4
  <2> QED
    BY <2>1, <2>2
<1> HIDE DEF in
<1> QED
  BY <1>1, <1>2, <1>3, <1>4, <1>5, <1>6, DataStep

LEMMA EnqueueSafe == ASSUME Safe, Enqueue PROVE Safe'
<1>1. buf' = [buf EXCEPT !.contents = <<>>]
  BY DEF Enqueue, Drained
<1>2. buf' \in Buffers(Values) /\ SameSpec(buf', buf) /\ buf'.contents = <<>>
  BY <1>1, DataFacts, WithContents
<1>3. Fits(buf')
  <2>1. Len(buf'.contents) = 0 /\ buf'.max \in Int
    BY <1>2, EmptySeq DEF Buffers
  <2> QED
    BY <2>1 DEF Fits
<1>4. /\ delivered' = delivered \o buf.contents /\ accepted' = accepted \o <<>>
      /\ UNCHANGED isFile
  BY DataFacts DEF Enqueue
<1>5. buf.contents \o <<>> = buf.contents \o buf'.contents
  BY <1>2
<1>6. ToSet(<<>>) = {}
  BY DEF ToSet
<1> QED
  BY <1>2, <1>3, <1>4, <1>5, <1>6, DataFacts, DataStep

LEMMA FlushSafe == ASSUME Safe, Flush PROVE Safe'
<1>1. /\ buf' \in Buffers(Values) /\ SameSpec(buf', buf) /\ Fits(buf')
      /\ Written(buf) \in Seq(Values)
      /\ IsContainer(buf) => Written(buf) \o buf'.contents = buf.contents
      /\ ~ IsContainer(buf) => Written(buf) = buf.contents /\ buf'.contents = buf.contents
  BY DataFacts, FlushedKeeps DEF Flush
<1>2. /\ delivered' = delivered \o Written(buf) /\ accepted' = accepted \o <<>>
      /\ UNCHANGED isFile
  BY DataFacts DEF Flush
<1>3. IsContainer(buf) => buf.contents \o <<>> = Written(buf) \o buf'.contents
  BY <1>1, DataFacts
<1>4. ~ IsContainer(buf) =>
        ToSet(buf.contents) \cup ToSet(<<>>) \subseteq ToSet(Written(buf)) \cup ToSet(buf'.contents)
  BY <1>1 DEF ToSet
<1> QED
  BY <1>1, <1>2, <1>3, <1>4, DataFacts, DataStep

LEMMA SafeStep == ASSUME Safe, [Next]_vars PROVE Safe'
<1>1. ASSUME NEW v \in Values, DoWrite(v) PROVE Safe'
  BY <1>1, DoWriteSafe
<1>2. ASSUME NEW v \in Values \cup {NoValue}, DoRead(v) PROVE Safe'
  BY <1>2, DoReadSafe
<1>3. CASE Enqueue
  BY <1>3, EnqueueSafe
<1>4. CASE Flush
  BY <1>4, FlushSafe
<1>5. ASSUME NEW nt \in Attachable, NEW s \in Subscribers,
             AttachNotifier(nt, s) \/ DetachNotifier(nt, s)
      PROVE  Safe'
  BY <1>5, KeptData DEF AttachNotifier, DetachNotifier
<1>6. CASE UNCHANGED vars
  BY <1>6, KeptData DEF vars
<1> QED
  BY <1>1, <1>2, <1>3, <1>4, <1>5, <1>6 DEF Next

LEMMA AlwaysSafe == Spec => []Safe
<1>1. Safe /\ [Next]_vars => Safe'
  BY SafeStep
<1> QED
  BY SafeInit, <1>1, PTL DEF Spec

\* A container gives out what it took in, once and in order.
THEOREM ContainersAreFifo == Spec => []ContainerIsFifo
<1>1. Safe => ContainerIsFifo
  BY DEF Safe
<1> QED
  BY <1>1, AlwaysSafe, PTL

\* No buffer grows past its bound, although refresh does not look at what its append
\* says.
THEOREM BuffersAreBounded == Spec => []Bounded
<1>1. Safe => Bounded
  BY DEF Safe
<1> QED
  BY <1>1, AlwaysSafe, PTL

\* A scalar shows every value before it overwrites it.
THEOREM ScalarsLoseNothing == Spec => []ScalarLosesNothing
<1>1. Safe => ScalarLosesNothing
  BY DEF Safe
<1> QED
  BY <1>1, AlwaysSafe, PTL

-----------------------------------------------------------------------------
(* Subscriptions *)

\* How many of the indices kept there are up to each of them.
RankIn(kept) == [i \in kept |-> Cardinality({j \in kept : j <= i})]

\* They are numbered without a gap.
LEMMA Ranks ==
  ASSUME NEW n \in Nat, NEW kept \in SUBSET (1 .. n)
  PROVE  /\ Cardinality(kept) \in Nat
         /\ RankIn(kept) \in [kept -> 1 .. Cardinality(kept)]
         /\ \A k \in 1 .. Cardinality(kept) : \E i \in kept : RankIn(kept)[i] = k
         /\ \A i, j \in kept : RankIn(kept)[i] = RankIn(kept)[j] => i = j
<1> DEFINE Upto(i) == {j \in kept : j <= i}
<1> PICK rank : rank = RankIn(kept)
  OBVIOUS
<1>0. rank = [i \in kept |-> Cardinality(Upto(i))]
  BY DEF RankIn
<1>1. IsFiniteSet(kept) /\ Cardinality(kept) \in Nat
  <2>1. IsFiniteSet(1 .. n)
    BY FS_Interval
  <2>2. IsFiniteSet(kept)
    BY <2>1, FS_Subset
  <2> QED
    BY <2>2, FS_CardinalityType
<1>2. ASSUME NEW i \in kept
      PROVE  /\ Upto(i) \in SUBSET kept /\ i \in Upto(i) /\ IsFiniteSet(Upto(i))
             /\ Cardinality(Upto(i)) \in 1 .. Cardinality(kept)
  <2>1. Upto(i) \in SUBSET kept /\ i \in Upto(i)
    OBVIOUS
  <2>2. /\ IsFiniteSet(Upto(i)) /\ Cardinality(Upto(i)) <= Cardinality(kept)
        /\ Cardinality(Upto(i)) \in Nat
    BY <1>1, <2>1, FS_Subset, FS_CardinalityType
  <2>3. Cardinality(Upto(i)) # 0
    BY <2>1, <2>2, FS_EmptySet
  <2> QED
    BY <1>1, <2>1, <2>2, <2>3
<1>3. rank \in [kept -> 1 .. Cardinality(kept)]
  BY <1>0, <1>2
<1>4. ASSUME NEW i \in kept, NEW j \in kept, rank[i] = rank[j], i <= j PROVE i = j
  <2>1. Upto(i) \in SUBSET Upto(j)
    <3>1. i \in Int /\ j \in Int /\ \A k \in kept : k \in Int
      OBVIOUS
    <3>2. \A k \in kept : k <= i => k <= j
      BY <1>4, <3>1
    <3> QED
      BY <3>2
  <2>2. Cardinality(Upto(i)) = Cardinality(Upto(j))
    BY <1>0, <1>4
  <2>3. Upto(j) = Upto(i)
    BY <1>2, <2>1, <2>2, FS_Subset
  <2>4. j \in Upto(i)
    BY <1>2, <2>3
  <2> QED
    BY <1>4, <2>4
<1>5. \A i, j \in kept : rank[i] = rank[j] => i = j
  <2>1. \A i, j \in kept : i <= j \/ j <= i
    OBVIOUS
  <2> QED
    BY <1>4, <2>1
<1>6. rank \in Injection(kept, 1 .. Cardinality(kept))
  BY <1>3, <1>5 DEF Injection, IsInjective
<1>7. IsFiniteSet(1 .. Cardinality(kept)) /\ Cardinality(1 .. Cardinality(kept)) = Cardinality(kept)
  BY <1>1, FS_Interval
<1>8. rank \in Surjection(kept, 1 .. Cardinality(kept))
  BY <1>6, <1>7, FS_Injection
<1> QED
  BY <1>1, <1>3, <1>5, <1>8 DEF Surjection

\* What is left of a list holds what it held, but for the element taken out.
LEMMA WithoutKeeps ==
  ASSUME NEW V, NEW list \in Seq(V), NEW s
  PROVE  /\ Without(list, s) \in Seq(V)
         /\ ToSet(Without(list, s)) = ToSet(list) \ {s}
<1> DEFINE n    == Len(list)
           kept == {i \in DOMAIN list : list[i] # s}
           Rank(i) == Cardinality({j \in kept : j <= i})
           At(k) == CHOOSE i \in kept : Rank(i) = k
<1>1. n \in Nat /\ DOMAIN list = 1 .. n /\ \A i \in 1 .. n : list[i] \in V
  BY LenProperties, ElementOfSeq
<1>2. \A i \in kept : RankIn(kept)[i] = Rank(i)
  BY DEF RankIn
<1>3. kept \in SUBSET (1 .. n)
  BY <1>1
<1>4. /\ Cardinality(kept) \in Nat
      /\ \A i \in kept : Rank(i) \in 1 .. Cardinality(kept)
      /\ \A k \in 1 .. Cardinality(kept) : \E i \in kept : Rank(i) = k
      /\ \A i, j \in kept : Rank(i) = Rank(j) => i = j
  <2> HIDE DEF kept, n, Rank
  <2>1. n \in Nat /\ kept \in SUBSET (1 .. n)
    BY <1>1, <1>3
  <2>2. /\ Cardinality(kept) \in Nat
        /\ RankIn(kept) \in [kept -> 1 .. Cardinality(kept)]
        /\ \A k \in 1 .. Cardinality(kept) : \E i \in kept : RankIn(kept)[i] = k
        /\ \A i, j \in kept : RankIn(kept)[i] = RankIn(kept)[j] => i = j
    BY <2>1, Ranks
  <2> HIDE DEF Rank
  <2> QED
    BY <1>2, <2>2
<1>5. \A k \in 1 .. Cardinality(kept) : At(k) \in kept /\ Rank(At(k)) = k
  BY <1>4
<1>6. Without(list, s) = [k \in 1 .. Cardinality(kept) |-> list[At(k)]]
  BY DEF Without
<1>7. Without(list, s) \in Seq(V)
  <2>1. \A k \in 1 .. Cardinality(kept) : list[At(k)] \in V
    BY <1>1, <1>3, <1>5
  <2> HIDE DEF kept, At
  <2> QED
    BY <1>4, <1>6, <2>1
<1>8. ASSUME NEW x \in ToSet(Without(list, s)) PROVE x \in ToSet(list) \ {s}
  <2> HIDE DEF At
  <2>1. PICK k \in 1 .. Cardinality(kept) : x = list[At(k)]
    BY <1>6, <1>8 DEF ToSet
  <2> QED
    BY <1>5, <2>1 DEF ToSet
<1>9. ASSUME NEW x \in ToSet(list), x # s PROVE x \in ToSet(Without(list, s))
  <2>1. PICK i \in kept : x = list[i]
    BY <1>9 DEF ToSet
  <2> HIDE DEF kept, At, Rank
  <2>2. PICK k \in 1 .. Cardinality(kept) : k = Rank(i)
    BY <1>4
  <2>3. At(k) = i
    BY <1>4, <1>5, <2>2
  <2>4. Without(list, s)[k] = x /\ DOMAIN Without(list, s) = 1 .. Cardinality(kept)
    BY <1>6, <2>1, <2>3
  <2> QED
    BY <2>4 DEF ToSet
<1> QED
  BY <1>7, <1>8, <1>9

\* One more subscription adds its subscriber.
LEMMA AppendAdds ==
  ASSUME NEW V, NEW list \in Seq(V), NEW s \in V
  PROVE  Append(list, s) \in Seq(V) /\ ToSet(Append(list, s)) = ToSet(list) \cup {s}
<1>1. /\ Append(list, s) \in Seq(V) /\ Len(list) \in Nat
      /\ DOMAIN list = 1 .. Len(list) /\ DOMAIN Append(list, s) = 1 .. Len(list) + 1
      /\ \A i \in 1 .. Len(list) : Append(list, s)[i] = list[i]
      /\ Append(list, s)[Len(list) + 1] = s
  BY AppendProperties, LenProperties
<1>2. 1 .. Len(list) + 1 = (1 .. Len(list)) \cup {Len(list) + 1}
  BY <1>1
<1> QED
  BY <1>1, <1>2 DEF ToSet

\* The bindings have their types and agree with who asked.
Bound == BindingsTypeOK /\ SubscribersMatch

LEMMA BoundInit == Init => Bound
<1>1. <<>> \in Seq(Subscribers) /\ ToSet(<<>>) = {}
  BY EmptySeq DEF ToSet
<1> QED
  BY <1>1 DEF Init, Bound, BindingsTypeOK, SubscribersMatch

\* A call that attaches or detaches changes one list and one set alike.
LEMMA OneBinding ==
  ASSUME Bound, NEW nt \in Notifications, NEW list \in Seq(Subscribers),
         NEW asked \in SUBSET Subscribers, ToSet(list) = asked,
         subs' = [subs EXCEPT ![nt] = list], attached' = [attached EXCEPT ![nt] = asked],
         UNCHANGED told
  PROVE  Bound'
BY DEF Bound, BindingsTypeOK, SubscribersMatch

LEMMA BoundStep == ASSUME Bound, [Next]_vars PROVE Bound'
<1>0. /\ subs \in [Notifications -> Seq(Subscribers)] /\ told \in Seq(Subscribers)
      /\ attached \in [Notifications -> SUBSET Subscribers]
      /\ \A nt \in Notifications : ToSet(subs[nt]) = attached[nt]
  BY DEF Bound, BindingsTypeOK, SubscribersMatch
<1>1. ASSUME UNCHANGED <<subs, attached>>, told' \in Seq(Subscribers) PROVE Bound'
  BY <1>0, <1>1 DEF Bound, BindingsTypeOK, SubscribersMatch
<1>2. ASSUME NEW v \in Values, DoWrite(v) PROVE Bound'
  BY <1>0, <1>1, <1>2 DEF DoWrite
<1>3. ASSUME NEW v \in Values \cup {NoValue}, DoRead(v) PROVE Bound'
  <2>1. Reported(v) \subseteq Notifications
    BY DEF Reported, DataEvent, Notifications
  <2>2. told' \in Seq(Subscribers)
    BY <1>0, <1>3, <2>1 DEF DoRead
  <2> QED
    BY <1>1, <1>3, <2>2 DEF DoRead
<1>4. CASE Enqueue
  BY <1>0, <1>1, <1>4 DEF Enqueue
<1>5. CASE Flush
  BY <1>0, <1>1, <1>5 DEF Flush
<1>6. ASSUME NEW nt \in Attachable, NEW s \in Subscribers, AttachNotifier(nt, s) PROVE Bound'
  <2>1. nt \in Notifications
    BY ValueAssumption
  <2>2. PICK list : list = Append(subs[nt], s)
    OBVIOUS
  <2>3. PICK asked : asked = attached[nt] \cup {s}
    OBVIOUS
  <2>4. list \in Seq(Subscribers) /\ asked \in SUBSET Subscribers /\ ToSet(list) = asked
    BY <1>0, <2>1, <2>2, <2>3, AppendAdds
  <2>5. /\ subs' = [subs EXCEPT ![nt] = list] /\ attached' = [attached EXCEPT ![nt] = asked]
        /\ UNCHANGED told
    BY <1>6, <2>2, <2>3 DEF AttachNotifier
  <2> QED
    BY <2>1, <2>4, <2>5, OneBinding
<1>7. ASSUME NEW nt \in Attachable, NEW s \in Subscribers, DetachNotifier(nt, s) PROVE Bound'
  <2>1. nt \in Notifications
    BY ValueAssumption
  <2>2. PICK list : list = Without(subs[nt], s)
    OBVIOUS
  <2>3. PICK asked : asked = attached[nt] \ {s}
    OBVIOUS
  <2>4. list \in Seq(Subscribers) /\ asked \in SUBSET Subscribers /\ ToSet(list) = asked
    BY <1>0, <2>1, <2>2, <2>3, WithoutKeeps
  <2>5. /\ subs' = [subs EXCEPT ![nt] = list] /\ attached' = [attached EXCEPT ![nt] = asked]
        /\ UNCHANGED told
    BY <1>7, <2>2, <2>3 DEF DetachNotifier
  <2> QED
    BY <2>1, <2>4, <2>5, OneBinding
<1>8. CASE UNCHANGED vars
  BY <1>0, <1>1, <1>8 DEF vars
<1> QED
  BY <1>2, <1>3, <1>4, <1>5, <1>6, <1>7, <1>8 DEF Next

LEMMA AlwaysBound == Spec => []Bound
<1>1. Bound /\ [Next]_vars => Bound'
  BY BoundStep
<1> QED
  BY BoundInit, <1>1, PTL DEF Spec

\* The subscribers to be told of a notification are those that asked and have not
\* been detached since, however often they asked: detachNotifier takes all of a
\* subscriber's entries out of the list and nobody else's.
THEOREM SubscriptionsAgree == Spec => []SubscribersMatch
<1>1. Bound => SubscribersMatch
  BY DEF Bound
<1> QED
  BY <1>1, AlwaysBound, PTL

\* The buffer of every endpoint is well-formed and holds values only, and
\* only subscribers are in the lists and are told.
THEOREM EndpointTypes == Spec => []TypeOK
<1>1. Safe /\ Bound => TypeOK
  BY DEF Safe, Bound, TypeOK
<1> QED
  BY <1>1, AlwaysSafe, AlwaysBound, PTL

-----------------------------------------------------------------------------
(* Refinement: a container's calls are steps of BoundedFifo. *)

\* Taking n values more than those delivered takes them off the front of the contents.
LEMMA Prefix ==
  ASSUME NEW d \in Seq(Values), NEW out \in Seq(Values), NEW rest \in Seq(Values)
  PROVE  /\ SubSeq(d \o (out \o rest), 1, Len(d) + Len(out)) = d \o out
         /\ Len(d \o (out \o rest)) - Len(d) = Len(out) + Len(rest)
<1> DEFINE whole == d \o (out \o rest)
           n     == Len(d) + Len(out)
<1>1. Len(d) \in Nat /\ Len(out) \in Nat /\ Len(rest) \in Nat
  BY LenProperties
<1>2. /\ whole \in Seq(Values) /\ Len(whole) = n + Len(rest)
      /\ d \o out \in Seq(Values) /\ Len(d \o out) = n
  BY <1>1, ConcatProperties
<1>3. whole = (d \o out) \o rest
  BY ValuesAssociate, Zenon
<1>4. \A i \in 1 .. n : whole[i] = (d \o out)[i]
  BY <1>1, <1>2, <1>3, ConcatProperties
<1>5. \A i \in 1 .. n : whole[i] \in Values
  BY <1>2, <1>4, ElementOfSeq
<1>6. /\ SubSeq(whole, 1, n) \in Seq(Values) /\ Len(SubSeq(whole, 1, n)) = n
      /\ \A i \in 1 .. n : SubSeq(whole, 1, n)[i] = whole[i]
  BY <1>1, <1>5, SubSeqProperties
<1>7. SubSeq(whole, 1, n) = d \o out
  BY <1>2, <1>4, <1>6, SeqEqual
<1> QED
  BY <1>1, <1>2, <1>7

LEMMA LenOfRest ==
  ASSUME NEW s \in Seq(Values), NEW t \in Seq(Values)
  PROVE  Len(s \o t) - Len(s) = Len(t)
BY ConcatProperties, LenProperties

\* A call on a container that delivers `out' and accepts `in' is a step of the queue.
LEMMA QueueStep ==
  ASSUME Safe, Safe', IsContainer(buf), SameSpec(buf', buf),
         NEW out \in Seq(Values), NEW in \in {<<>>} \cup {<<v>> : v \in Values},
         NEW rest \in Seq(Values),
         buf.contents = out \o rest,
         delivered' = delivered \o out, accepted' = accepted \o in
  PROVE  F!Next
<1>1. accepted = delivered \o (out \o rest)
  BY DEF Safe, ContainerIsFifo
<1>2. /\ SubSeq(accepted, 1, Len(delivered) + Len(out)) = delivered'
      /\ Len(accepted) - Len(delivered) = Len(out) + Len(rest)
  BY <1>1, DataFacts, Prefix
<1>3. Len(out) \in 0 .. F!Waiting
  BY <1>2, LenProperties DEF F!Waiting
<1>4. buf'.max > 0 => Len(accepted') - Len(delivered') <= buf'.max
  <2>1. IsContainer(buf') /\ buf'.contents \in Seq(Values) /\ delivered' \in Seq(Values)
    BY DEF SameSpec, IsContainer, Safe, DataTypeOK, Buffers
  <2>2. accepted' = delivered' \o buf'.contents
    BY <2>1 DEF Safe, ContainerIsFifo
  <2>3. Len(accepted') - Len(delivered') = Len(buf'.contents)
    BY <2>1, <2>2, LenOfRest
  <2>4. Bounded'
    BY DEF Safe
  <2>5. buf'.max > 0 => Len(buf'.contents) <= buf'.max
    BY <2>1, <2>4 DEF Bounded
  <2> QED
    BY <2>3, <2>5
<1>5. F!Pass(Len(out), in)
  BY <1>2, <1>4 DEF F!Pass, F!Waiting, SameSpec
<1> QED
  BY <1>3, <1>5 DEF F!Next

LEMMA ContainerCallIsQueueStep ==
  ASSUME Safe, Safe', Next, IsContainer(buf)
  PROVE  [F!Next]_<<accepted, delivered, buf.max>>
<1>1. ASSUME NEW v \in Values, DoWrite(v)
      PROVE  F!Next
  <2> DEFINE in == IF Full(buf) THEN <<>> ELSE <<v>>
  <2>1. SameSpec(buf', buf)
    BY <1>1, DataFacts, PutKeeps DEF DoWrite
  <2>2. in \in {<<>>} \cup {<<u>> : u \in Values} /\ accepted' = accepted \o in
    BY <1>1, DataFacts, AppendValue DEF DoWrite
  <2>3. delivered' = delivered \o <<>> /\ buf.contents = <<>> \o buf.contents
    BY <1>1, DataFacts DEF DoWrite
  <2> HIDE DEF in
  <2> QED
    BY <2>1, <2>2, <2>3, DataFacts, QueueStep
<1>2. ASSUME NEW v \in Values \cup {NoValue}, DoRead(v)
      PROVE  F!Next
  <2>1. SameSpec(buf', buf)
    BY <1>2, DataFacts, RefreshedKeeps DEF DoRead
  <2>2. OptionalValue(v) \in {<<>>} \cup {<<u>> : u \in Values}
    BY DEF OptionalValue
  <2> QED
    BY <1>2, <2>1, <2>2, TakeOldest, ReadHistory, QueueStep
<1>3. CASE Enqueue
  <2>1. SameSpec(buf', buf)
    BY <1>3, DataFacts, WithContents DEF Enqueue, Drained
  <2>2. /\ delivered' = delivered \o buf.contents /\ accepted' = accepted \o <<>>
        /\ buf.contents = buf.contents \o <<>>
    BY <1>3, DataFacts DEF Enqueue
  <2> QED
    BY <2>1, <2>2, DataFacts, QueueStep
<1>4. CASE Flush
  <2>1. /\ Flushed(buf) \in Buffers(Values) /\ SameSpec(buf', buf)
        /\ Written(buf) \in Seq(Values) /\ Written(buf) \o Flushed(buf).contents = buf.contents
    BY <1>4, DataFacts, FlushedKeeps DEF Flush
  <2>2. Flushed(buf).contents \in Seq(Values)
    BY <2>1 DEF Buffers
  <2>3. delivered' = delivered \o Written(buf) /\ accepted' = accepted \o <<>>
    BY <1>4, DataFacts DEF Flush
  <2> QED
    BY <2>1, <2>2, <2>3, QueueStep
<1>5. ASSUME NEW nt \in Attachable, NEW s \in Subscribers,
             AttachNotifier(nt, s) \/ DetachNotifier(nt, s)
      PROVE  UNCHANGED <<accepted, delivered, buf.max>>
  BY <1>5 DEF AttachNotifier, DetachNotifier
<1> QED
  BY <1>1, <1>2, <1>3, <1>4, <1>5 DEF Next

\* Whatever the calls, a container's history is one of a bounded queue.
THEOREM ContainersImplementFifo == Spec => ImplementsFifo
<1>1. Init => (IsContainer(buf) => F!Init)
  <2> SUFFICES ASSUME Init PROVE F!Init
    OBVIOUS
  <2>1. buf \in Buffers(Values)
    BY SafeInit DEF Safe, DataTypeOK
  <2> QED
    BY <2>1 DEF Init, F!Init, Buffers
<1>2. Safe /\ Safe' /\ [Next]_vars
        => [IsContainer(buf) => [F!Next]_<<accepted, delivered, buf.max>>]_vars
  BY ContainerCallIsQueueStep
<1> QED
  BY <1>1, <1>2, AlwaysSafe, PTL DEF Spec, ImplementsFifo
==============================================================================
