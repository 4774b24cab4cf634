--------------------------- MODULE CollectionProofs ---------------------------
(***************************************************************************)
(* What holds of the collections of generated C++ programs for every set   *)
(* of elements, every size and every function that is passed.              *)
(***************************************************************************)
EXTENDS Collections, SequenceTheorems, FunctionTheorems, FiniteSetTheorems, TLAPS

-----------------------------------------------------------------------------
(* Induction on the length, over sets *)

\* A set of positions that has an element has a least one: of the intervals that
\* end at its elements, one contains no other.
LEMMA LeastPosition ==
  ASSUME NEW S \in SUBSET (Nat \ {0}), S # {}
  PROVE  \E i \in S : \A j \in S : i <= j
<1> DEFINE T == {1 .. i : i \in S}
<1>1. T \subseteq FiniteSubsetsOf(Nat)
  BY FS_Interval DEF FiniteSubsetsOf
<1>2. PICK x \in T : \A y \in T : ~ (<<y, x>> \in StrictSubsetOrdering(Nat))
  <2>1. T # {}
    OBVIOUS
  <2>2. IsWellFoundedOn(StrictSubsetOrdering(Nat), FiniteSubsetsOf(Nat))
    BY FS_StrictSubsetOrderingWellFounded
  <2> HIDE DEF T
  <2> QED
    BY <1>1, <2>1, <2>2, WFMin
<1>3. PICK i \in S : x = 1 .. i
  OBVIOUS
<1>4. ASSUME NEW j \in S, ~ (i <= j) PROVE FALSE
  <2>1. 1 .. j \in T
    OBVIOUS
  <2>2. /\ 1 .. j \in SUBSET Nat
        /\ x \in SUBSET Nat
        /\ 1 .. j \subseteq x
        /\ i \in x /\ i \notin 1 .. j
    BY <1>3, <1>4
  <2>3. <<1 .. j, x>> \in StrictSubsetOrdering(Nat)
    BY <2>2 DEF StrictSubsetOrdering
  <2> QED
    BY <1>2, <2>1, <2>3
<1> QED
  BY <1>4

\* What holds at 0 and passes from each position to the next holds at all.
LEMMA PositionInduction ==
  ASSUME NEW n \in Nat, NEW P, 0 \in P, \A i \in 1 .. n : i - 1 \in P => i \in P
  PROVE  0 .. n \subseteq P
<1> SUFFICES ASSUME ~ (0 .. n \subseteq P) PROVE FALSE
  OBVIOUS
<1> DEFINE S == {i \in 1 .. n : i \notin P}
<1>1. S \in SUBSET (Nat \ {0}) /\ \A i : i \in S <=> i \in 1 .. n /\ i \notin P
  OBVIOUS
<1>2. S # {}
  BY <1>1
<1> HIDE DEF S
<1>3. PICK i \in S : \A j \in S : i <= j
  BY <1>1, <1>2, LeastPosition
<1>4. i \in 1 .. n /\ i \notin P /\ i - 1 \in 0 .. n /\ ~ (i <= i - 1)
  BY <1>1, <1>3
<1>5. i - 1 \in P
  BY <1>1, <1>3, <1>4
<1> QED
  BY <1>4, <1>5

\* A set of lists that has the empty one, and each of its lists with one element
\* more, has all.
LEMMA ListInduction ==
  ASSUME NEW E, NEW P, <<>> \in P,
         \A s \in Seq(E), e \in E : s \in P => Append(s, e) \in P
  PROVE  Seq(E) \subseteq P
<1> SUFFICES ASSUME NEW s \in Seq(E) PROVE s \in P
  OBVIOUS
<1> DEFINE Q == {i \in 0 .. Len(s) : SubSeq(s, 1, i) \in P}
<1>1. \A i : i \in Q <=> i \in 0 .. Len(s) /\ SubSeq(s, 1, i) \in P
  OBVIOUS
<1>2. Len(s) \in Nat /\ 0 \in 0 .. Len(s) /\ Len(s) \in 0 .. Len(s)
  OBVIOUS
<1> HIDE DEF Q
<1>3. 0 \in Q
  <2>1. SubSeq(s, 1, 0) = <<>>
    BY SubSeqEmpty
  <2> QED
    BY <1>1, <1>2, <2>1
<1>4. ASSUME NEW i \in 1 .. Len(s), i - 1 \in Q PROVE i \in Q
  <2>1. /\ 1 \in 1 .. Len(s) /\ i \in Int /\ i - 1 \in Int /\ i \in 0 .. Len(s)
    BY <1>2
  <2>2. SubSeq(s, 1, i) = SubSeq(s, 1, i - 1) \o <<s[i]>>
    BY <2>1, SubSeqRecursiveSecond
  <2>3. s[i] \in E
    BY ElementOfSeq
  <2>4. SubSeq(s, 1, i - 1) \in Seq(E)
    BY <2>1, SubSeqProperties, ElementOfSeq
  <2>5. Append(SubSeq(s, 1, i - 1), s[i]) = SubSeq(s, 1, i)
    BY <2>2, <2>3, <2>4, AppendIsConcat
  <2>6. SubSeq(s, 1, i - 1) \in P
    BY <1>1, <1>4
  <2>7. SubSeq(s, 1, i) \in P
    BY <2>3, <2>4, <2>5, <2>6
  <2> QED
    BY <1>1, <2>1, <2>7
<1>5. 0 .. Len(s) \subseteq Q
  BY <1>2, <1>3, <1>4, PositionInduction
<1>6. SubSeq(s, 1, Len(s)) = s
  BY SubSeqFull
<1> QED
  BY <1>1, <1>2, <1>5, <1>6

-----------------------------------------------------------------------------
(* Loops over a list *)

\* The functions that make a value of A of a value of A and an element.
Steps(A, E) == [A \X E -> A]

Step(f, x, e) == f[<<x, e>>]

LEMMA StepIn ==
  ASSUME NEW A, NEW E, NEW f \in Steps(A, E), NEW x \in A, NEW e \in E
  PROVE  Step(f, x, e) \in A
BY DEF Steps, Step

LEMMA RunExists ==
  ASSUME NEW A, NEW E, NEW f \in Steps(A, E), NEW z \in A, NEW s \in Seq(E)
  PROVE  \E r \in [0 .. Len(s) -> A] :
           r[0] = z /\ \A i \in 1 .. Len(s) : r[i] = Step(f, r[i - 1], s[i])
<1> DEFINE RunTo(n) == \E r \in [0 .. n -> A] :
                         r[0] = z /\ \A i \in 1 .. n : r[i] = Step(f, r[i - 1], s[i])
           Q == {n \in 0 .. Len(s) : RunTo(n)}
<1>1. Len(s) \in Nat /\ Len(s) \in 0 .. Len(s) /\ 0 \in 0 .. Len(s)
  OBVIOUS
<1>2. RunTo(0)
  <2>1. PICK r \in [0 .. 0 -> A] : r = [i \in 0 .. 0 |-> z]
    OBVIOUS
  <2>2. r[0] = z /\ 1 .. 0 = {}
    BY <2>1
  <2> QED
    BY <2>2
<1>3. ASSUME NEW n \in 1 .. Len(s), RunTo(n - 1) PROVE RunTo(n)
  <2>1. PICK r \in [0 .. n - 1 -> A] :
          r[0] = z /\ \A i \in 1 .. n - 1 : r[i] = Step(f, r[i - 1], s[i])
    BY <1>3
  <2>2. n - 1 \in 0 .. n - 1 /\ s[n] \in E
    BY ElementOfSeq
  <2>3. PICK x \in A : x = Step(f, r[n - 1], s[n])
    BY <2>1, <2>2, StepIn
  <2> DEFINE q == [i \in 0 .. n |-> IF i = n THEN x ELSE r[i]]
  <2>4. q \in [0 .. n -> A]
    BY <2>1
  <2>5. q[0] = z
    BY <2>1
  <2>6. ASSUME NEW i \in 1 .. n PROVE q[i] = Step(f, q[i - 1], s[i])
    <3>1. i - 1 \in 0 .. n /\ i - 1 # n
      OBVIOUS
    <3>2. q[i - 1] = r[i - 1]
      BY <3>1
    <3>3. CASE i = n
      BY <2>3, <3>2, <3>3
    <3>4. CASE i # n
      <4>1. i \in 1 .. n - 1 /\ q[i] = r[i]
        BY <3>4
      <4> QED
        BY <2>1, <3>2, <4>1
    <3> QED
      BY <3>3, <3>4
  <2> HIDE DEF q
  <2> QED
    BY <2>4, <2>5, <2>6
<1> HIDE DEF RunTo
<1>4. \A i \in 1 .. Len(s) : i - 1 \in 0 .. Len(s)
  OBVIOUS
<1>5. \A n : n \in Q <=> n \in 0 .. Len(s) /\ RunTo(n)
  OBVIOUS
<1> HIDE DEF Q
<1>6. 0 \in Q /\ \A i \in 1 .. Len(s) : i - 1 \in Q => i \in Q
  <2>1. \A i \in 1 .. Len(s) : i \in 0 .. Len(s)
    OBVIOUS
  <2> QED
    BY <1>1, <1>2, <1>3, <1>4, <1>5, <2>1
<1>7. 0 .. Len(s) \subseteq Q
  BY <1>1, <1>6, PositionInduction
<1> QED
  BY <1>1, <1>5, <1>7 DEF RunTo

\* The values of the variable of fold.
FoldRun(s, f, z) ==
  CHOOSE r : r = [n \in 0 .. Len(s) |-> IF n = 0 THEN z ELSE Step(f, r[n - 1], s[n])]

LEMMA FoldIsRun == ASSUME NEW s, NEW f, NEW z PROVE Fold(s, f, z) = FoldRun(s, f, z)[Len(s)]
BY DEF Fold, Loop, FoldRun, Step

LEMMA FoldRuns ==
  ASSUME NEW A, NEW E, NEW f \in Steps(A, E), NEW z \in A, NEW s \in Seq(E)
  PROVE  /\ FoldRun(s, f, z) \in [0 .. Len(s) -> A]
         /\ FoldRun(s, f, z)[0] = z
         /\ \A i \in 1 .. Len(s) : FoldRun(s, f, z)[i] = Step(f, FoldRun(s, f, z)[i - 1], s[i])
<1>1. PICK r \in [0 .. Len(s) -> A] :
        r[0] = z /\ \A i \in 1 .. Len(s) : r[i] = Step(f, r[i - 1], s[i])
  BY RunExists
<1>2. r = [n \in 0 .. Len(s) |-> IF n = 0 THEN z ELSE Step(f, r[n - 1], s[n])]
  <2>1. \A n \in 0 .. Len(s) : r[n] = IF n = 0 THEN z ELSE Step(f, r[n - 1], s[n])
    BY <1>1
  <2> QED
    BY <1>1, <2>1
<1>3. PICK q : q = FoldRun(s, f, z)
  OBVIOUS
<1>4. q = [n \in 0 .. Len(s) |-> IF n = 0 THEN z ELSE Step(f, q[n - 1], s[n])]
  BY <1>2, <1>3 DEF FoldRun
<1>5. Len(s) \in Nat
  OBVIOUS
<1>6. DOMAIN q = 0 .. Len(s) /\ q[0] = z /\ \A i \in 1 .. Len(s) : q[i] = Step(f, q[i - 1], s[i])
  BY <1>4, <1>5
<1>7. \A i \in 0 .. Len(s) : q[i] = r[i]
  <2> DEFINE P == {i \in 0 .. Len(s) : q[i] = r[i]}
  <2>1. 0 \in P
    BY <1>1, <1>5, <1>6
  <2>2. \A i \in 1 .. Len(s) : i - 1 \in P => i \in P
    BY <1>1, <1>5, <1>6
  <2> HIDE DEF P
  <2>3. 0 .. Len(s) \subseteq P
    BY <1>5, <2>1, <2>2, PositionInduction
  <2> QED
    BY <2>3 DEF P
<1>8. q = [n \in 0 .. Len(s) |-> q[n]]
  BY <1>4
<1>9. q \in [0 .. Len(s) -> A]
  BY <1>1, <1>7, <1>8
<1> QED
  BY <1>3, <1>6, <1>9

LEMMA FoldEmpty ==
  ASSUME NEW A, NEW E, NEW f \in Steps(A, E), NEW z \in A
  PROVE  Fold(<<>>, f, z) = z
<1>1. PICK s \in Seq(E) : s = <<>> /\ Len(s) = 0
  <2>1. <<>> \in Seq(E) /\ Len(<<>>) = 0
    BY EmptySeq
  <2> QED
    BY <2>1
<1>2. FoldRun(s, f, z)[0] = z
  BY FoldRuns
<1>3. Fold(s, f, z) = z
  BY <1>1, <1>2, FoldIsRun
<1> QED
  BY <1>1, <1>3

LEMMA FoldIn ==
  ASSUME NEW A, NEW E, NEW f \in Steps(A, E), NEW z \in A, NEW s \in Seq(E)
  PROVE  Fold(s, f, z) \in A
<1>1. Len(s) \in 0 .. Len(s)
  OBVIOUS
<1>2. FoldRun(s, f, z) \in [0 .. Len(s) -> A]
  BY FoldRuns
<1> QED
  BY <1>1, <1>2, FoldIsRun

LEMMA FoldAppend ==
  ASSUME NEW A, NEW E, NEW f \in Steps(A, E), NEW z \in A, NEW s \in Seq(E), NEW e \in E
  PROVE  Fold(Append(s, e), f, z) = Step(f, Fold(s, f, z), e)
<1> DEFINE t == Append(s, e)
<1>1. t \in Seq(E) /\ Len(t) = Len(s) + 1 /\ t[Len(s) + 1] = e /\ Len(s) \in Nat
  OBVIOUS
<1>2. \A i \in 1 .. Len(s) : t[i] = s[i]
  OBVIOUS
<1> HIDE DEF t
<1>3. PICK q : q = FoldRun(s, f, z)
  OBVIOUS
<1>4. PICK r : r = FoldRun(t, f, z)
  OBVIOUS
<1>5. q[0] = z /\ \A i \in 1 .. Len(s) : q[i] = Step(f, q[i - 1], s[i])
  BY <1>3, FoldRuns
<1>6. r[0] = z /\ \A i \in 1 .. Len(t) : r[i] = Step(f, r[i - 1], t[i])
  BY <1>1, <1>4, FoldRuns
<1>7. q[Len(s)] = r[Len(s)]
  <2> DEFINE P == {i \in 0 .. Len(s) : q[i] = r[i]}
  <2>1. 0 \in P
    BY <1>1, <1>5, <1>6
  <2>2. \A i \in 1 .. Len(s) : i - 1 \in P => i \in P
    BY <1>1, <1>2, <1>5, <1>6
  <2> HIDE DEF P
  <2>3. 0 .. Len(s) \subseteq P
    BY <1>1, <2>1, <2>2, PositionInduction
  <2> QED
    BY <1>1, <2>3 DEF P
<1>8. r[Len(t)] = Step(f, r[Len(s)], e)
  BY <1>1, <1>6
<1>9. Fold(s, f, z) = q[Len(s)] /\ Fold(t, f, z) = r[Len(t)]
  BY <1>3, <1>4, FoldIsRun
<1> QED
  BY <1>7, <1>8, <1>9 DEF t

\* Whatever goes through the loop as fold does ends where fold does.
LEMMA RunUnique ==
  ASSUME NEW A, NEW E, NEW f \in Steps(A, E), NEW z \in A, NEW s \in Seq(E), NEW q,
         q[0] = z, \A i \in 1 .. Len(s) : q[i - 1] \in A => q[i] = Step(f, q[i - 1], s[i])
  PROVE  q[Len(s)] = Fold(s, f, z)
<1>1. PICK r : r = FoldRun(s, f, z)
  OBVIOUS
<1>2. r \in [0 .. Len(s) -> A]
  BY <1>1, FoldRuns
<1>3. r[0] = z /\ \A i \in 1 .. Len(s) : r[i] = Step(f, r[i - 1], s[i])
  BY <1>1, FoldRuns
<1>4. Len(s) \in Nat
  OBVIOUS
<1> DEFINE P == {i \in 0 .. Len(s) : q[i] = r[i]}
<1>5. 0 \in P
  BY <1>3, <1>4
<1>6. ASSUME NEW i \in 1 .. Len(s), i - 1 \in P PROVE i \in P
  <2>1. q[i - 1] = r[i - 1] /\ r[i - 1] \in A
    BY <1>2, <1>6
  <2>2. q[i] = r[i]
    BY <1>3, <2>1
  <2> QED
    BY <2>2
<1>7. \A i \in P : q[i] = r[i]
  OBVIOUS
<1> HIDE DEF P
<1>8. 0 .. Len(s) \subseteq P
  BY <1>4, <1>5, <1>6, PositionInduction
<1>9. q[Len(s)] = r[Len(s)]
  BY <1>4, <1>7, <1>8
<1> QED
  BY <1>1, <1>9, FoldIsRun

\* filter folds with a function that keeps an element or not.
FilterStep(E, p) == [x \in Seq(E) \X E |-> IF p[x[2]] THEN Append(x[1], x[2]) ELSE x[1]]

FilterRun(s, p) ==
  CHOOSE r : r = [n \in 0 .. Len(s) |->
                    IF n = 0 THEN <<>> ELSE IF p[s[n]] THEN Append(r[n - 1], s[n]) ELSE r[n - 1]]

LEMMA FilterSteps ==
  ASSUME NEW E, NEW p
  PROVE  /\ FilterStep(E, p) \in Steps(Seq(E), E)
         /\ \A x \in Seq(E), e \in E :
              Step(FilterStep(E, p), x, e) = IF p[e] THEN Append(x, e) ELSE x
<1>1. \A x \in Seq(E), e \in E : Append(x, e) \in Seq(E)
  OBVIOUS
<1> QED
  BY <1>1 DEF FilterStep, Steps, Step

LEMMA FilterIsRun == ASSUME NEW s, NEW p PROVE Filter(s, p) = FilterRun(s, p)[Len(s)]
BY DEF Filter, Loop, FilterRun

LEMMA FilterIsFold ==
  ASSUME NEW E, NEW p, NEW s \in Seq(E)
  PROVE  Filter(s, p) = Fold(s, FilterStep(E, p), <<>>)
<1>1. PICK f \in Steps(Seq(E), E) : f = FilterStep(E, p)
  BY FilterSteps
<1>2. \A x \in Seq(E), e \in E : Step(f, x, e) = IF p[e] THEN Append(x, e) ELSE x
  BY <1>1, FilterSteps
<1>3. PICK z \in Seq(E) : z = <<>>
  BY EmptySeq
<1>4. PICK r : r = FoldRun(s, f, z)
  OBVIOUS
<1>5. r \in [0 .. Len(s) -> Seq(E)]
  BY <1>4, FoldRuns
<1>6. r[0] = z /\ \A i \in 1 .. Len(s) : r[i] = Step(f, r[i - 1], s[i])
  BY <1>4, FoldRuns
<1>7. Len(s) \in Nat /\ \A i \in 1 .. Len(s) : s[i] \in E /\ i - 1 \in 0 .. Len(s)
  BY ElementOfSeq
<1>8. \A i \in 1 .. Len(s) : r[i] = IF p[s[i]] THEN Append(r[i - 1], s[i]) ELSE r[i - 1]
  BY <1>2, <1>5, <1>6, <1>7
<1>9. r = [n \in 0 .. Len(s) |->
             IF n = 0 THEN <<>> ELSE IF p[s[n]] THEN Append(r[n - 1], s[n]) ELSE r[n - 1]]
  <2>1. \A n \in 0 .. Len(s) :
          r[n] = IF n = 0 THEN <<>> ELSE IF p[s[n]] THEN Append(r[n - 1], s[n]) ELSE r[n - 1]
    BY <1>3, <1>6, <1>7, <1>8
  <2> QED
    BY <1>5, <2>1
<1>10. PICK q : q = FilterRun(s, p)
  OBVIOUS
<1>11. q = [n \in 0 .. Len(s) |->
             IF n = 0 THEN <<>> ELSE IF p[s[n]] THEN Append(q[n - 1], s[n]) ELSE q[n - 1]]
  BY <1>9, <1>10 DEF FilterRun
<1>12. q[0] = z
  BY <1>3, <1>7, <1>11
<1>13. \A i \in 1 .. Len(s) : q[i] = IF p[s[i]] THEN Append(q[i - 1], s[i]) ELSE q[i - 1]
  <2>1. \A i \in 0 .. Len(s) :
          q[i] = IF i = 0 THEN <<>> ELSE IF p[s[i]] THEN Append(q[i - 1], s[i]) ELSE q[i - 1]
    BY <1>11
  <2>2. \A i \in 1 .. Len(s) : i \in 0 .. Len(s) /\ i # 0
    BY <1>7
  <2> QED
    BY <2>1, <2>2
<1>14. \A i \in 1 .. Len(s) : q[i - 1] \in Seq(E) => q[i] = Step(f, q[i - 1], s[i])
  BY <1>2, <1>7, <1>13
<1>15. q[Len(s)] = Fold(s, f, z)
  BY <1>12, <1>14, RunUnique
<1> QED
  BY <1>1, <1>3, <1>10, <1>15, FilterIsRun

\* ext folds with a function that appends a list.
ExtStep(E, T, f) == [x \in Seq(T) \X E |-> x[1] \o f[x[2]]]

ExtRun(s, f) == CHOOSE r : r = [n \in 0 .. Len(s) |-> IF n = 0 THEN <<>> ELSE r[n - 1] \o f[s[n]]]

LEMMA ExtSteps ==
  ASSUME NEW E, NEW T, NEW f \in [E -> Seq(T)]
  PROVE  /\ ExtStep(E, T, f) \in Steps(Seq(T), E)
         /\ \A x \in Seq(T), e \in E : Step(ExtStep(E, T, f), x, e) = x \o f[e]
<1>1. \A x \in Seq(T), e \in E : x \o f[e] \in Seq(T)
  BY ConcatProperties
<1> QED
  BY <1>1 DEF ExtStep, Steps, Step

LEMMA ExtIsRun == ASSUME NEW s, NEW f PROVE Ext(s, f) = ExtRun(s, f)[Len(s)]
BY DEF Ext, Loop, ExtRun

LEMMA ExtIsFold ==
  ASSUME NEW E, NEW T, NEW f \in [E -> Seq(T)], NEW s \in Seq(E)
  PROVE  Ext(s, f) = Fold(s, ExtStep(E, T, f), <<>>)
<1>1. /\ ExtStep(E, T, f) \in Steps(Seq(T), E)
      /\ \A x \in Seq(T), e \in E : Step(ExtStep(E, T, f), x, e) = x \o f[e]
  BY ExtSteps
<1>2. PICK g \in Steps(Seq(T), E) :
        g = ExtStep(E, T, f) /\ \A x \in Seq(T), e \in E : Step(g, x, e) = x \o f[e]
  BY <1>1
<1>3. PICK z \in Seq(T) : z = <<>>
  BY EmptySeq
<1>4. PICK r : r = FoldRun(s, g, z)
  OBVIOUS
<1>5. r \in [0 .. Len(s) -> Seq(T)]
  BY <1>4, FoldRuns
<1>6. r[0] = z /\ \A i \in 1 .. Len(s) : r[i] = Step(g, r[i - 1], s[i])
  BY <1>4, FoldRuns
<1>7. Len(s) \in Nat /\ \A i \in 1 .. Len(s) : s[i] \in E /\ i - 1 \in 0 .. Len(s)
  BY ElementOfSeq
<1>8. \A i \in 1 .. Len(s) : r[i] = r[i - 1] \o f[s[i]]
  BY <1>2, <1>5, <1>6, <1>7
<1>9. r = [n \in 0 .. Len(s) |-> IF n = 0 THEN <<>> ELSE r[n - 1] \o f[s[n]]]
  <2>1. ASSUME NEW n \in 0 .. Len(s)
        PROVE  r[n] = IF n = 0 THEN <<>> ELSE r[n - 1] \o f[s[n]]
    <3>1. CASE n = 0
      BY <1>3, <1>6, <3>1
    <3>2. CASE n # 0
      <4>1. n \in 1 .. Len(s)
        BY <1>7, <3>2
      <4> QED
        BY <1>8, <3>2, <4>1
    <3> QED
      BY <3>1, <3>2
  <2> QED
    BY <1>5, <2>1
<1>10. PICK q : q = ExtRun(s, f)
  OBVIOUS
<1>11. q = [n \in 0 .. Len(s) |-> IF n = 0 THEN <<>> ELSE q[n - 1] \o f[s[n]]]
  BY <1>9, <1>10 DEF ExtRun
<1>12. q[0] = z
  BY <1>3, <1>7, <1>11
<1>13. \A i \in 1 .. Len(s) : q[i] = q[i - 1] \o f[s[i]]
  <2>1. \A i \in 0 .. Len(s) : q[i] = IF i = 0 THEN <<>> ELSE q[i - 1] \o f[s[i]]
    BY <1>11
  <2>2. \A i \in 1 .. Len(s) : i \in 0 .. Len(s) /\ i # 0
    BY <1>7
  <2> QED
    BY <2>1, <2>2
<1>14. \A i \in 1 .. Len(s) : q[i - 1] \in Seq(T) => q[i] = Step(g, q[i - 1], s[i])
  BY <1>2, <1>7, <1>13
<1>15. q[Len(s)] = Fold(s, g, z)
  BY <1>12, <1>14, RunUnique
<1> QED
  BY <1>2, <1>3, <1>10, <1>15, ExtIsRun

\* group_by folds with a function that adds an element to its group: a map from
\* keys to what the groups give.
GroupMaps(K, Z) == UNION {[D -> Z] : D \in SUBSET K}

Grouped(m, k, e, f, z) ==
  [j \in DOMAIN m \cup {k} |->
     IF j # k THEN m[j] ELSE IF j \in DOMAIN m THEN Step(f, e, m[j]) ELSE Step(f, z, e)]

GroupStep(E, K, Z, g, f, z) == [x \in GroupMaps(K, Z) \X E |-> Grouped(x[1], g[x[2]], x[2], f, z)]

GroupRun(s, g, f, z) ==
  CHOOSE r : r = [n \in 0 .. Len(s) |->
                    IF n = 0 THEN <<>> ELSE Grouped(r[n - 1], g[s[n]], s[n], f, z)]

LEMMA GroupedIn ==
  ASSUME NEW K, NEW Z, NEW f \in Steps(Z, Z), NEW z \in Z,
         NEW m \in GroupMaps(K, Z), NEW k \in K, NEW e \in Z
  PROVE  Grouped(m, k, e, f, z) \in GroupMaps(K, Z)
<1>1. PICK D \in SUBSET K : m \in [D -> Z]
  BY DEF GroupMaps
<1>2. D \cup {k} \in SUBSET K /\ DOMAIN m = D
  BY <1>1
<1>3. Step(f, z, e) \in Z /\ \A j \in D : m[j] \in Z /\ Step(f, e, m[j]) \in Z
  BY <1>1, StepIn
<1>4. Grouped(m, k, e, f, z) \in [D \cup {k} -> Z]
  BY <1>1, <1>2, <1>3 DEF Grouped
<1> QED
  BY <1>2, <1>4 DEF GroupMaps

LEMMA GroupSteps ==
  ASSUME NEW K, NEW Z, NEW E, NEW g, \A e \in E : e \in Z /\ g[e] \in K,
         NEW f \in Steps(Z, Z), NEW z \in Z
  PROVE  /\ GroupStep(E, K, Z, g, f, z) \in Steps(GroupMaps(K, Z), E)
         /\ \A x \in GroupMaps(K, Z), e \in E :
              Step(GroupStep(E, K, Z, g, f, z), x, e) = Grouped(x, g[e], e, f, z)
<1>1. \A x \in GroupMaps(K, Z), e \in E : Grouped(x, g[e], e, f, z) \in GroupMaps(K, Z)
  BY GroupedIn
<1> QED
  BY <1>1 DEF GroupStep, Steps, Step

LEMMA GroupsIsRun ==
  ASSUME NEW s, NEW g, NEW f, NEW z
  PROVE  Groups(s, g, f, z) = GroupRun(s, g, f, z)[Len(s)]
BY DEF Groups, Loop, GroupRun, Grouped, Step

LEMMA NoGroups == ASSUME NEW K, NEW Z PROVE <<>> \in GroupMaps(K, Z)
<1>1. <<>> \in [{} -> Z]
  BY EmptySeq, LenProperties
<1>2. {} \in SUBSET K
  OBVIOUS
<1> QED
  BY <1>1, <1>2 DEF GroupMaps

LEMMA GroupsIsFold ==
  ASSUME NEW K, NEW Z, NEW E, NEW g, \A e \in E : e \in Z /\ g[e] \in K,
         NEW f \in Steps(Z, Z), NEW z \in Z, NEW s \in Seq(E)
  PROVE  Groups(s, g, f, z) = Fold(s, GroupStep(E, K, Z, g, f, z), <<>>)
<1>1. /\ GroupStep(E, K, Z, g, f, z) \in Steps(GroupMaps(K, Z), E)
      /\ \A x \in GroupMaps(K, Z), e \in E :
           Step(GroupStep(E, K, Z, g, f, z), x, e) = Grouped(x, g[e], e, f, z)
  BY GroupSteps
<1>2. PICK h \in Steps(GroupMaps(K, Z), E) :
        /\ h = GroupStep(E, K, Z, g, f, z)
        /\ \A x \in GroupMaps(K, Z), e \in E : Step(h, x, e) = Grouped(x, g[e], e, f, z)
  BY <1>1
<1>3. PICK none \in GroupMaps(K, Z) : none = <<>>
  BY NoGroups
<1>4. PICK r : r = FoldRun(s, h, none)
  OBVIOUS
<1>5. r \in [0 .. Len(s) -> GroupMaps(K, Z)]
  BY <1>4, FoldRuns
<1>6. r[0] = none /\ \A i \in 1 .. Len(s) : r[i] = Step(h, r[i - 1], s[i])
  BY <1>4, FoldRuns
<1>7. Len(s) \in Nat /\ \A i \in 1 .. Len(s) : s[i] \in E /\ i - 1 \in 0 .. Len(s)
  BY ElementOfSeq
<1>8. \A i \in 1 .. Len(s) : r[i] = Grouped(r[i - 1], g[s[i]], s[i], f, z)
  BY <1>2, <1>5, <1>6, <1>7
<1>9. r = [n \in 0 .. Len(s) |-> IF n = 0 THEN <<>> ELSE Grouped(r[n - 1], g[s[n]], s[n], f, z)]
  <2>1. \A n \in 0 .. Len(s) :
          r[n] = IF n = 0 THEN <<>> ELSE Grouped(r[n - 1], g[s[n]], s[n], f, z)
    BY <1>3, <1>6, <1>7, <1>8
  <2> QED
    BY <1>5, <2>1
<1>10. PICK q : q = GroupRun(s, g, f, z)
  OBVIOUS
<1>11. q = [n \in 0 .. Len(s) |-> IF n = 0 THEN <<>> ELSE Grouped(q[n - 1], g[s[n]], s[n], f, z)]
  BY <1>9, <1>10 DEF GroupRun
<1>12. q[0] = none
  BY <1>3, <1>7, <1>11
<1>13. \A i \in 1 .. Len(s) : q[i] = Grouped(q[i - 1], g[s[i]], s[i], f, z)
  <2>1. \A i \in 0 .. Len(s) :
          q[i] = IF i = 0 THEN <<>> ELSE Grouped(q[i - 1], g[s[i]], s[i], f, z)
    BY <1>11
  <2>2. \A i \in 1 .. Len(s) : i \in 0 .. Len(s) /\ i # 0
    BY <1>7
  <2> QED
    BY <2>1, <2>2
<1>14. \A i \in 1 .. Len(s) : q[i - 1] \in GroupMaps(K, Z) => q[i] = Step(h, q[i - 1], s[i])
  BY <1>2, <1>7, <1>13
<1>15. q[Len(s)] = Fold(s, h, none)
  BY <1>12, <1>14, RunUnique
<1> QED
  BY <1>2, <1>3, <1>10, <1>15, GroupsIsRun

-----------------------------------------------------------------------------
(* What the loops give for the empty list and for one element more *)

LEMMA FilterLaws ==
  ASSUME NEW E, NEW p
  PROVE  /\ Filter(<<>>, p) = <<>>
         /\ \A s \in Seq(E) : Filter(s, p) \in Seq(E)
         /\ \A s \in Seq(E), e \in E :
              Filter(Append(s, e), p) = IF p[e] THEN Append(Filter(s, p), e) ELSE Filter(s, p)
<1>1. /\ FilterStep(E, p) \in Steps(Seq(E), E)
      /\ \A x \in Seq(E), e \in E : Step(FilterStep(E, p), x, e) = IF p[e] THEN Append(x, e) ELSE x
  BY FilterSteps
<1>2. PICK f \in Steps(Seq(E), E) :
        /\ f = FilterStep(E, p)
        /\ \A x \in Seq(E), e \in E : Step(f, x, e) = IF p[e] THEN Append(x, e) ELSE x
  BY <1>1
<1>3. PICK z \in Seq(E) : z = <<>>
  BY EmptySeq
<1>4. \A s \in Seq(E) : Filter(s, p) = Fold(s, f, z)
  BY <1>2, <1>3, FilterIsFold
<1>5. \A s \in Seq(E) : Fold(s, f, z) \in Seq(E)
  BY FoldIn
<1>6. Fold(z, f, z) = z
  BY <1>3, FoldEmpty
<1>7. ASSUME NEW s \in Seq(E), NEW e \in E
      PROVE  Filter(Append(s, e), p) = IF p[e] THEN Append(Filter(s, p), e) ELSE Filter(s, p)
  <2>1. Fold(Append(s, e), f, z) = Step(f, Fold(s, f, z), e)
    BY FoldAppend
  <2>2. Append(s, e) \in Seq(E)
    BY AppendProperties
  <2> QED
    BY <1>2, <1>4, <1>5, <2>1, <2>2
<1> QED
  BY <1>3, <1>4, <1>5, <1>6, <1>7

LEMMA ExtLaws ==
  ASSUME NEW E, NEW T, NEW f \in [E -> Seq(T)]
  PROVE  /\ Ext(<<>>, f) = <<>>
         /\ \A s \in Seq(E) : Ext(s, f) \in Seq(T)
         /\ \A s \in Seq(E), e \in E : Ext(Append(s, e), f) = Ext(s, f) \o f[e]
<1>1. /\ ExtStep(E, T, f) \in Steps(Seq(T), E)
      /\ \A x \in Seq(T), e \in E : Step(ExtStep(E, T, f), x, e) = x \o f[e]
  BY ExtSteps
<1>2. PICK g \in Steps(Seq(T), E) :
        g = ExtStep(E, T, f) /\ \A x \in Seq(T), e \in E : Step(g, x, e) = x \o f[e]
  BY <1>1
<1>3. PICK z \in Seq(T) : z = <<>>
  BY EmptySeq
<1>4. \A s \in Seq(E) : Ext(s, f) = Fold(s, g, z)
  BY <1>2, <1>3, ExtIsFold
<1>5. \A s \in Seq(E) : Fold(s, g, z) \in Seq(T)
  BY FoldIn
<1>6. Fold(<<>>, g, z) = z
  BY FoldEmpty
<1>7. ASSUME NEW s \in Seq(E), NEW e \in E PROVE Ext(Append(s, e), f) = Ext(s, f) \o f[e]
  <2>1. Fold(Append(s, e), g, z) = Step(g, Fold(s, g, z), e)
    BY FoldAppend
  <2>2. Append(s, e) \in Seq(E)
    BY AppendProperties
  <2> QED
    BY <1>2, <1>4, <1>5, <2>1, <2>2
<1>8. <<>> \in Seq(E)
  BY EmptySeq
<1> QED
  BY <1>3, <1>4, <1>5, <1>6, <1>7, <1>8

GroupsGrow(K, Z, E, g, f, z) ==
  /\ Groups(<<>>, g, f, z) = <<>>
  /\ \A s \in Seq(E) : Groups(s, g, f, z) \in GroupMaps(K, Z)
  /\ \A s \in Seq(E), e \in E :
       Groups(Append(s, e), g, f, z) = Grouped(Groups(s, g, f, z), g[e], e, f, z)

LEMMA GroupsLaws ==
  ASSUME NEW K, NEW Z, NEW E, NEW g, \A e \in E : e \in Z /\ g[e] \in K,
         NEW f \in Steps(Z, Z), NEW z \in Z
  PROVE  GroupsGrow(K, Z, E, g, f, z)
<1>1. /\ GroupStep(E, K, Z, g, f, z) \in Steps(GroupMaps(K, Z), E)
      /\ \A x \in GroupMaps(K, Z), e \in E :
           Step(GroupStep(E, K, Z, g, f, z), x, e) = Grouped(x, g[e], e, f, z)
  BY GroupSteps
<1>2. PICK h \in Steps(GroupMaps(K, Z), E) :
        /\ h = GroupStep(E, K, Z, g, f, z)
        /\ \A x \in GroupMaps(K, Z), e \in E : Step(h, x, e) = Grouped(x, g[e], e, f, z)
  BY <1>1
<1>3. PICK none \in GroupMaps(K, Z) : none = <<>>
  BY NoGroups
<1>4. ASSUME NEW s \in Seq(E) PROVE Groups(s, g, f, z) = Fold(s, h, none)
  <2>1. Groups(s, g, f, z) = Fold(s, GroupStep(E, K, Z, g, f, z), <<>>)
    BY GroupsIsFold
  <2> QED
    BY <1>2, <1>3, <2>1
<1>5. \A s \in Seq(E) : Fold(s, h, none) \in GroupMaps(K, Z)
  BY FoldIn
<1>6. Fold(<<>>, h, none) = none
  BY FoldEmpty
<1>7. ASSUME NEW s \in Seq(E), NEW e \in E
      PROVE  Groups(Append(s, e), g, f, z) = Grouped(Groups(s, g, f, z), g[e], e, f, z)
  <2>1. Fold(Append(s, e), h, none) = Step(h, Fold(s, h, none), e)
    BY FoldAppend
  <2>2. Append(s, e) \in Seq(E)
    BY AppendProperties
  <2> QED
    BY <1>2, <1>4, <1>5, <2>1, <2>2
<1>8. <<>> \in Seq(E)
  BY EmptySeq
<1> QED
  BY <1>3, <1>4, <1>5, <1>6, <1>7, <1>8 DEF GroupsGrow

-----------------------------------------------------------------------------
(* The first occurrence of an element *)

Places(s, e) == {i \in 1 .. Len(s) : s[i] = e}

\* Where find stops.
FirstAt(s, e) == CHOOSE i \in Places(s, e) : \A j \in Places(s, e) : i <= j

LEMMA FirstIs ==
  ASSUME NEW E, NEW s \in Seq(E), NEW e, Contains(s, e)
  PROVE  /\ FirstAt(s, e) \in 1 .. Len(s)
         /\ s[FirstAt(s, e)] = e
         /\ \A j \in 1 .. Len(s) : s[j] = e => FirstAt(s, e) <= j
<1>1. Places(s, e) \in SUBSET (Nat \ {0}) /\ Places(s, e) # {}
  BY DEF Places, Contains
<1>2. FirstAt(s, e) \in Places(s, e) /\ \A j \in Places(s, e) : FirstAt(s, e) <= j
  BY <1>1, LeastPosition DEF FirstAt
<1> QED
  BY <1>2 DEF Places

LEMMA SelectIsFirst ==
  ASSUME NEW s, NEW e, Contains(s, e)
  PROVE  SelectInSeq(s, LAMBDA x : x = e) = FirstAt(s, e)
<1>1. Places(s, e) # {}
  BY DEF Contains, Places
<1> QED
  BY <1>1 DEF SelectInSeq, Min, FirstAt, Places

LEMMA DeletesFirst ==
  ASSUME NEW s, NEW e
  PROVE  DeleteFirst(s, e) =
           IF Contains(s, e)
           THEN SubSeq(s, 1, FirstAt(s, e) - 1) \o SubSeq(s, FirstAt(s, e) + 1, Len(s))
           ELSE s
BY SelectIsFirst DEF DeleteFirst, RemoveFirst, RemoveAt, Contains

LEMMA UpdatesFirst ==
  ASSUME NEW s, NEW prev, NEW next
  PROVE  UpdateFirst(s, prev, next) =
           IF Contains(s, prev) THEN [s EXCEPT ![FirstAt(s, prev)] = next] ELSE s
BY SelectIsFirst DEF UpdateFirst, ReplaceAt

\* What comes after the deleted element moves up by one.
LEMMA DeleteShifts ==
  ASSUME NEW E, NEW s \in Seq(E), NEW e, Contains(s, e)
  PROVE  /\ DeleteFirst(s, e) \in Seq(E)
         /\ Len(DeleteFirst(s, e)) = Len(s) - 1
         /\ \A j \in 1 .. Len(s) - 1 :
              DeleteFirst(s, e)[j] = IF j < FirstAt(s, e) THEN s[j] ELSE s[j + 1]
<1>1. PICK i \in 1 .. Len(s) : i = FirstAt(s, e)
  BY FirstIs
<1>2. Len(s) \in Nat
  OBVIOUS
<1>3. PICK l : l = SubSeq(s, 1, i - 1)
  OBVIOUS
<1>4. PICK r : r = SubSeq(s, i + 1, Len(s))
  OBVIOUS
<1>5. l \in Seq(E) /\ Len(l) = i - 1 /\ \A j \in 1 .. i - 1 : l[j] = s[j]
  BY <1>2, <1>3, ElementOfSeq
<1>6. r \in Seq(E) /\ Len(r) = Len(s) - i /\ \A j \in 1 .. Len(s) - i : r[j] = s[i + j]
  BY <1>2, <1>4, ElementOfSeq
<1>7. DeleteFirst(s, e) = l \o r
  BY <1>1, <1>3, <1>4, DeletesFirst
<1>8. PICK d : d = l \o r
  OBVIOUS
<1>9. /\ d \in Seq(E) /\ Len(d) = Len(l) + Len(r)
      /\ \A j \in 1 .. Len(l) + Len(r) : d[j] = IF j <= Len(l) THEN l[j] ELSE r[j - Len(l)]
  BY <1>5, <1>6, <1>8, ConcatProperties
<1>10. Len(d) = Len(s) - 1
  BY <1>2, <1>5, <1>6, <1>9
<1>11. ASSUME NEW j \in 1 .. Len(s) - 1 PROVE d[j] = IF j < i THEN s[j] ELSE s[j + 1]
  <2>1. CASE j < i
    <3>1. j \in 1 .. i - 1 /\ j <= Len(l) /\ j \in 1 .. Len(l) + Len(r)
      BY <1>2, <1>5, <1>6, <2>1
    <3> QED
      BY <1>5, <1>9, <2>1, <3>1
  <2>2. CASE ~ (j < i)
    <3>1. /\ j - (i - 1) \in 1 .. Len(s) - i /\ ~ (j <= Len(l)) /\ j \in 1 .. Len(l) + Len(r)
          /\ i + (j - (i - 1)) = j + 1
      BY <1>2, <1>5, <1>6, <2>2
    <3> QED
      BY <1>5, <1>6, <1>9, <2>2, <3>1
  <2> QED
    BY <2>1, <2>2
<1> QED
  BY <1>1, <1>7, <1>8, <1>9, <1>10, <1>11

-----------------------------------------------------------------------------
(* Types *)

\* Both collections hold elements only.
Typed == data \in Seq(Elements) /\ other \in Seq(Elements)

LEMMA UpdateIn ==
  ASSUME NEW E, NEW s \in Seq(E), NEW prev, NEW next \in E
  PROVE  UpdateFirst(s, prev, next) \in Seq(E)
<1>1. CASE Contains(s, prev)
  <2>1. PICK i \in 1 .. Len(s) : i = FirstAt(s, prev)
    BY <1>1, FirstIs
  <2>2. [s EXCEPT ![i] = next] \in Seq(E)
    BY ExceptSeq
  <2> QED
    BY <1>1, <2>1, <2>2, UpdatesFirst
<1>2. CASE ~ Contains(s, prev)
  BY <1>2, UpdatesFirst
<1> QED
  BY <1>1, <1>2

LEMMA DeleteIn == ASSUME NEW E, NEW s \in Seq(E), NEW e PROVE DeleteFirst(s, e) \in Seq(E)
BY DeleteShifts, DeletesFirst

\* The halves of a list and their lengths.
LEMMA SplitParts ==
  ASSUME NEW E, NEW s \in Seq(E)
  PROVE  /\ Split(s)[1] \in Seq(E) /\ Split(s)[2] \in Seq(E)
         /\ Split(s)[1] \o Split(s)[2] = s
         /\ Len(s) >= 2 => /\ Split(s)[1] # <<>> /\ Split(s)[2] # <<>>
                           /\ Len(Split(s)[2]) - Len(Split(s)[1]) \in 0 .. 1
<1>1. Len(s) \in Nat
  OBVIOUS
<1>2. CASE Len(s) < 2
  <2>1. PICK none \in Seq(E) : none = <<>>
    BY EmptySeq
  <2>2. Split(s)[1] = s /\ Split(s)[2] = none
    BY <1>2, <2>1 DEF Split
  <2>3. s \o none = s
    BY <2>1, ConcatEmptySeq
  <2> QED
    BY <1>1, <1>2, <2>2, <2>3
<1>3. CASE ~ (Len(s) < 2)
  <2>1. PICK n \in Nat : n = Len(s) \div 2
    BY <1>1
  <2>2. n >= 1 /\ n < Len(s) /\ Len(s) - 2 * n \in 0 .. 1
    BY <1>1, <1>3, <2>1
  <2>3. PICK l : l = SubSeq(s, 1, n)
    OBVIOUS
  <2>4. PICK r : r = SubSeq(s, n + 1, Len(s))
    OBVIOUS
  <2>5. Split(s)[1] = l /\ Split(s)[2] = r
    BY <1>3, <2>1, <2>3, <2>4 DEF Split
  <2>6. l \in Seq(E) /\ Len(l) = n /\ \A j \in 1 .. n : l[j] = s[j]
    BY <1>1, <2>2, <2>3, ElementOfSeq
  <2>7. r \in Seq(E) /\ Len(r) = Len(s) - n /\ \A j \in 1 .. Len(s) - n : r[j] = s[n + j]
    BY <1>1, <2>2, <2>4, ElementOfSeq
  <2>8. l \o r = s
    <3>1. PICK t : t = l \o r
      OBVIOUS
    <3>2. /\ t \in Seq(E) /\ Len(t) = Len(l) + Len(r)
          /\ \A j \in 1 .. Len(l) + Len(r) : t[j] = IF j <= Len(l) THEN l[j] ELSE r[j - Len(l)]
      BY <2>6, <2>7, <3>1, ConcatProperties
    <3>3. Len(t) = Len(s)
      BY <1>1, <2>2, <2>6, <2>7, <3>2
    <3>4. ASSUME NEW j \in 1 .. Len(s) PROVE t[j] = s[j]
      <4>1. j \in 1 .. Len(l) + Len(r)
        BY <1>1, <2>2, <2>6, <2>7
      <4>2. CASE j <= n
        <5>1. j \in 1 .. n
          BY <2>2, <4>2
        <5> QED
          BY <2>6, <3>2, <4>1, <4>2, <5>1
      <4>3. CASE ~ (j <= n)
        <5>1. j - n \in 1 .. Len(s) - n /\ n + (j - n) = j
          BY <1>1, <2>2, <4>3
        <5> QED
          BY <2>6, <2>7, <3>2, <4>1, <4>3, <5>1
      <4> QED
        BY <4>2, <4>3
    <3>5. t = s
      BY <3>2, <3>3, <3>4, SeqEqual
    <3> QED
      BY <3>1, <3>5
  <2>9. l # <<>> /\ r # <<>> /\ Len(r) - Len(l) \in 0 .. 1
    BY <1>1, <2>2, <2>6, <2>7
  <2> QED
    BY <2>5, <2>6, <2>7, <2>8, <2>9
<1> QED
  BY <1>2, <1>3

LEMMA MapIn ==
  ASSUME NEW E, NEW T, NEW s \in Seq(E), NEW f \in [E -> T]
  PROVE  Map(s, f) \in Seq(T)
BY ElementOfSeq DEF Map

LEMMA TypedInit == Init => Typed
BY EmptySeq DEF Init, Typed

LEMMA TypedStep == ASSUME Typed, [Next]_vars PROVE Typed'
<1> USE DEF Typed
<1>1. ASSUME NEW e \in Elements, Insert(e) PROVE Typed'
  BY <1>1, AppendProperties DEF Insert, InsertBasic
<1>2. ASSUME NEW e \in Elements, Delete(e) PROVE Typed'
  BY <1>2, DeleteIn DEF Delete
<1>3. ASSUME NEW prev \in Elements, NEW next \in Elements, Update(prev, next) PROVE Typed'
  BY <1>3, UpdateIn DEF Update
<1>4. CASE Halve
  BY <1>4, SplitParts DEF Halve
<1>5. CASE Join
  BY <1>5, ConcatProperties DEF Join, Combine
<1>6. CASE Exchange
  BY <1>6 DEF Exchange
<1>7. ASSUME NEW es \in SUBSET Elements, Keep(es) PROVE Typed'
  <2> DEFINE p == [e \in Elements |-> e \in es]
  <2>1. data' = Filter(data, p) /\ other' = other
    BY <1>7 DEF Keep
  <2> HIDE DEF p
  <2> QED
    BY <2>1, FilterLaws
<1>8. ASSUME NEW f \in [Elements -> Elements], Apply(f) PROVE Typed'
  <2>1. data' = Map(data, f) /\ other' = other
    BY <1>8 DEF Apply
  <2> QED
    BY <2>1, MapIn
<1>9. ASSUME NEW n \in 0 .. 2, Replicate(n) PROVE Typed'
  <2> DEFINE f == [e \in Elements |-> [i \in 1 .. n |-> e]]
  <2>1. f \in [Elements -> Seq(Elements)]
    OBVIOUS
  <2>2. data' = Ext(data, f) /\ other' = other
    BY <1>9 DEF Replicate
  <2> HIDE DEF f
  <2> QED
    BY <2>1, <2>2, ExtLaws
<1>10. CASE UNCHANGED vars
  BY <1>10 DEF vars
<1> QED
  BY <1>1, <1>2, <1>3, <1>4, <1>5, <1>6, <1>7, <1>8, <1>9, <1>10 DEF Next

LEMMA AlwaysTyped == Spec => []Typed
BY TypedInit, TypedStep, PTL DEF Spec

\* Whatever the program does with them, both collections hold elements and nothing
\* else, and peek tells an empty one from any other.
THEOREM CollectionTypes == Spec => []TypeOK
<1>1. ASSUME Typed PROVE TypeOK
  <2>1. data \in Seq(Elements) /\ other \in Seq(Elements)
    BY <1>1 DEF Typed
  <2>2. Peek(data) = Nothing <=> data = <<>>
    <3>1. CASE data = <<>>
      BY <3>1 DEF Peek
    <3>2. CASE data # <<>>
      <4>1. Head(data) \in Elements
        BY <2>1, <3>2, HeadTailProperties
      <4>2. Head(data) # -1
        BY <4>1, ElementAssumption
      <4> QED
        BY <3>2, <4>2 DEF Peek, Nothing
    <3> QED
      BY <3>1, <3>2
  <2>3. ToSet(Iterate(data)) \subseteq Elements
    BY <2>1, ElementOfSeq, LenProperties DEF ToSet, Iterate
  <2> QED
    BY <2>1, <2>2, <2>3 DEF TypeOK
<1> QED
  BY <1>1, AlwaysTyped, PTL

-----------------------------------------------------------------------------
(* Halves and folds *)

LEMMA ConcatAppend ==
  ASSUME NEW E, NEW s \in Seq(E), NEW t \in Seq(E), NEW e \in E
  PROVE  s \o Append(t, e) = Append(s \o t, e)
<1>1. PICK one \in Seq(E) : one = <<e>>
  <2>1. <<e>> \in Seq(E)
    OBVIOUS
  <2> QED
    BY <2>1
<1>2. s \o t \in Seq(E)
  BY ConcatProperties
<1>3. Append(t, e) = t \o one /\ Append(s \o t, e) = (s \o t) \o one
  BY <1>1, <1>2, AppendIsConcat
<1>4. (s \o t) \o one = s \o (t \o one)
  BY ConcatAssociative
<1> QED
  BY <1>3, <1>4

LEMMA PlusSteps == Plus \in Steps(Nat, Nat) /\ \A x, y \in Nat : Step(Plus, x, y) = x + y
BY DEF Plus, Steps, Step

LEMMA LargerSteps ==
  /\ Larger \in Steps(Nat, Nat)
  /\ \A x, y \in Nat : Step(Larger, x, y) = IF x >= y THEN x ELSE y
BY DEF Larger, Steps, Step

\* A fold with an associative function goes over a list in parts.
LEMMA FoldConcat ==
  ASSUME NEW s \in Seq(Nat), NEW t \in Seq(Nat)
  PROVE  Fold(s \o t, Plus, 0) = Fold(s, Plus, 0) + Fold(t, Plus, 0)
<1>1. Plus \in Steps(Nat, Nat) /\ \A x, y \in Nat : Step(Plus, x, y) = x + y
  BY PlusSteps
<1>2. ASSUME NEW u \in Seq(Nat) PROVE Fold(u, Plus, 0) \in Nat
  BY <1>1, FoldIn
<1>3. ASSUME NEW u \in Seq(Nat), NEW e \in Nat
      PROVE  Fold(Append(u, e), Plus, 0) = Fold(u, Plus, 0) + e
  <2>1. Fold(Append(u, e), Plus, 0) = Step(Plus, Fold(u, Plus, 0), e)
    <3>1. PICK N, z : N = Nat /\ z = 0
      OBVIOUS
    <3>2. Plus \in Steps(N, N) /\ z \in N /\ u \in Seq(N) /\ e \in N
      BY <1>1, <3>1
    <3>3. Fold(Append(u, e), Plus, z) = Step(Plus, Fold(u, Plus, z), e)
      BY <3>2, FoldAppend
    <3> QED
      BY <3>1, <3>3
  <2> QED
    BY <1>1, <1>2, <2>1
<1> DEFINE Adds(u) == Fold(s \o u, Plus, 0) = Fold(s, Plus, 0) + Fold(u, Plus, 0)
           P == {u \in Seq(Nat) : Adds(u)}
<1>4. Adds(<<>>)
  <2>1. s \o <<>> = s
    BY ConcatEmptySeq
  <2>2. Fold(<<>>, Plus, 0) = 0
    BY <1>1, FoldEmpty
  <2>3. Fold(s, Plus, 0) \in Nat
    BY <1>2
  <2> QED
    BY <2>1, <2>2, <2>3
<1>5. ASSUME NEW u \in Seq(Nat), NEW e \in Nat, Adds(u) PROVE Adds(Append(u, e))
  <2>1. s \o u \in Seq(Nat)
    BY ConcatProperties
  <2>2. s \o Append(u, e) = Append(s \o u, e)
    BY ConcatAppend
  <2>3. /\ Fold(Append(s \o u, e), Plus, 0) = Fold(s \o u, Plus, 0) + e
        /\ Fold(Append(u, e), Plus, 0) = Fold(u, Plus, 0) + e
    BY <1>3, <2>1
  <2>4. Fold(s, Plus, 0) \in Nat /\ Fold(u, Plus, 0) \in Nat
    BY <1>2
  <2> QED
    BY <1>5, <2>2, <2>3, <2>4
<1>6. \A u : u \in P <=> u \in Seq(Nat) /\ Adds(u)
  OBVIOUS
<1> HIDE DEF Adds, P
<1>7. <<>> \in P /\ \A u \in Seq(Nat), e \in Nat : u \in P => Append(u, e) \in P
  BY <1>4, <1>5, <1>6, EmptySeq, AppendProperties
<1>8. Seq(Nat) \subseteq P
  BY <1>7, ListInduction
<1> QED
  BY <1>6, <1>8 DEF Adds

\* However long a collection is, its halves put together are the collection, both
\* have elements if it has two, and an associative fold goes over them in parts.
THEOREM SplitKeepsAll == Spec => []SplitIsWhole
<1>1. ASSUME Typed PROVE SplitIsWhole
  <2>1. data \in Seq(Elements)
    BY <1>1 DEF Typed
  <2>2. PICK l \in Seq(Elements) : l = Split(data)[1]
    BY <2>1, SplitParts
  <2>3. PICK r \in Seq(Elements) : r = Split(data)[2]
    BY <2>1, SplitParts
  <2>4. /\ l \o r = data
        /\ Len(data) >= 2 => l # <<>> /\ r # <<>> /\ Len(r) - Len(l) \in 0 .. 1
    BY <2>1, <2>2, <2>3, SplitParts
  <2>5. l \in Seq(Nat) /\ r \in Seq(Nat)
    BY ElementAssumption, SeqMonotonic
  <2>6. Fold(l \o r, Plus, 0) = Fold(l, Plus, 0) + Fold(r, Plus, 0)
    BY <2>5, FoldConcat
  <2> QED
    BY <2>2, <2>3, <2>4, <2>6 DEF SplitIsWhole, Combine
<1> QED
  BY <1>1, AlwaysTyped, PTL

-----------------------------------------------------------------------------
(* Everything is ext *)

LEMMA FilterIsExt ==
  ASSUME NEW E, NEW p \in [E -> BOOLEAN], NEW s \in Seq(E)
  PROVE  Filter(s, p) = Ext(s, [e \in E |-> IF p[e] THEN <<e>> ELSE <<>>])
<1> DEFINE f == [e \in E |-> IF p[e] THEN <<e>> ELSE <<>>]
<1>1. f \in [E -> Seq(E)]
  <2>1. \A e \in E : <<e>> \in Seq(E) /\ <<>> \in Seq(E)
    BY EmptySeq
  <2> QED
    BY <2>1
<1>2. \A e \in E : f[e] = IF p[e] THEN <<e>> ELSE <<>>
  OBVIOUS
<1> HIDE DEF f
<1>3. \A u \in Seq(E), e \in E : Ext(Append(u, e), f) = Ext(u, f) \o f[e]
  BY <1>1, ExtLaws
<1> DEFINE P == {u \in Seq(E) : Filter(u, p) = Ext(u, f)}
<1>4. <<>> \in P
  BY <1>1, EmptySeq, FilterLaws, ExtLaws
<1>5. ASSUME NEW u \in Seq(E), NEW e \in E, u \in P PROVE Append(u, e) \in P
  <2>1. PICK x \in Seq(E) : x = Filter(u, p)
    BY FilterLaws
  <2>2. x = Ext(u, f)
    BY <1>5, <2>1
  <2>3. Filter(Append(u, e), p) = IF p[e] THEN Append(x, e) ELSE x
    BY <2>1, FilterLaws
  <2>4. Ext(Append(u, e), f) = x \o f[e]
    BY <1>3, <2>2
  <2>5. Append(x, e) = x \o <<e>> /\ x \o <<>> = x
    BY AppendIsConcat, ConcatEmptySeq
  <2>6. Filter(Append(u, e), p) = Ext(Append(u, e), f)
    BY <1>2, <2>3, <2>4, <2>5
  <2> QED
    BY <2>6, AppendProperties
<1>6. \A u \in P : Filter(u, p) = Ext(u, f)
  OBVIOUS
<1> HIDE DEF P
<1>7. Seq(E) \subseteq P
  BY <1>4, <1>5, ListInduction
<1> QED
  BY <1>6, <1>7 DEF f

LEMMA MapIsExt ==
  ASSUME NEW E, NEW f \in [E -> E], NEW s \in Seq(E)
  PROVE  Map(s, f) = Ext(s, [e \in E |-> <<f[e]>>])
<1> DEFINE g == [e \in E |-> <<f[e]>>]
<1>1. g \in [E -> Seq(E)]
  OBVIOUS
<1>2. \A e \in E : g[e] = <<f[e]>>
  OBVIOUS
<1> HIDE DEF g
<1>3. \A u \in Seq(E), e \in E : Ext(Append(u, e), g) = Ext(u, g) \o g[e]
  BY <1>1, ExtLaws
<1> DEFINE P == {u \in Seq(E) : Map(u, f) = Ext(u, g)}
<1>4. <<>> \in P
  <2>1. PICK none \in Seq(E) : none = <<>> /\ Len(none) = 0
    BY EmptySeq
  <2>2. Map(none, f) \in Seq(E) /\ Len(Map(none, f)) = 0
    BY <2>1, MapIn, LenProperties DEF Map
  <2>3. Map(none, f) = none
    BY <2>1, <2>2, EmptySeq
  <2>4. Ext(none, g) = none
    BY <1>1, <2>1, ExtLaws
  <2> QED
    BY <2>1, <2>3, <2>4
<1>5. ASSUME NEW u \in Seq(E), NEW e \in E, u \in P PROVE Append(u, e) \in P
  <2>1. PICK x \in Seq(E) : x = Map(u, f)
    BY MapIn
  <2>2. PICK v \in Seq(E) : v = Append(u, e)
    BY AppendProperties
  <2>3. Map(v, f) = Append(x, f[e])
    <3>1. Len(v) = Len(u) + 1 /\ v[Len(u) + 1] = e /\ \A i \in 1 .. Len(u) : v[i] = u[i]
      BY <2>2, AppendProperties
    <3>2. Len(x) = Len(u) /\ \A i \in 1 .. Len(u) : x[i] = f[u[i]]
      BY <2>1, LenProperties DEF Map
    <3>3. /\ Map(v, f) \in Seq(E) /\ Len(Map(v, f)) = Len(v)
          /\ \A i \in 1 .. Len(v) : Map(v, f)[i] = f[v[i]]
      BY MapIn, LenProperties DEF Map
    <3>4. PICK y \in Seq(E) : y = Append(x, f[e])
      BY AppendProperties
    <3>5. /\ Len(y) = Len(x) + 1 /\ y[Len(x) + 1] = f[e]
          /\ \A i \in 1 .. Len(x) : y[i] = x[i]
      BY <3>4, AppendProperties
    <3>6. Len(u) \in Nat
      OBVIOUS
    <3>7. ASSUME NEW i \in 1 .. Len(v) PROVE Map(v, f)[i] = y[i]
      <4>1. CASE i = Len(u) + 1
        BY <3>1, <3>2, <3>3, <3>5, <4>1
      <4>2. CASE i # Len(u) + 1
        <5>1. i \in 1 .. Len(u)
          BY <3>1, <3>6, <4>2
        <5> QED
          BY <3>1, <3>2, <3>3, <3>5, <5>1
      <4> QED
        BY <4>1, <4>2
    <3>8. Map(v, f) = y
      <4>1. PICK m \in Seq(E) : m = Map(v, f)
        BY <3>3
      <4>2. Len(m) = Len(y) /\ \A i \in 1 .. Len(m) : m[i] = y[i]
        BY <3>1, <3>2, <3>3, <3>5, <3>7, <4>1
      <4> QED
        BY <4>1, <4>2, SeqEqual
    <3> QED
      BY <3>4, <3>8
  <2>4. Ext(v, g) = x \o g[e]
    BY <1>3, <1>5, <2>1, <2>2
  <2>5. Append(x, f[e]) = x \o <<f[e]>>
    BY AppendIsConcat
  <2>6. Map(v, f) = Ext(v, g)
    BY <1>2, <2>3, <2>4, <2>5
  <2> QED
    BY <2>2, <2>6
<1>6. \A u \in P : Map(u, f) = Ext(u, g)
  OBVIOUS
<1> HIDE DEF P
<1>7. Seq(E) \subseteq P
  BY <1>4, <1>5, ListInduction
<1> QED
  BY <1>6, <1>7 DEF g

LEMMA ExtConcat ==
  ASSUME NEW E, NEW T, NEW f \in [E -> Seq(T)], NEW s \in Seq(E), NEW t \in Seq(E)
  PROVE  Ext(s \o t, f) = Ext(s, f) \o Ext(t, f)
<1>1. \A u \in Seq(E), e \in E : Ext(Append(u, e), f) = Ext(u, f) \o f[e]
  BY ExtLaws
<1> DEFINE P == {u \in Seq(E) : Ext(s \o u, f) = Ext(s, f) \o Ext(u, f)}
<1>2. PICK x \in Seq(T) : x = Ext(s, f)
  BY ExtLaws
<1>3. <<>> \in P
  <2>1. s \o <<>> = s /\ x \o <<>> = x
    BY ConcatEmptySeq
  <2>2. Ext(<<>>, f) = <<>>
    BY ExtLaws
  <2> QED
    BY <1>2, <2>1, <2>2, EmptySeq
<1>4. ASSUME NEW u \in Seq(E), NEW e \in E, u \in P PROVE Append(u, e) \in P
  <2>1. PICK y \in Seq(T) : y = Ext(u, f)
    BY ExtLaws
  <2>2. PICK v \in Seq(E) : v = s \o u
    BY ConcatProperties
  <2>3. s \o Append(u, e) = Append(v, e)
    BY <2>2, ConcatAppend
  <2>4. Ext(v, f) = x \o y
    BY <1>2, <1>4, <2>1, <2>2
  <2>5. Ext(Append(v, e), f) = (x \o y) \o f[e]
    BY <1>1, <2>4
  <2>6. Ext(Append(u, e), f) = y \o f[e]
    BY <1>1, <2>1
  <2>7. (x \o y) \o f[e] = x \o (y \o f[e])
    BY ConcatAssociative
  <2>8. Ext(s \o Append(u, e), f) = Ext(s, f) \o Ext(Append(u, e), f)
    BY <1>2, <2>3, <2>5, <2>6, <2>7
  <2> QED
    BY <2>8, AppendProperties
<1>5. \A u \in P : Ext(s \o u, f) = Ext(s, f) \o Ext(u, f)
  OBVIOUS
<1> HIDE DEF P
<1>6. Seq(E) \subseteq P
  BY <1>3, <1>4, ListInduction
<1> QED
  BY <1>5, <1>6

\* For every collection, map and filter are ext, and ext distributes over combine.
THEOREM ExtIsGeneral == Spec => []ExtSubsumes
<1>1. ASSUME Typed PROVE ExtSubsumes
  <2> DEFINE twice == [e \in Elements |-> <<e, e + 1>>]
  <2>1. data \in Seq(Elements) /\ other \in Seq(Elements)
    BY <1>1 DEF Typed
  <2>2. twice \in [Elements -> Seq(Nat)]
    BY ElementAssumption
  <2>3. \A p \in [Elements -> BOOLEAN] :
          Filter(data, p) = Ext(data, [e \in Elements |-> IF p[e] THEN <<e>> ELSE <<>>])
    BY <2>1, FilterIsExt
  <2>4. \A f \in [Elements -> Elements] : Map(data, f) = Ext(data, [e \in Elements |-> <<f[e]>>])
    BY <2>1, MapIsExt
  <2>5. Ext(data \o other, twice) = Ext(data, twice) \o Ext(other, twice)
    <3> HIDE DEF twice
    <3> QED
      BY <2>1, <2>2, ExtConcat
  <2> QED
    BY <2>3, <2>4, <2>5 DEF ExtSubsumes, Combine
<1> QED
  BY <1>1, AlwaysTyped, PTL

-----------------------------------------------------------------------------
(* delete_first and update_first *)

LEMMA UpdateThenDelete ==
  ASSUME NEW E, NEW s \in Seq(E), NEW prev \in E, NEW next \in E, ~ Contains(s, next)
  PROVE  DeleteFirst(UpdateFirst(s, prev, next), next) = DeleteFirst(s, prev)
<1>1. CASE ~ Contains(s, prev)
  BY <1>1, UpdatesFirst, DeletesFirst
<1>2. CASE Contains(s, prev)
  <2>1. PICK i \in 1 .. Len(s) : i = FirstAt(s, prev)
    BY <1>2, FirstIs
  <2>2. PICK t : t = [s EXCEPT ![i] = next]
    OBVIOUS
  <2>3. UpdateFirst(s, prev, next) = t
    BY <1>2, <2>1, <2>2, UpdatesFirst
  <2>4. /\ t \in Seq(E) /\ Len(t) = Len(s)
        /\ \A j \in 1 .. Len(s) : t[j] = IF j = i THEN next ELSE s[j]
    BY <2>2, ExceptSeq
  <2>5. \A j \in 1 .. Len(s) : s[j] # next
    BY DEF Contains
  <2>6. Contains(t, next)
    BY <2>4 DEF Contains
  <2>7. FirstAt(t, next) = i
    BY <2>4, <2>5, <2>6, FirstIs
  <2>8. PICK d \in Seq(E) : d = DeleteFirst(t, next)
    BY <2>4, DeleteIn
  <2>9. PICK c \in Seq(E) : c = DeleteFirst(s, prev)
    BY DeleteIn
  <2>10. Len(d) = Len(s) - 1 /\ \A j \in 1 .. Len(s) - 1 : d[j] = IF j < i THEN t[j] ELSE t[j + 1]
    BY <2>4, <2>6, <2>7, <2>8, DeleteShifts
  <2>11. Len(c) = Len(s) - 1 /\ \A j \in 1 .. Len(s) - 1 : c[j] = IF j < i THEN s[j] ELSE s[j + 1]
    BY <1>2, <2>1, <2>9, DeleteShifts
  <2>12. ASSUME NEW j \in 1 .. Len(s) - 1 PROVE d[j] = c[j]
    <3>1. j \in 1 .. Len(s) /\ j + 1 \in 1 .. Len(s)
      OBVIOUS
    <3>2. j < i => t[j] = s[j]
      BY <2>4, <3>1
    <3>3. ~ (j < i) => t[j + 1] = s[j + 1]
      BY <2>4, <3>1
    <3> QED
      BY <2>10, <2>11, <3>2, <3>3
  <2>13. d = c
    BY <2>10, <2>11, <2>12, SeqEqual
  <2> QED
    BY <2>3, <2>8, <2>9, <2>13
<1> QED
  BY <1>1, <1>2

LEMMA CountsPlaces ==
  ASSUME NEW E, NEW s \in Seq(E), NEW e
  PROVE  /\ Occurrences(s, e) = Cardinality(Places(s, e))
         /\ IsFiniteSet(Places(s, e))
<1>1. DOMAIN s = 1 .. Len(s) /\ Len(s) \in Int /\ 1 \in Int
  OBVIOUS
<1>2. Occurrences(s, e) = Cardinality(Places(s, e))
  BY <1>1 DEF Occurrences, Places
<1>3. Places(s, e) \in SUBSET (1 .. Len(s))
  BY DEF Places
<1>4. IsFiniteSet(1 .. Len(s))
  BY <1>1, FS_Interval
<1> QED
  BY <1>2, <1>3, <1>4, FS_Subset

\* Of the places of e after it was inserted at the end, deleting it takes the first
\* away and moves the others up by one.
LEMMA InsertThenDelete ==
  ASSUME NEW E, NEW s \in Seq(E), NEW e \in E
  PROVE  Occurrences(DeleteFirst(InsertBasic(s, e), e), e) = Occurrences(s, e)
<1>1. PICK t \in Seq(E) : t = Append(s, e)
  BY AppendProperties
<1>2. PICK n \in Nat : n = Len(s) + 1
  OBVIOUS
<1>3. Len(t) = n /\ t[n] = e /\ \A j \in 1 .. n - 1 : t[j] = s[j]
  BY <1>1, <1>2, AppendProperties
<1>4. Len(s) = n - 1 /\ n \in 1 .. n
  BY <1>2
<1>5. Contains(t, e)
  BY <1>3, <1>4 DEF Contains
<1>6. PICK i \in 1 .. n : i = FirstAt(t, e)
  BY <1>3, <1>5, FirstIs
<1>7. t[i] = e /\ \A j \in 1 .. n : t[j] = e => i <= j
  BY <1>3, <1>5, <1>6, FirstIs
<1>8. PICK d \in Seq(E) : d = DeleteFirst(t, e)
  BY DeleteIn
<1>9. Len(d) = n - 1 /\ \A j \in 1 .. n - 1 : d[j] = IF j < i THEN t[j] ELSE t[j + 1]
  BY <1>3, <1>5, <1>6, <1>8, DeleteShifts
<1>10. \A j : j \in Places(t, e) <=> j \in 1 .. n /\ t[j] = e
  BY <1>3 DEF Places
<1>11. \A j : j \in Places(s, e) <=> j \in 1 .. n - 1 /\ s[j] = e
  BY <1>4 DEF Places
<1>12. \A j : j \in Places(d, e) <=> j \in 1 .. n - 1 /\ d[j] = e
  BY <1>9 DEF Places
<1>13. Places(s, e) = Places(t, e) \ {n}
  <2>1. \A j : j \in 1 .. n - 1 <=> j \in 1 .. n /\ j # n
    BY <1>4
  <2> QED
    BY <1>3, <1>10, <1>11, <2>1
<1>14. \A j : j \in Places(d, e) <=> j + 1 \in Places(t, e) \ {i} /\ j \in 1 .. n - 1
  <2>1. ASSUME NEW j \in 1 .. n - 1, d[j] = e PROVE j + 1 \in Places(t, e) \ {i}
    <3>1. j \in 1 .. n /\ j + 1 \in 1 .. n
      BY <1>2
    <3>2. ~ (j < i)
      BY <1>7, <1>9, <2>1, <3>1
    <3>3. t[j + 1] = e /\ j + 1 # i
      BY <1>9, <2>1, <3>2
    <3> QED
      BY <1>10, <3>1, <3>3
  <2>2. ASSUME NEW j \in 1 .. n - 1, j + 1 \in Places(t, e) \ {i} PROVE d[j] = e
    <3>1. j + 1 \in 1 .. n /\ t[j + 1] = e /\ j + 1 # i
      BY <1>10, <2>2
    <3>2. ~ (j < i)
      BY <1>7, <3>1
    <3> QED
      BY <1>9, <3>1, <3>2
  <2> QED
    BY <1>12, <2>1, <2>2
<1>15. ASSUME NEW k \in Places(t, e) \ {i} PROVE k - 1 \in Places(d, e)
  <2>1. k \in 1 .. n /\ i <= k /\ k # i
    BY <1>7, <1>10
  <2>2. k - 1 \in 1 .. n - 1 /\ (k - 1) + 1 = k
    BY <1>2, <2>1
  <2> QED
    BY <1>14, <2>2
<1> DEFINE f == [j \in Places(d, e) |-> j + 1]
<1>16. f \in Bijection(Places(d, e), Places(t, e) \ {i})
  <2>1. f \in [Places(d, e) -> Places(t, e) \ {i}]
    BY <1>14
  <2>2. \A a, b \in Places(d, e) : f[a] = f[b] => a = b
    BY <1>12
  <2>3. \A k \in Places(t, e) \ {i} : \E j \in Places(d, e) : f[j] = k
    <3>1. ASSUME NEW k \in Places(t, e) \ {i} PROVE k - 1 \in Places(d, e) /\ f[k - 1] = k
      <4>1. k \in 1 .. n
        BY <1>10
      <4> QED
        BY <1>15, <4>1
    <3> QED
      BY <3>1
  <2> HIDE DEF f
  <2> QED
    BY <2>1, <2>2, <2>3, Fun_IsBij
<1>17. Cardinality(Places(d, e)) = Cardinality(Places(t, e) \ {i})
  <2>1. ExistsBijection(Places(d, e), Places(t, e) \ {i})
    BY <1>16, Fun_ExistsBij
  <2>2. IsFiniteSet(Places(d, e))
    BY CountsPlaces
  <2> QED
    BY <2>1, <2>2, FS_Bijection
<1>18. /\ Cardinality(Places(t, e) \ {i}) = Cardinality(Places(t, e)) - 1
       /\ Cardinality(Places(t, e) \ {n}) = Cardinality(Places(t, e)) - 1
  <2>1. i \in Places(t, e) /\ n \in Places(t, e)
    BY <1>3, <1>4, <1>7, <1>10
  <2>2. IsFiniteSet(Places(t, e))
    BY CountsPlaces
  <2> QED
    BY <2>1, <2>2, FS_RemoveElement
<1>19. /\ Occurrences(d, e) = Cardinality(Places(d, e))
       /\ Occurrences(s, e) = Cardinality(Places(s, e))
  BY CountsPlaces
<1> QED
  BY <1>1, <1>8, <1>13, <1>17, <1>18, <1>19 DEF InsertBasic

\* In every collection, delete_first and update_first hit the same occurrence, and
\* deleting what was just inserted leaves as many occurrences as there were.
THEOREM SameOccurrence == Spec => []FirstOccurrence
<1>1. ASSUME Typed PROVE FirstOccurrence
  <2>1. data \in Seq(Elements)
    BY <1>1 DEF Typed
  <2> QED
    BY <2>1, UpdateThenDelete, InsertThenDelete DEF FirstOccurrence
<1> QED
  BY <1>1, AlwaysTyped, PTL

-----------------------------------------------------------------------------
(* Groups *)

\* The elements with key k, in their order, and the keys of all.
Group(E, g, s, k) == Filter(s, [e \in E |-> g[e] = k])

KeysOf(g, s) == {g[e] : e \in ToSet(s)}

LEMMA GroupLaws ==
  ASSUME NEW E, NEW g, NEW k
  PROVE  /\ Group(E, g, <<>>, k) = <<>>
         /\ \A s \in Seq(E) : Group(E, g, s, k) \in Seq(E)
<1> DEFINE p == [e \in E |-> g[e] = k]
<1>1. \A s : Group(E, g, s, k) = Filter(s, p)
  BY DEF Group
<1> HIDE DEF p
<1>2. Filter(<<>>, p) = <<>> /\ \A s \in Seq(E) : Filter(s, p) \in Seq(E)
  BY FilterLaws
<1> QED
  BY <1>1, <1>2

LEMMA GroupAppend ==
  ASSUME NEW E, NEW g, NEW k, NEW s \in Seq(E), NEW e \in E
  PROVE  Group(E, g, Append(s, e), k) =
           IF g[e] = k THEN Append(Group(E, g, s, k), e) ELSE Group(E, g, s, k)
<1> DEFINE p == [x \in E |-> g[x] = k]
<1>1. \A u : Group(E, g, u, k) = Filter(u, p)
  BY DEF Group
<1>2. p[e] = (g[e] = k)
  OBVIOUS
<1> HIDE DEF p
<1>3. Filter(Append(s, e), p) = IF p[e] THEN Append(Filter(s, p), e) ELSE Filter(s, p)
  BY FilterLaws
<1> QED
  BY <1>1, <1>2, <1>3

LEMMA GroupsAppend ==
  ASSUME NEW Z, NEW E, \A e \in E : e \in Z, NEW g, NEW f \in Steps(Z, Z), NEW z \in Z
  PROVE  /\ Groups(<<>>, g, f, z) = <<>>
         /\ \A s \in Seq(E), e \in E :
              Groups(Append(s, e), g, f, z) = Grouped(Groups(s, g, f, z), g[e], e, f, z)
<1>1. PICK K : \A e \in E : e \in Z /\ g[e] \in K
  <2>1. \A e \in E : e \in Z /\ g[e] \in {g[x] : x \in E}
    OBVIOUS
  <2> QED
    BY <2>1
<1>2. GroupsGrow(K, Z, E, g, f, z)
  BY <1>1, GroupsLaws
<1> QED
  BY <1>2 DEF GroupsGrow

LEMMA KeysLaws ==
  ASSUME NEW E, NEW g
  PROVE  /\ KeysOf(g, <<>>) = {}
         /\ \A s \in Seq(E), e \in E : KeysOf(g, Append(s, e)) = KeysOf(g, s) \cup {g[e]}
<1>1. KeysOf(g, <<>>) = {}
  BY DEF KeysOf, ToSet
<1>2. ASSUME NEW s \in Seq(E), NEW e \in E PROVE ToSet(Append(s, e)) = ToSet(s) \cup {e}
  <2>1. PICK t \in Seq(E) : t = Append(s, e)
    BY AppendProperties
  <2>2. Len(t) = Len(s) + 1 /\ t[Len(s) + 1] = e /\ \A i \in 1 .. Len(s) : t[i] = s[i]
    BY <2>1, AppendProperties
  <2>3. DOMAIN s = 1 .. Len(s) /\ DOMAIN t = 1 .. Len(t) /\ Len(s) \in Nat
    BY LenProperties
  <2>4. \A i : i \in 1 .. Len(t) <=> i \in 1 .. Len(s) \/ i = Len(s) + 1
    BY <2>2, <2>3
  <2>5. \A x : x \in ToSet(t) <=> x \in ToSet(s) \/ x = e
    BY <2>2, <2>3, <2>4 DEF ToSet
  <2> QED
    BY <2>1, <2>5
<1>3. ASSUME NEW s \in Seq(E), NEW e \in E
      PROVE  KeysOf(g, Append(s, e)) = KeysOf(g, s) \cup {g[e]}
  BY <1>2 DEF KeysOf
<1> QED
  BY <1>1, <1>3

Commutes(f, Z) == \A x, y \in Z : Step(f, x, y) = Step(f, y, x)

\* group_by calls f with the element first once a group exists, fold with what there
\* is so far: for a commutative f it makes no difference.
LEMMA GroupIsFold ==
  ASSUME NEW Z, NEW E, \A e \in E : e \in Z, NEW g,
         NEW f \in Steps(Z, Z), Commutes(f, Z),
         NEW z \in Z, NEW s \in Seq(E)
  PROVE  /\ DOMAIN Groups(s, g, f, z) = KeysOf(g, s)
         /\ \A k \in KeysOf(g, s) : Groups(s, g, f, z)[k] = Fold(Group(E, g, s, k), f, z)
<1> DEFINE M(u) == Groups(u, g, f, z)
           Good(u) == /\ DOMAIN M(u) = KeysOf(g, u)
                      /\ \A k \in KeysOf(g, u) : M(u)[k] = Fold(Group(E, g, u, k), f, z)
                      /\ \A k : k \notin KeysOf(g, u) => Group(E, g, u, k) = <<>>
           P == {u \in Seq(E) : Good(u)}
<1>1. Good(<<>>)
  <2>1. M(<<>>) = <<>>
    BY GroupsAppend
  <2>2. DOMAIN M(<<>>) = {}
    BY <2>1
  <2>3. KeysOf(g, <<>>) = {} /\ \A k : Group(E, g, <<>>, k) = <<>>
    BY GroupLaws, KeysLaws
  <2> QED
    BY <2>2, <2>3
<1>2. \A u \in Seq(E), e \in E : M(Append(u, e)) = Grouped(M(u), g[e], e, f, z)
  BY GroupsAppend
<1>3. ASSUME NEW u \in Seq(Z), NEW e \in Z
      PROVE  Fold(u, f, z) \in Z /\ Fold(Append(u, e), f, z) = Step(f, Fold(u, f, z), e)
  BY FoldIn, FoldAppend
<1>4. Fold(<<>>, f, z) = z
  BY FoldEmpty
<1>5. ASSUME NEW u \in Seq(E), NEW e \in E, Good(u) PROVE Good(Append(u, e))
  <2>1. PICK v : v = Append(u, e)
    OBVIOUS
  <2>2. PICK m : m = M(u)
    OBVIOUS
  <2>3. PICK n : n = M(v)
    OBVIOUS
  <2>4. PICK h : h = g[e]
    OBVIOUS
  <2>5. n = Grouped(m, h, e, f, z)
    BY <1>2, <2>1, <2>2, <2>3, <2>4
  <2>6. DOMAIN m = KeysOf(g, u) /\ \A k \in KeysOf(g, u) : m[k] = Fold(Group(E, g, u, k), f, z)
    BY <1>5, <2>2
  <2>7. \A k : k \notin KeysOf(g, u) => Group(E, g, u, k) = <<>>
    BY <1>5
  <2>8. KeysOf(g, v) = KeysOf(g, u) \cup {h}
    BY <2>1, <2>4, KeysLaws
  <2>9. DOMAIN n = KeysOf(g, v)
    BY <2>5, <2>6, <2>8 DEF Grouped
  <2>10. ASSUME NEW k, k # h PROVE Group(E, g, v, k) = Group(E, g, u, k)
    BY <2>1, <2>4, <2>10, GroupAppend
  <2>11. Group(E, g, v, h) = Append(Group(E, g, u, h), e)
    BY <2>1, <2>4, GroupAppend
  <2>12. ASSUME NEW k \in KeysOf(g, v), k # h PROVE n[k] = Fold(Group(E, g, v, k), f, z)
    <3>1. k \in KeysOf(g, u)
      BY <2>8, <2>12
    <3>2. n[k] = m[k]
      BY <2>5, <2>6, <2>12, <3>1 DEF Grouped
    <3> QED
      BY <2>6, <2>10, <2>12, <3>1, <3>2
  <2>13. n[h] = Fold(Group(E, g, v, h), f, z)
    <3>1. e \in Z
      OBVIOUS
    <3>2. PICK w \in Seq(Z) : w = Group(E, g, u, h)
      <4>1. Group(E, g, u, h) \in Seq(E)
        BY GroupLaws
      <4>2. E \subseteq Z
        OBVIOUS
      <4>3. Group(E, g, u, h) \in Seq(Z)
        BY <4>1, <4>2, SeqMonotonic
      <4> QED
        BY <4>3
    <3>3. Fold(w, f, z) \in Z /\ Fold(Append(w, e), f, z) = Step(f, Fold(w, f, z), e)
      BY <1>3, <3>1
    <3>4. n[h] = IF h \in DOMAIN m THEN Step(f, e, m[h]) ELSE Step(f, z, e)
      BY <2>5 DEF Grouped
    <3>5. CASE h \in DOMAIN m
      <4>1. m[h] = Fold(w, f, z)
        BY <2>6, <3>2, <3>5
      <4>2. Step(f, e, m[h]) = Step(f, m[h], e)
        BY <3>1, <3>3, <4>1 DEF Commutes
      <4> QED
        BY <2>11, <3>2, <3>3, <3>4, <3>5, <4>1, <4>2
    <3>6. CASE h \notin DOMAIN m
      <4>1. w = <<>>
        BY <2>6, <2>7, <3>2, <3>6
      <4> QED
        BY <1>4, <2>11, <3>2, <3>3, <3>4, <3>6, <4>1
    <3> QED
      BY <3>5, <3>6
  <2>14. ASSUME NEW k, k \notin KeysOf(g, v) PROVE Group(E, g, v, k) = <<>>
    <3>1. k # h /\ k \notin KeysOf(g, u)
      BY <2>8, <2>14
    <3> QED
      BY <2>7, <2>10, <3>1
  <2>15. \A k \in KeysOf(g, v) : n[k] = Fold(Group(E, g, v, k), f, z)
    BY <2>12, <2>13
  <2> QED
    BY <2>1, <2>3, <2>9, <2>14, <2>15
<1>6. \A u : u \in P <=> u \in Seq(E) /\ Good(u)
  OBVIOUS
<1> HIDE DEF Good, P
<1>7. <<>> \in P /\ \A u \in Seq(E), e \in E : u \in P => Append(u, e) \in P
  BY <1>1, <1>5, <1>6, EmptySeq, AppendProperties
<1>8. Seq(E) \subseteq P
  BY <1>7, ListInduction
<1>9. Good(s)
  BY <1>6, <1>8
<1> QED
  BY <1>9 DEF Good

\* A set of the keys 0 and 1 can be enumerated in order.
LEMMA AscendingIs ==
  ASSUME NEW keys \in SUBSET (0 .. 1)
  PROVE  /\ Ascending(keys) \in [1 .. Cardinality(keys) -> keys]
         /\ \A i, j \in 1 .. Cardinality(keys) : i < j => Ascending(keys)[i] < Ascending(keys)[j]
<1> DEFINE n == Cardinality(keys)
<1>1. \E ks \in [1 .. n -> keys] : \A i, j \in 1 .. n : i < j => ks[i] < ks[j]
  <2>1. CASE keys = {}
    <3>1. n = 0
      BY <2>1, FS_EmptySet
    <3>2. PICK ks \in [1 .. 0 -> keys] : ks = [i \in 1 .. 0 |-> i]
      <4>1. [i \in 1 .. 0 |-> i] \in [1 .. 0 -> keys]
        OBVIOUS
      <4> QED
        BY <4>1
    <3>3. \A i, j \in 1 .. 0 : i < j => ks[i] < ks[j]
      OBVIOUS
    <3> QED
      BY <3>1, <3>3
  <2>2. ASSUME NEW k \in keys, keys = {k}
        PROVE  \E ks \in [1 .. n -> keys] : \A i, j \in 1 .. n : i < j => ks[i] < ks[j]
    <3>1. n = 1
      BY <2>2, FS_Singleton
    <3>2. PICK ks \in [1 .. 1 -> keys] : ks = [i \in 1 .. 1 |-> k]
      <4>1. [i \in 1 .. 1 |-> k] \in [1 .. 1 -> keys]
        OBVIOUS
      <4> QED
        BY <4>1
    <3>3. \A i, j \in 1 .. 1 : i < j => ks[i] < ks[j]
      OBVIOUS
    <3> QED
      BY <3>1, <3>3
  <2>3. CASE keys = 0 .. 1
    <3>1. n = 2
      <4>1. PICK a \in Int, b \in Int : a = 0 /\ b = 1
        OBVIOUS
      <4>2. Cardinality(a .. b) = IF a > b THEN 0 ELSE b - a + 1
        BY FS_Interval
      <4> QED
        BY <2>3, <4>1, <4>2
    <3>2. PICK ks \in [1 .. 2 -> keys] : \A i \in 1 .. 2 : ks[i] = i - 1
      <4>1. [i \in 1 .. 2 |-> i - 1] \in [1 .. 2 -> keys]
        BY <2>3
      <4> QED
        BY <4>1
    <3>3. \A i, j \in 1 .. 2 : i < j => ks[i] < ks[j]
      BY <3>2
    <3> QED
      BY <3>1, <3>3
  <2>4. \/ keys = {} \/ keys = {0} \/ keys = {1} \/ keys = 0 .. 1
    <3>1. \A x \in 0 .. 1 : x = 0 \/ x = 1
      OBVIOUS
    <3> QED
      BY <3>1
  <2> QED
    BY <2>1, <2>2, <2>3, <2>4
<1> HIDE DEF n
<1>2. PICK ks : ks = Ascending(keys)
  OBVIOUS
<1>3. ks = CHOOSE q \in [1 .. n -> keys] : \A i, j \in DOMAIN q : i < j => q[i] < q[j]
  BY <1>2 DEF Ascending, n
<1>4. \E q \in [1 .. n -> keys] : \A i, j \in DOMAIN q : i < j => q[i] < q[j]
  BY <1>1
<1>5. ks \in [1 .. n -> keys] /\ \A i, j \in DOMAIN ks : i < j => ks[i] < ks[j]
  BY <1>3, <1>4
<1> QED
  BY <1>2, <1>5 DEF n

LEMMA GroupByIsFolds ==
  ASSUME NEW s \in Seq(Elements), NEW g \in [Elements -> 0 .. 1], NEW keys,
         keys = Ascending(KeysOf(g, s)), NEW f \in Steps(Nat, Nat), Commutes(f, Nat),
         NEW z \in Nat
  PROVE  GroupBy(s, g, f, z) =
           [i \in DOMAIN keys |-> <<keys[i], Fold(Group(Elements, g, s, keys[i]), f, z)>>]
<1>1. \A e \in Elements : e \in Nat /\ g[e] \in 0 .. 1
  BY ElementAssumption
<1>2. PICK m : m = Groups(s, g, f, z)
  OBVIOUS
<1>3. /\ DOMAIN m = KeysOf(g, s)
      /\ \A k \in KeysOf(g, s) : m[k] = Fold(Group(Elements, g, s, k), f, z)
  <2>1. PICK Z : Z = Nat
    OBVIOUS
  <2>2. /\ \A e \in Elements : e \in Z
        /\ f \in Steps(Z, Z) /\ z \in Z /\ Commutes(f, Z)
    BY <1>1, <2>1
  <2> QED
    BY <1>2, <2>2, GroupIsFold
<1>4. KeysOf(g, s) \in SUBSET (0 .. 1)
  <2>1. ToSet(s) \subseteq Elements
    BY ElementOfSeq, LenProperties DEF ToSet
  <2> QED
    BY <1>1, <2>1 DEF KeysOf
<1>5. \A i \in DOMAIN keys : keys[i] \in KeysOf(g, s)
  BY <1>4, AscendingIs
<1>6. GroupBy(s, g, f, z) = [i \in DOMAIN keys |-> <<keys[i], m[keys[i]]>>]
  BY <1>2, <1>3 DEF GroupBy, InKeyOrder
<1> QED
  BY <1>3, <1>5, <1>6

\* For every collection, the pairs that group_by gives for a commutative function are
\* those of a fold over the elements of each key, one for each key and in key order.
THEOREM GroupingIsFolding == Spec => []GroupsAreFolds
<1>1. ASSUME Typed PROVE GroupsAreFolds
  <2>1. data \in Seq(Elements)
    BY <1>1 DEF Typed
  <2>2. Plus \in Steps(Nat, Nat) /\ Commutes(Plus, Nat)
    BY PlusSteps DEF Commutes
  <2>3. Larger \in Steps(Nat, Nat) /\ Commutes(Larger, Nat)
    BY LargerSteps DEF Commutes
  <2>4. ASSUME NEW g \in [Elements -> 0 .. 1], NEW keys, keys = Ascending(KeysOf(g, data))
        PROVE  /\ GroupBy(data, g, Plus, 1) =
                    [i \in DOMAIN keys |->
                       <<keys[i], Fold(Group(Elements, g, data, keys[i]), Plus, 1)>>]
               /\ GroupBy(data, g, Larger, 0) =
                    [i \in DOMAIN keys |->
                       <<keys[i], Fold(Group(Elements, g, data, keys[i]), Larger, 0)>>]
    BY <2>1, <2>2, <2>3, <2>4, GroupByIsFolds
  <2> QED
    BY <2>4 DEF GroupsAreFolds, KeysOf, Group
<1> QED
  BY <1>1, AlwaysTyped, PTL
===============================================================================
