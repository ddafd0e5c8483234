---------------------------- MODULE FlattenProofs ----------------------------
(***************************************************************************)
(* What FlattenSeq returns.  It is defined by recursion over the sequences *)
(* it concatenates, so the first facts are about numbers.  Induction is    *)
(* over the set of the numbers for which something holds.                  *)
(***************************************************************************)
EXTENDS SequencesExt, SequenceTheorems, WellFoundedInduction, TLAPS

\* A set of numbers that is not empty has a least element.
LEMMA LeastNumber ==
    ASSUME NEW T, T \subseteq Nat, T # {}
    PROVE  \E x \in T : \A y \in T : x <= y
<1>1. PICK x \in T : \A y \in T : <<y, x>> \notin OpToRel(<, Nat)
    BY NatLessThanWellFounded, WFMin
<1>2. \A y \in T : ~(y < x)
    BY <1>1 DEF OpToRel
<1> QED
    BY <1>2

\* Induction, over the set of the numbers for which something holds.
LEMMA Induction ==
    ASSUME NEW P, 0 \in P, \A n \in Nat : n \in P => n + 1 \in P
    PROVE  Nat \subseteq P
<1> SUFFICES ASSUME Nat \ P # {} PROVE FALSE
    OBVIOUS
<1>1. PICK x \in Nat \ P : \A y \in Nat \ P : x <= y
    BY LeastNumber
<1>2. x # 0 /\ x - 1 \in Nat
    BY <1>1
<1>3. x - 1 \in P
    BY <1>1, <1>2
<1> QED
    BY <1>1, <1>2, <1>3

-----------------------------------------------------------------------------
\* What FlattenSeq builds up, for the first n sequences.
IsFlatten(seqs, n, f) ==
    f = [i \in 1..n |-> IF i = 1 THEN seqs[i] ELSE f[i - 1] \o seqs[i]]

\* There is such a function, for any number of sequences.
LEMMA FlattenExists ==
    ASSUME NEW seqs
    PROVE  \A n \in Nat : \E f : IsFlatten(seqs, n, f)
<1> DEFINE P == {n \in Nat : \E f : IsFlatten(seqs, n, f)}
<1>1. 0 \in P
  <2>1. IsFlatten(seqs, 0, <<>>)
      BY DEF IsFlatten
  <2> QED
      BY <2>1
<1>2. ASSUME NEW n \in Nat, n \in P
      PROVE  n + 1 \in P
  <2>1. PICK f : IsFlatten(seqs, n, f)
      BY <1>2
  <2> DEFINE g == [i \in 1..(n + 1) |->
                      IF i \in 1..n THEN f[i]
                      ELSE IF i = 1 THEN seqs[i] ELSE f[i - 1] \o seqs[i]]
  <2>2. \A i \in 1..n : f[i] = IF i = 1 THEN seqs[i] ELSE f[i - 1] \o seqs[i]
      BY <2>1 DEF IsFlatten
  <2>3. \A i \in 1..(n + 1) : i # 1 => i - 1 \in 1..n /\ g[i - 1] = f[i - 1]
      OBVIOUS
  <2>4. \A i \in 1..(n + 1) : g[i] = IF i = 1 THEN seqs[i] ELSE g[i - 1] \o seqs[i]
      BY <2>2, <2>3
  <2>5. g = [i \in 1..(n + 1) |-> g[i]]
      OBVIOUS
  <2> HIDE DEF g
  <2>6. IsFlatten(seqs, n + 1, g)
      BY <2>4, <2>5 DEF IsFlatten
  <2> QED
      BY <2>6
<1> HIDE DEF P
<1>3. Nat \subseteq P
    BY <1>1, <1>2, Induction
<1> QED
    BY <1>3 DEF P

\* FlattenSeq of sequences over S is a sequence over S.
LEMMA FlattenType ==
    ASSUME NEW S, NEW seqs \in Seq(Seq(S))
    PROVE  FlattenSeq(seqs) \in Seq(S)
<1> DEFINE f == CHOOSE f : IsFlatten(seqs, Len(seqs), f)
<1>1. Len(seqs) \in Nat /\ \A i \in 1..Len(seqs) : seqs[i] \in Seq(S)
    OBVIOUS
<1>2. CASE Len(seqs) = 0
  <2>1. FlattenSeq(seqs) = seqs
      BY <1>2 DEF FlattenSeq
  <2>2. seqs = <<>>
      BY <1>2, EmptySeq
  <2> QED
      BY <2>1, <2>2
<1>3. CASE Len(seqs) # 0
  <2>1. FlattenSeq(seqs) = f[Len(seqs)]
      BY <1>3 DEF FlattenSeq, IsFlatten
  <2>2. IsFlatten(seqs, Len(seqs), f)
      BY <1>1, FlattenExists
  <2> HIDE DEF f
  <2>3. \A i \in 1..Len(seqs) : f[i] = IF i = 1 THEN seqs[i] ELSE f[i - 1] \o seqs[i]
      BY <2>2 DEF IsFlatten
  <2> DEFINE P == {n \in Nat : n \in 1..Len(seqs) => f[n] \in Seq(S)}
  <2>4. 0 \in P
      OBVIOUS
  <2>5. ASSUME NEW n \in Nat, n \in P
        PROVE  n + 1 \in P
    <3> SUFFICES ASSUME n + 1 \in 1..Len(seqs)
                 PROVE  f[n + 1] \in Seq(S)
        OBVIOUS
    <3>1. CASE n = 0
      <4>1. 1 \in 1..Len(seqs)
          BY <3>1
      <4>2. f[1] = seqs[1]
          BY <2>3, <4>1
      <4> QED
          BY <1>1, <3>1, <4>1, <4>2
    <3>2. CASE n # 0
      <4>1. n \in 1..Len(seqs) /\ f[n] \in Seq(S)
          BY <1>1, <2>5, <3>2
      <4>2. n + 1 # 1 /\ (n + 1) - 1 = n
          BY <3>2
      <4>3. f[n + 1] = f[n] \o seqs[n + 1]
          BY <2>3, <4>2, Zenon
      <4> QED
          BY <1>1, <4>1, <4>3, ConcatProperties
    <3> QED
        BY <3>1, <3>2
  <2> HIDE DEF P
  <2>6. Nat \subseteq P
      BY <2>4, <2>5, Induction
  <2>7. Len(seqs) \in 1..Len(seqs)
      BY <1>1, <1>3
  <2> QED
      BY <1>1, <2>1, <2>6, <2>7 DEF P
<1> QED
    BY <1>2, <1>3

-----------------------------------------------------------------------------
\* The first n of the sequences.
FirstOf(seqs, n) == [i \in 1..n |-> seqs[i]]

\* Two functions that build up the same sequences agree.
LEMMA FlattenUnique ==
    ASSUME NEW seqs, NEW m \in Nat, NEW n \in 1..m, NEW f, NEW g,
           IsFlatten(seqs, m, f), IsFlatten(FirstOf(seqs, n), n, g)
    PROVE  \A i \in 1..n : g[i] = f[i]
<1> DEFINE P == {i \in Nat : i \in 1..n => g[i] = f[i]}
<1>1. /\ \A i \in 1..m : f[i] = IF i = 1 THEN seqs[i] ELSE f[i - 1] \o seqs[i]
      /\ \A i \in 1..n : g[i] = IF i = 1 THEN FirstOf(seqs, n)[i] ELSE g[i - 1] \o FirstOf(seqs, n)[i]
    BY DEF IsFlatten
<1>2. \A i \in 1..n : i \in 1..m /\ FirstOf(seqs, n)[i] = seqs[i]
    BY DEF FirstOf
<1>3. 0 \in P
    OBVIOUS
<1>4. ASSUME NEW i \in Nat, i \in P
      PROVE  i + 1 \in P
  <2> SUFFICES ASSUME i + 1 \in 1..n PROVE g[i + 1] = f[i + 1]
      OBVIOUS
  <2>1. CASE i = 0
    <3>1. 1 \in 1..n
        BY <2>1
    <3>2. g[1] = FirstOf(seqs, n)[1] /\ f[1] = seqs[1] /\ FirstOf(seqs, n)[1] = seqs[1]
        BY <1>1, <1>2, <3>1
    <3> QED
        BY <2>1, <3>2
  <2>2. CASE i # 0
    <3>1. i + 1 # 1 /\ (i + 1) - 1 = i /\ i \in 1..n
        BY <2>2
    <3>2. g[i] = f[i]
        BY <1>4, <3>1
    <3>3. g[i + 1] = g[i] \o FirstOf(seqs, n)[i + 1] /\ f[i + 1] = f[i] \o seqs[i + 1]
        BY <1>1, <1>2, <3>1, Zenon
    <3> QED
        BY <1>2, <3>2, <3>3
  <2> QED
      BY <2>1, <2>2
<1> HIDE DEF P
<1>5. Nat \subseteq P
    BY <1>3, <1>4, Induction
<1> QED
    BY <1>5 DEF P

\* FlattenSeq of the first sequences is a value of the function.
LEMMA FlattenFirst ==
    ASSUME NEW seqs, NEW m \in Nat, NEW n \in 1..m, NEW f, IsFlatten(seqs, m, f)
    PROVE  FlattenSeq(FirstOf(seqs, n)) = f[n]
<1> DEFINE part == FirstOf(seqs, n)
           g == CHOOSE g : IsFlatten(part, n, g)
<1>1. Len(part) = n
    BY DEF FirstOf
<1>2. FlattenSeq(part) = g[n]
  <2> HIDE DEF part
  <2> QED
      BY <1>1 DEF FlattenSeq, IsFlatten
<1>3. IsFlatten(part, n, g)
    BY FlattenExists
<1> HIDE DEF g
<1>4. \A i \in 1..n : g[i] = f[i]
    BY <1>3, FlattenUnique
<1> QED
    BY <1>2, <1>4

\* One more sequence is one more at the end.
LEMMA FlattenNext ==
    ASSUME NEW S, NEW seqs \in Seq(Seq(S)), NEW n \in 0..(Len(seqs) - 1)
    PROVE  FlattenSeq(FirstOf(seqs, n + 1)) = FlattenSeq(FirstOf(seqs, n)) \o seqs[n + 1]
<1>1. Len(seqs) \in Nat /\ n + 1 \in 1..Len(seqs) /\ seqs[n + 1] \in Seq(S)
    OBVIOUS
<1>2. PICK f : IsFlatten(seqs, Len(seqs), f)
    BY <1>1, FlattenExists
<1>3. \A i \in 1..Len(seqs) : f[i] = IF i = 1 THEN seqs[i] ELSE f[i - 1] \o seqs[i]
    BY <1>2 DEF IsFlatten
<1>4. FlattenSeq(FirstOf(seqs, n + 1)) = f[n + 1]
    BY <1>1, <1>2, FlattenFirst
<1>5. CASE n = 0
  <2>1. FlattenSeq(FirstOf(seqs, 0)) = <<>>
    <3>1. FirstOf(seqs, 0) = <<>> /\ Len(<<>>) = 0
        BY DEF FirstOf
    <3> QED
        BY <3>1 DEF FlattenSeq
  <2>2. f[1] = seqs[1]
      BY <1>1, <1>3, <1>5
  <2>3. <<>> \o seqs[1] = seqs[1]
      BY <1>1, <1>5, ConcatEmptySeq
  <2> QED
      BY <1>4, <1>5, <2>1, <2>2, <2>3
<1>6. CASE n # 0
  <2>1. n \in 1..Len(seqs) /\ n + 1 # 1 /\ (n + 1) - 1 = n
      BY <1>1, <1>6
  <2>2. f[n + 1] = f[n] \o seqs[n + 1]
      BY <1>1, <1>3, <2>1, Zenon
  <2>3. FlattenSeq(FirstOf(seqs, n)) = f[n]
      BY <1>1, <1>2, <2>1, FlattenFirst
  <2> QED
      BY <1>4, <2>2, <2>3
<1> QED
    BY <1>5, <1>6

\* The first sequences are sequences over the same set.
LEMMA FirstOfType ==
    ASSUME NEW S, NEW seqs \in Seq(Seq(S)), NEW n \in 0..Len(seqs)
    PROVE  /\ FirstOf(seqs, n) \in Seq(Seq(S))
           /\ FlattenSeq(FirstOf(seqs, n)) \in Seq(S)
           /\ n = 0 => FlattenSeq(FirstOf(seqs, n)) = <<>>
           /\ n = Len(seqs) => FirstOf(seqs, n) = seqs
<1>1. FirstOf(seqs, n) \in Seq(Seq(S))
  <2>1. \A i \in 1..n : seqs[i] \in Seq(S)
      OBVIOUS
  <2>2. FirstOf(seqs, n) \in [1..n -> Seq(S)] /\ n \in Nat
      BY <2>1 DEF FirstOf
  <2> QED
      BY <2>2
<1>2. n = 0 => FlattenSeq(FirstOf(seqs, n)) = <<>>
  <2>1. FirstOf(seqs, 0) = <<>> /\ Len(<<>>) = 0
      BY DEF FirstOf
  <2> QED
      BY <2>1 DEF FlattenSeq
<1>3. n = Len(seqs) => FirstOf(seqs, n) = seqs
    BY LenProperties DEF FirstOf
<1> QED
    BY <1>1, <1>2, <1>3, FlattenType

\* Empty sequences at the end add nothing.
LEMMA FlattenEmptyRest ==
    ASSUME NEW S, NEW seqs \in Seq(Seq(S)), NEW n \in 0..Len(seqs),
           \A i \in (n + 1)..Len(seqs) : seqs[i] = <<>>
    PROVE  FlattenSeq(seqs) = FlattenSeq(FirstOf(seqs, n))
<1> DEFINE P == {k \in Nat : k + n <= Len(seqs) =>
                     FlattenSeq(FirstOf(seqs, k + n)) = FlattenSeq(FirstOf(seqs, n))}
<1>1. Len(seqs) \in Nat
    OBVIOUS
<1>2. 0 \in P
    OBVIOUS
<1>3. ASSUME NEW k \in Nat, k \in P
      PROVE  k + 1 \in P
  <2> SUFFICES ASSUME (k + 1) + n <= Len(seqs)
               PROVE  FlattenSeq(FirstOf(seqs, (k + 1) + n)) = FlattenSeq(FirstOf(seqs, n))
      OBVIOUS
  <2> DEFINE l == k + n
  <2>1. l \in 0..(Len(seqs) - 1) /\ l \in 0..Len(seqs) /\ l + 1 \in (n + 1)..Len(seqs) /\ (k + 1) + n = l + 1
      BY <1>1
  <2>2. FlattenSeq(FirstOf(seqs, l)) = FlattenSeq(FirstOf(seqs, n))
      BY <1>1, <1>3, <2>1
  <2> HIDE DEF l
  <2>3. FlattenSeq(FirstOf(seqs, l + 1)) = FlattenSeq(FirstOf(seqs, l)) \o seqs[l + 1]
      BY <2>1, FlattenNext
  <2>4. seqs[l + 1] = <<>>
      BY <2>1
  <2>5. FlattenSeq(FirstOf(seqs, l)) \in Seq(S)
      BY <2>1, FirstOfType
  <2>6. FlattenSeq(FirstOf(seqs, l)) \o <<>> = FlattenSeq(FirstOf(seqs, l))
      BY <2>5, ConcatEmptySeq
  <2> QED
      BY <2>1, <2>2, <2>3, <2>4, <2>6
<1> HIDE DEF P
<1>4. Nat \subseteq P
    BY <1>2, <1>3, Induction
<1>5. Len(seqs) - n \in Nat /\ (Len(seqs) - n) + n = Len(seqs)
    BY <1>1
<1>6. FlattenSeq(FirstOf(seqs, Len(seqs))) = FlattenSeq(FirstOf(seqs, n))
    BY <1>1, <1>4, <1>5 DEF P
<1>7. FirstOf(seqs, Len(seqs)) = seqs
    BY <1>1, FirstOfType
<1> QED
    BY <1>6, <1>7
=============================================================================
