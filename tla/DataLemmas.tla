----------------------------- MODULE DataLemmas -----------------------------
(***************************************************************************)
(* Facts about sequences that several proofs need, and induction over the  *)
(* natural numbers for sets: the induction theorems of the library have an *)
(* operator as a parameter, this one has not.                              *)
(***************************************************************************)
EXTENDS Integers, Sequences, SequencesExt, SequenceTheorems,
        FiniteSetTheorems, TLAPS

\* A set that has 0, and n + 1 with n, has all the naturals: otherwise the
\* intervals up to those it lacks have a smallest one.
LEMMA NatSetInduction ==
  ASSUME NEW S, 0 \in S, \A n \in Nat : n \in S => n + 1 \in S
  PROVE  Nat \subseteq S
<1> SUFFICES ASSUME NEW m \in Nat, m \notin S
             PROVE  FALSE
  OBVIOUS
<1> DEFINE T == {0 .. n : n \in Nat \ S}
<1>1. T \subseteq FiniteSubsetsOf(Nat)
  <2>1. ASSUME NEW n \in Nat
        PROVE  0 .. n \in FiniteSubsetsOf(Nat)
    BY FS_Interval DEF FiniteSubsetsOf
  <2>2. QED
    BY <2>1
<1>2. T # {}
  OBVIOUS
<1>3. PICK x \in T : \A y \in T : ~ (<<y, x>> \in StrictSubsetOrdering(Nat))
  <2> HIDE DEF T
  <2>1. IsWellFoundedOn(StrictSubsetOrdering(Nat), FiniteSubsetsOf(Nat))
    BY FS_StrictSubsetOrderingWellFounded
  <2>2. QED
    BY <1>1, <1>2, <2>1, WFMin
<1>4. PICK n \in Nat \ S : x = 0 .. n
  OBVIOUS
<1>5. n - 1 \in Nat \ S
  OBVIOUS
<1>6. <<0 .. n - 1, 0 .. n>> \in StrictSubsetOrdering(Nat)
  <2>1. n \in 0 .. n /\ n \notin 0 .. n - 1 /\ 0 .. n - 1 \subseteq 0 .. n
    OBVIOUS
  <2>2. QED
    BY <2>1 DEF StrictSubsetOrdering
<1>7. QED
  BY <1>3, <1>4, <1>5, <1>6

-----------------------------------------------------------------------------
\* Prefixes, element by element.

\* A prefix, element by element.
LEMMA PrefixElements ==
  ASSUME NEW S, NEW s \in Seq(S), NEW t \in Seq(S)
  PROVE  IsPrefix(s, t) <=>
           Len(s) <= Len(t) /\ \A i \in 1 .. Len(s) : s[i] = t[i]
<1>1. CASE Len(s) <= Len(t)
  <2>1. /\ SubSeq(s, 1, Len(s)) \in Seq(S) /\ Len(SubSeq(s, 1, Len(s))) = Len(s)
        /\ \A i \in 1 .. Len(s) : SubSeq(s, 1, Len(s))[i] = s[i]
    BY SubSeqProperties, ElementOfSeq
  <2>2. /\ SubSeq(t, 1, Len(s)) \in Seq(S) /\ Len(SubSeq(t, 1, Len(s))) = Len(s)
        /\ \A i \in 1 .. Len(s) : SubSeq(t, 1, Len(s))[i] = t[i]
    BY <1>1
  <2>3. QED
    BY <1>1, <2>1, <2>2, SeqEqual DEF IsPrefix
<1>2. CASE ~(Len(s) <= Len(t))
  BY <1>2 DEF IsPrefix
<1>3. QED
  BY <1>1, <1>2

\* A sequence is a prefix of itself.
LEMMA PrefixReflexive ==
  ASSUME NEW S, NEW s \in Seq(S)
  PROVE  IsPrefix(s, s)
  BY PrefixElements

\* A prefix of a prefix is a prefix.
LEMMA PrefixTransitive ==
  ASSUME NEW S, NEW s \in Seq(S), NEW t \in Seq(S), NEW u \in Seq(S),
         IsPrefix(s, t), IsPrefix(t, u)
  PROVE  IsPrefix(s, u)
<1>1. Len(s) <= Len(t) /\ \A i \in 1 .. Len(s) : s[i] = t[i]
  BY PrefixElements
<1>2. Len(t) <= Len(u) /\ \A i \in 1 .. Len(t) : t[i] = u[i]
  BY PrefixElements
<1>3. Len(s) \in Nat /\ Len(t) \in Nat /\ Len(u) \in Nat
  OBVIOUS
<1>4. Len(s) <= Len(u) /\ \A i \in 1 .. Len(s) : s[i] = u[i]
  BY <1>1, <1>2, <1>3
<1>5. QED
  BY <1>4, PrefixElements

\* A sequence that others are put after is a prefix of the result.
LEMMA PrefixConcat ==
  ASSUME NEW S, NEW s \in Seq(S), NEW t \in Seq(S)
  PROVE  s \o t \in Seq(S) /\ IsPrefix(s, s \o t)
<1>1. /\ s \o t \in Seq(S) /\ Len(s \o t) = Len(s) + Len(t)
      /\ \A i \in 1 .. Len(s) + Len(t) :
           (s \o t)[i] = IF i <= Len(s) THEN s[i] ELSE t[i - Len(s)]
  BY ConcatProperties
<1>2. Len(s) \in Nat /\ Len(t) \in Nat
  OBVIOUS
<1>3. Len(s) <= Len(s \o t) /\ \A i \in 1 .. Len(s) : s[i] = (s \o t)[i]
  BY <1>1, <1>2
<1>4. QED
  BY <1>1, <1>3, PrefixElements

\* So is one an element is put after.
LEMMA PrefixAppend ==
  ASSUME NEW S, NEW s \in Seq(S), NEW x \in S
  PROVE  Append(s, x) \in Seq(S) /\ IsPrefix(s, Append(s, x))
<1>1. /\ Append(s, x) \in Seq(S) /\ Len(Append(s, x)) = Len(s) + 1
      /\ \A i \in 1 .. Len(s) : Append(s, x)[i] = s[i]
  OBVIOUS
<1>2. Len(s) <= Len(Append(s, x))
  BY <1>1
<1>3. QED
  BY <1>1, <1>2, PrefixElements

-----------------------------------------------------------------------------
\* Sequences that hold nothing twice.

\* The range of a sequence is what it holds at its positions.
LEMMA SeqElements ==
  ASSUME NEW S, NEW s \in Seq(S)
  PROVE  /\ \A i \in 1 .. Len(s) : s[i] \in Range(s)
         /\ \A x \in Range(s) : \E i \in 1 .. Len(s) : x = s[i]
         /\ Range(s) \subseteq S
<1>1. DOMAIN s = 1 .. Len(s) /\ \A i \in 1 .. Len(s) : s[i] \in S
  OBVIOUS
<1>2. Range(s) = {s[i] : i \in 1 .. Len(s)}
  BY <1>1 DEF Range
<1>3. QED
  BY <1>1, <1>2

\* Two sequences without repetition and with nothing in common, in a row.
LEMMA ConcatInjective ==
  ASSUME NEW S, NEW s \in Seq(S), NEW t \in Seq(S)
  PROVE  /\ Range(s \o t) = Range(s) \cup Range(t)
         /\ (/\ IsInjective(s) /\ IsInjective(t)
             /\ Range(s) \cap Range(t) = {}) => IsInjective(s \o t)
<1>1. /\ s \o t \in Seq(S) /\ Len(s \o t) = Len(s) + Len(t)
      /\ \A i \in 1 .. Len(s) + Len(t) :
           (s \o t)[i] = IF i <= Len(s) THEN s[i] ELSE t[i - Len(s)]
  BY ConcatProperties
<1>2. Len(s) \in Nat /\ Len(t) \in Nat
  OBVIOUS
<1>3. Range(s \o t) = Range(s) \cup Range(t)
  <2>1. ASSUME NEW i \in 1 .. Len(s \o t)
        PROVE  (s \o t)[i] \in Range(s) \cup Range(t)
    <3>1. CASE i <= Len(s)
      BY <1>1, <1>2, <3>1, SeqElements
    <3>2. CASE ~(i <= Len(s))
      <4>1. i - Len(s) \in 1 .. Len(t)
        BY <1>1, <1>2, <3>2
      <4>2. QED
        BY <1>1, <1>2, <3>2, <4>1, SeqElements
    <3>3. QED
      BY <3>1, <3>2
  <2>2. ASSUME NEW i \in 1 .. Len(s)
        PROVE  s[i] \in Range(s \o t)
    <3>1. i \in 1 .. Len(s \o t) /\ (s \o t)[i] = s[i]
      BY <1>1, <1>2
    <3>2. QED
      BY <1>1, <3>1, SeqElements
  <2>3. ASSUME NEW i \in 1 .. Len(t)
        PROVE  t[i] \in Range(s \o t)
    <3>1. i + Len(s) \in 1 .. Len(s \o t) /\ (s \o t)[i + Len(s)] = t[i]
      BY <1>1, <1>2
    <3>2. QED
      BY <1>1, <3>1, SeqElements
  <2>4. ASSUME NEW x \in Range(s \o t)
        PROVE  x \in Range(s) \cup Range(t)
    <3>1. PICK i \in 1 .. Len(s \o t) : x = (s \o t)[i]
      BY <1>1, SeqElements
    <3>2. QED
      BY <2>1, <3>1
  <2>5. \A x \in Range(s) : x \in Range(s \o t)
    BY <2>2, SeqElements
  <2>6. \A x \in Range(t) : x \in Range(s \o t)
    BY <2>3, SeqElements
  <2>7. QED
    BY <2>4, <2>5, <2>6
<1>4. ASSUME IsInjective(s), IsInjective(t), Range(s) \cap Range(t) = {}
      PROVE  IsInjective(s \o t)
  <2>1. SUFFICES ASSUME NEW i \in 1 .. Len(s \o t), NEW j \in 1 .. Len(s \o t),
                        (s \o t)[i] = (s \o t)[j]
                 PROVE  i = j
    BY <1>1 DEF IsInjective
  <2>2. CASE i <= Len(s) /\ j <= Len(s)
    <3>1. s[i] = s[j] /\ i \in DOMAIN s /\ j \in DOMAIN s
      BY <1>1, <1>2, <2>1, <2>2
    <3>2. QED
      BY <1>4, <3>1 DEF IsInjective
  <2>3. CASE ~(i <= Len(s)) /\ ~(j <= Len(s))
    <3>1. /\ t[i - Len(s)] = t[j - Len(s)]
          /\ i - Len(s) \in DOMAIN t /\ j - Len(s) \in DOMAIN t
      BY <1>1, <1>2, <2>1, <2>3
    <3>2. i - Len(s) = j - Len(s)
      BY <1>4, <3>1 DEF IsInjective
    <3>3. QED
      BY <1>1, <1>2, <3>2
  <2>4. ASSUME NEW a \in 1 .. Len(s), NEW b \in 1 .. Len(s \o t), ~(b <= Len(s))
        PROVE  s[a] # t[b - Len(s)]
    <3>1. s[a] \in Range(s)
      BY SeqElements
    <3>2. b - Len(s) \in 1 .. Len(t)
      BY <1>1, <1>2, <2>4
    <3>3. t[b - Len(s)] \in Range(t)
      BY <3>2, SeqElements
    <3>4. QED
      BY <1>4, <3>1, <3>3
  <2>5. CASE i <= Len(s) /\ ~(j <= Len(s))
    <3>1. i \in 1 .. Len(s) /\ (s \o t)[i] = s[i] /\ (s \o t)[j] = t[j - Len(s)]
      BY <1>1, <1>2, <2>5
    <3>2. QED
      BY <2>1, <2>4, <2>5, <3>1
  <2>6. CASE ~(i <= Len(s)) /\ j <= Len(s)
    <3>1. j \in 1 .. Len(s) /\ (s \o t)[j] = s[j] /\ (s \o t)[i] = t[i - Len(s)]
      BY <1>1, <1>2, <2>6
    <3>2. QED
      BY <2>1, <2>4, <2>6, <3>1
  <2>7. QED
    BY <2>2, <2>3, <2>5, <2>6
<1>5. QED
  BY <1>3, <1>4

\* A sequence cut in two after its first k elements.
LEMMA CutFacts ==
  ASSUME NEW S, NEW s \in Seq(S), NEW k \in Nat, k <= Len(s)
  PROVE  LET front == SubSeq(s, 1, k)
             back == SubSeq(s, k + 1, Len(s))
         IN  /\ front \in Seq(S) /\ back \in Seq(S)
             /\ Len(front) = k /\ Len(back) = Len(s) - k
             /\ \A i \in 1 .. k : front[i] = s[i]
             /\ \A i \in 1 .. Len(s) - k : back[i] = s[k + i]
             /\ Range(front) \subseteq Range(s) /\ Range(back) \subseteq Range(s)
             /\ IsInjective(s) => /\ IsInjective(front) /\ IsInjective(back)
                                  /\ Range(front) \cap Range(back) = {}
<1> DEFINE front == SubSeq(s, 1, k)
           back == SubSeq(s, k + 1, Len(s))
<1>1. Len(s) \in Nat /\ \A i \in 1 .. Len(s) : s[i] \in S
  BY ElementOfSeq
<1>2. /\ front \in Seq(S) /\ Len(front) = k /\ \A i \in 1 .. k : front[i] = s[i]
  <2>1. \A i \in 1 .. k : s[i] \in S
    BY <1>1
  <2>2. /\ front \in Seq(S) /\ Len(front) = IF 1 <= k THEN k - 1 + 1 ELSE 0
        /\ \A i \in 1 .. k - 1 + 1 : front[i] = s[1 + i - 1]
    BY <2>1, SubSeqProperties
  <2> HIDE DEF front
  <2>3. QED
    BY <1>1, <2>2
<1>3. /\ back \in Seq(S) /\ Len(back) = Len(s) - k
      /\ \A i \in 1 .. Len(s) - k : back[i] = s[k + i]
  <2>1. \A i \in k + 1 .. Len(s) : s[i] \in S
    BY <1>1
  <2>2. /\ back \in Seq(S)
        /\ Len(back) = IF k + 1 <= Len(s) THEN Len(s) - (k + 1) + 1 ELSE 0
        /\ \A i \in 1 .. Len(s) - (k + 1) + 1 : back[i] = s[(k + 1) + i - 1]
    BY <1>1, <2>1, SubSeqProperties
  <2> HIDE DEF back
  <2>3. QED
    BY <1>1, <2>2
<1> HIDE DEF front, back
<1>4. Range(front) \subseteq Range(s) /\ Range(back) \subseteq Range(s)
  <2>1. \A i \in 1 .. Len(front) : i \in 1 .. Len(s) /\ front[i] = s[i]
    BY <1>1, <1>2
  <2>2. \A i \in 1 .. Len(back) : k + i \in 1 .. Len(s) /\ back[i] = s[k + i]
    BY <1>1, <1>3
  <2>3. QED
    BY <1>2, <1>3, <2>1, <2>2, SeqElements, SMTT(40)
<1>5. ASSUME IsInjective(s)
      PROVE  IsInjective(front) /\ IsInjective(back) /\ Range(front) \cap Range(back) = {}
  <2>1. \A i, j \in 1 .. Len(s) : s[i] = s[j] => i = j
    BY <1>5 DEF IsInjective
  <2>2. IsInjective(front)
    BY <1>1, <1>2, <2>1 DEF IsInjective
  <2>3. IsInjective(back)
    <3>1. ASSUME NEW i \in 1 .. Len(back), NEW j \in 1 .. Len(back), back[i] = back[j]
          PROVE  i = j
      <4>1. /\ k + i \in 1 .. Len(s) /\ k + j \in 1 .. Len(s)
            /\ s[k + i] = s[k + j]
        BY <1>1, <1>3, <3>1
      <4>2. QED
        BY <2>1, <4>1
    <3>2. QED
      BY <1>3, <3>1 DEF IsInjective
  <2>4. ASSUME NEW i \in 1 .. Len(front), NEW j \in 1 .. Len(back)
        PROVE  front[i] # back[j]
    <3>1. /\ i \in 1 .. Len(s) /\ k + j \in 1 .. Len(s) /\ i # k + j
          /\ front[i] = s[i] /\ back[j] = s[k + j]
      BY <1>1, <1>2, <1>3
    <3>2. QED
      BY <2>1, <3>1
  <2>5. Range(front) \cap Range(back) = {}
    <3>1. ASSUME NEW x \in Range(front) \cap Range(back)
          PROVE  FALSE
      <4>1. PICK i \in 1 .. Len(front) : x = front[i]
        BY <1>2, SeqElements
      <4>2. PICK j \in 1 .. Len(back) : x = back[j]
        BY <1>3, SeqElements
      <4>3. QED
        BY <2>4, <4>1, <4>2
    <3>2. QED
      BY <3>1
  <2>6. QED
    BY <2>2, <2>3, <2>5
<1>6. QED
  BY <1>2, <1>3, <1>4, <1>5 DEF front, back
-----------------------------------------------------------------------------
\* What FlattenSeq makes of a sequence of sequences.

\* What FlattenSeq builds up, one sequence after another.
IsFlat(g, F) ==
  g = [i \in 1 .. Len(F) |-> IF i = 1 THEN F[i] ELSE g[i - 1] \o F[i]]

\* F is the first part of G.
Begins(F, G) == Len(F) <= Len(G) /\ \A i \in 1 .. Len(F) : F[i] = G[i]

\* There is such a function.
LEMMA FlatExists ==
  ASSUME NEW T, NEW F \in Seq(Seq(T))
  PROVE  \E g : IsFlat(g, F) /\ \A i \in 1 .. Len(F) : g[i] \in Seq(T)
<1> DEFINE Good(n) ==
      \A G \in Seq(Seq(T)) : Len(G) = n =>
        \E g : IsFlat(g, G) /\ \A i \in 1 .. n : g[i] \in Seq(T)
    S == {n \in Nat : Good(n)}
<1>1. 0 \in S
  <2>1. ASSUME NEW G \in Seq(Seq(T)), Len(G) = 0
        PROVE  IsFlat(<<>>, G)
    BY <2>1 DEF IsFlat
  <2>2. QED
    BY <2>1
<1>2. ASSUME NEW n \in Nat, n \in S
      PROVE  n + 1 \in S
  <2>1. SUFFICES ASSUME NEW G \in Seq(Seq(T)), Len(G) = n + 1
                 PROVE  \E g : IsFlat(g, G) /\ \A i \in 1 .. n + 1 : g[i] \in Seq(T)
    OBVIOUS
  <2>2. \A i \in 1 .. n + 1 : G[i] \in Seq(T)
    BY <2>1
  <2> DEFINE G1 == [i \in 1 .. n |-> G[i]]
  <2>3. G1 \in Seq(Seq(T)) /\ Len(G1) = n
    BY <2>2
  <2>4. PICK g : IsFlat(g, G1) /\ \A i \in 1 .. n : g[i] \in Seq(T)
    BY <1>2, <2>3
  <2> DEFINE last == IF n = 0 THEN G[n + 1] ELSE g[n] \o G[n + 1]
             h == [i \in 1 .. n + 1 |-> IF i <= n THEN g[i] ELSE last]
  <2>5. last \in Seq(T)
    <3>1. CASE n = 0
      BY <2>2, <3>1
    <3>2. CASE n # 0
      <4>1. g[n] \in Seq(T) /\ G[n + 1] \in Seq(T)
        BY <2>2, <2>4, <3>2
      <4>2. QED
        BY <3>2, <4>1, ConcatProperties
    <3>3. QED
      BY <3>1, <3>2
  <2>6. \A i \in 1 .. n : g[i] = IF i = 1 THEN G[i] ELSE g[i - 1] \o G[i]
    BY <2>3, <2>4 DEF IsFlat
  <2>7. \A i \in 1 .. n + 1 : h[i] = IF i = 1 THEN G[i] ELSE h[i - 1] \o G[i]
    <3> SUFFICES ASSUME NEW i \in 1 .. n + 1
                 PROVE  h[i] = IF i = 1 THEN G[i] ELSE h[i - 1] \o G[i]
      OBVIOUS
    <3>1. CASE i <= n
      <4>1. h[i] = g[i] /\ (i # 1 => h[i - 1] = g[i - 1])
        BY <3>1
      <4>2. QED
        BY <2>6, <3>1, <4>1
    <3>2. CASE ~(i <= n)
      <4>1. i = n + 1 /\ h[i] = last /\ (i # 1 => h[i - 1] = g[n])
        BY <3>2
      <4>2. QED
        BY <4>1
    <3>3. QED
      BY <3>1, <3>2
  <2>8. IsFlat(h, G)
    BY <2>1, <2>7 DEF IsFlat
  <2>9. \A i \in 1 .. n + 1 : h[i] \in Seq(T)
    BY <2>4, <2>5
  <2>10. QED
    BY <2>8, <2>9
<1> HIDE DEF Good, S
<1>3. Nat \subseteq S
  BY <1>1, <1>2, NatSetInduction
<1>4. Len(F) \in S
  BY <1>3
<1>5. QED
  BY <1>4 DEF S, Good

\* And it is the same on what two sequences have in common.
LEMMA FlatUnique ==
  ASSUME NEW T, NEW F \in Seq(Seq(T)), NEW G \in Seq(Seq(T)), NEW g, NEW h,
         IsFlat(g, F), IsFlat(h, G), Begins(F, G)
  PROVE  \A i \in 1 .. Len(F) : g[i] = h[i]
<1> DEFINE S == {i \in Nat : i \in 1 .. Len(F) => g[i] = h[i]}
<1>1. /\ \A i \in 1 .. Len(F) : g[i] = IF i = 1 THEN F[i] ELSE g[i - 1] \o F[i]
      /\ \A i \in 1 .. Len(G) : h[i] = IF i = 1 THEN G[i] ELSE h[i - 1] \o G[i]
      /\ Len(F) <= Len(G) /\ \A i \in 1 .. Len(F) : F[i] = G[i]
  BY DEF IsFlat, Begins
<1>2. 0 \in S
  OBVIOUS
<1>3. ASSUME NEW n \in Nat, n \in S
      PROVE  n + 1 \in S
  <2>1. SUFFICES ASSUME n + 1 \in 1 .. Len(F)
                 PROVE  g[n + 1] = h[n + 1]
    OBVIOUS
  <2>2. n + 1 \in 1 .. Len(G)
    BY <1>1, <2>1
  <2>3. CASE n = 0
    BY <1>1, <2>1, <2>2, <2>3
  <2>4. CASE n # 0
    <3>1. g[n] = h[n]
      BY <1>3, <2>1, <2>4
    <3>2. QED
      BY <1>1, <2>1, <2>2, <2>4, <3>1
  <2>5. QED
    BY <2>3, <2>4
<1> HIDE DEF S
<1>4. Nat \subseteq S
  BY <1>2, <1>3, NatSetInduction
<1>5. QED
  BY <1>4 DEF S

\* FlattenSeq puts the sequences one after another.
LEMMA FlattenFacts ==
  ASSUME NEW T
  PROVE  /\ FlattenSeq(<<>>) = <<>>
         /\ \A F \in Seq(Seq(T)) : FlattenSeq(F) \in Seq(T)
         /\ \A F \in Seq(Seq(T)), s \in Seq(T) :
              FlattenSeq(Append(F, s)) = FlattenSeq(F) \o s
<1> DEFINE flat(F) == CHOOSE g : IsFlat(g, F)
<1>1. \A F : FlattenSeq(F) = IF Len(F) = 0 THEN F ELSE flat(F)[Len(F)]
  BY DEF FlattenSeq, IsFlat
<1>2. \A F \in Seq(Seq(T)) : IsFlat(flat(F), F) /\ \A i \in 1 .. Len(F) : flat(F)[i] \in Seq(T)
  <2> SUFFICES ASSUME NEW F \in Seq(Seq(T))
               PROVE  IsFlat(flat(F), F) /\ \A i \in 1 .. Len(F) : flat(F)[i] \in Seq(T)
    OBVIOUS
  <2>1. PICK g : IsFlat(g, F) /\ \A i \in 1 .. Len(F) : g[i] \in Seq(T)
    BY FlatExists
  <2>2. IsFlat(flat(F), F)
    BY <2>1
  <2> HIDE DEF flat
  <2>3. PICK h : h = flat(F)
    OBVIOUS
  <2>4. Begins(F, F)
    BY DEF Begins
  <2>5. \A i \in 1 .. Len(F) : h[i] = g[i]
    BY <2>1, <2>2, <2>3, <2>4, FlatUnique
  <2>6. QED
    BY <2>1, <2>2, <2>3, <2>5
<1> HIDE DEF flat
<1>3. FlattenSeq(<<>>) = <<>>
  BY <1>1
<1>4. \A F \in Seq(Seq(T)) : FlattenSeq(F) \in Seq(T)
  <2> SUFFICES ASSUME NEW F \in Seq(Seq(T))
               PROVE  FlattenSeq(F) \in Seq(T)
    OBVIOUS
  <2>1. CASE Len(F) = 0
    <3>1. F = <<>>
      BY <2>1
    <3>2. <<>> \in Seq(T)
      OBVIOUS
    <3>3. FlattenSeq(F) = FlattenSeq(<<>>)
      BY <3>1
    <3>4. QED
      BY <1>3, <3>2, <3>3
  <2>2. CASE Len(F) # 0
    <3>1. Len(F) \in 1 .. Len(F) /\ FlattenSeq(F) = flat(F)[Len(F)]
      BY <1>1, <2>2
    <3>2. \A i \in 1 .. Len(F) : flat(F)[i] \in Seq(T)
      BY <1>2
    <3>3. flat(F)[Len(F)] \in Seq(T)
      BY <3>1, <3>2
    <3>4. QED
      BY <3>1, <3>3
  <2>3. QED
    BY <2>1, <2>2
<1>5. ASSUME NEW F \in Seq(Seq(T)), NEW s \in Seq(T)
      PROVE  FlattenSeq(Append(F, s)) = FlattenSeq(F) \o s
  <2> DEFINE G == Append(F, s)
             n == Len(F)
  <2>1. /\ G \in Seq(Seq(T)) /\ n \in Nat /\ Len(G) = n + 1 /\ G[n + 1] = s
        /\ \A i \in 1 .. n : F[i] = G[i]
    OBVIOUS
  <2> HIDE DEF G, n
  <2>2. FlattenSeq(G) = flat(G)[n + 1]
    BY <1>1, <2>1
  <2>3. flat(G)[n + 1] = IF n = 0 THEN s ELSE flat(G)[n] \o s
    <3>1. PICK g : g = flat(G)
      OBVIOUS
    <3>2. IsFlat(g, G)
      BY <1>2, <2>1, <3>1
    <3>3. \A i \in 1 .. n + 1 : g[i] = IF i = 1 THEN G[i] ELSE g[i - 1] \o G[i]
      BY <2>1, <3>2 DEF IsFlat
    <3>4. n + 1 \in 1 .. n + 1 /\ (n + 1) - 1 = n /\ (n + 1 = 1 <=> n = 0)
      BY <2>1
    <3>5. g[n + 1] = IF n = 0 THEN s ELSE g[n] \o s
      BY <2>1, <3>3, <3>4
    <3>6. QED
      BY <3>1, <3>5
  <2>4. CASE n = 0
    <3>1. F = <<>>
      BY <2>4 DEF n
    <3>2. <<>> \o s = s
      OBVIOUS
    <3>3. QED
      BY <1>3, <2>2, <2>3, <2>4, <3>1, <3>2 DEF G
  <2>5. CASE n # 0
    <3>1. FlattenSeq(F) = flat(F)[n]
      BY <1>1, <2>5 DEF n
    <3>2. flat(F)[n] = flat(G)[n]
      <4>1. IsFlat(flat(F), F) /\ IsFlat(flat(G), G)
        BY <1>2, <2>1
      <4>2. Begins(F, G) /\ n \in 1 .. Len(F)
        <5>1. n = Len(F)
          BY DEF n
        <5>2. n \in 1 .. Len(F) /\ Len(F) <= Len(G)
          BY <2>1, <2>5, <5>1
        <5>3. \A i \in 1 .. Len(F) : F[i] = G[i]
          BY <2>1, <5>1
        <5>4. QED
          BY <5>2, <5>3 DEF Begins
      <4>3. PICK f, g : f = flat(F) /\ g = flat(G)
        OBVIOUS
      <4>4. IsFlat(f, F) /\ IsFlat(g, G)
        BY <4>1, <4>3
      <4>5. \A i \in 1 .. Len(F) : f[i] = g[i]
        BY <2>1, <4>2, <4>4, FlatUnique
      <4>6. QED
        BY <4>2, <4>3, <4>5
    <3>3. QED
      BY <2>2, <2>3, <2>5, <3>1, <3>2 DEF G
  <2>6. QED
    BY <2>4, <2>5
<1>6. QED
  BY <1>3, <1>4, <1>5
\* A sequence is its front and its last element.
LEMMA FrontAndLast ==
  ASSUME NEW T, NEW F \in Seq(T), NEW n \in Nat, Len(F) = n + 1
  PROVE  LET front == [i \in 1 .. n |-> F[i]]
         IN  /\ front \in Seq(T) /\ Len(front) = n /\ F[n + 1] \in T
             /\ \A i \in 1 .. n : front[i] = F[i]
             /\ F = Append(front, F[n + 1])
<1> DEFINE front == [i \in 1 .. n |-> F[i]]
           last == F[n + 1]
<1>1. \A i \in 1 .. n + 1 : F[i] \in T
  OBVIOUS
<1>2. /\ front \in Seq(T) /\ Len(front) = n /\ last \in T
      /\ \A i \in 1 .. n : front[i] = F[i]
  BY <1>1
<1>3. \A i \in 1 .. n + 1 : F[i] = IF i <= n THEN front[i] ELSE last
  <2>1. \A i \in 1 .. n + 1 : ~(i <= n) => i = n + 1
    OBVIOUS
  <2>2. QED
    BY <1>2, <2>1
<1> HIDE DEF front, last
<1>4. /\ Append(front, last) \in Seq(T) /\ Len(Append(front, last)) = n + 1
      /\ \A i \in 1 .. n + 1 :
           Append(front, last)[i] = IF i <= n THEN front[i] ELSE last
  <2>1. /\ Append(front, last) \in Seq(T) /\ Len(Append(front, last)) = n + 1
        /\ \A i \in 1 .. n : Append(front, last)[i] = front[i]
        /\ Append(front, last)[n + 1] = last
    BY <1>2
  <2>2. \A i \in 1 .. n + 1 : ~(i <= n) => i = n + 1
    OBVIOUS
  <2>3. \A i \in 1 .. n + 1 : i <= n => i \in 1 .. n
    OBVIOUS
  <2>4. QED
    BY <2>1, <2>2, <2>3
<1>5. \A i \in 1 .. n + 1 : F[i] = Append(front, last)[i]
  BY <1>3, <1>4
<1>6. F = Append(front, last)
  BY <1>4, <1>5, SeqEqual
<1>7. QED
  BY <1>2, <1>6 DEF front, last

\* FlattenSeq puts the last sequence after what it makes of the others.
LEMMA FlattenLast ==
  ASSUME NEW T, NEW F \in Seq(Seq(T)), NEW n \in Nat, Len(F) = n + 1
  PROVE  LET front == [i \in 1 .. n |-> F[i]]
         IN  /\ front \in Seq(Seq(T)) /\ Len(front) = n
             /\ \A i \in 1 .. n : front[i] = F[i]
             /\ FlattenSeq(F) = FlattenSeq(front) \o F[n + 1]
<1> DEFINE front == [i \in 1 .. n |-> F[i]]
           last == F[n + 1]
<1>1. /\ front \in Seq(Seq(T)) /\ Len(front) = n /\ last \in Seq(T)
      /\ \A i \in 1 .. n : front[i] = F[i]
      /\ F = Append(front, last)
  BY FrontAndLast
<1> HIDE DEF front, last
<1>2. FlattenSeq(Append(front, last)) = FlattenSeq(front) \o last
  BY <1>1, FlattenFacts
<1>3. QED
  BY <1>1, <1>2 DEF front, last

-----------------------------------------------------------------------------
\* Sums over the elements of a finite set.

\* The function MapThenSumSet makes of the weights of a set's elements: a sum
\* for every subset, an element at a time.
IsSum(g, w, S) ==
  g = [T \in SUBSET S |->
         IF T = {} THEN 0
         ELSE LET x == CHOOSE x \in T : TRUE IN w[x] + g[T \ {x}]]

\* One value of it.
LEMMA SumValue ==
  ASSUME NEW S, NEW w, NEW g, IsSum(g, w, S), NEW T \in SUBSET S
  PROVE  /\ T = {} => g[T] = 0
         /\ T # {} => \E x \in T : x = (CHOOSE y \in T : TRUE)
                                   /\ g[T] = w[x] + g[T \ {x}]
<1> DEFINE G(h) == [U \in SUBSET S |->
         IF U = {} THEN 0
         ELSE LET x == CHOOSE x \in U : TRUE IN w[x] + h[U \ {x}]]
<1>1. g = G(g)
  BY DEF IsSum
<1>2. G(g)[T] = IF T = {} THEN 0
                ELSE LET x == CHOOSE x \in T : TRUE IN w[x] + g[T \ {x}]
  OBVIOUS
<1> HIDE DEF G
<1>3. g[T] = IF T = {} THEN 0
             ELSE LET x == CHOOSE x \in T : TRUE IN w[x] + g[T \ {x}]
  BY <1>1, <1>2
<1>4. T # {} => (CHOOSE y \in T : TRUE) \in T
  OBVIOUS
<1>5. QED
  BY <1>3, <1>4

\* There is one, for finite sets of natural weights.
LEMMA SumExists ==
  ASSUME NEW S, IsFiniteSet(S), NEW w \in [S -> Nat]
  PROVE  \E g : IsSum(g, w, S)
<1> DEFINE pick(T) == CHOOSE x \in T : TRUE
           Good(n) == \E g : \A T \in SUBSET S : Cardinality(T) <= n =>
             g[T] = IF T = {} THEN 0 ELSE w[pick(T)] + g[T \ {pick(T)}]
           N == {n \in Nat : Good(n)}
<1>1. \A T \in SUBSET S : /\ IsFiniteSet(T) /\ Cardinality(T) \in Nat
                          /\ Cardinality(T) = 0 <=> T = {}
                          /\ Cardinality(T) <= Cardinality(S)
  BY FS_Subset, FS_CardinalityType, FS_EmptySet
<1>2. \A T \in SUBSET S : T # {} =>
        /\ pick(T) \in T /\ T \ {pick(T)} \in SUBSET S
        /\ Cardinality(T \ {pick(T)}) = Cardinality(T) - 1
  <2> SUFFICES ASSUME NEW T \in SUBSET S, T # {}
               PROVE  /\ pick(T) \in T /\ T \ {pick(T)} \in SUBSET S
                      /\ Cardinality(T \ {pick(T)}) = Cardinality(T) - 1
    OBVIOUS
  <2>1. pick(T) \in T
    OBVIOUS
  <2> HIDE DEF pick
  <2>2. QED
    BY <1>1, <2>1, FS_RemoveElement
<1> HIDE DEF pick
<1>3. 0 \in N
  <2>1. \A T \in SUBSET S : Cardinality(T) <= 0 =>
          [U \in SUBSET S |-> 0][T]
            = IF T = {} THEN 0
              ELSE w[pick(T)] + [U \in SUBSET S |-> 0][T \ {pick(T)}]
    BY <1>1
  <2>2. QED
    BY <2>1
<1>4. ASSUME NEW n \in Nat, n \in N
      PROVE  n + 1 \in N
  <2>1. PICK g : \A T \in SUBSET S : Cardinality(T) <= n =>
                   g[T] = IF T = {} THEN 0 ELSE w[pick(T)] + g[T \ {pick(T)}]
    BY <1>4
  <2> DEFINE h == [T \in SUBSET S |-> IF Cardinality(T) <= n THEN g[T]
                                      ELSE w[pick(T)] + g[T \ {pick(T)}]]
  <2>2. ASSUME NEW T \in SUBSET S, Cardinality(T) <= n + 1
        PROVE  h[T] = IF T = {} THEN 0 ELSE w[pick(T)] + h[T \ {pick(T)}]
    <3>1. CASE T = {}
      <4>1. Cardinality(T) <= n
        BY <1>1, <3>1
      <4>2. QED
        BY <2>1, <3>1, <4>1
    <3>2. CASE T # {}
      <4>1. /\ T \ {pick(T)} \in SUBSET S
            /\ Cardinality(T \ {pick(T)}) <= n
        BY <1>1, <1>2, <2>2, <3>2
      <4>2. h[T \ {pick(T)}] = g[T \ {pick(T)}]
        BY <4>1
      <4>3. h[T] = w[pick(T)] + g[T \ {pick(T)}]
        BY <2>1, <3>2
      <4>4. QED
        BY <3>2, <4>2, <4>3
    <3>3. QED
      BY <3>1, <3>2
  <2> HIDE DEF h
  <2>3. Good(n + 1)
    BY <2>2
  <2> HIDE DEF Good
  <2>4. QED
    BY <2>3
<1> HIDE DEF N
<1>5. Cardinality(S) \in N
  BY <1>1, <1>3, <1>4, NatSetInduction
<1>6. PICK g : \A T \in SUBSET S :
                 g[T] = IF T = {} THEN 0 ELSE w[pick(T)] + g[T \ {pick(T)}]
  BY <1>1, <1>5 DEF N
<1> DEFINE h == [T \in SUBSET S |-> g[T]]
<1>7. h = [T \in SUBSET S |-> IF T = {} THEN 0 ELSE w[pick(T)] + h[T \ {pick(T)}]]
  <2>1. \A T \in SUBSET S : h[T \ {pick(T)}] = g[T \ {pick(T)}]
    OBVIOUS
  <2>2. \A T \in SUBSET S :
          g[T] = IF T = {} THEN 0 ELSE w[pick(T)] + h[T \ {pick(T)}]
    BY <1>6, <2>1
  <2>3. QED
    BY <2>2
<1> HIDE DEF h
<1>8. IsSum(h, w, S)
  BY <1>7 DEF IsSum, pick
<1>9. QED
  BY <1>8

\* The sums of a set depend on nothing but the weights of its elements, and
\* the elements can be taken in any order.
LEMMA SumSame ==
  ASSUME NEW S, NEW U, NEW w, NEW v, NEW g, NEW h, IsSum(g, w, S), IsSum(h, v, U),
         NEW T \in SUBSET S, T \in SUBSET U, IsFiniteSet(T),
         \A x \in T : w[x] = v[x]
  PROVE  g[T] = h[T]
<1> DEFINE N == {n \in Nat : \A V \in SUBSET T : Cardinality(V) = n => g[V] = h[V]}
<1>1. \A V \in SUBSET T : /\ IsFiniteSet(V) /\ Cardinality(V) \in Nat
                          /\ Cardinality(V) = 0 <=> V = {}
  BY FS_Subset, FS_CardinalityType, FS_EmptySet
<1>2. 0 \in N
  <2>1. g[{}] = 0 /\ h[{}] = 0
    BY SumValue
  <2>2. QED
    BY <1>1, <2>1
<1>3. ASSUME NEW n \in Nat, n \in N
      PROVE  n + 1 \in N
  <2> SUFFICES ASSUME NEW V \in SUBSET T, Cardinality(V) = n + 1
               PROVE  g[V] = h[V]
    OBVIOUS
  <2>1. V # {} /\ V \in SUBSET S /\ V \in SUBSET U
    BY <1>1
  <2>2. PICK x \in V : x = (CHOOSE y \in V : TRUE) /\ g[V] = w[x] + g[V \ {x}]
    BY <2>1, SumValue
  <2>3. PICK y \in V : y = (CHOOSE z \in V : TRUE) /\ h[V] = v[y] + h[V \ {y}]
    BY <2>1, SumValue
  <2>4. x = y
    BY <2>2, <2>3
  <2>5. V \ {x} \in SUBSET T /\ Cardinality(V \ {x}) = n
    <3>1. IsFiniteSet(V) /\ V \ {x} \in SUBSET T
      BY <1>1
    <3>2. Cardinality(V \ {x}) = Cardinality(V) - 1
      BY <3>1, FS_RemoveElement
    <3>3. QED
      BY <3>1, <3>2
  <2>6. g[V \ {x}] = h[V \ {x}]
    BY <1>3, <2>5
  <2>7. QED
    BY <2>2, <2>3, <2>4, <2>6
<1> HIDE DEF N
<1>4. Cardinality(T) \in N
  BY <1>1, <1>2, <1>3, NatSetInduction
<1>5. QED
  BY <1>4 DEF N

\* A sum is a natural number, and an element's weight and the rest.
LEMMA SumElement ==
  ASSUME NEW S, IsFiniteSet(S), NEW w \in [S -> Nat], NEW g, IsSum(g, w, S)
  PROVE  \A T \in SUBSET S :
           g[T] \in Nat /\ \A x \in T : g[T] = w[x] + g[T \ {x}]
<1> DEFINE Good(T) == g[T] \in Nat /\ \A x \in T : g[T] = w[x] + g[T \ {x}]
           N == {n \in Nat : \A T \in SUBSET S : Cardinality(T) <= n => Good(T)}
<1>1. \A T \in SUBSET S : /\ IsFiniteSet(T) /\ Cardinality(T) \in Nat
                          /\ Cardinality(T) = 0 <=> T = {}
  BY FS_Subset, FS_CardinalityType, FS_EmptySet
<1>2. 0 \in N
  <2>1. g[{}] = 0
    BY SumValue
  <2>2. QED
    BY <1>1, <2>1
<1>3. ASSUME NEW n \in Nat, n \in N
      PROVE  n + 1 \in N
  <2> SUFFICES ASSUME NEW T \in SUBSET S, Cardinality(T) = n + 1
               PROVE  Good(T)
    BY <1>1, <1>3
  <2>1. T # {}
    BY <1>1
  <2>2. PICK c \in T : g[T] = w[c] + g[T \ {c}]
    BY <2>1, SumValue
  <2>3. \A x \in T : T \ {x} \in SUBSET S /\ Cardinality(T \ {x}) = n
    BY <1>1, FS_RemoveElement
  <2>4. \A x \in T : g[T \ {x}] \in Nat /\ w[x] \in Nat
    BY <1>3, <2>3
  <2>5. ASSUME NEW x \in T
        PROVE  g[T] = w[x] + g[T \ {x}]
    <3>1. CASE x = c
      BY <2>2, <3>1
    <3>2. CASE x # c
      <4>1. Good(T \ {c}) /\ Good(T \ {x})
        <5>1. \A V \in SUBSET S : Cardinality(V) <= n => Good(V)
          BY <1>3
        <5>2. /\ T \ {c} \in SUBSET S /\ Cardinality(T \ {c}) <= n
              /\ T \ {x} \in SUBSET S /\ Cardinality(T \ {x}) <= n
          BY <2>3
        <5> HIDE DEF Good
        <5>3. QED
          BY <5>1, <5>2
      <4>2. x \in T \ {c} /\ c \in T \ {x}
        BY <3>2
      <4>3. (T \ {c}) \ {x} = (T \ {x}) \ {c}
        OBVIOUS
      <4>4. /\ g[T \ {c}] = w[x] + g[(T \ {x}) \ {c}]
            /\ g[T \ {x}] = w[c] + g[(T \ {x}) \ {c}]
        BY <4>1, <4>2, <4>3
      <4>5. g[(T \ {x}) \ {c}] \in Nat
        <5>1. /\ T \ {x} \in SUBSET S /\ (T \ {x}) \ {c} \in SUBSET (T \ {x})
              /\ IsFiniteSet(T \ {x}) /\ Cardinality(T \ {x}) = n
          BY <1>1, <2>3
        <5>2. Cardinality((T \ {x}) \ {c}) <= n /\ (T \ {x}) \ {c} \in SUBSET S
          BY <5>1, FS_Subset
        <5>3. QED
          BY <1>3, <5>2
      <4> DEFINE r == g[(T \ {x}) \ {c}]
                 a == g[T \ {c}]
                 b == g[T \ {x}]
      <4>6. /\ a = w[x] + r /\ b = w[c] + r /\ r \in Nat /\ w[x] \in Nat /\ w[c] \in Nat
            /\ g[T] = w[c] + a
        BY <2>2, <2>4, <4>4, <4>5
      <4> HIDE DEF r, a, b
      <4>7. g[T] = w[x] + b
        BY <4>6
      <4>8. QED
        BY <4>7 DEF b
    <3>3. QED
      BY <3>1, <3>2
  <2>6. g[T] \in Nat
    BY <2>2, <2>4
  <2>7. QED
    BY <2>5, <2>6
<1> HIDE DEF N
<1>4. Nat \subseteq N
  BY <1>2, <1>3, NatSetInduction
<1>5. \A T \in SUBSET S : Good(T)
  BY <1>1, <1>4 DEF N
<1>6. QED
  BY <1>5
=============================================================================
