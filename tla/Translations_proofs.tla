-------------------------- MODULE Translations_proofs --------------------------
(***************************************************************************)
(* For all sizes of calls, blocks and batches and any number of rounds: no *)
(* element of a VOLE masks two products, every translation made goes into  *)
(* the result once, the differences of a shuffle fit, a call composes      *)
(* permutations, and without a fault it passes its checks and translates.  *)
(***************************************************************************)
EXTENDS Translations, DataLemmas

-----------------------------------------------------------------------------
\* Numbers and sizes.

\* A rounded quotient, and one without a rest.
LEMMA DivFacts ==
  ASSUME NEW x \in Int, NEW y \in Nat \ {0}
  PROVE  /\ x \div y \in Int /\ x % y \in 0 .. y - 1
         /\ x = y * (x \div y) + (x % y)
OBVIOUS

LEMMA DivUnique ==
  ASSUME NEW a \in Int, NEW b \in Nat \ {0}, NEW c \in 0 .. b - 1
  PROVE  /\ (a * b + c) \div b = a
         /\ (a * b + c) % b = c
<1>1. PICK x \in Int, q \in Int, m \in 0 .. b - 1 :
        x = a * b + c /\ q = x \div b /\ m = x % b /\ x = b * q + m
  BY DivFacts
<1>2. b * (a - q) = m - c
  BY <1>1
<1>3. PICK d \in Int : d = a - q
  BY <1>1
<1>4. ~(d >= 1)
  <2>1. ASSUME d >= 1
        PROVE  b * d >= b
    <3>1. b * (d - 1) >= 0
      BY <2>1
    <3>2. QED
      BY <3>1
  <2>2. QED
    BY <1>1, <1>2, <1>3, <2>1
<1>5. ~(d <= -1)
  <2>1. ASSUME d <= -1
        PROVE  b * d <= -b
    <3>1. b * (-d - 1) >= 0
      BY <2>1
    <3>2. QED
      BY <3>1
  <2>2. QED
    BY <1>1, <1>2, <1>3, <2>1
<1>6. d = 0
  BY <1>3, <1>4, <1>5
<1>7. QED
  BY <1>1, <1>2, <1>3, <1>6

\* The next of some parts of four times s.
LEMMA NextPart ==
  ASSUME NEW s \in Nat, NEW t \in Nat
  PROVE  /\ 4 * s * t \in Nat /\ 4 * s * (t + 1) = 4 * s * t + 4 * s
         /\ \A m \in Nat : t < m => 4 * s * t + 4 * s <= 4 * s * m
<1>1. s * t \in Nat
  OBVIOUS
<1>2. 4 * s * t \in Nat /\ 4 * s * (t + 1) = 4 * s * t + 4 * s
  BY <1>1
<1>3. ASSUME NEW m \in Nat, t < m
      PROVE  4 * s * t + 4 * s <= 4 * s * m
  <2>1. PICK d \in Nat : m = t + 1 + d
    BY <1>3
  <2>2. s * d \in Nat /\ s * (t + 1 + d) = s * t + s + s * d
    OBVIOUS
  <2>3. QED
    BY <1>1, <2>1, <2>2
<1>4. QED
  BY <1>2, <1>3

\* The call is one of Jobs.
JobOK == \E j \in Jobs : job.name = j.name /\ job.n = j.n /\ job.T = j.T

\* It has a translation to make at least, and one only if it is not laid out.
LEMMA Sizes ==
  ASSUME JobOK
  PROVE  /\ job.name \in Names
         /\ job.T \in Nat \ {0} /\ job.n \in Nat
         /\ T_num \in Nat \ {0} /\ depth \in Nat \ {0} /\ total \in Nat \ {0}
         /\ job.name \notin Functions2k => T_num = 1 /\ depth = 1 /\ total = 1
<1>1. PICK j \in Jobs : job.name = j.name /\ job.n = j.n /\ job.T = j.T
  BY DEF JobOK
<1>2. /\ j.name \in Names /\ (j.name \notin Functions2k => j.n = j.T)
      /\ {j.T, Log2Ceil(j.T), Log2Ceil(j.n)} \subseteq Nat \ {0}
      /\ j.n \in Nat /\ j.n >= j.T
  BY TranslationsAssumption, BlocksAssumption
<1>3. PICK n \in Nat, T \in Nat \ {0}, nb \in Nat \ {0}, tb \in Nat \ {0} :
        /\ n = job.n /\ T = job.T /\ nb = num_bits /\ tb = T_bits /\ n >= T
        /\ job.name \notin Functions2k => n = T /\ nb = tb
  BY <1>1, <1>2 DEF num_bits, T_bits
<1>4. PICK q \in Int : q = n \div T /\ n < T * q + T
  BY DivFacts
<1>5. q >= 1
  <2>1. ASSUME q <= 0
        PROVE  T * q <= 0
    <3>1. T * (-q) >= 0
      BY <2>1
    <3>2. QED
      BY <3>1
  <2>2. QED
    BY <1>3, <1>4, <2>1
<1>6. PICK w \in Int : w = (nb + tb - 1) \div tb /\ nb + tb - 1 < tb * w + tb
  <2>1. nb + tb - 1 \in Int
    OBVIOUS
  <2>2. QED
    BY <2>1, DivFacts
<1>7. w >= 1
  <2>1. ASSUME w <= 0
        PROVE  tb * w <= 0
    <3>1. tb * (-w) >= 0
      BY <2>1
    <3>2. QED
      BY <3>1
  <2>2. QED
    BY <1>6, <2>1
<1>8. T_num = q /\ depth = 2 * w - 1 /\ total = q * (2 * w - 1)
  BY <1>3, <1>4, <1>6 DEF T_num, depth, total, DivCeil
<1>9. q * (2 * w - 1) \in Nat \ {0}
  BY <1>5, <1>7
<1>10. ASSUME job.name \notin Functions2k
       PROVE  q = 1 /\ w = 1
  <2>1. n = 1 * T + 0 /\ nb + tb - 1 = 1 * tb + (tb - 1)
    BY <1>3, <1>10
  <2>2. (1 * T + 0) \div T = 1 /\ (1 * tb + (tb - 1)) \div tb = 1
    BY DivUnique
  <2>3. QED
    BY <1>4, <1>6, <2>1, <2>2
<1>11. QED
  BY <1>1, <1>2, <1>3, <1>5, <1>7, <1>8, <1>9, <1>10

-----------------------------------------------------------------------------
\* Spans of VOLE elements.

Masks == [vole : Nat \X Nat \X Nat, first : Nat, count : Nat, of : Nat]

Apart(x, y) ==
  x.vole = y.vole =>
    \/ x.first + x.count <= y.first
    \/ y.first + y.count <= x.first
Once(s) ==
  \A x \in DOMAIN s :
    /\ s[x].first + s[x].count <= s[x].of
    /\ \A y \in DOMAIN s : x # y => Apart(s[x], s[y])

\* Of the VOLEs named a, b only the elements before m are used.
Below(s, a, b, m) ==
  \A x \in DOMAIN s :
    s[x].vole[1] = a /\ s[x].vole[2] = b => s[x].first + s[x].count <= m

\* A sequence after another.
LEMMA ConcatFacts ==
  ASSUME NEW S, NEW s \in Seq(S), NEW t \in Seq(S)
  PROVE  /\ s \o t \in Seq(S) /\ Len(s \o t) = Len(s) + Len(t)
         /\ Len(s) \in Nat /\ Len(t) \in Nat
         /\ \A i \in 1 .. Len(s) + Len(t) :
              (s \o t)[i] = IF i <= Len(s) THEN s[i] ELSE t[i - Len(s)]
OBVIOUS

\* Spans that are apart from those before.
LEMMA OnceConcat ==
  ASSUME NEW s \in Seq(Masks), NEW t \in Seq(Masks), Once(s), Once(t),
         \A x \in DOMAIN s : \A y \in DOMAIN t : Apart(s[x], t[y])
  PROVE  s \o t \in Seq(Masks) /\ Once(s \o t)
<1> DEFINE u == s \o t
<1>1. /\ Len(s) \in Nat /\ Len(t) \in Nat /\ u \in Seq(Masks)
      /\ DOMAIN s = 1 .. Len(s) /\ DOMAIN t = 1 .. Len(t)
      /\ DOMAIN u = 1 .. Len(s) + Len(t)
      /\ \A i \in 1 .. Len(s) + Len(t) :
           u[i] = IF i <= Len(s) THEN s[i] ELSE t[i - Len(s)]
  OBVIOUS
<1> HIDE DEF u
<1>2. \A x, y : Apart(x, y) => Apart(y, x)
  BY DEF Apart
<1>3. ASSUME NEW x \in DOMAIN u
      PROVE  \/ x \in DOMAIN s /\ u[x] = s[x] /\ x <= Len(s)
             \/ x - Len(s) \in DOMAIN t /\ u[x] = t[x - Len(s)] /\ x > Len(s)
  BY <1>1
<1>4. ASSUME NEW x \in DOMAIN u
      PROVE  u[x].first + u[x].count <= u[x].of
  BY <1>3 DEF Once
<1>5. ASSUME NEW x \in DOMAIN u, NEW y \in DOMAIN u, x # y
      PROVE  Apart(u[x], u[y])
  <2>1. x \in Int /\ y \in Int /\ Len(s) \in Int
    BY <1>1
  <2>2. x - Len(s) # y - Len(s)
    BY <1>5, <2>1
  <2>3. CASE x <= Len(s) /\ y <= Len(s)
    BY <1>3, <1>5, <2>1, <2>3 DEF Once
  <2>4. CASE x > Len(s) /\ y > Len(s)
    BY <1>3, <1>5, <2>1, <2>2, <2>4 DEF Once
  <2>5. CASE x <= Len(s) /\ y > Len(s)
    BY <1>3, <2>1, <2>5
  <2>6. CASE x > Len(s) /\ y <= Len(s)
    BY <1>2, <1>3, <2>1, <2>6
  <2>7. QED
    BY <2>1, <2>3, <2>4, <2>5, <2>6
<1>6. QED
  BY <1>1, <1>4, <1>5 DEF Once, u

\* What the two columns of a round take of the VOLEs named a, b from base.
Column(c, a, b, base, size, of) ==
  <<[vole |-> <<a, b, 1>>, first |-> base + (c - 1) * size, count |-> size, of |-> of],
    [vole |-> <<a, b, 2>>, first |-> base + (c - 1) * 2 * size, count |-> 2 * size,
     of |-> of],
    [vole |-> <<a, b, 1>>, first |-> base + (c + 1) * size, count |-> size, of |-> of]>>

RoundSpans(a, b, base, size, of) ==
  Column(1, a, b, base, size, of) \o Column(2, a, b, base, size, of)

\* Spans of these VOLEs between base and end.
Between(t, a, b, base, end) ==
  \A x \in DOMAIN t :
    /\ t[x].vole[1] = a /\ t[x].vole[2] = b
    /\ t[x].first >= base /\ t[x].first + t[x].count <= end

\* Below in other VOLEs is as it was.
Elsewhere(s, t, a, b) ==
  \A a2, b2, m : (a2 # a \/ b2 # b) /\ Below(s, a2, b2, m) => Below(t, a2, b2, m)

\* They are apart, and fill what is between base and four sizes on.
LEMMA RoundMasks ==
  ASSUME NEW a \in Nat, NEW b \in Nat, NEW base \in Nat, NEW size \in Nat, NEW of \in Nat,
         base + 4 * size <= of
  PROVE  \A t : t = RoundSpans(a, b, base, size, of) =>
           t \in Seq(Masks) /\ Once(t) /\ Between(t, a, b, base, base + 4 * size)
<1> DEFINE m1 == [vole |-> <<a, b, 1>>, first |-> base, count |-> size, of |-> of]
           m2 == [vole |-> <<a, b, 2>>, first |-> base, count |-> 2 * size, of |-> of]
           m3 == [vole |-> <<a, b, 1>>, first |-> base + 2 * size, count |-> size,
                  of |-> of]
           m4 == [vole |-> <<a, b, 1>>, first |-> base + size, count |-> size, of |-> of]
           m5 == [vole |-> <<a, b, 2>>, first |-> base + 2 * size, count |-> 2 * size,
                  of |-> of]
           m6 == [vole |-> <<a, b, 1>>, first |-> base + 3 * size, count |-> size,
                  of |-> of]
<1>1. /\ Column(1, a, b, base, size, of) = <<m1, m2, m3>>
      /\ Column(2, a, b, base, size, of) = <<m4, m5, m6>>
  BY DEF Column
<1>2. /\ m1 \in Masks /\ m2 \in Masks /\ m3 \in Masks
      /\ m4 \in Masks /\ m5 \in Masks /\ m6 \in Masks
  BY DEF Masks
<1>3. /\ m1.vole[3] = 1 /\ m1.first = base /\ m1.count = size
      /\ m2.vole[3] = 2 /\ m2.first = base /\ m2.count = 2 * size
      /\ m3.vole[3] = 1 /\ m3.first = base + 2 * size /\ m3.count = size
      /\ m4.vole[3] = 1 /\ m4.first = base + size /\ m4.count = size
      /\ m5.vole[3] = 2 /\ m5.first = base + 2 * size /\ m5.count = 2 * size
      /\ m6.vole[3] = 1 /\ m6.first = base + 3 * size /\ m6.count = size
  OBVIOUS
<1>4. \A m \in {m1, m2, m3, m4, m5, m6} :
        m.vole[1] = a /\ m.vole[2] = b /\ m.of = of
  OBVIOUS
<1> HIDE DEF m1, m2, m3, m4, m5, m6
<1> DEFINE t == <<m1, m2, m3, m4, m5, m6>>
<1>5. /\ t \in Seq(Masks) /\ DOMAIN t = 1 .. 6 /\ <<m1, m2, m3>> \o <<m4, m5, m6>> = t
      /\ t[1] = m1 /\ t[2] = m2 /\ t[3] = m3 /\ t[4] = m4 /\ t[5] = m5 /\ t[6] = m6
  <2>1. /\ t[1] = m1 /\ t[2] = m2 /\ t[3] = m3 /\ t[4] = m4 /\ t[5] = m5 /\ t[6] = m6
        /\ DOMAIN t = 1 .. 6
    OBVIOUS
  <2>2. t \in Seq(Masks)
    BY <1>2
  <2>3. <<m1, m2, m3>> \o <<m4, m5, m6>> = t
    <3> DEFINE u == <<m1, m2, m3>>
               v == <<m4, m5, m6>>
    <3>1. /\ u \in Seq(Masks) /\ v \in Seq(Masks) /\ Len(u) = 3 /\ Len(v) = 3
          /\ u[1] = m1 /\ u[2] = m2 /\ u[3] = m3
          /\ v[1] = m4 /\ v[2] = m5 /\ v[3] = m6
      BY <1>2
    <3> HIDE DEF u, v, t
    <3>2. /\ u \o v \in Seq(Masks) /\ Len(u \o v) = 6
          /\ \A i \in 1 .. 6 : (u \o v)[i] = IF i <= 3 THEN u[i] ELSE v[i - 3]
      <4>1. /\ u \o v \in Seq(Masks) /\ Len(u \o v) = Len(u) + Len(v)
            /\ \A i \in 1 .. Len(u) + Len(v) :
                 (u \o v)[i] = IF i <= Len(u) THEN u[i] ELSE v[i - Len(u)]
        BY <3>1, ConcatFacts
      <4>2. QED
        BY <3>1, <4>1
    <3>3. /\ (u \o v)[1] = m1 /\ (u \o v)[2] = m2 /\ (u \o v)[3] = m3
          /\ (u \o v)[4] = m4 /\ (u \o v)[5] = m5 /\ (u \o v)[6] = m6
      BY <3>1, <3>2
    <3>4. \A i \in 1 .. 6 : (u \o v)[i] = t[i]
      <4>1. \A i \in 1 .. 6 : i \in {1, 2, 3, 4, 5, 6}
        OBVIOUS
      <4>2. QED
        BY <2>1, <3>3, <4>1
    <3>5. Len(t) = 6
      BY <2>1, <2>2
    <3>6. u \o v = t
      BY <2>2, <3>2, <3>4, <3>5, SeqEqual
    <3>7. QED
      BY <3>6 DEF u, v
  <2>4. QED
    BY <2>1, <2>2, <2>3
<1> HIDE DEF t
<1>6. ASSUME NEW x \in 1 .. 6
      PROVE  /\ t[x].vole[1] = a /\ t[x].vole[2] = b /\ t[x].of = of
             /\ t[x].first >= base /\ t[x].first + t[x].count <= base + 4 * size
  <2>1. x \in {1, 2, 3, 4, 5, 6}
    OBVIOUS
  <2>2. t[x] \in {m1, m2, m3, m4, m5, m6}
    BY <1>5, <2>1
  <2>3. \A m \in {m1, m2, m3, m4, m5, m6} :
          m.first >= base /\ m.first + m.count <= base + 4 * size
    BY <1>3
  <2>4. QED
    BY <1>4, <2>2, <2>3
<1>7. ASSUME NEW x \in 1 .. 6, NEW y \in 1 .. 6, x # y
      PROVE  Apart(t[x], t[y])
  <2>1. /\ t[1].vole[3] = 1 /\ t[1].first = base /\ t[1].count = size
        /\ t[2].vole[3] = 2 /\ t[2].first = base /\ t[2].count = 2 * size
        /\ t[3].vole[3] = 1 /\ t[3].first = base + 2 * size /\ t[3].count = size
        /\ t[4].vole[3] = 1 /\ t[4].first = base + size /\ t[4].count = size
        /\ t[5].vole[3] = 2 /\ t[5].first = base + 2 * size /\ t[5].count = 2 * size
        /\ t[6].vole[3] = 1 /\ t[6].first = base + 3 * size /\ t[6].count = size
    BY <1>3, <1>5
  <2>2. SUFFICES t[x].vole[3] = t[y].vole[3] =>
                   \/ t[x].first + t[x].count <= t[y].first
                   \/ t[y].first + t[y].count <= t[x].first
    BY DEF Apart
  <2>3. CASE x \in {1, 3, 4, 6} /\ y \in {1, 3, 4, 6}
    BY <1>7, <2>1, <2>3
  <2>4. CASE x \in {2, 5} /\ y \in {2, 5}
    BY <1>7, <2>1, <2>4
  <2>5. CASE ~(x \in {1, 3, 4, 6} <=> y \in {1, 3, 4, 6})
    BY <2>1, <2>5
  <2>6. QED
    BY <2>3, <2>4, <2>5
<1>8. Once(t)
  <2>1. \A x \in 1 .. 6 : t[x].first + t[x].count <= t[x].of
    <3>1. \A x \in 1 .. 6 : t[x].first + t[x].count \in Int
      <4>1. \A x \in 1 .. 6 : t[x] \in Masks
        <5>1. \A x \in 1 .. 6 : x \in {1, 2, 3, 4, 5, 6}
          OBVIOUS
        <5>2. QED
          BY <1>2, <1>5, <5>1
      <4>2. QED
        BY <4>1 DEF Masks
    <3>2. QED
      BY <1>6, <3>1
  <2>2. QED
    BY <1>5, <1>7, <2>1 DEF Once
<1>9. QED
  <2>1. Between(t, a, b, base, base + 4 * size)
    BY <1>5, <1>6 DEF Between
  <2>2. t = RoundSpans(a, b, base, size, of)
    BY <1>1, <1>5 DEF RoundSpans
  <2>3. QED
    BY <1>5, <1>8, <2>1, <2>2

\* The name of a VOLE.
LEMMA VoleName ==
  ASSUME NEW a \in Nat, NEW b \in Nat, NEW k \in Nat
  PROVE  <<a, b>> \o <<k>> = <<a, b, k>>
<1> DEFINE u == <<a, b>>
           v == <<k>>
           t == <<a, b, k>>
<1>1. /\ u \in Seq(Nat) /\ v \in Seq(Nat) /\ t \in Seq(Nat)
      /\ Len(u) = 2 /\ Len(v) = 1 /\ Len(t) = 3
      /\ u[1] = a /\ u[2] = b /\ v[1] = k /\ t[1] = a /\ t[2] = b /\ t[3] = k
  OBVIOUS
<1> HIDE DEF u, v, t
<1>2. /\ u \o v \in Seq(Nat) /\ Len(u \o v) = Len(u) + Len(v)
      /\ \A i \in 1 .. Len(u) + Len(v) :
           (u \o v)[i] = IF i <= Len(u) THEN u[i] ELSE v[i - Len(u)]
  BY <1>1, ConcatFacts
<1>3. (u \o v)[1] = a /\ (u \o v)[2] = b /\ (u \o v)[3] = k /\ Len(u \o v) = 3
  BY <1>1, <1>2
<1>4. \A i \in 1 .. 3 : (u \o v)[i] = t[i]
  <2>1. \A i \in 1 .. 3 : i = 1 \/ i = 2 \/ i = 3
    OBVIOUS
  <2>2. QED
    BY <1>1, <1>3, <2>1
<1>5. u \o v = t
  BY <1>1, <1>2, <1>3, <1>4, SeqEqual
<1>6. QED
  BY <1>5 DEF u, v, t

\* Two sequences are flattened to the one after the other.
LEMMA FlattenTwo ==
  ASSUME NEW T, NEW F \in Seq(Seq(T)), Len(F) = 2
  PROVE  FlattenSeq(F) = F[1] \o F[2] /\ F[1] \in Seq(T) /\ F[2] \in Seq(T)
<1>1. F[1] \in Seq(T) /\ F[2] \in Seq(T)
  <2>1. 1 \in 1 .. Len(F) /\ 2 \in 1 .. Len(F)
    OBVIOUS
  <2>2. QED
    BY <2>1, ElementOfSeq
<1> DEFINE E1 == Append(<<>>, F[1])
           E2 == Append(E1, F[2])
<1>2. /\ E1 \in Seq(Seq(T)) /\ Len(E1) = 1 /\ E1[1] = F[1]
      /\ E2 \in Seq(Seq(T)) /\ Len(E2) = 2 /\ E2[1] = F[1] /\ E2[2] = F[2]
  BY <1>1
<1>3. E2 = F
  <2>1. \A i \in 1 .. 2 : E2[i] = F[i]
    <3>1. \A i \in 1 .. 2 : i = 1 \/ i = 2
      OBVIOUS
    <3>2. QED
      BY <1>2, <3>1
  <2> HIDE DEF E2, E1
  <2>2. QED
    BY <1>2, <2>1, SeqEqual
<1>4. /\ FlattenSeq(<<>>) = <<>>
      /\ FlattenSeq(E1) = FlattenSeq(<<>>) \o F[1]
      /\ FlattenSeq(E2) = FlattenSeq(E1) \o F[2]
  <2>1. <<>> \in Seq(Seq(T))
    OBVIOUS
  <2>2. \A G \in Seq(Seq(T)), s \in Seq(T) :
          FlattenSeq(Append(G, s)) = FlattenSeq(G) \o s
    BY FlattenFacts
  <2>3. E1 \in Seq(Seq(T))
    BY <1>2
  <2>4. FlattenSeq(<<>>) = <<>>
    BY FlattenFacts
  <2> QED
    BY <1>1, <2>1, <2>2, <2>3, <2>4
<1>5. <<>> \o F[1] = F[1]
  BY <1>1
<1> HIDE DEF E1, E2
<1>6. QED
  BY <1>1, <1>3, <1>4, <1>5

Spans(c, size, voles) ==
  [i \in 1 .. 3 |-> [vole |-> Slices(c, size, voles)[i].vole,
                     first |-> Slices(c, size, voles)[i].first,
                     count |-> Slices(c, size, voles)[i].count,
                     of |-> voles.of]]

\* The VOLEs of a round are those named a, b, of so many elements, from base.
VolesAre(voles, a, b, base, of) ==
  voles = [no |-> <<a, b>>, of |-> of, base |-> base]

\* The slices of a column are its spans.
LEMMA ColumnIs ==
  ASSUME NEW a \in Nat, NEW b \in Nat, NEW base \in Nat, NEW of \in Nat,
         NEW size \in Nat, NEW c \in 1 .. 2, NEW voles,
         VolesAre(voles, a, b, base, of)
  PROVE  Spans(c, size, voles) = Column(c, a, b, base, size, of)
<1> DEFINE r1 == [vole |-> <<a, b, 1>>, first |-> base + (c - 1) * size, count |-> size]
           r2 == [vole |-> <<a, b, 2>>, first |-> base + (c - 1) * 2 * size,
                  count |-> 2 * size]
           r3 == [vole |-> <<a, b, 1>>, first |-> base + (c + 1) * size, count |-> size]
           e1 == [vole |-> <<a, b, 1>>, first |-> base + (c - 1) * size, count |-> size,
                  of |-> of]
           e2 == [vole |-> <<a, b, 2>>, first |-> base + (c - 1) * 2 * size,
                  count |-> 2 * size, of |-> of]
           e3 == [vole |-> <<a, b, 1>>, first |-> base + (c + 1) * size, count |-> size,
                  of |-> of]
           E(x) == [vole |-> x.vole, first |-> x.first, count |-> x.count, of |-> voles.of]
<1>0. /\ voles.no \o <<1>> = <<a, b, 1>> /\ voles.no \o <<2>> = <<a, b, 2>>
      /\ voles.base = base /\ voles.of = of
  <2>1. voles.no = <<a, b>> /\ voles.base = base /\ voles.of = of
    BY DEF VolesAre
  <2>2. \A k \in Nat : <<a, b>> \o <<k>> = <<a, b, k>>
    BY VoleName
  <2>3. <<a, b>> \o <<1>> = <<a, b, 1>> /\ <<a, b>> \o <<2>> = <<a, b, 2>>
    BY <2>2
  <2>4. QED
    BY <2>1, <2>3
<1>1. Slices(c, size, voles) = <<r1, r2, r3>>
  BY <1>0 DEF Slices
<1>2. Column(c, a, b, base, size, of) = <<e1, e2, e3>>
  BY DEF Column
<1>3. E(r1) = e1 /\ E(r2) = e2 /\ E(r3) = e3
  BY <1>0
<1> HIDE DEF r1, r2, r3, e1, e2, e3
<1>4. /\ <<r1, r2, r3>>[1] = r1 /\ <<r1, r2, r3>>[2] = r2 /\ <<r1, r2, r3>>[3] = r3
  OBVIOUS
<1> DEFINE s == <<r1, r2, r3>>
<1> HIDE DEF s
<1>5. [i \in 1 .. 3 |-> E(s[i])] = <<e1, e2, e3>>
  <2>1. E(s[1]) = e1 /\ E(s[2]) = e2 /\ E(s[3]) = e3
    BY <1>3, <1>4 DEF s
  <2> DEFINE t == <<e1, e2, e3>>
  <2>2. t = [i \in 1 .. 3 |-> t[i]] /\ t[1] = e1 /\ t[2] = e2 /\ t[3] = e3
    OBVIOUS
  <2> HIDE DEF t, E
  <2>3. \A i \in 1 .. 3 : E(s[i]) = t[i]
    <3>1. \A i \in 1 .. 3 : i = 1 \/ i = 2 \/ i = 3
      OBVIOUS
    <3>2. QED
      BY <2>1, <2>2, <3>1
  <2>4. [i \in 1 .. 3 |-> E(s[i])] = [i \in 1 .. 3 |-> t[i]]
    BY <2>3
  <2>5. QED
    BY <2>2, <2>4 DEF t
<1>6. QED
  BY <1>1, <1>2, <1>5 DEF s, Spans

\* What a round that multiplies adds to the spans.
LEMMA RoundAdds ==
  ASSUME Multiplies, NEW a \in Nat, NEW b \in Nat, NEW base \in Nat, NEW of \in Nat,
         NEW size \in Nat, NEW voles, VolesAre(voles, a, b, base, of)
  PROVE  FlattenSeq([c \in Columns |-> Spans(c, size, voles)])
           = RoundSpans(a, b, base, size, of)
<1>1. Columns = 1 .. 2
  BY DEF Columns, Double, Multiplies
<1> DEFINE F == [c \in Columns |-> Spans(c, size, voles)]
<1>2. ASSUME NEW c \in 1 .. 2
      PROVE  F[c] = Column(c, a, b, base, size, of)
  <2>1. F[c] = Spans(c, size, voles)
    BY <1>1
  <2> HIDE DEF F
  <2>2. QED
    <3>1. /\ a \in Nat /\ b \in Nat /\ base \in Nat /\ size \in Nat /\ of \in Nat
          /\ c \in 1 .. 2 /\ VolesAre(voles, a, b, base, of)
      OBVIOUS
    <3>2. QED
      BY ONLY <2>1, <3>1, ColumnIs
<1>3. /\ Column(1, a, b, base, size, of) \in Seq(Range(F[1]) \cup Range(F[2]))
      /\ Column(2, a, b, base, size, of) \in Seq(Range(F[1]) \cup Range(F[2]))
  <2>1. \A c \in 1 .. 2 : F[c] \in Seq(Range(F[c]))
    <3>1. ASSUME NEW c \in 1 .. 2
          PROVE  F[c] \in Seq(Range(F[c]))
      <4>1. DOMAIN F[c] = 1 .. 3 /\ F[c] = [i \in 1 .. 3 |-> F[c][i]]
        BY <1>1 DEF Spans
      <4> HIDE DEF F
      <4>2. \A i \in 1 .. 3 : F[c][i] \in Range(F[c])
        BY <4>1 DEF Range
      <4>3. QED
        BY <4>1, <4>2
    <3>2. QED
      BY <3>1
  <2> HIDE DEF F
  <2>2. F[1] \in Seq(Range(F[1])) /\ F[2] \in Seq(Range(F[2]))
    BY <2>1
  <2>3. F[1] \in Seq(Range(F[1]) \cup Range(F[2]))
        /\ F[2] \in Seq(Range(F[1]) \cup Range(F[2]))
    BY <2>2
  <2>4. QED
    BY <1>2, <2>3
<1>4. F \in Seq(Seq(Range(F[1]) \cup Range(F[2]))) /\ Len(F) = 2
  <2>1. DOMAIN F = 1 .. 2 /\ F = [c \in 1 .. 2 |-> F[c]]
    BY <1>1
  <2> HIDE DEF F
  <2>2. \A c \in 1 .. 2 : F[c] \in Seq(Range(F[1]) \cup Range(F[2]))
    <3>1. \A c \in 1 .. 2 : c = 1 \/ c = 2
      OBVIOUS
    <3>2. QED
      BY <1>2, <1>3, <3>1
  <2>3. QED
    BY <2>1, <2>2
<1> HIDE DEF F
<1>5. FlattenSeq(F) = F[1] \o F[2]
  BY <1>4, FlattenTwo
<1>6. F[1] = Column(1, a, b, base, size, of) /\ F[2] = Column(2, a, b, base, size, of)
  <2>1. 1 \in 1 .. 2 /\ 2 \in 1 .. 2
    OBVIOUS
  <2>2. QED
    BY <1>2, <2>1
<1>7. QED
  BY <1>5, <1>6 DEF RoundSpans, F

\* Spans t are added where the VOLEs are unused.
LEMMA SpendMore ==
  ASSUME NEW s \in Seq(Masks), NEW t \in Seq(Masks), Once(s), Once(t),
         NEW a, NEW b, NEW base \in Nat, NEW end \in Nat, base <= end,
         Below(s, a, b, base), Between(t, a, b, base, end)
  PROVE  /\ s \o t \in Seq(Masks) /\ Once(s \o t) /\ Below(s \o t, a, b, end)
         /\ Elsewhere(s, s \o t, a, b)
<1>1. /\ \A x \in DOMAIN s : s[x] \in Masks
      /\ \A x \in DOMAIN t : t[x] \in Masks
  OBVIOUS
<1>2. \A m \in Masks : m.first \in Int /\ m.count \in Int
  BY DEF Masks
<1>3. \A x \in DOMAIN s : \A z \in DOMAIN t : Apart(s[x], t[z])
  <2>1. ASSUME NEW x \in DOMAIN s, NEW z \in DOMAIN t, s[x].vole = t[z].vole
        PROVE  s[x].first + s[x].count <= t[z].first
    <3>1. s[x].first + s[x].count <= base /\ t[z].first >= base
      BY <2>1 DEF Below, Between
    <3>2. s[x].first \in Int /\ s[x].count \in Int /\ t[z].first \in Int
      BY <1>1, <1>2
    <3>3. QED
      BY <3>1, <3>2
  <2>2. QED
    BY <2>1 DEF Apart
<1>4. s \o t \in Seq(Masks) /\ Once(s \o t)
  BY <1>3, OnceConcat
<1>5. ASSUME NEW x \in DOMAIN (s \o t)
      PROVE  \/ x \in DOMAIN s /\ (s \o t)[x] = s[x]
             \/ x - Len(s) \in DOMAIN t /\ (s \o t)[x] = t[x - Len(s)]
  BY <1>5
<1>6. Below(s \o t, a, b, end)
  <2>1. ASSUME NEW x \in DOMAIN (s \o t),
               (s \o t)[x].vole[1] = a, (s \o t)[x].vole[2] = b
        PROVE  (s \o t)[x].first + (s \o t)[x].count <= end
    <3>1. CASE x \in DOMAIN s /\ (s \o t)[x] = s[x]
      <4>1. s[x].first + s[x].count <= base
        BY <2>1, <3>1 DEF Below
      <4>2. s[x].first \in Int /\ s[x].count \in Int
        BY <1>1, <1>2, <3>1
      <4>3. QED
        BY <3>1, <4>1, <4>2
    <3>2. CASE x - Len(s) \in DOMAIN t /\ (s \o t)[x] = t[x - Len(s)]
      BY <3>2 DEF Between
    <3>3. QED
      BY <1>5, <3>1, <3>2
  <2>2. QED
    BY <2>1 DEF Below
<1>7. ASSUME NEW a2, NEW b2, NEW m, a2 # a \/ b2 # b, Below(s, a2, b2, m)
      PROVE  Below(s \o t, a2, b2, m)
  BY <1>5, <1>7 DEF Below, Between
<1>8. QED
  BY <1>4, <1>6, <1>7 DEF Elsewhere

\* So nothing is spent twice, if the round begins where the VOLEs are unused.
LEMMA RoundSpends ==
  ASSUME Multiplies, NEW a \in Nat, NEW b \in Nat, NEW base \in Nat, NEW of \in Nat,
         NEW size \in Nat, NEW y, size = Cardinality(DOMAIN y.perm),
         NEW voles, VolesAre(voles, a, b, base, of),
         Round(y, voles), base + 4 * size <= of,
         spent \in Seq(Masks), Once(spent), Below(spent, a, b, base)
  PROVE  /\ spent' \in Seq(Masks) /\ Once(spent')
         /\ Below(spent', a, b, base + 4 * size) /\ Elsewhere(spent, spent', a, b)
<1>1. PICK t : t = RoundSpans(a, b, base, size, of)
  OBVIOUS
<1>2. PICK end \in Nat : end = base + 4 * size /\ base <= end
  OBVIOUS
<1>3. t \in Seq(Masks) /\ Once(t) /\ Between(t, a, b, base, end)
  <2>1. /\ a \in Nat /\ b \in Nat /\ base \in Nat /\ size \in Nat /\ of \in Nat
        /\ base + 4 * size <= of
    OBVIOUS
  <2>2. QED
    BY ONLY <1>1, <1>2, <2>1, RoundMasks
<1>4. spent' = spent \o t
  <2> DEFINE F == [c \in Columns |-> Spans(c, size, voles)]
  <2>1. spent' = spent \o FlattenSeq(F)
    <3> DEFINE slices == [c \in Columns |-> Slices(c, size, voles)]
               G == [c \in Columns |-> [i \in 1 .. 3 |->
                      [vole |-> slices[c][i].vole, first |-> slices[c][i].first,
                       count |-> slices[c][i].count, of |-> voles.of]]]
    <3>1. spent' = spent \o FlattenSeq(G)
      BY DEF Round
    <3>2. G = F
      BY DEF Spans
    <3> HIDE DEF G, F
    <3>3. QED
      BY <3>1, <3>2
  <2> HIDE DEF F
  <2>2. FlattenSeq(F) = t
    <3>1. /\ Multiplies /\ a \in Nat /\ b \in Nat /\ base \in Nat /\ of \in Nat
          /\ size \in Nat /\ VolesAre(voles, a, b, base, of)
      OBVIOUS
    <3>2. QED
      BY ONLY <1>1, <3>1, RoundAdds DEF F
  <2>3. QED
    BY <2>1, <2>2
<1>5. /\ spent \o t \in Seq(Masks) /\ Once(spent \o t) /\ Below(spent \o t, a, b, end)
      /\ Elsewhere(spent, spent \o t, a, b)
  <2>1. spent \in Seq(Masks) /\ Once(spent) /\ Below(spent, a, b, base) /\ base \in Nat
    OBVIOUS
  <2>2. QED
    BY ONLY <1>2, <1>3, <2>1, SpendMore
<1>6. QED
  BY <1>2, <1>4, <1>5, Zenon

-----------------------------------------------------------------------------
\* The shape of a call.

\* A batch makes num translations of MergeRounds each.
Batch(num) ==
  /\ num \in Nat \ {0} /\ Len(fresh) = num * MergeRounds /\ num + Len(pool) <= total
  /\ DOMAIN acc.ids = 1 .. num

Shape ==
  /\ JobOK
  /\ stage \in {"generate", "merge", "layer", "done", "stopped"}
  /\ pool \in Seq(Range(pool)) /\ fresh \in Seq(Range(fresh))
  /\ stage = "generate" => Len(pool) < total
  /\ stage = "merge" => turn \in 1 .. MergeRounds /\ \E num : Batch(num)
  /\ stage = "layer" =>
       turn \in 0 .. depth - 1 /\ job.name \in Functions2k /\ Len(pool) = total

\* What depends on the call only.
LEMMA SameJob ==
  ASSUME job' = job
  PROVE  /\ JobOK' <=> JobOK
         /\ total' = total /\ depth' = depth /\ T_num' = T_num
         /\ Multiplies' <=> Multiplies
BY DEF JobOK, total, depth, T_num, num_bits, T_bits, Multiplies

LEMMA MinOfTwo ==
  ASSUME NEW a \in Int, NEW b \in Int
  PROVE  Min({a, b}) = IF a <= b THEN a ELSE b
<1>1. PICK m \in {a, b} : \A y \in {a, b} : m <= y
  OBVIOUS
<1>2. Min({a, b}) \in {a, b} /\ \A y \in {a, b} : Min({a, b}) <= y
  BY <1>1 DEF Min
<1>3. QED
  BY <1>2

\* A function over 1 .. n is a sequence.
LEMMA SeqOfFunction ==
  ASSUME NEW n \in Nat, NEW s, DOMAIN s = 1 .. n, s = [i \in 1 .. n |-> s[i]]
  PROVE  s \in Seq(Range(s)) /\ Len(s) = n
BY DEF Range

\* The rounds that multiply: their numbers of elements.
LEMMA JoinSize ==
  ASSUME NEW num \in Nat \ {0}, NEW ts, DOMAIN ts = 1 .. num, job.T \in Nat \ {0}
  PROVE  /\ Cardinality(DOMAIN Join(ts).perm) = num * job.T
         /\ DOMAIN Join(ts).ids = 1 .. num
<1> DEFINE vecs == [p \in DOMAIN ts |->
                     [i \in 0 .. job.T - 1 |-> (p - 1) * job.T + ts[p].perm[i]]]
<1>1. Join(ts).perm = Concat(vecs) /\ Join(ts).ids = [p \in DOMAIN ts |-> ts[p].ids]
  BY DEF Join
<1>2. /\ DOMAIN vecs = 1 .. num /\ vecs = [p \in 1 .. num |-> vecs[p]]
      /\ 1 \in 1 .. num /\ DOMAIN vecs[1] = 0 .. job.T - 1
  OBVIOUS
<1> HIDE DEF vecs
<1>3. Len(vecs) = num
  BY <1>2, SeqOfFunction
<1>4. \A m \in Nat : Cardinality(0 .. m - 1) = m
  BY FS_Interval
<1>5. Cardinality(DOMAIN vecs[1]) = job.T
  BY <1>2, <1>4
<1>6. num * job.T \in Nat
  OBVIOUS
<1>7. DOMAIN Concat(vecs) = 0 .. num * job.T - 1
  BY <1>3, <1>5 DEF Concat
<1>8. QED
  BY <1>1, <1>4, <1>6, <1>7

\* The initial states.
LEMMA ShapeStart == Init => Shape
<1> SUFFICES ASSUME Init
             PROVE  Shape
  OBVIOUS
<1>1. JobOK
  <2>1. PICK j \in Jobs : job.name = j.name /\ job.n = j.n /\ job.T = j.T
    BY DEF Init
  <2>2. QED
    BY <2>1 DEF JobOK
<1>2. stage = "generate" /\ pool = <<>> /\ fresh = <<>>
  BY DEF Init
<1>3. total \in Nat \ {0}
  BY <1>1, Sizes
<1>4. pool \in Seq(Range(pool)) /\ fresh \in Seq(Range(fresh)) /\ Len(pool) = 0
  BY <1>2
<1>5. QED
  BY <1>1, <1>2, <1>3, <1>4 DEF Shape

\* A batch that begins.
LEMMA GenerateShape ==
  ASSUME Shape, Generate
  PROVE  /\ job' = job /\ pool' = pool /\ spent' = spent
         /\ Shape' /\ stage' \in {"merge", "stopped"}
         /\ stage' = "merge" => turn' = 1
<1>1. /\ stage = "generate" /\ JobOK /\ Len(pool) < total
      /\ pool \in Seq(Range(pool)) /\ Len(pool) \in Nat
      /\ fresh \in Seq(Range(fresh))
  BY DEF Generate, Shape
<1>2. job' = job /\ pool' = pool /\ spent' = spent
  BY DEF Generate, Stop
<1>3. total \in Nat /\ MergeRounds \in Nat \ {0, 1} /\ BatchSize \in Nat \ {0}
  BY <1>1, Sizes, TranslationsAssumption
<1> DEFINE first == MergeRounds * Len(pool)
           num == Min({BatchSize, total - Len(pool)})
           made == first + 1 .. first + num * MergeRounds
<1>4. num \in Nat \ {0} /\ num + Len(pool) <= total
  BY <1>1, <1>3, MinOfTwo
<1>5. CASE \E f \in made : Stop(f)
  <2>1. stage' = "stopped" /\ fresh' = fresh
    BY <1>5 DEF Stop
  <2>2. QED
    BY <1>1, <1>2, <2>1, SameJob DEF Shape
<1>6. CASE ~\E f \in made : Stop(f)
  <2>1. /\ stage' = "merge" /\ turn' = 1
        /\ acc' = Join(SubSeq(fresh', 1, num))
        /\ DOMAIN fresh' = 1 .. Cardinality(made)
        /\ fresh' = [x \in 1 .. Cardinality(made) |-> fresh'[x]]
    BY <1>6 DEF Generate
  <2> HIDE DEF num
  <2>2. num * MergeRounds \in Nat /\ num <= num * MergeRounds
    <3>1. num * (MergeRounds - 1) \in Nat
      BY <1>3, <1>4
    <3>2. num * MergeRounds = num + num * (MergeRounds - 1)
      BY <1>3, <1>4
    <3>3. QED
      BY <1>4, <3>1, <3>2
  <2>3. Cardinality(made) = num * MergeRounds
    <3>1. PICK m \in Nat : m = num * MergeRounds
      BY <2>2
    <3>2. PICK k \in Nat : k = first
      BY <1>1, <1>3
    <3>3. Cardinality(k + 1 .. k + m) = m
      BY FS_Interval
    <3>4. QED
      BY <3>1, <3>2, <3>3
  <2>4. /\ fresh' \in Seq(Range(fresh')) /\ Len(fresh') = num * MergeRounds
    BY <2>1, <2>2, <2>3, SeqOfFunction
  <2>5. DOMAIN SubSeq(fresh', 1, num) = 1 .. num
    BY <1>4, <2>2, <2>4
  <2>6. DOMAIN acc'.ids = 1 .. num
    BY <1>1, <1>4, <2>1, <2>5, JoinSize, Sizes
  <2>7. turn' \in 1 .. MergeRounds
    BY <1>3, <2>1
  <2>8. \E n : Batch(n)'
    <3>1. PICK n : n = num
      OBVIOUS
    <3>2. Batch(n)'
      BY <1>2, <1>4, <2>4, <2>6, <3>1, SameJob DEF Batch
    <3>3. QED
      BY <3>2
  <2>9. QED
    BY <1>1, <1>2, <2>1, <2>4, <2>7, <2>8, SameJob DEF Shape
<1>7. QED
  BY <1>5, <1>6

\* The translations of a round are as many as those merged.
LEMMA OfRoundFacts ==
  ASSUME NEW num, Batch(num), NEW k
  PROVE  /\ Len(fresh) \div MergeRounds = num
         /\ DOMAIN OfRound(k) = 1 .. num
<1>1. MergeRounds \in Nat \ {0} /\ num \in Nat \ {0}
  BY TranslationsAssumption DEF Batch
<1>2. Len(fresh) = num * MergeRounds + 0
  BY <1>1 DEF Batch
<1>3. Len(fresh) \div MergeRounds = num
  BY <1>1, <1>2, DivUnique
<1>4. QED
  BY <1>3 DEF OfRound

\* A round of a merge.
LEMMA MergeShape ==
  ASSUME Shape, Merge
  PROVE  /\ job' = job /\ pool' = pool /\ fresh' = fresh /\ turn' = turn + 1
         /\ stage = "merge" /\ stage' = "merge" /\ Shape'
         /\ turn \in 1 .. MergeRounds - 1
<1>1. /\ stage = "merge" /\ turn < MergeRounds /\ turn' = turn + 1
      /\ job' = job /\ stage' = stage /\ pool' = pool /\ fresh' = fresh
      /\ \E y : acc'.ids = [p \in DOMAIN acc.ids |-> acc.ids[p] \o y.ids[p]]
  BY DEF Merge, Round
<1>2. turn \in 1 .. MergeRounds - 1 /\ turn' \in 1 .. MergeRounds
  BY <1>1, TranslationsAssumption DEF Shape
<1>3. \E num : Batch(num)'
  <2>1. PICK num : Batch(num)
    BY <1>1 DEF Shape
  <2>2. DOMAIN acc'.ids = DOMAIN acc.ids
    BY <1>1
  <2>3. Batch(num)'
    BY <1>1, <2>1, <2>2, SameJob DEF Batch
  <2>4. QED
    BY <2>3
<1>4. QED
  BY <1>1, <1>2, <1>3, SameJob DEF Shape

\* The end of a merge.
LEMMA EndMergeShape ==
  ASSUME Shape, EndMerge
  PROVE  /\ job' = job /\ spent' = spent /\ stage = "merge" /\ turn' = 0 /\ Shape'
         /\ Len(pool') \in Nat /\ Len(pool') > Len(pool)
         /\ stage' \in {"generate", "layer", "done"}
         /\ stage' = "generate" => Len(pool') < total
<1>1. /\ stage = "merge" /\ job' = job /\ spent' = spent /\ turn' = 0 /\ acc' = acc
      /\ pool' = pool \o Split(acc) /\ fresh' = <<>>
      /\ stage' = IF Len(pool') < total THEN "generate"
                  ELSE IF job.name \in Functions2k THEN "layer" ELSE "done"
  BY DEF EndMerge
<1>2. PICK num : Batch(num)
  BY <1>1 DEF Shape
<1>3. num \in Nat \ {0} /\ num + Len(pool) <= total /\ DOMAIN acc.ids = 1 .. num
  BY <1>2 DEF Batch
<1>4. Split(acc) \in Seq(Range(Split(acc))) /\ Len(Split(acc)) = num
  <2>1. DOMAIN Split(acc) = DOMAIN acc.ids
        /\ Split(acc) = [p \in DOMAIN acc.ids |-> Split(acc)[p]]
    BY DEF Split
  <2>2. QED
    BY <1>3, <2>1, SeqOfFunction
<1>5. pool \in Seq(Range(pool)) /\ Len(pool) \in Nat /\ JobOK
  BY DEF Shape
<1>6. Len(pool') = Len(pool) + num /\ pool' \in Seq(Range(pool'))
  <2> DEFINE S == Range(pool) \cup Range(Split(acc))
             T == Split(acc)
  <2>1. pool \in Seq(S) /\ T \in Seq(S)
    BY <1>4, <1>5
  <2> HIDE DEF S, T
  <2>2. pool \o T \in Seq(S) /\ Len(pool \o T) = Len(pool) + Len(T)
    BY <2>1, ConcatFacts
  <2>3. pool' \in Seq(S) /\ Len(pool') = Len(pool) + num
    BY <1>1, <1>4, <2>2 DEF T
  <2>4. DOMAIN pool' = 1 .. Len(pool') /\ pool' = [i \in 1 .. Len(pool') |-> pool'[i]]
    BY <2>3
  <2>5. QED
    BY <1>3, <1>5, <2>3, <2>4, SeqOfFunction
<1>7. total \in Nat /\ depth \in Nat \ {0} /\ fresh' \in Seq(Range(fresh'))
  BY <1>1, <1>5, Sizes
<1>8. Len(pool') <= total /\ turn' \in 0 .. depth - 1
  BY <1>1, <1>3, <1>5, <1>6, <1>7
<1>9. Len(pool') \in Nat /\ Len(pool') > Len(pool)
  BY <1>3, <1>5, <1>6
<1>10. /\ stage' \in {"generate", "layer", "done"}
       /\ stage' = "generate" => Len(pool') < total
       /\ stage' = "layer" => Len(pool') = total /\ job.name \in Functions2k
  <2>1. CASE Len(pool') < total
    <3>1. stage' = "generate"
      BY <1>1, <2>1
    <3>2. QED
      BY <2>1, <3>1
  <2>2. CASE ~(Len(pool') < total)
    <3>1. Len(pool') = total
      BY <1>7, <1>8, <1>9, <2>2
    <3>2. stage' = IF job.name \in Functions2k THEN "layer" ELSE "done"
      BY <1>1, <2>2
    <3>3. QED
      BY <3>1, <3>2
  <2>3. QED
    BY <2>1, <2>2
<1>11. Shape'
  <2>1. /\ JobOK' /\ total' = total /\ depth' = depth /\ job' = job
    BY <1>1, <1>5, SameJob
  <2>2. QED
    BY <1>6, <1>7, <1>8, <1>10, <2>1 DEF Shape
<1>12. QED
  BY <1>1, <1>9, <1>10, <1>11

\* A layer.
LEMMA LayerShape ==
  ASSUME Shape, Layer
  PROVE  /\ job' = job /\ pool' = pool /\ turn' = turn + 1 /\ Shape'
         /\ stage = "layer" /\ stage' \in {"layer", "done"}
         /\ turn \in 0 .. depth - 1 /\ job.name \in Functions2k
<1>1. /\ stage = "layer" /\ turn < depth /\ turn' = turn + 1
      /\ job' = job /\ pool' = pool /\ fresh' = fresh
      /\ stage' = IF turn' = depth THEN "done" ELSE "layer"
  BY DEF Layer
<1>2. turn \in 0 .. depth - 1 /\ JobOK /\ job.name \in Functions2k
  BY <1>1 DEF Shape
<1>3. depth \in Nat \ {0}
  BY <1>2, Sizes
<1>4. stage' = "layer" => turn' \in 0 .. depth - 1
  BY <1>1, <1>2, <1>3
<1>5. QED
  BY <1>1, <1>2, <1>4, SameJob DEF Shape

\* The other steps.
LEMMA OtherShape ==
  ASSUME Shape, ShuffleSet \/ UNCHANGED vars
  PROVE  /\ job' = job /\ pool' = pool /\ spent' = spent /\ Shape'
         /\ \/ stage' \in {"done", "stopped"}
            \/ stage' = stage /\ turn' = turn /\ fresh' = fresh /\ acc' = acc
<1>1. CASE UNCHANGED vars
  BY <1>1, SameJob DEF Shape, vars, Batch
<1>2. CASE ShuffleSet
  <2>1. /\ job' = job /\ pool' = pool /\ spent' = spent /\ fresh' = fresh
        /\ stage' \in {"done", "stopped"}
    BY <1>2 DEF ShuffleSet, Stop
  <2>2. QED
    BY <2>1, SameJob DEF Shape
<1>3. QED
  BY <1>1, <1>2

-----------------------------------------------------------------------------
\* No element of a VOLE masks two products.

\* How many elements a round multiplies.
Size == (Len(fresh) \div MergeRounds) * job.T

\* What DoubleASTSet has still to use: a pair of VOLEs for each round.
UnspentRounds ==
  /\ stage = "generate" => spent = <<>>
  /\ stage = "merge" => \A k \in Nat : k >= turn => Below(spent, 0, k, 0)

\* What DoubleASTSet_2k has: a pair for each batch, and one for the layers.
UnspentBatches ==
  /\ stage = "generate" => \A k \in Nat : k >= Len(pool) => Below(spent, 0, k, 0)
  /\ stage = "merge" =>
       /\ \A k \in Nat : k > Len(pool) => Below(spent, 0, k, 0)
       /\ Below(spent, 0, Len(pool), 4 * Size * turn)
  /\ stage \in {"generate", "merge"} => Below(spent, 1, 0, 0)
  /\ stage = "layer" =>
       Below(spent, 1, 0, IF turn = 0 THEN 0 ELSE 4 * job.n * (turn - 1))

SpentInv ==
  /\ spent \in Seq(Masks) /\ Once(spent)
  /\ ~Multiplies => spent = <<>>
  /\ job.name = "DoubleASTSet" => UnspentRounds
  /\ job.name = "DoubleASTSet_2k" => UnspentBatches

LEMMA SpentStart == Init => SpentInv
<1> SUFFICES ASSUME Init
             PROVE  SpentInv
  OBVIOUS
<1>1. spent = <<>> /\ stage = "generate"
  BY DEF Init
<1>2. spent \in Seq(Masks) /\ Once(spent) /\ \A a, b, m : Below(spent, a, b, m)
  BY <1>1 DEF Once, Below
<1>3. QED
  BY <1>1, <1>2 DEF SpentInv, UnspentRounds, UnspentBatches

\* A step that spends nothing, and begins no other stage.
LEMMA SpentGenerate ==
  ASSUME Shape, SpentInv, Generate
  PROVE  SpentInv'
<1>1. /\ job' = job /\ pool' = pool /\ spent' = spent
      /\ Shape' /\ stage' \in {"merge", "stopped"} /\ stage = "generate"
      /\ stage' = "merge" => turn' = 1
  BY GenerateShape DEF Generate
<1>2. Multiplies' <=> Multiplies
  BY <1>1, SameJob
<1>3. ASSUME job.name = "DoubleASTSet"
      PROVE  UnspentRounds'
  <2>1. spent' = <<>>
    BY <1>1, <1>3 DEF SpentInv, UnspentRounds
  <2>2. \A a, b, m : Below(spent', a, b, m)
    BY <2>1 DEF Below
  <2>3. QED
    BY <1>1, <2>2 DEF UnspentRounds
<1>4. ASSUME job.name = "DoubleASTSet_2k"
      PROVE  UnspentBatches'
  <2>1. /\ \A k \in Nat : k >= Len(pool) => Below(spent, 0, k, 0)
        /\ Below(spent, 1, 0, 0)
    BY <1>1, <1>4 DEF SpentInv, UnspentBatches
  <2>2. pool \in Seq(Range(pool)) /\ Len(pool) \in Nat
    BY DEF Shape
  <2>3. Below(spent, 0, Len(pool), 0) /\ spent \in Seq(Masks)
    BY <2>1, <2>2 DEF SpentInv
  <2>4. ASSUME stage' = "merge"
        PROVE  Below(spent', 0, Len(pool), 4 * Size' * turn')
    <3>1. PICK num : Batch(num)'
      BY <1>1, <2>4 DEF Shape
    <3>2. Size' = num * job.T /\ num \in Nat /\ job.T \in Nat
      <4>1. /\ MergeRounds \in Nat \ {0} /\ num \in Nat \ {0}
            /\ Len(fresh') = num * MergeRounds + 0
        BY <3>1, TranslationsAssumption DEF Batch
      <4>2. Len(fresh') \div MergeRounds = num
        BY <4>1, DivUnique
      <4>3. job.T \in Nat
        BY Sizes DEF Shape
      <4>4. QED
        BY <1>1, <4>1, <4>2, <4>3 DEF Size
    <3>3. PICK z \in Nat : z = 4 * Size' * turn'
      <4>1. num * job.T \in Nat
        BY <3>2
      <4>2. 4 * Size' * turn' \in Nat
        BY <1>1, <2>4, <3>2, <4>1
      <4>3. QED
        BY <4>2
    <3>4. \A x \in DOMAIN spent : spent[x].first + spent[x].count \in Int
      <4>1. \A x \in DOMAIN spent : spent[x] \in Masks
        BY <2>3
      <4>2. QED
        BY <4>1 DEF Masks
    <3>5. Below(spent, 0, Len(pool), z)
      BY <2>3, <3>4 DEF Below
    <3>6. QED
      BY <1>1, <3>3, <3>5
  <2>5. stage' = "merge" =>
          /\ \A k \in Nat : k > Len(pool) => Below(spent, 0, k, 0)
          /\ Below(spent, 1, 0, 0)
    BY <2>1, <2>2
  <2>6. QED
    BY <1>1, <2>4, <2>5 DEF UnspentBatches
<1>5. QED
  BY <1>1, <1>2, <1>3, <1>4 DEF SpentInv

\* A round of a merge: over elements of the batch's VOLEs that no round before
\* has used (DoubleASTSet has a pair of VOLEs for each).
LEMMA SpentMerge ==
  ASSUME Shape, SpentInv, Merge
  PROVE  SpentInv'
<1>1. /\ job' = job /\ pool' = pool /\ fresh' = fresh /\ turn' = turn + 1
      /\ stage = "merge" /\ stage' = "merge" /\ turn \in 1 .. MergeRounds - 1
  BY MergeShape
<1>2. Multiplies' <=> Multiplies
  BY <1>1, SameJob
<1>3. PICK num : Batch(num)
  BY <1>1 DEF Shape
<1>4. PICK y : y = Join(OfRound(turn)) /\ Round(y, MergeVoles(Cardinality(DOMAIN y.perm)))
  BY DEF Merge
<1>5. PICK size \in Nat : size = Cardinality(DOMAIN y.perm) /\ size = Size
  <2>1. DOMAIN OfRound(turn) = 1 .. num /\ num \in Nat \ {0} /\ job.T \in Nat \ {0}
    BY <1>3, OfRoundFacts, Sizes DEF Batch, Shape
  <2>2. Cardinality(DOMAIN y.perm) = num * job.T
    BY <1>4, <2>1, JoinSize
  <2>3. Size = num * job.T /\ num * job.T \in Nat
    BY <1>3, <2>1, OfRoundFacts DEF Size
  <2>4. QED
    BY <2>2, <2>3
<1>6. /\ pool \in Seq(Range(pool)) /\ Len(pool) \in Nat /\ turn \in Nat
      /\ MergeRounds \in Nat
  BY <1>1, TranslationsAssumption DEF Shape
<1>7. CASE ~Multiplies
  <2>1. spent' = spent
    BY <1>4, <1>7 DEF Round
  <2>2. job.name # "DoubleASTSet" /\ job.name # "DoubleASTSet_2k"
    BY <1>7 DEF Multiplies
  <2>3. QED
    BY <1>1, <1>2, <1>7, <2>1, <2>2 DEF SpentInv
<1>8. CASE job.name = "DoubleASTSet"
  <2>1. PICK voles : voles = MergeVoles(size) /\ Round(y, voles)
    BY <1>4, <1>5
  <2>2. PICK of \in Nat : of = 4 * size
    OBVIOUS
  <2>3. VolesAre(voles, 0, turn, 0, of)
    BY <1>8, <2>1, <2>2 DEF MergeVoles, VolesAre
  <2>4. \A k \in Nat : k >= turn => Below(spent, 0, k, 0)
    BY <1>1, <1>8 DEF SpentInv, UnspentRounds
  <2>5. PICK zero \in Nat : zero = 0
    OBVIOUS
  <2>6. /\ Multiplies /\ spent \in Seq(Masks) /\ Once(spent)
        /\ Below(spent, zero, turn, zero) /\ VolesAre(voles, zero, turn, zero, of)
        /\ zero + 4 * size <= of
    BY <1>6, <1>8, <2>2, <2>3, <2>4, <2>5 DEF SpentInv, Multiplies
  <2>7. spent' \in Seq(Masks) /\ Once(spent') /\ Elsewhere(spent, spent', zero, turn)
    BY <1>5, <1>6, <2>1, <2>6, RoundSpends
  <2>8. \A k \in Nat : k >= turn' => Below(spent', 0, k, 0)
    <3>1. ASSUME NEW k \in Nat, k >= turn'
          PROVE  Below(spent', 0, k, 0)
      <4>1. k >= turn /\ k # turn
        BY <1>1, <1>6, <3>1
      <4>2. Below(spent, 0, k, 0)
        BY <2>4, <4>1
      <4>3. QED
        BY <2>5, <2>7, <4>1, <4>2 DEF Elsewhere
    <3>2. QED
      BY <3>1
  <2>9. UnspentRounds'
    BY <1>1, <2>8 DEF UnspentRounds
  <2>10. QED
    BY <1>1, <1>2, <1>8, <2>6, <2>7, <2>9 DEF SpentInv
<1>9. CASE job.name = "DoubleASTSet_2k"
  <2>1. PICK voles : voles = MergeVoles(size) /\ Round(y, voles)
    BY <1>4, <1>5
  <2>2. PICK base \in Nat, of \in Nat, end \in Nat :
          /\ base = 4 * size * turn /\ of = 4 * size * MergeRounds
          /\ end = 4 * size * (turn + 1) /\ end = base + 4 * size /\ end <= of
    <3>1. /\ 4 * size * turn \in Nat /\ 4 * size * (turn + 1) = 4 * size * turn + 4 * size
          /\ \A m \in Nat : turn < m => 4 * size * turn + 4 * size <= 4 * size * m
      BY <1>6, NextPart
    <3>2. 4 * size * turn + 4 * size <= 4 * size * MergeRounds
      BY <1>1, <1>6, <3>1
    <3>3. 4 * size * MergeRounds \in Nat
      BY <1>6, NextPart
    <3>4. QED
      BY <3>1, <3>2, <3>3
  <2>3. PICK zero \in Nat, b \in Nat : zero = 0 /\ b = Len(pool)
    BY <1>6
  <2>4. VolesAre(voles, zero, b, base, of)
    BY <1>9, <2>1, <2>2, <2>3 DEF MergeVoles, VolesAre
  <2>5. /\ \A k \in Nat : k > Len(pool) => Below(spent, 0, k, 0)
        /\ Below(spent, 0, Len(pool), 4 * Size * turn) /\ Below(spent, 1, 0, 0)
    BY <1>1, <1>9 DEF SpentInv, UnspentBatches
  <2>6. /\ Multiplies /\ spent \in Seq(Masks) /\ Once(spent)
        /\ Below(spent, zero, b, base)
    BY <1>5, <1>9, <2>2, <2>3, <2>5 DEF SpentInv, Multiplies
  <2>7. /\ spent' \in Seq(Masks) /\ Once(spent')
        /\ Below(spent', zero, b, base + 4 * size) /\ Elsewhere(spent, spent', zero, b)
    BY <1>5, <2>1, <2>2, <2>4, <2>6, RoundSpends
  <2>8. Below(spent', 0, Len(pool), 4 * Size' * turn')
    <3>1. Size' = Size
      BY <1>1 DEF Size
    <3>2. QED
      BY <1>1, <1>5, <2>2, <2>3, <2>7, <3>1
  <2>9. /\ \A k \in Nat : k > Len(pool) => Below(spent', 0, k, 0)
        /\ Below(spent', 1, 0, 0)
    <3>1. \A k \in Nat : k > Len(pool) => k # b
      BY <1>6, <2>3
    <3>2. 1 # zero
      BY <2>3
    <3>3. QED
      BY <2>3, <2>5, <2>7, <3>1, <3>2 DEF Elsewhere
  <2>10. UnspentBatches'
    BY <1>1, <2>8, <2>9 DEF UnspentBatches
  <2>11. QED
    BY <1>1, <1>2, <1>9, <2>6, <2>7, <2>10 DEF SpentInv
<1>10. QED
  BY <1>7, <1>8, <1>9 DEF Multiplies

\* The next batch has VOLEs of its own, and the layers have one pair.
LEMMA SpentEndMerge ==
  ASSUME Shape, SpentInv, EndMerge
  PROVE  SpentInv'
<1>1. /\ job' = job /\ spent' = spent /\ stage = "merge" /\ turn' = 0
      /\ Len(pool') \in Nat /\ Len(pool') > Len(pool)
      /\ stage' \in {"generate", "layer", "done"}
      /\ stage' = "generate" => Len(pool') < total
  BY EndMergeShape
<1>2. Multiplies' <=> Multiplies
  BY <1>1, SameJob
<1>3. pool \in Seq(Range(pool)) /\ Len(pool) \in Nat /\ JobOK
  BY DEF Shape
<1>4. ASSUME job.name = "DoubleASTSet"
      PROVE  UnspentRounds'
  <2>1. total = 1
    BY <1>3, <1>4, Sizes DEF Functions2k
  <2>2. stage' # "generate" /\ stage' # "merge"
    BY <1>1, <1>3, <2>1
  <2>3. QED
    BY <2>2 DEF UnspentRounds
<1>5. ASSUME job.name = "DoubleASTSet_2k"
      PROVE  UnspentBatches'
  <2>1. /\ \A k \in Nat : k > Len(pool) => Below(spent, 0, k, 0)
        /\ Below(spent, 1, 0, 0)
    BY <1>1, <1>5 DEF SpentInv, UnspentBatches
  <2>2. \A k \in Nat : k >= Len(pool') => k > Len(pool)
    BY <1>1, <1>3
  <2>3. QED
    BY <1>1, <2>1, <2>2 DEF UnspentBatches
<1>6. QED
  BY <1>1, <1>2, <1>4, <1>5 DEF SpentInv

\* A layer but the first multiplies over the elements of its part.
LEMMA SpentLayer ==
  ASSUME Shape, SpentInv, Layer
  PROVE  SpentInv'
<1>1. /\ job' = job /\ pool' = pool /\ turn' = turn + 1
      /\ stage = "layer" /\ stage' \in {"layer", "done"}
      /\ turn \in 0 .. depth - 1 /\ job.name \in Functions2k
  BY LayerShape
<1>2. (Multiplies' <=> Multiplies) /\ JobOK
  BY <1>1, SameJob DEF Shape
<1>3. job.n \in Nat /\ depth \in Nat \ {0} /\ turn \in Nat
  BY <1>1, <1>2, Sizes
<1>4. job.name # "DoubleASTSet"
  BY <1>1 DEF Functions2k
<1>5. CASE turn = 0
  <2>1. spent' = spent
    BY <1>5 DEF Layer
  <2>2. turn' = 1 /\ 4 * job.n * (turn' - 1) = 0
    BY <1>1, <1>3, <1>5
  <2>3. job.name = "DoubleASTSet_2k" => UnspentBatches'
    BY <1>1, <1>5, <2>1, <2>2 DEF SpentInv, UnspentBatches
  <2>4. QED
    BY <1>1, <1>2, <1>4, <2>1, <2>3 DEF SpentInv
<1>6. CASE turn # 0 /\ ~Multiplies
  <2>1. \E y : Round(y, LayerVoles)
    BY <1>6 DEF Layer
  <2>2. spent' = spent
    BY <1>6, <2>1 DEF Round
  <2>3. job.name # "DoubleASTSet_2k"
    BY <1>6 DEF Multiplies
  <2>4. QED
    BY <1>1, <1>2, <1>4, <1>6, <2>2, <2>3 DEF SpentInv
<1>7. CASE turn # 0 /\ Multiplies
  <2>1. job.name = "DoubleASTSet_2k"
    BY <1>4, <1>7 DEF Multiplies
  <2>2. PICK ts : Round(Layout(turn, ts), LayerVoles)
    BY <1>7 DEF Layer
  <2>3. PICK y, voles : y = Layout(turn, ts) /\ voles = LayerVoles /\ Round(y, voles)
    BY <2>2
  <2>4. PICK size \in Nat : size = job.n /\ size = Cardinality(DOMAIN y.perm)
    <3>1. DOMAIN y.perm = 0 .. job.n - 1
      <4>1. y.perm = compose_perm_2k(turn, [p \in DOMAIN ts |-> ts[p].perm])
        BY <2>3 DEF Layout
      <4>2. \E ins : y.perm = compose_vec_2k(turn, ins)
        BY <4>1 DEF compose_perm_2k
      <4>3. \A ins : DOMAIN compose_vec_2k(turn, ins) = 0 .. job.n - 1
        BY DEF compose_vec_2k
      <4>4. QED
        BY <4>2, <4>3
    <3>2. \A m \in Nat : Cardinality(0 .. m - 1) = m
      BY FS_Interval
    <3>3. QED
      BY <1>3, <3>1, <3>2
  <2>5. PICK t \in Nat, d \in Nat : t = turn - 1 /\ d = depth - 1 /\ t < d /\ turn = t + 1
    BY <1>1, <1>3, <1>7
  <2>6. PICK base \in Nat, of \in Nat, end \in Nat :
          /\ base = 4 * size * t /\ of = 4 * size * d
          /\ end = 4 * size * (t + 1) /\ end = base + 4 * size /\ end <= of
    <3>1. /\ 4 * size * t \in Nat /\ 4 * size * (t + 1) = 4 * size * t + 4 * size
          /\ \A m \in Nat : t < m => 4 * size * t + 4 * size <= 4 * size * m
      BY NextPart
    <3>2. 4 * size * t + 4 * size <= 4 * size * d
      BY <2>5, <3>1
    <3>3. 4 * size * d \in Nat
      BY NextPart
    <3>4. QED
      BY <3>1, <3>2, <3>3
  <2>7. PICK one \in Nat, zero \in Nat : one = 1 /\ zero = 0
    OBVIOUS
  <2>8. VolesAre(voles, one, zero, base, of)
    BY <2>3, <2>4, <2>5, <2>6, <2>7 DEF LayerVoles, VolesAre
  <2>9. /\ spent \in Seq(Masks) /\ Once(spent) /\ Multiplies
        /\ Below(spent, one, zero, base)
    BY <1>1, <1>7, <2>1, <2>4, <2>5, <2>6, <2>7 DEF SpentInv, UnspentBatches
  <2>10. spent' \in Seq(Masks) /\ Once(spent') /\ Below(spent', one, zero, base + 4 * size)
    BY <2>3, <2>4, <2>6, <2>8, <2>9, RoundSpends
  <2>11. UnspentBatches'
    <3>1. turn' # 0 /\ turn' - 1 = t + 1
      BY <1>1, <1>3, <2>5
    <3>2. Below(spent', 1, 0, 4 * job.n * (turn' - 1))
      BY <2>4, <2>6, <2>7, <2>10, <3>1
    <3>3. QED
      BY <1>1, <3>1, <3>2 DEF UnspentBatches
  <2>12. QED
    BY <1>1, <1>2, <1>4, <1>7, <2>10, <2>11 DEF SpentInv
<1>8. QED
  BY <1>5, <1>6, <1>7

LEMMA SpentNext == Shape /\ SpentInv /\ [Next]_vars => (Shape /\ SpentInv)'
<1> SUFFICES ASSUME Shape, SpentInv, [Next]_vars
             PROVE  Shape' /\ SpentInv'
  OBVIOUS
<1>1. CASE Generate
  BY <1>1, GenerateShape, SpentGenerate
<1>2. CASE Merge
  BY <1>2, MergeShape, SpentMerge
<1>3. CASE EndMerge
  BY <1>3, EndMergeShape, SpentEndMerge
<1>4. CASE Layer
  BY <1>4, LayerShape, SpentLayer
<1>5. CASE ShuffleSet \/ UNCHANGED vars
  <2>1. /\ job' = job /\ pool' = pool /\ spent' = spent /\ Shape'
        /\ \/ stage' \in {"done", "stopped"}
           \/ stage' = stage /\ turn' = turn /\ fresh' = fresh /\ acc' = acc
    BY <1>5, OtherShape
  <2>2. Multiplies' <=> Multiplies
    BY <2>1, SameJob
  <2>3. SpentInv'
    BY <2>1, <2>2 DEF SpentInv, UnspentRounds, UnspentBatches, Size
  <2>4. QED
    BY <2>1, <2>3
<1>6. QED
  BY <1>1, <1>2, <1>3, <1>4, <1>5 DEF Next

\* For all sizes of calls, blocks and batches no element of a VOLE is used twice,
\* nor one beyond the end (tmp_a, _tmp_a and their subspans).
THEOREM MasksOnce == Spec => []MasksSpentOnce
<1>1. SpentInv => MasksSpentOnce
  BY DEF SpentInv, Once, Apart, MasksSpentOnce
<1>2. Init => Shape /\ SpentInv
  BY ShapeStart, SpentStart
<1>3. QED
  BY <1>1, <1>2, SpentNext, PTL DEF Spec

-----------------------------------------------------------------------------
\* Every translation made goes into the result once.

\* All that the first n sequences of F hold.
AllOf(F, n) == UNION {Range(F[p]) : p \in 1 .. n}

\* Sequences of one length flattened.
FlattensTo(F, m) ==
  /\ FlattenSeq(F) \in Seq(Nat) /\ Len(FlattenSeq(F)) = Len(F) * m
  /\ Range(FlattenSeq(F)) = AllOf(F, Len(F))

LEMMA FlattenUniform ==
  ASSUME NEW m \in Nat
  PROVE  \A F \in Seq(Seq(Nat)) :
           (\A i \in 1 .. Len(F) : Len(F[i]) = m) => FlattensTo(F, m)
<1> DEFINE Good(n) == \A F \in Seq(Seq(Nat)) :
             Len(F) = n /\ (\A i \in 1 .. Len(F) : Len(F[i]) = m) => FlattensTo(F, m)
           S == {n \in Nat : Good(n)}
<1>1. 0 \in S
  <2>1. ASSUME NEW F \in Seq(Seq(Nat)), Len(F) = 0
        PROVE  FlattensTo(F, m)
    <3>1. F = <<>>
      BY <2>1
    <3>2. FlattenSeq(<<>>) = <<>>
      BY FlattenFacts
    <3>3. FlattenSeq(F) \in Seq(Nat) /\ Len(FlattenSeq(F)) = 0
          /\ Range(FlattenSeq(F)) = {}
      <4>1. FlattenSeq(F) = <<>>
        BY <3>1, <3>2
      <4>2. <<>> \in Seq(Nat) /\ Len(<<>>) = 0 /\ DOMAIN <<>> = {}
        OBVIOUS
      <4>3. Range(<<>>) = {}
        BY <4>2 DEF Range
      <4>4. QED
        BY <4>1, <4>2, <4>3
    <3>4. AllOf(F, 0) = {} /\ 0 * m = 0
      BY DEF AllOf
    <3>5. QED
      BY <2>1, <3>3, <3>4 DEF FlattensTo
  <2>2. QED
    BY <2>1
<1>2. ASSUME NEW n \in Nat, Good(n)
      PROVE  Good(n + 1)
  <2>1. ASSUME NEW F \in Seq(Seq(Nat)), Len(F) = n + 1,
               \A i \in 1 .. Len(F) : Len(F[i]) = m
        PROVE  FlattensTo(F, m)
    <3> DEFINE front == [i \in 1 .. n |-> F[i]]
    <3>1. /\ front \in Seq(Seq(Nat)) /\ Len(front) = n
          /\ \A i \in 1 .. n : front[i] = F[i]
          /\ FlattenSeq(F) = FlattenSeq(front) \o F[n + 1]
      BY <2>1, FlattenLast
    <3> HIDE DEF front
    <3>2. /\ n + 1 \in 1 .. Len(F) /\ F[n + 1] \in Seq(Nat) /\ Len(F[n + 1]) = m
          /\ \A i \in 1 .. n : i \in 1 .. Len(F)
      BY <2>1
    <3>3. FlattensTo(front, m)
      <4>1. \A i \in 1 .. n : Len(front[i]) = m
        BY <2>1, <3>1, <3>2
      <4>2. QED
        BY <1>2, <3>1, <4>1
    <3>4. PICK s \in Seq(Nat), last \in Seq(Nat) : s = FlattenSeq(front) /\ last = F[n + 1]
      BY <3>2, <3>3 DEF FlattensTo
    <3>5. /\ s \o last \in Seq(Nat) /\ Len(s \o last) = Len(s) + Len(last)
          /\ Range(s \o last) = Range(s) \cup Range(last)
      BY ConcatFacts, ConcatInjective
    <3>6. Len(s) = n * m /\ Len(last) = m /\ (n + 1) * m = n * m + m
      BY <3>1, <3>2, <3>3, <3>4 DEF FlattensTo
    <3>7. AllOf(F, n + 1) = AllOf(front, n) \cup Range(last)
      <4>1. \A i \in 1 .. n + 1 : i \in 1 .. n \/ i = n + 1
        OBVIOUS
      <4>2. \A i \in 1 .. n : i \in 1 .. n + 1
        OBVIOUS
      <4>3. n + 1 \in 1 .. n + 1
        OBVIOUS
      <4>4. QED
        BY <3>1, <3>4, <4>1, <4>2, <4>3 DEF AllOf
    <3>8. Range(s) = AllOf(front, n)
      BY <3>1, <3>3, <3>4 DEF FlattensTo
    <3>9. QED
      BY <2>1, <3>1, <3>4, <3>5, <3>6, <3>7, <3>8 DEF FlattensTo
  <2>2. QED
    BY <2>1
<1> HIDE DEF Good
<1>3. Nat \subseteq S
  <2>1. \A n \in Nat : n \in S => n + 1 \in S
    BY <1>2
  <2> HIDE DEF S
  <2>2. QED
    BY <1>1, <2>1, NatSetInduction
<1>4. \A F \in Seq(Seq(Nat)) : Good(Len(F))
  BY <1>3
<1>5. QED
  BY <1>4 DEF Good

\* The translations num * (k - 1) + p of a batch, for all rounds k, are all that
\* it makes.
Rounds(ids, id, num, rounds) ==
  \A p \in 1 .. num :
    /\ ids[p] \in Seq(Nat) /\ Len(ids[p]) = rounds
    /\ \A k \in 1 .. rounds : ids[p][k] = id[(k - 1) * num + p]

LEMMA AllRounds ==
  ASSUME NEW num \in Nat \ {0}, NEW M \in Nat, NEW C, C = num * M,
         NEW id \in [1 .. C -> Nat], NEW ids, Rounds(ids, id, num, M)
  PROVE  AllOf(ids, num) = Range(id)
<1>1. ASSUME NEW p \in 1 .. num, NEW x \in Range(ids[p])
      PROVE  x \in Range(id)
  <2>1. ids[p] \in Seq(Nat) /\ Len(ids[p]) = M
    BY DEF Rounds
  <2>2. PICK k \in 1 .. M : x = ids[p][k]
    BY <2>1, SeqElements
  <2>3. x = id[(k - 1) * num + p]
    BY <2>2 DEF Rounds
  <2>4. (k - 1) * num + p \in 1 .. C
    <3>1. PICK j \in Nat : j = k - 1 /\ j + 1 <= M
      OBVIOUS
    <3>2. PICK d \in Nat : M = j + 1 + d
      BY <3>1
    <3>3. C = j * num + num + d * num /\ d * num \in Nat /\ j * num \in Nat
      BY <3>1, <3>2
    <3>4. j * num + p >= 1 /\ j * num + p <= C /\ j * num + p \in Int
      BY <3>3
    <3>5. QED
      BY <3>1, <3>3, <3>4
  <2>5. QED
    BY <2>3, <2>4 DEF Range
<1>2. ASSUME NEW x \in Range(id)
      PROVE  \E p \in 1 .. num : x \in Range(ids[p])
  <2>1. PICK i \in 1 .. C : x = id[i]
    BY DEF Range
  <2>2. PICK j \in Int : j = i - 1
    <3>1. num * M \in Int
      OBVIOUS
    <3>2. QED
      BY <3>1
  <2>3. PICK q \in Int, m \in 0 .. num - 1 : j = num * q + m
    BY DivFacts
  <2>4. j >= 0 /\ j < num * M
    BY <2>2
  <2>5. q >= 0
    <3>1. ASSUME q <= -1
          PROVE  FALSE
      <4>1. num * q <= -num
        <5>1. num * (-q - 1) >= 0
          BY <3>1
        <5>2. QED
          BY <5>1
      <4>2. QED
        BY <2>3, <2>4, <4>1
    <3>2. QED
      BY <3>1
  <2>6. q < M
    <3>1. ASSUME q >= M
          PROVE  FALSE
      <4>1. num * q >= num * M
        <5>1. num * (q - M) >= 0
          BY <3>1
        <5>2. QED
          BY <5>1
      <4>2. QED
        BY <2>3, <2>4, <4>1
    <3>2. QED
      BY <3>1
  <2>7. PICK p \in 1 .. num, k \in 1 .. M : p = m + 1 /\ k = q + 1
    BY <2>5, <2>6
  <2>8. i = (k - 1) * num + p
    BY <2>2, <2>3, <2>7
  <2>9. ids[p][k] = x /\ ids[p] \in Seq(Nat) /\ Len(ids[p]) = M
    BY <2>1, <2>8 DEF Rounds
  <2>10. x \in Range(ids[p])
    BY <2>9, SeqElements
  <2>11. QED
    BY <2>10
<1>3. QED
  BY <1>1, <1>2 DEF AllOf

\* GenPerm: a permutation for every seed.
Permutes ==
  \A n \in Nat, s \in Nat :
    /\ GenPerm(n, s) \in [0 .. n - 1 -> 0 .. n - 1]
    /\ Range(GenPerm(n, s)) = 0 .. n - 1

\* The numbers of the translations merged into the first n of the pool.
AllIds(po, n) == UNION {Range(po[p].ids) : p \in 1 .. n}

PoolIds ==
  /\ \A p \in 1 .. Len(pool) :
       pool[p].ids \in Seq(Nat) /\ Len(pool[p].ids) = MergeRounds
  /\ AllIds(pool, Len(pool)) = 1 .. MergeRounds * Len(pool)

\* Those of the batch follow, id has their order after the common shuffle, and
\* turn rounds of them are merged.
BatchIds(num, id) ==
  /\ id \in [1 .. num * MergeRounds -> Nat]
  /\ \A x \in 1 .. num * MergeRounds : fresh[x].ids = <<id[x]>>
  /\ Range(id) = MergeRounds * Len(pool) + 1 .. MergeRounds * (Len(pool) + num)
  /\ Rounds(acc.ids, id, num, turn)

\* n layers lay out n * T_num of the pool.
LayerIds(n) ==
  \E ids \in Seq(Nat) :
    /\ acc.ids = <<ids>> /\ Len(ids) = n * T_num * MergeRounds
    /\ Range(ids) = AllIds(pool, n * T_num)

IdsInv ==
  /\ job.seed \in Nat
  /\ PoolIds
  /\ stage = "merge" => \E num, id : Batch(num) /\ BatchIds(num, id)
  /\ stage = "layer" /\ turn >= 1 => LayerIds(turn)
  /\ EachTranslationOnce

LEMMA IdsStart == Init => IdsInv
<1> SUFFICES ASSUME Init
             PROVE  IdsInv
  OBVIOUS
<1>1. /\ pool = <<>> /\ stage = "generate" /\ job.seed \in Nat
  BY TranslationsAssumption DEF Init
<1>2. Len(pool) = 0 /\ MergeRounds * 0 = 0
  BY <1>1, TranslationsAssumption
<1>3. PoolIds
  BY <1>2 DEF PoolIds, AllIds
<1>4. QED
  BY <1>1, <1>3 DEF IdsInv, EachTranslationOnce, Finished

\* A batch is numbered from where the pool ends, in the order of the shuffle.
LEMMA IdsGenerate ==
  ASSUME Permutes, Shape, IdsInv, Generate
  PROVE  IdsInv'
<1>1. /\ stage = "generate" /\ JobOK /\ Len(pool) < total
      /\ pool \in Seq(Range(pool)) /\ Len(pool) \in Nat
  BY DEF Generate, Shape
<1>2. /\ job' = job /\ pool' = pool /\ stage' \in {"merge", "stopped"} /\ Shape'
      /\ stage' = "merge" => turn' = 1
  BY GenerateShape
<1>3. total \in Nat /\ MergeRounds \in Nat \ {0, 1} /\ BatchSize \in Nat \ {0}
  BY <1>1, Sizes, TranslationsAssumption
<1>4. PoolIds' /\ EachTranslationOnce' /\ job'.seed \in Nat
  <2>1. PoolIds'
    BY <1>2 DEF IdsInv, PoolIds, AllIds
  <2>2. stage' # "done"
    BY <1>2
  <2>3. EachTranslationOnce'
    BY <2>2 DEF EachTranslationOnce, Finished
  <2>4. job'.seed \in Nat
    BY <1>2 DEF IdsInv
  <2>5. QED
    BY <2>1, <2>3, <2>4
<1> DEFINE first == MergeRounds * Len(pool)
           num == Min({BatchSize, total - Len(pool)})
           made == first + 1 .. first + num * MergeRounds
           identity == [x \in 0 .. Cardinality(made) - 1 |-> x]
           shuffle == IF job.name \in Functions2k
                      THEN GenPerm(Cardinality(made), job.seed + Len(pool))
                      ELSE identity
<1>5. CASE \E f \in made : Stop(f)
  <2>1. stage' = "stopped"
    BY <1>5 DEF Stop
  <2>2. QED
    BY <1>4, <2>1 DEF IdsInv
<1>6. CASE ~\E f \in made : Stop(f)
  <2>1. /\ stage' = "merge"
        /\ fresh' = [x \in 1 .. Cardinality(made) |-> Translation(first + 1 + shuffle[x - 1])]
        /\ acc' = Join(SubSeq(fresh', 1, num))
    BY <1>6 DEF Generate
  <2>2. PICK n \in Nat \ {0}, m \in Nat, k \in Nat, C \in Nat, len \in Nat :
          /\ n = num /\ m = n * MergeRounds /\ k = first /\ C = Cardinality(made)
          /\ len = Len(pool) /\ k = MergeRounds * len /\ n <= m
    <3>1. num \in Nat \ {0}
      BY <1>1, <1>3, MinOfTwo
    <3> HIDE DEF num
    <3>2. num * MergeRounds \in Nat /\ first \in Nat
      BY <1>1, <1>3, <3>1
    <3>3. num <= num * MergeRounds
      <4>1. num * (MergeRounds - 1) \in Nat
        BY <1>3, <3>1
      <4>2. num * MergeRounds = num + num * (MergeRounds - 1)
        BY <1>3, <3>1
      <4>3. QED
        BY <3>1, <4>1, <4>2
    <3>4. PICK a \in Nat, b \in Nat : a = first /\ b = num * MergeRounds
      BY <3>2
    <3>5. Cardinality(a + 1 .. a + b) = b
      BY FS_Interval
    <3>6. Cardinality(made) \in Nat
      BY <3>4, <3>5
    <3>7. QED
      BY <1>1, <3>1, <3>2, <3>3, <3>6
  <2>3. C = m
    <3>1. Cardinality(k + 1 .. k + m) = m
      BY FS_Interval
    <3>2. QED
      BY <2>2, <3>1
  <2>4. PICK perm : perm = shuffle /\ perm \in [0 .. m - 1 -> 0 .. m - 1]
                    /\ Range(perm) = 0 .. m - 1
    <3>1. PICK s \in Nat : s = job.seed + Len(pool)
      BY <2>2 DEF IdsInv
    <3>2. /\ GenPerm(m, s) \in [0 .. m - 1 -> 0 .. m - 1]
          /\ Range(GenPerm(m, s)) = 0 .. m - 1
      BY DEF Permutes
    <3>3. /\ [x \in 0 .. m - 1 |-> x] \in [0 .. m - 1 -> 0 .. m - 1]
          /\ Range([x \in 0 .. m - 1 |-> x]) = 0 .. m - 1
      BY DEF Range
    <3>4. shuffle = IF job.name \in Functions2k THEN GenPerm(m, s)
                    ELSE [x \in 0 .. m - 1 |-> x]
      BY <2>2, <2>3, <3>1
    <3> HIDE DEF shuffle
    <3>5. QED
      BY <3>2, <3>3, <3>4
  <2>5. fresh' = [x \in 1 .. m |-> Translation(k + 1 + perm[x - 1])]
    BY <2>1, <2>2, <2>3, <2>4
  <2>6. acc' = Join(SubSeq(fresh', 1, n))
    BY <2>1, <2>2
  <2> HIDE DEF num, made, first, shuffle, identity
  <2>7. PICK id \in [1 .. m -> Nat] : \A x \in 1 .. m : id[x] = k + 1 + perm[x - 1]
    <3>1. \A x \in 1 .. m : k + 1 + perm[x - 1] \in Nat
      <4>1. \A x \in 1 .. m : x - 1 \in 0 .. m - 1
        OBVIOUS
      <4>2. QED
        BY <2>4, <4>1
    <3>2. [x \in 1 .. m |-> k + 1 + perm[x - 1]] \in [1 .. m -> Nat]
      BY <3>1
    <3>3. QED
      BY <3>2
  <2>8. \A x \in 1 .. m : fresh'[x].ids = <<id[x]>>
    <3>1. \A f : Translation(f).ids = <<f>>
      BY DEF Translation
    <3>2. QED
      BY <2>5, <2>7, <3>1
  <2>9. Range(id) = k + 1 .. k + m
    <3>1. ASSUME NEW x \in Range(id)
          PROVE  x \in k + 1 .. k + m
      <4>1. PICK i \in 1 .. m : x = id[i]
        BY DEF Range
      <4>2. perm[i - 1] \in 0 .. m - 1
        BY <2>4
      <4>3. QED
        BY <2>7, <4>1, <4>2
    <3>2. ASSUME NEW x \in k + 1 .. k + m
          PROVE  x \in Range(id)
      <4>1. x - k - 1 \in Range(perm)
        BY <2>4
      <4>2. PICK i \in 0 .. m - 1 : perm[i] = x - k - 1
        BY <2>4, <4>1 DEF Range
      <4>3. i + 1 \in 1 .. m /\ (i + 1) - 1 = i
        OBVIOUS
      <4>4. id[i + 1] = x
        <5>1. id[i + 1] = k + 1 + perm[(i + 1) - 1]
          BY <2>7, <4>3
        <5>2. QED
          BY <4>2, <4>3, <5>1
      <4>5. QED
        BY <4>3, <4>4 DEF Range
    <3>3. QED
      BY <3>1, <3>2
  <2>10. /\ DOMAIN acc'.ids = 1 .. n
         /\ \A p \in 1 .. n : acc'.ids[p] = <<id[p]>>
    <3>1. /\ DOMAIN SubSeq(fresh', 1, n) = 1 .. n
          /\ \A p \in 1 .. n : SubSeq(fresh', 1, n)[p] = fresh'[p]
      <4>1. fresh' \in Seq(Range(fresh')) /\ Len(fresh') = m
        BY <2>5, SeqOfFunction
      <4>2. QED
        BY <2>2, <4>1
    <3>2. acc'.ids = [p \in 1 .. n |-> SubSeq(fresh', 1, n)[p].ids]
      BY <2>6, <3>1 DEF Join
    <3>3. \A p \in 1 .. n : p \in 1 .. m
      BY <2>2
    <3>4. QED
      BY <2>8, <3>1, <3>2, <3>3
  <2>11. Rounds(acc'.ids, id, n, 1)
    <3>1. ASSUME NEW p \in 1 .. n
          PROVE  /\ acc'.ids[p] \in Seq(Nat) /\ Len(acc'.ids[p]) = 1
                 /\ \A j \in 1 .. 1 : acc'.ids[p][j] = id[(j - 1) * n + p]
      <4>1. p \in 1 .. m /\ id[p] \in Nat
        BY <2>2
      <4>2. acc'.ids[p] \in Seq(Nat) /\ Len(acc'.ids[p]) = 1 /\ acc'.ids[p][1] = id[p]
        <5>1. PICK v \in Nat : v = id[p]
          BY <4>1
        <5>2. <<v>> \in Seq(Nat) /\ Len(<<v>>) = 1 /\ <<v>>[1] = v
          OBVIOUS
        <5>3. acc'.ids[p] = <<v>>
          BY <2>10, <5>1
        <5>4. QED
          BY <5>1, <5>2, <5>3
      <4>3. \A j \in 1 .. 1 : j = 1 /\ (j - 1) * n + p = p
        OBVIOUS
      <4>4. QED
        BY <4>2, <4>3
    <3>2. QED
      BY <3>1 DEF Rounds
  <2>12. BatchIds(n, id)'
    <3>1. k + m = MergeRounds * (len + n)
      BY <1>3, <2>2
    <3>2. stage' = "merge" /\ turn' = 1
      BY <1>2, <2>1
    <3>3. id \in [1 .. n * MergeRounds -> Nat]
      BY <2>2, <2>7
    <3>4. \A x \in 1 .. n * MergeRounds : fresh'[x].ids = <<id[x]>>
      BY <2>2, <2>8
    <3>5. Range(id) = MergeRounds * Len(pool') + 1 .. MergeRounds * (Len(pool') + n)
      BY <1>2, <2>2, <2>9, <3>1
    <3>6. Rounds(acc'.ids, id, n, turn')
      BY <2>11, <3>2
    <3>7. QED
      BY <3>3, <3>4, <3>5, <3>6 DEF BatchIds
  <2>13. Batch(n)'
    <3>1. PICK n2 : Batch(n2)'
      <4>1. stage' = "merge" /\ Shape'
        BY <1>2, <2>1
      <4>2. QED
        BY <4>1 DEF Shape
    <3>2. 1 .. n2 = 1 .. n /\ n2 \in Nat \ {0}
      BY <2>10, <3>1 DEF Batch
    <3>3. n2 = n
      BY <2>2, <3>2
    <3>4. QED
      BY <3>1, <3>3
  <2>14. QED
    BY <1>4, <2>1, <2>12, <2>13 DEF IdsInv
<1>7. QED
  BY <1>5, <1>6

\* A round takes one translation more into each.
LEMMA IdsMerge ==
  ASSUME Shape, IdsInv, Merge
  PROVE  IdsInv'
<1>1. /\ job' = job /\ pool' = pool /\ fresh' = fresh /\ turn' = turn + 1
      /\ stage = "merge" /\ stage' = "merge" /\ Shape'
      /\ turn \in 1 .. MergeRounds - 1
  BY MergeShape
<1>2. PICK num, id : Batch(num) /\ BatchIds(num, id)
  BY <1>1 DEF IdsInv
<1>3. MergeRounds \in Nat \ {0} /\ num \in Nat \ {0} /\ DOMAIN acc.ids = 1 .. num
  BY <1>2, TranslationsAssumption DEF Batch
<1>4. PICK y : /\ y = Join(OfRound(turn))
               /\ acc'.ids = [p \in DOMAIN acc.ids |-> acc.ids[p] \o y.ids[p]]
  BY DEF Merge, Round
<1>5. PICK t \in 1 .. MergeRounds - 1 : t = turn
  BY <1>1
<1>6. ASSUME NEW p \in 1 .. num
      PROVE  /\ acc'.ids[p] \in Seq(Nat) /\ Len(acc'.ids[p]) = t + 1
             /\ \A k \in 1 .. t + 1 : acc'.ids[p][k] = id[(k - 1) * num + p]
  <2>1. PICK x \in Nat : x = t * num + p
    BY <1>3
  <2>2. x \in 1 .. num * MergeRounds
    <3>1. PICK d \in Nat : MergeRounds = t + 1 + d
      BY <1>3
    <3>2. num * MergeRounds = t * num + num + d * num /\ d * num \in Nat /\ t * num \in Nat
      BY <1>3, <3>1
    <3>3. QED
      BY <1>3, <2>1, <3>2
  <2>3. fresh[x].ids = <<id[x]>> /\ id[x] \in Nat
    BY <1>2, <2>2 DEF BatchIds
  <2>4. y.ids[p] = <<id[x]>>
    <3>1. /\ Len(fresh) \div MergeRounds = num
          /\ DOMAIN OfRound(turn) = 1 .. num
      BY <1>2, OfRoundFacts
    <3>2. OfRound(turn)[p] = fresh[x]
      BY <1>5, <2>1, <3>1 DEF OfRound
    <3>3. y.ids[p] = OfRound(turn)[p].ids
      BY <1>4, <3>1 DEF Join
    <3>4. QED
      BY <2>3, <3>2, <3>3
  <2>5. PICK s \in Seq(Nat), v \in Nat :
          /\ s = acc.ids[p] /\ v = id[x] /\ Len(s) = t
          /\ \A k \in 1 .. t : s[k] = id[(k - 1) * num + p]
    BY <1>2, <1>5, <2>3 DEF BatchIds, Rounds
  <2>6. acc'.ids[p] = s \o <<v>>
    BY <1>3, <1>4, <2>4, <2>5
  <2>7. /\ s \o <<v>> \in Seq(Nat) /\ Len(s \o <<v>>) = t + 1
        /\ \A k \in 1 .. t : (s \o <<v>>)[k] = s[k]
        /\ (s \o <<v>>)[t + 1] = v
    <3>1. PICK one \in Seq(Nat) : one = <<v>> /\ Len(one) = 1 /\ one[1] = v
      <4>1. <<v>> \in Seq(Nat) /\ Len(<<v>>) = 1 /\ <<v>>[1] = v
        OBVIOUS
      <4>2. QED
        BY <4>1
    <3>2. PICK j \in Nat : j = t + 1 /\ Len(s) = t /\ Len(s) + 1 = j
      BY <2>5
    <3>3. /\ s \o one \in Seq(Nat) /\ Len(s \o one) = j
          /\ \A k \in 1 .. t : (s \o one)[k] = s[k]
          /\ (s \o one)[j] = one[1]
      BY <3>1, <3>2, ConcatFacts
    <3>4. QED
      BY <3>1, <3>2, <3>3
  <2>8. \A k \in 1 .. t + 1 : k \in 1 .. t \/ k = t + 1
    OBVIOUS
  <2>9. v = id[((t + 1) - 1) * num + p]
    <3>1. (t + 1) - 1 = t
      OBVIOUS
    <3>2. QED
      BY <2>1, <2>5, <3>1
  <2>10. QED
    BY <2>5, <2>6, <2>7, <2>8, <2>9
<1>7. Rounds(acc'.ids, id, num, turn')
  BY <1>1, <1>5, <1>6 DEF Rounds
<1>8. BatchIds(num, id)'
  BY <1>1, <1>2, <1>7 DEF BatchIds
<1>9. Batch(num)'
  <2>1. DOMAIN acc'.ids = 1 .. num
    BY <1>3, <1>4
  <2>2. QED
    BY <1>1, <1>2, <2>1, SameJob DEF Batch
<1>10. QED
  BY <1>1, <1>8, <1>9 DEF IdsInv, PoolIds, AllIds, EachTranslationOnce, Finished

\* A merge that ends puts its batch after the pool.
LEMMA IdsEndMerge ==
  ASSUME Shape, IdsInv, EndMerge
  PROVE  IdsInv'
<1>1. /\ stage = "merge" /\ turn = MergeRounds /\ job' = job /\ acc' = acc /\ turn' = 0
      /\ pool' = pool \o Split(acc)
      /\ stage' = IF Len(pool') < total THEN "generate"
                  ELSE IF job.name \in Functions2k THEN "layer" ELSE "done"
  BY DEF EndMerge
<1>2. PICK num, id : Batch(num) /\ BatchIds(num, id)
  BY <1>1 DEF IdsInv
<1>3. PICK M \in Nat \ {0}, len \in Nat :
        /\ M = MergeRounds /\ len = Len(pool) /\ pool \in Seq(Range(pool))
        /\ num \in Nat \ {0} /\ DOMAIN acc.ids = 1 .. num /\ num + len <= total
  <2>1. MergeRounds \in Nat \ {0} /\ pool \in Seq(Range(pool)) /\ Len(pool) \in Nat
    BY TranslationsAssumption DEF Shape
  <2>2. num \in Nat \ {0} /\ DOMAIN acc.ids = 1 .. num /\ num + Len(pool) <= total
    BY <1>2 DEF Batch
  <2>3. QED
    BY <2>1, <2>2
<1> DEFINE T == Split(acc)
<1>4. /\ T \in Seq(Range(T)) /\ Len(T) = num
      /\ \A p \in 1 .. num : T[p].ids = acc.ids[p]
  <2>1. DOMAIN T = 1 .. num /\ T = [p \in 1 .. num |-> T[p]]
    BY <1>3 DEF Split
  <2>2. \A p \in 1 .. num : T[p].ids = acc.ids[p]
    BY <1>3 DEF Split
  <2> HIDE DEF T
  <2>3. QED
    BY <1>3, <2>1, <2>2, SeqOfFunction
<1>5. /\ Len(pool') = len + num
      /\ \A p \in 1 .. len : pool'[p] = pool[p]
      /\ \A p \in 1 .. num : pool'[len + p] = T[p]
  <2>1. PICK S : S = Range(pool) \cup Range(T)
    OBVIOUS
  <2> HIDE DEF T
  <2>2. pool \in Seq(S) /\ T \in Seq(S)
    BY <1>3, <1>4, <2>1
  <2>3. /\ Len(pool \o T) = len + num
        /\ \A i \in 1 .. len + num :
             (pool \o T)[i] = IF i <= len THEN pool[i] ELSE T[i - len]
    BY <1>3, <1>4, <2>2, ConcatFacts
  <2>4. \A p \in 1 .. len : p \in 1 .. len + num /\ p <= len
    BY <1>3
  <2>5. \A p \in 1 .. num : /\ len + p \in 1 .. len + num /\ ~(len + p <= len)
                            /\ (len + p) - len = p
    BY <1>3
  <2>6. pool' = pool \o T
    BY <1>1 DEF T
  <2>7. QED
    BY <2>3, <2>4, <2>5, <2>6
<1> HIDE DEF T
<1>6. \A p \in 1 .. num : acc.ids[p] \in Seq(Nat) /\ Len(acc.ids[p]) = M
  BY <1>1, <1>2, <1>3 DEF BatchIds, Rounds
<1>7. AllOf(acc.ids, num) = M * len + 1 .. M * (len + num)
  <2>1. PICK C \in Nat : C = num * M
    BY <1>3
  <2>2. id \in [1 .. C -> Nat] /\ Rounds(acc.ids, id, num, M)
        /\ Range(id) = M * len + 1 .. M * (len + num)
    BY <1>1, <1>2, <1>3, <2>1 DEF BatchIds
  <2>3. AllOf(acc.ids, num) = Range(id)
    BY <1>3, <2>1, <2>2, AllRounds
  <2>4. QED
    BY <2>2, <2>3
<1>8. PoolIds'
  <2>1. \A p \in 1 .. len + num : p \in 1 .. len \/ \E i \in 1 .. num : p = len + i
    <3>1. ASSUME NEW p \in 1 .. len + num, ~(p \in 1 .. len)
          PROVE  p - len \in 1 .. num /\ p = len + (p - len)
      BY <1>3, <3>1
    <3>2. QED
      BY <3>1
  <2>2. \A p \in 1 .. num : len + p \in 1 .. len + num
    BY <1>3
  <2>3. \A p \in 1 .. len : p \in 1 .. len + num
    BY <1>3
  <2>4. \A p \in 1 .. len + num :
          pool'[p].ids \in Seq(Nat) /\ Len(pool'[p].ids) = M
    <3>1. \A p \in 1 .. len : pool[p].ids \in Seq(Nat) /\ Len(pool[p].ids) = M
      BY <1>3 DEF IdsInv, PoolIds
    <3>2. \A p \in 1 .. len : pool'[p].ids = pool[p].ids
      BY <1>5
    <3>3. \A p \in 1 .. num : pool'[len + p].ids = acc.ids[p]
      BY <1>4, <1>5
    <3>4. QED
      BY ONLY <1>6, <2>1, <3>1, <3>2, <3>3
  <2>5. AllIds(pool', len + num) = AllIds(pool, len) \cup AllOf(acc.ids, num)
    <3>1. \A p \in 1 .. len : pool'[p].ids = pool[p].ids
      BY <1>5
    <3>2. \A p \in 1 .. num : pool'[len + p].ids = acc.ids[p]
      BY <1>4, <1>5
    <3>3. QED
      BY ONLY <2>1, <2>2, <2>3, <3>1, <3>2 DEF AllIds, AllOf
  <2>6. AllIds(pool, len) = 1 .. M * len
    BY <1>3 DEF IdsInv, PoolIds
  <2>7. (1 .. M * len) \cup (M * len + 1 .. M * (len + num)) = 1 .. M * (len + num)
    <3>1. PICK a \in Nat, b \in Nat : a = M * len /\ b = M * num
      BY <1>3
    <3>2. M * (len + num) = a + b
      BY <1>3, <3>1
    <3>3. (1 .. a) \cup (a + 1 .. a + b) = 1 .. a + b
      OBVIOUS
    <3>4. QED
      BY <3>1, <3>2, <3>3
  <2>8. QED
    BY <1>3, <1>5, <1>7, <2>4, <2>5, <2>6, <2>7 DEF PoolIds
<1>9. EachTranslationOnce'
  <2>1. SUFFICES ASSUME stage' = "done"
                 PROVE  /\ Len(acc.ids[1]) = total * M
                        /\ Range(acc.ids[1]) = 1 .. total * M
    BY <1>1, <1>3, SameJob DEF EachTranslationOnce, Finished, Range
  <2>2. job.name \notin Functions2k /\ JobOK
    BY <1>1, <2>1 DEF Shape
  <2>3. total = 1
    BY <2>2, Sizes
  <2>4. num = 1 /\ len = 0
    BY <1>3, <2>3
  <2>5. PICK one \in Nat : one = 1 /\ one = num
    BY <2>4
  <2>6. Len(acc.ids[one]) = M
    BY <1>6, <2>5
  <2>7. AllOf(acc.ids, one) = Range(acc.ids[one])
    <3>1. \A p \in 1 .. one : p = one
      BY <2>5
    <3>2. one \in 1 .. one
      BY <2>5
    <3>3. QED
      BY <3>1, <3>2 DEF AllOf
  <2>8. M * len + 1 = 1 /\ M * (len + num) = M /\ total * M = M
    BY <1>3, <2>3, <2>4
  <2>9. QED
    BY <1>7, <2>5, <2>6, <2>7, <2>8
<1>10. stage' # "merge" /\ turn' = 0
  BY <1>1
<1>11. QED
  BY <1>1, <1>8, <1>9, <1>10 DEF IdsInv

\* A layer takes the next T_num translations of the pool.
LEMMA IdsLayer ==
  ASSUME Shape, IdsInv, Layer
  PROVE  IdsInv'
<1>1. /\ job' = job /\ pool' = pool /\ turn' = turn + 1 /\ Shape'
      /\ stage = "layer" /\ stage' \in {"layer", "done"}
      /\ turn \in 0 .. depth - 1 /\ job.name \in Functions2k
  BY LayerShape
<1>2. Len(pool) = total /\ JobOK
  BY <1>1 DEF Shape
<1>3. PICK M \in Nat \ {0}, num \in Nat \ {0}, d \in Nat \ {0}, t \in Nat :
        t < d /\ M = MergeRounds /\ num = T_num /\ d = depth /\ t = turn /\ total = num * d
  <2>1. MergeRounds \in Nat \ {0}
    BY TranslationsAssumption
  <2>2. T_num \in Nat \ {0} /\ depth \in Nat \ {0} /\ total = T_num * depth
    BY <1>2, Sizes DEF total
  <2>3. QED
    BY <1>1, <2>1, <2>2
<1> DEFINE ts == [i \in 1 .. num |-> pool[t * num + i]]
           F == [p \in 1 .. num |-> pool[t * num + p].ids]
<1>4. \A p \in 1 .. num : t * num + p \in 1 .. total
  <2>1. PICK e \in Nat : d = t + 1 + e
    BY <1>3
  <2>2. num * d = t * num + num + e * num /\ e * num \in Nat /\ t * num \in Nat
    BY <1>3, <2>1
  <2>3. QED
    BY <1>3, <2>2
<1>5. \A p \in 1 .. total : pool[p].ids \in Seq(Nat) /\ Len(pool[p].ids) = M
  BY <1>2, <1>3 DEF IdsInv, PoolIds
<1>6. /\ F \in Seq(Seq(Nat)) /\ Len(F) = num
      /\ \A p \in 1 .. num : F[p] = pool[t * num + p].ids /\ Len(F[p]) = M
  <2>1. \A p \in 1 .. num :
          pool[t * num + p].ids \in Seq(Nat) /\ Len(pool[t * num + p].ids) = M
    BY <1>4, <1>5
  <2>2. /\ DOMAIN F = 1 .. num /\ F = [p \in 1 .. num |-> F[p]]
        /\ \A p \in 1 .. num : F[p] = pool[t * num + p].ids
    OBVIOUS
  <2> HIDE DEF F
  <2>3. F \in Seq(Range(F)) /\ Len(F) = num
    BY <2>2, SeqOfFunction
  <2>4. Range(F) \subseteq Seq(Nat)
    BY ONLY <2>1, <2>2 DEF Range
  <2>5. F \in Seq(Seq(Nat))
    BY <2>3, <2>4
  <2>6. QED
    BY <2>1, <2>2, <2>3, <2>5
<1>7. Layout(t, ts).ids = <<FlattenSeq(F)>>
  <2>1. DOMAIN ts = 1 .. num
    OBVIOUS
  <2>2. [p \in DOMAIN ts |-> ts[p].ids] = F
    OBVIOUS
  <2>3. QED
    BY <2>2 DEF Layout
<1>8. /\ t = 0 => acc' = Layout(t, ts)
      /\ t # 0 =>
           acc'.ids = [p \in DOMAIN acc.ids |-> acc.ids[p] \o Layout(t, ts).ids[p]]
  <2>1. PICK y : y = Layout(t, ts)
    OBVIOUS
  <2>2. y = Layout(turn, [i \in 1 .. T_num |-> pool[turn * T_num + i]])
    BY <1>3, <2>1
  <2>3. IF turn = 0 THEN acc' = y /\ UNCHANGED <<spent, found>>
        ELSE Round(y, LayerVoles)
    BY <2>2 DEF Layer
  <2>4. ASSUME turn # 0
        PROVE  acc'.ids = [p \in DOMAIN acc.ids |-> acc.ids[p] \o y.ids[p]]
    <3>1. Round(y, LayerVoles)
      BY <2>3, <2>4
    <3>2. QED
      BY ONLY <3>1 DEF Round
  <2>5. turn = 0 => acc' = y
    BY <2>3
  <2>6. QED
    BY <1>3, <2>1, <2>4, <2>5
<1> HIDE DEF F, ts
<1>9. FlattensTo(F, M)
  BY <1>6, FlattenUniform
<1>10. PICK f \in Seq(Nat) :
         /\ f = FlattenSeq(F) /\ Len(f) = num * M /\ Range(f) = AllOf(F, num)
  BY <1>6, <1>9 DEF FlattensTo
<1>11. PICK ids \in Seq(Nat) :
         /\ acc'.ids = <<ids>> /\ Len(ids) = (t + 1) * num * M
         /\ Range(ids) = AllIds(pool, t * num) \cup Range(f)
  <2>1. CASE t = 0
    <3>1. acc'.ids = <<f>>
      BY <1>7, <1>8, <1>10, <2>1
    <3>2. Len(f) = (t + 1) * num * M
      BY <1>10, <2>1
    <3>3. AllIds(pool, t * num) = {}
      BY <2>1 DEF AllIds
    <3>4. QED
      BY <3>1, <3>2, <3>3
  <2>2. CASE t # 0
    <3>1. LayerIds(turn)
      BY <1>1, <1>3, <2>2 DEF IdsInv
    <3>2. PICK old \in Seq(Nat) :
            /\ acc.ids = <<old>> /\ Len(old) = t * num * M
            /\ Range(old) = AllIds(pool, t * num)
      BY <1>3, <3>1 DEF LayerIds
    <3>3. acc'.ids = <<old \o f>>
      <4>1. acc'.ids = [p \in DOMAIN <<old>> |-> <<old>>[p] \o <<f>>[p]]
        BY <1>7, <1>8, <1>10, <2>2, <3>2
      <4>2. [p \in DOMAIN <<old>> |-> <<old>>[p] \o <<f>>[p]] = <<old \o f>>
        OBVIOUS
      <4>3. QED
        BY <4>1, <4>2
    <3>4. /\ old \o f \in Seq(Nat) /\ Len(old \o f) = Len(old) + Len(f)
          /\ Range(old \o f) = Range(old) \cup Range(f)
      BY ConcatFacts, ConcatInjective
    <3>5. Len(old \o f) = (t + 1) * num * M
      <4>1. (t + 1) * num * M = t * num * M + num * M
        BY <1>3
      <4>2. QED
        BY <1>10, <3>2, <3>4, <4>1
    <3>6. QED
      BY <3>2, <3>3, <3>4, <3>5
  <2>3. QED
    BY <2>1, <2>2
<1>12. AllIds(pool, t * num) \cup AllOf(F, num) = AllIds(pool, (t + 1) * num)
  <2>1. PICK a \in Nat : a = t * num /\ (t + 1) * num = a + num
    BY <1>3
  <2>2. \A p \in 1 .. a + num : p \in 1 .. a \/ \E i \in 1 .. num : p = a + i
    <3>1. ASSUME NEW p \in 1 .. a + num, ~(p \in 1 .. a)
          PROVE  p - a \in 1 .. num /\ p = a + (p - a)
      BY <3>1
    <3>2. QED
      BY <3>1
  <2>3. \A p \in 1 .. num : a + p \in 1 .. a + num
    OBVIOUS
  <2>4. \A p \in 1 .. a : p \in 1 .. a + num
    OBVIOUS
  <2>5. PICK G : G = F
    OBVIOUS
  <2>6. \A p \in 1 .. num : G[p] = pool[a + p].ids
    BY <1>6, <2>1, <2>5
  <2>7. AllIds(pool, a) \cup AllOf(G, num) = AllIds(pool, a + num)
    <3>1. PICK R : R = [p \in 1 .. a + num |-> Range(pool[p].ids)]
      OBVIOUS
    <3>2. AllIds(pool, a + num) = UNION {R[p] : p \in 1 .. a + num}
      BY <3>1 DEF AllIds
    <3>3. AllIds(pool, a) = UNION {R[p] : p \in 1 .. a}
      BY <2>4, <3>1 DEF AllIds
    <3>4. AllOf(G, num) = UNION {R[a + p] : p \in 1 .. num}
      BY <2>3, <2>6, <3>1 DEF AllOf
    <3>5. ASSUME NEW x \in AllIds(pool, a + num)
          PROVE  x \in AllIds(pool, a) \/ x \in AllOf(G, num)
      <4>1. PICK p \in 1 .. a + num : x \in R[p]
        BY <3>2
      <4>2. CASE p \in 1 .. a
        BY <3>3, <4>1, <4>2
      <4>3. CASE \E i \in 1 .. num : p = a + i
        BY <3>4, <4>1, <4>3
      <4>4. QED
        BY <2>2, <4>2, <4>3
    <3>6. ASSUME NEW x \in AllIds(pool, a)
          PROVE  x \in AllIds(pool, a + num)
      BY <2>4, <3>2, <3>3
    <3>7. ASSUME NEW x \in AllOf(G, num)
          PROVE  x \in AllIds(pool, a + num)
      BY <2>3, <3>2, <3>4
    <3>8. QED
      BY ONLY <3>5, <3>6, <3>7
  <2>8. QED
    BY <2>1, <2>5, <2>7
<1>13. Len(ids) = (t + 1) * num * M /\ Range(ids) = AllIds(pool, (t + 1) * num)
  BY <1>10, <1>11, <1>12
<1>14. LayerIds(turn)'
  <2>1. turn' = t + 1 /\ T_num' = num /\ pool' = pool
    BY <1>1, <1>3, SameJob
  <2>2. QED
    BY <1>3, <1>11, <1>13, <2>1 DEF LayerIds
<1>15. EachTranslationOnce'
  <2>1. SUFFICES ASSUME stage' = "done"
                 PROVE  /\ Len(ids) = total * M
                        /\ Range(ids) = 1 .. total * M
    <3>1. acc'.ids[1] = ids /\ total' = total
      BY <1>1, <1>11, SameJob
    <3>2. QED
      BY <1>3, <3>1 DEF EachTranslationOnce, Finished, Range
  <2>2. t + 1 = d
    BY <1>1, <1>3, <2>1 DEF Layer
  <2>3. (t + 1) * num = total /\ (t + 1) * num * M = total * M /\ M * total = total * M
    BY <1>3, <2>2
  <2>4. AllIds(pool, total) = 1 .. M * total
    BY <1>2, <1>3 DEF IdsInv, PoolIds
  <2>5. QED
    BY <1>13, <2>3, <2>4
<1>16. QED
  BY <1>1, <1>14, <1>15 DEF IdsInv, PoolIds, AllIds

\* The other steps.
LEMMA IdsOther ==
  ASSUME Shape, IdsInv, ShuffleSet \/ UNCHANGED vars
  PROVE  IdsInv'
<1>1. CASE UNCHANGED vars
  BY <1>1, SameJob DEF vars, IdsInv, PoolIds, AllIds, Batch, BatchIds, LayerIds,
     EachTranslationOnce, Finished
<1>2. CASE ShuffleSet
  <2>1. /\ job' = job /\ pool' = pool /\ job.name = "ShuffleSet"
        /\ stage' \in {"done", "stopped"}
    BY <1>2 DEF ShuffleSet, Stop
  <2>2. QED
    BY <2>1 DEF IdsInv, PoolIds, AllIds, EachTranslationOnce, Finished
<1>3. QED
  BY <1>1, <1>2

\* Every step.
LEMMA IdsNext ==
  ASSUME Permutes
  PROVE  Shape /\ IdsInv /\ [Next]_vars => (Shape /\ IdsInv)'
<1> SUFFICES ASSUME Shape, IdsInv, [Next]_vars
             PROVE  (Shape /\ IdsInv)'
  OBVIOUS
<1>1. CASE Generate
  BY <1>1, GenerateShape, IdsGenerate
<1>2. CASE Merge
  BY <1>2, MergeShape, IdsMerge
<1>3. CASE EndMerge
  BY <1>3, EndMergeShape, IdsEndMerge
<1>4. CASE Layer
  BY <1>4, LayerShape, IdsLayer
<1>5. CASE ShuffleSet \/ UNCHANGED vars
  BY <1>5, OtherShape, IdsOther
<1>6. QED
  BY <1>1, <1>2, <1>3, <1>4, <1>5 DEF Next

\* When GenPerm makes permutations, every translation a call makes goes into its
\* result once, for all sizes of calls, blocks and batches: through the common
\* shuffle, the rounds of the merges and the layers (BatchASTSet, ASTSet_2k).
THEOREM TranslationsOnce == Permutes => (Spec => []EachTranslationOnce)
<1> SUFFICES ASSUME Permutes
             PROVE  Spec => []EachTranslationOnce
  OBVIOUS
<1>1. Init => Shape /\ IdsInv
  BY ShapeStart, IdsStart
<1>2. Shape /\ IdsInv /\ [Next]_vars => (Shape /\ IdsInv)'
  BY IdsNext
<1>3. IdsInv => EachTranslationOnce
  BY DEF IdsInv
<1>4. QED
  BY <1>1, <1>2, <1>3, PTL DEF Spec

-----------------------------------------------------------------------------
\* The differences of a shuffle fit.

\* Draw: an element of the field for every index.
Draws == \A x \in Seq(Nat) : Draw(x) \in 0 .. Q - 1

PairSum(pairs, c) == MapThenSumSet(LAMBDA i : pairs[i][c], DOMAIN pairs)
BitSum(bits, S) == MapThenSumSet(LAMBDA i : bits[i], S)

\* Weights that differ at one place.
LEMMA SumsDiffer ==
  ASSUME NEW S, IsFiniteSet(S), NEW v \in [S -> Nat], NEW w \in [S -> Nat],
         NEW g, NEW h, IsSum(g, v, S), IsSum(h, w, S),
         NEW k \in S, \A x \in S : x # k => v[x] = w[x]
  PROVE  \E m \in Nat : g[S] = v[k] + m /\ h[S] = w[k] + m
<1> DEFINE T == S \ {k}
<1>1. /\ S \in SUBSET S /\ T \in SUBSET S /\ IsFiniteSet(T)
      /\ \A x \in T : v[x] = w[x]
  BY FS_Subset
<1>2. g[S] = v[k] + g[T] /\ g[T] \in Nat
  <2>1. \A U \in SUBSET S : g[U] \in Nat /\ \A x \in U : g[U] = v[x] + g[U \ {x}]
    BY SumElement
  <2>2. QED
    BY <1>1, <2>1
<1>3. h[S] = w[k] + h[T]
  <2>1. \A U \in SUBSET S : h[U] \in Nat /\ \A x \in U : h[U] = w[x] + h[U \ {x}]
    BY SumElement
  <2>2. QED
    BY <1>1, <2>1
<1> HIDE DEF T
<1>4. g[T] = h[T]
  BY <1>1, SumSame
<1>5. QED
  BY <1>2, <1>3, <1>4

\* What MapThenSumSet makes of bits, and of one column of pairs.
LEMMA BitSumIs ==
  ASSUME NEW S, IsFiniteSet(S), NEW w \in [S -> Nat]
  PROVE  \E g : IsSum(g, w, S) /\ BitSum(w, S) = g[S]
<1>1. \E g : IsSum(g, w, S)
  BY SumExists
<1>2. BitSum(w, S) = (CHOOSE g : IsSum(g, w, S))[S]
  BY DEF BitSum, MapThenSumSet, MapThenFoldSet, IsSum
<1>3. IsSum(CHOOSE g : IsSum(g, w, S), w, S)
  BY <1>1
<1>4. QED
  BY <1>2, <1>3

PairsOver(S, v, c) == DOMAIN v = S /\ \A i \in S : v[i][c] \in Nat
SumsTo(S, v, c) == \E g : IsSum(g, [i \in S |-> v[i][c]], S) /\ PairSum(v, c) = g[S]

LEMMA PairSumIs ==
  ASSUME NEW S, IsFiniteSet(S), NEW v, NEW c, PairsOver(S, v, c)
  PROVE  SumsTo(S, v, c)
<1> DEFINE w == [i \in S |-> v[i][c]]
           IsIt(g) == g = [T \in SUBSET S |->
             IF T = {} THEN 0
             ELSE LET x == CHOOSE x \in T : TRUE IN v[x][c] + g[T \ {x}]]
<1>1. \A h : IsIt(h) <=> IsSum(h, w, S)
  <2> SUFFICES ASSUME NEW h
               PROVE  IsIt(h) <=> IsSum(h, w, S)
    OBVIOUS
  <2>1. \A T \in SUBSET S : T # {} => (CHOOSE x \in T : TRUE) \in S
    OBVIOUS
  <2> DEFINE a == [T \in SUBSET S |->
               IF T = {} THEN 0
               ELSE LET x == CHOOSE x \in T : TRUE IN v[x][c] + h[T \ {x}]]
             b == [T \in SUBSET S |->
               IF T = {} THEN 0
               ELSE LET x == CHOOSE x \in T : TRUE IN w[x] + h[T \ {x}]]
  <2>2. a = b
    BY <2>1
  <2>3. IsIt(h) <=> h = a
    OBVIOUS
  <2>4. IsSum(h, w, S) <=> h = b
    BY DEF IsSum
  <2> HIDE DEF a, b, IsIt, w
  <2>5. QED
    BY <2>2, <2>3, <2>4
<1>2. w \in [S -> Nat] /\ DOMAIN v = S
  BY DEF PairsOver
<1> DEFINE chosen == CHOOSE h : IsIt(h)
<1>3. PairSum(v, c) = chosen[S]
  BY <1>2 DEF PairSum, MapThenSumSet, MapThenFoldSet
<1> HIDE DEF IsIt
<1>4. IsIt(chosen)
  BY <1>1, <1>2, SumExists
<1>5. QED
  BY <1>1, <1>3, <1>4 DEF SumsTo

\* Sums of pairs, and of bits, that differ at one place.
LEMMA PairSumsDiffer ==
  ASSUME NEW S, IsFiniteSet(S), NEW v, NEW w, NEW c,
         PairsOver(S, v, c), PairsOver(S, w, c),
         NEW k \in S, \A i \in S : i # k => v[i][c] = w[i][c]
  PROVE  \E m \in Nat : PairSum(v, c) = v[k][c] + m /\ PairSum(w, c) = w[k][c] + m
<1>1. PICK cv, cw : cv = [i \in S |-> v[i][c]] /\ cw = [i \in S |-> w[i][c]]
  OBVIOUS
<1>2. PICK g : IsSum(g, cv, S) /\ PairSum(v, c) = g[S]
  <2>1. SumsTo(S, v, c)
    BY PairSumIs
  <2>2. QED
    BY <1>1, <2>1 DEF SumsTo
<1>3. PICK h : IsSum(h, cw, S) /\ PairSum(w, c) = h[S]
  <2>1. SumsTo(S, w, c)
    BY PairSumIs
  <2>2. QED
    BY <1>1, <2>1 DEF SumsTo
<1>4. /\ cv \in [S -> Nat] /\ cw \in [S -> Nat]
      /\ \A i \in S : i # k => cv[i] = cw[i]
  BY <1>1 DEF PairsOver
<1>5. PICK m \in Nat : g[S] = cv[k] + m /\ h[S] = cw[k] + m
  BY <1>2, <1>3, <1>4, SumsDiffer
<1>6. QED
  BY <1>1, <1>2, <1>3, <1>5

LEMMA BitSumsDiffer ==
  ASSUME NEW S, IsFiniteSet(S), NEW v \in [S -> Nat], NEW w \in [S -> Nat],
         NEW k \in S, \A i \in S : i # k => v[i] = w[i]
  PROVE  \E m \in Nat : BitSum(v, S) = v[k] + m /\ BitSum(w, S) = w[k] + m
<1>1. PICK g : IsSum(g, v, S) /\ BitSum(v, S) = g[S]
  BY BitSumIs
<1>2. PICK h : IsSum(h, w, S) /\ BitSum(w, S) = h[S]
  BY BitSumIs
<1>3. QED
  BY <1>1, <1>2, SumsDiffer

-----------------------------------------------------------------------------
\* The trees of a shuffle.

I == 0 .. job.T - 1
ShuffleOK == Permutes /\ Draws /\ JobOK /\ job.seed \in Nat

LEMMA PermValues ==
  ASSUME Permutes, JobOK, job.seed \in Nat, NEW f \in Nat
  PROVE  /\ job.T \in Nat \ {0} /\ IsFiniteSet(I)
         /\ Perm(f) \in [I -> I]
         /\ \A x, y \in I : Perm(f)[x] = Perm(f)[y] => x = y
         /\ \A y \in I : \E x \in I : Perm(f)[x] = y
<1>1. job.T \in Nat \ {0}
  BY Sizes
<1>2. PICK T \in Nat, s \in Nat : T = job.T /\ s = job.seed + f
  BY <1>1
<1>3. PICK p : p = GenPerm(T, s) /\ p \in [I -> I] /\ Range(p) = I
  BY <1>2 DEF Permutes, I
<1>4. IsFiniteSet(I)
  BY <1>1, FS_Interval DEF I
<1>5. p \in Surjection(I, I)
  BY <1>3 DEF Surjection, Range
<1>6. p \in Injection(I, I)
  BY <1>4, <1>5, FS_SurjSameCardinalityImpliesInj
<1>7. p = Perm(f)
  BY <1>2, <1>3 DEF Perm
<1>8. QED
  BY <1>1, <1>3, <1>4, <1>5, <1>6, <1>7 DEF Injection, IsInjective, Surjection

LEMMA PermFacts ==
  ASSUME ShuffleOK, NEW f \in Nat
  PROVE  /\ job.T \in Nat \ {0} /\ IsFiniteSet(I)
         /\ Perm(f) \in [I -> I]
         /\ \A x, y \in I : Perm(f)[x] = Perm(f)[y] => x = y
BY PermValues DEF ShuffleOK

\* A leaf is two elements of the field, and a bit of it 0 or 1.
LEMMA LeafFacts ==
  ASSUME ShuffleOK, NEW f \in Nat, NEW i \in I, NEW j \in I, NEW c \in 0 .. 2
  PROVE  /\ \A k \in 1 .. 2 : Leaf(f, c, i, j)[k] \in 0 .. Q - 1
         /\ GetBit(f, i, j) \in 0 .. 1 /\ SetBit(f, i, j) \in 0 .. 1
<1>1. PICK one \in Nat, two \in Nat, nul \in Nat, a \in Nat, b \in Nat, d \in Nat :
        one = 1 /\ two = 2 /\ nul = 0 /\ a = i /\ b = j /\ d = c
  BY PermFacts DEF I
<1>2. \A x \in {nul, d}, y \in {one, two} : <<f, x, a, b, y>> \in Seq(Nat)
  OBVIOUS
<1>3. \A x \in {nul, d}, y \in {one, two} : Draw(<<f, x, a, b, y>>) \in 0 .. Q - 1
  BY <1>2 DEF ShuffleOK, Draws
<1>4. \A x \in {0, c} : /\ Leaf(f, x, i, j)[1] \in 0 .. Q - 1
                        /\ Leaf(f, x, i, j)[2] \in 0 .. Q - 1
  BY <1>1, <1>3 DEF Leaf
<1>5. GetBit(f, i, j) \in 0 .. 1
  <2>1. PICK v \in Int : v = Leaf(f, 0, i, j)[1]
    BY <1>4, TranslationsAssumption
  <2>2. v % 2 \in 0 .. 1
    OBVIOUS
  <2>3. QED
    BY <2>1, <2>2 DEF GetBit
<1>6. Draw(<<f, i>>) % 2 \in 0 .. 1
  <2>1. <<f, a>> \in Seq(Nat)
    OBVIOUS
  <2>2. PICK v \in Int : v = Draw(<<f, i>>)
    <3>1. Draw(<<f, a>>) \in 0 .. Q - 1
      BY <2>1 DEF ShuffleOK, Draws
    <3>2. Draw(<<f, i>>) \in Int
      BY <1>1, <3>1, TranslationsAssumption
    <3>3. QED
      BY <3>2
  <2>3. v % 2 \in 0 .. 1
    OBVIOUS
  <2>4. QED
    BY <2>2, <2>3
<1>7. SetBit(f, i, j) \in 0 .. 1
  BY <1>5, <1>6 DEF SetBit
<1>8. \A k \in 1 .. 2 : k = 1 \/ k = 2
  OBVIOUS
<1>9. QED
  BY <1>4, <1>5, <1>7, <1>8

\* The check over the bits, by rows and columns.
SetRow(f, i) == [j \in I |-> SetBit(f, i, j)]
GetRow(f, i) == [j \in I |-> GetBit(f, i, j)]
SetColumn(f, j) == [i \in I |-> SetBit(f, i, j)]
GetColumn(f, j) == [i \in I |-> GetBit(f, i, j)]
Checked(row, column, column1, row1) ==
  ((row % 2) + (((column % 2) + (column1 % 2)) % 2)) % 2 = row1 % 2

CheckedAt(f, i, p) ==
  Checked(BitSum(SetRow(f, i), I), BitSum(SetColumn(f, p), I),
          BitSum(GetColumn(f, p), I), BitSum(GetRow(f, i), I))

LEMMA ConsistentIs ==
  ASSUME ShuffleOK, NEW f \in Nat
  PROVE  Consistent(f) <=> \A i \in I : CheckedAt(f, i, Perm(f)[i])
<1>1. \A i \in I : Perm(f)[i] \in I
  BY PermFacts
<1>2. Consistent(f) <=> \A x \in I :
        ((BitSum(SetRow(f, x), I) % 2)
          + [j \in I |-> ((BitSum(SetColumn(f, j), I) % 2)
                          + (BitSum(GetColumn(f, j), I) % 2)) % 2][Perm(f)[x]]) % 2
        = BitSum(GetRow(f, x), I) % 2
  BY DEF Consistent, I, BitSum, SetRow, GetRow, SetColumn, GetColumn
<1>3. QED
  BY <1>1, <1>2 DEF Checked, CheckedAt

\* Parities.
LEMMA Parity ==
  ASSUME NEW s \in 0 .. 1, NEW g \in 0 .. 1, NEW d \in 0 .. 1,
         NEW m \in Int, NEW e \in Nat
  PROVE  ~Checked(s + ((1 - d) + m), s + e, g + e, g + (d + m))
<1>1. \A x \in Int : x % 2 \in 0 .. 1 /\ \E q \in Int : x = 2 * q + (x % 2)
  BY DivFacts
<1>2. PICK r1, r2, r3, r4 \in 0 .. 1 :
        /\ r1 = (s + ((1 - d) + m)) % 2 /\ r2 = (s + e) % 2
        /\ r3 = (g + e) % 2 /\ r4 = (g + (d + m)) % 2
  BY <1>1
<1>3. PICK q1, q2, q3, q4 \in Int :
        /\ s + ((1 - d) + m) = 2 * q1 + r1 /\ s + e = 2 * q2 + r2
        /\ g + e = 2 * q3 + r3 /\ g + (d + m) = 2 * q4 + r4
  <2>1. PICK x1, x2, x3, x4 \in Int :
          /\ x1 = s + ((1 - d) + m) /\ x2 = s + e /\ x3 = g + e /\ x4 = g + (d + m)
    OBVIOUS
  <2>2. /\ \E q \in Int : x1 = 2 * q + (x1 % 2)
        /\ \E q \in Int : x2 = 2 * q + (x2 % 2)
        /\ \E q \in Int : x3 = 2 * q + (x3 % 2)
        /\ \E q \in Int : x4 = 2 * q + (x4 % 2)
    BY <1>1
  <2>3. QED
    BY <1>2, <2>1, <2>2
<1>4. PICK r5 \in 0 .. 1, q5 \in Int : r5 = (r2 + r3) % 2 /\ r2 + r3 = 2 * q5 + r5
  BY <1>1
<1>5. PICK r6 \in 0 .. 1, q6 \in Int : r6 = (r1 + r5) % 2 /\ r1 + r5 = 2 * q6 + r6
  BY <1>1
<1>6. r6 # r4
  BY <1>3, <1>4, <1>5
<1>7. QED
  BY <1>2, <1>4, <1>5, <1>6 DEF Checked

\* Behind the check no leaf is wrong but the one set does not know.
LEMMA NoWrongLeaf ==
  ASSUME ShuffleOK, NEW f \in Nat, Consistent(f),
         NEW i \in I, NEW p, p = Perm(f)[i], NEW j \in I, j # p
  PROVE  ~WrongLeaf(f, i, j)
<1> SUFFICES ASSUME WrongLeaf(f, i, j)
             PROVE  FALSE
  OBVIOUS
<1>1. /\ IsFiniteSet(I) /\ p \in I /\ \A x \in I : x # i => Perm(f)[x] # p
  BY PermFacts
<1>2. \A x, y \in I : WrongLeaf(f, x, y) => x = i /\ y = j
  BY DEF WrongLeaf, Wrong
<1>3. \A x, y \in I : /\ SetBit(f, x, y) \in Nat /\ GetBit(f, x, y) \in Nat
                      /\ SetBit(f, x, y) \in 0 .. 1 /\ GetBit(f, x, y) \in 0 .. 1
  <2>1. 0 \in {0, 1} /\ 0 .. 1 \subseteq Nat
    OBVIOUS
  <2>2. QED
    BY <2>1, LeafFacts
<1>4. PICK e \in Nat : /\ BitSum(SetColumn(f, p), I) = SetBit(f, i, p) + e
                       /\ BitSum(GetColumn(f, p), I) = GetBit(f, i, p) + e
  <2>1. \A x \in I : x # i => SetBit(f, x, p) = GetBit(f, x, p)
    BY <1>1, <1>2 DEF SetBit
  <2>2. PICK v, w : v = SetColumn(f, p) /\ w = GetColumn(f, p)
    OBVIOUS
  <2>3. /\ v \in [I -> Nat] /\ w \in [I -> Nat] /\ \A x \in I : x # i => v[x] = w[x]
        /\ v[i] = SetBit(f, i, p) /\ w[i] = GetBit(f, i, p)
    BY <1>1, <1>3, <2>1, <2>2 DEF SetColumn, GetColumn
  <2>4. \E e \in Nat : BitSum(v, I) = v[i] + e /\ BitSum(w, I) = w[i] + e
    BY <1>1, <2>3, BitSumsDiffer
  <2>5. QED
    BY <2>2, <2>3, <2>4
<1>5. PICK v, w, mid : /\ v = SetRow(f, i) /\ w = GetRow(f, i)
                       /\ mid = [y \in I |-> IF y = p THEN SetBit(f, i, p)
                                             ELSE GetBit(f, i, y)]
  OBVIOUS
<1>6. SetBit(f, i, j) = 1 - GetBit(f, i, j)
  BY DEF SetBit
<1>7. \A y \in I : y # p /\ y # j => SetBit(f, i, y) = GetBit(f, i, y)
  BY <1>2 DEF SetBit
<1>8. /\ v \in [I -> Nat] /\ w \in [I -> Nat] /\ mid \in [I -> Nat]
      /\ \A y \in I : y # j => v[y] = mid[y]
      /\ \A y \in I : y # p => mid[y] = w[y]
      /\ v[j] = SetBit(f, i, j) /\ mid[j] = GetBit(f, i, j)
      /\ mid[p] = SetBit(f, i, p) /\ w[p] = GetBit(f, i, p)
  BY <1>1, <1>3, <1>5, <1>7 DEF SetRow, GetRow
<1>9. PICK a \in Nat : BitSum(v, I) = v[j] + a /\ BitSum(mid, I) = mid[j] + a
  BY <1>1, <1>8, BitSumsDiffer
<1>10. PICK b \in Nat : BitSum(mid, I) = mid[p] + b /\ BitSum(w, I) = w[p] + b
  BY <1>1, <1>8, BitSumsDiffer
<1>11. PICK s \in 0 .. 1, g \in 0 .. 1, d \in 0 .. 1, m \in Int :
         /\ s = SetBit(f, i, p) /\ g = GetBit(f, i, p) /\ d = GetBit(f, i, j)
         /\ b = d + m
  BY <1>1, <1>3
<1>12. BitSum(v, I) = s + ((1 - d) + m) /\ BitSum(w, I) = g + (d + m)
  BY <1>6, <1>8, <1>9, <1>10, <1>11
<1>13. Checked(s + ((1 - d) + m), s + e, g + e, g + (d + m))
  <2>1. CheckedAt(f, i, p)
    BY ConsistentIs
  <2>2. QED
    BY <1>4, <1>5, <1>11, <1>12, <2>1 DEF CheckedAt
<1>14. QED
  BY <1>13, Parity

\* Rests that cancel.
LEMMA RestsCancel ==
  ASSUME NEW n \in Nat \ {0}, NEW a \in Nat, NEW b \in Nat, NEW l \in Nat
  PROVE  (((((a % n) - (b % n)) % n) + ((-((l + a) % n)) % n)) + ((l + b) % n)) % n = 0
<1>1. \A x \in Int : x % n \in Int /\ \E q \in Int : x = n * q + (x % n)
  <2> SUFFICES ASSUME NEW x \in Int
               PROVE  x % n \in Int /\ \E q \in Int : x = n * q + (x % n)
    OBVIOUS
  <2>1. x \div n \in Int /\ x % n \in 0 .. n - 1 /\ x = n * (x \div n) + (x % n)
    BY DivFacts
  <2>2. PICK q \in Int, m \in 0 .. n - 1 : q = x \div n /\ m = x % n
    BY <2>1
  <2>3. m \in Int /\ x = n * q + m
    BY <2>1, <2>2
  <2>4. QED
    BY <2>2, <2>3, Zenon
<1>2. PICK x1, x2, x3, x4 \in Int : x1 = a % n /\ x2 = b % n /\ x3 = (l + a) % n
                                    /\ x4 = (l + b) % n
  <2>1. PICK y, z \in Int : y = l + a /\ z = l + b
    OBVIOUS
  <2>2. a % n \in Int /\ b % n \in Int /\ y % n \in Int /\ z % n \in Int
    BY <1>1
  <2>3. QED
    BY <2>1, <2>2
<1>3. PICK x5, x6 \in Int : x5 = (x1 - x2) % n /\ x6 = (-x3) % n
  <2>1. PICK y, z \in Int : y = x1 - x2 /\ z = -x3
    OBVIOUS
  <2>2. y % n \in Int /\ z % n \in Int
    BY <1>1
  <2>3. QED
    BY <2>1, <2>2
<1>4. PICK q1, q2 \in Int : a = n * q1 + x1 /\ b = n * q2 + x2
  <2>1. a \in Int /\ b \in Int
    OBVIOUS
  <2>2. (\E q \in Int : a = n * q + (a % n)) /\ \E q \in Int : b = n * q + (b % n)
    BY <1>1, <2>1, Zenon
  <2>3. QED
    BY <1>2, <2>2
<1>5. PICK q3, q4 \in Int : l + a = n * q3 + x3 /\ l + b = n * q4 + x4
  <2>1. PICK y, z \in Int : y = l + a /\ z = l + b
    OBVIOUS
  <2>2. (\E q \in Int : y = n * q + (y % n)) /\ \E q \in Int : z = n * q + (z % n)
    BY <1>1
  <2>3. QED
    BY <1>2, <2>1, <2>2
<1>6. PICK q5, q6 \in Int : x1 - x2 = n * q5 + x5 /\ -x3 = n * q6 + x6
  <2>1. PICK y, z \in Int : y = x1 - x2 /\ z = -x3
    OBVIOUS
  <2>2. (\E q \in Int : y = n * q + (y % n)) /\ \E q \in Int : z = n * q + (z % n)
    BY <1>1
  <2>3. QED
    BY <1>3, <2>1, <2>2
<1>7. PICK q \in Int : q = q2 - q1 + q3 - q4 - q5 - q6
  OBVIOUS
<1>8. x5 + x6 + x4 = q * n + 0
  <2>1. q * n = n * q2 - n * q1 + n * q3 - n * q4 - n * q5 - n * q6
    BY <1>7
  <2>2. QED
    BY <1>4, <1>5, <1>6, <2>1
<1>9. (q * n + 0) % n = 0
  BY DivUnique
<1>10. QED
  BY <1>2, <1>3, <1>8, <1>9

\* The leaves that set knows are right.
NoneWrong(f) == \A x, y \in I : y # Perm(f)[x] => ~WrongLeaf(f, x, y)

\* The sums at one place: set lacks the same leaf in both.
SumsLack(f, c, i, p, k, a, b, l) ==
  /\ Sums(SetLeaves(f, c)).a[p][k] = a % Q /\ Sums(SetLeaves(f, c)).b[i][k] = b % Q
  /\ Sums(GetLeaves(f, c)).a[p][k] = (l + a) % Q
  /\ Sums(GetLeaves(f, c)).b[i][k] = (l + b) % Q

LEMMA SumsAt ==
  ASSUME ShuffleOK, NEW f \in Nat, NEW c \in 1 .. 2, NoneWrong(f),
         NEW i \in I, NEW p, p = Perm(f)[i], NEW k \in 1 .. 2
  PROVE  \E a, b, l \in Nat : SumsLack(f, c, i, p, k, a, b, l)
<1>1. /\ IsFiniteSet(I) /\ p \in I /\ \A x \in I : x # i => Perm(f)[x] # p
  BY PermFacts
<1>2. PICK S, G : S = SetLeaves(f, c) /\ G = GetLeaves(f, c)
  OBVIOUS
<1>3. ASSUME NEW x \in I, NEW y \in I
      PROVE  /\ G[x][y][k] \in Nat /\ S[x][y][k] \in Nat
             /\ Perm(f)[x] = y => S[x][y][k] = 0
             /\ Perm(f)[x] # y => S[x][y][k] = G[x][y][k]
  <2>1. G[x][y] = Leaf(f, c, x, y)
    BY <1>2 DEF GetLeaves, I
  <2>2. S[x][y] = IF y = Perm(f)[x] THEN <<0, 0>> ELSE SetLeaf(f, c, x, y)
    BY <1>2 DEF SetLeaves, I
  <2>3. PICK z \in 0 .. Q - 1 : z = Leaf(f, c, x, y)[k]
    <3>1. c \in 0 .. 2
      OBVIOUS
    <3>2. QED
      BY <3>1, LeafFacts
  <2>4. z % Q = z /\ z + 0 = z
    <3>1. Q \in Nat \ {0}
      BY TranslationsAssumption
    <3>2. (0 * Q + z) % Q = z
      BY <3>1, DivUnique
    <3>3. 0 * Q + z = z
      BY <3>1
    <3>4. QED
      BY <3>2, <3>3
  <2>5. ASSUME Perm(f)[x] # y
        PROVE  S[x][y][k] = z
    <3>1. ~WrongLeaf(f, x, y)
      BY <2>5 DEF NoneWrong
    <3>2. SetLeaf(f, c, x, y)[k] = (Leaf(f, c, x, y)[k] + 0) % Q
      BY <3>1 DEF SetLeaf, Bump
    <3>3. QED
      BY <2>2, <2>3, <2>4, <2>5, <3>2
  <2>6. <<0, 0>>[k] = 0
    OBVIOUS
  <2>7. QED
    BY <2>1, <2>2, <2>3, <2>5, <2>6, TranslationsAssumption
<1>4. PICK sc, gc, sr, gr :
        /\ sc = [x \in I |-> S[x][p]] /\ gc = [x \in I |-> G[x][p]]
        /\ sr = [y \in I |-> S[i][y]] /\ gr = [y \in I |-> G[i][y]]
  OBVIOUS
<1>5. /\ PairsOver(I, sc, k) /\ PairsOver(I, gc, k)
      /\ PairsOver(I, sr, k) /\ PairsOver(I, gr, k)
      /\ \A x \in I : x # i => sc[x][k] = gc[x][k]
      /\ \A y \in I : y # p => sr[y][k] = gr[y][k]
      /\ sc[i][k] = 0 /\ sr[p][k] = 0 /\ gc[i][k] = G[i][p][k] /\ gr[p][k] = G[i][p][k]
  BY <1>1, <1>3, <1>4 DEF PairsOver
<1>6. PICK a \in Nat : PairSum(sc, k) = sc[i][k] + a /\ PairSum(gc, k) = gc[i][k] + a
  BY <1>1, <1>5, PairSumsDiffer
<1>7. PICK b \in Nat : PairSum(sr, k) = sr[p][k] + b /\ PairSum(gr, k) = gr[p][k] + b
  BY <1>1, <1>5, PairSumsDiffer
<1>8. PICK l \in Nat : l = G[i][p][k]
  BY <1>1, <1>3
<1>9. /\ PairSum(sc, k) = a /\ PairSum(gc, k) = l + a
      /\ PairSum(sr, k) = b /\ PairSum(gr, k) = l + b
  BY <1>5, <1>6, <1>7, <1>8
<1>10. /\ \A v : Sum(v)[k] = PairSum(v, k) % Q
       /\ Sums(S).a[p] = Sum(sc) /\ Sums(S).b[i] = Sum(sr)
       /\ Sums(G).a[p] = Sum(gc) /\ Sums(G).b[i] = Sum(gr)
  <2>1. \A v : Sum(v)[k] = PairSum(v, k) % Q
    BY DEF Sum, PairSum
  <2>2. Sums(S).a[p] = Sum(sc) /\ Sums(G).a[p] = Sum(gc)
    BY <1>1, <1>4 DEF Sums, I
  <2>3. Sums(S).b[i] = Sum(sr) /\ Sums(G).b[i] = Sum(gr)
    BY <1>1, <1>4 DEF Sums, I
  <2>4. QED
    BY <2>1, <2>2, <2>3
<1>11. /\ Sums(S).a[p][k] = a % Q /\ Sums(S).b[i][k] = b % Q
       /\ Sums(G).a[p][k] = (l + a) % Q /\ Sums(G).b[i][k] = (l + b) % Q
  BY <1>9, <1>10
<1>12. QED
  BY <1>2, <1>11 DEF SumsLack

\* A difference of set and the sums of get, at one place.
LEMMA FitsAt ==
  ASSUME ShuffleOK, Consistent(1),
         NEW i \in I, NEW p, p = Perm(1)[i], NEW k \in 1 .. 2
  PROVE  (ShuffleSend(1)[i][k] + ShuffleRecv(1).a[p][k] + ShuffleRecv(1).b[i][k]) % Q = 0
<1>1. PICK f \in Nat, c \in 1 .. 2 : f = 1 /\ c = 1
  OBVIOUS
<1>2. NoneWrong(f)
  BY <1>1, NoWrongLeaf DEF NoneWrong
<1>3. p \in I
  BY <1>1, PermFacts
<1>4. PICK a, b, l \in Nat : SumsLack(f, c, i, p, k, a, b, l)
  BY <1>1, <1>2, SumsAt
<1>5. DOMAIN Sums(SetLeaves(1, 1)).a = I /\ DOMAIN Sums(GetLeaves(1, 1)).a = I
  BY DEF Sums, I
<1>6. ShuffleSend(1)[i][k] = ((a % Q) - (b % Q)) % Q
  BY <1>1, <1>4, <1>5 DEF ShuffleSend, SumsLack
<1>7. /\ ShuffleRecv(1).a[p][k] = (-((l + a) % Q)) % Q
      /\ ShuffleRecv(1).b[i][k] = (l + b) % Q
  BY <1>1, <1>3, <1>4, <1>5 DEF ShuffleRecv, SumsLack
<1>8. PICK n \in Nat \ {0} : n = Q
  BY TranslationsAssumption
<1>9. (((((a % n) - (b % n)) % n) + ((-((l + a) % n)) % n)) + ((l + b) % n)) % n = 0
  BY RestsCancel
<1>10. QED
  BY ONLY <1>6, <1>7, <1>8, <1>9

\* A shuffle has one step.
FitInv ==
  /\ JobOK /\ job.seed \in Nat
  /\ job.name = "ShuffleSet" => stage \in {"generate", "done", "stopped"}
  /\ DeltasFit

LEMMA FitNext ==
  ASSUME Permutes, Draws
  PROVE  FitInv /\ [Next]_vars => FitInv'
<1> SUFFICES ASSUME FitInv, [Next]_vars
             PROVE  FitInv'
  OBVIOUS
<1>1. ShuffleOK
  BY DEF ShuffleOK, FitInv
<1>2. CASE ShuffleSet
  <2>1. /\ job' = job /\ JobOK'
        /\ stage' = "stopped" \/ stage' = "done"
    BY <1>2, SameJob DEF ShuffleSet, Stop, FitInv
  <2>2. ASSUME stage' = "done"
        PROVE  DeltasFit'
    <3>1. /\ Consistent(1)
          /\ acc' = [perm |-> Perm(1), delta |-> ShuffleSend(1),
                     a |-> ShuffleRecv(1).a, b |-> ShuffleRecv(1).b]
      BY <1>2, <2>2 DEF ShuffleSet, Stop
    <3>2. DOMAIN Perm(1) = I
      BY <1>1, PermFacts
    <3>3. \A i \in I, k \in 1 .. 2 :
            (ShuffleSend(1)[i][k] + ShuffleRecv(1).a[Perm(1)[i]][k]
               + ShuffleRecv(1).b[i][k]) % Q = 0
      BY <1>1, <3>1, FitsAt
    <3>4. QED
      BY <3>1, <3>2, <3>3 DEF DeltasFit
  <2>3. QED
    BY <2>1, <2>2 DEF FitInv, DeltasFit
<1>3. CASE Generate \/ Merge \/ EndMerge \/ Layer
  <2>1. job' = job /\ stage \in {"generate", "merge", "layer"}
    BY <1>3 DEF Generate, Stop, Merge, EndMerge, Layer
  <2>2. job.name # "ShuffleSet"
    BY <1>3 DEF Generate, Merge, EndMerge, Layer, FitInv
  <2>3. QED
    BY <2>1, <2>2, SameJob DEF FitInv, DeltasFit
<1>4. CASE UNCHANGED vars
  BY <1>4, SameJob DEF vars, FitInv, DeltasFit
<1>5. QED
  BY <1>2, <1>3, <1>4 DEF Next

\* When GenPerm makes permutations and Draw elements of the field, the
\* differences that set gets fit the vectors of get under set's permutation,
\* for every size and field, whatever is wrong with a row (ShuffleSet, ShuffleGet
\* and the check of BatchASTSend_check).
THEOREM DeltasAlwaysFit == Permutes /\ Draws => (Spec => []DeltasFit)
<1> SUFFICES ASSUME Permutes, Draws
             PROVE  Spec => []DeltasFit
  OBVIOUS
<1>1. Init => FitInv
  <2> SUFFICES ASSUME Init
               PROVE  FitInv
    OBVIOUS
  <2>1. JobOK
    BY ShapeStart DEF Shape
  <2>2. stage = "generate" /\ job.seed \in Nat
    BY TranslationsAssumption DEF Init
  <2>3. QED
    BY <2>1, <2>2 DEF FitInv, DeltasFit
<1>2. FitInv /\ [Next]_vars => FitInv'
  BY FitNext
<1>3. FitInv => DeltasFit
  BY DEF FitInv
<1>4. QED
  BY <1>1, <1>2, <1>3, PTL DEF Spec

-----------------------------------------------------------------------------
\* The field, and shared elements.

Cong(x, y) == \E q \in Int : x = y + Q * q

LEMMA FieldFacts == Q \in Nat \ {0} /\ Key \in Int /\ KeyR \in Int /\ KeyT \in Int
BY TranslationsAssumption

\* A number and its rest are congruent.
LEMMA CongRest ==
  ASSUME NEW x \in Int
  PROVE  x % Q \in 0 .. Q - 1 /\ x % Q \in Int /\ Cong(x % Q, x)
<1>1. PICK n \in Nat \ {0} : n = Q
  BY FieldFacts
<1>2. PICK q \in Int, m \in 0 .. n - 1 : m = x % n /\ x = n * q + m
  <2>1. x \div n \in Int /\ x % n \in 0 .. n - 1 /\ x = n * (x \div n) + (x % n)
    BY DivFacts
  <2>2. QED
    BY <2>1, Zenon
<1>3. PICK o \in Int : o = -q
  OBVIOUS
<1>4. m = x + n * o
  BY <1>2, <1>3
<1>5. Cong(m, x)
  BY <1>1, <1>3, <1>4 DEF Cong
<1>6. QED
  BY <1>1, <1>2, <1>5

LEMMA CongSame ==
  ASSUME NEW x \in Int
  PROVE  Cong(x, x)
<1>1. PICK n \in Nat : n = Q
  BY FieldFacts
<1>2. 0 \in Int /\ x = x + n * 0
  OBVIOUS
<1>3. QED
  BY <1>1, <1>2 DEF Cong

LEMMA CongBack ==
  ASSUME NEW x \in Int, NEW y \in Int, Cong(x, y)
  PROVE  Cong(y, x)
<1>1. PICK n \in Nat : n = Q
  BY FieldFacts
<1>2. PICK q \in Int : x = y + n * q
  BY <1>1 DEF Cong
<1>3. PICK o \in Int : o = -q
  OBVIOUS
<1>4. y = x + n * o
  BY <1>2, <1>3
<1>5. QED
  BY <1>1, <1>3, <1>4 DEF Cong

LEMMA CongChain ==
  ASSUME NEW x \in Int, NEW y \in Int, NEW z \in Int, Cong(x, y), Cong(y, z)
  PROVE  Cong(x, z)
<1>1. PICK n \in Nat : n = Q
  BY FieldFacts
<1>2. PICK q \in Int : x = y + n * q
  BY <1>1 DEF Cong
<1>3. PICK o \in Int : y = z + n * o
  BY <1>1 DEF Cong
<1>4. PICK t \in Int : t = q + o
  OBVIOUS
<1>5. x = z + n * t
  BY <1>2, <1>3, <1>4
<1>6. QED
  BY <1>1, <1>4, <1>5 DEF Cong

LEMMA CongPlus ==
  ASSUME NEW x \in Int, NEW y \in Int, NEW u \in Int, NEW v \in Int,
         Cong(x, y), Cong(u, v)
  PROVE  Cong(x + u, y + v) /\ Cong(x - u, y - v)
<1>1. PICK n \in Nat : n = Q
  BY FieldFacts
<1>2. PICK q \in Int : x = y + n * q
  BY <1>1 DEF Cong
<1>3. PICK o \in Int : u = v + n * o
  BY <1>1 DEF Cong
<1>4. PICK t \in Int, e \in Int : t = q + o /\ e = q - o
  OBVIOUS
<1>5. x + u = (y + v) + n * t /\ x - u = (y - v) + n * e
  BY <1>2, <1>3, <1>4
<1>6. QED
  BY <1>1, <1>4, <1>5 DEF Cong

LEMMA CongTimes ==
  ASSUME NEW x \in Int, NEW y \in Int, NEW k \in Int, Cong(x, y)
  PROVE  Cong(k * x, k * y)
<1>1. PICK n \in Nat : n = Q
  BY FieldFacts
<1>2. PICK q \in Int : x = y + n * q
  BY <1>1 DEF Cong
<1>3. PICK t \in Int : t = k * q
  OBVIOUS
<1>4. k * x = k * y + n * t
  BY <1>2, <1>3
<1>5. QED
  BY <1>1, <1>3, <1>4 DEF Cong

LEMMA CongEqual ==
  ASSUME NEW x \in Int, NEW y \in Int
  PROVE  Cong(x, y) <=> x % Q = y % Q
<1>1. PICK n \in Nat \ {0} : n = Q
  BY FieldFacts
<1>2. PICK q \in Int, m \in 0 .. n - 1 : m = y % n /\ y = n * q + m
  <2>1. y \div n \in Int /\ y % n \in 0 .. n - 1 /\ y = n * (y \div n) + (y % n)
    BY DivFacts
  <2>2. QED
    BY <2>1, Zenon
<1>3. ASSUME Cong(x, y)
      PROVE  x % Q = y % Q
  <2>1. PICK o \in Int : x = y + n * o
    BY <1>1, <1>3 DEF Cong
  <2>2. PICK t \in Int : t = q + o
    OBVIOUS
  <2>3. x = t * n + m
    BY <1>2, <2>1, <2>2
  <2>4. (t * n + m) % n = m
    BY DivUnique
  <2>5. QED
    BY <1>1, <1>2, <2>3, <2>4
<1>4. ASSUME x % Q = y % Q
      PROVE  Cong(x, y)
  <2>1. PICK a \in Int, b \in Int : a = x % Q /\ b = y % Q /\ Cong(a, x) /\ Cong(b, y)
    BY CongRest
  <2>2. Cong(x, a) /\ a = b
    BY <1>4, <2>1, CongBack
  <2>3. QED
    BY <2>1, <2>2, CongChain
<1>5. QED
  BY <1>3, <1>4

\* A shared element, and the sum of its shares.
Element(x) == \A c \in 1 .. 2 : x.set[c] \in Int /\ x.get[c] \in Int
Val(x, c) == x.set[c] + x.get[c]
Vector(v, S) == DOMAIN v = S /\ \A i \in S : Element(v[i])

\* Elements that open to the same, and those with a mac.
Same(x, y) == \A c \in 1 .. 2 : Cong(Val(x, c), Val(y, c))
Mac(x) == Cong(Val(x, 2), Key * Val(x, 1))

LEMMA OpenFacts ==
  ASSUME NEW x, Element(x)
  PROVE  /\ \A c \in 1 .. 2 : /\ Val(x, c) \in Int /\ Open(x)[c] = Val(x, c) % Q
                              /\ Open(x)[c] \in Int /\ Cong(Open(x)[c], Val(x, c))
         /\ MacHolds(x) <=> Mac(x)
         /\ \A y : Element(y) => (Open(x) = Open(y) <=> Same(x, y))
<1>1. \A y : Element(y) => \A c \in 1 .. 2 :
        Val(y, c) \in Int /\ Open(y)[c] = Val(y, c) % Q
  BY DEF Element, Val, Open
<1>2. ASSUME NEW c \in 1 .. 2
      PROVE  /\ Val(x, c) \in Int /\ Open(x)[c] = Val(x, c) % Q
             /\ Open(x)[c] \in Int /\ Cong(Open(x)[c], Val(x, c))
  BY <1>1, CongRest
<1>3. MacHolds(x) <=> Mac(x)
  <2>1. 1 \in 1 .. 2 /\ 2 \in 1 .. 2
    OBVIOUS
  <2>2. PICK a \in Int, b \in Int, o \in Int :
          /\ a = Val(x, 1) /\ b = Val(x, 2) /\ o = Open(x)[1] /\ Cong(o, a)
          /\ Open(x)[2] = b % Q
    BY <1>2, <2>1
  <2>3. PICK ka \in Int, ko \in Int : ka = Key * a /\ ko = Key * o
    BY FieldFacts
  <2>4. Cong(ko, ka)
    BY <2>2, <2>3, CongTimes, FieldFacts
  <2>5. ko % Q = ka % Q
    BY <2>4, CongEqual
  <2>6. Mac(x) <=> b % Q = ka % Q
    BY <2>2, <2>3, CongEqual DEF Mac
  <2>7. QED
    BY <2>2, <2>3, <2>5, <2>6 DEF MacHolds
<1>4. ASSUME NEW y, Element(y)
      PROVE  Open(x) = Open(y) <=> Same(x, y)
  <2>1. \A c \in 1 .. 2 : Open(x)[c] = Open(y)[c] <=> Cong(Val(x, c), Val(y, c))
    BY <1>1, <1>4, CongEqual
  <2>2. /\ Open(x) = [c \in 1 .. 2 |-> Open(x)[c]]
        /\ Open(y) = [c \in 1 .. 2 |-> Open(y)[c]]
    BY DEF Open
  <2>3. Open(x) = Open(y) <=> \A c \in 1 .. 2 : Open(x)[c] = Open(y)[c]
    BY <2>2
  <2>4. QED
    BY <2>1, <2>3 DEF Same
<1>5. QED
  BY <1>2, <1>3, <1>4

LEMMA AddFacts ==
  ASSUME NEW x, NEW y, Element(x), Element(y)
  PROVE  /\ Element(Add(x, y)) /\ Element(Sub(x, y))
         /\ \A c \in 1 .. 2 : /\ Cong(Val(Add(x, y), c), Val(x, c) + Val(y, c))
                              /\ Cong(Val(Sub(x, y), c), Val(x, c) - Val(y, c))
<1>1. ASSUME NEW c \in 1 .. 2, NEW s \in Sides
      PROVE  /\ Add(x, y)[s][c] = (x[s][c] + y[s][c]) % Q
             /\ Sub(x, y)[s][c] = (x[s][c] - y[s][c]) % Q
  BY DEF Add, Sub
<1>2. ASSUME NEW c \in 1 .. 2
      PROVE  /\ Add(x, y).set[c] = (x.set[c] + y.set[c]) % Q
             /\ Add(x, y).get[c] = (x.get[c] + y.get[c]) % Q
             /\ Sub(x, y).set[c] = (x.set[c] - y.set[c]) % Q
             /\ Sub(x, y).get[c] = (x.get[c] - y.get[c]) % Q
  BY <1>1 DEF Sides
<1>3. ASSUME NEW c \in 1 .. 2
      PROVE  /\ Add(x, y).set[c] \in Int /\ Add(x, y).get[c] \in Int
             /\ Sub(x, y).set[c] \in Int /\ Sub(x, y).get[c] \in Int
             /\ Cong(Val(Add(x, y), c), Val(x, c) + Val(y, c))
             /\ Cong(Val(Sub(x, y), c), Val(x, c) - Val(y, c))
  <2>1. PICK a, b, d, e \in Int :
          a = x.set[c] /\ b = y.set[c] /\ d = x.get[c] /\ e = y.get[c]
    BY DEF Element
  <2>2. PICK p, q, t, w \in Int : p = a + b /\ q = d + e /\ t = a - b /\ w = d - e
    OBVIOUS
  <2>3. PICK p1, q1, t1, w1 \in Int :
          /\ p1 = p % Q /\ q1 = q % Q /\ t1 = t % Q /\ w1 = w % Q
          /\ Cong(p1, p) /\ Cong(q1, q) /\ Cong(t1, t) /\ Cong(w1, w)
    BY CongRest
  <2>4. Cong(p1 + q1, p + q) /\ Cong(t1 + w1, t + w)
    BY <2>3, CongPlus
  <2>5. p + q = (a + d) + (b + e) /\ t + w = (a + d) - (b + e)
    BY <2>2
  <2>6. QED
    BY <1>2, <2>1, <2>2, <2>3, <2>4, <2>5 DEF Val
<1>4. QED
  BY <1>3 DEF Element

\* Draws of an index and one number or two.
LEMMA DrawFacts ==
  ASSUME Draws, NEW x \in Seq(Nat), NEW i \in Nat, NEW k \in Nat
  PROVE  /\ Draw(x \o <<i>>) \in Int /\ Draw(x \o <<i, k>>) \in Int
         /\ Draw(x \o <<i>>) \in 0 .. Q - 1
<1>1. <<i>> \in Seq(Nat) /\ <<i, k>> \in Seq(Nat)
  OBVIOUS
<1>2. PICK y, z \in Seq(Nat) : y = <<i>> /\ z = <<i, k>>
  BY <1>1
<1>3. x \o y \in Seq(Nat) /\ x \o z \in Seq(Nat)
  OBVIOUS
<1>4. \A e \in Seq(Nat) : Draw(e) \in 0 .. Q - 1 /\ Draw(e) \in Int
  BY FieldFacts DEF Draws
<1>5. Draw(x \o y) \in 0 .. Q - 1 /\ Draw(x \o y) \in Int /\ Draw(x \o z) \in Int
  BY <1>3, <1>4
<1>6. QED
  BY <1>2, <1>5

\* AuthSet and AuthGet: a value with a mac.
LEMMA AuthFacts ==
  ASSUME Draws, NEW vals, NEW x \in Seq(Nat), NEW i \in Nat, i \in DOMAIN vals,
         vals[i] \in Int
  PROVE  /\ Element(Auth(vals, x)[i])
         /\ Cong(Val(Auth(vals, x)[i], 1), vals[i])
         /\ Cong(Val(Auth(vals, x)[i], 2), Key * vals[i])
<1>1. PICK v, m, kv, e \in Int :
        v = vals[i] /\ m = Draw(x \o <<i>>) /\ kv = Key * v /\ e = kv - m
  <2>1. Draw(x \o <<i>>) \in Int
    BY DrawFacts
  <2>2. PICK kv \in Int : kv = Key * vals[i]
    BY FieldFacts
  <2>3. kv - Draw(x \o <<i>>) \in Int
    BY <2>1
  <2>4. QED
    BY <2>1, <2>2, <2>3
<1>2. PICK r1 \in Int : r1 = e % Q /\ Cong(r1, e)
  BY CongRest
<1>3. Auth(vals, x)[i] = [set |-> <<v, m>>, get |-> <<0, r1>>]
  BY <1>1, <1>2 DEF Auth
<1>4. PICK y : y = Auth(vals, x)[i] /\ y.set = <<v, m>> /\ y.get = <<0, r1>>
  BY <1>3
<1>5. y.set[1] = v /\ y.set[2] = m /\ y.get[1] = 0 /\ y.get[2] = r1
  BY <1>4
<1>6. Element(y) /\ Val(y, 1) = v /\ Val(y, 2) = m + r1
  <2>1. \A c \in 1 .. 2 : c = 1 \/ c = 2
    OBVIOUS
  <2>2. QED
    BY <1>5, <2>1 DEF Element, Val
<1>7. Cong(m + r1, m + e)
  BY <1>2, CongSame, CongPlus
<1>8. m + e = kv
  BY <1>1
<1>9. QED
  BY <1>1, <1>4, <1>6, <1>7, <1>8, CongSame

\* MulHelperSet and MulHelperGet: a multiple.
LEMMA MulFacts ==
  ASSUME Draws, NEW key \in Int, NEW v, NEW vole \in Seq(Nat), NEW first \in Nat,
         NEW i \in Nat, i \in DOMAIN v, Element(v[i])
  PROVE  /\ Element(MulHelper(key, v, vole, first)[i])
         /\ \A k \in 1 .. 2 :
              Cong(Val(MulHelper(key, v, vole, first)[i], k), key * Val(v[i], k))
<1>1. PICK y : y = MulHelper(key, v, vole, first)[i]
  OBVIOUS
<1>2. ASSUME NEW k \in 1 .. 2
      PROVE  /\ y.set[k] \in Int /\ y.get[k] \in Int
             /\ Cong(Val(y, k), key * Val(v[i], k))
  <2>1. PICK n, a0, b0 \in Nat : n = first + i /\ a0 = 2 * k /\ b0 = 2 * k + 1
    OBVIOUS
  <2>2. PICK a, b \in Int : a = Draw(vole \o <<n, a0>>) /\ b = Draw(vole \o <<n, b0>>)
    BY DrawFacts
  <2>3. PICK s, g \in Int : s = v[i].set[k] /\ g = v[i].get[k]
    BY DEF Element
  <2>4. PICK o, e \in Int : o = -b /\ e = key * (s - a + g) + (b + key * a)
    OBVIOUS
  <2>5. y.set[k] = o % Q /\ y.get[k] = e % Q
    BY <1>1, <2>1, <2>2, <2>3, <2>4 DEF MulHelper
  <2>6. PICK o1, e1 \in Int : o1 = o % Q /\ e1 = e % Q /\ Cong(o1, o) /\ Cong(e1, e)
    BY CongRest
  <2>7. Cong(o1 + e1, o + e)
    BY <2>6, CongPlus
  <2>8. o + e = key * (s + g)
    BY <2>4
  <2>9. QED
    BY <2>3, <2>5, <2>6, <2>7, <2>8 DEF Val
<1>3. QED
  BY <1>1, <1>2 DEF Element

\* RandomAuth: a value with its mac.
LEMMA RandomFacts ==
  ASSUME Draws, NEW x \in Seq(Nat)
  PROVE  Element(RandomAuth(x)) /\ Mac(RandomAuth(x))
<1>1. PICK one, two, three \in Nat : one = 1 /\ two = 2 /\ three = 3
  OBVIOUS
<1>2. PICK a, m, v \in Int :
        a = Draw(x \o <<1>>) /\ m = Draw(x \o <<2>>) /\ v = Draw(x \o <<3>>)
  <2>1. Draw(x \o <<one>>) \in Int /\ Draw(x \o <<two>>) \in Int /\ Draw(x \o <<three>>) \in Int
    BY DrawFacts
  <2>2. QED
    BY <1>1, <2>1
<1>3. PICK kv, e \in Int : kv = Key * (a + v) /\ e = kv - m
  <2>1. PICK k \in Int : k = Key
    BY FieldFacts
  <2>2. k * (a + v) \in Int
    OBVIOUS
  <2>3. PICK kv \in Int : kv = Key * (a + v)
    BY <2>1, <2>2
  <2>4. QED
    BY <2>3
<1>4. PICK e1 \in Int : e1 = e % Q /\ Cong(e1, e)
  BY CongRest
<1>5. PICK y : y = RandomAuth(x) /\ y.set = <<a, m>> /\ y.get = <<v, e1>>
  <2>1. <<a, m>>[1] = a /\ <<a, m>>[2] = m
    OBVIOUS
  <2>2. RandomAuth(x) = [set |-> <<a, m>>, get |-> <<v, e1>>]
    BY <1>2, <1>3, <1>4, <2>1 DEF RandomAuth
  <2>3. QED
    BY <2>2
<1>6. y.set[1] = a /\ y.set[2] = m /\ y.get[1] = v /\ y.get[2] = e1
  BY <1>5
<1>7. Element(y) /\ Val(y, 1) = a + v /\ Val(y, 2) = m + e1
  <2>1. \A c \in 1 .. 2 : c = 1 \/ c = 2
    OBVIOUS
  <2>2. QED
    BY <1>6, <2>1 DEF Element, Val
<1>8. Cong(m + e1, m + e)
  BY <1>4, CongSame, CongPlus
<1>9. m + e = kv
  BY <1>3
<1>10. QED
  BY <1>3, <1>5, <1>7, <1>8, <1>9 DEF Mac

\* The shares of a column of a translation, at one place.
SharesAre(a, b, l, rg, rs, sa, sb, ga, gb, d, xs, ys) ==
  /\ sa = a % Q /\ sb = b % Q /\ ga = (l + a) % Q /\ gb = (l + b) % Q
  /\ d = (rg - gb) % Q /\ xs = (d + rs) % Q /\ ys = (xs + sb - sa) % Q

LEMMA ColumnShares ==
  ASSUME NEW a \in Int, NEW b \in Int, NEW l \in Int, NEW rg \in Int, NEW rs \in Int,
         NEW sa \in Int, NEW sb \in Int, NEW ga \in Int, NEW gb \in Int,
         NEW d \in Int, NEW xs \in Int, NEW ys \in Int,
         SharesAre(a, b, l, rg, rs, sa, sb, ga, gb, d, xs, ys)
  PROVE  Cong(xs + gb, rs + rg) /\ Cong(ys + ga, xs + gb)
<1> USE DEF SharesAre
<1>1. PICK n \in Nat : n = Q
  BY FieldFacts
<1>2. \A x \in Int : \E q \in Int : x % Q = x + n * q
  BY <1>1, CongRest DEF Cong
<1>3. PICK q1, q2 \in Int : sa = a + n * q1 /\ sb = b + n * q2
  <2>1. (\E q \in Int : a % Q = a + n * q) /\ \E q \in Int : b % Q = b + n * q
    BY <1>2
  <2>2. QED
    BY <2>1
<1>4. PICK q3, q4 \in Int : ga = l + a + n * q3 /\ gb = l + b + n * q4
  <2>1. PICK y, z \in Int : y = l + a /\ z = l + b
    OBVIOUS
  <2>2. (\E q \in Int : y % Q = y + n * q) /\ \E q \in Int : z % Q = z + n * q
    BY <1>2
  <2>3. QED
    BY <2>1, <2>2
<1>5. PICK q5, q6 \in Int : d = rg - gb + n * q5 /\ xs = d + rs + n * q6
  <2>1. PICK y, z \in Int : y = rg - gb /\ z = d + rs
    OBVIOUS
  <2>2. (\E q \in Int : y % Q = y + n * q) /\ \E q \in Int : z % Q = z + n * q
    BY <1>2
  <2>3. QED
    BY <2>1, <2>2
<1>6. PICK q7 \in Int : ys = xs + sb - sa + n * q7
  <2>1. PICK y \in Int : y = xs + sb - sa
    OBVIOUS
  <2>2. \E q \in Int : y % Q = y + n * q
    BY <1>2
  <2>3. QED
    BY <2>1, <2>2
<1>7. PICK o, e \in Int : o = q5 + q6 /\ e = q2 - q1 + q7 + q3 - q4
  OBVIOUS
<1>8. xs + gb = (rs + rg) + n * o
  BY <1>5, <1>7
<1>9. ys + ga = (xs + gb) + n * e
  <2>1. n * e = n * q2 - n * q1 + n * q7 + n * q3 - n * q4
    BY <1>7
  <2>2. PICK w1, w2, w3, w4, w7, we \in Int :
          /\ w1 = n * q1 /\ w2 = n * q2 /\ w3 = n * q3 /\ w4 = n * q4 /\ w7 = n * q7
          /\ we = n * e
    OBVIOUS
  <2>3. /\ we = w2 - w1 + w7 + w3 - w4 /\ sa = a + w1 /\ sb = b + w2
        /\ ga = l + a + w3 /\ gb = l + b + w4 /\ ys = xs + sb - sa + w7
    BY <1>3, <1>4, <1>6, <2>1, <2>2
  <2>4. ys + ga = (xs + gb) + we
    BY ONLY <2>3, a \in Int, b \in Int, l \in Int, xs \in Int, w1 \in Int, w2 \in Int, w3 \in Int, w4 \in Int, w7 \in Int
  <2>5. QED
    BY <2>2, <2>4
<1>10. QED
  BY <1>1, <1>7, <1>8, <1>9 DEF Cong

-----------------------------------------------------------------------------
\* Translations that are right.

\* A permutation of the indices in S.
PermOn(p, S) ==
  /\ DOMAIN p = S /\ \A i \in S : p[i] \in S
  /\ \A i, j \in S : p[i] = p[j] => i = j
  /\ \A j \in S : \E i \in S : p[i] = j

\* The elements of a have macs, and b opens to the same under the permutation.
Matches(a, b, p, S) ==
  /\ Vector(a, S) /\ Vector(b, S)
  /\ \A i \in S : Mac(a[i]) /\ Same(b[p[i]], a[i])

Good(t, S, columns) ==
  PermOn(t.perm, S) /\ \A c \in columns : Matches(t.a[c], t.b[c], t.perm, S)

LEMMA SameMac ==
  ASSUME NEW x, NEW y, Element(x), Element(y), Same(x, y), Mac(y)
  PROVE  Mac(x) /\ Same(y, x)
<1>1. 1 \in 1 .. 2 /\ 2 \in 1 .. 2 /\ \A c \in 1 .. 2 : c = 1 \/ c = 2
  OBVIOUS
<1>2. PICK x1, x2, y1, y2 \in Int :
        x1 = Val(x, 1) /\ x2 = Val(x, 2) /\ y1 = Val(y, 1) /\ y2 = Val(y, 2)
  BY <1>1 DEF Element, Val
<1>3. Cong(x1, y1) /\ Cong(x2, y2)
  BY <1>1, <1>2 DEF Same
<1>4. Cong(y1, x1) /\ Cong(y2, x2)
  BY <1>3, CongBack
<1>5. PICK kx, ky \in Int : kx = Key * x1 /\ ky = Key * y1
  BY FieldFacts
<1>6. Cong(ky, kx)
  BY <1>4, <1>5, CongTimes, FieldFacts
<1>7. Cong(y2, ky)
  BY <1>2, <1>5 DEF Mac
<1>8. Cong(x2, kx)
  BY <1>3, <1>6, <1>7, CongChain
<1>9. QED
  BY <1>1, <1>2, <1>4, <1>5, <1>8 DEF Mac, Same

\* Every element of b has a mac.
LEMMA MatchesMacs ==
  ASSUME NEW a, NEW b, NEW p, NEW S, PermOn(p, S), Matches(a, b, p, S)
  PROVE  \A j \in S : Mac(b[j]) /\ Element(b[j]) /\ Element(a[j]) /\ Mac(a[j])
<1> SUFFICES ASSUME NEW j \in S
             PROVE  Mac(b[j]) /\ Element(b[j]) /\ Element(a[j]) /\ Mac(a[j])
  OBVIOUS
<1>1. PICK i \in S : p[i] = j
  BY DEF PermOn
<1>2. Element(b[j]) /\ Element(a[i]) /\ Same(b[j], a[i]) /\ Mac(a[i])
  BY <1>1 DEF Matches, Vector
<1>3. QED
  BY <1>2, SameMac DEF Matches, Vector

\* What is right translates.
LEMMA GoodTranslates ==
  ASSUME NEW t, NEW S, Good(t, S, Columns)
  PROVE  Translates(t)
<1> SUFFICES ASSUME NEW c \in Columns, NEW i \in DOMAIN t.perm
             PROVE  /\ Open(t.b[c][t.perm[i]]) = Open(t.a[c][i])
                    /\ MacHolds(t.a[c][i]) /\ MacHolds(t.b[c][t.perm[i]])
  BY DEF Translates
<1>1. PermOn(t.perm, S) /\ Matches(t.a[c], t.b[c], t.perm, S)
  BY DEF Good
<1>2. i \in S /\ t.perm[i] \in S
  BY <1>1 DEF PermOn
<1>3. PICK x, y : x = t.b[c][t.perm[i]] /\ y = t.a[c][i]
  OBVIOUS
<1>4. Element(x) /\ Element(y) /\ Mac(x) /\ Mac(y)
  BY <1>1, <1>2, <1>3, MatchesMacs
<1>5. Same(x, y)
  BY <1>1, <1>2, <1>3 DEF Matches
<1>6. QED
  BY <1>3, <1>4, <1>5, OpenFacts

-----------------------------------------------------------------------------
\* Without a fault.

Honest == ShuffleOK /\ job.fault = NoFault

LEMMA NothingWrong ==
  ASSUME Honest
  PROVE  /\ \A w \in {"row", "correction", "share"} : \A f, i : ~Wrong(w, f, i)
         /\ \A f : NoneWrong(f)
<1>1. \A w \in {"row", "correction", "share"} : \A f, i : ~Wrong(w, f, i)
  BY DEF Honest, NoFault, Wrong
<1>2. QED
  BY <1>1 DEF NoneWrong, WrongLeaf

\* The check over the bits when only the leaf set lacks differs.
LEMMA ParityRight ==
  ASSUME NEW s \in 0 .. 1, NEW g \in 0 .. 1, NEW m \in Nat, NEW e \in Nat
  PROVE  Checked(s + m, s + e, g + e, g + m)
<1>1. \A x \in Int : x % 2 \in 0 .. 1 /\ \E q \in Int : x = 2 * q + (x % 2)
  BY DivFacts
<1>2. PICK r1, r2, r3, r4 \in 0 .. 1 :
        r1 = (s + m) % 2 /\ r2 = (s + e) % 2 /\ r3 = (g + e) % 2 /\ r4 = (g + m) % 2
  BY <1>1
<1>3. PICK q1, q2, q3, q4 \in Int :
        /\ s + m = 2 * q1 + r1 /\ s + e = 2 * q2 + r2
        /\ g + e = 2 * q3 + r3 /\ g + m = 2 * q4 + r4
  <2>1. PICK x1, x2, x3, x4 \in Int : x1 = s + m /\ x2 = s + e /\ x3 = g + e /\ x4 = g + m
    OBVIOUS
  <2>2. /\ \E q \in Int : x1 = 2 * q + (x1 % 2)
        /\ \E q \in Int : x2 = 2 * q + (x2 % 2)
        /\ \E q \in Int : x3 = 2 * q + (x3 % 2)
        /\ \E q \in Int : x4 = 2 * q + (x4 % 2)
    BY <1>1
  <2>3. QED
    BY <1>2, <2>1, <2>2
<1>4. PICK r5 \in 0 .. 1, q5 \in Int : r5 = (r2 + r3) % 2 /\ r2 + r3 = 2 * q5 + r5
  BY <1>1
<1>5. PICK r6 \in 0 .. 1, q6 \in Int : r6 = (r1 + r5) % 2 /\ r1 + r5 = 2 * q6 + r6
  BY <1>1
<1>6. r6 = r4
  BY <1>3, <1>4, <1>5
<1>7. QED
  BY <1>2, <1>4, <1>5, <1>6 DEF Checked

\* No row fails the check.
LEMMA HonestRows ==
  ASSUME Honest, NEW f \in Nat
  PROVE  Consistent(f)
<1>1. ShuffleOK
  BY DEF Honest
<1> SUFFICES ASSUME NEW i \in I
             PROVE  CheckedAt(f, i, Perm(f)[i])
  BY <1>1, ConsistentIs
<1>2. PICK p : p = Perm(f)[i]
  OBVIOUS
<1>3. /\ IsFiniteSet(I) /\ p \in I /\ \A x \in I : x # i => Perm(f)[x] # p
  BY <1>1, <1>2, PermFacts
<1>4. \A x, y \in I : /\ SetBit(f, x, y) \in Nat /\ GetBit(f, x, y) \in Nat
                      /\ SetBit(f, x, y) \in 0 .. 1 /\ GetBit(f, x, y) \in 0 .. 1
                      /\ y # Perm(f)[x] => SetBit(f, x, y) = GetBit(f, x, y)
  <2>1. 0 \in {0, 1} /\ 0 \in 0 .. 2 /\ 0 .. 1 \subseteq Nat
    OBVIOUS
  <2>2. \A x, y \in I : y # Perm(f)[x] => SetBit(f, x, y) = GetBit(f, x, y)
    BY NothingWrong DEF SetBit, NoneWrong
  <2>3. QED
    BY <1>1, <2>1, <2>2, LeafFacts
<1>5. PICK e \in Nat : /\ BitSum(SetColumn(f, p), I) = SetBit(f, i, p) + e
                       /\ BitSum(GetColumn(f, p), I) = GetBit(f, i, p) + e
  <2>1. PICK v, w : v = SetColumn(f, p) /\ w = GetColumn(f, p)
    OBVIOUS
  <2>2. /\ v \in [I -> Nat] /\ w \in [I -> Nat] /\ \A x \in I : x # i => v[x] = w[x]
        /\ v[i] = SetBit(f, i, p) /\ w[i] = GetBit(f, i, p)
    BY <1>3, <1>4, <2>1 DEF SetColumn, GetColumn
  <2>3. \E e \in Nat : BitSum(v, I) = v[i] + e /\ BitSum(w, I) = w[i] + e
    BY <1>3, <2>2, BitSumsDiffer
  <2>4. QED
    BY <2>1, <2>2, <2>3
<1>6. PICK m \in Nat : /\ BitSum(SetRow(f, i), I) = SetBit(f, i, p) + m
                       /\ BitSum(GetRow(f, i), I) = GetBit(f, i, p) + m
  <2>1. PICK v, w : v = SetRow(f, i) /\ w = GetRow(f, i)
    OBVIOUS
  <2>2. /\ v \in [I -> Nat] /\ w \in [I -> Nat] /\ \A y \in I : y # p => v[y] = w[y]
        /\ v[p] = SetBit(f, i, p) /\ w[p] = GetBit(f, i, p)
    BY <1>2, <1>3, <1>4, <2>1 DEF SetRow, GetRow
  <2>3. \E m \in Nat : BitSum(v, I) = v[p] + m /\ BitSum(w, I) = w[p] + m
    BY <1>3, <2>2, BitSumsDiffer
  <2>4. QED
    BY <2>1, <2>2, <2>3
<1>7. PICK s, g \in 0 .. 1 : s = SetBit(f, i, p) /\ g = GetBit(f, i, p)
  BY <1>3, <1>4
<1>8. Checked(s + m, s + e, g + e, g + m)
  BY ParityRight
<1>9. QED
  BY <1>2, <1>5, <1>6, <1>7, <1>8 DEF CheckedAt

\* Nothing is added to what is not wrong.
LEMMA RestPlusNothing ==
  ASSUME NEW x \in Int
  PROVE  ((x % Q) + 0) % Q = x % Q /\ x % Q \in Int
<1>1. PICK n \in Nat \ {0} : n = Q
  BY FieldFacts
<1>2. PICK m \in 0 .. n - 1 : m = x % n
  BY DivFacts
<1>3. (0 * n + m) % n = m
  BY DivUnique
<1>4. 0 * n + m = m + 0
  OBVIOUS
<1>5. QED
  BY <1>1, <1>2, <1>3, <1>4

\* ASTRecv_internal and ASTSend_internal at one place.
ColumnAt(g, s, i, p) ==
  /\ \A k \in 1 .. 2 : /\ g.lhs[i][k] \in Int /\ g.rhs[p][k] \in Int
                       /\ s.lhs[i][k] \in Int /\ s.rhs[p][k] \in Int
                       /\ Cong(s.rhs[p][k] + g.rhs[p][k], s.lhs[i][k] + g.lhs[i][k])
  /\ Cong(s.lhs[i][2] + g.lhs[i][2], Key * (s.lhs[i][1] + g.lhs[i][1]))

LEMMA ColumnIsRight ==
  ASSUME Honest, NEW f \in Nat, NEW c \in 1 .. 2, NEW g, NEW s,
         g = ASTRecv(f, c), s = ASTSend(f, c, g.r_sub_b),
         NEW i \in I, NEW p, p = Perm(f)[i]
  PROVE  ColumnAt(g, s, i, p)
<1>1. ShuffleOK /\ NoneWrong(f)
  BY NothingWrong DEF Honest
<1>2. p \in I /\ \A x \in I : Perm(f)[x] = p => x = i
  BY <1>1, PermFacts
<1>3. PICK x : x = RandomAuth(<<f, c, i>>) /\ x = r(f, c, i) /\ Element(x) /\ Mac(x)
  <2>1. PICK a, b \in Nat : a = c /\ b = i
    BY DEF I
  <2>2. <<f, a, b>> \in Seq(Nat)
    OBVIOUS
  <2>3. Element(RandomAuth(<<f, a, b>>)) /\ Mac(RandomAuth(<<f, a, b>>))
    BY <1>1, <2>2, RandomFacts DEF ShuffleOK
  <2>4. QED
    BY <2>1, <2>3 DEF r
<1>4. PICK S, G : S = Sums(SetLeaves(f, c)) /\ G = Sums(GetLeaves(f, c))
  OBVIOUS
<1>5. DOMAIN S.a = I /\ DOMAIN S.b = I /\ DOMAIN G.a = I /\ DOMAIN G.b = I
  BY <1>4 DEF Sums, I
<1>6. \A j \in I : ~(c = 1 /\ Wrong("correction", f, j)) /\ ~(c = 1 /\ Wrong("share", f, j))
  BY NothingWrong
<1>7. ASSUME NEW k \in 1 .. 2
      PROVE  /\ g.lhs[i][k] \in Int /\ g.rhs[p][k] \in Int
             /\ s.lhs[i][k] \in Int /\ s.rhs[p][k] \in Int
             /\ Cong(s.lhs[i][k] + g.lhs[i][k], x.set[k] + x.get[k])
             /\ Cong(s.rhs[p][k] + g.rhs[p][k], s.lhs[i][k] + g.lhs[i][k])
  <2>1. PICK a, b, l \in Nat : SumsLack(f, c, i, p, k, a, b, l)
    BY <1>1, SumsAt
  <2>2. PICK a1, b1, la, lb \in Int : a1 = a /\ b1 = b /\ la = l + a /\ lb = l + b
    OBVIOUS
  <2>3. PICK sa, sb, ga, gb \in Int :
          sa = a1 % Q /\ sb = b1 % Q /\ ga = la % Q /\ gb = lb % Q
    BY <2>2, RestPlusNothing
  <2>4. S.a[p][k] = sa /\ S.b[i][k] = sb /\ G.a[p][k] = ga /\ G.b[i][k] = gb
    BY <1>4, <2>1, <2>2, <2>3 DEF SumsLack
  <2>5. PICK rs, rg, e \in Int : rs = x.set[k] /\ rg = x.get[k] /\ e = rg - gb
    BY <1>3 DEF Element
  <2>6. PICK d \in Int : d = e % Q /\ (d + 0) % Q = d
    BY RestPlusNothing
  <2>7. PICK xs, z \in Int : xs = (d + rs) % Q /\ z = xs + sb - sa
    <3>1. PICK y \in Int : y = d + rs
      OBVIOUS
    <3>2. PICK xs \in Int : xs = y % Q
      BY RestPlusNothing
    <3>3. QED
      BY <3>1, <3>2
  <2>8. PICK ys \in Int : ys = z % Q
    BY RestPlusNothing
  <2>9. g.lhs[i][k] = gb
    BY <1>4, <2>4 DEF ASTRecv
  <2>10. g.rhs[p][k] = ga
    <3>1. g.rhs[p] = Bump(G.a[p], FALSE)
      BY <1>2, <1>4, <1>5, <1>6 DEF ASTRecv
    <3>2. g.rhs[p][k] = (ga + 0) % Q
      BY <2>4, <3>1 DEF Bump
    <3>3. QED
      BY <2>2, <2>3, <3>2, RestPlusNothing
  <2>11. g.r_sub_b[i][k] = d
    <3>1. g.r_sub_b[i] = Bump([j \in 1 .. 2 |-> (x.get[j] - G.b[i][j]) % Q], FALSE)
      BY <1>3, <1>4, <1>5, <1>6 DEF ASTRecv
    <3>2. g.r_sub_b[i][k] = (((rg - gb) % Q) + 0) % Q
      BY <2>4, <2>5, <3>1 DEF Bump
    <3>3. QED
      BY <2>5, <2>6, <3>2
  <2>12. s.lhs[i][k] = xs
    BY <1>3, <1>4, <1>5, <2>5, <2>7, <2>11 DEF ASTSend
  <2>13. s.rhs[p][k] = ys
    <3>1. (CHOOSE j \in DOMAIN S.b : Perm(f)[j] = p) = i
      BY <1>2, <1>5
    <3>2. s.rhs[p][k] = (s.lhs[i][k] + S.b[i][k] - S.a[Perm(f)[i]][k]) % Q
      BY <1>2, <1>4, <1>5, <3>1 DEF ASTSend
    <3>3. QED
      BY <2>4, <2>7, <2>8, <2>12, <3>2
  <2>14. Cong(xs + gb, rs + rg) /\ Cong(ys + ga, xs + gb)
    <3>1. PICK l1 \in Int : l1 = l
      OBVIOUS
    <3>2. SharesAre(a1, b1, l1, rg, rs, sa, sb, ga, gb, d, xs, ys)
      BY <2>2, <2>3, <2>5, <2>6, <2>7, <2>8, <3>1 DEF SharesAre
    <3>3. QED
      BY <3>2, ColumnShares
  <2>15. QED
    BY <2>5, <2>9, <2>10, <2>12, <2>13, <2>14
<1>8. Cong(s.lhs[i][2] + g.lhs[i][2], Key * (s.lhs[i][1] + g.lhs[i][1]))
  <2>1. 1 \in 1 .. 2 /\ 2 \in 1 .. 2
    OBVIOUS
  <2>2. PICK y : y = [set |-> s.lhs[i], get |-> g.lhs[i]]
    OBVIOUS
  <2>3. y.set = s.lhs[i] /\ y.get = g.lhs[i]
    BY <2>2
  <2>4. Element(y) /\ Same(y, x)
    BY <1>7, <2>3 DEF Element, Same, Val
  <2>5. Mac(y)
    BY <1>3, <2>4, SameMac
  <2>6. QED
    BY <2>3, <2>5 DEF Mac, Val
<1>9. QED
  BY <1>7, <1>8 DEF ColumnAt

\* Every translation is under a permutation, and without a fault it is right.
LEMMA PermIs ==
  ASSUME Permutes, JobOK, job.seed \in Nat, NEW f \in Nat
  PROVE  PermOn(Perm(f), I) /\ PermOn(Translation(f).perm, I)
<1>1. PermOn(Perm(f), I)
  BY PermValues DEF PermOn
<1>2. Translation(f).perm = Perm(f)
  BY DEF Translation
<1>3. QED
  BY <1>1, <1>2

LEMMA GoodTranslation ==
  ASSUME Honest, NEW f \in Nat
  PROVE  Good(Translation(f), I, Columns)
<1>1. ShuffleOK /\ NoneWrong(f)
  BY NothingWrong DEF Honest
<1>2. /\ job.T \in Nat \ {0} /\ IsFiniteSet(I) /\ Perm(f) \in [I -> I]
      /\ \A x, y \in I : Perm(f)[x] = Perm(f)[y] => x = y
  BY <1>1, PermFacts
<1>3. PermOn(Perm(f), I)
  BY <1>1, PermIs DEF ShuffleOK
<1>4. ASSUME NEW c \in Columns
      PROVE  Matches(Translation(f).a[c], Translation(f).b[c], Perm(f), I)
  <2>1. c \in 1 .. 2 /\ (~Double => c = 1)
    BY DEF Columns
  <2>2. PICK g, s : g = ASTRecv(f, c) /\ s = ASTSend(f, c, g.r_sub_b)
    OBVIOUS
  <2>3. PICK a, b : /\ a = [i \in I |-> [set |-> s.lhs[i], get |-> g.lhs[i]]]
                    /\ b = [i \in I |-> [set |-> s.rhs[i], get |-> g.rhs[i]]]
    OBVIOUS
  <2>4. Translation(f).a[c] = a /\ Translation(f).b[c] = b
    <3>1. CASE Double
      BY <2>1, <2>2, <2>3, <3>1 DEF Translation, DoubleASTRecv, DoubleASTSend, I
    <3>2. CASE ~Double
      BY <2>1, <2>2, <2>3, <3>2 DEF Translation, I
    <3>3. QED
      BY <3>1, <3>2
  <2>5. \A i \in I : ColumnAt(g, s, i, Perm(f)[i])
    BY <2>1, <2>2, ColumnIsRight
  <2>6. \A i \in I : /\ a[i].set = s.lhs[i] /\ a[i].get = g.lhs[i]
                     /\ b[i].set = s.rhs[i] /\ b[i].get = g.rhs[i]
    BY <2>3
  <2>7. ASSUME NEW i \in I
        PROVE  Element(a[i]) /\ Element(b[Perm(f)[i]]) /\ Mac(a[i]) /\ Same(b[Perm(f)[i]], a[i])
    <3>1. ColumnAt(g, s, i, Perm(f)[i]) /\ Perm(f)[i] \in I
      BY <1>2, <2>5
    <3>2. QED
      BY <2>6, <3>1 DEF ColumnAt, Element, Mac, Same, Val
  <2>8. \A j \in I : Element(b[j])
    <3>1. \A j \in I : \E i \in I : Perm(f)[i] = j
      BY <1>3 DEF PermOn
    <3>2. QED
      BY <2>7, <3>1
  <2>9. QED
    BY <2>3, <2>4, <2>7, <2>8 DEF Matches, Vector
<1>5. Translation(f).perm = Perm(f)
  BY DEF Translation
<1>6. QED
  BY <1>3, <1>4, <1>5 DEF Good

-----------------------------------------------------------------------------
\* Blocks side by side, and apart.

LEMMA GridFacts ==
  ASSUME NEW n \in Nat, NEW m \in Nat \ {0}
  PROVE  /\ \A q \in 0 .. n - 1, i \in 0 .. m - 1 : q * m + i \in 0 .. n * m - 1
         /\ \A p, q \in 0 .. n - 1, i, j \in 0 .. m - 1 :
              p * m + i = q * m + j => p = q /\ i = j
         /\ \A x \in 0 .. n * m - 1 : \E q \in 0 .. n - 1, i \in 0 .. m - 1 : x = q * m + i
<1>1. n * m \in Nat
  OBVIOUS
<1>2. ASSUME NEW q \in 0 .. n - 1, NEW i \in 0 .. m - 1
      PROVE  /\ q * m + i \in 0 .. n * m - 1
             /\ (q * m + i) \div m = q /\ (q * m + i) % m = i
  <2>1. PICK d \in Nat : n = q + 1 + d
    BY SMT
  <2>2. q * m \in Nat /\ d * m \in Nat /\ n * m = q * m + m + d * m
    BY <2>1
  <2>3. (q * m + i) \div m = q /\ (q * m + i) % m = i
    BY DivUnique
  <2>4. QED
    BY <2>2, <2>3
<1>3. ASSUME NEW x \in 0 .. n * m - 1
      PROVE  \E q \in 0 .. n - 1, i \in 0 .. m - 1 : x = q * m + i
  <2>1. PICK w \in Int, i \in 0 .. m - 1 : w = x \div m /\ i = x % m /\ x = m * w + i
    <3>1. x \in Int
      BY <1>1
    <3>2. QED
      BY <3>1, DivFacts, Zenon
  <2>2. x >= 0 /\ x < n * m /\ x \in Int
    BY <1>1
  <2>3. w >= 0
    <3>1. ASSUME w <= -1
          PROVE  FALSE
      <4>1. m * (-w - 1) >= 0
        BY <3>1
      <4>2. m * (-w - 1) = -(m * w) - m
        OBVIOUS
      <4>3. QED
        BY <2>1, <2>2, <4>1, <4>2
    <3>2. QED
      BY <3>1
  <2>4. w < n
    <3>1. ASSUME w >= n
          PROVE  FALSE
      <4>1. m * (w - n) >= 0
        BY <3>1
      <4>2. m * (w - n) = m * w - n * m
        OBVIOUS
      <4>3. QED
        BY <1>1, <2>1, <2>2, <4>1, <4>2
    <3>2. QED
      BY <3>1
  <2>5. w \in 0 .. n - 1 /\ x = w * m + i
    <3>1. w * m = m * w
      OBVIOUS
    <3>2. QED
      BY <2>1, <2>3, <2>4, <3>1
  <2>6. QED
    BY <2>5
<1>4. ASSUME NEW p \in 0 .. n - 1, NEW q \in 0 .. n - 1,
             NEW i \in 0 .. m - 1, NEW j \in 0 .. m - 1, p * m + i = q * m + j
      PROVE  p = q /\ i = j
  BY <1>2, <1>4
<1>5. QED
  BY <1>2, <1>3, <1>4

\* The place of element i of block p, and those of n blocks side by side.
At(p, i, g) == g[p][i]
SideBySide(n, m) == [p \in 1 .. n |-> [i \in 0 .. m - 1 |-> (p - 1) * m + i]]

\* The cells of X: element i of S of block p of P.
Cells(P, S, X, g) ==
  /\ \A p \in P, i \in S : At(p, i, g) \in X
  /\ \A p, q \in P, i, j \in S : At(p, i, g) = At(q, j, g) => p = q /\ i = j
  /\ \A x \in X : \E p \in P, i \in S : x = At(p, i, g)

LEMMA CellsAre ==
  ASSUME NEW n \in Nat \ {0}, NEW m \in Nat \ {0}
  PROVE  Cells(1 .. n, 0 .. m - 1, 0 .. n * m - 1, SideBySide(n, m))
<1>1. PICK g : g = SideBySide(n, m)
  OBVIOUS
<1>2. ASSUME NEW p \in 1 .. n, NEW i \in 0 .. m - 1
      PROVE  At(p, i, g) = (p - 1) * m + i /\ p - 1 \in 0 .. n - 1
  BY <1>1 DEF At, SideBySide
<1>8. /\ \A q \in 0 .. n - 1, i \in 0 .. m - 1 : q * m + i \in 0 .. n * m - 1
      /\ \A x \in 0 .. n * m - 1 : \E q \in 0 .. n - 1, i \in 0 .. m - 1 : x = q * m + i
  BY GridFacts
<1>3. ASSUME NEW p \in 1 .. n, NEW i \in 0 .. m - 1
      PROVE  At(p, i, g) \in 0 .. n * m - 1
  <2>1. PICK u \in 0 .. n - 1 : u = p - 1
    BY <1>2
  <2>2. u * m + i \in 0 .. n * m - 1
    BY <1>8
  <2>3. QED
    BY <1>2, <2>1, <2>2
<1>4. ASSUME NEW p \in 1 .. n, NEW q \in 1 .. n, NEW i \in 0 .. m - 1, NEW j \in 0 .. m - 1,
             At(p, i, g) = At(q, j, g)
      PROVE  p = q /\ i = j
  <2>1. PICK u, v \in 0 .. n - 1 : u = p - 1 /\ v = q - 1
    BY <1>2
  <2>2. u * m + i = v * m + j
    BY <1>2, <1>4, <2>1
  <2>3. u = v /\ i = j
    BY <2>2, GridFacts
  <2>4. QED
    BY <2>1, <2>3
<1>5. ASSUME NEW x \in 0 .. n * m - 1
      PROVE  \E p \in 1 .. n, i \in 0 .. m - 1 : x = At(p, i, g)
  <2>1. PICK u \in 0 .. n - 1, i \in 0 .. m - 1 : x = u * m + i
    BY <1>8, Zenon
  <2>2. PICK p \in 1 .. n : p = u + 1 /\ p - 1 = u
    BY SMT
  <2>3. At(p, i, g) = x
    BY <1>2, <2>1, <2>2
  <2>4. QED
    BY <2>3
<1>6. Cells(1 .. n, 0 .. m - 1, 0 .. n * m - 1, g)
  BY ONLY <1>3, <1>4, <1>5 DEF Cells
<1>7. QED
  BY <1>1, <1>6

\* Permutations and vectors of the blocks of P laid out over X.
PermLaid(perm, ps, P, S, X, g) ==
  DOMAIN perm = X /\ \A p \in P, i \in S : perm[At(p, i, g)] = At(p, ps[p][i], g)
Laid(v, vs, P, S, X, g) ==
  DOMAIN v = X /\ \A p \in P, i \in S : v[At(p, i, g)] = vs[p][i]

\* A sequence of vectors as one.
IsOver(v, S) == v = [i \in S |-> v[i]]

LEMMA ConcatAt ==
  ASSUME NEW n \in Nat \ {0}, NEW m \in Nat \ {0}, NEW vecs,
         IsOver(vecs, 1 .. n), DOMAIN vecs[1] = 0 .. m - 1
  PROVE  Laid(Concat(vecs), vecs, 1 .. n, 0 .. m - 1, 0 .. n * m - 1, SideBySide(n, m))
<1>1. Len(vecs) = n
  BY SeqOfFunction DEF IsOver
<1>2. Cardinality(DOMAIN vecs[1]) = m
  <2>1. \A k \in Nat : Cardinality(0 .. k - 1) = k
    BY ONLY FS_Interval
  <2>2. QED
    BY <2>1
<1>3. Concat(vecs) = [x \in 0 .. n * m - 1 |-> vecs[x \div m + 1][x % m]]
  BY <1>1, <1>2 DEF Concat
<1>4. PICK g : g = SideBySide(n, m)
  OBVIOUS
<1>7. \A q \in 0 .. n - 1, i \in 0 .. m - 1 : q * m + i \in 0 .. n * m - 1
  BY GridFacts
<1>5. ASSUME NEW p \in 1 .. n, NEW i \in 0 .. m - 1
      PROVE  Concat(vecs)[At(p, i, g)] = vecs[p][i]
  <2>1. PICK w \in Int : w = p - 1
    OBVIOUS
  <2>6. w \in 0 .. n - 1 /\ p = w + 1
    BY <2>1
  <2>2. At(p, i, g) = w * m + i
    BY <1>4, <2>1 DEF At, SideBySide
  <2>3. (w * m + i) \div m = w /\ (w * m + i) % m = i
    BY DivUnique
  <2>4. w * m + i \in 0 .. n * m - 1
    BY <1>7, <2>6
  <2>5. QED
    BY <1>3, <2>2, <2>3, <2>4, <2>6
<1>6. Laid(Concat(vecs), vecs, 1 .. n, 0 .. m - 1, 0 .. n * m - 1, g)
  BY <1>3, <1>5 DEF Laid
<1>8. QED
  BY <1>4, <1>6

LEMMA LaidPerm ==
  ASSUME NEW P, NEW S, NEW X, NEW g, Cells(P, S, X, g), NEW perm, NEW ps,
         PermLaid(perm, ps, P, S, X, g), \A p \in P : PermOn(ps[p], S)
  PROVE  PermOn(perm, X)
<1>1. /\ \A p \in P, i \in S : ps[p][i] \in S
      /\ \A p \in P, i, j \in S : ps[p][i] = ps[p][j] => i = j
      /\ \A p \in P, j \in S : \E i \in S : ps[p][i] = j
  BY DEF PermOn
<1>2. \A x \in X : perm[x] \in X
  <2> SUFFICES ASSUME NEW x \in X
               PROVE  perm[x] \in X
    OBVIOUS
  <2>1. PICK p \in P, i \in S : x = At(p, i, g)
    BY DEF Cells
  <2>2. PICK j \in S : j = ps[p][i]
    BY <1>1
  <2>3. perm[x] = At(p, j, g)
    BY <2>1, <2>2 DEF PermLaid
  <2>4. QED
    BY <2>3 DEF Cells
<1>3. ASSUME NEW x \in X, NEW y \in X, perm[x] = perm[y]
      PROVE  x = y
  <2>1. PICK p \in P, i \in S : x = At(p, i, g)
    BY DEF Cells
  <2>2. PICK q \in P, j \in S : y = At(q, j, g)
    BY DEF Cells
  <2>3. At(p, ps[p][i], g) = At(q, ps[q][j], g)
    BY <1>3, <2>1, <2>2 DEF PermLaid
  <2>4. PICK u, v \in S : u = ps[p][i] /\ v = ps[q][j]
    BY <1>1
  <2>5. p = q /\ u = v
    BY <2>3, <2>4 DEF Cells
  <2>6. i = j
    BY <1>1, <2>4, <2>5
  <2>7. QED
    BY <2>1, <2>2, <2>5, <2>6
<1>4. ASSUME NEW y \in X
      PROVE  \E x \in X : perm[x] = y
  <2>1. PICK p \in P, j \in S : y = At(p, j, g)
    BY DEF Cells
  <2>2. PICK i \in S : ps[p][i] = j
    BY <1>1
  <2>3. At(p, i, g) \in X /\ perm[At(p, i, g)] = y
    BY <2>1, <2>2 DEF Cells, PermLaid
  <2>4. QED
    BY <2>3
<1>5. QED
  BY <1>2, <1>3, <1>4 DEF PermOn, PermLaid

LaidOut(perm, ps, a, as, b, bs, P, S, X, g) ==
  /\ PermLaid(perm, ps, P, S, X, g) /\ Laid(a, as, P, S, X, g) /\ Laid(b, bs, P, S, X, g)
  /\ \A p \in P : PermOn(ps[p], S) /\ Matches(as[p], bs[p], ps[p], S)

LEMMA LaidMatches ==
  ASSUME NEW P, NEW S, NEW X, NEW g, Cells(P, S, X, g),
         NEW perm, NEW ps, NEW a, NEW as, NEW b, NEW bs,
         LaidOut(perm, ps, a, as, b, bs, P, S, X, g)
  PROVE  Matches(a, b, perm, X)
<1> USE DEF LaidOut
<1>1. \A p \in P, i \in S :
        /\ perm[At(p, i, g)] = At(p, ps[p][i], g) /\ ps[p][i] \in S
        /\ a[At(p, i, g)] = as[p][i] /\ b[At(p, i, g)] = bs[p][i]
  BY DEF Laid, PermLaid, PermOn
<1>2. \A p \in P, i \in S :
        /\ Element(as[p][i]) /\ Element(bs[p][i])
        /\ Mac(as[p][i]) /\ Same(bs[p][ps[p][i]], as[p][i])
  BY DEF Matches, Vector
<1>3. \A x \in X : /\ Element(a[x]) /\ Element(b[x])
                   /\ Mac(a[x]) /\ Same(b[perm[x]], a[x])
  <2> SUFFICES ASSUME NEW x \in X
               PROVE  /\ Element(a[x]) /\ Element(b[x])
                      /\ Mac(a[x]) /\ Same(b[perm[x]], a[x])
    OBVIOUS
  <2>1. PICK p \in P, i \in S : x = At(p, i, g)
    BY DEF Cells
  <2>2. PICK j \in S : j = ps[p][i] /\ perm[x] = At(p, j, g)
    BY <1>1, <2>1
  <2>3. a[x] = as[p][i] /\ b[x] = bs[p][i]
    BY <1>1, <2>1
  <2>4. b[perm[x]] = bs[p][j]
    BY <1>1, <2>2
  <2>5. QED
    BY <1>2, <2>2, <2>3, <2>4
<1>4. QED
  BY <1>3 DEF Matches, Vector, Laid

\* A permutation that keeps the blocks.
Blocks(perm, P, S, g) ==
  \A p \in P, i \in S : \E j \in S : perm[At(p, i, g)] = At(p, j, g)

\* A call's places of a block, and of n blocks.
Width(n) == 0 .. n * job.T - 1

\* What is laid out of translations of the blocks is one.
LayOut(t, ts, P, S, X, g, columns) ==
  /\ PermLaid(t.perm, [p \in P |-> ts[p].perm], P, S, X, g)
  /\ \A c \in columns : /\ Laid(t.a[c], [p \in P |-> ts[p].a[c]], P, S, X, g)
                       /\ Laid(t.b[c], [p \in P |-> ts[p].b[c]], P, S, X, g)

LEMMA GoodLaid ==
  ASSUME NEW P, NEW S, NEW X, NEW g, Cells(P, S, X, g), NEW t, NEW ts,
         NEW columns, LayOut(t, ts, P, S, X, g, columns), \A p \in P : Good(ts[p], S, columns)
  PROVE  Good(t, X, columns) /\ Blocks(t.perm, P, S, g)
<1>1. PICK ps : ps = [p \in P |-> ts[p].perm] /\ PermLaid(t.perm, ps, P, S, X, g)
  BY DEF LayOut
<1>2. \A p \in P : PermOn(ps[p], S) /\ \A i \in S : ps[p][i] \in S
  <2>1. \A p \in P : ps[p] = ts[p].perm
    BY <1>1
  <2>2. \A p \in P : PermOn(ts[p].perm, S)
    BY DEF Good
  <2>3. \A p \in P : PermOn(ps[p], S)
    BY <2>1, <2>2
  <2>4. QED
    BY <2>3 DEF PermOn
<1>3. PermOn(t.perm, X) /\ Blocks(t.perm, P, S, g)
  BY <1>1, <1>2, LaidPerm DEF Blocks, PermLaid
<1>4. ASSUME NEW c \in columns
      PROVE  Matches(t.a[c], t.b[c], t.perm, X)
  <2>1. PICK as, bs : /\ as = [p \in P |-> ts[p].a[c]] /\ bs = [p \in P |-> ts[p].b[c]]
                      /\ Laid(t.a[c], as, P, S, X, g) /\ Laid(t.b[c], bs, P, S, X, g)
    BY DEF LayOut
  <2>2. \A p \in P : Matches(as[p], bs[p], ps[p], S)
    BY <1>1, <2>1 DEF Good
  <2>3. LaidOut(t.perm, ps, t.a[c], as, t.b[c], bs, P, S, X, g)
    BY <1>1, <1>2, <2>1, <2>2 DEF LaidOut
  <2>4. QED
    BY <2>3, LaidMatches
<1>5. QED
  BY <1>3, <1>4 DEF Good

LEMMA GoodJoin ==
  ASSUME JobOK, NEW n \in Nat \ {0}, NEW ts, DOMAIN ts = 1 .. n,
         NEW columns \in SUBSET Columns, \A p \in 1 .. n : Good(ts[p], I, columns)
  PROVE  /\ Good(Join(ts), Width(n), columns)
         /\ Blocks(Join(ts).perm, 1 .. n, I, SideBySide(n, job.T))
<1>1. PICK m, P, X, g :
        /\ m \in Nat \ {0} /\ m = job.T /\ I = 0 .. m - 1 /\ P = 1 .. n
        /\ X = Width(n) /\ X = 0 .. n * m - 1
        /\ g = SideBySide(n, m)
  BY Sizes DEF I, Width
<1>2. PICK ps, pm : /\ ps = [p \in P |-> ts[p].perm]
                    /\ pm = [p \in P |-> [i \in I |-> (p - 1) * m + ts[p].perm[i]]]
  OBVIOUS
<1>3. 1 \in P /\ Cells(P, I, X, g)
  BY <1>1, CellsAre
<1>4. /\ Join(ts).perm = Concat(pm)
      /\ \A c \in Columns : /\ Join(ts).a[c] = Concat([p \in P |-> ts[p].a[c]])
                            /\ Join(ts).b[c] = Concat([p \in P |-> ts[p].b[c]])
  BY <1>1, <1>2 DEF Join
<1>5. ASSUME NEW vs, IsOver(vs, P), DOMAIN vs[1] = I
      PROVE  Laid(Concat(vs), vs, P, I, X, g)
  BY <1>1, <1>5, ConcatAt
<1>6. PermLaid(Join(ts).perm, ps, P, I, X, g)
  <2>1. IsOver(pm, P) /\ DOMAIN pm[1] = I
    BY <1>2, <1>3 DEF IsOver
  <2>2. \A p \in P, i \in I : At(p, i, g) = (p - 1) * m + i
    BY <1>1 DEF At, SideBySide
  <2>3. \A p \in P, i \in I : pm[p][i] = At(p, ps[p][i], g)
    <3>1. \A p \in P, i \in I : ps[p] = ts[p].perm /\ ts[p].perm[i] \in I
      BY <1>1, <1>2 DEF Good, PermOn
    <3>2. QED
      BY <1>2, <2>2, <3>1
  <2>4. Laid(Concat(pm), pm, P, I, X, g)
    BY <1>5, <2>1
  <2>5. QED
    BY <1>4, <2>3, <2>4 DEF Laid, PermLaid
<1>7. ASSUME NEW c \in columns
      PROVE  /\ Laid(Join(ts).a[c], [p \in P |-> ts[p].a[c]], P, I, X, g)
             /\ Laid(Join(ts).b[c], [p \in P |-> ts[p].b[c]], P, I, X, g)
  <2>1. PICK as, bs : as = [p \in P |-> ts[p].a[c]] /\ bs = [p \in P |-> ts[p].b[c]]
    OBVIOUS
  <2>2. DOMAIN as[1] = I /\ DOMAIN bs[1] = I
    BY <1>1, <1>3, <2>1 DEF Good, Matches, Vector
  <2>3. IsOver(as, P) /\ IsOver(bs, P)
    BY <2>1 DEF IsOver
  <2>4. Laid(Concat(as), as, P, I, X, g) /\ Laid(Concat(bs), bs, P, I, X, g)
    BY <1>5, <2>2, <2>3
  <2>5. QED
    BY <1>4, <2>1, <2>4
<1>8. LayOut(Join(ts), ts, P, I, X, g, columns)
  BY <1>2, <1>6, <1>7 DEF LayOut
<1>9. Good(Join(ts), X, columns) /\ Blocks(Join(ts).perm, P, I, g)
  BY <1>1, <1>3, <1>8, GoodLaid
<1>10. QED
  BY <1>1, <1>9

LEMMA GoodSplit ==
  ASSUME JobOK, NEW n \in Nat \ {0}, NEW t, DOMAIN t.ids = 1 .. n,
         NEW columns \in SUBSET Columns,
         Good(t, Width(n), columns), Blocks(t.perm, 1 .. n, I, SideBySide(n, job.T)),
         NEW p \in 1 .. n
  PROVE  Good(Split(t)[p], I, columns)
<1>1. PICK m, P, X, g :
        /\ m \in Nat \ {0} /\ m = job.T /\ I = 0 .. m - 1 /\ P = 1 .. n
        /\ X = Width(n) /\ X = 0 .. n * m - 1
        /\ g = SideBySide(n, m)
  BY Sizes DEF I, Width
<1>2. Cells(P, I, X, g) /\ p \in P
  BY <1>1, CellsAre
<1>3. PermOn(t.perm, X) /\ Blocks(t.perm, P, I, g)
  BY <1>1 DEF Good
<1>4. PICK perm : perm = [i \in I |-> t.perm[At(p, i, g)] - (p - 1) * m]
  OBVIOUS
<1>5. /\ Split(t)[p].perm = perm
      /\ \A c \in Columns : /\ Split(t)[p].a[c] = [i \in I |-> t.a[c][At(p, i, g)]]
                            /\ Split(t)[p].b[c] = [i \in I |-> t.b[c][At(p, i, g)]]
  <2>1. \A i \in I : At(p, i, g) = (p - 1) * m + i
    BY <1>1 DEF At, SideBySide
  <2>2. QED
    BY <1>1, <1>4, <2>1 DEF Split
<1>6. ASSUME NEW i \in I
      PROVE  perm[i] \in I /\ t.perm[At(p, i, g)] = At(p, perm[i], g)
  <2>1. PICK j \in I : t.perm[At(p, i, g)] = At(p, j, g)
    BY <1>2, <1>3 DEF Blocks
  <2>2. PICK w \in Int : w = (p - 1) * m
    BY <1>1
  <2>3. At(p, j, g) = w + j /\ j \in Int
    BY <1>1, <2>2 DEF At, SideBySide
  <2>4. perm[i] = (w + j) - w
    BY <1>4, <2>1, <2>2, <2>3
  <2>5. perm[i] = j
    BY <2>3, <2>4
  <2>6. QED
    BY <2>1, <2>5
<1>7. PermOn(perm, I)
  <2>1. ASSUME NEW i \in I, NEW j \in I, perm[i] = perm[j]
        PROVE  i = j
    <3>1. t.perm[At(p, i, g)] = t.perm[At(p, j, g)]
      BY <1>6, <2>1
    <3>2. At(p, i, g) = At(p, j, g)
      BY <1>2, <1>3, <3>1 DEF PermOn, Cells
    <3>3. QED
      BY <1>2, <3>2 DEF Cells
  <2>2. ASSUME NEW j \in I
        PROVE  \E i \in I : perm[i] = j
    <3>1. PICK x \in X : t.perm[x] = At(p, j, g)
      BY <1>2, <1>3 DEF PermOn, Cells
    <3>2. PICK q \in P, i \in I : x = At(q, i, g)
      BY <1>2 DEF Cells
    <3>3. PICK k \in I : t.perm[At(q, i, g)] = At(q, k, g)
      BY <1>3 DEF Blocks
    <3>4. At(q, k, g) = At(p, j, g)
      BY <3>1, <3>2, <3>3
    <3>5. q = p
      BY <1>2, <3>4 DEF Cells
    <3>6. At(p, perm[i], g) = At(p, j, g)
      BY <1>6, <3>1, <3>2, <3>5
    <3>7. perm[i] = j
      BY <1>2, <1>6, <3>6 DEF Cells
    <3>8. QED
      BY <3>7
  <2>3. DOMAIN perm = I
    BY <1>4
  <2>4. QED
    BY <1>6, <2>1, <2>2, <2>3 DEF PermOn
<1>8. ASSUME NEW c \in columns
      PROVE  Matches(Split(t)[p].a[c], Split(t)[p].b[c], perm, I)
  <2>1. Matches(t.a[c], t.b[c], t.perm, X)
    BY <1>1 DEF Good
  <2>2. PICK a, b : /\ a = [i \in I |-> t.a[c][At(p, i, g)]]
                    /\ b = [i \in I |-> t.b[c][At(p, i, g)]]
    OBVIOUS
  <2>3. \A i \in I : At(p, i, g) \in X
    BY <1>2 DEF Cells
  <2>4. \A i \in I : /\ Element(a[i]) /\ Element(b[i]) /\ Mac(a[i])
                     /\ Same(b[perm[i]], a[i])
    BY <1>6, <2>1, <2>2, <2>3 DEF Matches, Vector
  <2>5. Matches(a, b, perm, I)
    BY <2>2, <2>4 DEF Matches, Vector
  <2>6. QED
    BY <1>5, <2>2, <2>5
<1>9. QED
  BY <1>1, <1>5, <1>7, <1>8 DEF Good

-----------------------------------------------------------------------------
\* A round.

LEMMA ValInt ==
  ASSUME NEW x, Element(x)
  PROVE  Val(x, 1) \in Int /\ Val(x, 2) \in Int
<1>1. 1 \in 1 .. 2 /\ 2 \in 1 .. 2
  OBVIOUS
<1>2. QED
  BY <1>1, OpenFacts

\* Sums and differences of elements with macs.
LEMMA MacAdd ==
  ASSUME NEW x, NEW y, Element(x), Element(y), Mac(x), Mac(y)
  PROVE  Mac(Add(x, y)) /\ Mac(Sub(x, y))
<1>1. 1 \in 1 .. 2 /\ 2 \in 1 .. 2
  OBVIOUS
<1>2. PICK x1, x2, y1, y2 \in Int :
        x1 = Val(x, 1) /\ x2 = Val(x, 2) /\ y1 = Val(y, 1) /\ y2 = Val(y, 2)
  <2>1. Val(x, 1) \in Int /\ Val(x, 2) \in Int /\ Val(y, 1) \in Int /\ Val(y, 2) \in Int
    BY ValInt
  <2>2. QED
    BY <2>1
<1>3. PICK a1, a2, s1, s2 \in Int :
        /\ a1 = Val(Add(x, y), 1) /\ a2 = Val(Add(x, y), 2)
        /\ s1 = Val(Sub(x, y), 1) /\ s2 = Val(Sub(x, y), 2)
  <2>1. Element(Add(x, y)) /\ Element(Sub(x, y))
    BY AddFacts
  <2>2. /\ Val(Add(x, y), 1) \in Int /\ Val(Add(x, y), 2) \in Int
        /\ Val(Sub(x, y), 1) \in Int /\ Val(Sub(x, y), 2) \in Int
    BY <2>1, ValInt
  <2>3. QED
    BY <2>2
<1>4. Cong(a1, x1 + y1) /\ Cong(a2, x2 + y2) /\ Cong(s1, x1 - y1) /\ Cong(s2, x2 - y2)
  BY <1>1, <1>2, <1>3, AddFacts
<1>5. PICK k \in Int : k = Key
  BY FieldFacts
<1>6. PICK kx, ky, ka, ks \in Int : kx = k * x1 /\ ky = k * y1 /\ ka = k * a1 /\ ks = k * s1
  OBVIOUS
<1>7. PICK u, v, u2, v2 \in Int : u = x1 + y1 /\ v = x1 - y1 /\ u2 = x2 + y2 /\ v2 = x2 - y2
  OBVIOUS
<1>8. Cong(x2, kx) /\ Cong(y2, ky)
  BY <1>2, <1>5, <1>6 DEF Mac
<1>9. Cong(u2, kx + ky) /\ Cong(v2, kx - ky)
  BY <1>7, <1>8, CongPlus
<1>10. k * u = kx + ky /\ k * v = kx - ky
  BY <1>6, <1>7
<1>11. PICK ku, kv \in Int : ku = k * u /\ kv = k * v
  OBVIOUS
<1>12. Cong(ku, ka) /\ Cong(kv, ks)
  <2>1. Cong(ka, ku) /\ Cong(ks, kv)
    BY <1>4, <1>6, <1>7, <1>11, CongTimes
  <2>2. QED
    BY <2>1, CongBack
<1>13. Cong(a2, ka) /\ Cong(s2, ks)
  <2>1. Cong(a2, u2) /\ Cong(u2, ku) /\ Cong(s2, v2) /\ Cong(v2, kv)
    BY <1>4, <1>7, <1>9, <1>10, <1>11
  <2>2. Cong(a2, ku) /\ Cong(s2, kv)
    BY <2>1, CongChain
  <2>3. QED
    BY <1>12, <2>2, CongChain
<1>14. QED
  BY <1>3, <1>5, <1>6, <1>13 DEF Mac

\* The difference of x and y is opened, authenticated as w, and added to z.
LEMMA MaskedAt ==
  ASSUME NEW x, NEW y, NEW z, NEW w, Element(x), Element(y), Element(z), Element(w),
         Mac(x), Mac(y), Same(z, y),
         NEW v \in Int, Cong(v, Val(Sub(x, y), 1)),
         Cong(Val(w, 1), v), Cong(Val(w, 2), Key * v)
  PROVE  Element(Add(z, w)) /\ Same(Add(z, w), x) /\ Mac(Add(z, w))
<1>1. 1 \in 1 .. 2 /\ 2 \in 1 .. 2 /\ \A c \in 1 .. 2 : c = 1 \/ c = 2
  OBVIOUS
<1>2. PICK x1, x2, y1, y2, z1, z2, w1, w2 \in Int :
        /\ x1 = Val(x, 1) /\ x2 = Val(x, 2) /\ y1 = Val(y, 1) /\ y2 = Val(y, 2)
        /\ z1 = Val(z, 1) /\ z2 = Val(z, 2) /\ w1 = Val(w, 1) /\ w2 = Val(w, 2)
  <2>1. /\ Val(x, 1) \in Int /\ Val(x, 2) \in Int /\ Val(y, 1) \in Int /\ Val(y, 2) \in Int
        /\ Val(z, 1) \in Int /\ Val(z, 2) \in Int /\ Val(w, 1) \in Int /\ Val(w, 2) \in Int
    BY ValInt
  <2>2. QED
    BY <2>1, Zenon
<1>3. PICK a1, a2, s1 \in Int :
        /\ a1 = Val(Add(z, w), 1) /\ a2 = Val(Add(z, w), 2) /\ s1 = Val(Sub(x, y), 1)
  BY <1>1, AddFacts DEF Element, Val
<1>4. Cong(a1, z1 + w1) /\ Cong(a2, z2 + w2) /\ Cong(s1, x1 - y1)
  BY <1>1, <1>2, <1>3, AddFacts
<1>5. PICK k \in Int : k = Key
  BY FieldFacts
<1>6. PICK kx, ky, kv, d, kd, zw1, zw2 \in Int :
        /\ kx = k * x1 /\ ky = k * y1 /\ kv = k * v /\ d = x1 - y1 /\ kd = k * d
        /\ zw1 = z1 + w1 /\ zw2 = z2 + w2
  OBVIOUS
<1>7. Cong(x2, kx) /\ Cong(y2, ky) /\ Cong(z1, y1) /\ Cong(z2, y2)
      /\ Cong(w1, v) /\ Cong(w2, kv) /\ Cong(v, s1)
  BY <1>1, <1>2, <1>3, <1>5, <1>6 DEF Mac, Same
<1>8. Cong(v, d)
  BY <1>4, <1>6, <1>7, CongChain
<1>9. Cong(kv, kd) /\ kd = kx - ky
  <2>1. Cong(kv, kd)
    BY <1>6, <1>8, CongTimes
  <2>2. k * (x1 - y1) = k * x1 - k * y1
    OBVIOUS
  <2>3. QED
    BY <1>6, <2>1, <2>2
<1>10. Cong(a1, x1)
  <2>1. Cong(w1, d)
    BY <1>7, <1>8, CongChain
  <2>2. Cong(zw1, y1 + d) /\ y1 + d = x1
    BY <1>6, <1>7, <2>1, CongPlus
  <2>3. QED
    BY <1>4, <1>6, <2>2, CongChain
<1>11. Cong(a2, x2)
  <2>1. Cong(w2, kd) /\ Cong(z2, ky)
    BY <1>7, <1>9, CongChain
  <2>2. Cong(zw2, ky + kd) /\ ky + kd = kx
    BY <1>6, <1>9, <2>1, CongPlus
  <2>3. Cong(a2, kx) /\ Cong(kx, x2)
    BY <1>4, <1>6, <1>7, <2>2, CongChain, CongBack
  <2>4. QED
    BY <2>3, CongChain
<1>12. Element(Add(z, w)) /\ Same(Add(z, w), x)
  BY <1>1, <1>2, <1>3, <1>10, <1>11, AddFacts DEF Same
<1>13. QED
  BY <1>12, SameMac

\* A vector under a permutation, opened where it was.
LEMMA PutAt ==
  ASSUME NEW S, NEW p, PermOn(p, S), NEW v, DOMAIN v = S
  PROVE  DOMAIN Put(p, v) = S /\ \A i \in S : Put(p, v)[p[i]] = v[i]
<1>1. \A i \in S : p[i] \in S /\ \A j \in S : p[j] = p[i] => j = i
  BY DEF PermOn
<1>2. ASSUME NEW i \in S
      PROVE  Put(p, v)[p[i]] = v[i]
  <2>1. (CHOOSE j \in S : p[j] = p[i]) = i
    BY <1>1
  <2>2. QED
    BY <1>1, <2>1 DEF Put
<1>3. QED
  BY <1>2 DEF Put

\* The vector xb, masked by ya, opened, permuted and unmasked by yb.
Masked(n, d, xb, ya, yb, p, e) ==
  d = SubVec(xb, ya) /\ n = AddVec(yb, Auth(Put(p, Values(d)), e))

LEMMA MaskedIsRight ==
  ASSUME Draws, NEW S, S \subseteq Nat, NEW p, PermOn(p, S), NEW e \in Seq(Nat),
         NEW xb, Vector(xb, S), \A i \in S : Mac(xb[i]),
         NEW ya, NEW yb, Matches(ya, yb, p, S),
         NEW n, NEW d, Masked(n, d, xb, ya, yb, p, e)
  PROVE  /\ MacsHold(d)
         /\ Vector(n, S) /\ \A i \in S : Mac(n[i]) /\ Same(n[p[i]], xb[i])
<1>1. /\ \A i \in S : p[i] \in S
      /\ \A j \in S : \E i \in S : p[i] = j
  BY DEF PermOn
<1>2. \A i \in S : /\ Element(xb[i]) /\ Mac(xb[i]) /\ Element(ya[i]) /\ Mac(ya[i])
                   /\ Element(yb[i]) /\ Same(yb[p[i]], ya[i])
  BY DEF Matches, Vector
<1>3. DOMAIN xb = S /\ DOMAIN yb = S
  BY DEF Matches, Vector
<1>4. DOMAIN d = S /\ \A i \in S : d[i] = Sub(xb[i], ya[i])
  BY <1>3 DEF Masked, SubVec
<1>5. \A i \in S : Element(d[i]) /\ Mac(d[i])
  BY <1>2, <1>4, AddFacts, MacAdd
<1>6. MacsHold(d)
  BY <1>4, <1>5, OpenFacts DEF MacsHold
<1>7. PICK vals : vals = Values(d) /\ DOMAIN vals = S
                  /\ \A i \in S : vals[i] = Open(d[i])[1]
  <2>1. DOMAIN Values(d) = S /\ \A i \in S : Values(d)[i] = Open(d[i])[1]
    BY <1>4 DEF Values
  <2>2. QED
    BY <2>1
<1>8. \A i \in S : vals[i] \in Int /\ Cong(vals[i], Val(d[i], 1))
  <2>1. 1 \in 1 .. 2
    OBVIOUS
  <2>2. QED
    BY <1>5, <1>7, <2>1, OpenFacts
<1>9. PICK put : put = Put(p, vals) /\ DOMAIN put = S /\ \A i \in S : put[p[i]] = vals[i]
  BY <1>7, PutAt
<1>10. DOMAIN n = S /\ \A i \in S : n[i] = Add(yb[i], Auth(put, e)[i])
  BY <1>3, <1>7, <1>9 DEF Masked, AddVec
<1>11. ASSUME NEW i \in S
       PROVE  Element(n[p[i]]) /\ Same(n[p[i]], xb[i]) /\ Mac(n[p[i]])
  <2>1. PICK j \in S : j = p[i]
    BY <1>1
  <2>2. j \in Nat /\ j \in DOMAIN put /\ put[j] = vals[i] /\ put[j] \in Int
    BY <1>8, <1>9, <2>1
  <2>3. PICK w : w = Auth(put, e)[j]
    OBVIOUS
  <2>4. Element(w) /\ Cong(Val(w, 1), put[j]) /\ Cong(Val(w, 2), Key * put[j])
    BY <2>2, <2>3, AuthFacts
  <2>5. PICK x, y, z, v : /\ x = xb[i] /\ y = ya[i] /\ z = yb[j] /\ v = vals[i]
                          /\ n[j] = Add(z, w)
    BY <1>10, <2>3
  <2>6. /\ Element(x) /\ Element(y) /\ Element(z) /\ Mac(x) /\ Mac(y) /\ Same(z, y)
        /\ v \in Int /\ Cong(v, Val(Sub(x, y), 1))
        /\ Cong(Val(w, 1), v) /\ Cong(Val(w, 2), Key * v)
    BY <1>2, <1>4, <1>8, <2>1, <2>2, <2>4, <2>5
  <2>7. Element(Add(z, w)) /\ Same(Add(z, w), x) /\ Mac(Add(z, w))
    BY <2>4, <2>6, MaskedAt
  <2>8. QED
    BY <2>1, <2>5, <2>7
<1>12. \A j \in S : Element(n[j]) /\ Mac(n[j])
  BY <1>1, <1>11
<1>13. QED
  BY <1>6, <1>10, <1>11, <1>12 DEF Vector

\* A multiple of an element.
Times(z, key, v) ==
  Element(z) /\ \A k \in 1 .. 2 : Cong(Val(z, k), key * Val(v, k))

LEMMA TimesFacts ==
  ASSUME NEW key \in Int, NEW v, Element(v), NEW z, Times(z, key, v)
  PROVE  /\ Element(z) /\ (Mac(v) => Mac(z))
         /\ \A w, u : Element(w) /\ Same(v, w) /\ Times(u, key, w) => Same(z, u)
<1>1. 1 \in 1 .. 2 /\ 2 \in 1 .. 2
  OBVIOUS
<1>2. Element(z)
  BY DEF Times
<1>3. ASSUME Mac(v)
      PROVE  Mac(z)
  <2>1. PICK k, v1, v2, z1, z2 \in Int :
          /\ k = Key /\ v1 = Val(v, 1) /\ v2 = Val(v, 2) /\ z1 = Val(z, 1) /\ z2 = Val(z, 2)
    <3>1. /\ Key \in Int /\ Val(v, 1) \in Int /\ Val(v, 2) \in Int
          /\ Val(z, 1) \in Int /\ Val(z, 2) \in Int
      BY <1>2, ValInt, FieldFacts
    <3>2. QED
      BY <3>1, Zenon
  <2>2. PICK kv, kz, ev1, ev2, ekv, kev \in Int :
          /\ kv = k * v1 /\ kz = k * z1 /\ ev1 = key * v1 /\ ev2 = key * v2
          /\ ekv = key * kv /\ kev = k * ev1
    OBVIOUS
  <2>3. Cong(v2, kv) /\ Cong(z1, ev1) /\ Cong(z2, ev2)
    BY <1>1, <1>3, <2>1, <2>2 DEF Mac, Times
  <2>4. Cong(ev2, ekv) /\ Cong(kz, kev)
    BY <2>2, <2>3, CongTimes
  <2>5. ekv = kev
    <3>1. key * (k * v1) = k * (key * v1)
      OBVIOUS
    <3>2. QED
      BY <2>2, <3>1
  <2>6. Cong(z2, ekv) /\ Cong(kev, kz)
    BY <2>3, <2>4, CongChain, CongBack
  <2>7. Cong(z2, kz)
    BY <2>5, <2>6, CongChain
  <2>8. QED
    BY <2>1, <2>2, <2>7 DEF Mac
<1>4. ASSUME NEW w, NEW u, Element(w), Same(v, w), Times(u, key, w)
      PROVE  Same(z, u)
  <2> SUFFICES ASSUME NEW k \in 1 .. 2
               PROVE  Cong(Val(z, k), Val(u, k))
    BY DEF Same
  <2>1. PICK a, b, c, d, ka, kb \in Int :
          /\ a = Val(v, k) /\ b = Val(w, k) /\ c = Val(z, k) /\ d = Val(u, k)
          /\ ka = key * a /\ kb = key * b
    <3>1. Element(u)
      BY <1>4 DEF Times
    <3>2. PICK a, b, c, d \in Int :
            a = Val(v, k) /\ b = Val(w, k) /\ c = Val(z, k) /\ d = Val(u, k)
      <4>1. /\ Val(v, k) \in Int /\ Val(w, k) \in Int
            /\ Val(z, k) \in Int /\ Val(u, k) \in Int
        BY <1>2, <1>4, <3>1, OpenFacts
      <4>2. QED
        BY <4>1
    <3>3. key * a \in Int /\ key * b \in Int
      OBVIOUS
    <3>4. QED
      BY <3>2, <3>3
  <2>2. Cong(a, b) /\ Cong(c, ka) /\ Cong(d, kb)
    BY <1>4, <2>1 DEF Same, Times
  <2>3. Cong(ka, kb) /\ Cong(kb, d)
    BY <2>1, <2>2, CongTimes, CongBack
  <2>4. Cong(c, kb)
    BY <2>2, <2>3, CongChain
  <2>5. Cong(c, d)
    BY <2>3, <2>4, CongChain
  <2>6. QED
    BY <2>1, <2>5
<1>5. QED
  BY <1>2, <1>3, <1>4

\* The multiples of a vector.
Multiple(v, key, w, S) == DOMAIN v = S /\ \A i \in S : Times(v[i], key, w[i])

SliceOK(slice) == slice.vole \in Seq(Nat) /\ slice.first \in Nat

LEMMA ProductIs ==
  ASSUME Draws, NEW key \in Int, NEW S, S \subseteq Nat, NEW v, Vector(v, S),
         NEW slice, SliceOK(slice)
  PROVE  Multiple(Product(key, v, slice), key, v, S)
<1>1. PICK vole \in Seq(Nat), first \in Nat : vole = slice.vole /\ first = slice.first
  BY DEF SliceOK
<1>2. DOMAIN v = S /\ \A i \in S : i \in Nat /\ Element(v[i])
  BY DEF Vector
<1>3. PICK w : w = MulHelper(key, v, vole, first) /\ w = Product(key, v, slice)
  BY <1>1 DEF Product
<1>4. DOMAIN w = S
  BY <1>2, <1>3 DEF MulHelper
<1>5. \A i \in S : Times(w[i], key, v[i])
  BY <1>2, <1>3, MulFacts DEF Times
<1>6. QED
  BY <1>3, <1>4, <1>5 DEF Multiple

\* The products of a double round over any vectors: n is xb under p, and so are
\* their products.
OpenSame(v, w, S) == \A j \in S : Open(v[j]) = Open(w[j])

Multiplied(xb, ya, yb, n, bR, nR, aT, bT, p, S) ==
  /\ PermOn(p, S) /\ Vector(xb, S) /\ \A i \in S : Mac(xb[i])
  /\ Matches(ya, yb, p, S) /\ Vector(n, S) /\ \A i \in S : Same(n[p[i]], xb[i])
  /\ Multiple(bR, KeyR, xb, S) /\ Multiple(nR, KeyR, n, S)
  /\ Multiple(aT, KeyT, ya, S) /\ Multiple(bT, KeyT, yb, S)

LEMMA ProductsHold ==
  ASSUME Draws, NEW S, S \subseteq Nat, NEW p, NEW e \in Seq(Nat),
         NEW xb, NEW ya, NEW yb, NEW n, NEW bR, NEW nR, NEW aT, NEW bT,
         Multiplied(xb, ya, yb, n, bR, nR, aT, bT, p, S),
         NEW sh, NEW pR, Masked(sh, pR, bR, aT, bT, p, e)
  PROVE  MacsHold(pR) /\ OpenSame(nR, sh, S)
<1> USE DEF Multiplied
<1>1. /\ KeyR \in Int /\ KeyT \in Int
      /\ \A i \in S : p[i] \in S /\ \A j \in S : \E k \in S : p[k] = j
  BY FieldFacts DEF PermOn
<1>2. /\ \A i \in S : Element(xb[i]) /\ Mac(xb[i]) /\ Element(n[i]) /\ Same(n[p[i]], xb[i])
      /\ \A i \in S : Element(ya[i]) /\ Mac(ya[i]) /\ Element(yb[i]) /\ Same(yb[p[i]], ya[i])
  BY DEF Matches, Vector
<1>3. /\ \A i \in S : Times(bR[i], KeyR, xb[i]) /\ Times(nR[i], KeyR, n[i])
      /\ \A i \in S : Times(aT[i], KeyT, ya[i]) /\ Times(bT[i], KeyT, yb[i])
  BY DEF Multiple
<1>4. \A i \in S : Element(bR[i]) /\ Mac(bR[i]) /\ Element(aT[i]) /\ Mac(aT[i])
  BY <1>1, <1>2, <1>3, TimesFacts
<1>5. \A i \in S : Element(bT[i]) /\ Element(nR[i])
  BY <1>3 DEF Times
<1>6. ASSUME NEW i \in S
      PROVE  Same(bT[p[i]], aT[i]) /\ Same(nR[p[i]], bR[i])
  <2>1. PICK j \in S : j = p[i]
    BY <1>1
  <2>2. PICK u, v, w, z : u = yb[j] /\ v = ya[i] /\ w = bT[j] /\ z = aT[i]
    OBVIOUS
  <2>3. /\ Element(u) /\ Element(v) /\ Same(u, v)
        /\ Times(w, KeyT, u) /\ Times(z, KeyT, v)
    BY <1>2, <1>3, <2>1, <2>2
  <2>4. Same(w, z)
    BY <1>1, <2>3, TimesFacts
  <2>5. PICK u1, v1, w1, z1 : u1 = n[j] /\ v1 = xb[i] /\ w1 = nR[j] /\ z1 = bR[i]
    OBVIOUS
  <2>6. /\ Element(u1) /\ Element(v1) /\ Same(u1, v1)
        /\ Times(w1, KeyR, u1) /\ Times(z1, KeyR, v1)
    BY <1>2, <1>3, <2>1, <2>5
  <2>7. Same(w1, z1)
    BY <1>1, <2>6, TimesFacts
  <2>8. QED
    BY <2>1, <2>2, <2>4, <2>5, <2>7
<1>7. Vector(bR, S) /\ Matches(aT, bT, p, S)
  BY <1>4, <1>5, <1>6 DEF Matches, Vector, Multiple
<1>8. MacsHold(pR) /\ Vector(sh, S) /\ \A i \in S : Same(sh[p[i]], bR[i])
  BY <1>4, <1>7, MaskedIsRight
<1>9. ASSUME NEW j \in S
      PROVE  Open(nR[j]) = Open(sh[j])
  <2>1. PICK i \in S : p[i] = j
    BY <1>1
  <2>2. PICK u, v, w : u = nR[j] /\ v = sh[j] /\ w = bR[i]
    OBVIOUS
  <2>3. Element(u) /\ Element(v) /\ Element(w) /\ Same(u, w) /\ Same(v, w)
    BY <1>4, <1>5, <1>6, <1>8, <2>1, <2>2 DEF Vector
  <2>4. Open(u) = Open(w) /\ Open(v) = Open(w)
    BY <2>3, OpenFacts
  <2>5. QED
    BY <2>2, <2>4
<1>10. QED
  BY <1>8, <1>9 DEF OpenSame

\* Two vectors as one, multiplied, and apart.
LEMMA TwoMultiples ==
  ASSUME NEW m \in Nat \ {0}, NEW S, S = 0 .. m - 1, NEW key, NEW a, NEW b,
         Vector(a, S), Vector(b, S)
  PROVE  /\ Vector(Concat(<<a, b>>), 0 .. 2 * m - 1)
         /\ \A v : Multiple(v, key, Concat(<<a, b>>), 0 .. 2 * m - 1) =>
              /\ Multiple([i \in 0 .. m - 1 |-> v[i]], key, a, S)
              /\ Multiple([i \in 0 .. m - 1 |-> v[m + i]], key, b, S)
<1>1. PICK two \in Nat \ {0} : two = 2
  OBVIOUS
<1>11. PICK g : g = SideBySide(two, m)
  OBVIOUS
<1>2. PICK vecs : /\ vecs = <<a, b>> /\ vecs[1] = a /\ vecs[2] = b
                  /\ IsOver(vecs, 1 .. two)
  <2>1. <<a, b>> = [p \in 1 .. two |-> <<a, b>>[p]] /\ <<a, b>>[1] = a /\ <<a, b>>[2] = b
    BY <1>1
  <2>2. QED
    BY <2>1 DEF IsOver
<1>3. DOMAIN vecs[1] = 0 .. m - 1
  BY <1>2 DEF Vector
<1>4. PICK w : w = Concat(vecs) /\ w = Concat(<<a, b>>)
  BY <1>2
<1>5. /\ DOMAIN w = 0 .. two * m - 1
      /\ \A p \in 1 .. two, i \in 0 .. m - 1 : w[At(p, i, g)] = vecs[p][i]
  <2>1. Laid(Concat(vecs), vecs, 1 .. two, 0 .. m - 1, 0 .. two * m - 1, g)
    BY <1>2, <1>3, <1>11, ConcatAt
  <2>2. QED
    BY <1>4, <2>1 DEF Laid
<1>6. \A i \in 0 .. m - 1 : At(1, i, g) = i /\ At(2, i, g) = m + i
  BY <1>1, <1>11 DEF At, SideBySide
<1>7. \A i \in S : w[i] = a[i] /\ w[m + i] = b[i]
  <2>1. 1 \in 1 .. two /\ 2 \in 1 .. two
    BY <1>1
  <2>2. QED
    BY <1>2, <1>5, <1>6, <2>1
<1>8. \A x \in 0 .. 2 * m - 1 : x \in S \/ \E i \in S : x = m + i
  <2> SUFFICES ASSUME NEW x \in 0 .. 2 * m - 1, x \notin S
               PROVE  \E i \in S : x = m + i
    OBVIOUS
  <2>1. x - m \in S /\ x = m + (x - m)
    OBVIOUS
  <2>2. QED
    BY <2>1
<1>9. Vector(w, 0 .. 2 * m - 1)
  <2>1. \A x \in 0 .. 2 * m - 1 : Element(w[x])
    BY <1>7, <1>8 DEF Vector
  <2>2. DOMAIN w = 0 .. 2 * m - 1
    BY <1>1, <1>5
  <2>3. QED
    BY <2>1, <2>2 DEF Vector
<1>10. ASSUME NEW v, Multiple(v, key, w, 0 .. 2 * m - 1)
       PROVE  /\ Multiple([i \in 0 .. m - 1 |-> v[i]], key, a, S)
              /\ Multiple([i \in 0 .. m - 1 |-> v[m + i]], key, b, S)
  <2>1. \A i \in S : i \in 0 .. 2 * m - 1 /\ m + i \in 0 .. 2 * m - 1
    OBVIOUS
  <2>2. \A i \in S : Times(v[i], key, a[i]) /\ Times(v[m + i], key, b[i])
    BY <1>7, <1>10, <2>1 DEF Multiple
  <2>3. QED
    BY <2>2 DEF Multiple
<1>12. QED
  BY <1>1, <1>4, <1>9, <1>10

\* What a round sees is right.
RoundOK(x, y, S) ==
  /\ Draws /\ turn \in Nat /\ Len(pool) \in Nat
  /\ Good(x, S, Columns) /\ Good(y, S, Columns)

LEMMA OldColumn ==
  ASSUME NEW S, NEW x, NEW y, RoundOK(x, y, S), NEW c \in Columns
  PROVE  Vector(x.b[c], S) /\ \A i \in S : Mac(x.b[c][i])
<1>1. PICK a, b, p : a = x.a[c] /\ b = x.b[c] /\ p = x.perm
  OBVIOUS
<1>2. PermOn(p, S) /\ Matches(a, b, p, S)
  BY <1>1 DEF RoundOK, Good
<1>3. Vector(b, S) /\ \A i \in S : Mac(b[i])
  <2>1. \A i \in S : Mac(b[i]) /\ Element(b[i]) /\ Element(a[i]) /\ Mac(a[i])
    BY <1>2, MatchesMacs
  <2>2. QED
    BY <1>2, <2>1 DEF Matches
<1>4. QED
  BY <1>1, <1>3

LEMMA ColumnRound ==
  ASSUME NEW m \in Nat, NEW S, S = 0 .. m - 1, NEW x, NEW y, RoundOK(x, y, S),
         NEW c \in Columns
  PROVE  /\ MacsHold(Opened(x, y, c)) /\ MacsHold(NewB(x, y, c))
         /\ Vector(NewB(x, y, c), S)
         /\ \A i \in S : Same(NewB(x, y, c)[y.perm[i]], x.b[c][i])
<1>1. /\ Draws /\ S \subseteq Nat /\ PermOn(y.perm, S) /\ PermOn(x.perm, S)
      /\ Matches(x.a[c], x.b[c], x.perm, S) /\ Matches(y.a[c], y.b[c], y.perm, S)
  BY DEF RoundOK, Good
<1>2. PICK t, l, col, nul \in Nat : t = turn /\ l = Len(pool) /\ col = c /\ nul = 0
  BY DEF RoundOK, Columns
<1>3. PICK e \in Seq(Nat) : e = <<turn, Len(pool), c, 0>>
  <2>1. <<t, l, col, nul>> \in Seq(Nat)
    OBVIOUS
  <2>2. QED
    BY <1>2, <2>1
<1>4. PICK xb, n, d : xb = x.b[c] /\ n = NewB(x, y, c) /\ d = Opened(x, y, c)
  OBVIOUS
<1>5. Vector(xb, S) /\ \A i \in S : Mac(xb[i])
  BY <1>4, OldColumn
<1>6. Masked(n, d, xb, y.a[c], y.b[c], y.perm, e)
  BY <1>3, <1>4 DEF NewB, Opened, Masked
<1>7. MacsHold(d) /\ Vector(n, S) /\ \A i \in S : Mac(n[i]) /\ Same(n[y.perm[i]], xb[i])
  BY <1>1, <1>5, <1>6, MaskedIsRight
<1>8. MacsHold(n)
  BY <1>7, OpenFacts DEF MacsHold, Vector
<1>9. QED
  BY <1>4, <1>7, <1>8

LEMMA ColumnProducts ==
  ASSUME NEW m \in Nat \ {0}, NEW S, S = 0 .. m - 1, NEW x, NEW y, RoundOK(x, y, S),
         NEW c \in Columns, NEW slices, \A k \in 1 .. 3 : SliceOK(slices[k])
  PROVE  MacsHold(Products(x, y, c, slices).pR) /\ Products(x, y, c, slices).agree
<1>1. /\ Draws /\ S \subseteq Nat /\ PermOn(y.perm, S) /\ PermOn(x.perm, S)
      /\ Matches(x.a[c], x.b[c], x.perm, S) /\ Matches(y.a[c], y.b[c], y.perm, S)
  BY DEF RoundOK, Good
<1>2. PICK t, l, col, one \in Nat : t = turn /\ l = Len(pool) /\ col = c /\ one = 1
  BY DEF RoundOK, Columns
<1>3. PICK e \in Seq(Nat) : e = <<turn, Len(pool), c, 1>>
  <2>1. <<t, l, col, one>> \in Seq(Nat)
    OBVIOUS
  <2>2. QED
    BY <1>2, <2>1
<1>4. PICK s1, s2, s3 : s1 = slices[1] /\ s2 = slices[2] /\ s3 = slices[3]
                        /\ SliceOK(s1) /\ SliceOK(s2) /\ SliceOK(s3)
  <2>1. 1 \in 1 .. 3 /\ 2 \in 1 .. 3 /\ 3 \in 1 .. 3
    OBVIOUS
  <2>2. QED
    BY <2>1
<1>5. Cardinality(DOMAIN y.perm) = m
  <2>1. \A k \in Nat : Cardinality(0 .. k - 1) = k
    BY ONLY FS_Interval
  <2>2. QED
    BY <1>1, <2>1 DEF PermOn
<1>6. PICK xb, ya, yb, n, p : /\ xb = x.b[c] /\ ya = y.a[c] /\ yb = y.b[c]
                              /\ n = NewB(x, y, c) /\ p = y.perm
  OBVIOUS
<1>7. PICK bR, abT, nR : /\ bR = Product(KeyR, xb, s1) /\ nR = Product(KeyR, n, s3)
                         /\ abT = Product(KeyT, Concat(<<ya, yb>>), s2)
  OBVIOUS
<1>8. PICK aT, bT : aT = [i \in 0 .. m - 1 |-> abT[i]] /\ bT = [i \in 0 .. m - 1 |-> abT[m + i]]
  OBVIOUS
<1>9. PICK pR, sh : pR = SubVec(bR, aT) /\ sh = AddVec(bT, Auth(Put(p, Values(pR)), e))
  OBVIOUS
<1>10. Products(x, y, c, slices) =
         [pR |-> pR, agree |-> \A i \in 0 .. m - 1 : Open(nR[i]) = Open(sh[i])]
  BY <1>3, <1>4, <1>5, <1>6, <1>7, <1>8, <1>9 DEF Products
<1>11. /\ Vector(xb, S) /\ \A i \in S : Mac(xb[i])
       /\ Vector(ya, S) /\ Vector(yb, S) /\ Matches(ya, yb, p, S) /\ PermOn(p, S)
  BY <1>1, <1>6, OldColumn DEF Matches
<1>12. Vector(n, S) /\ \A i \in S : Same(n[p[i]], xb[i])
  BY <1>6, ColumnRound
<1>13. Multiple(bR, KeyR, xb, S) /\ Multiple(nR, KeyR, n, S)
  BY <1>1, <1>4, <1>7, <1>11, <1>12, ProductIs, FieldFacts
<1>14. Multiple(aT, KeyT, ya, S) /\ Multiple(bT, KeyT, yb, S)
  <2>1. PICK w, X : w = Concat(<<ya, yb>>) /\ X = 0 .. 2 * m - 1 /\ X \subseteq Nat
    OBVIOUS
  <2>2. Vector(w, X)
    BY <1>11, <2>1, TwoMultiples
  <2>3. Multiple(abT, KeyT, w, X)
    BY <1>1, <1>4, <1>7, <2>1, <2>2, ProductIs, FieldFacts
  <2>4. QED
    BY <1>8, <1>11, <2>1, <2>3, TwoMultiples
<1>15. Masked(sh, pR, bR, aT, bT, p, e)
  BY <1>9 DEF Masked
<1>16. MacsHold(pR) /\ OpenSame(nR, sh, S)
  <2>1. Multiplied(xb, ya, yb, n, bR, nR, aT, bT, p, S)
    BY <1>11, <1>12, <1>13, <1>14 DEF Multiplied
  <2>2. QED
    BY <1>1, <1>15, <2>1, ProductsHold
<1>17. QED
  BY <1>10, <1>16 DEF OpenSame

\* One permutation after another.
LEMMA ThenPerm ==
  ASSUME NEW S, NEW p, NEW q, PermOn(p, S), PermOn(q, S)
  PROVE  PermOn(Then(p, q), S) /\ \A i \in S : Then(p, q)[i] = q[p[i]]
<1>1. /\ \A i \in S : p[i] \in S /\ q[i] \in S
      /\ \A i, j \in S : p[i] = p[j] => i = j
      /\ \A i, j \in S : q[i] = q[j] => i = j
      /\ \A j \in S : \E i \in S : p[i] = j
      /\ \A j \in S : \E i \in S : q[i] = j
  BY DEF PermOn
<1>2. DOMAIN Then(p, q) = S /\ \A i \in S : Then(p, q)[i] = q[p[i]]
  BY DEF Then, PermOn
<1>3. ASSUME NEW i \in S, NEW j \in S, Then(p, q)[i] = Then(p, q)[j]
      PROVE  i = j
  <2>1. PICK k, l \in S : k = p[i] /\ l = p[j]
    BY <1>1
  <2>2. q[k] = q[l]
    BY <1>2, <1>3, <2>1
  <2>3. k = l
    BY <1>1, <2>2
  <2>4. QED
    BY <1>1, <2>1, <2>3
<1>4. ASSUME NEW j \in S
      PROVE  \E i \in S : Then(p, q)[i] = j
  <2>1. PICK k \in S : q[k] = j
    BY <1>1
  <2>2. PICK i \in S : p[i] = k
    BY <1>1
  <2>3. QED
    BY <1>2, <2>1, <2>2
<1>5. QED
  BY <1>1, <1>2, <1>3, <1>4 DEF PermOn

LEMMA ThenBlocks ==
  ASSUME NEW P, NEW S, NEW X, NEW g, Cells(P, S, X, g), NEW p, NEW q,
         PermOn(p, X), PermOn(q, X), Blocks(p, P, S, g), Blocks(q, P, S, g)
  PROVE  Blocks(Then(p, q), P, S, g)
<1> SUFFICES ASSUME NEW k \in P, NEW i \in S
             PROVE  \E j \in S : Then(p, q)[At(k, i, g)] = At(k, j, g)
  BY DEF Blocks
<1>1. PICK x \in X : x = At(k, i, g)
  BY DEF Cells
<1>2. PICK j \in S : p[x] = At(k, j, g)
  BY <1>1 DEF Blocks
<1>3. PICK l \in S : q[At(k, j, g)] = At(k, l, g)
  BY DEF Blocks
<1>4. Then(p, q)[x] = q[p[x]]
  BY ThenPerm
<1>5. QED
  BY <1>1, <1>2, <1>3, <1>4

\* A round adds nothing to what is found, and what it makes is right.
LEMMA RoundIsRight ==
  ASSUME NEW m \in Nat \ {0}, NEW S, S = 0 .. m - 1, NEW y, RoundOK(acc, y, S),
         NEW voles, voles.no \in Seq(Nat), voles.base \in Nat, Round(y, voles)
  PROVE  /\ found' = found /\ Good(acc', S, Columns)
         /\ acc'.perm = Then(acc.perm, y.perm)
<1>1. \A c \in Columns : MacsHold(Opened(acc, y, c))
  BY ColumnRound
<1>2. \A v \in Lines(acc, y) : MacsHold(v)
  <2>1. 1 \in Columns
    BY DEF Columns
  <2>2. \A c \in Columns : MacsHold(NewB(acc, y, c))
    BY ColumnRound
  <2>3. MacsHold(acc.a[1])
    <3>1. PICK a : a = acc.a[1]
      OBVIOUS
    <3>2. DOMAIN a = S /\ \A i \in S : Element(a[i]) /\ Mac(a[i])
      BY <2>1, <3>1 DEF RoundOK, Good, Matches, Vector
    <3>3. MacsHold(a)
      BY <3>2, OpenFacts DEF MacsHold
    <3>4. QED
      BY <3>1, <3>3
  <2>4. QED
    BY <2>1, <2>2, <2>3 DEF Lines
<1> DEFINE size == Cardinality(DOMAIN y.perm)
           slices == [c \in Columns |-> Slices(c, size, voles)]
           products == [c \in Columns |-> Products(acc, y, c, slices[c])]
<1>3. size = m
  <2>1. \A k \in Nat : Cardinality(0 .. k - 1) = k
    BY ONLY FS_Interval
  <2>2. DOMAIN y.perm = 0 .. m - 1
    BY DEF RoundOK, Good, PermOn
  <2>3. QED
    BY <2>1, <2>2
<1>4. \A c \in Columns : MacsHold(products[c].pR) /\ products[c].agree
  <2> SUFFICES ASSUME NEW c \in Columns
               PROVE  MacsHold(products[c].pR) /\ products[c].agree
    OBVIOUS
  <2>1. PICK sl : sl = slices[c] /\ sl = Slices(c, m, voles)
    BY <1>3
  <2>2. \A k \in 1 .. 3 : SliceOK(sl[k])
    <3>0. c \in 1 .. 2 /\ 1 \in Nat /\ 2 \in Nat
      BY DEF Columns
    <3>1. PICK base \in Nat : base = voles.base
      OBVIOUS
    <3>7. PICK no \in Seq(Nat) : no = voles.no
      OBVIOUS
    <3>8. PICK one \in Nat : one = 1
      OBVIOUS
    <3>9. PICK two \in Nat : two = 2
      OBVIOUS
    <3>10. PICK col \in 1 .. 2 : col = c
      BY <3>0
    <3>2. no \o <<one>> \in Seq(Nat) /\ no \o <<two>> \in Seq(Nat)
      <4>1. <<one>> \in Seq(Nat) /\ <<two>> \in Seq(Nat)
        OBVIOUS
      <4>2. PICK u, v \in Seq(Nat) : u = <<one>> /\ v = <<two>>
        BY <4>1
      <4>3. no \o u \in Seq(Nat) /\ no \o v \in Seq(Nat)
        OBVIOUS
      <4>4. QED
        BY <4>2, <4>3
    <3>3. /\ base + (col - 1) * m \in Nat /\ base + (col - 1) * 2 * m \in Nat
          /\ base + (col + 1) * m \in Nat
      <4>1. col = 1 \/ col = 2
        OBVIOUS
      <4>2. QED
        BY <4>1
    <3>4. \A k \in 1 .. 3 : k = 1 \/ k = 2 \/ k = 3
      OBVIOUS
    <3>5. SliceOK(sl[1]) /\ SliceOK(sl[2]) /\ SliceOK(sl[3])
      <4>1. PICK f1, f2, f3 \in Nat : /\ f1 = base + (col - 1) * m
                                      /\ f2 = base + (col - 1) * 2 * m
                                      /\ f3 = base + (col + 1) * m
        BY <3>3, <3>10
      <4>3. Slices(col, m, voles) =
              <<[vole |-> voles.no \o <<1>>, first |-> voles.base + (col - 1) * m, count |-> m],
                [vole |-> voles.no \o <<2>>, first |-> voles.base + (col - 1) * 2 * m,
                 count |-> 2 * m],
                [vole |-> voles.no \o <<1>>, first |-> voles.base + (col + 1) * m, count |-> m]>>
        BY Zenon DEF Slices
      <4>4. sl = <<[vole |-> no \o <<one>>, first |-> f1, count |-> m],
                   [vole |-> no \o <<two>>, first |-> f2, count |-> 2 * m],
                   [vole |-> no \o <<one>>, first |-> f3, count |-> m]>>
        BY <2>1, <3>1, <3>7, <3>8, <3>9, <3>10, <4>1, <4>3, Zenon
      <4>5. /\ sl[1].vole = no \o <<one>> /\ sl[1].first = f1
            /\ sl[2].vole = no \o <<two>> /\ sl[2].first = f2
            /\ sl[3].vole = no \o <<one>> /\ sl[3].first = f3
        BY <4>4
      <4>2. QED
        BY <3>2, <4>5 DEF SliceOK
    <3>6. QED
      BY <3>4, <3>5
  <2>3. products[c] = Products(acc, y, c, sl)
    BY <2>1
  <2> HIDE DEF products, slices
  <2>4. QED
    BY <2>2, <2>3, ColumnProducts
<1>5. found' = found
      \cup (IF \A c \in Columns : MacsHold(Opened(acc, y, c)) THEN {} ELSE {"open"})
      \cup (IF \A v \in Lines(acc, y) : MacsHold(v) THEN {} ELSE {"line"})
      \cup (IF Multiplies => \A c \in Columns : MacsHold(products[c].pR) THEN {} ELSE {"open"})
      \cup (IF Multiplies => \A c \in Columns : products[c].agree THEN {} ELSE {"double"})
  BY DEF Round
<1> HIDE DEF products, slices, size
<1>6. found' = found
  BY <1>1, <1>2, <1>4, <1>5
<1>7. /\ acc'.perm = Then(acc.perm, y.perm) /\ acc'.a = acc.a
      /\ \A c \in Columns : acc'.b[c] = NewB(acc, y, c)
  BY DEF Round
<1>8. PermOn(acc.perm, S) /\ PermOn(y.perm, S)
  BY DEF RoundOK, Good
<1>9. PICK p, q, t : p = acc.perm /\ q = y.perm /\ t = Then(p, q) /\ PermOn(t, S)
                     /\ PermOn(p, S) /\ \A i \in S : t[i] = q[p[i]]
  BY <1>8, ThenPerm
<1>10. ASSUME NEW c \in Columns
       PROVE  Matches(acc.a[c], NewB(acc, y, c), t, S)
  <2>1. PICK a, b, n : a = acc.a[c] /\ b = acc.b[c] /\ n = NewB(acc, y, c)
    OBVIOUS
  <2>2. Matches(a, b, p, S)
    BY <1>9, <2>1 DEF RoundOK, Good
  <2>3. Vector(n, S) /\ \A i \in S : Same(n[q[i]], b[i])
    BY <1>9, <2>1, ColumnRound
  <2>4. ASSUME NEW i \in S
        PROVE  Mac(a[i]) /\ Same(n[t[i]], a[i])
    <3>1. PICK k \in S : k = p[i] /\ t[i] = q[k]
      BY <1>9 DEF PermOn
    <3>2. t[i] \in S
      BY <1>9 DEF PermOn
    <3>3. PICK u, v, w : u = n[t[i]] /\ v = b[k] /\ w = a[i]
      OBVIOUS
    <3>4. Element(u) /\ Element(v) /\ Element(w) /\ Same(u, v) /\ Same(v, w) /\ Mac(w)
      BY <2>2, <2>3, <3>1, <3>2, <3>3 DEF Matches, Vector
    <3>5. Same(u, w)
      <4>1. Open(u) = Open(v) /\ Open(v) = Open(w)
        BY <3>4, OpenFacts
      <4>2. QED
        BY <3>4, <4>1, OpenFacts
    <3>6. QED
      BY <3>3, <3>4, <3>5
  <2>5. Matches(a, n, t, S)
    BY <2>2, <2>3, <2>4 DEF Matches
  <2>6. QED
    BY <2>1, <2>5
<1>11. Good(acc', S, Columns)
  BY <1>7, <1>9, <1>10 DEF Good
<1>12. QED
  BY <1>6, <1>7, <1>11

-----------------------------------------------------------------------------
\* The places of the blocks of a layer.

\* The powers of two, and their products: as many as the sets of numbers.
LEMMA PowerFacts ==
  /\ 2 ^ 0 = 1
  /\ \A k \in Nat : 2 ^ k \in Nat \ {0} /\ 2 ^ (k + 1) = 2 * 2 ^ k
  /\ \A a, b \in Nat : 2 ^ (a + b) = 2 ^ a * 2 ^ b
<1> DEFINE pw == [k \in Nat |-> 2 ^ k]
<1>1. ASSUME NEW k \in Nat
      PROVE  /\ IsFiniteSet(1 .. k) /\ Cardinality(1 .. k) = k
             /\ IsFiniteSet(SUBSET (1 .. k))
             /\ Cardinality(SUBSET (1 .. k)) \in Nat
             /\ pw[k] = Cardinality(SUBSET (1 .. k))
  <2>1. IsFiniteSet(1 .. k) /\ Cardinality(1 .. k) = k
    BY FS_Interval
  <2>2. PICK K, c : K = 1 .. k /\ c = Cardinality(K)
    OBVIOUS
  <2>3. IsFiniteSet(SUBSET K) /\ Cardinality(SUBSET K) = 2 ^ c
    BY <2>1, <2>2, FS_SUBSET, Zenon
  <2>4. Cardinality(SUBSET K) \in Nat
    BY <2>3, FS_CardinalityType
  <2>5. pw[k] = 2 ^ k
    OBVIOUS
  <2>6. QED
    BY <2>1, <2>2, <2>3, <2>4, <2>5, Zenon
<1>2. pw[0] = 1
  OBVIOUS
<1>3. ASSUME NEW k \in Nat
      PROVE  pw[k + 1] = 2 * pw[k]
  <2> DEFINE A == SUBSET (1 .. k)
             B == {X \cup {k + 1} : X \in A}
  <2>1. SUBSET (1 .. k + 1) = A \cup B
    <3>1. ASSUME NEW Y \in SUBSET (1 .. k + 1)
          PROVE  Y \in A \cup B
      <4>1. CASE k + 1 \in Y
        <5>1. Y \ {k + 1} \in A /\ Y = (Y \ {k + 1}) \cup {k + 1}
          BY <4>1
        <5>2. QED
          BY <5>1
      <4>2. CASE k + 1 \notin Y
        <5>1. Y \in A
          BY <4>2
        <5>2. QED
          BY <5>1
      <4>3. QED
        BY <4>1, <4>2
    <3>2. ASSUME NEW Y \in A \cup B
          PROVE  Y \in SUBSET (1 .. k + 1)
      <4>1. PICK X \in A : Y = X \/ Y = X \cup {k + 1}
        OBVIOUS
      <4>2. X \subseteq 1 .. k + 1 /\ k + 1 \in 1 .. k + 1
        OBVIOUS
      <4>3. QED
        BY <4>1, <4>2
    <3>3. QED
      BY <3>1, <3>2
  <2>2. A \cap B = {}
    OBVIOUS
  <2>3. ExistsBijection(A, B)
    <3>1. PICK f : f = [X \in A |-> X \cup {k + 1}]
      OBVIOUS
    <3>2. \A X, Y \in A : f[X] = f[Y] => X = Y
      BY <3>1
    <3>3. f \in [A -> B] /\ \A Y \in B : \E X \in A : f[X] = Y
      BY <3>1
    <3>4. QED
      BY <3>2, <3>3 DEF ExistsBijection, Bijection, Injection, IsInjective, Surjection
  <2> HIDE DEF B
  <2>4. IsFiniteSet(A) /\ Cardinality(A) \in Nat /\ pw[k] = Cardinality(A)
    BY <1>1
  <2>5. IsFiniteSet(B) /\ Cardinality(B) = Cardinality(A)
    BY <2>3, <2>4, FS_Bijection
  <2> HIDE DEF A
  <2>6. Cardinality(A \cup B) = Cardinality(A) + Cardinality(B) - Cardinality(A \cap B)
    BY <2>4, <2>5, FS_Union
  <2>7. Cardinality(A \cap B) = 0
    BY <2>2, FS_EmptySet
  <2>8. pw[k + 1] = Cardinality(A \cup B)
    <3>1. k + 1 \in Nat
      OBVIOUS
    <3>2. QED
      BY <1>1, <2>1, <3>1
  <2> HIDE DEF pw
  <2>9. QED
    BY <2>4, <2>5, <2>6, <2>7, <2>8
<1> HIDE DEF pw
<1>4. \A k \in Nat : pw[k] \in Nat \ {0}
  <2> DEFINE S == {k \in Nat : pw[k] \in Nat \ {0}}
  <2>1. 0 \in S
    BY <1>2
  <2>2. ASSUME NEW k \in Nat, k \in S
        PROVE  k + 1 \in S
    BY <1>3, <2>2
  <2>3. Nat \subseteq S
    <3> HIDE DEF S
    <3>1. QED
      BY <2>1, <2>2, NatSetInduction
  <2>4. QED
    BY <2>3
<1>5. ASSUME NEW a \in Nat
      PROVE  \A b \in Nat : pw[a + b] = pw[a] * pw[b]
  <2> DEFINE S == {b \in Nat : pw[a + b] = pw[a] * pw[b]}
  <2>1. 0 \in S
    <3>1. pw[a] \in Int /\ a + 0 = a
      BY <1>4
    <3>2. pw[a] * 1 = pw[a]
      BY <3>1
    <3>3. QED
      BY <1>2, <3>1, <3>2
  <2>2. ASSUME NEW b \in Nat, b \in S
        PROVE  b + 1 \in S
    <3>1. a + (b + 1) = (a + b) + 1 /\ a + b \in Nat /\ b + 1 \in Nat
      OBVIOUS
    <3>2. PICK u, v, w \in Int : u = pw[a] /\ v = pw[b] /\ w = pw[a + b]
      BY <1>4, <3>1
    <3>3. w = u * v /\ pw[a + (b + 1)] = 2 * w /\ pw[b + 1] = 2 * v
      BY <1>3, <2>2, <3>1, <3>2
    <3>4. 2 * (u * v) = u * (2 * v)
      OBVIOUS
    <3>5. pw[a + (b + 1)] = pw[a] * pw[b + 1]
      BY <3>2, <3>3, <3>4
    <3>6. QED
      BY <3>1, <3>5
  <2>3. Nat \subseteq S
    <3> HIDE DEF S
    <3>1. QED
      BY <2>1, <2>2, NatSetInduction
  <2>4. QED
    BY <2>3
<1>6. \A k \in Nat : pw[k] = 2 ^ k
  BY Zenon DEF pw
<1>7. \A a, b \in Nat : a + b \in Nat
  OBVIOUS
<1>8. 0 \in Nat /\ \A k \in Nat : k + 1 \in Nat
  OBVIOUS
<1>9. QED
  BY <1>2, <1>3, <1>4, <1>5, <1>6, <1>7, <1>8, Zenon

LEMMA MaxOfTwo ==
  ASSUME NEW a \in Int, NEW b \in Int
  PROVE  Max({a, b}) = IF a >= b THEN a ELSE b
<1>1. PICK m \in {a, b} : \A y \in {a, b} : m >= y
  OBVIOUS
<1>2. Max({a, b}) \in {a, b} /\ \A y \in {a, b} : Max({a, b}) >= y
  BY <1>1 DEF Max
<1>3. QED
  BY <1>2

\* The places of a layer's block are a step apart, and the blocks before the
\* next jump are as many as a step.
LEMMA StepFacts ==
  ASSUME JobOK, job.name \in Functions2k, NEW l \in 0 .. depth - 1
  PROVE  /\ Step(l) \in Nat \ {0} /\ job.n = job.T * T_num
         /\ \E w \in Nat \ {0} : T_num = w * Step(l)
<1>1. PICK j \in Jobs : job.name = j.name /\ job.n = j.n /\ job.T = j.T
  BY DEF JobOK
<1>2. /\ {j.T, Log2Ceil(j.T), Log2Ceil(j.n)} \subseteq Nat \ {0}
      /\ j.n \in Nat /\ j.n >= j.T
      /\ j.n = 2 ^ Log2Ceil(j.n) /\ j.T = 2 ^ Log2Ceil(j.T)
  BY <1>1, BlocksAssumption, LayersAssumption
<1>3. PICK pw : pw = [k \in Nat |-> 2 ^ k]
  OBVIOUS
<1>4. /\ pw[0] = 1
      /\ \A k \in Nat : pw[k] \in Nat \ {0}
      /\ \A a, b \in Nat : pw[a + b] = pw[a] * pw[b]
  <2>1. \A k \in Nat : pw[k] = 2 ^ k
    BY <1>3, Zenon
  <2>2. 0 \in Nat /\ \A a, b \in Nat : a + b \in Nat
    OBVIOUS
  <2>3. QED
    BY <2>1, <2>2, PowerFacts, Zenon
<1>5. PICK nb \in Nat \ {0} : nb = num_bits /\ job.n = 2 ^ nb
  BY <1>1, <1>2, Zenon DEF num_bits
<1>6. PICK tb \in Nat \ {0} : tb = T_bits /\ job.T = 2 ^ tb
  BY <1>1, <1>2, Zenon DEF T_bits
<1>7. PICK n \in Nat \ {0} : n = job.n /\ n = pw[nb]
  <2>1. nb \in Nat
    OBVIOUS
  <2>2. pw[nb] = 2 ^ nb
    BY <1>3, <2>1, Zenon
  <2>3. QED
    BY <1>4, <1>5, <2>1, <2>2, Zenon
<1>8. PICK m \in Nat \ {0} : m = job.T /\ m = pw[tb]
  <2>1. tb \in Nat
    OBVIOUS
  <2>2. pw[tb] = 2 ^ tb
    BY <1>3, <2>1, Zenon
  <2>3. QED
    BY <1>4, <1>6, <2>1, <2>2, Zenon
<1>9. n >= m
  BY <1>1, <1>2, <1>7, <1>8
<1>10. nb >= tb
  <2> SUFFICES ASSUME nb < tb
               PROVE  FALSE
    OBVIOUS
  <2>1. PICK d \in Nat : tb = nb + (1 + d)
    BY SMT
  <2>2. PICK u, v \in Nat \ {0} : u = pw[1] /\ v = pw[d]
    BY <1>4
  <2>3. u >= 2
    <3>1. pw[0 + 1] = 2 * pw[0]
      <4>1. 0 \in Nat /\ 0 + 1 \in Nat
        OBVIOUS
      <4>2. QED
        BY <1>3, <4>1, PowerFacts, Zenon
    <3>2. 0 + 1 = 1
      OBVIOUS
    <3>3. u = 2 * 1
      BY <1>4, <2>2, <3>1, <3>2, Zenon
    <3>4. QED
      BY <3>3
  <2>4. m = n * (u * v)
    <3>1. 1 + d \in Nat /\ nb \in Nat /\ 1 \in Nat
      OBVIOUS
    <3>2. pw[nb + (1 + d)] = pw[nb] * pw[1 + d] /\ pw[1 + d] = pw[1] * pw[d]
      BY <1>4, <3>1
    <3>3. QED
      BY <1>7, <1>8, <2>1, <2>2, <3>2
  <2>5. u * v >= 2
    <3>1. PICK e \in Nat, f \in Nat : u = 2 + e /\ v = 1 + f
      BY <2>3, SMT
    <3>2. (2 + e) * (1 + f) = 2 + 2 * f + e + e * f /\ e * f \in Nat
      OBVIOUS
    <3>3. QED
      BY <3>1, <3>2
  <2>6. PICK x \in Nat : u * v = 2 + x
    BY <2>5
  <2>7. n * (2 + x) = 2 * n + n * x /\ n * x \in Nat
    OBVIOUS
  <2>8. QED
    BY <1>9, <2>4, <2>6, <2>7
<1>11. PICK d \in Nat : nb = tb + d
  BY <1>10, SMT
<1>12. PICK N \in Nat \ {0} : N = pw[d] /\ n = m * N /\ T_num = N
  <2>1. PICK N \in Nat \ {0} : N = pw[d]
    BY <1>4
  <2>2. n = m * N
    BY <1>4, <1>7, <1>8, <1>11, <2>1
  <2>3. n = N * m + 0
    BY <2>2
  <2>4. (N * m + 0) \div m = N
    BY DivUnique
  <2>5. QED
    BY <1>7, <1>8, <2>1, <2>2, <2>3, <2>4 DEF T_num
<1>13. PICK k \in Nat : k = Mirror(l)
  <2>1. depth \in Nat
    BY Sizes
  <2>2. Mirror(l) \in Nat
    BY <2>1 DEF Mirror
  <2>3. QED
    BY <2>2
<1>14. PICK e \in Int : e = nb - (k + 1) * tb /\ Step(l) = 2 ^ Max({0, e})
  <2>1. PICK e \in Int : e = nb - (k + 1) * tb
    OBVIOUS
  <2>2. e = num_bits - (Mirror(l) + 1) * T_bits
    BY <1>5, <1>6, <1>13, <2>1, Zenon
  <2>3. Step(l) = 2 ^ Max({0, e})
    BY <2>2, Zenon DEF Step
  <2>4. QED
    BY <2>1, <2>3
<1>15. CASE e <= 0
  <2>1. Max({0, e}) = 0
    BY <1>15, MaxOfTwo
  <2>2. Step(l) = 1
    BY <1>14, <2>1, PowerFacts
  <2>3. T_num = N * Step(l)
    BY <1>12, <2>2
  <2>4. QED
    BY <1>7, <1>8, <1>12, <2>2, <2>3
<1>16. CASE e > 0
  <2>1. Max({0, e}) = e
    BY <1>16, MaxOfTwo
  <2>2. PICK f \in Nat : f = e
    BY <1>16
  <2>3. Step(l) = pw[f]
    BY <1>3, <1>14, <2>1, <2>2, Zenon
  <2>4. PICK g \in Nat : g = k * tb
    OBVIOUS
  <2>5. d = g + f
    <3>1. (k + 1) * tb = k * tb + tb
      OBVIOUS
    <3>2. QED
      BY <1>11, <1>14, <2>2, <2>4, <3>1
  <2>6. PICK w \in Nat \ {0} : w = pw[g]
    BY <1>4
  <2>7. N = w * pw[f]
    BY <1>4, <1>12, <2>5, <2>6
  <2>8. Step(l) \in Nat \ {0}
    BY <1>4, <2>3
  <2>9. QED
    BY <1>7, <1>8, <1>12, <2>3, <2>6, <2>7, <2>8
<1>17. QED
  BY <1>15, <1>16

\* What follows an offset.
Onward(x, s, m) ==
  LET next == x + 1 IN IF next % (m * s) = s THEN next + s * (m - 1) ELSE next

LEMMA OnwardIs ==
  ASSUME NEW s \in Nat \ {0}, NEW m \in Nat \ {0}, NEW q \in Nat, NEW i \in 0 .. s - 1
  PROVE  Onward(q * (m * s) + i, s, m) =
           IF i + 1 = s THEN (q + 1) * (m * s) ELSE q * (m * s) + (i + 1)
<1>1. PICK k \in Nat \ {0} : k = m * s
  OBVIOUS
<1>2. PICK b \in Nat : b = q * k
  OBVIOUS
<1>3. Onward(q * (m * s) + i, s, m) =
        IF ((b + i) + 1) % k = s THEN ((b + i) + 1) + s * (m - 1) ELSE (b + i) + 1
  BY <1>1, <1>2 DEF Onward
<1>4. (b + i) + 1 = b + (i + 1)
  OBVIOUS
<1>5. (q + 1) * k = b + k /\ s * (m - 1) = k - s
  BY <1>1, <1>2
<1>6. m >= 2 => k >= 2 * s
  <2>1. ASSUME m >= 2
        PROVE  k >= 2 * s
    <3>1. PICK d \in Nat : m = 2 + d
      BY <2>1
    <3>2. (2 + d) * s = 2 * s + d * s /\ d * s \in Nat
      OBVIOUS
    <3>3. QED
      BY <1>1, <3>1, <3>2
  <2>2. QED
    BY <2>1
<1>7. m < 2 => k = s
  BY <1>1
<1>8. CASE i + 1 < k
  <2>1. (q * k + (i + 1)) % k = i + 1
    <3>1. PICK x \in 0 .. k - 1 : x = i + 1
      BY <1>8
    <3>2. QED
      BY <3>1, DivUnique
  <2>2. ((b + i) + 1) % k = i + 1
    BY <1>2, <1>4, <2>1
  <2>3. QED
    BY <1>1, <1>2, <1>3, <1>4, <1>5, <2>2
<1>9. CASE i + 1 >= k
  <2>1. k = s /\ i + 1 = s
    BY <1>6, <1>7, <1>9
  <2>2. QED
    BY <1>1, <1>2, <1>3, <1>4, <1>5, <2>1
<1>10. QED
  BY <1>8, <1>9

\* The offsets of compose_vec_2k: jumps after each step of blocks.
IsOffset(g, s, m, N) ==
  g = [p \in 0 .. N - 1 |->
         IF p = 0 THEN 0
         ELSE LET next == g[p - 1] + 1
              IN  IF next % (m * s) = s THEN next + s * (m - 1) ELSE next]

LEMMA OffsetRule ==
  ASSUME NEW s, NEW m, NEW N \in Nat \ {0}, NEW g, IsOffset(g, s, m, N)
  PROVE  g[0] = 0 /\ \A p \in 1 .. N - 1 : g[p] = Onward(g[p - 1], s, m)
<1> DEFINE G(h) == [p \in 0 .. N - 1 |->
                      IF p = 0 THEN 0
                      ELSE LET next == h[p - 1] + 1
                           IN  IF next % (m * s) = s THEN next + s * (m - 1) ELSE next]
<1>1. g = G(g)
  BY DEF IsOffset
<1>2. \A p \in 0 .. N - 1 : G(g)[p] = IF p = 0 THEN 0 ELSE Onward(g[p - 1], s, m)
  BY DEF Onward
<1> HIDE DEF G
<1>3. \A p \in 0 .. N - 1 : g[p] = IF p = 0 THEN 0 ELSE Onward(g[p - 1], s, m)
  BY <1>1, <1>2
<1>4. 0 \in 0 .. N - 1 /\ \A p \in 1 .. N - 1 : p \in 0 .. N - 1 /\ p # 0
  OBVIOUS
<1>5. QED
  BY <1>3, <1>4

LEMMA OffsetIs ==
  ASSUME NEW s \in Nat \ {0}, NEW m \in Nat \ {0}, m = job.T,
         NEW w \in Nat \ {0}, T_num = w * s
  PROVE  \A q \in 0 .. w - 1, i \in 0 .. s - 1 : Offset(s)[q * s + i] = q * (m * s) + i
<1>1. PICK N \in Nat \ {0} : N = w * s /\ N = T_num
  OBVIOUS
<1>2. PICK f : f = [p \in 0 .. N - 1 |-> (p \div s) * (m * s) + (p % s)]
  OBVIOUS
<1>3. \A q \in Nat, i \in 0 .. s - 1 : (q * s + i) \div s = q /\ (q * s + i) % s = i
  BY DivUnique
<1>4. ASSUME NEW q \in Nat, NEW i \in 0 .. s - 1, q * s + i \in 0 .. N - 1
      PROVE  f[q * s + i] = q * (m * s) + i
  BY <1>2, <1>3, <1>4
<1>13. \A q \in Nat, i \in 0 .. s - 1 :
         Onward(q * (m * s) + i, s, m) =
           IF i + 1 = s THEN (q + 1) * (m * s) ELSE q * (m * s) + (i + 1)
  BY OnwardIs
<1>5. f[0] = 0
  <2>1. 0 * s + 0 = 0 /\ 0 * (m * s) + 0 = 0
    OBVIOUS
  <2>2. f[0 * s + 0] = 0 * (m * s) + 0
    BY <1>4
  <2>3. QED
    BY <2>1, <2>2
<1>6. ASSUME NEW p \in Nat, p + 1 \in 0 .. N - 1
      PROVE  f[p + 1] = Onward(f[p], s, m)
  <2>1. PICK q \in Nat, i \in 0 .. s - 1 : p = q * s + i
    <3>1. PICK q \in Int, i \in 0 .. s - 1 : p = s * q + i
      <4>1. p \in Int
        OBVIOUS
      <4>2. QED
        BY <4>1, DivFacts, Zenon
    <3>2. q >= 0
      <4>1. ASSUME q <= -1
            PROVE  FALSE
        <5>1. s * (-q - 1) >= 0
          BY <4>1
        <5>2. s * (-q - 1) = -(s * q) - s
          OBVIOUS
        <5>3. QED
          BY <3>1, <5>1, <5>2
      <4>2. QED
        BY <4>1
    <3>3. s * q = q * s
      OBVIOUS
    <3>4. QED
      BY <3>1, <3>2, <3>3
  <2>2. f[p] = q * (m * s) + i
    <3>1. q * s + i \in 0 .. N - 1
      BY <1>6, <2>1
    <3>2. QED
      BY <1>4, <2>1, <3>1
  <2>6. Onward(f[p], s, m) = IF i + 1 = s THEN (q + 1) * (m * s) ELSE q * (m * s) + (i + 1)
    <3>1. Onward(q * (m * s) + i, s, m) =
            IF i + 1 = s THEN (q + 1) * (m * s) ELSE q * (m * s) + (i + 1)
      BY <1>13
    <3>2. QED
      BY <2>2, <3>1, Zenon
  <2>3. CASE i + 1 = s
    <3>1. p + 1 = (q + 1) * s + 0
      BY <2>1, <2>3
    <3>2. f[(q + 1) * s + 0] = (q + 1) * (m * s) + 0
      <4>1. PICK u \in Nat : u = q + 1
        OBVIOUS
      <4>2. u * s + 0 \in 0 .. N - 1
        BY <1>6, <3>1, <4>1
      <4>3. QED
        BY <1>4, <4>1, <4>2
    <3>3. (q + 1) * (m * s) + 0 = (q + 1) * (m * s)
      OBVIOUS
    <3>4. Onward(f[p], s, m) = (q + 1) * (m * s)
      BY <2>3, <2>6
    <3>5. QED
      BY <3>1, <3>2, <3>3, <3>4
  <2>4. CASE i + 1 # s
    <3>1. PICK j \in 0 .. s - 1 : j = i + 1
      BY <2>4
    <3>2. p + 1 = q * s + j
      BY <2>1, <3>1
    <3>3. f[q * s + j] = q * (m * s) + j
      BY <1>4, <1>6, <3>2
    <3>4. Onward(f[p], s, m) = q * (m * s) + (i + 1)
      BY <2>4, <2>6
    <3>5. QED
      BY <3>1, <3>2, <3>3, <3>4
  <2>5. QED
    BY <2>3, <2>4
<1>7. IsOffset(f, s, m, N)
  <2>1. ASSUME NEW p \in 0 .. N - 1
        PROVE  f[p] = IF p = 0 THEN 0 ELSE Onward(f[p - 1], s, m)
    <3>1. CASE p = 0
      BY <1>5, <3>1
    <3>2. CASE p # 0
      <4>1. PICK k \in Nat : p = k + 1 /\ k = p - 1
        BY <3>2
      <4>2. f[k + 1] = Onward(f[k], s, m)
        BY <1>6, <4>1
      <4>3. QED
        BY <3>2, <4>1, <4>2
    <3>3. QED
      BY <3>1, <3>2
  <2>2. f = [p \in 0 .. N - 1 |-> IF p = 0 THEN 0 ELSE Onward(f[p - 1], s, m)]
    BY <1>2, <2>1
  <2>3. QED
    BY <2>2 DEF IsOffset, Onward
<1>8. IsOffset(Offset(s), s, m, N)
  <2>1. Offset(s) = CHOOSE g : IsOffset(g, s, m, N)
    BY <1>1 DEF Offset, IsOffset
  <2>2. QED
    BY <1>7, <2>1
<1>9. PICK g : g = Offset(s) /\ IsOffset(g, s, m, N)
  BY <1>8
<1>10. \A p \in 0 .. N - 1 : g[p] = f[p]
  <2> DEFINE S == {p \in Nat : p \in 0 .. N - 1 => g[p] = f[p]}
  <2>1. g[0] = 0 /\ \A p \in 1 .. N - 1 : g[p] = Onward(g[p - 1], s, m)
    BY <1>9, OffsetRule
  <2>2. 0 \in S
    BY <1>5, <2>1
  <2>3. ASSUME NEW p \in Nat, p \in S
        PROVE  p + 1 \in S
    <3>1. SUFFICES ASSUME p + 1 \in 0 .. N - 1
                   PROVE  g[p + 1] = f[p + 1]
      OBVIOUS
    <3>2. g[p] = f[p]
      BY <2>3, <3>1
    <3>3. PICK k \in 1 .. N - 1 : k = p + 1 /\ k - 1 = p
      BY <3>1
    <3>4. g[k] = Onward(g[p], s, m)
      BY <2>1, <3>3
    <3>5. f[p + 1] = Onward(f[p], s, m)
      BY <1>6, <3>1
    <3>6. QED
      BY <3>2, <3>3, <3>4, <3>5
  <2>4. Nat \subseteq S
    <3> HIDE DEF S
    <3>1. QED
      BY <2>2, <2>3, NatSetInduction
  <2>5. QED
    BY <2>4
<1>11. ASSUME NEW q \in 0 .. w - 1, NEW i \in 0 .. s - 1
       PROVE  Offset(s)[q * s + i] = q * (m * s) + i
  <2>1. PICK d \in Nat : w = q + 1 + d
    BY SMT
  <2>2. q * s \in Nat /\ d * s \in Nat /\ w * s = q * s + s + d * s
    BY <2>1
  <2>3. q * s + i \in 0 .. N - 1
    BY <1>1, <2>2
  <2>4. QED
    BY <1>4, <1>9, <1>10, <2>3
<1>12. QED
  BY <1>11

\* Two numbers for one.
Grid(n, m, X) ==
  /\ \A q \in 0 .. n - 1, i \in 0 .. m - 1 : q * m + i \in X
  /\ \A p, q \in 0 .. n - 1, i, j \in 0 .. m - 1 : p * m + i = q * m + j => p = q /\ i = j
  /\ \A x \in X : \E q \in 0 .. n - 1, i \in 0 .. m - 1 : x = q * m + i

LEMMA GridIs ==
  ASSUME NEW n \in Nat, NEW m \in Nat \ {0}
  PROVE  Grid(n, m, 0 .. n * m - 1)
BY GridFacts DEF Grid

\* The places of a layer's blocks.
LayerPlaces(l) ==
  [p \in 1 .. T_num |-> [j \in 0 .. job.T - 1 |-> Offset(Step(l))[p - 1] + j * Step(l)]]

\* They are those of the vector, each once: block q * s + i has the places
\* i, s + i and so on of the q-th part.
LEMMA LayerCells ==
  ASSUME JobOK, job.name \in Functions2k, NEW l \in 0 .. depth - 1
  PROVE  Cells(1 .. T_num, I, 0 .. job.n - 1, LayerPlaces(l))
<1>1. PICK s \in Nat \ {0}, w \in Nat \ {0} : s = Step(l) /\ T_num = w * s
  BY StepFacts
<1>2. PICK m \in Nat \ {0} : m = job.T /\ job.n = m * T_num /\ I = 0 .. m - 1
  BY StepFacts, Sizes DEF I
<1>3. PICK N \in Nat \ {0} : N = T_num /\ N = w * s
  BY <1>1
<1>4. PICK c \in Nat \ {0} : c = w * m
  OBVIOUS
<1>5. PICK n \in Nat \ {0} : n = job.n /\ n = c * s
  <2>1. m * (w * s) = (w * m) * s
    OBVIOUS
  <2>2. c * s \in Nat \ {0}
    OBVIOUS
  <2>3. QED
    BY <1>2, <1>3, <1>4, <2>1, <2>2
<1>6. /\ \A q \in 0 .. w - 1, i \in 0 .. s - 1 : q * s + i \in 0 .. N - 1
      /\ \A x \in 0 .. N - 1 : \E q \in 0 .. w - 1, i \in 0 .. s - 1 : x = q * s + i
  <2>1. Grid(w, s, 0 .. N - 1)
    BY <1>3, GridIs
  <2>2. QED
    BY <2>1 DEF Grid
<1>7. /\ \A q \in 0 .. w - 1, j \in 0 .. m - 1 : q * m + j \in 0 .. c - 1
      /\ \A p, q \in 0 .. w - 1, i, j \in 0 .. m - 1 :
           p * m + i = q * m + j => p = q /\ i = j
      /\ \A x \in 0 .. c - 1 : \E q \in 0 .. w - 1, j \in 0 .. m - 1 : x = q * m + j
  <2>1. Grid(w, m, 0 .. c - 1)
    BY <1>4, GridIs
  <2>2. QED
    BY <2>1 DEF Grid
<1>8. /\ \A u \in 0 .. c - 1, i \in 0 .. s - 1 : u * s + i \in 0 .. n - 1
      /\ \A u, v \in 0 .. c - 1, i, j \in 0 .. s - 1 :
           u * s + i = v * s + j => u = v /\ i = j
      /\ \A x \in 0 .. n - 1 : \E u \in 0 .. c - 1, i \in 0 .. s - 1 : x = u * s + i
  <2>1. Grid(c, s, 0 .. n - 1)
    BY <1>5, GridIs
  <2>2. QED
    BY <2>1 DEF Grid
<1>9. PICK g : g = LayerPlaces(l)
  OBVIOUS
<1>18. \A q \in 0 .. w - 1, i \in 0 .. s - 1 : Offset(s)[q * s + i] = q * (m * s) + i
  <2>1. m = job.T /\ T_num = w * s
    BY <1>1, <1>2
  <2>2. QED
    BY <2>1, OffsetIs
<1>10. ASSUME NEW q \in 0 .. w - 1, NEW i \in 0 .. s - 1, NEW p \in 1 .. N,
              p = (q * s + i) + 1, NEW j \in 0 .. m - 1
       PROVE  At(p, j, g) = (q * m + j) * s + i
  <2>1. At(p, j, g) = Offset(s)[p - 1] + j * s
    BY <1>1, <1>2, <1>3, <1>9 DEF At, LayerPlaces
  <2>2. Offset(s)[q * s + i] = q * (m * s) + i
    BY <1>18
  <2>3. PICK x \in Int : x = q * s + i
    OBVIOUS
  <2>4. p - 1 = x
    BY <1>10, <2>3
  <2>5. At(p, j, g) = (q * (m * s) + i) + j * s
    BY <2>1, <2>2, <2>3, <2>4
  <2>6. (q * (m * s) + i) + j * s = (q * m + j) * s + i
    OBVIOUS
  <2>7. QED
    BY <2>5, <2>6
<1>11. ASSUME NEW p \in 1 .. N
       PROVE  \E q \in 0 .. w - 1, i \in 0 .. s - 1 : p = (q * s + i) + 1
  <2>1. PICK x \in 0 .. N - 1 : p = x + 1
    BY SMT
  <2>2. PICK q \in 0 .. w - 1, i \in 0 .. s - 1 : x = q * s + i
    BY <1>6, Zenon
  <2>3. QED
    BY <2>1, <2>2
<1>12. ASSUME NEW p \in 1 .. N, NEW j \in 0 .. m - 1
       PROVE  \E q \in 0 .. w - 1, i \in 0 .. s - 1, u \in 0 .. c - 1 :
                /\ p = (q * s + i) + 1 /\ u = q * m + j /\ At(p, j, g) = u * s + i
  <2>1. PICK q \in 0 .. w - 1, i \in 0 .. s - 1 : p = (q * s + i) + 1
    BY <1>11, Zenon
  <2>2. PICK u \in 0 .. c - 1 : u = q * m + j
    BY <1>7
  <2>3. At(p, j, g) = u * s + i
    BY <1>10, <2>1, <2>2
  <2>4. QED
    BY <2>1, <2>2, <2>3
<1>13. ASSUME NEW p \in 1 .. N, NEW j \in 0 .. m - 1
       PROVE  At(p, j, g) \in 0 .. n - 1
  <2>1. PICK q \in 0 .. w - 1, i \in 0 .. s - 1, u \in 0 .. c - 1 :
          p = (q * s + i) + 1 /\ u = q * m + j /\ At(p, j, g) = u * s + i
    BY <1>12
  <2>2. u * s + i \in 0 .. n - 1
    BY <1>8
  <2>3. QED
    BY <2>1, <2>2
<1>14. ASSUME NEW p \in 1 .. N, NEW o \in 1 .. N, NEW j \in 0 .. m - 1, NEW k \in 0 .. m - 1,
              At(p, j, g) = At(o, k, g)
       PROVE  p = o /\ j = k
  <2>1. PICK q \in 0 .. w - 1, i \in 0 .. s - 1, u \in 0 .. c - 1 :
          p = (q * s + i) + 1 /\ u = q * m + j /\ At(p, j, g) = u * s + i
    BY <1>12
  <2>2. PICK q1 \in 0 .. w - 1, i1 \in 0 .. s - 1, u1 \in 0 .. c - 1 :
          o = (q1 * s + i1) + 1 /\ u1 = q1 * m + k /\ At(o, k, g) = u1 * s + i1
    BY <1>12
  <2>3. u = u1 /\ i = i1
    BY <1>8, <1>14, <2>1, <2>2
  <2>4. q = q1 /\ j = k
    BY <1>7, <2>1, <2>2, <2>3
  <2>5. QED
    BY <2>1, <2>2, <2>3, <2>4
<1>15. ASSUME NEW x \in 0 .. n - 1
       PROVE  \E p \in 1 .. N, j \in 0 .. m - 1 : x = At(p, j, g)
  <2>1. PICK u \in 0 .. c - 1, i \in 0 .. s - 1 : x = u * s + i
    BY <1>8, Zenon
  <2>2. PICK q \in 0 .. w - 1, j \in 0 .. m - 1 : u = q * m + j
    BY <1>7, Zenon
  <2>3. PICK p \in 1 .. N : p = (q * s + i) + 1
    <3>1. PICK y \in 0 .. N - 1 : y = q * s + i
      BY <1>6
    <3>2. QED
      BY <3>1
  <2>4. At(p, j, g) = x
    BY <1>10, <2>1, <2>2, <2>3
  <2>5. QED
    BY <2>4
<1>16. Cells(1 .. N, 0 .. m - 1, 0 .. n - 1, g)
  BY ONLY <1>13, <1>14, <1>15 DEF Cells
<1>17. QED
  BY <1>2, <1>3, <1>5, <1>9, <1>16

\* Vectors of blocks laid out.
LEMMA ComposeAt ==
  ASSUME NEW P, NEW S, NEW X, NEW l, P = 1 .. T_num, S = 0 .. job.T - 1, X = 0 .. job.n - 1,
         Cells(P, S, X, LayerPlaces(l)), T_num \in Nat, NEW vs
  PROVE  Laid(compose_vec_2k(l, vs), vs, P, S, X, LayerPlaces(l))
<1> DEFINE at == [pj \in (0 .. T_num - 1) \X (0 .. job.T - 1) |->
                    Offset(Step(l))[pj[1]] + pj[2] * Step(l)]
           v == compose_vec_2k(l, vs)
<1>1. v = [x \in X |-> LET pj == CHOOSE pj \in DOMAIN at : at[pj] = x
                       IN  vs[pj[1] + 1][pj[2]]]
  BY DEF compose_vec_2k
<1>2. PICK g : g = LayerPlaces(l)
  OBVIOUS
<1>3. DOMAIN at = (0 .. T_num - 1) \X S
  OBVIOUS
<1>4. ASSUME NEW p \in P, NEW j \in S
      PROVE  <<p - 1, j>> \in DOMAIN at /\ at[<<p - 1, j>>] = At(p, j, g)
  <2>1. PICK x \in 0 .. T_num - 1 : x = p - 1
    BY SMT
  <2>2. <<x, j>> \in DOMAIN at /\ at[<<x, j>>] = Offset(Step(l))[x] + j * Step(l)
    OBVIOUS
  <2>3. At(p, j, g) = Offset(Step(l))[x] + j * Step(l)
    BY <1>2, <2>1 DEF At, LayerPlaces
  <2>4. QED
    BY <2>1, <2>2, <2>3
<1>5. ASSUME NEW pj \in DOMAIN at
      PROVE  \E p \in P, j \in S : pj = <<p - 1, j>> /\ pj[1] + 1 = p /\ pj[2] = j
  <2>1. PICK x \in 0 .. T_num - 1, j \in S : pj = <<x, j>>
    BY <1>3
  <2>2. PICK p \in P : p = x + 1 /\ p - 1 = x
    BY SMT
  <2>3. QED
    BY <2>1, <2>2
<1> HIDE DEF at
<1>6. ASSUME NEW p \in P, NEW j \in S
      PROVE  v[At(p, j, g)] = vs[p][j]
  <2>1. PICK x \in X : x = At(p, j, g)
    BY <1>2 DEF Cells
  <2>2. PICK pj : pj = CHOOSE oj \in DOMAIN at : at[oj] = x
    OBVIOUS
  <2>3. pj \in DOMAIN at /\ at[pj] = x
    BY <1>4, <2>1, <2>2
  <2>4. PICK o \in P, k \in S : pj = <<o - 1, k>> /\ pj[1] + 1 = o /\ pj[2] = k
    BY <1>5, <2>3
  <2>5. At(o, k, g) = At(p, j, g)
    BY <1>4, <2>1, <2>3, <2>4
  <2>6. o = p /\ k = j
    BY <1>2, <2>5 DEF Cells
  <2>7. v[x] = vs[pj[1] + 1][pj[2]]
    BY <1>1, <2>2
  <2>8. QED
    BY <2>1, <2>4, <2>6, <2>7
<1>7. DOMAIN v = X
  BY <1>1
<1> HIDE DEF v
<1>8. Laid(v, vs, P, S, X, g)
  BY <1>6, <1>7 DEF Laid
<1>9. QED
  BY <1>2, <1>8 DEF v

\* A layer of right blocks is right.
LEMMA GoodLayout ==
  ASSUME JobOK, job.name \in Functions2k, NEW l \in 0 .. depth - 1,
         NEW columns \in SUBSET Columns, NEW ts, DOMAIN ts = 1 .. T_num,
         \A p \in 1 .. T_num : Good(ts[p], I, columns)
  PROVE  Good(Layout(l, ts), 0 .. job.n - 1, columns)
<1>1. PICK P, X, g : /\ P = 1 .. T_num /\ X = 0 .. job.n - 1 /\ g = LayerPlaces(l)
                     /\ Cells(P, I, X, g)
  BY LayerCells
<1>2. T_num \in Nat /\ I = 0 .. job.T - 1
  BY Sizes DEF I
<1>3. PICK ps, pm : /\ ps = [p \in P |-> ts[p].perm]
                    /\ pm = [p \in P |-> [j \in I |-> Offset(Step(l))[p - 1] + ps[p][j] * Step(l)]]
  OBVIOUS
<1>4. /\ Layout(l, ts).perm = compose_vec_2k(l, pm)
      /\ \A c \in Columns :
           /\ Layout(l, ts).a[c] = compose_vec_2k(l, [p \in P |-> ts[p].a[c]])
           /\ Layout(l, ts).b[c] = compose_vec_2k(l, [p \in P |-> ts[p].b[c]])
  BY <1>1, <1>2, <1>3 DEF Layout, compose_perm_2k
<1>5. ASSUME NEW vs
      PROVE  Laid(compose_vec_2k(l, vs), vs, P, I, X, g)
  BY <1>1, <1>2, ComposeAt
<1>6. \A p \in P, j \in I : pm[p][j] = At(p, ps[p][j], g)
  <2>1. \A p \in P, j \in I : ps[p][j] \in I
    BY <1>1, <1>3 DEF Good, PermOn
  <2>2. \A p \in P, j \in I : At(p, j, g) = Offset(Step(l))[p - 1] + j * Step(l)
    BY <1>1, <1>2 DEF At, LayerPlaces
  <2>3. QED
    BY <1>3, <2>1, <2>2
<1>7. PermLaid(Layout(l, ts).perm, ps, P, I, X, g)
  BY <1>4, <1>5, <1>6 DEF Laid, PermLaid
<1>8. LayOut(Layout(l, ts), ts, P, I, X, g, columns)
  BY <1>3, <1>4, <1>5, <1>7 DEF LayOut
<1>9. Good(Layout(l, ts), X, columns)
  <2>1. PICK t : t = Layout(l, ts) /\ LayOut(t, ts, P, I, X, g, columns)
    BY <1>8
  <2>2. \A p \in P : Good(ts[p], I, columns)
    BY <1>1
  <2>3. Good(t, X, columns) /\ Blocks(t.perm, P, I, g)
    BY ONLY <1>1, <2>1, <2>2, GoodLaid
  <2>4. QED
    BY <2>1, <2>3
<1>10. QED
  BY <1>1, <1>9

-----------------------------------------------------------------------------
\* What a call makes is right in some columns: in none, it is under
\* permutations all the same.

PoolRight(columns) == \A p \in 1 .. Len(pool) : Good(pool[p], I, columns)
FreshRight(columns) == \A x \in 1 .. Len(fresh) : Good(fresh[x], I, columns)
MergedRight(num, columns) ==
  Good(acc, Width(num), columns) /\ Blocks(acc.perm, 1 .. num, I, SideBySide(num, job.T))
BatchRight(columns) ==
  FreshRight(columns) /\ \A num : Batch(num) => MergedRight(num, columns)
LayersRight(columns) == Good(acc, 0 .. job.n - 1, columns)

\* A round over indices below m.
Rounding(y, voles, m, S, columns) ==
  /\ m \in Nat \ {0} /\ S = 0 .. m - 1 /\ Good(acc, S, columns) /\ Good(y, S, columns)
  /\ voles.no \in Seq(Nat) /\ voles.base \in Nat /\ Round(y, voles)

\* What depends on the call only.
LEMMA SameSizes ==
  ASSUME job' = job
  PROVE  /\ I' = I /\ Columns' = Columns /\ \A n : Width(n)' = Width(n)
         /\ \A t, S : Good(t, S, Columns) => Good(t, S, Columns')
         /\ \A t : Translates(t) => Translates(t)'
<1>1. I' = I /\ Columns' = Columns /\ \A n : Width(n)' = Width(n)
  BY DEF I, Columns, Double, Width
<1>2. \A t : Translates(t) => Translates(t)'
  BY <1>1 DEF Translates
<1>3. QED
  BY <1>1, <1>2

\* The batches made are right, and so are the first of them side by side.
LEMMA BatchMade ==
  ASSUME Permutes, job.seed \in Nat, Shape, Generate, stage' = "merge",
         NEW columns \in SUBSET Columns,
         \A f \in Nat : Good(Translation(f), I, columns)
  PROVE  BatchRight(columns)'
<1>1. /\ stage = "generate" /\ JobOK /\ Len(pool) < total
      /\ pool \in Seq(Range(pool)) /\ Len(pool) \in Nat
  BY DEF Generate, Shape
<1>2. /\ job' = job /\ pool' = pool /\ stage' \in {"merge", "stopped"} /\ Shape'
  BY GenerateShape
<1>3. total \in Nat /\ MergeRounds \in Nat \ {0, 1} /\ BatchSize \in Nat \ {0}
  BY <1>1, Sizes, TranslationsAssumption
<1> DEFINE first == MergeRounds * Len(pool)
           num == Min({BatchSize, total - Len(pool)})
           made == first + 1 .. first + num * MergeRounds
           identity == [x \in 0 .. Cardinality(made) - 1 |-> x]
           shuffle == IF job.name \in Functions2k
                      THEN GenPerm(Cardinality(made), job.seed + Len(pool))
                      ELSE identity
<1>4. PICK n \in Nat \ {0}, m \in Nat, k \in Nat, len \in Nat :
        /\ n = num /\ m = n * MergeRounds /\ k = first
        /\ len = Len(pool) /\ n <= m
  <2>1. num \in Nat \ {0}
    BY <1>1, <1>3, MinOfTwo
  <2> HIDE DEF num
  <2>2. num * MergeRounds \in Nat /\ first \in Nat
    BY <1>1, <1>3, <2>1
  <2>3. num <= num * MergeRounds
    <3>1. num * (MergeRounds - 1) \in Nat
      BY <1>3, <2>1
    <3>2. num * MergeRounds = num + num * (MergeRounds - 1)
      BY <1>3, <2>1
    <3>3. QED
      BY <2>1, <3>1, <3>2
  <2>4. QED
    BY <1>1, <2>1, <2>2, <2>3
<1>5. made = k + 1 .. k + m /\ Cardinality(made) = m
  <2>1. Cardinality(k + 1 .. k + m) = m
    BY FS_Interval
  <2>2. made = k + 1 .. k + m
    BY <1>4
  <2>3. QED
    BY <2>1, <2>2
<1>6. ~\E f \in made : Stop(f)
  BY DEF Stop
<1>7. /\ fresh' = [x \in 1 .. Cardinality(made) |-> Translation(first + 1 + shuffle[x - 1])]
      /\ acc' = Join(SubSeq(fresh', 1, num))
  BY <1>6 DEF Generate
<1>8. PICK perm : perm = shuffle /\ perm \in [0 .. m - 1 -> 0 .. m - 1]
  <2>1. PICK s \in Nat : s = job.seed + Len(pool)
    BY <1>4
  <2>2. GenPerm(m, s) \in [0 .. m - 1 -> 0 .. m - 1]
    BY DEF Permutes
  <2>3. [x \in 0 .. m - 1 |-> x] \in [0 .. m - 1 -> 0 .. m - 1]
    OBVIOUS
  <2>4. shuffle = IF job.name \in Functions2k THEN GenPerm(m, s) ELSE [x \in 0 .. m - 1 |-> x]
    BY <1>5, <2>1
  <2> HIDE DEF shuffle
  <2>5. QED
    BY <2>2, <2>3, <2>4
<1>9. fresh' = [x \in 1 .. m |-> Translation(k + 1 + perm[x - 1])]
  BY <1>4, <1>5, <1>7, <1>8
<1>10. acc' = Join(SubSeq(fresh', 1, n))
  BY <1>4, <1>7
<1> HIDE DEF num, made, first, shuffle, identity
<1>11. ASSUME NEW x \in 1 .. m
       PROVE  Good(fresh'[x], I, columns)
  <2>1. x - 1 \in 0 .. m - 1
    OBVIOUS
  <2>2. PICK f \in Nat : f = k + 1 + perm[x - 1]
    BY <1>8, <2>1
  <2>3. fresh'[x] = Translation(f)
    BY <1>9, <2>2
  <2>4. QED
    BY <2>3
<1>12. fresh' \in Seq(Range(fresh')) /\ Len(fresh') = m
  BY <1>9, SeqOfFunction
<1>13. PICK ts : ts = SubSeq(fresh', 1, n) /\ DOMAIN ts = 1 .. n
                 /\ \A p \in 1 .. n : Good(ts[p], I, columns)
  <2>1. PICK ts : ts = SubSeq(fresh', 1, n) /\ DOMAIN ts = 1 .. n
                  /\ \A p \in 1 .. n : ts[p] = fresh'[p]
    <3>1. /\ DOMAIN SubSeq(fresh', 1, n) = 1 .. n
          /\ \A p \in 1 .. n : SubSeq(fresh', 1, n)[p] = fresh'[p]
      BY <1>4, <1>12
    <3>2. QED
      BY <3>1
  <2>2. \A p \in 1 .. n : p \in 1 .. m
    BY <1>4
  <2>3. \A p \in 1 .. n : Good(ts[p], I, columns)
    BY <1>11, <2>1, <2>2
  <2>4. QED
    BY <2>1, <2>3
<1>14. /\ Good(acc', Width(n), columns)
       /\ Blocks(acc'.perm, 1 .. n, I, SideBySide(n, job.T))
  <2>1. acc' = Join(ts)
    BY <1>10, <1>13
  <2>2. Good(Join(ts), Width(n), columns) /\ Blocks(Join(ts).perm, 1 .. n, I, SideBySide(n, job.T))
    BY <1>1, <1>13, GoodJoin
  <2>3. QED
    BY <2>1, <2>2
<1>15. ASSUME NEW i, Batch(i)'
       PROVE  i = n
  <2>1. DOMAIN acc'.ids = 1 .. n
    BY <1>10, <1>13 DEF Join
  <2>2. DOMAIN acc'.ids = 1 .. i /\ i \in Nat
    BY <1>15 DEF Batch
  <2>3. (n \in 1 .. i /\ i \in 1 .. n) \/ i = 0
    BY <2>1, <2>2
  <2>4. QED
    BY <2>1, <2>2, <2>3
<1>16. /\ I' = I /\ Columns' = Columns /\ \A i : Width(i)' = Width(i)
  BY <1>2, SameSizes
<1>17. \A i : Batch(i)' => MergedRight(i, columns)'
  <2> SUFFICES ASSUME NEW i, Batch(i)'
               PROVE  MergedRight(i, columns)'
    OBVIOUS
  <2>1. i = n
    BY <1>15
  <2>2. MergedRight(n, columns)'
    BY <1>2, <1>14, <1>16 DEF MergedRight
  <2>3. QED
    BY <2>1, <2>2
<1>18. FreshRight(columns)'
  BY <1>11, <1>12, <1>16 DEF FreshRight
<1>19. QED
  BY <1>17, <1>18 DEF BatchRight

\* A round of a merge.
LEMMA MergeRound ==
  ASSUME Shape, Merge, NEW columns \in SUBSET Columns, BatchRight(columns)
  PROVE  \E num, y, voles, m :
           /\ Rounding(y, voles, m, Width(num), columns)
           /\ acc'.perm = Then(acc.perm, y.perm) /\ Good(acc', Width(num), columns)
              => BatchRight(columns)'
<1>1. /\ job' = job /\ pool' = pool /\ fresh' = fresh /\ turn' = turn + 1
      /\ stage = "merge" /\ stage' = "merge" /\ turn \in 1 .. MergeRounds - 1
  BY MergeShape
<1>2. PICK num : Batch(num)
  BY <1>1 DEF Shape
<1>3. /\ num \in Nat \ {0} /\ DOMAIN acc.ids = 1 .. num /\ Len(fresh) = num * MergeRounds
      /\ MergeRounds \in Nat \ {0} /\ JobOK /\ pool \in Seq(Range(pool)) /\ Len(pool) \in Nat
  BY <1>2, TranslationsAssumption DEF Batch, Shape
<1>4. FreshRight(columns) /\ MergedRight(num, columns)
  BY <1>2 DEF BatchRight
<1>5. PICK ts : ts = OfRound(turn) /\ DOMAIN ts = 1 .. num
                /\ \A p \in 1 .. num : Good(ts[p], I, columns)
  <2>1. PICK t \in 1 .. MergeRounds - 1 : t = turn
    BY <1>1
  <2>2. PICK ts : ts = OfRound(turn) /\ DOMAIN ts = 1 .. num
                  /\ \A p \in 1 .. num : ts[p] = fresh[t * num + p]
    <3>1. /\ Len(fresh) \div MergeRounds = num
          /\ DOMAIN OfRound(turn) = 1 .. num
      BY <1>2, OfRoundFacts
    <3>2. OfRound(turn) = [j \in 1 .. num |-> fresh[t * num + j]]
      BY <2>1, <3>1 DEF OfRound
    <3>3. QED
      BY <3>2
  <2>3. ASSUME NEW p \in 1 .. num
        PROVE  Good(ts[p], I, columns)
    <3>1. PICK d \in Nat : MergeRounds = t + 1 + d
      BY <1>3
    <3>2. num * MergeRounds = t * num + num + d * num /\ d * num \in Nat /\ t * num \in Nat
      BY <1>3, <3>1
    <3>3. PICK x \in 1 .. Len(fresh) : x = t * num + p
      BY <1>3, <3>2
    <3>4. QED
      BY <1>4, <2>2, <3>3 DEF FreshRight
  <2>4. QED
    BY <2>2, <2>3
<1>6. PICK y : y = Join(ts) /\ Round(y, MergeVoles(Cardinality(DOMAIN y.perm)))
  BY <1>5 DEF Merge
<1>7. PICK m, P, S, X, g :
        /\ m \in Nat \ {0} /\ m = num * job.T /\ P = 1 .. num /\ S = I /\ X = Width(num)
        /\ X = 0 .. m - 1 /\ g = SideBySide(num, job.T) /\ Cells(P, S, X, g)
  <2>1. PICK T \in Nat \ {0} : T = job.T
    BY <1>3, Sizes
  <2>2. num * T \in Nat \ {0}
    BY <1>3
  <2>3. Cells(1 .. num, I, Width(num), SideBySide(num, T))
    BY <1>3, <2>1, CellsAre DEF I, Width
  <2>4. QED
    BY <2>1, <2>2, <2>3 DEF Width
<1>8. Good(y, X, columns) /\ Blocks(y.perm, P, S, g)
  BY <1>3, <1>5, <1>6, <1>7, GoodJoin
<1>9. Good(acc, X, columns) /\ Blocks(acc.perm, P, S, g)
  BY <1>4, <1>7 DEF MergedRight
<1>10. PICK voles : /\ voles = MergeVoles(Cardinality(DOMAIN y.perm)) /\ Round(y, voles)
                    /\ voles.no \in Seq(Nat) /\ voles.base \in Nat
  <2>1. PICK size \in Nat : size = Cardinality(DOMAIN y.perm)
    <3>1. Cardinality(DOMAIN y.perm) = num * job.T
      BY <1>3, <1>5, <1>6, JoinSize, Sizes
    <3>2. QED
      BY <1>7, <3>1
  <2>2. PICK t \in Nat, l \in Nat, zero \in Nat : t = turn /\ l = Len(pool) /\ zero = 0
    BY <1>1, <1>3
  <2>3. <<zero, t>> \in Seq(Nat) /\ <<zero, l>> \in Seq(Nat)
    OBVIOUS
  <2>4. 4 * size * t \in Nat
    OBVIOUS
  <2>5. /\ MergeVoles(size).no \in {<<zero, t>>, <<zero, l>>}
        /\ MergeVoles(size).base \in {zero, 4 * size * t}
    BY <2>2 DEF MergeVoles
  <2>6. PICK voles : voles = MergeVoles(size)
    OBVIOUS
  <2>7. voles.no \in Seq(Nat) /\ voles.base \in Nat
    BY <2>3, <2>4, <2>5, <2>6
  <2>8. QED
    BY <1>6, <2>1, <2>6, <2>7
<1>11. Rounding(y, voles, m, Width(num), columns)
  BY <1>7, <1>8, <1>9, <1>10 DEF Rounding
<1>12. ASSUME acc'.perm = Then(acc.perm, y.perm), Good(acc', X, columns)
       PROVE  BatchRight(columns)'
  <2>1. Blocks(acc'.perm, P, S, g)
    <3>1. PermOn(acc.perm, X) /\ PermOn(y.perm, X)
      BY <1>8, <1>9 DEF Good
    <3>2. Blocks(Then(acc.perm, y.perm), P, S, g)
      BY <1>7, <1>8, <1>9, <3>1, ThenBlocks
    <3>3. QED
      BY <1>12, <3>2
  <2>2. /\ I' = I /\ Columns' = Columns /\ \A i : Width(i)' = Width(i)
    BY <1>1, SameSizes
  <2>3. ASSUME NEW i, Batch(i)'
        PROVE  MergedRight(i, columns)'
    <3>1. DOMAIN acc'.ids = 1 .. num
      BY <1>3, <1>6 DEF Round
    <3>2. DOMAIN acc'.ids = 1 .. i /\ i \in Nat
      BY <2>3 DEF Batch
    <3>3. i = num
      BY <1>3, <3>1, <3>2
    <3>4. MergedRight(num, columns)'
      BY <1>1, <1>7, <1>12, <2>1, <2>2 DEF MergedRight
    <3>5. QED
      BY <3>3, <3>4
  <2>4. FreshRight(columns)'
    BY <1>1, <1>4, <2>2 DEF FreshRight
  <2>5. QED
    BY <2>3, <2>4 DEF BatchRight
<1>13. QED
  BY <1>7, <1>11, <1>12

\* The end of a merge: its translations are taken apart.
LEMMA MergeEnds ==
  ASSUME Shape, EndMerge, NEW columns \in SUBSET Columns,
         PoolRight(columns), BatchRight(columns)
  PROVE  /\ PoolRight(columns)' /\ Len(pool') <= total
         /\ job.name \notin Functions2k => Good(acc', I, columns)
<1>1. /\ stage = "merge" /\ job' = job /\ turn' = 0 /\ acc' = acc
      /\ pool' = pool \o Split(acc)
      /\ stage' = IF Len(pool') < total THEN "generate"
                  ELSE IF job.name \in Functions2k THEN "layer" ELSE "done"
  BY DEF EndMerge
<1>2. PICK num : Batch(num)
  BY <1>1 DEF Shape
<1>3. /\ num \in Nat \ {0} /\ num + Len(pool) <= total /\ DOMAIN acc.ids = 1 .. num
      /\ JobOK /\ pool \in Seq(Range(pool)) /\ Len(pool) \in Nat
  BY <1>2 DEF Batch, Shape
<1>4. MergedRight(num, columns)
  BY <1>2 DEF BatchRight
<1>5. PICK s : /\ s = Split(acc) /\ DOMAIN s = 1 .. num /\ s = [p \in 1 .. num |-> s[p]]
               /\ \A p \in 1 .. num : Good(s[p], I, columns)
  <2>1. DOMAIN Split(acc) = 1 .. num /\ Split(acc) = [p \in 1 .. num |-> Split(acc)[p]]
    BY <1>3 DEF Split
  <2>2. ASSUME NEW p \in 1 .. num
        PROVE  Good(Split(acc)[p], I, columns)
    BY <1>3, <1>4, GoodSplit DEF MergedRight
  <2>3. QED
    BY <2>1, <2>2
<1>6. s \in Seq(Range(s)) /\ Len(s) = num
  BY <1>3, <1>5, SeqOfFunction
<1>7. /\ Len(pool') = Len(pool) + num
      /\ \A p \in 1 .. Len(pool) : pool'[p] = pool[p]
      /\ \A p \in 1 .. num : pool'[Len(pool) + p] = s[p]
  <2>1. PICK po, R : po = pool /\ R = Range(pool) \cup Range(s)
    OBVIOUS
  <2>2. po \in Seq(R) /\ s \in Seq(R)
    BY <1>3, <1>6, <2>1
  <2>3. /\ Len(po \o s) = Len(po) + Len(s)
        /\ \A p \in 1 .. Len(po) : (po \o s)[p] = po[p]
        /\ \A p \in 1 .. Len(s) : (po \o s)[Len(po) + p] = s[p]
    BY <2>2, ConcatFacts
  <2>4. pool' = po \o s
    BY <1>1, <1>5, <2>1
  <2>5. QED
    BY <1>6, <2>1, <2>3, <2>4
<1>8. I' = I
  BY <1>1, SameSizes
<1>9. PoolRight(columns)'
  <2> SUFFICES ASSUME NEW p \in 1 .. Len(pool')
               PROVE  Good(pool'[p], I, columns)
    BY <1>8 DEF PoolRight
  <2>1. CASE p <= Len(pool)
    BY <1>3, <1>7, <2>1 DEF PoolRight
  <2>2. CASE p > Len(pool)
    <3>1. PICK q \in 1 .. num : p = Len(pool) + q
      <4>1. PICK l \in Nat : l = Len(pool)
        BY <1>3
      <4>2. p - l \in 1 .. num /\ p = l + (p - l)
        BY <1>3, <1>7, <2>2, <4>1
      <4>3. QED
        BY <4>1, <4>2
    <3>2. QED
      BY <1>5, <1>7, <3>1
  <2>3. QED
    BY <1>3, <1>7, <2>1, <2>2
<1>10. ASSUME job.name \notin Functions2k
       PROVE  Good(acc', I, columns)
  <2>1. num = 1
    <3>1. total = 1
      BY <1>3, <1>10, Sizes
    <3>2. QED
      BY <1>3, <3>1
  <2>2. Width(1) = I
    <3>1. PICK T \in Nat : T = job.T
      BY <1>3, Sizes
    <3>2. 1 * T = T
      OBVIOUS
    <3>3. QED
      BY <3>1, <3>2 DEF Width, I
  <2>3. QED
    BY <1>1, <1>4, <2>1, <2>2 DEF MergedRight
<1>11. Len(pool') <= total
  BY <1>3, <1>7
<1>12. QED
  BY <1>9, <1>10, <1>11

\* A layer.
LEMMA LayerRound ==
  ASSUME Shape, Layer, NEW columns \in SUBSET Columns, PoolRight(columns),
         turn > 0 => LayersRight(columns)
  PROVE  \/ found' = found /\ LayersRight(columns)'
         \/ \E y, voles, m : Rounding(y, voles, m, 0 .. job.n - 1, columns)
<1>1. /\ job' = job /\ pool' = pool /\ turn' = turn + 1
      /\ stage = "layer" /\ stage' \in {"layer", "done"}
      /\ turn \in 0 .. depth - 1 /\ job.name \in Functions2k
  BY LayerShape
<1>2. Len(pool) = total /\ JobOK
  BY <1>1 DEF Shape
<1>3. PICK num \in Nat \ {0}, d \in Nat \ {0}, t \in Nat :
        t < d /\ num = T_num /\ d = depth /\ t = turn /\ total = num * d
  <2>1. T_num \in Nat \ {0} /\ depth \in Nat \ {0} /\ total = T_num * depth
    BY <1>2, Sizes DEF total
  <2>2. QED
    BY <1>1, <2>1
<1>4. \A p \in 1 .. num : t * num + p \in 1 .. total
  <2>1. PICK e \in Nat : d = t + 1 + e
    BY <1>3
  <2>2. num * d = t * num + num + e * num /\ e * num \in Nat /\ t * num \in Nat
    BY <1>3, <2>1
  <2>3. QED
    BY <1>3, <2>2
<1>5. PICK ts : ts = [i \in 1 .. T_num |-> pool[turn * T_num + i]]
  OBVIOUS
<1>6. DOMAIN ts = 1 .. T_num /\ \A p \in 1 .. T_num : Good(ts[p], I, columns)
  <2>1. \A p \in 1 .. num : ts[p] = pool[t * num + p]
    BY <1>3, <1>5
  <2>2. \A x \in 1 .. total : Good(pool[x], I, columns)
    BY <1>2 DEF PoolRight
  <2>3. \A p \in 1 .. num : Good(ts[p], I, columns)
    BY <1>4, <2>1, <2>2
  <2>4. QED
    BY <1>3, <1>5, <2>3
<1>7. PICK y : /\ y = Layout(turn, ts)
               /\ turn = 0 => acc' = y /\ found' = found
               /\ turn # 0 => Round(y, LayerVoles)
  BY <1>5 DEF Layer
<1>8. PICK m, S : m \in Nat \ {0} /\ m = job.n /\ S = 0 .. job.n - 1
  <2>1. job.n = job.T * T_num
    BY <1>1, <1>2, StepFacts
  <2>2. PICK T \in Nat \ {0} : T = job.T
    BY <1>2, Sizes
  <2>3. T * num \in Nat \ {0}
    OBVIOUS
  <2>4. job.n \in Nat \ {0}
    BY <1>3, <2>1, <2>2, <2>3
  <2>5. QED
    BY <2>4
<1>9. Good(y, S, columns)
  BY <1>1, <1>2, <1>6, <1>7, <1>8, GoodLayout
<1>10. CASE turn = 0
  BY <1>1, <1>7, <1>8, <1>9, <1>10 DEF LayersRight
<1>11. CASE turn # 0
  <2>1. Good(acc, S, columns)
    BY <1>3, <1>8, <1>11 DEF LayersRight
  <2>2. PICK voles : /\ voles = LayerVoles /\ Round(y, voles)
                     /\ voles.no \in Seq(Nat) /\ voles.base \in Nat
    <3>1. PICK one \in Nat, zero \in Nat, e \in Nat : one = 1 /\ zero = 0 /\ e = t - 1
      BY <1>3, <1>11
    <3>2. <<one, zero>> \in Seq(Nat)
      OBVIOUS
    <3>3. 4 * m * e \in Nat
      BY <1>8
    <3>4. LayerVoles.no = <<one, zero>> /\ LayerVoles.base = 4 * m * e
      BY <1>3, <1>8, <3>1 DEF LayerVoles
    <3>5. QED
      BY <1>7, <1>11, <3>2, <3>3, <3>4
  <2>3. Rounding(y, voles, m, S, columns)
    BY <1>8, <1>9, <2>1, <2>2 DEF Rounding
  <2>4. QED
    BY <1>8, <2>3
<1>12. QED
  BY <1>10, <1>11

-----------------------------------------------------------------------------
\* A call without a fault.

RightCall ==
  /\ stage # "stopped" /\ found = {} /\ PoolRight(Columns)
  /\ stage = "merge" => BatchRight(Columns)
  /\ stage = "layer" /\ turn > 0 => LayersRight(Columns)
  /\ Finished => Translates(acc)

RightInv == job.seed \in Nat /\ (job.fault = NoFault => RightCall)

LEMMA RightGenerate ==
  ASSUME Honest, Shape, RightCall, Generate
  PROVE  RightCall'
<1>1. /\ stage = "generate" /\ job' = job /\ pool' = pool /\ found = {}
      /\ stage' \in {"merge", "stopped"}
  BY GenerateShape DEF Generate, RightCall
<1>2. Permutes /\ job.seed \in Nat
  BY DEF Honest, ShuffleOK
<1>3. \A f : ~Stop(f) \/ f \notin Nat
  BY HonestRows DEF Stop
<1>4. stage' = "merge" /\ found' = found
  <2>1. PICK first, made :
          /\ first \in Nat /\ made \subseteq Nat
          /\ (\E f \in made : Stop(f)) \/ (stage' = "merge" /\ found' = found)
    <3> DEFINE first == MergeRounds * Len(pool)
               num == Min({BatchSize, total - Len(pool)})
               made == first + 1 .. first + num * MergeRounds
    <3>1. MergeRounds * Len(pool) \in Nat
      BY TranslationsAssumption DEF Shape
    <3>2. PICK k \in Nat : k = first
      BY <3>1
    <3>3. \A x : x \in k + 1 .. k + num * MergeRounds => x \in Nat
      OBVIOUS
    <3>4. made \subseteq Nat
      BY <3>2, <3>3
    <3>5. (\E f \in made : Stop(f)) \/ (stage' = "merge" /\ found' = found)
      BY DEF Generate
    <3>6. QED
      BY <3>2, <3>4, <3>5
  <2>2. QED
    BY <1>3, <2>1
<1>5. PICK columns : columns = Columns
  OBVIOUS
<1>6. BatchRight(columns)'
  BY <1>2, <1>4, <1>5, GoodTranslation, BatchMade
<1>7. I' = I /\ Columns' = Columns
  BY <1>1, SameSizes
<1>8. BatchRight(Columns)' /\ PoolRight(Columns)'
  BY <1>1, <1>5, <1>6, <1>7 DEF BatchRight, FreshRight, MergedRight, PoolRight, RightCall
<1>9. QED
  BY <1>1, <1>4, <1>8 DEF RightCall, Finished

LEMMA RightMerge ==
  ASSUME Honest, Shape, RightCall, Merge
  PROVE  RightCall'
<1>1. /\ job' = job /\ pool' = pool /\ stage = "merge" /\ stage' = "merge"
      /\ turn \in 1 .. MergeRounds - 1
  BY MergeShape
<1>2. BatchRight(Columns) /\ PoolRight(Columns) /\ found = {} /\ Draws
  BY <1>1 DEF RightCall, Honest, ShuffleOK
<1>3. PICK columns : columns = Columns
  OBVIOUS
<1>4. PICK num, y, voles, m :
        /\ Rounding(y, voles, m, Width(num), columns)
        /\ acc'.perm = Then(acc.perm, y.perm) /\ Good(acc', Width(num), columns)
           => BatchRight(columns)'
  BY <1>2, <1>3, MergeRound
<1>5. found' = found /\ Good(acc', Width(num), columns) /\ acc'.perm = Then(acc.perm, y.perm)
  <2>1. turn \in Nat /\ Len(pool) \in Nat
    BY <1>1, TranslationsAssumption DEF Shape
  <2>2. RoundOK(acc, y, Width(num))
    BY <1>2, <1>3, <1>4, <2>1 DEF Rounding, RoundOK
  <2>3. PICK S : S = Width(num)
    OBVIOUS
  <2>4. QED
    BY <1>3, <1>4, <2>2, <2>3, RoundIsRight DEF Rounding
<1>6. I' = I /\ Columns' = Columns
  BY <1>1, SameSizes
<1>7. BatchRight(Columns)' /\ PoolRight(Columns)'
  BY <1>1, <1>2, <1>3, <1>4, <1>5, <1>6
     DEF BatchRight, FreshRight, MergedRight, PoolRight
<1>8. QED
  BY <1>1, <1>2, <1>5, <1>7 DEF RightCall, Finished

LEMMA RightEndMerge ==
  ASSUME Honest, Shape, RightCall, EndMerge
  PROVE  RightCall'
<1>1. /\ job' = job /\ turn' = 0 /\ stage = "merge" /\ found' = found
      /\ stage' \in {"generate", "layer", "done"}
      /\ job.name \in Functions2k => stage' # "done"
  BY EndMergeShape DEF EndMerge
<1>2. BatchRight(Columns) /\ PoolRight(Columns) /\ found = {}
  BY <1>1 DEF RightCall
<1>3. PICK columns : columns = Columns
  OBVIOUS
<1>4. PoolRight(columns)' /\ (job.name \notin Functions2k => Good(acc', I, columns))
  BY <1>2, <1>3, MergeEnds
<1>5. I' = I /\ Columns' = Columns /\ \A t : Translates(t) => Translates(t)'
  BY <1>1, SameSizes
<1>6. PoolRight(Columns)'
  BY <1>3, <1>4, <1>5 DEF PoolRight
<1>7. ASSUME stage' = "done"
      PROVE  Translates(acc)'
  <2>1. PICK x : x = acc' /\ Good(x, I, Columns)
    BY <1>1, <1>3, <1>4, <1>7
  <2>2. Translates(x)
    BY <2>1, GoodTranslates
  <2>3. Translates(x)'
    BY <1>5, <2>2
  <2>4. QED
    BY <2>1, <2>3 DEF Translates
<1>8. QED
  BY <1>1, <1>2, <1>6, <1>7 DEF RightCall, Finished

LEMMA RightLayer ==
  ASSUME Honest, Shape, RightCall, Layer
  PROVE  RightCall'
<1>1. /\ job' = job /\ pool' = pool /\ stage = "layer" /\ stage' \in {"layer", "done"}
      /\ turn \in 0 .. depth - 1
  BY LayerShape
<1>2. /\ PoolRight(Columns) /\ found = {} /\ (turn > 0 => LayersRight(Columns)) /\ Draws
  BY <1>1 DEF RightCall, Honest, ShuffleOK
<1>3. PICK columns, S : columns = Columns /\ S = 0 .. job.n - 1
  OBVIOUS
<1>4. I' = I /\ Columns' = Columns /\ \A x : Translates(x) => Translates(x)'
  BY <1>1, SameSizes
<1>5. found' = found /\ Good(acc', S, columns)
  <2>1. CASE found' = found /\ LayersRight(columns)'
    BY <1>1, <1>3, <2>1 DEF LayersRight
  <2>2. ASSUME NEW y, NEW voles, NEW m, Rounding(y, voles, m, 0 .. job.n - 1, columns)
        PROVE  found' = found /\ Good(acc', S, columns)
    <3>1. turn \in Nat /\ Len(pool) \in Nat
      BY <1>1 DEF Shape
    <3>2. RoundOK(acc, y, S)
      BY <1>2, <1>3, <2>2, <3>1 DEF Rounding, RoundOK
    <3>3. QED
      BY <1>3, <2>2, <3>2, RoundIsRight DEF Rounding
  <2>3. QED
    BY <1>2, <1>3, <2>1, <2>2, LayerRound
<1>6. LayersRight(Columns)' /\ PoolRight(Columns)'
  BY <1>1, <1>2, <1>3, <1>4, <1>5 DEF LayersRight, PoolRight
<1>7. Translates(acc)'
  <2>1. PICK x : x = acc' /\ Good(x, S, Columns)
    BY <1>3, <1>5
  <2>2. Translates(x)
    BY <2>1, GoodTranslates
  <2>3. Translates(x)'
    BY <1>4, <2>2
  <2>4. QED
    BY <2>1, <2>3 DEF Translates
<1>8. QED
  BY <1>1, <1>2, <1>5, <1>6, <1>7 DEF RightCall, Finished

\* The other steps.
LEMMA RightOther ==
  ASSUME Honest, Shape, RightCall, ShuffleSet \/ UNCHANGED vars
  PROVE  RightCall'
<1>1. CASE UNCHANGED vars
  <2>1. /\ job' = job /\ stage' = stage /\ pool' = pool /\ fresh' = fresh /\ turn' = turn
        /\ acc' = acc /\ found' = found
    BY <1>1 DEF vars
  <2>2. /\ I' = I /\ Columns' = Columns /\ \A n : Width(n)' = Width(n)
    BY <2>1, SameSizes
  <2>3. /\ PoolRight(Columns)' <=> PoolRight(Columns)
        /\ LayersRight(Columns)' <=> LayersRight(Columns)
    BY <2>1, <2>2 DEF PoolRight, LayersRight
  <2>4. BatchRight(Columns)' <=> BatchRight(Columns)
    <3>1. FreshRight(Columns)' <=> FreshRight(Columns)
      BY <2>1, <2>2 DEF FreshRight
    <3>2. \A n : /\ Batch(n)' <=> Batch(n)
                 /\ MergedRight(n, Columns)' <=> MergedRight(n, Columns)
      BY <2>1, <2>2, SameJob DEF Batch, MergedRight
    <3>3. QED
      BY <3>1, <3>2 DEF BatchRight
  <2>5. (Translates(acc)' <=> Translates(acc)) /\ (Finished' <=> Finished)
    BY <2>1, <2>2 DEF Translates, Finished
  <2>6. QED
    BY <2>1, <2>3, <2>4, <2>5 DEF RightCall
<1>2. CASE ShuffleSet
  <2>1. ~Stop(1)
    BY HonestRows DEF Stop
  <2>2. /\ job' = job /\ pool' = pool /\ stage' = "done" /\ found' = found
        /\ job.name = "ShuffleSet"
    BY <1>2, <2>1 DEF ShuffleSet
  <2>3. I' = I /\ Columns' = Columns
    BY <2>2, SameSizes
  <2>4. PoolRight(Columns)' /\ ~Finished'
    BY <2>2, <2>3 DEF PoolRight, RightCall, Finished
  <2>5. found' = {} /\ stage' = "done"
    BY <2>2 DEF RightCall
  <2>6. QED
    BY <2>4, <2>5 DEF RightCall
<1>3. QED
  BY <1>1, <1>2

LEMMA RightStart == Init => RightInv
<1> SUFFICES ASSUME Init
             PROVE  RightInv
  OBVIOUS
<1>1. /\ pool = <<>> /\ stage = "generate" /\ found = {} /\ job.seed \in Nat
  BY TranslationsAssumption DEF Init
<1>2. Len(pool) = 0
  BY <1>1
<1>3. PoolRight(Columns)
  BY <1>2 DEF PoolRight
<1>4. QED
  BY <1>1, <1>3 DEF RightInv, RightCall, Finished

LEMMA RightNext ==
  ASSUME Permutes, Draws
  PROVE  Shape /\ RightInv /\ [Next]_vars => (Shape /\ RightInv)'
<1> SUFFICES ASSUME Shape, RightInv, [Next]_vars
             PROVE  (Shape /\ RightInv)'
  OBVIOUS
<1>1. Shape' /\ job' = job
  BY GenerateShape, MergeShape, EndMergeShape, LayerShape, OtherShape DEF Next
<1>2. ASSUME job.fault = NoFault
      PROVE  RightCall'
  <2>1. Honest /\ RightCall
    BY <1>2 DEF Honest, ShuffleOK, Shape, RightInv
  <2>2. QED
    BY <2>1, RightGenerate, RightMerge, RightEndMerge, RightLayer, RightOther DEF Next
<1>3. QED
  BY <1>1, <1>2 DEF RightInv

\* When GenPerm makes permutations and Draw elements of the field, a call in
\* which nothing is wrong ends, if it ends, with a translation: no row and no
\* delayed check fails, and what it returns opens to the same values under its
\* permutation and has macs, for all sizes of calls, blocks and batches and any
\* number of rounds (ASTSet, DoubleASTSet and the functions named _2k).
THEOREM HonestCallsPass == Permutes /\ Draws => (Spec => []ChecksPass)
<1> SUFFICES ASSUME Permutes, Draws
             PROVE  Spec => []ChecksPass
  OBVIOUS
<1>1. Init => Shape /\ RightInv
  BY ShapeStart, RightStart
<1>2. Shape /\ RightInv /\ [Next]_vars => (Shape /\ RightInv)'
  BY RightNext
<1>3. RightInv => ChecksPass
  BY DEF RightInv, RightCall, ChecksPass
<1>4. QED
  BY <1>1, <1>2, <1>3, PTL DEF Spec

-----------------------------------------------------------------------------
\* What a call composes is under a permutation, whatever is wrong in it.

PermsInv ==
  /\ job.seed \in Seeds
  /\ Len(pool) <= total /\ turn \in 0 .. Max({MergeRounds, depth})
  /\ found \subseteq {"consistency", "open", "line", "double"}
  /\ acc = <<>> \/ \E S : PermOn(acc.perm, S)
  /\ PoolRight({})
  /\ stage = "merge" => BatchRight({})
  /\ stage = "layer" /\ turn > 0 => LayersRight({})

LEMMA TurnBound ==
  ASSUME JobOK
  PROVE  /\ Max({MergeRounds, depth}) \in Nat
         /\ MergeRounds <= Max({MergeRounds, depth}) /\ depth <= Max({MergeRounds, depth})
<1>1. MergeRounds \in Int /\ depth \in Int /\ MergeRounds \in Nat
  BY Sizes, TranslationsAssumption
<1>2. QED
  BY <1>1, MaxOfTwo

\* A round composes its permutations.
LEMMA RoundPerm ==
  ASSUME NEW y, NEW voles, NEW m, NEW S, Rounding(y, voles, m, S, {})
  PROVE  /\ acc'.perm = Then(acc.perm, y.perm) /\ Good(acc', S, {})
         /\ found' \subseteq found \cup {"open", "line", "double"}
<1>1. /\ acc'.perm = Then(acc.perm, y.perm)
      /\ found' \subseteq found \cup {"open", "line", "double"}
  BY DEF Rounding, Round
<1>2. PermOn(Then(acc.perm, y.perm), S)
  BY ThenPerm DEF Rounding, Good
<1>3. QED
  BY <1>1, <1>2 DEF Good

\* No columns at all.
LEMMA NoColumn == {} \in SUBSET Columns
  OBVIOUS

LEMMA PermsGenerate ==
  ASSUME Permutes, Shape, PermsInv, Generate
  PROVE  PermsInv'
<1>1. /\ job' = job /\ pool' = pool /\ Shape' /\ JobOK
      /\ stage' \in {"merge", "stopped"} /\ (stage' = "merge" => turn' = 1)
  BY GenerateShape DEF Shape
<1>2. /\ I' = I /\ total' = total /\ depth' = depth
  BY <1>1, SameSizes, SameJob
<1>3. PoolRight({})'
  BY <1>1, <1>2 DEF PoolRight, PermsInv
<1>4. CASE stage' = "stopped"
  <2>1. turn' = turn /\ acc' = acc /\ found' = {"consistency"}
    BY <1>4 DEF Generate, Stop
  <2>2. QED
    BY <1>1, <1>2, <1>3, <1>4, <2>1 DEF PermsInv
<1>5. CASE stage' = "merge"
  <2>1. job.seed \in Nat
    BY TranslationsAssumption DEF PermsInv
  <2>2. \A f \in Nat : Good(Translation(f), I, {})
    BY <1>1, <2>1, PermIs DEF Good
  <2>3. PICK none : none = {} /\ none \in SUBSET Columns
    BY NoColumn, Zenon
  <2>4. BatchRight({})'
    <3>1. BatchRight(none)'
      BY <1>5, <2>1, <2>2, <2>3, BatchMade
    <3>2. QED
      BY <2>3, <3>1
  <2>5. \E S : PermOn(acc'.perm, S)
    <3>1. PICK num : Batch(num)'
      BY <1>1, <1>5 DEF Shape
    <3>2. MergedRight(num, {})'
      BY <2>4, <3>1 DEF BatchRight
    <3>3. QED
      BY <3>2 DEF MergedRight, Good
  <2>6. found' = found
    BY <1>5 DEF Generate, Stop
  <2>7. turn' \in 0 .. Max({MergeRounds, depth})
    <3>1. 1 <= MergeRounds /\ MergeRounds \in Nat
      BY TranslationsAssumption
    <3>2. QED
      BY <1>1, <1>5, <3>1, TurnBound
  <2>8. Len(pool') <= total' /\ job'.seed \in Seeds
    BY <1>1, <1>2 DEF PermsInv
  <2>9. turn' \in 0 .. Max({MergeRounds', depth'})
    BY <1>2, <2>7
  <2>10. found' \subseteq {"consistency", "open", "line", "double"}
    BY <2>6 DEF PermsInv
  <2>11. stage' # "layer"
    BY <1>5
  <2>12. QED
    BY <1>3, <1>5, <2>4, <2>5, <2>8, <2>9, <2>10, <2>11 DEF PermsInv
<1>6. QED
  BY <1>1, <1>4, <1>5

LEMMA PermsMerge ==
  ASSUME Shape, PermsInv, Merge
  PROVE  PermsInv'
<1>1. /\ job' = job /\ pool' = pool /\ turn' = turn + 1
      /\ stage = "merge" /\ stage' = "merge" /\ turn \in 1 .. MergeRounds - 1
  BY MergeShape
<1>2. /\ I' = I /\ total' = total /\ depth' = depth /\ JobOK
  BY <1>1, SameSizes, SameJob DEF Shape
<1>3. PICK none : none = {} /\ none \in SUBSET Columns
  BY NoColumn, Zenon
<1>4. BatchRight(none)
  BY <1>1, <1>3 DEF PermsInv
<1>5. PICK num, y, voles, m :
        /\ Rounding(y, voles, m, Width(num), none)
        /\ acc'.perm = Then(acc.perm, y.perm) /\ Good(acc', Width(num), none)
           => BatchRight(none)'
  BY <1>3, <1>4, MergeRound
<1>6. /\ acc'.perm = Then(acc.perm, y.perm) /\ Good(acc', Width(num), none)
      /\ found' \subseteq found \cup {"open", "line", "double"}
  <2>1. PICK S : S = Width(num)
    OBVIOUS
  <2>2. QED
    BY <1>3, <1>5, <2>1, RoundPerm
<1>7. BatchRight({})' /\ \E S : PermOn(acc'.perm, S)
  BY <1>3, <1>5, <1>6 DEF Good
<1>8. turn' \in 0 .. Max({MergeRounds, depth})
  BY <1>1, <1>2, TurnBound, TranslationsAssumption
<1>9. PoolRight({})'
  BY <1>1, <1>2 DEF PoolRight, PermsInv
<1>10. QED
  BY <1>1, <1>2, <1>6, <1>7, <1>8, <1>9 DEF PermsInv

LEMMA PermsEndMerge ==
  ASSUME Shape, PermsInv, EndMerge
  PROVE  PermsInv'
<1>1. /\ job' = job /\ turn' = 0 /\ acc' = acc /\ found' = found /\ stage = "merge"
      /\ stage' \in {"generate", "layer", "done"}
  BY EndMergeShape DEF EndMerge
<1>2. /\ total' = total /\ depth' = depth /\ JobOK
  BY <1>1, SameJob DEF Shape
<1>3. PICK none : none = {} /\ none \in SUBSET Columns
  BY NoColumn, Zenon
<1>4. PoolRight(none) /\ BatchRight(none)
  BY <1>1, <1>3 DEF PermsInv
<1>5. PoolRight({})' /\ Len(pool') <= total
  BY <1>3, <1>4, MergeEnds
<1>6. turn' \in 0 .. Max({MergeRounds, depth})
  BY <1>1, <1>2, TurnBound
<1>7. QED
  BY <1>1, <1>2, <1>5, <1>6 DEF PermsInv

LEMMA PermsLayer ==
  ASSUME Shape, PermsInv, Layer
  PROVE  PermsInv'
<1>1. /\ job' = job /\ pool' = pool /\ turn' = turn + 1
      /\ stage = "layer" /\ stage' \in {"layer", "done"} /\ turn \in 0 .. depth - 1
  BY LayerShape
<1>2. /\ I' = I /\ total' = total /\ depth' = depth /\ JobOK
  BY <1>1, SameSizes, SameJob DEF Shape
<1>3. PICK none, S : none = {} /\ none \in SUBSET Columns /\ S = 0 .. job.n - 1
  BY NoColumn, Zenon
<1>4. PoolRight(none) /\ (turn > 0 => LayersRight(none))
  BY <1>1, <1>3 DEF PermsInv
<1>5. Good(acc', S, none) /\ found' \subseteq found \cup {"open", "line", "double"}
  <2>1. CASE found' = found /\ LayersRight(none)'
    BY <1>1, <1>3, <2>1 DEF LayersRight
  <2>2. ASSUME NEW y, NEW voles, NEW m, Rounding(y, voles, m, 0 .. job.n - 1, none)
        PROVE  Good(acc', S, none) /\ found' \subseteq found \cup {"open", "line", "double"}
    BY <1>3, <2>2, RoundPerm
  <2>3. QED
    BY <1>3, <1>4, <2>1, <2>2, LayerRound
<1>6. LayersRight({})' /\ \E X : PermOn(acc'.perm, X)
  BY <1>1, <1>3, <1>5 DEF LayersRight, Good
<1>7. turn' \in 0 .. Max({MergeRounds, depth})
  <2>1. depth \in Nat
    BY <1>2, Sizes
  <2>2. QED
    BY <1>1, <1>2, <2>1, TurnBound
<1>8. PoolRight({})'
  BY <1>1, <1>2 DEF PoolRight, PermsInv
<1>9. QED
  BY <1>1, <1>2, <1>5, <1>6, <1>7, <1>8 DEF PermsInv

LEMMA PermsOther ==
  ASSUME Permutes, Shape, PermsInv, ShuffleSet \/ UNCHANGED vars
  PROVE  PermsInv'
<1>1. /\ job' = job /\ pool' = pool /\ turn' = turn /\ fresh' = fresh /\ JobOK
  BY DEF ShuffleSet, Stop, vars, Shape
<1>2. /\ I' = I /\ total' = total /\ depth' = depth /\ \A n : Width(n)' = Width(n)
  BY <1>1, SameSizes, SameJob
<1>3. PoolRight({})'
  BY <1>1, <1>2 DEF PoolRight, PermsInv
<1>4. CASE UNCHANGED vars
  <2>1. stage' = stage /\ acc' = acc /\ found' = found
    BY <1>4 DEF vars
  <2>2. LayersRight({})' <=> LayersRight({})
    BY <1>1, <2>1 DEF LayersRight
  <2>3. BatchRight({})' <=> BatchRight({})
    <3>1. FreshRight({})' <=> FreshRight({})
      BY <1>1, <1>2 DEF FreshRight
    <3>2. \A n : /\ Batch(n)' <=> Batch(n)
                 /\ MergedRight(n, {})' <=> MergedRight(n, {})
      BY <1>1, <1>2, <2>1 DEF Batch, MergedRight
    <3>3. QED
      BY <3>1, <3>2 DEF BatchRight
  <2>4. QED
    BY <1>1, <1>2, <1>3, <2>1, <2>2, <2>3 DEF PermsInv
<1>5. CASE ShuffleSet
  <2>1. stage' \in {"done", "stopped"}
    BY <1>5 DEF ShuffleSet, Stop
  <2>2. \/ acc' = acc /\ found' = {"consistency"}
        \/ acc'.perm = Perm(1) /\ found' = found
    BY <1>5 DEF ShuffleSet, Stop
  <2>3. PermOn(Perm(1), I)
    BY <1>1, PermIs, TranslationsAssumption DEF PermsInv
  <2>4. QED
    BY <1>1, <1>2, <1>3, <2>1, <2>2, <2>3 DEF PermsInv
<1>6. QED
  BY <1>4, <1>5

LEMMA PermsStart == Init => PermsInv
<1> SUFFICES ASSUME Init
             PROVE  PermsInv
  OBVIOUS
<1>1. /\ pool = <<>> /\ stage = "generate" /\ found = {} /\ job.seed \in Seeds /\ acc = <<>>
      /\ turn = 0
  BY DEF Init
<1>2. JobOK
  BY ShapeStart DEF Shape
<1>3. total \in Nat /\ Len(pool) = 0
  BY <1>1, <1>2, Sizes
<1>4. turn \in 0 .. Max({MergeRounds, depth})
  BY <1>1, <1>2, TurnBound
<1>5. PoolRight({})
  BY <1>3 DEF PoolRight
<1>6. QED
  BY <1>1, <1>3, <1>4, <1>5 DEF PermsInv

\* When GenPerm makes permutations, every call goes through its stages, merges
\* no more than it needs, and what it has composed so far and every merged
\* translation is under a permutation, whatever is wrong (shuffle_perm,
\* compose_perm_2k).
THEOREM ComposesPermutations == Permutes => (Spec => []TypeOK)
<1> SUFFICES ASSUME Permutes
             PROVE  Spec => []TypeOK
  OBVIOUS
<1>1. Init => Shape /\ PermsInv
  BY ShapeStart, PermsStart
<1>2. Shape /\ PermsInv /\ [Next]_vars => (Shape /\ PermsInv)'
  <2> SUFFICES ASSUME Shape, PermsInv, [Next]_vars
               PROVE  (Shape /\ PermsInv)'
    OBVIOUS
  <2>1. Shape'
    BY GenerateShape, MergeShape, EndMergeShape, LayerShape, OtherShape DEF Next
  <2>2. PermsInv'
    BY PermsGenerate, PermsMerge, PermsEndMerge, PermsLayer, PermsOther DEF Next
  <2>3. QED
    BY <2>1, <2>2
<1>3. Shape /\ PermsInv => TypeOK
  <2> SUFFICES ASSUME Shape, PermsInv
               PROVE  TypeOK
    OBVIOUS
  <2>1. \A p, S : PermOn(p, S) => IsPermutation(p)
    BY DEF PermOn, IsPermutation
  <2>2. job.name \in Names /\ \A p \in DOMAIN pool : p \in 1 .. Len(pool)
    BY Sizes DEF Shape
  <2>3. \A p \in DOMAIN pool : IsPermutation(pool[p].perm)
    BY <2>1, <2>2 DEF PermsInv, PoolRight, Good
  <2>4. acc # <<>> => IsPermutation(acc.perm)
    BY <2>1 DEF PermsInv
  <2>5. QED
    BY <2>2, <2>3, <2>4 DEF TypeOK, PermsInv, Shape
<1>4. QED
  BY <1>1, <1>2, <1>3, PTL DEF Spec

====
