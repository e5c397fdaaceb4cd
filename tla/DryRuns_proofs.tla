--------------------------- MODULE DryRuns_proofs ---------------------------
(***************************************************************************)
(* Proofs of the four invariants of DryRuns, for every set of programs and *)
(* every number of elements.                                               *)
(*                                                                         *)
(* Planned(a, b, r, u) relates a script a of rank 0, the script b of rank  *)
(* 1 meanwhile and what their twins count, r and u: the ranks ask for the  *)
(* same, each as it names it, and each takes from every slot of its cache  *)
(* what its twin has counted for it.  It holds of each operation           *)
(* (OperationPlanned), and composes.                                       *)
(*                                                                         *)
(* From its first half follows that the ranks draw alike: what a rank has  *)
(* at some point of its program, as rank 0 names it (View), determines     *)
(* what it has after its next step (NextView), so both ranks are on one    *)
(* path, along which the tape only grows (PathInv).                        *)
(*                                                                         *)
(* From its second half follows that the cache suffices and is used up:    *)
(* what is asked for, then what the cache holds, is at each point the sum  *)
(* over the calls of the program before it, or behind it (Planning).       *)
(***************************************************************************)
EXTENDS DryRuns, ShareScripts_proofs

-----------------------------------------------------------------------------
\* Sequences of sequences.

\* What comes of two, one after another.
LEMMA FlattenConcat ==
  ASSUME NEW T, NEW F \in Seq(Seq(T)), NEW G \in Seq(Seq(T))
  PROVE  FlattenSeq(F \o G) = FlattenSeq(F) \o FlattenSeq(G)
<1>a. \A x, y, z \in Seq(T) : (x \o y) \o z = x \o (y \o z)
  BY ConcatAssociative
<1> DEFINE Good(n) == \A H \in Seq(Seq(T)) :
             Len(H) = n => FlattenSeq(F \o H) = FlattenSeq(F) \o FlattenSeq(H)
           N == {n \in Nat : Good(n)}
<1>1. 0 \in N
  <2>1. \A H \in Seq(Seq(T)) : Len(H) = 0 => H = <<>>
    OBVIOUS
  <2>2. F \o <<>> = F /\ FlattenSeq(F) \in Seq(T)
    BY FlattenFacts
  <2>3. FlattenSeq(F) \o <<>> = FlattenSeq(F)
    BY <2>2
  <2>4. FlattenSeq(<<>>) = <<>>
    BY FlattenFacts
  <2>5. QED
    BY <2>1, <2>2, <2>3, <2>4
<1>2. ASSUME NEW n \in Nat, n \in N
      PROVE  n + 1 \in N
  <2> SUFFICES ASSUME NEW H \in Seq(Seq(T)), Len(H) = n + 1
               PROVE  FlattenSeq(F \o H) = FlattenSeq(F) \o FlattenSeq(H)
    OBVIOUS
  <2>1. PICK front, last : /\ front \in Seq(Seq(T)) /\ Len(front) = n /\ last \in Seq(T)
                           /\ H = Append(front, last)
    <3>1. PICK front : front = [i \in 1 .. n |-> H[i]]
      OBVIOUS
    <3>2. /\ front \in Seq(Seq(T)) /\ Len(front) = n /\ H[n + 1] \in Seq(T)
          /\ H = Append(front, H[n + 1])
      BY <3>1, FrontAndLast
    <3>3. QED
      BY <3>2, Zenon
  <2>2. F \o H = Append(F \o front, last) /\ F \o front \in Seq(Seq(T))
    BY <2>1
  <2>3. FlattenSeq(F \o H) = FlattenSeq(F \o front) \o last
    BY <2>1, <2>2, FlattenFacts
  <2>4. FlattenSeq(H) = FlattenSeq(front) \o last
    BY <2>1, FlattenFacts
  <2>5. FlattenSeq(F \o front) = FlattenSeq(F) \o FlattenSeq(front)
    BY <1>2, <2>1
  <2>6. FlattenSeq(F) \in Seq(T) /\ FlattenSeq(front) \in Seq(T)
    BY <2>1, FlattenFacts
  <2>7. (FlattenSeq(F) \o FlattenSeq(front)) \o last
          = FlattenSeq(F) \o (FlattenSeq(front) \o last)
    <3>1. PICK x \in Seq(T), y \in Seq(T) : x = FlattenSeq(F) /\ y = FlattenSeq(front)
      BY <2>6
    <3>2. PICK z \in Seq(T) : z = last
      BY <2>1
    <3>3. (x \o y) \o z = x \o (y \o z)
      BY <1>a
    <3>4. QED
      BY <3>1, <3>2, <3>3
  <2>8. QED
    BY <2>3, <2>4, <2>5, <2>7
<1> HIDE DEF N
<1>3. Len(G) \in N
  <2>1. Nat \subseteq N
    BY <1>1, <1>2, NatSetInduction
  <2>2. QED
    BY <2>1
<1>4. QED
  BY <1>3 DEF N

\* One sequence, and sequences of nothing.
LEMMA FlattenOne ==
  ASSUME NEW T, NEW s \in Seq(T)
  PROVE  FlattenSeq(<<s>>) = s
<1>1. <<s>> = Append(<<>>, s) /\ <<>> \in Seq(Seq(T)) /\ <<>> \o s = s
  OBVIOUS
<1>2. QED
  BY <1>1, FlattenFacts

\* Sequences of nothing are nothing.
LEMMA FlattenNone ==
  ASSUME NEW T, NEW F \in Seq(Seq(T)), \A i \in 1 .. Len(F) : F[i] = <<>>
  PROVE  FlattenSeq(F) = <<>>
<1> DEFINE Good(n) == \A H \in Seq(Seq(T)) :
             Len(H) = n /\ (\A i \in 1 .. n : H[i] = <<>>) => FlattenSeq(H) = <<>>
           N == {n \in Nat : Good(n)}
<1>1. 0 \in N
  <2>1. \A H \in Seq(Seq(T)) : Len(H) = 0 => H = <<>>
    OBVIOUS
  <2>2. QED
    BY <2>1, FlattenFacts
<1>2. ASSUME NEW n \in Nat, n \in N
      PROVE  n + 1 \in N
  <2> SUFFICES ASSUME NEW H \in Seq(Seq(T)), Len(H) = n + 1,
                      \A i \in 1 .. n + 1 : H[i] = <<>>
               PROVE  FlattenSeq(H) = <<>>
    OBVIOUS
  <2>1. PICK front : /\ front \in Seq(Seq(T)) /\ Len(front) = n
                     /\ \A i \in 1 .. n : front[i] = H[i]
                     /\ FlattenSeq(H) = FlattenSeq(front) \o H[n + 1]
    BY FlattenLast, Zenon
  <2>2. FlattenSeq(front) = <<>>
    BY <1>2, <2>1
  <2>3. <<>> \o <<>> = <<>>
    OBVIOUS
  <2>4. QED
    BY <2>1, <2>2, <2>3
<1> HIDE DEF N
<1>3. Len(F) \in N
  <2>1. Nat \subseteq N
    BY <1>1, <1>2, NatSetInduction
  <2>2. QED
    BY <2>1
<1>4. QED
  BY <1>3 DEF N

\* So many times the same.
LEMMA TimesFacts ==
  ASSUME NEW T, NEW s \in Seq(T)
  PROVE  /\ \A k \in Int : k <= 0 => Times(k, s) = <<>>
         /\ \A k \in Nat : /\ Times(k + 1, s) = Times(k, s) \o s
                           /\ Times(k, s) \in Seq(T)
<1>1. ASSUME NEW k \in Int, k <= 0
      PROVE  Times(k, s) = <<>>
  <2>1. [i \in 1 .. k |-> s] = <<>>
    BY <1>1
  <2>2. QED
    BY <2>1, FlattenFacts DEF Times
<1>2. ASSUME NEW k \in Nat
      PROVE  Times(k + 1, s) = Times(k, s) \o s /\ Times(k, s) \in Seq(T)
  <2> DEFINE F == [i \in 1 .. k |-> s]
             G == [i \in 1 .. k + 1 |-> s]
  <2>1. F \in Seq(Seq(T)) /\ G \in Seq(Seq(T)) /\ Append(F, s) \in Seq(Seq(T))
    OBVIOUS
  <2>2. G = Append(F, s)
    <3>1. Len(G) = k + 1 /\ Len(Append(F, s)) = k + 1
      OBVIOUS
    <3>2. \A i \in 1 .. k + 1 : G[i] = s /\ Append(F, s)[i] = s
      OBVIOUS
    <3>3. QED
      BY <2>1, <3>1, <3>2, SeqEqual
  <2> HIDE DEF F, G
  <2>3. FlattenSeq(G) = FlattenSeq(F) \o s /\ FlattenSeq(F) \in Seq(T)
    BY <2>1, <2>2, FlattenFacts
  <2>4. QED
    BY <2>3 DEF Times, F, G
<1>3. QED
  BY <1>1, <1>2

\* How rank p names what rank 0 names op.
Name(p, op) == IF p = 0 \/ op \notin Ops THEN op ELSE Dual[op]

Shaped == Ops \ Counted
Drawable == Ops \cup {"RandomAuth", "Prg"}
Draws == [for : Drawable, num : Nat]

\* The requests a rank makes, and the steps they come from.
IsReq(r) ==
  /\ r.op \in Drawable \cup {"ndss"} /\ r.num \in Nat
  /\ r.op \in Shaped => r.num \in 1 .. Elements
Reqs == {r \in [op : Drawable \cup {"ndss"}, num : Nat] : IsReq(r)}
AnyTags ==
  Drawable \cup {"commitment", "seed", "opening", "digest", "SetA", "a+x_val",
                 "a+x_mac", "OptSS_first_vole", "OptSS_second_vole", "check",
                 "now", "delay", "ndss", "cr.DelayCheck"}
Doings == {"send", "recv", "call", "push", "digest", "compare", "enforce"}
AnyStep == [do : Doings, ch : {"main"}, tag : AnyTags, num : Nat]

\* What a request takes out of a slot.
Wanted(s, r) ==
  IF \E part \in PartsOf(r.op) : s = Slot(part, r.num)
    THEN Units(s[1], r.num) ELSE 0
Need(s, requests) == AddedUp([i \in DOMAIN requests |-> Wanted(s, requests[i])])

\* The requests of the peer.
Renamed(requests) ==
  [i \in DOMAIN requests |->
     [op |-> Name(1, requests[i].op), num |-> requests[i].num]]

\* The names.
LEMMA OpsAre ==
  /\ Ops = {"BeaverTriple", "NMul", "RandomSet", "RandomGet", "RandomVoleSet",
            "RandomVoleGet", "ShuffleSet", "ShuffleGet", "ASTSet", "ASTGet",
            "DoubleASTSet", "DoubleASTGet"}
  /\ \A op \in Ops : /\ Dual[op] \in Ops /\ Dual[Dual[op]] = op
                     /\ Dual[op] \in Counted <=> op \in Counted
  /\ Counted \subseteq Ops
<1>1. Ops = {"BeaverTriple", "NMul", "RandomSet", "RandomGet", "RandomVoleSet",
             "RandomVoleGet", "ShuffleSet", "ShuffleGet", "ASTSet", "ASTGet",
             "DoubleASTSet", "DoubleASTGet"}
  BY DEF Ops, Dual
<1>2. \A op \in Ops : /\ Dual[op] \in Ops /\ Dual[Dual[op]] = op
                      /\ Dual[op] \in Counted <=> op \in Counted
  BY <1>1 DEF Dual, Counted
<1>3. Counted \subseteq Ops
  BY <1>1 DEF Counted
<1>4. QED
  BY <1>1, <1>2, <1>3

\* A slot is one of an operation.
LEMMA SlotOps ==
  ASSUME NEW s \in Slots
  PROVE  s[1] \in Ops
<1>1. CASE s \in Counted \X {0}
  <2>1. s[1] \in Counted
    BY <1>1
  <2>2. Counted \subseteq Ops
    BY OpsAre
  <2>3. QED
    BY <2>1, <2>2
<1>2. CASE s \in (Ops \ Counted) \X (1 .. Elements)
  <2>1. s[1] \in Ops \ Counted
    BY <1>2
  <2>2. QED
    BY <2>1
<1>3. QED
  BY <1>1, <1>2 DEF Slots

\* A name is that of the peer's peer, and what kind of operation it is, both ranks agree.
LEMMA NameFacts ==
  ASSUME NEW p \in Ranks
  PROVE  /\ \A op : Name(p, Name(p, op)) = op
         /\ \A op : Name(p, op) \in Ops <=> op \in Ops
         /\ \A op : Name(p, op) \in Counted <=> op \in Counted
         /\ \A op : Name(p, op) \in Shaped <=> op \in Shaped
         /\ \A op : Name(p, op) \in Drawable <=> op \in Drawable
         /\ \A op : op \notin Ops => Name(p, op) = op
         /\ \A op : Name(0, op) = op
         /\ Name(p, "RandomAuth") = "RandomAuth" /\ Name(p, "Prg") = "Prg"
         /\ Name(p, "ndss") = "ndss"
<1>1. /\ \A op \in Ops : /\ Dual[op] \in Ops /\ Dual[Dual[op]] = op
                         /\ Dual[op] \in Counted <=> op \in Counted
      /\ "RandomAuth" \notin Ops /\ "Prg" \notin Ops /\ "ndss" \notin Ops
  BY OpsAre
<1>2. QED
  BY <1>1, OpsAre DEF Name, Shaped, Drawable, Ranks

-----------------------------------------------------------------------------
\* Sums.

IsSumOf(g, w) ==
  g = [i \in 0 .. Len(w) |-> IF i = 0 THEN 0 ELSE g[i - 1] + w[i]]

\* AddedUp is defined recursively along its sequence: there is such a function.
LEMMA SumOfExists ==
  ASSUME NEW w \in Seq(Nat)
  PROVE  \E g : IsSumOf(g, w)
<1> DEFINE Good(n) ==
      \E g : g = [i \in 0 .. n |-> IF i = 0 THEN 0 ELSE g[i - 1] + w[i]]
           N == {n \in Nat : Good(n)}
<1>1. 0 \in N
  <2>1. [i \in {0} |-> 0] = [i \in 0 .. 0 |-> IF i = 0 THEN 0
                               ELSE [k \in {0} |-> 0][i - 1] + w[i]]
    OBVIOUS
  <2>2. QED
    BY <2>1
<1>2. ASSUME NEW n \in Nat, n \in N
      PROVE  n + 1 \in N
  <2>1. PICK g : g = [i \in 0 .. n |-> IF i = 0 THEN 0 ELSE g[i - 1] + w[i]]
    BY <1>2
  <2> DEFINE h == [i \in 0 .. n + 1 |-> IF i <= n THEN g[i] ELSE g[n] + w[n + 1]]
             H == [i \in 0 .. n + 1 |-> IF i = 0 THEN 0 ELSE h[i - 1] + w[i]]
  <2>2. ASSUME NEW i \in 0 .. n + 1
        PROVE  h[i] = H[i]
    <3>1. CASE i = n + 1
      <4>1. h[i] = g[n] + w[n + 1] /\ h[n] = g[n] /\ H[i] = h[n] + w[n + 1]
        BY <3>1
      <4>2. QED
        BY <4>1
    <3>2. CASE i # n + 1
      <4>1. /\ i \in 0 .. n /\ h[i] = g[i]
            /\ H[i] = IF i = 0 THEN 0 ELSE h[i - 1] + w[i]
            /\ i # 0 => h[i - 1] = g[i - 1]
        BY <3>2
      <4>2. g[i] = IF i = 0 THEN 0 ELSE g[i - 1] + w[i]
        BY <2>1, <4>1
      <4>3. QED
        BY <4>1, <4>2
    <3>3. QED
      BY <3>1, <3>2
  <2>3. h = H
    BY <2>2
  <2> HIDE DEF h
  <2>4. Good(n + 1)
    BY <2>3
  <2> HIDE DEF Good
  <2>5. QED
    BY <2>4
<1> HIDE DEF N
<1>3. Nat \subseteq N
  BY <1>1, <1>2, NatSetInduction
<1>4. Len(w) \in N
  BY <1>3
<1>5. QED
  BY <1>4 DEF N, IsSumOf

\* The sums of the beginnings.
LEMMA AddedUpFacts ==
  ASSUME NEW w \in Seq(Nat)
  PROVE  \E g \in [0 .. Len(w) -> Nat] :
           /\ g[0] = 0 /\ g[Len(w)] = AddedUp(w)
           /\ \A i \in 1 .. Len(w) : g[i] = g[i - 1] + w[i]
           /\ \A i \in 0 .. Len(w) : g[i] <= AddedUp(w)
<1> DEFINE g == CHOOSE h : IsSumOf(h, w)
<1>1. AddedUp(w) = g[Len(w)]
  BY DEF AddedUp, IsSumOf
<1>2. IsSumOf(g, w)
  BY SumOfExists
<1> HIDE DEF g
<1>3. PICK f : f = g
  OBVIOUS
<1>a. IsSumOf(f, w)
  BY <1>2, <1>3
<1>b. f = [i \in 0 .. Len(w) |-> IF i = 0 THEN 0 ELSE f[i - 1] + w[i]]
  BY <1>a DEF IsSumOf
<1>4. f[Len(w)] = AddedUp(w) /\ Len(w) \in Nat
  BY <1>1, <1>3
<1>5. f[0] = 0 /\ DOMAIN f = 0 .. Len(w)
  BY <1>b, <1>4
<1>6. \A i \in 1 .. Len(w) : f[i] = f[i - 1] + w[i]
  BY <1>b, <1>4
<1> DEFINE N == {n \in Nat : n <= Len(w) => f[n] \in Nat}
<1>7. Nat \subseteq N
  <2>1. 0 \in N
    BY <1>5
  <2>2. ASSUME NEW n \in Nat, n \in N
        PROVE  n + 1 \in N
    <3>1. SUFFICES ASSUME n + 1 <= Len(w)
                   PROVE  f[n + 1] \in Nat
      OBVIOUS
    <3>2. n + 1 \in 1 .. Len(w) /\ f[n] \in Nat /\ w[n + 1] \in Nat
      BY <1>4, <2>2, <3>1
    <3>3. f[n + 1] = f[n] + w[n + 1]
      BY <1>6, <3>2
    <3>4. QED
      BY <3>2, <3>3
  <2> HIDE DEF N
  <2>3. QED
    BY <2>1, <2>2, NatSetInduction
<1>8. f \in [0 .. Len(w) -> Nat]
  BY <1>4, <1>5, <1>7
<1> DEFINE M == {n \in Nat : n <= Len(w) => f[Len(w) - n] <= AddedUp(w)}
<1>9. Nat \subseteq M
  <2>1. 0 \in M
    <3>1. Len(w) - 0 = Len(w) /\ Len(w) \in 0 .. Len(w)
      BY <1>4
    <3>2. f[Len(w)] \in Nat
      BY <1>8, <3>1
    <3>3. QED
      BY <1>4, <3>1, <3>2
  <2>2. ASSUME NEW n \in Nat, n \in M
        PROVE  n + 1 \in M
    <3>1. SUFFICES ASSUME n + 1 <= Len(w)
                   PROVE  f[Len(w) - (n + 1)] <= AddedUp(w)
      OBVIOUS
    <3>2. PICK i \in 1 .. Len(w) : i = Len(w) - n
      <4>1. Len(w) - n \in 1 .. Len(w)
        BY <1>4, <3>1
      <4>2. QED
        BY <4>1
    <3>3. /\ f[i] = f[i - 1] + w[i] /\ f[i] \in Nat /\ f[i - 1] \in Nat
          /\ w[i] \in Nat /\ f[i] <= AddedUp(w) /\ i - 1 = Len(w) - (n + 1)
      <4>1. i - 1 = Len(w) - (n + 1) /\ i \in 0 .. Len(w) /\ i - 1 \in 0 .. Len(w)
        BY <1>4, <3>1, <3>2
      <4>6. w[i] \in Nat
        OBVIOUS
      <4>7. f[i] \in Nat /\ f[i - 1] \in Nat
        BY <1>8, <4>1
      <4>2. f[i] \in Nat /\ f[i - 1] \in Nat /\ w[i] \in Nat
        BY <4>6, <4>7
      <4>3. f[Len(w) - n] <= AddedUp(w)
        BY <1>4, <2>2, <3>1
      <4>4. f[i] = f[i - 1] + w[i]
        BY <1>6
      <4>5. QED
        BY <3>2, <4>1, <4>2, <4>3, <4>4
    <3>4. AddedUp(w) \in Nat
      <4>1. Len(w) \in 0 .. Len(w)
        BY <1>4
      <4>2. QED
        BY <1>4, <1>8, <4>1
    <3>5. QED
      BY <3>3, <3>4
  <2> HIDE DEF M
  <2>3. QED
    BY <2>1, <2>2, NatSetInduction
<1>10. ASSUME NEW i \in 0 .. Len(w)
       PROVE  f[i] <= AddedUp(w)
  <2>1. Len(w) - i \in Nat /\ Len(w) - i <= Len(w) /\ Len(w) - (Len(w) - i) = i
    BY <1>4
  <2>2. QED
    BY <1>9, <2>1
<1>11. QED
  BY <1>4, <1>5, <1>6, <1>8, <1>10

\* A sum is a number.
LEMMA AddedUpType ==
  ASSUME NEW w \in Seq(Nat)
  PROVE  AddedUp(w) \in Nat
<1>1. PICK g \in [0 .. Len(w) -> Nat] : g[Len(w)] = AddedUp(w)
  BY AddedUpFacts
<1>2. Len(w) \in 0 .. Len(w)
  OBVIOUS
<1>3. QED
  BY <1>1, <1>2

\* The sum of two sequences, one after another.
LEMMA AddedUpConcat ==
  ASSUME NEW a \in Seq(Nat), NEW b \in Seq(Nat)
  PROVE  AddedUp(a \o b) = AddedUp(a) + AddedUp(b)
<1> DEFINE c == a \o b
<1>1. /\ c \in Seq(Nat) /\ Len(c) = Len(a) + Len(b) /\ Len(a) \in Nat /\ Len(b) \in Nat
      /\ \A i \in 1 .. Len(a) : c[i] = a[i] /\ i \in 1 .. Len(c)
      /\ \A i \in 1 .. Len(b) : c[Len(a) + i] = b[i] /\ Len(a) + i \in 1 .. Len(c)
  OBVIOUS
<1> HIDE DEF c
<1>2. PICK f \in [0 .. Len(a) -> Nat] :
        /\ f[0] = 0 /\ f[Len(a)] = AddedUp(a)
        /\ \A i \in 1 .. Len(a) : f[i] = f[i - 1] + a[i]
  BY AddedUpFacts
<1>3. PICK g \in [0 .. Len(b) -> Nat] :
        /\ g[0] = 0 /\ g[Len(b)] = AddedUp(b)
        /\ \A i \in 1 .. Len(b) : g[i] = g[i - 1] + b[i]
  BY AddedUpFacts
<1>4. PICK h \in [0 .. Len(c) -> Nat] :
        /\ h[0] = 0 /\ h[Len(c)] = AddedUp(c)
        /\ \A i \in 1 .. Len(c) : h[i] = h[i - 1] + c[i]
  BY <1>1, AddedUpFacts
<1> DEFINE N == {n \in Nat : n <= Len(a) => h[n] = f[n]}
           M == {n \in Nat : n <= Len(b) => h[Len(a) + n] = f[Len(a)] + g[n]}
<1>5. Nat \subseteq N
  <2>1. 0 \in N
    BY <1>2, <1>4
  <2>2. ASSUME NEW n \in Nat, n \in N
        PROVE  n + 1 \in N
    <3>1. SUFFICES ASSUME n + 1 <= Len(a)
                   PROVE  h[n + 1] = f[n + 1]
      OBVIOUS
    <3>2. /\ n + 1 \in 1 .. Len(a) /\ h[n] = f[n] /\ n + 1 \in 1 .. Len(c)
          /\ (n + 1) - 1 = n
      <4>1. PICK x \in Nat, y \in Nat : x = Len(a) /\ y = Len(b)
        BY <1>1
      <4>2. /\ n + 1 \in 1 .. x /\ n <= x /\ n + 1 \in 1 .. x + y
            /\ (n + 1) - 1 = n
        BY <2>2, <3>1, <4>1
      <4>3. h[n] = f[n]
        BY <2>2, <4>1, <4>2
      <4>4. QED
        BY <1>1, <4>1, <4>2, <4>3
    <3>3. QED
      BY <1>1, <1>2, <1>4, <3>2
  <2> HIDE DEF N
  <2>3. QED
    BY <2>1, <2>2, NatSetInduction
<1>6. Nat \subseteq M
  <2>1. 0 \in M
    <3>1. Len(a) \in N /\ Len(a) + 0 = Len(a) /\ f[Len(a)] \in Nat
      BY <1>1, <1>2, <1>5
    <3>2. QED
      BY <1>1, <1>3, <3>1
  <2>2. ASSUME NEW n \in Nat, n \in M
        PROVE  n + 1 \in M
    <3>1. SUFFICES ASSUME n + 1 <= Len(b)
                   PROVE  h[Len(a) + (n + 1)] = f[Len(a)] + g[n + 1]
      OBVIOUS
    <3>2. PICK i \in 1 .. Len(c) : i = Len(a) + (n + 1)
      <4>1. n + 1 \in 1 .. Len(b)
        BY <1>1, <3>1
      <4>2. Len(a) + (n + 1) \in 1 .. Len(c)
        BY <1>1, <4>1
      <4>3. QED
        BY <4>2
    <3>3. /\ n + 1 \in 1 .. Len(b) /\ h[i - 1] = f[Len(a)] + g[n]
          /\ c[i] = b[n + 1] /\ (n + 1) - 1 = n /\ h[i] = h[i - 1] + c[i]
      <4>1. n + 1 \in 1 .. Len(b) /\ i - 1 = Len(a) + n /\ n <= Len(b) /\ (n + 1) - 1 = n
        BY <1>1, <3>1, <3>2
      <4>2. h[Len(a) + n] = f[Len(a)] + g[n]
        BY <2>2, <4>1
      <4>3. c[Len(a) + (n + 1)] = b[n + 1]
        BY <1>1, <4>1
      <4>4. h[i] = h[i - 1] + c[i]
        BY <1>4
      <4>5. QED
        BY <3>2, <4>1, <4>2, <4>3, <4>4
    <3>4. /\ g[n + 1] = g[n] + b[n + 1] /\ g[n] \in Nat /\ b[n + 1] \in Nat
          /\ f[Len(a)] \in Nat
      <4>1. Len(a) \in 0 .. Len(a) /\ n \in 0 .. Len(b)
        BY <1>1, <3>1
      <4>2. f[Len(a)] \in Nat /\ g[n] \in Nat
        BY <4>1
      <4>3. b[n + 1] \in Nat
        BY <3>3
      <4>4. g[n + 1] = g[(n + 1) - 1] + b[n + 1]
        BY <1>3, <3>3
      <4>5. QED
        BY <3>3, <4>2, <4>3, <4>4
    <3>5. QED
      BY <3>2, <3>3, <3>4
  <2> HIDE DEF M
  <2>3. QED
    BY <2>1, <2>2, NatSetInduction
<1>7. h[Len(a) + Len(b)] = f[Len(a)] + g[Len(b)]
  <2>1. PICK y \in Nat : y = Len(b)
    BY <1>1
  <2>2. y \in M
    BY <1>6
  <2>3. h[Len(a) + y] = f[Len(a)] + g[y]
    BY <2>1, <2>2
  <2>4. QED
    BY <2>1, <2>3
<1>8. QED
  BY <1>1, <1>2, <1>3, <1>4, <1>7 DEF c

\* The sum of nothing, and of one number.
LEMMA AddedUpOne ==
  /\ AddedUp(<<>>) = 0
  /\ \A x \in Nat : AddedUp(<<x>>) = x
<1>1. AddedUp(<<>>) = 0
  <2>1. <<>> \in Seq(Nat) /\ Len(<<>>) = 0
    OBVIOUS
  <2>2. PICK g : g[0] = 0 /\ g[Len(<<>>)] = AddedUp(<<>>)
    BY <2>1, AddedUpFacts
  <2>3. QED
    BY <2>1, <2>2
<1>2. ASSUME NEW x \in Nat
      PROVE  AddedUp(<<x>>) = x
  <2>1. PICK w : w = <<x>>
    OBVIOUS
  <2>2. w \in Seq(Nat) /\ Len(w) = 1 /\ w[1] = x /\ 1 \in 1 .. Len(w) /\ 1 - 1 = 0
    BY <2>1
  <2>3. PICK g : /\ g[0] = 0 /\ g[Len(w)] = AddedUp(w)
                 /\ \A i \in 1 .. Len(w) : g[i] = g[i - 1] + w[i]
    BY <2>2, AddedUpFacts
  <2>4. g[1] = 0 + x
    BY <2>2, <2>3
  <2>5. QED
    BY <2>1, <2>2, <2>3, <2>4
<1>3. QED
  BY <1>1, <1>2

-----------------------------------------------------------------------------
\* Requests and their sizes, of one sequence after another.

\* H is F and then G.
IsConcat(F, G, H) ==
  /\ Len(H) = Len(F) + Len(G)
  /\ \A i \in 1 .. Len(F) : H[i] = F[i]
  /\ \A i \in 1 .. Len(G) : H[Len(F) + i] = G[i]

\* A sequence that has the elements of two, one after another.
LEMMA ConcatPointwise ==
  ASSUME NEW T, NEW F \in Seq(T), NEW G \in Seq(T), NEW H \in Seq(T),
         IsConcat(F, G, H)
  PROVE  H = F \o G
<1> DEFINE C == F \o G
<1>1. /\ C \in Seq(T) /\ Len(C) = Len(F) + Len(G)
      /\ \A i \in 1 .. Len(F) : C[i] = F[i]
      /\ \A i \in 1 .. Len(G) : C[Len(F) + i] = G[i]
      /\ Len(F) \in Nat /\ Len(G) \in Nat
  OBVIOUS
<1> HIDE DEF C
<1>2. ASSUME NEW i \in 1 .. Len(H)
      PROVE  H[i] = C[i]
  <2>1. CASE i <= Len(F)
    <3>1. i \in 1 .. Len(F)
      BY <1>1, <2>1
    <3>2. QED
      BY <1>1, <3>1 DEF IsConcat
  <2>2. CASE ~(i <= Len(F))
    <3>1. PICK j \in 1 .. Len(G) : i = Len(F) + j
      <4>1. i - Len(F) \in 1 .. Len(G) /\ i = Len(F) + (i - Len(F))
        BY <1>1, <2>2 DEF IsConcat
      <4>2. QED
        BY <4>1
    <3>2. QED
      BY <1>1, <3>1 DEF IsConcat
  <2>3. QED
    BY <2>1, <2>2
<1>3. H = C
  BY <1>1, <1>2, SeqEqual DEF IsConcat
<1>4. QED
  BY <1>3 DEF C

\* What f makes of the elements of a sequence.
Mapped(f, a) == FlattenSeq([i \in DOMAIN a |-> f[a[i]]])

\* What is made of two sequences, one after another.
LEMMA MapConcat ==
  ASSUME NEW S, NEW T, NEW f \in [S -> Seq(T)], NEW a \in Seq(S), NEW b \in Seq(S)
  PROVE  Mapped(f, a \o b) = Mapped(f, a) \o Mapped(f, b)
<1> DEFINE F == [i \in DOMAIN a |-> f[a[i]]]
           G == [i \in DOMAIN b |-> f[b[i]]]
           c == a \o b
           H == [i \in DOMAIN c |-> f[c[i]]]
<1>1. /\ c \in Seq(S) /\ Len(c) = Len(a) + Len(b) /\ Len(a) \in Nat /\ Len(b) \in Nat
      /\ \A i \in 1 .. Len(a) : c[i] = a[i]
      /\ \A i \in 1 .. Len(b) : c[Len(a) + i] = b[i]
      /\ DOMAIN a = 1 .. Len(a) /\ DOMAIN b = 1 .. Len(b) /\ DOMAIN c = 1 .. Len(c)
  OBVIOUS
<1> HIDE DEF c
<1>2. F \in Seq(Seq(T)) /\ Len(F) = Len(a) /\ \A i \in 1 .. Len(a) : F[i] = f[a[i]]
  <2>1. \A i \in 1 .. Len(a) : f[a[i]] \in Seq(T)
    OBVIOUS
  <2>2. QED
    BY <1>1, <2>1
<1>3. G \in Seq(Seq(T)) /\ Len(G) = Len(b) /\ \A i \in 1 .. Len(b) : G[i] = f[b[i]]
  <2>1. \A i \in 1 .. Len(b) : f[b[i]] \in Seq(T)
    OBVIOUS
  <2>2. QED
    BY <1>1, <2>1
<1>4. H \in Seq(Seq(T)) /\ Len(H) = Len(c) /\ \A i \in 1 .. Len(c) : H[i] = f[c[i]]
  <2>1. \A i \in 1 .. Len(c) : f[c[i]] \in Seq(T)
    BY <1>1
  <2>2. QED
    BY <1>1, <2>1
<1> HIDE DEF F, G, H
<1>5. H = F \o G
  <2>4. Len(H) = Len(F) + Len(G)
    BY <1>1, <1>2, <1>3, <1>4
  <2>1. \A k \in 1 .. Len(F) : H[k] = F[k]
    <3>1. \A k \in 1 .. Len(a) : k \in 1 .. Len(c)
      BY <1>1
    <3>2. QED
      BY <1>1, <1>2, <1>3, <1>4, <3>1
  <2>2. \A k \in 1 .. Len(G) : H[Len(F) + k] = G[k]
    <3>1. \A k \in 1 .. Len(b) : Len(a) + k \in 1 .. Len(c)
      BY <1>1
    <3>2. QED
      BY <1>1, <1>2, <1>3, <1>4, <3>1
  <2>3. QED
    <3>1. F \in Seq(Seq(T)) /\ G \in Seq(Seq(T)) /\ H \in Seq(Seq(T))
      BY <1>2, <1>3, <1>4
    <3>2. IsConcat(F, G, H)
      BY <2>1, <2>2, <2>4 DEF IsConcat
    <3>3. QED
      BY <3>1, <3>2, ConcatPointwise
<1>6. FlattenSeq(H) = FlattenSeq(F) \o FlattenSeq(G)
  BY <1>2, <1>3, <1>5, FlattenConcat
<1>7. QED
  BY <1>6 DEF F, G, H, c, Mapped

\* What is made of a sequence is a sequence.
LEMMA MapType ==
  ASSUME NEW S, NEW T, NEW f \in [S -> Seq(T)], NEW a \in Seq(S)
  PROVE  Mapped(f, a) \in Seq(T)
<1>1. [i \in DOMAIN a |-> f[a[i]]] \in Seq(Seq(T))
  <2>1. \A i \in 1 .. Len(a) : f[a[i]] \in Seq(T)
    OBVIOUS
  <2>2. DOMAIN a = 1 .. Len(a) /\ Len(a) \in Nat
    OBVIOUS
  <2>3. QED
    BY <2>1, <2>2
<1>2. QED
  BY <1>1, FlattenFacts DEF Mapped

\* The sizes of the requests of one operation, of two sequences of requests.
LEMMA SizesFacts ==
  ASSUME NEW op, NEW a \in Seq(Reqs), NEW b \in Seq(Reqs)
  PROVE  /\ SizesOf(op, a) \in Seq(Nat)
         /\ SizesOf(op, a \o b) = SizesOf(op, a) \o SizesOf(op, b)
<1> DEFINE f == [r \in Reqs |-> IF r.op = op THEN <<r.num>> ELSE <<>>]
<1>1. f \in [Reqs -> Seq(Nat)]
  BY DEF Reqs
<1>2. \A c \in Seq(Reqs) :
        SizesOf(op, c) = Mapped(f, c)
  <2> SUFFICES ASSUME NEW c \in Seq(Reqs)
               PROVE  SizesOf(op, c) = Mapped(f, c)
    OBVIOUS
  <2>1. \A i \in DOMAIN c : c[i] \in Reqs
    OBVIOUS
  <2>2. [i \in DOMAIN c |-> IF c[i].op = op THEN <<c[i].num>> ELSE <<>>]
          = [i \in DOMAIN c |-> f[c[i]]]
    BY <2>1
  <2>3. QED
    BY <2>2 DEF SizesOf, Mapped
<1> HIDE DEF f
<1>3. a \o b \in Seq(Reqs)
  OBVIOUS
<1>4. Mapped(f, a) \in Seq(Nat)
  BY <1>1, MapType
<1>5. Mapped(f, a \o b) = Mapped(f, a) \o Mapped(f, b)
  BY <1>1, MapConcat
<1>6. QED
  BY <1>2, <1>3, <1>4, <1>5

\* The sizes of one request, and of none.
LEMMA SizesOne ==
  ASSUME NEW op, NEW o, NEW n, n \in Nat
  PROVE  /\ SizesOf(op, Count(o, n)) = IF o = op THEN <<n>> ELSE <<>>
         /\ SizesOf(op, <<>>) = <<>>
<1> DEFINE x == IF o = op THEN <<n>> ELSE <<>>
<1>1. x \in Seq(Nat)
  OBVIOUS
<1>2. [i \in DOMAIN Count(o, n) |->
         IF Count(o, n)[i].op = op THEN <<Count(o, n)[i].num>> ELSE <<>>] = <<x>>
  BY DEF Count
<1>3. SizesOf(op, Count(o, n)) = x
  BY <1>1, <1>2, FlattenOne DEF SizesOf
<1>4. SizesOf(op, <<>>) = <<>>
  <2>1. \A r : r = <<>> => [i \in DOMAIN r |-> IF r[i].op = op THEN <<r[i].num>> ELSE <<>>] = <<>>
    OBVIOUS
  <2>2. QED
    BY <2>1, FlattenFacts DEF SizesOf
<1>5. QED
  BY <1>3, <1>4

StepRequests(s) == IF IsRequest(s) THEN Count(s.tag, s.num) ELSE <<>>
AnyReq == [op : AnyTags, num : Nat]

\* The requests of a step.
LEMMA StepRequestsType ==
  ASSUME NEW s \in AnyStep
  PROVE  StepRequests(s) \in Seq(AnyReq)
<1>1. s.tag \in AnyTags /\ s.num \in Nat
  BY DEF AnyStep
<1>2. PICK r \in AnyReq : r = [op |-> s.tag, num |-> s.num]
  BY <1>1 DEF AnyReq
<1>3. Count(s.tag, s.num) = <<r>> /\ <<r>> \in Seq(AnyReq) /\ <<>> \in Seq(AnyReq)
  BY <1>2 DEF Count
<1>4. QED
  BY <1>3 DEF StepRequests

\* The requests of a script are those of its parts, one after another.
LEMMA RequestsFacts ==
  ASSUME NEW a \in Seq(AnyStep), NEW b \in Seq(AnyStep)
  PROVE  /\ Requests(a) \in Seq(AnyReq)
         /\ Requests(a \o b) = Requests(a) \o Requests(b)
<1> DEFINE f == [s \in AnyStep |-> StepRequests(s)]
<1>1. f \in [AnyStep -> Seq(AnyReq)]
  BY StepRequestsType
<1>2. \A c \in Seq(AnyStep) :
        Requests(c) = Mapped(f, c)
  <2> SUFFICES ASSUME NEW c \in Seq(AnyStep)
               PROVE  Requests(c) = Mapped(f, c)
    OBVIOUS
  <2>1. \A i \in DOMAIN c : c[i] \in AnyStep
    OBVIOUS
  <2>2. [i \in DOMAIN c |->
           IF IsRequest(c[i]) THEN Count(c[i].tag, c[i].num) ELSE <<>>]
          = [i \in DOMAIN c |-> f[c[i]]]
    BY <2>1 DEF StepRequests
  <2>3. QED
    BY <2>2 DEF Requests, Mapped
<1> HIDE DEF f
<1>3. a \o b \in Seq(AnyStep)
  OBVIOUS
<1>4. Mapped(f, a) \in Seq(AnyReq)
  BY <1>1, MapType
<1>5. Mapped(f, a \o b) = Mapped(f, a) \o Mapped(f, b)
  BY <1>1, MapConcat
<1>6. QED
  BY <1>2, <1>3, <1>4, <1>5

\* The requests of a script of one step, and of none.
LEMMA RequestsOne ==
  /\ \A s \in AnyStep : Requests(<<s>>) = StepRequests(s)
  /\ Requests(<<>>) = <<>>
<1>1. ASSUME NEW s \in AnyStep
      PROVE  Requests(<<s>>) = StepRequests(s)
  <2>1. StepRequests(s) \in Seq(AnyReq)
    BY StepRequestsType
  <2>2. [i \in DOMAIN <<s>> |->
           IF IsRequest(<<s>>[i]) THEN Count(<<s>>[i].tag, <<s>>[i].num) ELSE <<>>]
          = <<StepRequests(s)>>
    BY DEF StepRequests
  <2>3. QED
    BY <2>1, <2>2, FlattenOne DEF Requests
<1>2. Requests(<<>>) = <<>>
  <2>1. \A r : r = <<>> => [i \in DOMAIN r |->
           IF IsRequest(r[i]) THEN Count(r[i].tag, r[i].num) ELSE <<>>] = <<>>
    OBVIOUS
  <2>2. QED
    BY <2>1, FlattenFacts DEF Requests
<1>3. QED
  BY <1>1, <1>2

\* What a request takes is counted.
LEMMA UnitsType ==
  ASSUME NEW x, NEW n \in Nat
  PROVE  Units(x, n) \in Nat
  BY DEF Units

\* What requests take and what sizes fill adds up.
LEMMA NeedFacts ==
  ASSUME NEW x, NEW a \in Seq(Reqs), NEW b \in Seq(Reqs)
  PROVE  /\ Need(x, a) \in Nat
         /\ Need(x, a \o b) = Need(x, a) + Need(x, b)
<1> DEFINE w(c) == [i \in DOMAIN c |-> Wanted(x, c[i])]
<1>1. \A r \in Reqs : Wanted(x, r) \in Nat
  BY UnitsType DEF Wanted, Reqs
<1>2. \A c \in Seq(Reqs) : w(c) \in Seq(Nat)
  <2> SUFFICES ASSUME NEW c \in Seq(Reqs)
               PROVE  w(c) \in Seq(Nat)
    OBVIOUS
  <2>1. \A i \in 1 .. Len(c) : c[i] \in Reqs
    OBVIOUS
  <2>2. DOMAIN c = 1 .. Len(c) /\ Len(c) \in Nat
    OBVIOUS
  <2>3. QED
    BY <1>1, <2>1, <2>2
<1>3. w(a \o b) = w(a) \o w(b)
  <2>1. PICK c : c = a \o b
    OBVIOUS
  <2>2. /\ c \in Seq(Reqs) /\ Len(c) = Len(a) + Len(b) /\ Len(a) \in Nat /\ Len(b) \in Nat
        /\ \A i \in 1 .. Len(a) : c[i] = a[i] /\ i \in 1 .. Len(c)
        /\ \A i \in 1 .. Len(b) : c[Len(a) + i] = b[i] /\ Len(a) + i \in 1 .. Len(c)
        /\ DOMAIN a = 1 .. Len(a) /\ DOMAIN b = 1 .. Len(b) /\ DOMAIN c = 1 .. Len(c)
    BY <2>1
  <2>3. PICK A, B, C : A = w(a) /\ B = w(b) /\ C = w(c)
    OBVIOUS
  <2>4. A \in Seq(Nat) /\ B \in Seq(Nat) /\ C \in Seq(Nat)
    BY <1>2, <2>2, <2>3
  <2>5. /\ Len(A) = Len(a) /\ Len(B) = Len(b) /\ Len(C) = Len(c)
        /\ \A i \in 1 .. Len(a) : A[i] = Wanted(x, a[i])
        /\ \A i \in 1 .. Len(b) : B[i] = Wanted(x, b[i])
        /\ \A i \in 1 .. Len(c) : C[i] = Wanted(x, c[i])
    BY <2>2, <2>3
  <2>6. C = A \o B
    <3>1. Len(C) = Len(A) + Len(B)
      BY <2>2, <2>5
    <3>2. \A i \in 1 .. Len(A) : C[i] = A[i]
      BY <2>2, <2>5
    <3>3. \A i \in 1 .. Len(B) : C[Len(A) + i] = B[i]
      BY <2>2, <2>5
    <3>4. IsConcat(A, B, C)
      BY <3>1, <3>2, <3>3 DEF IsConcat
    <3>5. QED
      BY <2>4, <3>4, ConcatPointwise
  <2>7. QED
    BY <2>1, <2>3, <2>6
<1>4. \A c : Need(x, c) = AddedUp(w(c))
  BY DEF Need
<1>5. w(a) \in Seq(Nat) /\ w(b) \in Seq(Nat)
  BY <1>2
<1> HIDE DEF w
<1>6. QED
  BY <1>3, <1>4, <1>5, AddedUpConcat, AddedUpType

\* What the sizes of two sequences of requests fill adds up.
LEMMA FilledFacts ==
  ASSUME NEW x, NEW a \in Seq(Nat), NEW b \in Seq(Nat)
  PROVE  /\ Filled(x, a) \in Nat
         /\ Filled(x, a \o b) = Filled(x, a) + Filled(x, b)
<1> DEFINE put(n) == IF Slot(x[1], n) = x THEN Units(x[1], n) ELSE 0
           w(c) == [i \in DOMAIN c |-> put(c[i])]
<1>1. \A n \in Nat : put(n) \in Nat
  BY UnitsType
<1>2. \A c : Filled(x, c) = AddedUp(w(c))
  BY DEF Filled
<1> HIDE DEF put
<1>3. \A c \in Seq(Nat) : w(c) \in Seq(Nat)
  <2> SUFFICES ASSUME NEW c \in Seq(Nat)
               PROVE  w(c) \in Seq(Nat)
    OBVIOUS
  <2>1. \A i \in 1 .. Len(c) : c[i] \in Nat
    OBVIOUS
  <2>2. DOMAIN c = 1 .. Len(c) /\ Len(c) \in Nat
    OBVIOUS
  <2>3. QED
    BY <1>1, <2>1, <2>2
<1>4. w(a \o b) = w(a) \o w(b)
  <2>1. PICK c : c = a \o b
    OBVIOUS
  <2>2. /\ c \in Seq(Nat) /\ Len(c) = Len(a) + Len(b) /\ Len(a) \in Nat /\ Len(b) \in Nat
        /\ \A i \in 1 .. Len(a) : c[i] = a[i] /\ i \in 1 .. Len(c)
        /\ \A i \in 1 .. Len(b) : c[Len(a) + i] = b[i] /\ Len(a) + i \in 1 .. Len(c)
        /\ DOMAIN a = 1 .. Len(a) /\ DOMAIN b = 1 .. Len(b) /\ DOMAIN c = 1 .. Len(c)
    BY <2>1
  <2>3. PICK A, B, C : A = w(a) /\ B = w(b) /\ C = w(c)
    OBVIOUS
  <2>4. A \in Seq(Nat) /\ B \in Seq(Nat) /\ C \in Seq(Nat)
    BY <1>3, <2>2, <2>3
  <2>5. /\ Len(A) = Len(a) /\ Len(B) = Len(b) /\ Len(C) = Len(c)
        /\ \A i \in 1 .. Len(a) : A[i] = put(a[i])
        /\ \A i \in 1 .. Len(b) : B[i] = put(b[i])
        /\ \A i \in 1 .. Len(c) : C[i] = put(c[i])
    BY <2>2, <2>3
  <2>6. C = A \o B
    <3>1. Len(C) = Len(A) + Len(B)
      BY <2>2, <2>5
    <3>2. \A i \in 1 .. Len(A) : C[i] = A[i]
      BY <2>2, <2>5
    <3>3. \A i \in 1 .. Len(B) : C[Len(A) + i] = B[i]
      BY <2>2, <2>5
    <3>4. IsConcat(A, B, C)
      BY <3>1, <3>2, <3>3 DEF IsConcat
    <3>5. QED
      BY <2>4, <3>4, ConcatPointwise
  <2>7. QED
    BY <2>1, <2>3, <2>6
<1>5. w(a) \in Seq(Nat) /\ w(b) \in Seq(Nat)
  BY <1>3
<1> HIDE DEF w
<1>6. AddedUp(w(a) \o w(b)) = AddedUp(w(a)) + AddedUp(w(b))
  BY <1>5, AddedUpConcat
<1>7. AddedUp(w(a)) \in Nat
  BY <1>5, AddedUpType
<1>8. /\ Filled(x, a) = AddedUp(w(a)) /\ Filled(x, b) = AddedUp(w(b))
      /\ Filled(x, a \o b) = AddedUp(w(a \o b))
  BY <1>2
<1>9. QED
  BY <1>4, <1>6, <1>7, <1>8

\* What one size fills, and what none.
LEMMA FilledOne ==
  ASSUME NEW x
  PROVE  /\ Filled(x, <<>>) = 0
         /\ \A n \in Nat : Filled(x, <<n>>) = IF Slot(x[1], n) = x THEN Units(x[1], n) ELSE 0
<1>1. Filled(x, <<>>) = 0
  <2>1. \A c : c = <<>> => [i \in DOMAIN c |->
          IF Slot(x[1], c[i]) = x THEN Units(x[1], c[i]) ELSE 0] = <<>>
    OBVIOUS
  <2>2. QED
    BY <2>1, AddedUpOne DEF Filled
<1>2. ASSUME NEW n \in Nat
      PROVE  Filled(x, <<n>>) = IF Slot(x[1], n) = x THEN Units(x[1], n) ELSE 0
  <2> DEFINE u == IF Slot(x[1], n) = x THEN Units(x[1], n) ELSE 0
  <2>1. [i \in DOMAIN <<n>> |->
          IF Slot(x[1], <<n>>[i]) = x THEN Units(x[1], <<n>>[i]) ELSE 0] = <<u>>
    OBVIOUS
  <2>2. u \in Nat
    BY UnitsType
  <2>3. Filled(x, <<n>>) = AddedUp(<<u>>)
    BY <2>1 DEF Filled
  <2> HIDE DEF u
  <2>4. Filled(x, <<n>>) = u
    BY <2>2, <2>3, AddedUpOne
  <2>5. QED
    BY <2>4 DEF u
<1>3. QED
  BY <1>1, <1>2

\* What one request takes, and what none.
LEMMA NeedOne ==
  ASSUME NEW x
  PROVE  /\ Need(x, <<>>) = 0
         /\ \A op : \A n \in Nat :
              Need(x, Count(op, n))
                = IF \E part \in PartsOf(op) : x = Slot(part, n)
                    THEN Units(x[1], n) ELSE 0
<1>1. Need(x, <<>>) = 0
  <2>1. \A c : c = <<>> => [i \in DOMAIN c |-> Wanted(x, c[i])] = <<>>
    OBVIOUS
  <2>2. QED
    BY <2>1, AddedUpOne DEF Need
<1>2. ASSUME NEW op, NEW n \in Nat
      PROVE  Need(x, Count(op, n))
                = IF \E part \in PartsOf(op) : x = Slot(part, n)
                    THEN Units(x[1], n) ELSE 0
  <2> DEFINE r == [op |-> op, num |-> n]
             u == Wanted(x, r)
  <2>1. u = IF \E part \in PartsOf(op) : x = Slot(part, n)
              THEN Units(x[1], n) ELSE 0
    BY DEF Wanted
  <2>2. u \in Nat
    BY <2>1, UnitsType
  <2>3. [i \in DOMAIN <<r>> |-> Wanted(x, <<r>>[i])] = <<u>>
    OBVIOUS
  <2>4. Need(x, Count(op, n)) = AddedUp(<<u>>)
    BY <2>3 DEF Need, Count
  <2> HIDE DEF u, r
  <2>5. QED
    BY <2>1, <2>2, <2>4, AddedUpOne
<1>3. QED
  BY <1>1, <1>2

-----------------------------------------------------------------------------
\* What the ranks ask for meanwhile, and what their twins count.

Covers(a, r) ==
  \A x \in Slots : Need(x, Requests(a)) = Filled(x, SizesOf(x[1], r))

Planned(a, b, r, u) ==
  /\ a \in Seq(AnyStep) /\ b \in Seq(AnyStep)
  /\ r \in Seq(Reqs) /\ u \in Seq(Reqs)
  /\ Requests(a) \in Seq(Reqs) /\ Requests(b) \in Seq(Reqs)
  /\ Requests(b) = Renamed(Requests(a))
  /\ \A op \in Ops \cup {"Prg"} : SizesOf(Name(1, op), u) = SizesOf(op, r)
  /\ Covers(a, r) /\ Covers(b, u)

\* The requests of the peer, one by one and one sequence after another.
LEMMA RenamedFacts ==
  ASSUME NEW a \in Seq(Reqs), NEW b \in Seq(Reqs)
  PROVE  /\ Renamed(a) \in Seq(Reqs) /\ Len(Renamed(a)) = Len(a)
         /\ \A i \in 1 .. Len(a) : /\ Renamed(a)[i].op = Name(1, a[i].op)
                                   /\ Renamed(a)[i].num = a[i].num
         /\ Renamed(a \o b) = Renamed(a) \o Renamed(b)
<1> DEFINE f(r) == [op |-> Name(1, r.op), num |-> r.num]
<1>1. \A r \in Reqs : f(r) \in Reqs
  <2> SUFFICES ASSUME NEW r \in Reqs
               PROVE  f(r) \in Reqs
    OBVIOUS
  <2>1. /\ r.op \in Drawable \cup {"ndss"} /\ r.num \in Nat
        /\ r.op \in Shaped => r.num \in 1 .. Elements
    BY DEF Reqs, IsReq
  <2>2. /\ Name(1, r.op) \in Drawable \cup {"ndss"}
        /\ Name(1, r.op) \in Shaped <=> r.op \in Shaped
    BY <2>1, NameFacts DEF Ranks
  <2>3. QED
    BY <2>1, <2>2 DEF Reqs, IsReq
<1>2. \A c \in Seq(Reqs) : /\ Renamed(c) \in Seq(Reqs) /\ Len(Renamed(c)) = Len(c)
                           /\ \A i \in 1 .. Len(c) : Renamed(c)[i] = f(c[i])
  <2> SUFFICES ASSUME NEW c \in Seq(Reqs)
               PROVE  /\ Renamed(c) \in Seq(Reqs) /\ Len(Renamed(c)) = Len(c)
                      /\ \A i \in 1 .. Len(c) : Renamed(c)[i] = f(c[i])
    OBVIOUS
  <2>1. DOMAIN c = 1 .. Len(c) /\ Len(c) \in Nat /\ \A i \in 1 .. Len(c) : c[i] \in Reqs
    OBVIOUS
  <2>2. Renamed(c) = [i \in 1 .. Len(c) |-> f(c[i])]
    BY <2>1 DEF Renamed
  <2> HIDE DEF f
  <2>3. QED
    BY <1>1, <2>1, <2>2
<1>3. \A r : f(r).op = Name(1, r.op) /\ f(r).num = r.num
  OBVIOUS
<1> HIDE DEF f
<1>4. Renamed(a \o b) = Renamed(a) \o Renamed(b)
  <2>1. PICK c : c = a \o b
    OBVIOUS
  <2>2. /\ c \in Seq(Reqs) /\ Len(c) = Len(a) + Len(b) /\ Len(a) \in Nat /\ Len(b) \in Nat
        /\ \A i \in 1 .. Len(a) : c[i] = a[i] /\ i \in 1 .. Len(c)
        /\ \A i \in 1 .. Len(b) : c[Len(a) + i] = b[i] /\ Len(a) + i \in 1 .. Len(c)
    BY <2>1
  <2>3. PICK A, B, C : A = Renamed(a) /\ B = Renamed(b) /\ C = Renamed(c)
    OBVIOUS
  <2>4. A \in Seq(Reqs) /\ B \in Seq(Reqs) /\ C \in Seq(Reqs)
    BY <1>2, <2>2, <2>3
  <2>5. /\ Len(A) = Len(a) /\ Len(B) = Len(b) /\ Len(C) = Len(c)
        /\ \A i \in 1 .. Len(a) : A[i] = f(a[i])
        /\ \A i \in 1 .. Len(b) : B[i] = f(b[i])
        /\ \A i \in 1 .. Len(c) : C[i] = f(c[i])
    BY <1>2, <2>2, <2>3
  <2>6. C = A \o B
    <3>1. Len(C) = Len(A) + Len(B)
      BY <2>2, <2>5
    <3>2. \A i \in 1 .. Len(A) : C[i] = A[i]
      BY <2>2, <2>5
    <3>3. \A i \in 1 .. Len(B) : C[Len(A) + i] = B[i]
      BY <2>2, <2>5
    <3>4. IsConcat(A, B, C)
      BY <3>1, <3>2, <3>3 DEF IsConcat
    <3>5. QED
      BY <2>4, <3>4, ConcatPointwise
  <2>7. QED
    BY <2>1, <2>3, <2>6
<1>5. QED
  BY <1>2, <1>3, <1>4

\* Of two scripts whose twins count what they take, one after another, the twins do.
LEMMA CoversConcat ==
  ASSUME NEW a \in Seq(AnyStep), NEW b \in Seq(AnyStep),
         NEW r \in Seq(Reqs), NEW u \in Seq(Reqs),
         Requests(a) \in Seq(Reqs), Requests(b) \in Seq(Reqs),
         Covers(a, r), Covers(b, u)
  PROVE  Covers(a \o b, r \o u)
<1> SUFFICES ASSUME NEW x \in Slots
             PROVE  Need(x, Requests(a \o b)) = Filled(x, SizesOf(x[1], r \o u))
  BY DEF Covers
<1>1. Requests(a \o b) = Requests(a) \o Requests(b)
  BY RequestsFacts
<1>2. Need(x, Requests(a \o b)) = Need(x, Requests(a)) + Need(x, Requests(b))
  BY <1>1, NeedFacts
<1>3. PICK k, m : k = SizesOf(x[1], r) /\ m = SizesOf(x[1], u)
  OBVIOUS
<1>4. k \in Seq(Nat) /\ m \in Seq(Nat) /\ SizesOf(x[1], r \o u) = k \o m
  BY <1>3, SizesFacts
<1>5. Filled(x, k \o m) = Filled(x, k) + Filled(x, m)
  BY <1>4, FilledFacts
<1>6. QED
  BY <1>2, <1>3, <1>4, <1>5 DEF Covers

\* Two planned pairs of scripts, one after another, are planned.
LEMMA PlannedConcat ==
  ASSUME NEW a, NEW b, NEW r, NEW u, NEW c, NEW d, NEW s, NEW v,
         Planned(a, b, r, u), Planned(c, d, s, v)
  PROVE  Planned(a \o c, b \o d, r \o s, u \o v)
<1>1. /\ a \in Seq(AnyStep) /\ b \in Seq(AnyStep) /\ r \in Seq(Reqs) /\ u \in Seq(Reqs)
      /\ Requests(a) \in Seq(Reqs) /\ Requests(b) \in Seq(Reqs)
      /\ Requests(b) = Renamed(Requests(a)) /\ Covers(a, r) /\ Covers(b, u)
      /\ \A op \in Ops \cup {"Prg"} : SizesOf(Name(1, op), u) = SizesOf(op, r)
  BY DEF Planned
<1>2. /\ c \in Seq(AnyStep) /\ d \in Seq(AnyStep) /\ s \in Seq(Reqs) /\ v \in Seq(Reqs)
      /\ Requests(c) \in Seq(Reqs) /\ Requests(d) \in Seq(Reqs)
      /\ Requests(d) = Renamed(Requests(c)) /\ Covers(c, s) /\ Covers(d, v)
      /\ \A op \in Ops \cup {"Prg"} : SizesOf(Name(1, op), v) = SizesOf(op, s)
  BY DEF Planned
<1>3. /\ a \o c \in Seq(AnyStep) /\ b \o d \in Seq(AnyStep)
      /\ r \o s \in Seq(Reqs) /\ u \o v \in Seq(Reqs)
  BY <1>1, <1>2
<1>4. /\ Requests(a \o c) = Requests(a) \o Requests(c)
      /\ Requests(b \o d) = Requests(b) \o Requests(d)
  BY <1>1, <1>2, RequestsFacts
<1>5. Requests(a \o c) \in Seq(Reqs) /\ Requests(b \o d) \in Seq(Reqs)
  BY <1>1, <1>2, <1>4
<1>6. Requests(b \o d) = Renamed(Requests(a \o c))
  <2>1. Renamed(Requests(a) \o Requests(c)) = Renamed(Requests(a)) \o Renamed(Requests(c))
    BY <1>1, <1>2, RenamedFacts
  <2>2. QED
    BY <1>1, <1>2, <1>4, <2>1
<1>7. ASSUME NEW op \in Ops \cup {"Prg"}
      PROVE  SizesOf(Name(1, op), u \o v) = SizesOf(op, r \o s)
  <2>1. SizesOf(Name(1, op), u \o v) = SizesOf(Name(1, op), u) \o SizesOf(Name(1, op), v)
    BY <1>1, <1>2, SizesFacts
  <2>2. SizesOf(op, r \o s) = SizesOf(op, r) \o SizesOf(op, s)
    BY <1>1, <1>2, SizesFacts
  <2>3. QED
    BY <1>1, <1>2, <2>1, <2>2
<1>8. Covers(a \o c, r \o s) /\ Covers(b \o d, u \o v)
  BY <1>1, <1>2, CoversConcat
<1>9. QED
  BY <1>3, <1>5, <1>6, <1>7, <1>8 DEF Planned

\* A script without steps is planned by a twin that counts nothing.
LEMMA PlannedNone == Planned(<<>>, <<>>, <<>>, <<>>)
<1>1. /\ <<>> \in Seq(AnyStep) /\ <<>> \in Seq(Reqs) /\ Requests(<<>>) = <<>>
  BY RequestsOne
<1>2. Renamed(<<>>) = <<>>
  <2>1. <<>> \in Seq(Reqs) /\ Len(<<>>) = 0
    OBVIOUS
  <2>2. Renamed(<<>>) \in Seq(Reqs) /\ Len(Renamed(<<>>)) = 0
    BY <2>1, RenamedFacts
  <2>3. QED
    BY <2>2
<1>3. \A op : SizesOf(op, <<>>) = <<>>
  BY SizesOne
<1>4. Covers(<<>>, <<>>)
  BY <1>1, <1>3, NeedOne, FilledOne DEF Covers
<1>5. QED
  BY <1>1, <1>2, <1>3, <1>4 DEF Planned

\* A planned pair of scripts is planned however often it is repeated.
LEMMA PlannedTimes ==
  ASSUME NEW a, NEW b, NEW r, NEW u, Planned(a, b, r, u), NEW k \in Int
  PROVE  Planned(Times(k, a), Times(k, b), Times(k, r), Times(k, u))
<1>1. /\ a \in Seq(AnyStep) /\ b \in Seq(AnyStep) /\ r \in Seq(Reqs) /\ u \in Seq(Reqs)
  BY DEF Planned
<1>2. \A j \in Int : j <= 0 => /\ Times(j, a) = <<>> /\ Times(j, b) = <<>>
                               /\ Times(j, r) = <<>> /\ Times(j, u) = <<>>
  BY <1>1, TimesFacts
<1>3. \A j \in Nat : /\ Times(j + 1, a) = Times(j, a) \o a
                     /\ Times(j + 1, b) = Times(j, b) \o b
                     /\ Times(j + 1, r) = Times(j, r) \o r
                     /\ Times(j + 1, u) = Times(j, u) \o u
  BY <1>1, TimesFacts
<1> DEFINE N == {j \in Nat : Planned(Times(j, a), Times(j, b), Times(j, r), Times(j, u))}
<1>4. 0 \in N
  BY <1>2, PlannedNone
<1>5. ASSUME NEW j \in Nat, j \in N
      PROVE  j + 1 \in N
  <2>1. Planned(Times(j, a), Times(j, b), Times(j, r), Times(j, u))
    BY <1>5
  <2>2. Planned(Times(j, a) \o a, Times(j, b) \o b, Times(j, r) \o r, Times(j, u) \o u)
    BY <2>1, PlannedConcat
  <2>3. j \in Nat
    OBVIOUS
  <2>4. Planned(Times(j + 1, a), Times(j + 1, b), Times(j + 1, r), Times(j + 1, u))
    BY <1>3, <2>2, <2>3
  <2>5. QED
    BY <2>4
<1> HIDE DEF N
<1>6. Nat \subseteq N
  BY <1>4, <1>5, NatSetInduction
<1>7. CASE k <= 0
  BY <1>2, <1>7, PlannedNone
<1>8. CASE k > 0
  <2>1. k \in N
    BY <1>6, <1>8
  <2>2. QED
    BY <2>1 DEF N
<1>9. QED
  BY <1>7, <1>8

\* So many times so many times.
LEMMA TimesTimes ==
  ASSUME NEW T, NEW s \in Seq(T), NEW k \in Int, NEW m \in Nat
  PROVE  Times(k * m, s) = Times(k, Times(m, s))
<1>1. Times(m, s) \in Seq(T)
  BY TimesFacts
<1>2. PICK w \in Seq(T) : w = Times(m, s)
  BY <1>1
<1>3. \A j \in Int : j <= 0 => Times(j, s) = <<>> /\ Times(j, w) = <<>>
  BY TimesFacts
<1>4. /\ \A j \in Nat : Times(j + 1, s) = Times(j, s) \o s /\ Times(j, s) \in Seq(T)
      /\ \A j \in Nat : Times(j + 1, w) = Times(j, w) \o w /\ Times(j, w) \in Seq(T)
  BY TimesFacts
<1>5. \A i, j \in Nat : Times(i + j, s) = Times(i, s) \o Times(j, s)
  <2> SUFFICES ASSUME NEW i \in Nat
               PROVE  \A j \in Nat : Times(i + j, s) = Times(i, s) \o Times(j, s)
    OBVIOUS
  <2> DEFINE N == {j \in Nat : Times(i + j, s) = Times(i, s) \o Times(j, s)}
  <2>1. 0 \in N
    <3>4. Times(0, s) = <<>>
      BY <1>3
    <3>5. Times(i, s) \in Seq(T) /\ i + 0 = i
      BY <1>4
    <3>1. Times(0, s) = <<>> /\ i + 0 = i /\ Times(i, s) \in Seq(T)
      BY <3>4, <3>5
    <3>2. Times(i, s) \o <<>> = Times(i, s)
      BY <3>1
    <3>3. QED
      BY <3>1, <3>2
  <2>2. ASSUME NEW j \in Nat, j \in N
        PROVE  j + 1 \in N
    <3>1. /\ Times(i + j, s) = Times(i, s) \o Times(j, s) /\ i + j \in Nat
          /\ (i + j) + 1 = i + (j + 1)
      BY <2>2
    <3>2. Times((i + j) + 1, s) = Times(i + j, s) \o s /\ Times(j + 1, s) = Times(j, s) \o s
      BY <1>4, <3>1
    <3>3. Times(i, s) \in Seq(T) /\ Times(j, s) \in Seq(T)
      BY <1>4
    <3>4. (Times(i, s) \o Times(j, s)) \o s = Times(i, s) \o (Times(j, s) \o s)
      <4>1. PICK x \in Seq(T), y \in Seq(T) : x = Times(i, s) /\ y = Times(j, s)
        BY <3>3
      <4>2. (x \o y) \o s = x \o (y \o s)
        BY ConcatAssociative
      <4>3. QED
        BY <4>1, <4>2
    <3>5. Times(i + (j + 1), s) = Times((i + j) + 1, s)
      BY <3>1
    <3>6. Times(i + (j + 1), s) = Times(i, s) \o Times(j + 1, s)
      BY <3>1, <3>2, <3>4, <3>5
    <3>7. QED
      BY <3>6
  <2> HIDE DEF N
  <2>3. Nat \subseteq N
    BY <2>1, <2>2, NatSetInduction
  <2>4. QED
    BY <2>3 DEF N
<1> DEFINE M == {j \in Nat : Times(j * m, s) = Times(j, w)}
<1>6. 0 \in M
  <2>1. 0 * m = 0
    OBVIOUS
  <2>2. QED
    BY <1>3, <2>1
<1>7. ASSUME NEW j \in Nat, j \in M
      PROVE  j + 1 \in M
  <2>1. (j + 1) * m = j * m + m /\ j * m \in Nat
    OBVIOUS
  <2>2. Times(j * m + m, s) = Times(j * m, s) \o Times(m, s)
    BY <1>5, <2>1
  <2>3. Times(j + 1, w) = Times(j, w) \o w
    BY <1>4
  <2>4. Times((j + 1) * m, s) = Times(j * m + m, s)
    BY <2>1
  <2>5. Times((j + 1) * m, s) = Times(j + 1, w)
    BY <1>2, <1>7, <2>2, <2>3, <2>4
  <2>6. QED
    BY <2>5
<1> HIDE DEF M
<1>8. Nat \subseteq M
  BY <1>6, <1>7, NatSetInduction
<1>9. CASE k <= 0
  <2>1. k * m <= 0 /\ k * m \in Int
    BY <1>9
  <2>2. QED
    BY <1>2, <1>3, <1>9, <2>1
<1>10. CASE k > 0
  <2>1. k \in M
    BY <1>8, <1>10
  <2>2. QED
    BY <1>2, <2>1 DEF M
<1>11. QED
  BY <1>9, <1>10

Uncounted(a, b) == Planned(a, b, <<>>, <<>>)

\* Uncounted steps may come before planned ones.
LEMMA UncountedBefore ==
  ASSUME NEW a, NEW b, NEW c, NEW d, NEW r, NEW u,
         Uncounted(a, b), Planned(c, d, r, u)
  PROVE  Planned(a \o c, b \o d, r, u)
<1>1. Planned(a \o c, b \o d, <<>> \o r, <<>> \o u)
  BY PlannedConcat DEF Uncounted
<1>2. r \in Seq(Reqs) /\ u \in Seq(Reqs)
  BY DEF Planned
<1>3. <<>> \o r = r /\ <<>> \o u = u
  BY <1>2
<1>4. QED
  BY <1>1, <1>3

\* And they may come after them.
LEMMA UncountedAfter ==
  ASSUME NEW a, NEW b, NEW c, NEW d, NEW r, NEW u,
         Planned(a, b, r, u), Uncounted(c, d)
  PROVE  Planned(a \o c, b \o d, r, u)
<1>1. Planned(a \o c, b \o d, r \o <<>>, u \o <<>>)
  BY PlannedConcat DEF Uncounted
<1>2. r \in Seq(Reqs) /\ u \in Seq(Reqs)
  BY DEF Planned
<1>3. r \o <<>> = r /\ u \o <<>> = u
  BY <1>2
<1>4. QED
  BY <1>1, <1>3

\* Uncounted steps, one after another.
LEMMA UncountedConcat ==
  ASSUME NEW a, NEW b, NEW c, NEW d, Uncounted(a, b), Uncounted(c, d)
  PROVE  Uncounted(a \o c, b \o d)
  BY UncountedBefore DEF Uncounted

\* Uncounted steps, however often.
LEMMA UncountedTimes ==
  ASSUME NEW a, NEW b, Uncounted(a, b), NEW k \in Int
  PROVE  Uncounted(Times(k, a), Times(k, b))
<1>1. Planned(Times(k, a), Times(k, b), Times(k, <<>>), Times(k, <<>>))
  BY PlannedTimes DEF Uncounted
<1>2. Times(k, <<>>) = <<>>
  <2>1. CASE k <= 0
    <3>1. <<>> \in Seq(Nat)
      OBVIOUS
    <3>2. QED
      BY <2>1, <3>1, TimesFacts
  <2>2. CASE k > 0
    <3>1. PICK F : F = [i \in 1 .. k |-> <<>>]
      OBVIOUS
    <3>2. F \in Seq(Seq(Nat)) /\ \A i \in 1 .. Len(F) : F[i] = <<>>
      BY <2>2, <3>1
    <3>3. FlattenSeq(F) = <<>>
      BY <3>2, FlattenNone
    <3>4. QED
      BY <3>1, <3>3 DEF Times
  <2>3. QED
    BY <2>1, <2>2
<1>3. QED
  BY <1>1, <1>2 DEF Uncounted

\* A step that is no request.
LEMMA UncountedStep ==
  ASSUME NEW s \in AnyStep, NEW t \in AnyStep, ~IsRequest(s), ~IsRequest(t)
  PROVE  Uncounted(<<s>>, <<t>>)
<1>1. Requests(<<s>>) = <<>> /\ Requests(<<t>>) = <<>>
  BY RequestsOne DEF StepRequests
<1>2. <<s>> \in Seq(AnyStep) /\ <<t>> \in Seq(AnyStep)
  OBVIOUS
<1>3. Requests(<<>>) = <<>>
  BY RequestsOne
<1>4. QED
  BY <1>1, <1>2, <1>3, PlannedNone DEF Planned, Uncounted, Covers

\* A message asks for no correlation, at either end.
LEMMA UncountedMessage ==
  ASSUME NEW tag \in AnyTags, NEW n \in Nat
  PROVE  /\ Uncounted(Send(tag, n), Recv(tag, n))
         /\ Uncounted(Recv(tag, n), Send(tag, n))
<1>1. Step("send", "main", tag, n) \in AnyStep /\ Step("recv", "main", tag, n) \in AnyStep
  BY DEF Step, AnyStep, Doings, AnyTags
<1>2. ~IsRequest(Step("send", "main", tag, n)) /\ ~IsRequest(Step("recv", "main", tag, n))
  BY DEF Step, IsRequest
<1>3. QED
  BY <1>1, <1>2, UncountedStep DEF Send, Recv

\* Nor does what a rank does by itself.
LEMMA UncountedLocal ==
  ASSUME NEW do \in Doings, NEW tag \in AnyTags, NEW n \in Nat, do # "call", tag # "ndss"
  PROVE  Uncounted(Local(do, tag, n), Local(do, tag, n))
<1>1. Step(do, "main", tag, n) \in AnyStep
  BY DEF Step, AnyStep, Doings, AnyTags
<1>2. ~IsRequest(Step(do, "main", tag, n))
  BY DEF Step, IsRequest
<1>3. QED
  BY <1>1, <1>2, UncountedStep DEF Local

\* Nor do an exchange and one with a commitment before it.
LEMMA UncountedExchange ==
  ASSUME NEW tag \in AnyTags, NEW n \in Nat
  PROVE  /\ Uncounted(Exchange(0, tag, n), Exchange(1, tag, n))
         /\ Uncounted(ExchangeWithCommit(0, tag, n), ExchangeWithCommit(1, tag, n))
<1>1. \A e \in AnyTags : \A m \in Nat : Uncounted(Exchange(0, e, m), Exchange(1, e, m))
  BY UncountedMessage, UncountedConcat DEF Exchange
<1>2. Uncounted(Exchange(0, "commitment", 1), Exchange(1, "commitment", 1))
  BY <1>1 DEF AnyTags
<1>3. QED
  BY <1>1, <1>2, UncountedConcat DEF ExchangeWithCommit

\* Nor do the comparison of digests and the agreement on a seed.
LEMMA UncountedCheck ==
  ASSUME NEW buffer \in AnyTags, buffer # "ndss"
  PROVE  /\ Uncounted(CompareDigests(0, buffer), CompareDigests(1, buffer))
         /\ Uncounted(SyncSeed(0), SyncSeed(1))
<1>1. /\ Uncounted(Local("digest", buffer, 0), Local("digest", buffer, 0))
      /\ Uncounted(Local("compare", buffer, 0), Local("compare", buffer, 0))
  BY UncountedLocal DEF Doings, AnyTags
<1>2. Uncounted(ExchangeWithCommit(0, "digest", 1), ExchangeWithCommit(1, "digest", 1))
  BY UncountedExchange DEF AnyTags
<1>3. Uncounted(ExchangeWithCommit(0, "seed", 1), ExchangeWithCommit(1, "seed", 1))
  BY UncountedExchange DEF AnyTags
<1>4. QED
  BY <1>1, <1>2, <1>3, UncountedConcat DEF CompareDigests, SyncSeed

\* Nor does the opening of shares, at once or with its check delayed.
LEMMA UncountedA2P ==
  ASSUME NEW n \in Nat
  PROVE  /\ Uncounted(A2P(0, n), A2P(1, n))
         /\ Uncounted(A2P_delay(0, n), A2P_delay(1, n))
<1>1. Uncounted(Exchange(0, "opening", n), Exchange(1, "opening", n))
  BY UncountedExchange DEF AnyTags
<1>2. /\ Uncounted(Local("push", "now", n), Local("push", "now", n))
      /\ Uncounted(Local("push", "check", n), Local("push", "check", n))
      /\ Uncounted(Local("enforce", "now", 0), Local("enforce", "now", 0))
  BY UncountedLocal DEF Doings, AnyTags
<1>3. /\ Uncounted(CompareDigests(0, "now"), CompareDigests(1, "now"))
      /\ Uncounted(SyncSeed(0), SyncSeed(1))
  BY UncountedCheck DEF AnyTags
<1>4. Uncounted(A2P_delay(0, n), A2P_delay(1, n))
  BY <1>1, <1>2, UncountedConcat DEF A2P_delay
<1>5. Uncounted(Exchange(0, "opening", n) \o SyncSeed(0), Exchange(1, "opening", n) \o SyncSeed(1))
  BY <1>1, <1>3, UncountedConcat
<1>6. Uncounted(Exchange(0, "opening", n) \o SyncSeed(0) \o Local("push", "now", n),
                Exchange(1, "opening", n) \o SyncSeed(1) \o Local("push", "now", n))
  BY <1>2, <1>5, UncountedConcat
<1>7. Uncounted(Exchange(0, "opening", n) \o SyncSeed(0) \o Local("push", "now", n)
                  \o CompareDigests(0, "now"),
                Exchange(1, "opening", n) \o SyncSeed(1) \o Local("push", "now", n)
                  \o CompareDigests(1, "now"))
  BY <1>3, <1>6, UncountedConcat
<1>8. QED
  BY <1>2, <1>4, <1>7, UncountedConcat DEF A2P

\* One request of each rank: of what the twins count and of what they do not.
LEMMA RequestOne ==
  ASSUME NEW op \in Drawable \cup {"ndss"}, NEW n \in Nat,
         op \in Shaped => n \in 1 .. Elements
  PROVE  /\ Count(op, n) \in Seq(Reqs)
         /\ Count(Name(1, op), n) \in Seq(Reqs)
         /\ Renamed(Count(op, n)) = Count(Name(1, op), n)
<1>1. PICK q : q = [op |-> op, num |-> n]
  OBVIOUS
<1>2. q \in Reqs /\ q.op = op /\ q.num = n /\ Count(op, n) = <<q>>
  BY <1>1 DEF Reqs, IsReq, Count
<1>3. PICK m : m = [op |-> Name(1, op), num |-> n]
  OBVIOUS
<1>4. m \in Reqs /\ Count(Name(1, op), n) = <<m>>
  <2>1. /\ Name(1, op) \in Drawable \cup {"ndss"}
        /\ Name(1, op) \in Shaped <=> op \in Shaped
    BY NameFacts DEF Ranks
  <2>2. QED
    BY <1>3, <2>1 DEF Reqs, IsReq, Count
<1>5. Renamed(<<q>>) = <<m>>
  BY <1>2, <1>3 DEF Renamed
<1>6. Count(op, n) \in Seq(Reqs) /\ Count(Name(1, op), n) \in Seq(Reqs)
  <2>1. <<q>> \in Seq(Reqs) /\ <<m>> \in Seq(Reqs)
    BY <1>2, <1>4
  <2>2. QED
    BY <1>2, <1>4, <2>1
<1>7. QED
  BY <1>2, <1>4, <1>5, <1>6

\* A call of a Correlation is a request.
LEMMA CallRequests ==
  ASSUME NEW op \in Drawable, NEW n \in Nat
  PROVE  Call(op, n) \in Seq(AnyStep) /\ Requests(Call(op, n)) = Count(op, n)
<1>1. PICK s : s = Step("call", "main", op, n)
  OBVIOUS
<1>2. op \in AnyTags
  BY DEF AnyTags
<1>3. s \in AnyStep /\ IsRequest(s) /\ s.tag = op /\ s.num = n
  BY <1>1, <1>2 DEF Step, AnyStep, Doings, AnyTags, IsRequest, Drawable
<1>4. QED
  BY <1>1, <1>3, RequestsOne DEF Call, StepRequests

\* A call, with its dual at the peer, is planned by a twin that counts the same.
LEMMA PlannedCall ==
  ASSUME NEW op \in Ops, NEW n \in Nat, op \in Shaped => n \in 1 .. Elements
  PROVE  Planned(Call(op, n), Call(Dual[op], n), Count(op, n), Count(Dual[op], n))
<1>1. Name(1, op) = Dual[op] /\ Dual[op] \in Ops /\ op \in Drawable /\ Dual[op] \in Drawable
  BY OpsAre DEF Name, Drawable
<1>2. /\ Count(op, n) \in Seq(Reqs) /\ Count(Dual[op], n) \in Seq(Reqs)
      /\ Renamed(Count(op, n)) = Count(Dual[op], n)
  BY <1>1, RequestOne
<1>3. /\ Call(op, n) \in Seq(AnyStep) /\ Requests(Call(op, n)) = Count(op, n)
      /\ Call(Dual[op], n) \in Seq(AnyStep)
      /\ Requests(Call(Dual[op], n)) = Count(Dual[op], n)
  BY <1>1, CallRequests
<1>4. ASSUME NEW o \in Ops \cup {"Prg"}
      PROVE  SizesOf(Name(1, o), Count(Dual[op], n)) = SizesOf(o, Count(op, n))
  <2>1. Dual[op] = Name(1, o) <=> op = o
    <3>1. Name(1, Name(1, o)) = o /\ Name(1, Name(1, op)) = op
      BY NameFacts DEF Ranks
    <3>2. QED
      BY <1>1, <3>1
  <2>2. QED
    BY <2>1, SizesOne
<1>5. \A o \in Ops : Covers(Call(o, n), Count(o, n)) \/ Requests(Call(o, n)) # Count(o, n)
  <2> SUFFICES ASSUME NEW o \in Ops, Requests(Call(o, n)) = Count(o, n), NEW x \in Slots
               PROVE  Need(x, Count(o, n)) = Filled(x, SizesOf(x[1], Count(o, n)))
    BY DEF Covers
  <2>1. PartsOf(o) = {o}
    BY OpsAre DEF PartsOf
  <2>2. Need(x, Count(o, n)) = IF x = Slot(o, n) THEN Units(x[1], n) ELSE 0
    BY <2>1, NeedOne
  <2>3. CASE x[1] = o
    <3>1. SizesOf(x[1], Count(o, n)) = <<n>>
      BY <2>3, SizesOne
    <3>2. Filled(x, <<n>>) = IF Slot(x[1], n) = x THEN Units(x[1], n) ELSE 0
      BY FilledOne
    <3>3. QED
      BY <2>2, <2>3, <3>1, <3>2
  <2>4. CASE x[1] # o
    <3>1. SizesOf(x[1], Count(o, n)) = <<>>
      BY <2>4, SizesOne
    <3>2. x # Slot(o, n)
      BY <2>4 DEF Slot
    <3>3. QED
      BY <2>2, <3>1, <3>2, FilledOne
  <2>5. QED
    BY <2>3, <2>4
<1>6. QED
  BY <1>1, <1>2, <1>3, <1>4, <1>5 DEF Planned

\* The delayed check behind a request asks for nothing the twin counts.
LEMMA UncountedRequestTail ==
  /\ Uncounted(Call("cr.DelayCheck", 0), Call("cr.DelayCheck", 0))
  /\ Uncounted(Local("enforce", "delay", 0), Local("enforce", "delay", 0))
<1>1. PICK s : s = Step("call", "main", "cr.DelayCheck", 0)
  OBVIOUS
<1>2. s \in AnyStep
  BY <1>1 DEF Step, AnyStep, Doings, AnyTags
<1>3. ~IsRequest(s)
  BY <1>1, OpsAre DEF Step, IsRequest
<1>4. Uncounted(<<s>>, <<s>>)
  BY <1>2, <1>3, UncountedStep
<1>5. Uncounted(Local("enforce", "delay", 0), Local("enforce", "delay", 0))
  BY UncountedLocal DEF Doings, AnyTags
<1>6. QED
  BY <1>1, <1>4, <1>5 DEF Call

\* A request of the cache, with its dual at the peer, is planned.
LEMMA PlannedRequest ==
  ASSUME NEW op \in Ops, NEW n \in Nat, op \in Shaped => n \in 1 .. Elements
  PROVE  Planned(Request(op, n), Request(Dual[op], n), Count(op, n), Count(Dual[op], n))
<1>1. Planned(Call(op, n), Call(Dual[op], n), Count(op, n), Count(Dual[op], n))
  BY PlannedCall
<1>2. Planned(Call(op, n) \o Call("cr.DelayCheck", 0),
              Call(Dual[op], n) \o Call("cr.DelayCheck", 0),
              Count(op, n), Count(Dual[op], n))
  BY <1>1, UncountedRequestTail, UncountedAfter
<1>3. QED
  BY <1>2, UncountedRequestTail, UncountedAfter DEF Request

\* Public values may or may not be counted: no slot of the cache holds them.
LEMMA UncountedPrg ==
  ASSUME NEW n \in Nat
  PROVE  /\ Uncounted(Call("Prg", n), Call("Prg", n))
         /\ Planned(Call("Prg", n), Call("Prg", n), Count("Prg", n), Count("Prg", n))
<1>1. Name(1, "Prg") = "Prg" /\ "Prg" \in Drawable /\ "Prg" \notin Shaped
  BY NameFacts, OpsAre DEF Drawable, Shaped, Ranks
<1>2. /\ Count("Prg", n) \in Seq(Reqs) /\ Renamed(Count("Prg", n)) = Count("Prg", n)
  BY <1>1, RequestOne
<1>3. Call("Prg", n) \in Seq(AnyStep) /\ Requests(Call("Prg", n)) = Count("Prg", n)
  BY <1>1, CallRequests
<1>4. ASSUME NEW x \in Slots
      PROVE  /\ Need(x, Count("Prg", n)) = 0 /\ SizesOf(x[1], Count("Prg", n)) = <<>>
             /\ SizesOf(x[1], <<>>) = <<>> /\ Filled(x, <<>>) = 0
  <2>1. x[1] # "Prg"
    BY SlotOps, OpsAre
  <2>2. x # Slot("Prg", n) /\ PartsOf("Prg") = {"Prg"}
    BY <2>1 DEF Slot, PartsOf
  <2>3. QED
    BY <2>1, <2>2, NeedOne, SizesOne, FilledOne
<1>5. Covers(Call("Prg", n), Count("Prg", n)) /\ Covers(Call("Prg", n), <<>>)
  BY <1>3, <1>4 DEF Covers
<1>6. ASSUME NEW o \in Ops \cup {"Prg"}
      PROVE  /\ SizesOf(Name(1, o), Count("Prg", n)) = SizesOf(o, Count("Prg", n))
             /\ SizesOf(Name(1, o), <<>>) = SizesOf(o, <<>>)
  <2>1. Name(1, o) = "Prg" <=> o = "Prg"
    <3>1. Name(1, Name(1, o)) = o
      BY NameFacts DEF Ranks
    <3>2. QED
      BY <1>1, <3>1
  <2>2. \A e : /\ SizesOf(e, Count("Prg", n)) = IF e = "Prg" THEN <<n>> ELSE <<>>
               /\ SizesOf(e, <<>>) = <<>>
    BY SizesOne
  <2>3. QED
    BY <2>1, <2>2
<1>7. <<>> \in Seq(Reqs)
  OBVIOUS
<1>8. QED
  BY <1>2, <1>3, <1>5, <1>6, <1>7 DEF Planned, Uncounted

\* What is put into the buffer of NdssBufferAppend takes nothing from the cache.
LEMMA UncountedNdss ==
  ASSUME NEW n \in Nat
  PROVE  Uncounted(NdssBufferAppend(n), NdssBufferAppend(n))
<1>1. Name(1, "ndss") = "ndss" /\ "ndss" \notin Shaped
  BY NameFacts, OpsAre DEF Shaped, Ranks
<1>2. /\ Count("ndss", n) \in Seq(Reqs) /\ Renamed(Count("ndss", n)) = Count("ndss", n)
  BY <1>1, RequestOne
<1>3. NdssBufferAppend(n) \in Seq(AnyStep) /\ Requests(NdssBufferAppend(n)) = Count("ndss", n)
  <2>1. PICK s : s = Step("push", "main", "ndss", n)
    OBVIOUS
  <2>2. s \in AnyStep /\ IsRequest(s) /\ s.tag = "ndss" /\ s.num = n
    BY <2>1 DEF Step, AnyStep, Doings, AnyTags, IsRequest
  <2>3. QED
    BY <2>1, <2>2, RequestsOne DEF NdssBufferAppend, Local, StepRequests
<1>4. ASSUME NEW x \in Slots
      PROVE  /\ Need(x, Count("ndss", n)) = 0
             /\ SizesOf(x[1], <<>>) = <<>> /\ Filled(x, <<>>) = 0
  <2>1. x[1] # "ndss"
    BY SlotOps, OpsAre
  <2>2. x # Slot("ndss", n) /\ PartsOf("ndss") = {"ndss"}
    BY <2>1 DEF Slot, PartsOf
  <2>3. QED
    BY <2>1, <2>2, NeedOne, SizesOne, FilledOne
<1>5. Covers(NdssBufferAppend(n), <<>>)
  BY <1>3, <1>4 DEF Covers
<1>6. <<>> \in Seq(Reqs) /\ \A o : SizesOf(o, <<>>) = <<>>
  <2>1. \A o, e : \A m \in Nat : SizesOf(o, <<>>) = <<>>
    BY SizesOne
  <2>2. 0 \in Nat
    OBVIOUS
  <2>3. QED
    BY <2>1, <2>2
<1>7. QED
  BY <1>2, <1>3, <1>5, <1>6 DEF Planned, Uncounted

\* RandA and RandA_cache.
LEMMA PlannedRandA ==
  ASSUME NEW n \in Nat
  PROVE  Planned(RandA(n), RandA(n), RandA_cache(n), RandA_cache(n))
<1>1. /\ Name(1, "RandomAuth") = "RandomAuth" /\ "RandomAuth" \in Drawable
      /\ "RandomAuth" \notin Shaped
  BY NameFacts, OpsAre DEF Drawable, Shaped, Ranks
<1>2. /\ Count("RandomAuth", n) \in Seq(Reqs)
      /\ Renamed(Count("RandomAuth", n)) = Count("RandomAuth", n)
  BY <1>1, RequestOne
<1>3. /\ Call("RandomAuth", n) \in Seq(AnyStep)
      /\ Requests(Call("RandomAuth", n)) = Count("RandomAuth", n)
  BY <1>1, CallRequests
<1>4. /\ "RandomSet" \in Ops /\ "RandomGet" \in Ops
      /\ Name(1, "RandomSet") = "RandomGet" /\ Name(1, "RandomGet") = "RandomSet"
      /\ "RandomSet" \in Counted /\ "RandomGet" \in Counted
  BY OpsAre DEF Name, Dual, Counted
<1>5. /\ Count("RandomGet", n) \in Seq(Reqs) /\ Count("RandomSet", n) \in Seq(Reqs)
      /\ RandA_cache(n) \in Seq(Reqs)
  <2>1. Count("RandomGet", n) \in Seq(Reqs) /\ Count("RandomSet", n) \in Seq(Reqs)
    BY <1>4, RequestOne DEF Drawable, Shaped
  <2>2. QED
    BY <2>1 DEF RandA_cache
<1>6. ASSUME NEW o
      PROVE  SizesOf(o, RandA_cache(n))
               = IF o \in {"RandomSet", "RandomGet"} THEN <<n>> ELSE <<>>
  <2>1. SizesOf(o, RandA_cache(n))
          = SizesOf(o, Count("RandomGet", n)) \o SizesOf(o, Count("RandomSet", n))
    BY <1>5, SizesFacts DEF RandA_cache
  <2>2. /\ SizesOf(o, Count("RandomGet", n)) = IF o = "RandomGet" THEN <<n>> ELSE <<>>
        /\ SizesOf(o, Count("RandomSet", n)) = IF o = "RandomSet" THEN <<n>> ELSE <<>>
    BY SizesOne
  <2>3. /\ <<n>> \o <<>> = <<n>> /\ <<>> \o <<n>> = <<n>> /\ <<>> \o <<>> = <<>>
    OBVIOUS
  <2>4. QED
    BY <2>1, <2>2, <2>3
<1>7. ASSUME NEW o \in Ops \cup {"Prg"}
      PROVE  SizesOf(Name(1, o), RandA_cache(n)) = SizesOf(o, RandA_cache(n))
  <2>1. Name(1, o) \in {"RandomSet", "RandomGet"} <=> o \in {"RandomSet", "RandomGet"}
    <3>1. Name(1, Name(1, o)) = o
      BY NameFacts DEF Ranks
    <3>2. QED
      BY <1>4, <3>1
  <2>2. QED
    BY <1>6, <2>1
<1>8. ASSUME NEW x \in Slots
      PROVE  Need(x, Count("RandomAuth", n)) = Filled(x, SizesOf(x[1], RandA_cache(n)))
  <2>1. PartsOf("RandomAuth") = {"RandomSet", "RandomGet"}
    BY DEF PartsOf
  <2>2. Need(x, Count("RandomAuth", n))
          = IF x = Slot("RandomSet", n) \/ x = Slot("RandomGet", n)
              THEN Units(x[1], n) ELSE 0
    BY <2>1, NeedOne
  <2>3. Slot("RandomSet", n)[1] = "RandomSet" /\ Slot("RandomGet", n)[1] = "RandomGet"
    BY DEF Slot
  <2>4. CASE x[1] \in {"RandomSet", "RandomGet"}
    <3>1. SizesOf(x[1], RandA_cache(n)) = <<n>>
      BY <1>6, <2>4
    <3>2. Filled(x, <<n>>) = IF Slot(x[1], n) = x THEN Units(x[1], n) ELSE 0
      BY FilledOne
    <3>3. (x = Slot("RandomSet", n) \/ x = Slot("RandomGet", n)) <=> Slot(x[1], n) = x
      BY <2>3, <2>4
    <3>4. QED
      BY <2>2, <3>1, <3>2, <3>3
  <2>5. CASE x[1] \notin {"RandomSet", "RandomGet"}
    <3>1. SizesOf(x[1], RandA_cache(n)) = <<>>
      BY <1>6, <2>5
    <3>2. QED
      BY <2>2, <2>3, <2>5, <3>1, FilledOne
  <2>6. QED
    BY <2>4, <2>5
<1>9. Planned(Call("RandomAuth", n), Call("RandomAuth", n), RandA_cache(n), RandA_cache(n))
  <2>1. Covers(Call("RandomAuth", n), RandA_cache(n))
    BY <1>3, <1>8 DEF Covers
  <2>2. QED
    BY <1>2, <1>3, <1>5, <1>7, <2>1 DEF Planned
<1>10. Planned(Call("RandomAuth", n) \o Call("cr.DelayCheck", 0),
               Call("RandomAuth", n) \o Call("cr.DelayCheck", 0),
               RandA_cache(n), RandA_cache(n))
  BY <1>9, UncountedRequestTail, UncountedAfter
<1>11. QED
  BY <1>10, UncountedRequestTail, UncountedAfter DEF RandA, Request

-----------------------------------------------------------------------------
\* The operations, at both ranks, and their twins.

\* MulAA and MulAA_cache.
LEMMA PlannedMulAA ==
  ASSUME NEW n \in Nat
  PROVE  Planned(MulAA(0, n), MulAA(1, n), MulAA_cache(n), MulAA_cache(n))
<1>1. /\ "BeaverTriple" \in Ops /\ Dual["BeaverTriple"] = "BeaverTriple"
      /\ "BeaverTriple" \notin Shaped
  BY OpsAre DEF Dual, Shaped, Counted
<1>2. Planned(Request("BeaverTriple", n), Request("BeaverTriple", n),
              MulAA_cache(n), MulAA_cache(n))
  <2>1. Planned(Request("BeaverTriple", n), Request(Dual["BeaverTriple"], n),
                Count("BeaverTriple", n), Count(Dual["BeaverTriple"], n))
    BY <1>1, PlannedRequest
  <2>2. QED
    BY <1>1, <2>1 DEF MulAA_cache
<1>3. 2 * n \in Nat
  OBVIOUS
<1>4. Uncounted(A2P_delay(0, 2 * n), A2P_delay(1, 2 * n))
  BY <1>3, UncountedA2P
<1>5. QED
  BY <1>2, <1>4, UncountedAfter DEF MulAA

\* InvA and ZeroOneA, with InvA_cache and ZeroOneA_cache.
LEMMA PlannedInvA ==
  ASSUME NEW n \in Nat
  PROVE  /\ Planned(InvA(0, n), InvA(1, n), InvA_cache(n), InvA_cache(n))
         /\ Planned(ZeroOneA(0, n), ZeroOneA(1, n), ZeroOneA_cache(n), ZeroOneA_cache(n))
<1>1. Planned(RandA(n), RandA(n), RandA_cache(n), RandA_cache(n))
  BY PlannedRandA
<1>2. Planned(MulAA(0, n), MulAA(1, n), MulAA_cache(n), MulAA_cache(n))
  BY PlannedMulAA
<1>3. Planned(RandA(n) \o MulAA(0, n), RandA(n) \o MulAA(1, n),
              RandA_cache(n) \o MulAA_cache(n), RandA_cache(n) \o MulAA_cache(n))
  BY <1>1, <1>2, PlannedConcat
<1>4. Uncounted(A2P_delay(0, n), A2P_delay(1, n))
  BY UncountedA2P
<1>5. Planned(RandA(n) \o MulAA(0, n) \o A2P_delay(0, n),
              RandA(n) \o MulAA(1, n) \o A2P_delay(1, n),
              RandA_cache(n) \o MulAA_cache(n), RandA_cache(n) \o MulAA_cache(n))
  BY <1>3, <1>4, UncountedAfter
<1>6. QED
  BY <1>5 DEF InvA, ZeroOneA, InvA_cache, ZeroOneA_cache

\* DivAA and DivAA_cache.
LEMMA PlannedDivAA ==
  ASSUME NEW n \in Nat
  PROVE  Planned(DivAA(0, n), DivAA(1, n), DivAA_cache(n), DivAA_cache(n))
  BY PlannedInvA, PlannedMulAA, PlannedConcat DEF DivAA, DivAA_cache

\* DivPA and DivPA_cache.
LEMMA PlannedDivPA ==
  ASSUME NEW n \in Nat
  PROVE  Planned(DivPA(0, n), DivPA(1, n), DivPA_cache(n), DivPA_cache(n))
  BY PlannedInvA DEF DivPA, DivPA_cache

\* RandFairA and RandFairA_cache.
LEMMA PlannedRandFairA ==
  ASSUME NEW n \in Nat
  PROVE  Planned(RandFairA(0, n), RandFairA(1, n), RandFairA_cache(n), RandFairA_cache(n))
<1>1. n * WordBits \in Nat
  BY ShareScriptsAssumption
<1>2. QED
  BY <1>1, PlannedInvA DEF RandFairA, RandFairA_cache

\* FairA2P, which has nothing to count.
LEMMA UncountedFairA2P ==
  ASSUME NEW n \in Nat
  PROVE  Uncounted(FairA2P(0, n), FairA2P(1, n))
<1>1. Uncounted(A2P_delay(0, n), A2P_delay(1, n))
  BY UncountedA2P
<1>2. Uncounted(Times(WordBits, A2P_delay(0, n)), Times(WordBits, A2P_delay(1, n)))
  <2>1. WordBits \in Int
    BY ShareScriptsAssumption
  <2>2. QED
    BY <1>1, <2>1, UncountedTimes
<1>3. QED
  BY <1>1, <1>2, UncountedConcat DEF FairA2P

\* SetA at one rank and GetA at the other, with their twins.
LEMMA PlannedSetA ==
  ASSUME NEW n \in Nat
  PROVE  /\ Planned(SetA(n), GetA(n), SetA_cache(n), GetA_cache(n))
         /\ Planned(GetA(n), SetA(n), GetA_cache(n), SetA_cache(n))
<1>1. /\ "RandomSet" \in Ops /\ "RandomGet" \in Ops
      /\ Dual["RandomSet"] = "RandomGet" /\ Dual["RandomGet"] = "RandomSet"
      /\ "RandomSet" \notin Shaped /\ "RandomGet" \notin Shaped
  BY OpsAre DEF Dual, Shaped, Counted
<1>2. /\ Planned(Request("RandomSet", n), Request(Dual["RandomSet"], n),
                 Count("RandomSet", n), Count(Dual["RandomSet"], n))
      /\ Planned(Request("RandomGet", n), Request(Dual["RandomGet"], n),
                 Count("RandomGet", n), Count(Dual["RandomGet"], n))
  BY <1>1, PlannedRequest
<1>3. Uncounted(Send("SetA", n), Recv("SetA", n)) /\ Uncounted(Recv("SetA", n), Send("SetA", n))
  BY UncountedMessage DEF AnyTags
<1>4. Planned(Request("RandomSet", n) \o Send("SetA", n),
              Request("RandomGet", n) \o Recv("SetA", n),
              Count("RandomSet", n), Count("RandomGet", n))
  BY <1>1, <1>2, <1>3, UncountedAfter
<1>5. Planned(Request("RandomGet", n) \o Recv("SetA", n),
              Request("RandomSet", n) \o Send("SetA", n),
              Count("RandomGet", n), Count("RandomSet", n))
  BY <1>1, <1>2, <1>3, UncountedAfter
<1>6. QED
  BY <1>4, <1>5 DEF SetA, GetA, SetA_cache, GetA_cache

\* NMulA and NMulA_cache.
LEMMA PlannedNMulA ==
  ASSUME NEW n \in 1 .. Elements
  PROVE  Planned(NMulA(0, n), NMulA(1, n), NMulA_cache(n), NMulA_cache(n))
<1>1. n \in Nat
  BY DryRunsAssumption
<1>2. "NMul" \in Ops /\ Dual["NMul"] = "NMul"
  BY OpsAre DEF Dual
<1>3. Planned(Request("NMul", n), Request("NMul", n), Count("NMul", n), Count("NMul", n))
  <2>1. Planned(Request("NMul", n), Request(Dual["NMul"], n),
                Count("NMul", n), Count(Dual["NMul"], n))
    BY <1>1, <1>2, PlannedRequest
  <2>2. QED
    BY <1>2, <2>1
<1>4. Planned(Request("NMul", n) \o MulAA(0, n), Request("NMul", n) \o MulAA(1, n),
              Count("NMul", n) \o MulAA_cache(n), Count("NMul", n) \o MulAA_cache(n))
  BY <1>1, <1>3, PlannedMulAA, PlannedConcat
<1>5. QED
  BY <1>1, <1>4, UncountedA2P, UncountedAfter DEF NMulA, NMulA_cache

\* The messages of a shuffle, whichever rank sets.
LEMMA UncountedShuffle ==
  ASSUME NEW n \in Nat
  PROVE  /\ Uncounted(ShuffleASet_internal(n), ShuffleAGet_internal(n))
         /\ Uncounted(ShuffleAGet_internal(n), ShuffleASet_internal(n))
<1>1. /\ Uncounted(Send("a+x_val", n), Recv("a+x_val", n))
      /\ Uncounted(Recv("a+x_val", n), Send("a+x_val", n))
      /\ Uncounted(Send("a+x_mac", n), Recv("a+x_mac", n))
      /\ Uncounted(Recv("a+x_mac", n), Send("a+x_mac", n))
  BY UncountedMessage DEF AnyTags
<1>2. QED
  BY <1>1, UncountedConcat DEF ShuffleASet_internal, ShuffleAGet_internal

\* The request of a shuffle, whichever rank sets.
LEMMA PlannedShuffleRequest ==
  ASSUME NEW n \in 1 .. Elements
  PROVE  /\ Planned(Request("ShuffleSet", n), Request("ShuffleGet", n),
                    Count("ShuffleSet", n), Count("ShuffleGet", n))
         /\ Planned(Request("ShuffleGet", n), Request("ShuffleSet", n),
                    Count("ShuffleGet", n), Count("ShuffleSet", n))
<1>1. n \in Nat
  BY DryRunsAssumption
<1>2. /\ "ShuffleSet" \in Ops /\ Dual["ShuffleSet"] = "ShuffleGet"
      /\ "ShuffleGet" \in Ops /\ Dual["ShuffleGet"] = "ShuffleSet"
  BY OpsAre DEF Dual
<1>3. /\ Planned(Request("ShuffleSet", n), Request(Dual["ShuffleSet"], n),
                 Count("ShuffleSet", n), Count(Dual["ShuffleSet"], n))
      /\ Planned(Request("ShuffleGet", n), Request(Dual["ShuffleGet"], n),
                 Count("ShuffleGet", n), Count(Dual["ShuffleGet"], n))
  BY <1>1, <1>2, PlannedRequest
<1>4. QED
  BY <1>2, <1>3

\* ShuffleA, one shuffle per rank, and ShuffleA_cache.
LEMMA PlannedShuffleA ==
  ASSUME NEW n \in 1 .. Elements
  PROVE  Planned(ShuffleA(0, n), ShuffleA(1, n), ShuffleA_cache(0, n), ShuffleA_cache(1, n))
<1>1. n \in Nat
  BY DryRunsAssumption
<1>2. /\ Planned(ShuffleASet(n), ShuffleAGet(n), Count("ShuffleSet", n), Count("ShuffleGet", n))
      /\ Planned(ShuffleAGet(n), ShuffleASet(n), Count("ShuffleGet", n), Count("ShuffleSet", n))
  BY <1>1, PlannedShuffleRequest, UncountedShuffle, UncountedAfter DEF ShuffleASet, ShuffleAGet
<1>3. QED
  BY <1>2, PlannedConcat DEF ShuffleA, ShuffleA_cache

\* ShuffleA_2k, a shuffle per block and layer, and ShuffleA_2k_cache.
LEMMA PlannedShuffleA_2k ==
  ASSUME NEW n \in 1 .. Elements
  PROVE  Planned(ShuffleA_2k(0, n), ShuffleA_2k(1, n),
                 ShuffleA_2k_cache(0, n), ShuffleA_2k_cache(1, n))
<1>1. n \in Nat /\ Elements \in Nat
  BY DryRunsAssumption
<1>2. PICK m \in Nat : m = n \div BlockSize
  BY <1>1, SizeFacts
<1>3. PICK k \in Int : k = Depth(n) * FindB
  <2>1. Depth(n) \in Int /\ FindB \in Int
    BY <1>1, SizeFacts, ShareScriptsAssumption
  <2>2. Depth(n) * FindB \in Int
    BY <2>1
  <2>3. QED
    BY <2>2
<1>4. BlockSize \in Nat \ {0}
  BY TranslationScriptsAssumption
<1>5. BlockSize \in 1 .. Elements \/ m = 0
  <2>1. n \div BlockSize \in Int /\ BlockSize * (n \div BlockSize) <= n
    BY <1>1, <1>4, DivFacts
  <2>2. BlockSize * m <= n
    BY <1>2, <2>1
  <2>3. SUFFICES ASSUME m >= 1
                 PROVE  BlockSize \in 1 .. Elements
    BY <1>2
  <2>4. BlockSize * m >= BlockSize
    BY <1>2, <1>4, <2>3
  <2>5. QED
    BY <1>1, <1>4, <2>2, <2>4
<1>6. /\ Planned(Times(m, Request("ShuffleSet", BlockSize)),
                 Times(m, Request("ShuffleGet", BlockSize)),
                 Times(m, Count("ShuffleSet", BlockSize)), Times(m, Count("ShuffleGet", BlockSize)))
      /\ Planned(Times(m, Request("ShuffleGet", BlockSize)),
                 Times(m, Request("ShuffleSet", BlockSize)),
                 Times(m, Count("ShuffleGet", BlockSize)), Times(m, Count("ShuffleSet", BlockSize)))
  <2>1. CASE BlockSize \in 1 .. Elements
    <3>1. m \in Int
      BY <1>2
    <3>2. QED
      BY <2>1, <3>1, PlannedShuffleRequest, PlannedTimes
  <2>2. CASE m = 0
    <3>1. \A s : Times(0, s) = <<>>
      <4>1. \A s : [i \in 1 .. 0 |-> s] = <<>>
        OBVIOUS
      <4>2. QED
        BY <4>1, FlattenFacts DEF Times
    <3>2. QED
      BY <2>2, <3>1, PlannedNone
  <2>3. QED
    BY <1>5, <2>1, <2>2
<1>7. Uncounted(NdssBufferAppend(n), NdssBufferAppend(n))
  BY <1>1, UncountedNdss
<1>8. /\ Planned(Times(m, Request("ShuffleSet", BlockSize)) \o ShuffleASet_internal(n),
                 Times(m, Request("ShuffleGet", BlockSize)) \o ShuffleAGet_internal(n),
                 Times(m, Count("ShuffleSet", BlockSize)), Times(m, Count("ShuffleGet", BlockSize)))
      /\ Planned(Times(m, Request("ShuffleGet", BlockSize)) \o ShuffleAGet_internal(n),
                 Times(m, Request("ShuffleSet", BlockSize)) \o ShuffleASet_internal(n),
                 Times(m, Count("ShuffleGet", BlockSize)), Times(m, Count("ShuffleSet", BlockSize)))
  BY <1>1, <1>6, UncountedShuffle, UncountedAfter
<1>9. /\ Planned(Times(m, Request("ShuffleSet", BlockSize)) \o ShuffleASet_internal(n)
                   \o NdssBufferAppend(n),
                 Times(m, Request("ShuffleGet", BlockSize)) \o ShuffleAGet_internal(n)
                   \o NdssBufferAppend(n),
                 Times(m, Count("ShuffleSet", BlockSize)), Times(m, Count("ShuffleGet", BlockSize)))
      /\ Planned(Times(m, Request("ShuffleGet", BlockSize)) \o ShuffleAGet_internal(n)
                   \o NdssBufferAppend(n),
                 Times(m, Request("ShuffleSet", BlockSize)) \o ShuffleASet_internal(n)
                   \o NdssBufferAppend(n),
                 Times(m, Count("ShuffleGet", BlockSize)), Times(m, Count("ShuffleSet", BlockSize)))
  BY <1>7, <1>8, UncountedAfter
<1>10. /\ Times(k * m, Count("ShuffleSet", BlockSize))
            = Times(k, Times(m, Count("ShuffleSet", BlockSize)))
       /\ Times(k * m, Count("ShuffleGet", BlockSize))
            = Times(k, Times(m, Count("ShuffleGet", BlockSize)))
  <2>1. /\ Count("ShuffleSet", BlockSize) \in Seq({[op |-> "ShuffleSet", num |-> BlockSize]})
        /\ Count("ShuffleGet", BlockSize) \in Seq({[op |-> "ShuffleGet", num |-> BlockSize]})
    BY DEF Count
  <2>2. QED
    BY <2>1, TimesTimes
<1>11. /\ Planned(ShuffleASet_2k(n), ShuffleAGet_2k(n), ShuffleASet_2k_cache(n),
                  ShuffleAGet_2k_cache(n))
       /\ Planned(ShuffleAGet_2k(n), ShuffleASet_2k(n), ShuffleAGet_2k_cache(n),
                  ShuffleASet_2k_cache(n))
  <2>1. /\ ShuffleASet_2k_cache(n) = Times(k, Times(m, Count("ShuffleSet", BlockSize)))
        /\ ShuffleAGet_2k_cache(n) = Times(k, Times(m, Count("ShuffleGet", BlockSize)))
    BY <1>2, <1>3, <1>10 DEF ShuffleASet_2k_cache, ShuffleAGet_2k_cache
  <2>2. /\ ShuffleASet_2k(n) = Times(k, Times(m, Request("ShuffleSet", BlockSize))
                                        \o ShuffleASet_internal(n) \o NdssBufferAppend(n))
        /\ ShuffleAGet_2k(n) = Times(k, Times(m, Request("ShuffleGet", BlockSize))
                                        \o ShuffleAGet_internal(n) \o NdssBufferAppend(n))
    BY <1>2, <1>3 DEF ShuffleASet_2k, ShuffleAGet_2k
  <2>3. QED
    BY <1>9, <2>1, <2>2, PlannedTimes
<1>12. QED
  BY <1>11, PlannedConcat DEF ShuffleA_2k, ShuffleA_2k_cache

\* The proof of SShuffleA, and what its twin counts.
LEMMA PlannedShuffleProof ==
  ASSUME NEW n \in 1 .. Elements
  PROVE  Planned(ShuffleProof(0, n), ShuffleProof(1, n),
                 ShuffleProof_cache(n), ShuffleProof_cache(n))
<1>1. Uncounted(RandP(1) \o RandP(1), RandP(1) \o RandP(1))
  BY UncountedPrg, UncountedConcat DEF RandP
<1>2. Planned(Times(3, NMulA(0, n)), Times(3, NMulA(1, n)),
              Times(3, NMulA_cache(n)), Times(3, NMulA_cache(n)))
  BY PlannedNMulA, PlannedTimes
<1>3. Planned(RandP(1) \o RandP(1) \o Times(3, NMulA(0, n)),
              RandP(1) \o RandP(1) \o Times(3, NMulA(1, n)),
              Times(3, NMulA_cache(n)), Times(3, NMulA_cache(n)))
  BY <1>1, <1>2, UncountedBefore
<1>4. Planned(RandA(2), RandA(2), RandA_cache(2), RandA_cache(2))
  BY PlannedRandA
<1>5. Planned(MulAA(0, 2), MulAA(1, 2), MulAA_cache(2), MulAA_cache(2))
  BY PlannedMulAA
<1>6. Planned(RandP(1) \o RandP(1) \o Times(3, NMulA(0, n)) \o RandA(2),
              RandP(1) \o RandP(1) \o Times(3, NMulA(1, n)) \o RandA(2),
              Times(3, NMulA_cache(n)) \o RandA_cache(2),
              Times(3, NMulA_cache(n)) \o RandA_cache(2))
  BY <1>3, <1>4, PlannedConcat
<1>7. Planned(RandP(1) \o RandP(1) \o Times(3, NMulA(0, n)) \o RandA(2) \o MulAA(0, 2),
              RandP(1) \o RandP(1) \o Times(3, NMulA(1, n)) \o RandA(2) \o MulAA(1, 2),
              Times(3, NMulA_cache(n)) \o RandA_cache(2) \o MulAA_cache(2),
              Times(3, NMulA_cache(n)) \o RandA_cache(2) \o MulAA_cache(2))
  BY <1>5, <1>6, PlannedConcat
<1>8. Uncounted(A2P_delay(0, 2), A2P_delay(1, 2))
  BY UncountedA2P
<1>9. QED
  BY <1>7, <1>8, UncountedAfter DEF ShuffleProof, ShuffleProof_cache

\* SShuffleA, each rank setting in turn, and SShuffleA_cache.
LEMMA PlannedSShuffleA ==
  ASSUME NEW n \in 1 .. Elements
  PROVE  Planned(SShuffleA(0, n), SShuffleA(1, n), SShuffleA_cache(0, n), SShuffleA_cache(1, n))
<1>1. n \in Nat
  BY DryRunsAssumption
<1>2. /\ "ASTSet" \in Ops /\ Dual["ASTSet"] = "ASTGet"
      /\ "ASTGet" \in Ops /\ Dual["ASTGet"] = "ASTSet"
  BY OpsAre DEF Dual
<1>3. /\ Planned(Request("ASTSet", n), Request(Dual["ASTSet"], n),
                 Count("ASTSet", n), Count(Dual["ASTSet"], n))
      /\ Planned(Request("ASTGet", n), Request(Dual["ASTGet"], n),
                 Count("ASTGet", n), Count(Dual["ASTGet"], n))
  BY <1>1, <1>2, PlannedRequest
<1>4. Uncounted(A2P_delay(0, n), A2P_delay(1, n))
  BY <1>1, UncountedA2P
<1>5. /\ Planned(Request("ASTSet", n) \o A2P_delay(0, n), Request("ASTGet", n) \o A2P_delay(1, n),
                 Count("ASTSet", n), Count("ASTGet", n))
      /\ Planned(Request("ASTGet", n) \o A2P_delay(0, n), Request("ASTSet", n) \o A2P_delay(1, n),
                 Count("ASTGet", n), Count("ASTSet", n))
  BY <1>2, <1>3, <1>4, UncountedAfter
<1>6. /\ Planned(Request("ASTSet", n) \o A2P_delay(0, n) \o SetA(n),
                 Request("ASTGet", n) \o A2P_delay(1, n) \o GetA(n),
                 Count("ASTSet", n) \o SetA_cache(n), Count("ASTGet", n) \o GetA_cache(n))
      /\ Planned(Request("ASTGet", n) \o A2P_delay(0, n) \o GetA(n),
                 Request("ASTSet", n) \o A2P_delay(1, n) \o SetA(n),
                 Count("ASTGet", n) \o GetA_cache(n), Count("ASTSet", n) \o SetA_cache(n))
  BY <1>1, <1>5, PlannedSetA, PlannedConcat
<1>7. /\ Planned(SShuffleASet(0, n), SShuffleAGet(1, n), SShuffleASet_cache(n),
                 SShuffleAGet_cache(n))
      /\ Planned(SShuffleAGet(0, n), SShuffleASet(1, n), SShuffleAGet_cache(n),
                 SShuffleASet_cache(n))
  BY <1>6, PlannedShuffleProof, PlannedConcat
     DEF SShuffleASet, SShuffleAGet, SShuffleASet_cache, SShuffleAGet_cache
<1>8. QED
  BY <1>7, PlannedConcat DEF SShuffleA, SShuffleA_cache

\* Twice, written out.
LEMMA TimesTwo ==
  ASSUME NEW T, NEW s \in Seq(T), NEW a \in Seq(T)
  PROVE  a \o Times(2, s) = a \o s \o s
<1>1. Times(0, s) = <<>>
  BY TimesFacts
<1>2. Times(0 + 1, s) = Times(0, s) \o s
  BY TimesFacts
<1>3. Times(1 + 1, s) = Times(1, s) \o s
  BY TimesFacts
<1>4. Times(1, s) = s
  <2>1. <<>> \o s = s /\ 0 + 1 = 1
    OBVIOUS
  <2>2. QED
    BY <1>1, <1>2, <2>1
<1>5. Times(2, s) = s \o s
  <2>1. 1 + 1 = 2
    OBVIOUS
  <2>2. QED
    BY <1>3, <1>4, <2>1
<1>6. a \o (s \o s) = (a \o s) \o s
  BY ConcatAssociative
<1>7. QED
  BY <1>5, <1>6

\* OptSShuffleA, each rank setting in turn, and OptSShuffleA_cache.
LEMMA PlannedOptSShuffleA ==
  ASSUME NEW n \in 1 .. Elements
  PROVE  Planned(OptSShuffleA(0, n), OptSShuffleA(1, n),
                 OptSShuffleA_cache(0, n), OptSShuffleA_cache(1, n))
<1>1. n \in Nat /\ 2 * n \in Nat
  BY DryRunsAssumption
<1>2. /\ "DoubleASTSet" \in Ops /\ Dual["DoubleASTSet"] = "DoubleASTGet"
      /\ "DoubleASTGet" \in Ops /\ Dual["DoubleASTGet"] = "DoubleASTSet"
      /\ "RandomVoleSet" \in Ops /\ Dual["RandomVoleSet"] = "RandomVoleGet"
      /\ "RandomVoleGet" \in Ops /\ Dual["RandomVoleGet"] = "RandomVoleSet"
      /\ "RandomVoleSet" \notin Shaped /\ "RandomVoleGet" \notin Shaped
  BY OpsAre DEF Dual, Shaped, Counted
<1>3. /\ Planned(Request("DoubleASTSet", n), Request("DoubleASTGet", n),
                 Count("DoubleASTSet", n), Count("DoubleASTGet", n))
      /\ Planned(Request("DoubleASTGet", n), Request("DoubleASTSet", n),
                 Count("DoubleASTGet", n), Count("DoubleASTSet", n))
  <2>1. /\ Planned(Request("DoubleASTSet", n), Request(Dual["DoubleASTSet"], n),
                   Count("DoubleASTSet", n), Count(Dual["DoubleASTSet"], n))
        /\ Planned(Request("DoubleASTGet", n), Request(Dual["DoubleASTGet"], n),
                   Count("DoubleASTGet", n), Count(Dual["DoubleASTGet"], n))
    BY <1>1, <1>2, PlannedRequest
  <2>2. QED
    BY <1>2, <2>1
<1>4. /\ Planned(Call("RandomVoleSet", 2 * n), Call("RandomVoleGet", 2 * n),
                 Count("RandomVoleSet", 2 * n), Count("RandomVoleGet", 2 * n))
      /\ Planned(Call("RandomVoleGet", 2 * n), Call("RandomVoleSet", 2 * n),
                 Count("RandomVoleGet", 2 * n), Count("RandomVoleSet", 2 * n))
  <2>1. /\ Planned(Call("RandomVoleSet", 2 * n), Call(Dual["RandomVoleSet"], 2 * n),
                   Count("RandomVoleSet", 2 * n), Count(Dual["RandomVoleSet"], 2 * n))
        /\ Planned(Call("RandomVoleGet", 2 * n), Call(Dual["RandomVoleGet"], 2 * n),
                   Count("RandomVoleGet", 2 * n), Count(Dual["RandomVoleGet"], 2 * n))
    BY <1>1, <1>2, PlannedCall
  <2>2. QED
    BY <1>2, <2>1
<1>5. /\ Uncounted(Send("OptSS_first_vole", 2 * n), Recv("OptSS_first_vole", 2 * n))
      /\ Uncounted(Recv("OptSS_first_vole", 2 * n), Send("OptSS_first_vole", 2 * n))
      /\ Uncounted(Send("OptSS_second_vole", 2 * n), Recv("OptSS_second_vole", 2 * n))
      /\ Uncounted(Recv("OptSS_second_vole", 2 * n), Send("OptSS_second_vole", 2 * n))
  BY <1>1, UncountedMessage DEF AnyTags
<1>6. /\ Uncounted(A2P_delay(0, n), A2P_delay(1, n))
      /\ Uncounted(Local("push", "now", 2 * n), Local("push", "now", 2 * n))
      /\ Uncounted(CompareDigests(0, "now"), CompareDigests(1, "now"))
      /\ Uncounted(Local("enforce", "now", 0), Local("enforce", "now", 0))
  <2>1. Uncounted(A2P_delay(0, n), A2P_delay(1, n))
    BY <1>1, UncountedA2P
  <2>2. Uncounted(CompareDigests(0, "now"), CompareDigests(1, "now"))
    BY UncountedCheck DEF AnyTags
  <2>3. /\ Uncounted(Local("push", "now", 2 * n), Local("push", "now", 2 * n))
        /\ Uncounted(Local("enforce", "now", 0), Local("enforce", "now", 0))
    BY <1>1, UncountedLocal DEF Doings, AnyTags
  <2>4. QED
    BY <2>1, <2>2, <2>3
<1>7. Planned(SetA(n), GetA(n), SetA_cache(n), GetA_cache(n))
      /\ Planned(GetA(n), SetA(n), GetA_cache(n), SetA_cache(n))
  BY <1>1, PlannedSetA
<1> DEFINE VS == Count("RandomVoleSet", 2 * n)
           VG == Count("RandomVoleGet", 2 * n)
           DS == Count("DoubleASTSet", n)
           DG == Count("DoubleASTGet", n)
           setA(p) == Call("RandomVoleSet", 2 * n) \o Send("OptSS_first_vole", 2 * n)
                        \o Request("DoubleASTSet", n)
           getA_(p) == Call("RandomVoleGet", 2 * n) \o Recv("OptSS_first_vole", 2 * n)
                        \o Request("DoubleASTGet", n)
           set2(p) == setA(p) \o A2P_delay(p, n) \o A2P_delay(p, n)
           get2(p) == getA_(p) \o A2P_delay(p, n) \o A2P_delay(p, n)
           set3(p) == set2(p) \o SetA(n) \o SetA(n) \o Call("RandomVoleSet", 2 * n)
                        \o Send("OptSS_second_vole", 2 * n)
           get3(p) == get2(p) \o GetA(n) \o GetA(n) \o Call("RandomVoleGet", 2 * n)
                        \o Recv("OptSS_second_vole", 2 * n)
           setC == VS \o DS \o SetA_cache(n) \o SetA_cache(n) \o VS
           getC == VG \o DG \o GetA_cache(n) \o GetA_cache(n) \o VG
<1>8. /\ Planned(setA(0), getA_(1), VS \o DS, VG \o DG)
      /\ Planned(getA_(0), setA(1), VG \o DG, VS \o DS)
  <2>1. /\ Planned(Call("RandomVoleSet", 2 * n) \o Send("OptSS_first_vole", 2 * n),
                   Call("RandomVoleGet", 2 * n) \o Recv("OptSS_first_vole", 2 * n), VS, VG)
        /\ Planned(Call("RandomVoleGet", 2 * n) \o Recv("OptSS_first_vole", 2 * n),
                   Call("RandomVoleSet", 2 * n) \o Send("OptSS_first_vole", 2 * n), VG, VS)
    BY <1>4, <1>5, UncountedAfter
  <2>2. QED
    BY <1>3, <2>1, PlannedConcat
<1> HIDE DEF VS, VG, DS, DG, setA, getA_
<1>9. /\ Planned(set2(0), get2(1), VS \o DS, VG \o DG)
      /\ Planned(get2(0), set2(1), VG \o DG, VS \o DS)
  BY <1>6, <1>8, UncountedAfter
<1> HIDE DEF set2, get2
<1>10. /\ Planned(set3(0), get3(1), setC, getC)
       /\ Planned(get3(0), set3(1), getC, setC)
  <2>1. /\ Planned(set2(0) \o SetA(n), get2(1) \o GetA(n),
                   VS \o DS \o SetA_cache(n), VG \o DG \o GetA_cache(n))
        /\ Planned(get2(0) \o GetA(n), set2(1) \o SetA(n),
                   VG \o DG \o GetA_cache(n), VS \o DS \o SetA_cache(n))
    BY <1>7, <1>9, PlannedConcat
  <2>2. /\ Planned(set2(0) \o SetA(n) \o SetA(n), get2(1) \o GetA(n) \o GetA(n),
                   VS \o DS \o SetA_cache(n) \o SetA_cache(n),
                   VG \o DG \o GetA_cache(n) \o GetA_cache(n))
        /\ Planned(get2(0) \o GetA(n) \o GetA(n), set2(1) \o SetA(n) \o SetA(n),
                   VG \o DG \o GetA_cache(n) \o GetA_cache(n),
                   VS \o DS \o SetA_cache(n) \o SetA_cache(n))
    BY <1>7, <2>1, PlannedConcat
  <2>3. /\ Planned(set2(0) \o SetA(n) \o SetA(n) \o Call("RandomVoleSet", 2 * n),
                   get2(1) \o GetA(n) \o GetA(n) \o Call("RandomVoleGet", 2 * n), setC, getC)
        /\ Planned(get2(0) \o GetA(n) \o GetA(n) \o Call("RandomVoleGet", 2 * n),
                   set2(1) \o SetA(n) \o SetA(n) \o Call("RandomVoleSet", 2 * n), getC, setC)
    BY <1>4, <2>2, PlannedConcat DEF VS, VG
  <2> HIDE DEF setC, getC
  <2>4. QED
    BY <1>5, <2>3, UncountedAfter
<1>11. setC = OptSShuffleASet_cache(n) /\ getC = OptSShuffleAGet_cache(n)
  <2>1. /\ VS \o DS \in Seq(Reqs) /\ VG \o DG \in Seq(Reqs)
        /\ SetA_cache(n) \in Seq(Reqs) /\ GetA_cache(n) \in Seq(Reqs)
    <3>1. /\ VS \in Seq(Reqs) /\ VG \in Seq(Reqs) /\ DS \in Seq(Reqs) /\ DG \in Seq(Reqs)
      BY <1>3, <1>4 DEF Planned, VS, VG, DS, DG
    <3>2. SetA_cache(n) \in Seq(Reqs) /\ GetA_cache(n) \in Seq(Reqs)
      BY <1>7 DEF Planned
    <3>3. QED
      BY <3>1, <3>2
  <2>2. /\ VS \o DS \o Times(2, SetA_cache(n)) = VS \o DS \o SetA_cache(n) \o SetA_cache(n)
        /\ VG \o DG \o Times(2, GetA_cache(n)) = VG \o DG \o GetA_cache(n) \o GetA_cache(n)
    BY <2>1, TimesTwo
  <2>3. QED
    BY <2>2 DEF OptSShuffleASet_cache, OptSShuffleAGet_cache, VS, VG, DS, DG
<1> HIDE DEF set3, get3, setC, getC
<1>12. /\ Planned(set3(0) \o Local("push", "now", 2 * n) \o CompareDigests(0, "now")
                    \o Local("enforce", "now", 0),
                  get3(1) \o Local("push", "now", 2 * n) \o CompareDigests(1, "now")
                    \o Local("enforce", "now", 0), setC, getC)
       /\ Planned(get3(0) \o Local("push", "now", 2 * n) \o CompareDigests(0, "now")
                    \o Local("enforce", "now", 0),
                  set3(1) \o Local("push", "now", 2 * n) \o CompareDigests(1, "now")
                    \o Local("enforce", "now", 0), getC, setC)
  <2>1. /\ Planned(set3(0) \o Local("push", "now", 2 * n), get3(1) \o Local("push", "now", 2 * n),
                   setC, getC)
        /\ Planned(get3(0) \o Local("push", "now", 2 * n), set3(1) \o Local("push", "now", 2 * n),
                   getC, setC)
    BY <1>6, <1>10, UncountedAfter
  <2>2. /\ Planned(set3(0) \o Local("push", "now", 2 * n) \o CompareDigests(0, "now"),
                   get3(1) \o Local("push", "now", 2 * n) \o CompareDigests(1, "now"), setC, getC)
        /\ Planned(get3(0) \o Local("push", "now", 2 * n) \o CompareDigests(0, "now"),
                   set3(1) \o Local("push", "now", 2 * n) \o CompareDigests(1, "now"), getC, setC)
    BY <1>6, <2>1, UncountedAfter
  <2>3. QED
    BY <1>6, <2>2, UncountedAfter
<1>13. /\ Planned(OptSShuffleASet(0, n), OptSShuffleAGet(1, n),
                  OptSShuffleASet_cache(n), OptSShuffleAGet_cache(n))
       /\ Planned(OptSShuffleAGet(0, n), OptSShuffleASet(1, n),
                  OptSShuffleAGet_cache(n), OptSShuffleASet_cache(n))
  BY <1>11, <1>12
     DEF OptSShuffleASet, OptSShuffleAGet, set3, get3, set2, get2, setA, getA_
<1>14. QED
  BY <1>13, PlannedConcat DEF OptSShuffleA, OptSShuffleA_cache

\* What rank p calls where rank 0 calls f.
CalledAs(p, f) == IF p = 1 /\ f = "SetA" THEN "GetA" ELSE f

\* Public values: RandP and P2A, which draw them from the shared Prg.
LEMMA PlannedPublic ==
  ASSUME NEW n \in Nat
  PROVE  /\ Planned(RandP(n), RandP(n), <<>>, <<>>)
         /\ Planned(P2A(n), P2A(n), P2A_cache(0, n), P2A_cache(1, n))
<1>1. 2 * n \in Nat
  OBVIOUS
<1>2. QED
  BY <1>1, UncountedPrg DEF Uncounted, RandP, P2A, ZerosA, P2A_cache

\* What each rank asks for in each operation, and what its twin counts.
LEMMA OperationPlanned ==
  ASSUME NEW f \in Operations \ {"SumA", "NdssDelayCheck"}, NEW n \in 1 .. Elements
  PROVE  Planned(Script(0, f, n), Script(1, CalledAs(1, f), n),
                 Twin(0, f, n), Twin(1, CalledAs(1, f), n))
<1>1. n \in Nat
  BY DryRunsAssumption
<1>2. CASE f = "RandA"
  BY <1>1, <1>2, PlannedRandA DEF Script, Twin, CalledAs
<1>3. CASE f = "MulAA"
  BY <1>1, <1>3, PlannedMulAA DEF Script, Twin, CalledAs
<1>4. CASE f = "InvA"
  BY <1>1, <1>4, PlannedInvA DEF Script, Twin, CalledAs
<1>5. CASE f = "DivAA"
  BY <1>1, <1>5, PlannedDivAA DEF Script, Twin, CalledAs
<1>6. CASE f = "DivPA"
  BY <1>1, <1>6, PlannedDivPA DEF Script, Twin, CalledAs
<1>7. CASE f = "ZeroOneA"
  BY <1>1, <1>7, PlannedInvA DEF Script, Twin, CalledAs
<1>8. CASE f = "RandFairA"
  BY <1>1, <1>8, PlannedRandFairA DEF Script, Twin, CalledAs
<1>9. CASE f = "FairA2P"
  BY <1>1, <1>9, UncountedFairA2P DEF Script, Twin, CalledAs, Uncounted
<1>10. CASE f = "A2P"
  BY <1>1, <1>10, UncountedA2P DEF Script, Twin, CalledAs, Uncounted
<1>11. CASE f = "P2A"
  BY <1>1, <1>11, PlannedPublic DEF Script, Twin, CalledAs
<1>12. CASE f = "RandP"
  BY <1>1, <1>12, PlannedPublic DEF Script, Twin, CalledAs
<1>13. CASE f = "SetA"
  BY <1>1, <1>13, PlannedSetA DEF Script, Twin, CalledAs
<1>14. CASE f = "NMulA"
  BY <1>14, PlannedNMulA DEF Script, Twin, CalledAs
<1>15. CASE f = "ShuffleA"
  BY <1>15, PlannedShuffleA DEF Script, Twin, CalledAs
<1>16. CASE f = "ShuffleA_2k"
  BY <1>16, PlannedShuffleA_2k DEF Script, Twin, CalledAs
<1>17. CASE f = "SShuffleA"
  BY <1>17, PlannedSShuffleA DEF Script, Twin, CalledAs
<1>18. CASE f = "OptSShuffleA"
  BY <1>18, PlannedOptSShuffleA DEF Script, Twin, CalledAs
<1>19. QED
  BY <1>2, <1>3, <1>4, <1>5, <1>6, <1>7, <1>8, <1>9, <1>10, <1>11, <1>12,
     <1>13, <1>14, <1>15, <1>16, <1>17, <1>18 DEF Operations

-----------------------------------------------------------------------------
\* What is drawn.

\* A single draw is named the same at both ranks.
LEMMA DrawFacts ==
  ASSUME NEW p \in Ranks, NEW op \in Drawable, NEW n \in Nat
  PROVE  /\ Draw(p, op, n) \in Seq(Draws)
         /\ Draw(p, Name(p, op), n) = Draw(0, op, n)
<1>1. Draw(p, op, n) = <<[for |-> Name(p, op), num |-> n]>>
  BY DEF Draw, Name
<1>2. Name(p, op) \in Drawable
  BY NameFacts
<1>3. [for |-> Name(p, op), num |-> n] \in Draws
  BY <1>2 DEF Draws
<1>4. Draw(p, op, n) \in Seq(Draws)
  BY <1>1, <1>3
<1>5. Draw(p, Name(p, op), n) = <<[for |-> Name(p, Name(p, op)), num |-> n]>>
  BY DEF Draw, Name
<1>6. Draw(0, op, n) = <<[for |-> Name(0, op), num |-> n]>>
  BY DEF Draw, Name
<1>7. Name(p, Name(p, op)) = op /\ Name(0, op) = op
  BY NameFacts
<1>8. QED
  BY <1>4, <1>5, <1>6, <1>7

\* So many draws.
LEMMA TimesType ==
  ASSUME NEW T, NEW s \in Seq(T), NEW k \in Nat
  PROVE  Times(k, s) \in Seq(T)
  BY TimesFacts

\* What the generation of an operation draws.
LEMMA DrawnFacts ==
  ASSUME NEW p \in Ranks, NEW op \in Drawable, NEW n \in Nat
  PROVE  /\ Drawn(p, op, n) \in Seq(Draws)
         /\ Drawn(p, Name(p, op), n) = Drawn(0, op, n)
<1>1. /\ \A o \in Drawable : \A k \in Nat : Draw(p, o, k) \in Seq(Draws)
      /\ \A o \in Drawable : \A k \in Nat : Draw(p, Name(p, o), k) = Draw(0, o, k)
  BY DrawFacts
<1>2. \A k \in {2, 5} : \A o \in Drawable : Times(k, Draw(p, o, n)) \in Seq(Draws)
  BY <1>1, TimesType
<1>3. /\ FakeRandomAuth(p, n) \in Seq(Draws)
      /\ FakeRandomAuth(p, n) = FakeRandomAuth(0, n)
  <2>1. {"RandomSet", "RandomGet"} \subseteq Drawable
    BY OpsAre DEF Drawable
  <2>2. /\ FakeRandomSet(p, n) \in Seq(Draws) /\ FakeRandomGet(p, n) \in Seq(Draws)
    BY <1>1, <2>1 DEF FakeRandomSet, FakeRandomGet
  <2>3. CASE p = 0
    BY <2>2, <2>3 DEF FakeRandomAuth
  <2>4. CASE p = 1
    <3>1. Name(p, "RandomSet") = "RandomGet" /\ Name(p, "RandomGet") = "RandomSet"
      BY <2>4, OpsAre DEF Name, Dual
    <3>2. /\ FakeRandomGet(p, n) = FakeRandomSet(0, n)
          /\ FakeRandomSet(p, n) = FakeRandomGet(0, n)
      BY <1>1, <2>1, <3>1 DEF FakeRandomSet, FakeRandomGet
    <3>3. QED
      BY <2>2, <2>4, <3>2 DEF FakeRandomAuth
  <2>5. QED
    BY <2>3, <2>4 DEF Ranks
<1>4. \A o \in {"ASTSet", "ASTGet", "DoubleASTSet", "DoubleASTGet"} :
        /\ Draw(p, o, 1) \in Seq(Draws)
        /\ FakeAST(p, o, n) \in Seq(Draws)
  <2> SUFFICES ASSUME NEW o \in {"ASTSet", "ASTGet", "DoubleASTSet", "DoubleASTGet"}
               PROVE  /\ Draw(p, o, 1) \in Seq(Draws)
                      /\ FakeAST(p, o, n) \in Seq(Draws)
    OBVIOUS
  <2>1. o \in Drawable
    BY OpsAre DEF Drawable
  <2>2. Draw(p, o, 1) \in Seq(Draws)
    BY <1>1, <2>1
  <2>3. QED
    BY <1>3, <2>2 DEF FakeAST
<1>5. Times(2, FakeRandomAuth(p, n)) \in Seq(Draws)
  BY <1>3, TimesType
<1>6. \A o \in {"DoubleASTSet", "DoubleASTGet"} : FakeDoubleAST(p, o, n) \in Seq(Draws)
  BY <1>4, <1>5 DEF FakeDoubleAST
<1>7. Drawn(p, op, n) \in Seq(Draws)
  <2>1. CASE op \in {"RandomSet", "RandomGet", "Prg"}
    <3>1. Drawn(p, op, n) = Draw(p, op, n)
      BY <2>1 DEF Drawn, FakeRandomSet, FakeRandomGet
    <3>2. QED
      BY <1>1, <3>1
  <2>2. CASE op \in {"ShuffleSet", "ShuffleGet"}
    <3>1. Drawn(p, op, n) = Draw(p, op, 2)
      BY <2>2 DEF Drawn, FakeShuffle
    <3>2. QED
      BY <1>1, <3>1
  <2>3. CASE op \in {"RandomVoleSet", "RandomVoleGet", "NMul"}
    <3>1. Drawn(p, op, n) = Times(2, Draw(p, op, n))
      BY <2>3 DEF Drawn, FakeRandomVole, FakeNMul
    <3>2. QED
      BY <1>2, <3>1
  <2>4. CASE op = "BeaverTriple"
    <3>1. Drawn(p, op, n) = Times(5, Draw(p, op, n))
      BY <2>4 DEF Drawn, FakeBeaverTriple
    <3>2. QED
      BY <1>2, <3>1
  <2>5. CASE op \in {"ASTSet", "ASTGet"}
    <3>1. Drawn(p, op, n) = FakeAST(p, op, n)
      BY <2>5 DEF Drawn
    <3>2. QED
      BY <1>4, <2>5, <3>1
  <2>6. CASE op \in {"DoubleASTSet", "DoubleASTGet"}
    <3>1. Drawn(p, op, n) = FakeDoubleAST(p, op, n)
      BY <2>6 DEF Drawn
    <3>2. QED
      BY <1>6, <2>6, <3>1
  <2>7. CASE op = "RandomAuth"
    BY <1>3, <2>7 DEF Drawn
  <2>8. QED
    BY <2>1, <2>2, <2>3, <2>4, <2>5, <2>6, <2>7, OpsAre DEF Drawable
<1>8. Drawn(p, Name(p, op), n) = Drawn(0, op, n)
  <2>1. CASE p = 0
    BY <2>1 DEF Name
  <2>2. CASE p = 1
    <3>1. \A o \in Drawable : \A k \in Nat : Draw(1, Name(1, o), k) = Draw(0, o, k)
      BY <1>1, <2>2
    <3>2. FakeRandomAuth(1, n) = FakeRandomAuth(0, n)
      BY <1>3, <2>2
    <3>3. /\ op \in Ops => Name(1, op) = Dual[op]
          /\ op \notin Ops => Name(1, op) = op
      BY DEF Name
    <3>4. Drawn(1, Name(1, op), n) = Drawn(0, op, n)
      BY <3>1, <3>2, <3>3, OpsAre
         DEF Drawn, Drawable, FakeRandomSet, FakeRandomGet, FakeBeaverTriple,
             FakeRandomVole, FakeShuffle, FakeNMul, FakeAST, FakeDoubleAST, Dual
    <3>5. QED
      BY <2>2, <3>4
  <2>3. QED
    BY <2>1, <2>2 DEF Ranks
<1>9. QED
  BY <1>7, <1>8

\* What the generations of these sizes draw.
LEMMA AllDrawnFacts ==
  ASSUME NEW p \in Ranks, NEW op \in Drawable, NEW sizes \in Seq(Nat)
  PROVE  /\ AllDrawn(p, op, sizes) \in Seq(Draws)
         /\ AllDrawn(p, Name(p, op), sizes) = AllDrawn(0, op, sizes)
<1>1. \A i \in DOMAIN sizes : sizes[i] \in Nat
  OBVIOUS
<1>2. \A i \in DOMAIN sizes : /\ Drawn(p, op, sizes[i]) \in Seq(Draws)
                              /\ Drawn(p, Name(p, op), sizes[i]) = Drawn(0, op, sizes[i])
  BY <1>1, DrawnFacts
<1>3. [i \in DOMAIN sizes |-> Drawn(p, op, sizes[i])] \in Seq(Seq(Draws))
  <2>1. DOMAIN sizes = 1 .. Len(sizes) /\ Len(sizes) \in Nat
    OBVIOUS
  <2>2. QED
    BY <1>2, <2>1
<1>4. AllDrawn(p, op, sizes) \in Seq(Draws)
  BY <1>3, FlattenFacts DEF AllDrawn
<1>5. [i \in DOMAIN sizes |-> Drawn(p, Name(p, op), sizes[i])]
        = [i \in DOMAIN sizes |-> Drawn(0, op, sizes[i])]
  BY <1>2
<1>6. QED
  BY <1>4, <1>5 DEF AllDrawn

-----------------------------------------------------------------------------
\* One request after another.

\* What a rank has while it carries on.
Holdings ==
  [stock : [Slots -> Nat], tape : Seq(Draws), online : Seq(Reqs), ndss : Nat,
   checks : Nat]

\* A request a cache may serve.
Servable(op, n) ==
  op \in Ops \cup {"RandomAuth"} /\ n \in Nat /\ (op \in Shaped => n \in 1 .. Elements)

\* What grows.
Grown(u, v) == IsPrefix(u.tape, v.tape) /\ u.checks <= v.checks

\* The parts of a servable request have their slots in the cache.
LEMMA SlotFacts ==
  ASSUME NEW op, NEW n, Servable(op, n), NEW part \in PartsOf(op)
  PROVE  /\ part \in Ops /\ Slot(part, n) \in Slots
         /\ Slot(part, n)[1] = part
<1>1. part \in Ops /\ (part \in Shaped => n \in 1 .. Elements)
  BY OpsAre DEF PartsOf, Servable, Shaped, Counted
<1>2. QED
  BY <1>1 DEF Slot, Slots, Shaped

\* What a rank has after one request was served, or generated online.
LEMMA ServedFacts ==
  ASSUME NEW p \in Ranks, NEW has \in Holdings, NEW op, NEW n, Servable(op, n)
  PROVE  Served(p, has, op, n) \in Holdings /\ Grown(has, Served(p, has, op, n))
<1> DEFINE taken == [s \in Slots |-> has.stock[s] -
               (IF \E part \in PartsOf(op) : s = Slot(part, n) THEN Units(s[1], n) ELSE 0)]
<1>1. /\ has.stock \in [Slots -> Nat] /\ has.tape \in Seq(Draws) /\ has.online \in Seq(Reqs)
      /\ has.ndss \in Nat /\ has.checks \in Nat /\ has = [stock |-> has.stock,
           tape |-> has.tape, online |-> has.online, ndss |-> has.ndss, checks |-> has.checks]
  BY DEF Holdings
<1>2. n \in Nat
  BY DEF Servable
<1>3. CASE Holds(has, op, n)
  <2>1. ASSUME NEW s \in Slots
        PROVE  taken[s] \in Nat
    <3>1. CASE \E part \in PartsOf(op) : s = Slot(part, n)
      <4>1. PICK part \in PartsOf(op) : s = Slot(part, n)
        BY <3>1
      <4>2. s[1] = part
        BY <4>1, SlotFacts
      <4>3. has.stock[s] >= Units(s[1], n)
        BY <1>3, <4>1, <4>2 DEF Holds
      <4>4. has.stock[s] \in Nat /\ Units(s[1], n) \in Nat
        BY <1>1, <1>2, UnitsType
      <4>5. QED
        BY <3>1, <4>3, <4>4
    <3>2. CASE ~ \E part \in PartsOf(op) : s = Slot(part, n)
      BY <1>1, <3>2
    <3>3. QED
      BY <3>1, <3>2
  <2>2. taken \in [Slots -> Nat]
    BY <2>1
  <2>3. Served(p, has, op, n) = [has EXCEPT !.stock = taken]
    BY <1>3 DEF Served
  <2> HIDE DEF taken
  <2>4. Served(p, has, op, n) \in Holdings
    BY <1>1, <2>2, <2>3 DEF Holdings
  <2>5. /\ Served(p, has, op, n).tape = has.tape
        /\ Served(p, has, op, n).checks = has.checks
    BY <1>1, <2>3
  <2>6. IsPrefix(has.tape, has.tape)
    BY <1>1, PrefixReflexive
  <2>7. QED
    BY <1>1, <2>4, <2>5, <2>6 DEF Grown
<1>4. CASE ~Holds(has, op, n)
  <2>1. Served(p, has, op, n) = [has EXCEPT !.online = has.online \o Count(op, n),
                                            !.tape = has.tape \o Drawn(p, op, n)]
    BY <1>1, <1>4 DEF Served
  <2>2. op \in Drawable
    BY DEF Servable, Drawable
  <2>3. Drawn(p, op, n) \in Seq(Draws)
    BY <1>2, <2>2, DrawnFacts
  <2>4. Count(op, n) \in Seq(Reqs)
    <3>1. [op |-> op, num |-> n] \in Reqs
      BY <1>2, <2>2 DEF Reqs, IsReq, Servable
    <3>2. QED
      BY <3>1 DEF Count
  <2>5. /\ has.online \o Count(op, n) \in Seq(Reqs)
        /\ has.tape \o Drawn(p, op, n) \in Seq(Draws)
    BY <1>1, <2>3, <2>4
  <2>6. IsPrefix(has.tape, has.tape \o Drawn(p, op, n))
    BY <1>1, <2>3, PrefixConcat
  <2>7. PICK o, t : o = has.online \o Count(op, n) /\ t = has.tape \o Drawn(p, op, n)
    OBVIOUS
  <2>8. Served(p, has, op, n) \in Holdings
    BY <1>1, <2>1, <2>5, <2>7 DEF Holdings
  <2>9. /\ Served(p, has, op, n).tape = t
        /\ Served(p, has, op, n).checks = has.checks
    BY <1>1, <2>1, <2>7
  <2>10. QED
    BY <1>1, <2>6, <2>7, <2>8, <2>9 DEF Grown
<1>5. QED
  BY <1>3, <1>4

\* What grows and goes on growing has grown.
LEMMA GrownTransitive ==
  ASSUME NEW u \in Holdings, NEW v \in Holdings, NEW w \in Holdings,
         Grown(u, v), Grown(v, w)
  PROVE  Grown(u, w)
<1>1. /\ u.tape \in Seq(Draws) /\ v.tape \in Seq(Draws) /\ w.tape \in Seq(Draws)
      /\ u.checks \in Nat /\ v.checks \in Nat /\ w.checks \in Nat
  BY DEF Holdings
<1>2. IsPrefix(u.tape, v.tape) /\ IsPrefix(v.tape, w.tape)
  BY DEF Grown
<1>3. IsPrefix(u.tape, w.tape)
  BY <1>1, <1>2, PrefixTransitive
<1>4. QED
  BY <1>1, <1>3 DEF Grown

\* What stays has grown.
LEMMA GrownReflexive ==
  ASSUME NEW u \in Holdings
  PROVE  Grown(u, u)
<1>1. u.tape \in Seq(Draws) /\ u.checks \in Nat
  BY DEF Holdings
<1>2. QED
  BY <1>1, PrefixReflexive DEF Grown

\* A check of the shuffles; one of a buffer that is not empty is counted.
LEMMA NdssDelayCheckFacts ==
  ASSUME NEW p \in Ranks, NEW has \in Holdings
  PROVE  /\ NdssDelayCheck(p, has) \in Holdings /\ Grown(has, NdssDelayCheck(p, has))
         /\ has.ndss # 0 => NdssDelayCheck(p, has).checks # 0
<1>1. /\ has.tape \in Seq(Draws) /\ has.ndss \in Nat /\ has.checks \in Nat
      /\ has.checks + 1 \in Nat
  BY DEF Holdings
<1>2. CASE has.ndss = 0
  BY <1>2, GrownReflexive DEF NdssDelayCheck
<1>3. CASE has.ndss # 0
  <2>1. PICK h : h = [has EXCEPT !.ndss = 0, !.checks = @ + 1]
    OBVIOUS
  <2>2. h \in Holdings /\ h.tape = has.tape /\ h.checks = has.checks + 1
    BY <1>1, <2>1 DEF Holdings
  <2>3. Grown(has, h)
    BY <1>1, <2>2, PrefixReflexive DEF Grown
  <2>4. Servable("RandomAuth", 1)
    BY OpsAre DEF Servable, Shaped
  <2>5. Served(p, h, "RandomAuth", 1) \in Holdings /\ Grown(h, Served(p, h, "RandomAuth", 1))
    BY <2>2, <2>4, ServedFacts
  <2>6. NdssDelayCheck(p, has) = Served(p, h, "RandomAuth", 1)
    BY <1>3, <2>1 DEF NdssDelayCheck
  <2>7. Served(p, h, "RandomAuth", 1).checks # 0
    <3>1. Served(p, h, "RandomAuth", 1).checks \in Nat
      BY <2>5 DEF Holdings
    <3>2. QED
      BY <1>1, <2>2, <2>5, <3>1 DEF Grown
  <2>8. QED
    BY <2>2, <2>3, <2>5, <2>6, <2>7, GrownTransitive
<1>4. QED
  BY <1>2, <1>3

\* What a rank has after one request of a call.
LEMMA CarriedFacts ==
  ASSUME NEW p \in Ranks, NEW has \in Holdings, NEW r \in Reqs
  PROVE  Carried(p, has, r) \in Holdings /\ Grown(has, Carried(p, has, r))
<1>1. /\ r.op \in Drawable \cup {"ndss"} /\ r.num \in Nat
      /\ r.op \in Shaped => r.num \in 1 .. Elements
  BY DEF Reqs, IsReq
<1>2. /\ has.tape \in Seq(Draws) /\ has.ndss \in Nat /\ has.checks \in Nat
  BY DEF Holdings
<1>3. CASE r.op = "Prg"
  <2>1. PICK t : t = has.tape \o Drawn(p, "Prg", r.num)
    OBVIOUS
  <2>2. Carried(p, has, r) = [has EXCEPT !.tape = t]
    BY <1>3, <2>1 DEF Carried
  <2>3. "Prg" \in Drawable
    BY DEF Drawable
  <2>4. Drawn(p, "Prg", r.num) \in Seq(Draws)
    BY <1>1, <2>3, DrawnFacts
  <2>5. t \in Seq(Draws) /\ IsPrefix(has.tape, t)
    BY <1>2, <2>1, <2>4, PrefixConcat
  <2>6. /\ Carried(p, has, r) \in Holdings /\ Carried(p, has, r).tape = t
        /\ Carried(p, has, r).checks = has.checks
    BY <2>2, <2>5 DEF Holdings
  <2>7. QED
    BY <1>2, <2>5, <2>6 DEF Grown
<1>4. CASE r.op = "ndss"
  <2>1. PICK h : h = [has EXCEPT !.ndss = @ + r.num]
    OBVIOUS
  <2>2. h \in Holdings /\ h.tape = has.tape /\ h.checks = has.checks
    <3>1. PICK m \in Nat : m = has.ndss + r.num
      BY <1>1 DEF Holdings
    <3>2. h = [has EXCEPT !.ndss = m]
      BY <2>1, <3>1
    <3>3. QED
      BY <3>2 DEF Holdings
  <2>3. Grown(has, h)
    BY <1>2, <2>2, PrefixReflexive DEF Grown
  <2>4. NdssDelayCheck(p, h) \in Holdings /\ Grown(h, NdssDelayCheck(p, h))
    BY <2>2, NdssDelayCheckFacts
  <2>5. Grown(has, NdssDelayCheck(p, h))
    BY <2>2, <2>3, <2>4, GrownTransitive
  <2>6. Carried(p, has, r) \in {h, NdssDelayCheck(p, h)}
    BY <1>4, <2>1 DEF Carried, Appended
  <2>7. QED
    BY <2>2, <2>3, <2>4, <2>5, <2>6
<1>5. CASE r.op \notin {"Prg", "ndss"}
  <2>1. Servable(r.op, r.num)
    BY <1>1, <1>5 DEF Servable, Drawable
  <2>2. Carried(p, has, r) = Served(p, has, r.op, r.num)
    BY <1>5 DEF Carried
  <2>3. QED
    BY <2>1, <2>2, ServedFacts
<1>6. QED
  BY <1>3, <1>4, <1>5

IsCarried(g, p, before, requests) ==
  g = [i \in 0 .. Len(requests) |->
         IF i = 0 THEN before ELSE Carried(p, g[i - 1], requests[i])]

\* CarriedOn is defined recursively along the requests: there is such a function.
LEMMA CarriedExists ==
  ASSUME NEW p, NEW before, NEW requests \in Seq(Reqs)
  PROVE  \E g : IsCarried(g, p, before, requests)
<1> DEFINE Good(n) ==
      \E g : g = [i \in 0 .. n |-> IF i = 0 THEN before
                                     ELSE Carried(p, g[i - 1], requests[i])]
           N == {n \in Nat : Good(n)}
<1>1. 0 \in N
  <2>1. [i \in {0} |-> before] = [i \in 0 .. 0 |-> IF i = 0 THEN before
                     ELSE Carried(p, [k \in {0} |-> before][i - 1], requests[i])]
    OBVIOUS
  <2>2. QED
    BY <2>1
<1>2. ASSUME NEW n \in Nat, n \in N
      PROVE  n + 1 \in N
  <2>1. PICK g : g = [i \in 0 .. n |-> IF i = 0 THEN before
                                         ELSE Carried(p, g[i - 1], requests[i])]
    BY <1>2
  <2> DEFINE h == [i \in 0 .. n + 1 |-> IF i <= n THEN g[i]
                                          ELSE Carried(p, g[n], requests[n + 1])]
             H == [i \in 0 .. n + 1 |-> IF i = 0 THEN before
                                          ELSE Carried(p, h[i - 1], requests[i])]
  <2>2. ASSUME NEW i \in 0 .. n + 1
        PROVE  h[i] = H[i]
    <3>1. CASE i = n + 1
      <4>1. /\ h[i] = Carried(p, g[n], requests[n + 1]) /\ h[n] = g[n]
            /\ H[i] = Carried(p, h[i - 1], requests[i]) /\ i - 1 = n
        BY <3>1
      <4>2. QED
        BY <3>1, <4>1
    <3>2. CASE i # n + 1
      <4>1. /\ i \in 0 .. n /\ h[i] = g[i]
            /\ H[i] = IF i = 0 THEN before ELSE Carried(p, h[i - 1], requests[i])
            /\ i # 0 => h[i - 1] = g[i - 1]
        BY <3>2
      <4>2. g[i] = IF i = 0 THEN before ELSE Carried(p, g[i - 1], requests[i])
        BY <2>1, <4>1
      <4>3. QED
        BY <4>1, <4>2
    <3>3. QED
      BY <3>1, <3>2
  <2>3. h = H
    BY <2>2
  <2> HIDE DEF h
  <2>4. Good(n + 1)
    BY <2>3
  <2> HIDE DEF Good
  <2>5. QED
    BY <2>4
<1> HIDE DEF N
<1>3. Nat \subseteq N
  BY <1>1, <1>2, NatSetInduction
<1>4. Len(requests) \in N
  BY <1>3
<1>5. QED
  BY <1>4 DEF N, IsCarried

\* What a rank has before, between and after the requests of a call.
LEMMA CarriedOnFacts ==
  ASSUME NEW p \in Ranks, NEW before \in Holdings, NEW requests \in Seq(Reqs)
  PROVE  \E g \in [0 .. Len(requests) -> Holdings] :
           /\ g[0] = before /\ g[Len(requests)] = CarriedOn(p, before, requests)
           /\ \A i \in 1 .. Len(requests) : g[i] = Carried(p, g[i - 1], requests[i])
           /\ \A i \in 0 .. Len(requests) : Grown(before, g[i])
<1> DEFINE g == CHOOSE h : IsCarried(h, p, before, requests)
<1>1. CarriedOn(p, before, requests) = g[Len(requests)]
  BY DEF CarriedOn, IsCarried
<1>2. IsCarried(g, p, before, requests)
  BY CarriedExists
<1> HIDE DEF g
<1>3. PICK f : f = g
  OBVIOUS
<1>4. f = [i \in 0 .. Len(requests) |->
             IF i = 0 THEN before ELSE Carried(p, f[i - 1], requests[i])]
  <2>1. IsCarried(f, p, before, requests)
    BY <1>2, <1>3
  <2>2. QED
    BY <2>1 DEF IsCarried
<1>5. Len(requests) \in Nat /\ f[Len(requests)] = CarriedOn(p, before, requests)
  BY <1>1, <1>3
<1>6. f[0] = before /\ DOMAIN f = 0 .. Len(requests)
  BY <1>4, <1>5
<1>7. \A i \in 1 .. Len(requests) : f[i] = Carried(p, f[i - 1], requests[i])
  BY <1>4, <1>5
<1> DEFINE N == {n \in Nat : n <= Len(requests) => f[n] \in Holdings /\ Grown(before, f[n])}
<1>8. Nat \subseteq N
  <2>1. 0 \in N
    BY <1>6, GrownReflexive
  <2>2. ASSUME NEW n \in Nat, n \in N
        PROVE  n + 1 \in N
    <3>1. SUFFICES ASSUME n + 1 <= Len(requests)
                   PROVE  f[n + 1] \in Holdings /\ Grown(before, f[n + 1])
      OBVIOUS
    <3>2. /\ n + 1 \in 1 .. Len(requests) /\ f[n] \in Holdings /\ Grown(before, f[n])
          /\ requests[n + 1] \in Reqs /\ (n + 1) - 1 = n
      BY <1>5, <2>2, <3>1
    <3>3. f[n + 1] = Carried(p, f[n], requests[n + 1])
      BY <1>7, <3>2
    <3>4. /\ Carried(p, f[n], requests[n + 1]) \in Holdings
          /\ Grown(f[n], Carried(p, f[n], requests[n + 1]))
      BY <3>2, CarriedFacts
    <3>5. QED
      BY <3>2, <3>3, <3>4, GrownTransitive
  <2> HIDE DEF N
  <2>3. QED
    BY <2>1, <2>2, NatSetInduction
<1>9. \A i \in 0 .. Len(requests) : f[i] \in Holdings /\ Grown(before, f[i])
  BY <1>5, <1>8
<1>10. f \in [0 .. Len(requests) -> Holdings]
  <2>1. f = [i \in 0 .. Len(requests) |-> f[i]]
    <3>1. f = [i \in DOMAIN f |-> f[i]]
      BY <1>4
    <3>2. QED
      BY <1>6, <3>1
  <2>2. \A i \in 0 .. Len(requests) : f[i] \in Holdings
    BY <1>9
  <2>3. QED
    BY <2>1, <2>2
<1>11. QED
  BY <1>5, <1>6, <1>7, <1>9, <1>10

\* What a rank has after all requests of a call.
LEMMA CarriedOnType ==
  ASSUME NEW p \in Ranks, NEW before \in Holdings, NEW requests \in Seq(Reqs)
  PROVE  /\ CarriedOn(p, before, requests) \in Holdings
         /\ Grown(before, CarriedOn(p, before, requests))
<1>1. PICK g \in [0 .. Len(requests) -> Holdings] :
        /\ g[Len(requests)] = CarriedOn(p, before, requests)
        /\ \A i \in 0 .. Len(requests) : Grown(before, g[i])
  BY CarriedOnFacts
<1>2. Len(requests) \in 0 .. Len(requests)
  OBVIOUS
<1>3. QED
  BY <1>1, <1>2

-----------------------------------------------------------------------------
\* At both ranks.

\* What rank 1 has, as rank 0 names it.
Alike(h, h0) ==
  /\ h0.stock = [s \in Slots |-> h.stock[<<Name(1, s[1]), s[2]>>]]
  /\ h0.online = Renamed(h.online)
  /\ h0.tape = h.tape /\ h0.ndss = h.ndss /\ h0.checks = h.checks

\* The slots of rank 1, as rank 0 names them.
LEMMA SlotNamed ==
  /\ \A s \in Slots : <<Name(1, s[1]), s[2]>> \in Slots
  /\ \A s \in Slots : <<Name(1, Name(1, s[1])), s[2]>> = s
<1>1. \A s \in Slots : s = <<s[1], s[2]>>
  BY DEF Slots
<1>2. ASSUME NEW s \in Slots
      PROVE  <<Name(1, s[1]), s[2]>> \in Slots
  <2>1. CASE s \in Counted \X {0}
    <3>1. Name(1, s[1]) \in Counted /\ s[2] = 0
      BY <2>1, NameFacts DEF Ranks
    <3>2. QED
      BY <3>1 DEF Slots
  <2>2. CASE s \in Shaped \X (1 .. Elements)
    <3>1. Name(1, s[1]) \in Shaped /\ s[2] \in 1 .. Elements
      BY <2>2, NameFacts DEF Ranks
    <3>2. QED
      BY <3>1 DEF Slots, Shaped
  <2>3. QED
    BY <2>1, <2>2 DEF Slots, Shaped
<1>3. QED
  BY <1>1, <1>2, NameFacts DEF Ranks

\* The parts and the slots of a request of the peer.
LEMMA PartsNamed ==
  ASSUME NEW op, NEW n, Servable(op, n)
  PROVE  /\ Servable(Name(1, op), n)
         /\ \A part \in PartsOf(op) :
              /\ Name(1, part) \in PartsOf(Name(1, op))
              /\ Slot(Name(1, part), n) = <<Name(1, Slot(part, n)[1]), Slot(part, n)[2]>>
              /\ Units(Name(1, part), n) = Units(part, n)
         /\ \A part \in PartsOf(Name(1, op)) : Name(1, part) \in PartsOf(op)
<1>1. 1 \in Ranks
  BY DEF Ranks
<1>2. Servable(Name(1, op), n)
  BY <1>1, NameFacts DEF Servable
<1>3. Name(1, "RandomSet") = "RandomGet" /\ Name(1, "RandomGet") = "RandomSet"
  BY OpsAre DEF Name, Dual
<1>4. (op = "RandomAuth" <=> Name(1, op) = "RandomAuth") /\ "RandomAuth" \notin Ops
  BY <1>1, NameFacts, OpsAre DEF Servable
<1>5. /\ \A part \in PartsOf(op) : Name(1, part) \in PartsOf(Name(1, op))
      /\ \A part \in PartsOf(Name(1, op)) : Name(1, part) \in PartsOf(op)
  <2>1. CASE op = "RandomAuth"
    BY <1>3, <1>4, <2>1 DEF PartsOf
  <2>2. CASE op # "RandomAuth"
    BY <1>1, <1>4, <2>2, NameFacts DEF PartsOf
  <2>3. QED
    BY <2>1, <2>2
<1>6. ASSUME NEW part \in PartsOf(op)
      PROVE  /\ Slot(Name(1, part), n) = <<Name(1, Slot(part, n)[1]), Slot(part, n)[2]>>
             /\ Units(Name(1, part), n) = Units(part, n)
  <2>1. Name(1, part) \in Counted <=> part \in Counted
    BY <1>1, NameFacts
  <2>2. QED
    BY <2>1 DEF Slot, Units
<1>7. QED
  BY <1>2, <1>5, <1>6

\* The peer's request takes from the peer's slot.
LEMMA TakenNamed ==
  ASSUME NEW op, NEW n, Servable(op, n), NEW s \in Slots
  PROVE  /\ (\E part \in PartsOf(Name(1, op)) : <<Name(1, s[1]), s[2]>> = Slot(part, n))
              <=> (\E part \in PartsOf(op) : s = Slot(part, n))
         /\ Units(Name(1, s[1]), n) = Units(s[1], n)
<1>1. s = <<s[1], s[2]>> /\ Name(1, Name(1, s[1])) = s[1] /\ 1 \in Ranks
  BY NameFacts DEF Slots, Ranks
<1>2. Name(1, s[1]) \in Counted <=> s[1] \in Counted
  BY <1>1, NameFacts
<1>3. ASSUME NEW part \in PartsOf(op), s = Slot(part, n)
      PROVE  \E q \in PartsOf(Name(1, op)) : <<Name(1, s[1]), s[2]>> = Slot(q, n)
  BY <1>3, PartsNamed
<1>4. ASSUME NEW q \in PartsOf(Name(1, op)), <<Name(1, s[1]), s[2]>> = Slot(q, n)
      PROVE  \E part \in PartsOf(op) : s = Slot(part, n)
  <2>1. Name(1, q) \in PartsOf(op)
    BY PartsNamed
  <2>2. q = Name(1, s[1]) /\ s[2] = (IF q \in Counted THEN 0 ELSE n)
    BY <1>4 DEF Slot
  <2>3. Name(1, q) = s[1]
    BY <1>1, <2>2
  <2>4. s = Slot(Name(1, q), n)
    BY <1>1, <1>2, <2>2, <2>3 DEF Slot
  <2>5. QED
    BY <2>1, <2>4
<1>5. QED
  BY <1>2, <1>3, <1>4 DEF Units

\* What is served to rank 1 is what is served to rank 0.
LEMMA ServedAlike ==
  ASSUME NEW h \in Holdings, NEW k \in Holdings, Alike(h, k), NEW op, NEW n, Servable(op, n)
  PROVE  Alike(Served(1, h, Name(1, op), n), Served(0, k, op, n))
<1> DEFINE name(s) == <<Name(1, s[1]), s[2]>>
           o == Name(1, op)
           left(f, q) == [s \in Slots |-> f.stock[s] -
               (IF \E part \in PartsOf(q) : s = Slot(part, n) THEN Units(s[1], n) ELSE 0)]
<1>1. /\ h.stock \in [Slots -> Nat] /\ k.stock \in [Slots -> Nat]
      /\ \A s \in Slots : k.stock[s] = h.stock[name(s)]
      /\ k.tape = h.tape /\ k.ndss = h.ndss /\ k.checks = h.checks
      /\ \A s \in Slots : name(s) \in Slots
  BY SlotNamed DEF Holdings, Alike
<1>2. Holds(h, o, n) <=> Holds(k, op, n)
  <2>1. ASSUME NEW part \in PartsOf(op)
        PROVE  /\ h.stock[Slot(Name(1, part), n)] = k.stock[Slot(part, n)]
               /\ Units(Name(1, part), n) = Units(part, n)
    <3>1. Slot(part, n) \in Slots
      BY SlotFacts
    <3>2. /\ Slot(Name(1, part), n) = name(Slot(part, n))
          /\ Units(Name(1, part), n) = Units(part, n)
      BY PartsNamed
    <3>3. k.stock[Slot(part, n)] = h.stock[name(Slot(part, n))]
      BY <1>1, <3>1
    <3>4. QED
      BY <3>2, <3>3
  <2>2. ASSUME Holds(h, o, n)
        PROVE  Holds(k, op, n)
    BY <2>1, <2>2, PartsNamed DEF Holds
  <2>3. ASSUME Holds(k, op, n)
        PROVE  Holds(h, o, n)
    <3>1. SUFFICES ASSUME NEW q \in PartsOf(o)
                   PROVE  h.stock[Slot(q, n)] >= Units(q, n)
      BY DEF Holds
    <3>2. Name(1, q) \in PartsOf(op) /\ Name(1, Name(1, q)) = q
      BY PartsNamed, NameFacts DEF Ranks
    <3>3. k.stock[Slot(Name(1, q), n)] >= Units(Name(1, q), n)
      BY <2>3, <3>2 DEF Holds
    <3>4. /\ h.stock[Slot(Name(1, Name(1, q)), n)] = k.stock[Slot(Name(1, q), n)]
          /\ Units(Name(1, Name(1, q)), n) = Units(Name(1, q), n)
      BY <2>1, <3>2
    <3>5. QED
      BY <3>2, <3>3, <3>4
  <2>4. QED
    BY <2>2, <2>3
<1>3. CASE Holds(k, op, n)
  <2>1. /\ Served(1, h, o, n) = [h EXCEPT !.stock = left(h, o)]
        /\ Served(0, k, op, n) = [k EXCEPT !.stock = left(k, op)]
    BY <1>2, <1>3 DEF Served
  <2>2. ASSUME NEW s \in Slots
        PROVE  left(k, op)[s] = left(h, o)[name(s)]
    <3>1. name(s) \in Slots /\ k.stock[s] = h.stock[name(s)] /\ name(s)[1] = Name(1, s[1])
      BY <1>1
    <3>2. /\ (\E part \in PartsOf(o) : name(s) = Slot(part, n))
               <=> (\E part \in PartsOf(op) : s = Slot(part, n))
          /\ Units(Name(1, s[1]), n) = Units(s[1], n)
      BY TakenNamed
    <3>3. left(h, o)[name(s)] = h.stock[name(s)] -
            (IF \E part \in PartsOf(o) : name(s) = Slot(part, n)
               THEN Units(name(s)[1], n) ELSE 0)
      BY <3>1
    <3>4. left(k, op)[s] = k.stock[s] -
            (IF \E part \in PartsOf(op) : s = Slot(part, n) THEN Units(s[1], n) ELSE 0)
      OBVIOUS
    <3> HIDE DEF left, name, o
    <3>5. QED
      BY <3>1, <3>2, <3>3, <3>4
  <2>3. PICK lh, lk : lh = left(h, o) /\ lk = left(k, op)
    OBVIOUS
  <2>4. lk = [s \in Slots |-> lh[name(s)]]
    <3>1. lk = [s \in Slots |-> lk[s]]
      BY <2>3
    <3>2. \A s \in Slots : lk[s] = lh[name(s)]
      BY <2>2, <2>3
    <3>3. QED
      BY <3>1, <3>2
  <2>5. /\ Served(1, h, Name(1, op), n) = [h EXCEPT !.stock = lh]
        /\ Served(0, k, op, n) = [k EXCEPT !.stock = lk]
    BY <2>1, <2>3
  <2> HIDE DEF left
  <2>6. PICK x, y : x = [h EXCEPT !.stock = lh] /\ y = [k EXCEPT !.stock = lk]
    OBVIOUS
  <2>7. /\ x.stock = lh /\ x.tape = h.tape /\ x.online = h.online
        /\ x.ndss = h.ndss /\ x.checks = h.checks
        /\ y.stock = lk /\ y.tape = k.tape /\ y.online = k.online
        /\ y.ndss = k.ndss /\ y.checks = k.checks
    BY <2>6 DEF Holdings
  <2>8. k.online = Renamed(h.online)
    BY DEF Alike
  <2>9. Alike(x, y)
    BY <1>1, <2>4, <2>7, <2>8 DEF Alike
  <2>10. QED
    BY <2>5, <2>6, <2>9
<1>4. CASE ~Holds(k, op, n)
  <2>1. /\ Served(1, h, o, n) = [h EXCEPT !.online = h.online \o Count(o, n),
                                          !.tape = h.tape \o Drawn(1, o, n)]
        /\ Served(0, k, op, n) = [k EXCEPT !.online = k.online \o Count(op, n),
                                           !.tape = k.tape \o Drawn(0, op, n)]
    BY <1>2, <1>4 DEF Served, Holdings
  <2>2. op \in Drawable /\ n \in Nat
    BY DEF Servable, Drawable
  <2>3. Drawn(1, o, n) = Drawn(0, op, n)
    BY <2>2, DrawnFacts DEF Ranks
  <2>4. PICK c, d, t : c = h.online \o Count(o, n) /\ d = k.online \o Count(op, n)
                       /\ t = h.tape \o Drawn(1, o, n)
    OBVIOUS
  <2>5. t = k.tape \o Drawn(0, op, n)
    BY <1>1, <2>3, <2>4
  <2>8. d = Renamed(c)
    <3>1. h.online \in Seq(Reqs) /\ k.online = Renamed(h.online)
      BY DEF Alike, Holdings
    <3>2. [op |-> Name(1, op), num |-> n] \in Reqs
      BY <2>2, PartsNamed DEF Reqs, IsReq, Servable, Drawable
    <3>3. PICK e : e = Count(o, n)
      OBVIOUS
    <3>4. e \in Seq(Reqs) /\ Len(e) = 1 /\ e[1].op = Name(1, op) /\ e[1].num = n
      BY <3>2, <3>3 DEF Count
    <3>5. Renamed(h.online \o e) = Renamed(h.online) \o Renamed(e)
      BY <3>1, <3>4, RenamedFacts
    <3>6. Renamed(e) = <<[op |-> Name(1, e[1].op), num |-> e[1].num]>>
      BY <3>3, <3>4 DEF Renamed, Count
    <3>7. Name(1, Name(1, op)) = op
      BY NameFacts DEF Ranks
    <3>8. Renamed(e) = Count(op, n)
      BY <3>4, <3>6, <3>7 DEF Count
    <3>9. QED
      BY <2>4, <3>1, <3>3, <3>5, <3>8
  <2>6. /\ Served(1, h, Name(1, op), n) = [h EXCEPT !.online = c, !.tape = t]
        /\ Served(0, k, op, n) = [k EXCEPT !.online = d, !.tape = t]
    BY <2>1, <2>4, <2>5
  <2>7. QED
    BY <1>1, <2>6, <2>8 DEF Alike, Holdings
<1>5. QED
  BY <1>3, <1>4

\* A check of the shuffles does the same at both ranks.
LEMMA NdssDelayCheckAlike ==
  ASSUME NEW h \in Holdings, NEW k \in Holdings, Alike(h, k)
  PROVE  Alike(NdssDelayCheck(1, h), NdssDelayCheck(0, k))
<1>1. h.ndss = k.ndss /\ h.ndss \in Nat /\ h.checks \in Nat /\ h.checks + 1 \in Nat
  BY DEF Alike, Holdings
<1>2. CASE h.ndss = 0
  BY <1>1, <1>2 DEF NdssDelayCheck
<1>3. CASE h.ndss # 0
  <2>1. PICK h1, k1 : /\ h1 = [h EXCEPT !.ndss = 0, !.checks = @ + 1]
                      /\ k1 = [k EXCEPT !.ndss = 0, !.checks = @ + 1]
    OBVIOUS
  <2>2. h1 \in Holdings /\ k1 \in Holdings
    BY <1>1, <2>1 DEF Holdings, Alike
  <2>3. Alike(h1, k1)
    BY <2>1 DEF Alike, Holdings
  <2>4. Servable("RandomAuth", 1) /\ Name(1, "RandomAuth") = "RandomAuth"
    BY OpsAre, NameFacts DEF Servable, Shaped, Ranks
  <2>5. Alike(Served(1, h1, "RandomAuth", 1), Served(0, k1, "RandomAuth", 1))
    BY <2>2, <2>3, <2>4, ServedAlike
  <2>6. /\ NdssDelayCheck(1, h) = Served(1, h1, "RandomAuth", 1)
        /\ NdssDelayCheck(0, k) = Served(0, k1, "RandomAuth", 1)
    BY <1>1, <1>3, <2>1 DEF NdssDelayCheck
  <2>7. QED
    BY <2>5, <2>6
<1>4. QED
  BY <1>2, <1>3

\* A request and that of the peer do the same at both ranks.
LEMMA CarriedAlike ==
  ASSUME NEW h \in Holdings, NEW k \in Holdings, Alike(h, k),
         NEW r \in Reqs, NEW u \in Reqs, u.op = Name(1, r.op), u.num = r.num
  PROVE  Alike(Carried(1, h, u), Carried(0, k, r))
<1>1. /\ r.op \in Drawable \cup {"ndss"} /\ r.num \in Nat
      /\ r.op \in Shaped => r.num \in 1 .. Elements
  BY DEF Reqs, IsReq
<1>2. /\ h.tape = k.tape /\ h.ndss = k.ndss /\ h.ndss \in Nat /\ h.tape \in Seq(Draws)
      /\ h.ndss + r.num \in Nat
  BY <1>1 DEF Alike, Holdings
<1>3. /\ u.op = "Prg" <=> r.op = "Prg"
      /\ u.op = "ndss" <=> r.op = "ndss"
      /\ "Prg" \in Drawable /\ Name(1, "Prg") = "Prg" /\ Name(0, "Prg") = "Prg" /\ 1 \in Ranks
  <2>1. /\ "Prg" \in Drawable /\ Name(1, "Prg") = "Prg" /\ Name(0, "Prg") = "Prg" /\ 1 \in Ranks
        /\ Name(1, "ndss") = "ndss" /\ \A op : Name(1, Name(1, op)) = op
    BY NameFacts DEF Ranks, Drawable
  <2>2. QED
    BY <2>1
<1>4. CASE r.op = "Prg"
  <2>1. Drawn(1, "Prg", r.num) = Drawn(0, "Prg", r.num)
    <3>1. Drawn(1, Name(1, "Prg"), r.num) = Drawn(0, "Prg", r.num)
      BY <1>1, <1>3, DrawnFacts
    <3>2. QED
      BY <1>3, <3>1
  <2>2. PICK t : t = h.tape \o Drawn(1, "Prg", r.num)
    OBVIOUS
  <2>3. /\ Carried(1, h, u) = [h EXCEPT !.tape = t]
        /\ Carried(0, k, r) = [k EXCEPT !.tape = t]
    BY <1>2, <1>3, <1>4, <2>1, <2>2 DEF Carried
  <2>4. QED
    BY <2>3 DEF Alike, Holdings
<1>5. CASE r.op = "ndss"
  <2>1. PICK h1, k1 : h1 = [h EXCEPT !.ndss = @ + r.num] /\ k1 = [k EXCEPT !.ndss = @ + r.num]
    OBVIOUS
  <2>2. /\ h1 \in Holdings /\ k1 \in Holdings /\ h1.ndss = h.ndss + r.num
        /\ k1.ndss = h.ndss + r.num
    BY <1>2, <2>1 DEF Holdings
  <2>3. Alike(h1, k1)
    BY <2>1, <2>2 DEF Alike, Holdings
  <2>4. Alike(NdssDelayCheck(1, h1), NdssDelayCheck(0, k1))
    BY <2>2, <2>3, NdssDelayCheckAlike
  <2>5. /\ Carried(1, h, u) = IF h1.ndss >= NdssMax THEN NdssDelayCheck(1, h1) ELSE h1
        /\ Carried(0, k, r) = IF k1.ndss >= NdssMax THEN NdssDelayCheck(0, k1) ELSE k1
    BY <1>3, <1>5, <2>1 DEF Carried, Appended
  <2>6. QED
    BY <2>2, <2>3, <2>4, <2>5
<1>6. CASE r.op \notin {"Prg", "ndss"}
  <2>1. Servable(r.op, r.num)
    BY <1>1, <1>6 DEF Servable, Drawable
  <2>2. /\ Carried(1, h, u) = Served(1, h, Name(1, r.op), r.num)
        /\ Carried(0, k, r) = Served(0, k, r.op, r.num)
    BY <1>3, <1>6 DEF Carried
  <2>3. QED
    BY <2>1, <2>2, ServedAlike
<1>7. QED
  BY <1>4, <1>5, <1>6

\* And so do the requests of a call.
LEMMA CarriedOnAlike ==
  ASSUME NEW h \in Holdings, NEW k \in Holdings, Alike(h, k), NEW requests \in Seq(Reqs)
  PROVE  Alike(CarriedOn(1, h, Renamed(requests)), CarriedOn(0, k, requests))
<1>1. /\ Renamed(requests) \in Seq(Reqs) /\ Len(Renamed(requests)) = Len(requests)
      /\ \A i \in 1 .. Len(requests) : /\ Renamed(requests)[i].op = Name(1, requests[i].op)
                                       /\ Renamed(requests)[i].num = requests[i].num
  BY RenamedFacts
<1>2. PICK rs \in Seq(Reqs) : rs = Renamed(requests)
  BY <1>1
<1>3. Len(rs) = Len(requests) /\ Len(rs) \in Nat
  BY <1>1, <1>2
<1>4. 0 \in Ranks /\ 1 \in Ranks
  BY DEF Ranks
<1>5. PICK f \in [0 .. Len(rs) -> Holdings] :
        /\ f[0] = h /\ f[Len(rs)] = CarriedOn(1, h, rs)
        /\ \A i \in 1 .. Len(rs) : f[i] = Carried(1, f[i - 1], rs[i])
  BY <1>4, CarriedOnFacts
<1>6. PICK g \in [0 .. Len(requests) -> Holdings] :
        /\ g[0] = k /\ g[Len(requests)] = CarriedOn(0, k, requests)
        /\ \A i \in 1 .. Len(requests) : g[i] = Carried(0, g[i - 1], requests[i])
  BY <1>4, CarriedOnFacts
<1> DEFINE N == {n \in Nat : n <= Len(requests) => Alike(f[n], g[n])}
<1>7. Nat \subseteq N
  <2>1. 0 \in N
    BY <1>5, <1>6
  <2>2. ASSUME NEW n \in Nat, n \in N
        PROVE  n + 1 \in N
    <3>1. SUFFICES ASSUME n + 1 <= Len(requests)
                   PROVE  Alike(f[n + 1], g[n + 1])
      OBVIOUS
    <3>2. /\ n + 1 \in 1 .. Len(requests) /\ n \in 0 .. Len(requests) /\ (n + 1) - 1 = n
          /\ Alike(f[n], g[n])
      BY <1>3, <2>2, <3>1
    <3>3. f[n + 1] = Carried(1, f[n], rs[n + 1]) /\ g[n + 1] = Carried(0, g[n], requests[n + 1])
      BY <1>3, <1>5, <1>6, <3>2
    <3>4. /\ f[n] \in Holdings /\ g[n] \in Holdings /\ rs[n + 1] \in Reqs
          /\ requests[n + 1] \in Reqs
      BY <1>3, <3>2
    <3>5. rs[n + 1].op = Name(1, requests[n + 1].op) /\ rs[n + 1].num = requests[n + 1].num
      BY <1>1, <1>2, <3>2
    <3>6. QED
      BY <3>2, <3>3, <3>4, <3>5, CarriedAlike
  <2> HIDE DEF N
  <2>3. QED
    BY <2>1, <2>2, NatSetInduction
<1>8. Alike(f[Len(requests)], g[Len(requests)])
  BY <1>3, <1>7
<1>9. QED
  BY <1>2, <1>3, <1>5, <1>6, <1>8

\* What a call asks for and what its twin counts, at either rank.
LEMMA CallFacts ==
  ASSUME NEW f \in Operations, NEW n \in 1 .. Elements
  PROVE  /\ \A p \in Ranks :
              /\ Twin(p, CalledAs(p, f), n) \in Seq(Reqs)
              /\ f # "NdssDelayCheck" =>
                   /\ Requested(p, CalledAs(p, f), n) \in Seq(Reqs)
                   /\ \A x \in Slots :
                        Need(x, Requested(p, CalledAs(p, f), n))
                          = Filled(x, SizesOf(x[1], Twin(p, CalledAs(p, f), n)))
              /\ f = "NdssDelayCheck" => Twin(p, CalledAs(p, f), n) = <<>>
         /\ f # "NdssDelayCheck" =>
              Requested(1, CalledAs(1, f), n) = Renamed(Requested(0, CalledAs(0, f), n))
         /\ \A op \in Ops \cup {"Prg"} :
              SizesOf(Name(1, op), Twin(1, CalledAs(1, f), n))
                = SizesOf(op, Twin(0, CalledAs(0, f), n))
<1>1. CalledAs(0, f) = f
  BY DEF CalledAs
<1>2. CASE f \notin {"SumA", "NdssDelayCheck"}
  <2>1. Planned(Script(0, f, n), Script(1, CalledAs(1, f), n),
                Twin(0, f, n), Twin(1, CalledAs(1, f), n))
    BY <1>2, OperationPlanned
  <2>2. CalledAs(1, f) # "SumA"
    BY <1>2 DEF CalledAs
  <2>3. /\ Requested(0, f, n) = Requests(Script(0, f, n))
        /\ Requested(1, CalledAs(1, f), n) = Requests(Script(1, CalledAs(1, f), n))
    BY <1>2, <2>2 DEF Requested
  <2>4. /\ Twin(0, f, n) \in Seq(Reqs) /\ Twin(1, CalledAs(1, f), n) \in Seq(Reqs)
        /\ Requested(0, f, n) \in Seq(Reqs) /\ Requested(1, CalledAs(1, f), n) \in Seq(Reqs)
        /\ Requested(1, CalledAs(1, f), n) = Renamed(Requested(0, f, n))
        /\ \A op \in Ops \cup {"Prg"} :
             SizesOf(Name(1, op), Twin(1, CalledAs(1, f), n)) = SizesOf(op, Twin(0, f, n))
    BY <2>1, <2>3 DEF Planned
  <2>5. /\ \A x \in Slots : Need(x, Requested(0, f, n)) = Filled(x, SizesOf(x[1], Twin(0, f, n)))
        /\ \A x \in Slots : Need(x, Requested(1, CalledAs(1, f), n))
                              = Filled(x, SizesOf(x[1], Twin(1, CalledAs(1, f), n)))
    BY <2>1, <2>3 DEF Planned, Covers
  <2>6. QED
    BY <1>1, <1>2, <2>4, <2>5 DEF Ranks
<1>3. CASE f \in {"SumA", "NdssDelayCheck"}
  <2>1. \A p \in Ranks : CalledAs(p, f) = f
    BY <1>3 DEF CalledAs
  <2>2. \A p \in Ranks : Twin(p, CalledAs(p, f), n) = <<>>
    BY <1>3, <2>1 DEF Twin
  <2>3. \A p \in Ranks : f # "NdssDelayCheck" => Requested(p, CalledAs(p, f), n) = <<>>
    BY <1>3, <2>1 DEF Requested
  <2>4. \A op : SizesOf(op, <<>>) = <<>>
    BY SizesOne
  <2>5. \A x : Need(x, <<>>) = 0 /\ Filled(x, <<>>) = 0
    BY NeedOne, FilledOne
  <2>6. <<>> = Renamed(<<>>) /\ <<>> \in Seq(Reqs)
    BY PlannedNone, RequestsOne DEF Planned
  <2>7. 0 \in Ranks /\ 1 \in Ranks
    BY DEF Ranks
  <2>8. QED
    BY <2>2, <2>3, <2>4, <2>5, <2>6, <2>7
<1>4. QED
  BY <1>2, <1>3

-----------------------------------------------------------------------------
\* Types.

\* The types of everything, those TypeOK leaves out included.
Types ==
  /\ program \in Seq(Operations)
  /\ phase \in [Ranks -> {"dry", "online", "done"}]
  /\ at \in [Ranks -> 0 .. Len(program)]
  /\ size \in [Ranks -> 1 .. Elements]
  /\ asked \in [Ranks -> [Ops -> Seq(Nat)]]
  /\ stock \in [Ranks -> [Slots -> Nat]]
  /\ tape \in [Ranks -> Seq(Draws)]
  /\ online \in [Ranks -> Seq(Reqs)]
  /\ ndss \in [Ranks -> Nat]
  /\ checks \in [Ranks -> Nat]

\* The types hold at the start.
LEMMA InitTypes == Init => Types
<1> SUFFICES ASSUME Init
             PROVE  Types
  OBVIOUS
<1>1. program \in Seq(Operations) /\ Elements \in 1 .. Elements
  BY DryRunsAssumption DEF Init
<1>2. Len(program) \in Nat
  BY <1>1
<1>3. /\ <<>> \in Seq(Nat) /\ <<>> \in Seq(Draws) /\ <<>> \in Seq(Reqs)
  OBVIOUS
<1>4. [op \in Ops |-> <<>>] \in [Ops -> Seq(Nat)]
  BY <1>3
<1>5. [s \in Slots |-> 0] \in [Slots -> Nat]
  OBVIOUS
<1>6. QED
  BY <1>1, <1>2, <1>3, <1>4, <1>5 DEF Init, Types

\* What rank p has.
Has(p) ==
  [stock |-> stock[p], tape |-> tape[p], online |-> online[p], ndss |-> ndss[p],
   checks |-> checks[p]]

\* What it has after a call.
After(p, f, n, has) ==
  IF f = "NdssDelayCheck" THEN NdssDelayCheck(p, has)
  ELSE CarriedOn(p, has, Requested(p, f, n))

\* What rank p calls next, as rank 0 names it.
NextCall(p) == program[at[p] + 1]

\* What rank p is about to call.
LEMMA NextCallFacts ==
  ASSUME Types, NEW p \in Ranks, at[p] < Len(program)
  PROVE  /\ NextCall(p) \in Operations /\ size[p] \in 1 .. Elements
         /\ Called(p) = CalledAs(p, NextCall(p)) /\ at[p] + 1 \in 1 .. Len(program)
         /\ Has(p) \in Holdings
<1>1. at[p] \in 0 .. Len(program) /\ Len(program) \in Nat
  BY DEF Types
<1>2. at[p] + 1 \in 1 .. Len(program)
  BY <1>1
<1>3. NextCall(p) \in Operations
  BY <1>2 DEF NextCall, Types
<1>4. Has(p) \in Holdings
  BY DEF Has, Holdings, Types
<1>5. QED
  BY <1>2, <1>3, <1>4 DEF Types, Called, CalledAs, NextCall

\* What rank p has after its call.
LEMMA AfterFacts ==
  ASSUME NEW p \in Ranks, NEW f \in Operations, NEW n \in 1 .. Elements,
         NEW has \in Holdings
  PROVE  /\ After(p, CalledAs(p, f), n, has) \in Holdings
         /\ Grown(has, After(p, CalledAs(p, f), n, has))
<1>1. CalledAs(p, f) = "NdssDelayCheck" <=> f = "NdssDelayCheck"
  BY DEF CalledAs
<1>2. CASE f = "NdssDelayCheck"
  BY <1>1, <1>2, NdssDelayCheckFacts DEF After
<1>3. CASE f # "NdssDelayCheck"
  <2>1. Requested(p, CalledAs(p, f), n) \in Seq(Reqs)
    BY <1>3, CallFacts
  <2>2. QED
    BY <1>1, <1>3, <2>1, CarriedOnType DEF After
<1>4. QED
  BY <1>2, <1>3

\* What the steps of rank p do.
LEMMA DryRunFacts ==
  ASSUME Types, NEW p \in Ranks, DryRun(p)
  PROVE  /\ phase[p] = "dry" /\ at[p] < Len(program)
         /\ at' = [at EXCEPT ![p] = at[p] + 1]
         /\ asked' = [asked EXCEPT ![p] = [op \in Ops |->
              asked[p][op] \o SizesOf(op, Twin(p, CalledAs(p, NextCall(p)), size[p]))]]
         /\ tape' = [tape EXCEPT ![p] = tape[p] \o
              AllDrawn(p, "Prg", SizesOf("Prg", Twin(p, CalledAs(p, NextCall(p)), size[p])))]
         /\ size' = [size EXCEPT ![p] = TwinReturns(NextCall(p), size[p])]
         /\ UNCHANGED <<program, phase, stock, online, ndss, checks>>
<1>1. phase[p] = "dry" /\ at[p] < Len(program)
  BY DEF DryRun, Calls
<1>2. Called(p) = CalledAs(p, NextCall(p))
  BY <1>1, NextCallFacts
<1>3. TwinReturns(CalledAs(p, NextCall(p)), size[p]) = TwinReturns(NextCall(p), size[p])
  BY DEF TwinReturns, CalledAs
<1>4. QED
  BY <1>1, <1>2, <1>3 DEF DryRun, Calls, Types

\* A call of the program proper, in terms of Has and After.
LEMMA OnlineFacts ==
  ASSUME Types, NEW p \in Ranks, Online(p)
  PROVE  /\ phase[p] = "online" /\ at[p] < Len(program)
         /\ at' = [at EXCEPT ![p] = at[p] + 1]
         /\ LET after == After(p, CalledAs(p, NextCall(p)), size[p], Has(p))
            IN /\ stock' = [stock EXCEPT ![p] = after.stock]
               /\ tape' = [tape EXCEPT ![p] = after.tape]
               /\ online' = [online EXCEPT ![p] = after.online]
               /\ ndss' = [ndss EXCEPT ![p] = after.ndss]
               /\ checks' = [checks EXCEPT ![p] = after.checks]
         /\ size' = [size EXCEPT ![p] = Returns(NextCall(p), size[p])]
         /\ UNCHANGED <<program, phase, asked>>
<1>1. phase[p] = "online" /\ at[p] < Len(program)
  BY DEF Online, Calls
<1>2. Called(p) = CalledAs(p, NextCall(p))
  BY <1>1, NextCallFacts
<1>3. Returns(CalledAs(p, NextCall(p)), size[p]) = Returns(NextCall(p), size[p])
  BY DEF Returns, CalledAs
<1>4. QED
  BY <1>1, <1>2, <1>3 DEF Online, Calls, Types, After, Has

\* What a twin counts is counted in sizes, and draws from the Prg.
LEMMA TwinTypes ==
  ASSUME NEW p \in Ranks, NEW f \in Operations, NEW n \in 1 .. Elements
  PROVE  /\ \A op : SizesOf(op, Twin(p, CalledAs(p, f), n)) \in Seq(Nat)
         /\ AllDrawn(p, "Prg", SizesOf("Prg", Twin(p, CalledAs(p, f), n))) \in Seq(Draws)
<1>1. Twin(p, CalledAs(p, f), n) \in Seq(Reqs)
  BY CallFacts
<1>2. \A op : SizesOf(op, Twin(p, CalledAs(p, f), n)) \in Seq(Nat)
  BY <1>1, SizesFacts
<1>3. "Prg" \in Drawable
  BY DEF Drawable
<1>4. QED
  BY <1>2, <1>3, AllDrawnFacts

\* What force_cache generates.
LEMMA GeneratedType ==
  ASSUME Types, NEW p \in Ranks, NEW op \in Ops
  PROVE  Generated(p, op) \in Seq(Nat)
<1>1. asked[p][op] \in Seq(Nat)
  BY DEF Types
<1>2. Filled(<<op, 0>>, asked[p][op]) \in Nat
  BY <1>1, FilledFacts
<1>3. QED
  BY <1>1, <1>2 DEF Generated

\* The order of rank 1 is that of rank 0, as it names it.
Turned(s, t) ==
  /\ s \in Seq(Ops) /\ t \in Seq(Ops) /\ Len(t) = Len(s)
  /\ \A i \in 1 .. Len(s) : t[i] = Name(1, s[i])

\* Turned orders, one after another.
LEMMA TurnedConcat ==
  ASSUME NEW s, NEW t, NEW u, NEW v, Turned(s, t), Turned(u, v)
  PROVE  Turned(s \o u, t \o v)
<1>1. /\ s \in Seq(Ops) /\ t \in Seq(Ops) /\ u \in Seq(Ops) /\ v \in Seq(Ops)
      /\ Len(t) = Len(s) /\ Len(u) = Len(v) /\ Len(s) \in Nat /\ Len(u) \in Nat
  BY DEF Turned
<1>2. /\ s \o u \in Seq(Ops) /\ t \o v \in Seq(Ops)
      /\ Len(s \o u) = Len(s) + Len(u) /\ Len(t \o v) = Len(s) + Len(u)
  <2>1. s \o u \in Seq(Ops) /\ Len(s \o u) = Len(s) + Len(u)
    BY <1>1
  <2>2. t \o v \in Seq(Ops) /\ Len(t \o v) = Len(t) + Len(v)
    BY <1>1
  <2>3. QED
    BY <1>1, <2>1, <2>2
<1>3. ASSUME NEW i \in 1 .. Len(s) + Len(u)
      PROVE  (t \o v)[i] = Name(1, (s \o u)[i])
  <2>1. CASE i <= Len(s)
    <3>1. i \in 1 .. Len(s) /\ (s \o u)[i] = s[i] /\ (t \o v)[i] = t[i]
      BY <1>1, <2>1
    <3>2. QED
      BY <3>1 DEF Turned
  <2>2. CASE i > Len(s)
    <3>1. i - Len(s) \in 1 .. Len(u)
      BY <1>1, <2>2
    <3>2. (s \o u)[i] = u[i - Len(s)] /\ (t \o v)[i] = v[i - Len(s)]
      BY <1>1, <2>2, ConcatProperties
    <3>3. QED
      BY <3>1, <3>2 DEF Turned
  <2>3. QED
    BY <1>1, <2>1, <2>2
<1>4. QED
  BY <1>2, <1>3 DEF Turned

\* force_cache lets rank 0 set where it lets rank 1 get, operation by operation.
LEMMA OrderTurned == Turned(Order(0), Order(1))
<1>1. ASSUME NEW op \in {"BeaverTriple", "NMul"}
      PROVE  Turned(<<op>>, <<op>>)
  <2>1. op \in Ops /\ Name(1, op) = op
    BY OpsAre DEF Name, Dual
  <2>2. PICK s : s = <<op>>
    OBVIOUS
  <2>3. s \in Seq(Ops) /\ Len(s) = 1 /\ s[1] = op
    BY <2>1, <2>2
  <2>4. Turned(s, s)
    BY <2>1, <2>3 DEF Turned
  <2>5. QED
    BY <2>2, <2>4
<1>2. ASSUME NEW a \in Ops, NEW b \in Ops, Name(1, a) = b, Name(1, b) = a
      PROVE  Turned(InTurn(0, a, b), InTurn(1, a, b))
  <2>1. PICK s, t : s = <<a, b>> /\ t = <<b, a>>
    OBVIOUS
  <2>2. /\ s \in Seq(Ops) /\ Len(s) = 2 /\ s[1] = a /\ s[2] = b
        /\ t \in Seq(Ops) /\ Len(t) = 2 /\ t[1] = b /\ t[2] = a
    BY <2>1
  <2>3. Turned(s, t)
    BY <1>2, <2>2 DEF Turned
  <2>4. QED
    BY <2>1, <2>3 DEF InTurn
<1>3. /\ Turned(InTurn(0, "RandomSet", "RandomGet"), InTurn(1, "RandomSet", "RandomGet"))
      /\ Turned(InTurn(0, "RandomVoleSet", "RandomVoleGet"),
                InTurn(1, "RandomVoleSet", "RandomVoleGet"))
      /\ Turned(InTurn(0, "ShuffleSet", "ShuffleGet"), InTurn(1, "ShuffleSet", "ShuffleGet"))
      /\ Turned(InTurn(0, "ASTSet", "ASTGet"), InTurn(1, "ASTSet", "ASTGet"))
      /\ Turned(InTurn(0, "DoubleASTSet", "DoubleASTGet"),
                InTurn(1, "DoubleASTSet", "DoubleASTGet"))
  <2>1. /\ Name(1, "RandomSet") = "RandomGet" /\ Name(1, "RandomGet") = "RandomSet"
        /\ Name(1, "RandomVoleSet") = "RandomVoleGet" /\ Name(1, "RandomVoleGet") = "RandomVoleSet"
        /\ Name(1, "ShuffleSet") = "ShuffleGet" /\ Name(1, "ShuffleGet") = "ShuffleSet"
        /\ Name(1, "ASTSet") = "ASTGet" /\ Name(1, "ASTGet") = "ASTSet"
        /\ Name(1, "DoubleASTSet") = "DoubleASTGet" /\ Name(1, "DoubleASTGet") = "DoubleASTSet"
    BY OpsAre DEF Name, Dual
  <2>2. QED
    BY <1>2, <2>1, OpsAre
<1>4. Turned(<<"BeaverTriple">>, <<"BeaverTriple">>) /\ Turned(<<"NMul">>, <<"NMul">>)
  BY <1>1
<1> DEFINE a0 == <<"BeaverTriple">> \o InTurn(0, "RandomSet", "RandomGet")
           a1 == <<"BeaverTriple">> \o InTurn(1, "RandomSet", "RandomGet")
           b0 == a0 \o InTurn(0, "RandomVoleSet", "RandomVoleGet")
           b1 == a1 \o InTurn(1, "RandomVoleSet", "RandomVoleGet")
           c0 == b0 \o InTurn(0, "ShuffleSet", "ShuffleGet")
           c1 == b1 \o InTurn(1, "ShuffleSet", "ShuffleGet")
           d0 == c0 \o InTurn(0, "ASTSet", "ASTGet")
           d1 == c1 \o InTurn(1, "ASTSet", "ASTGet")
           e0 == d0 \o InTurn(0, "DoubleASTSet", "DoubleASTGet")
           e1 == d1 \o InTurn(1, "DoubleASTSet", "DoubleASTGet")
<1>5. Turned(a0, a1)
  BY <1>3, <1>4, TurnedConcat
<1>6. Turned(b0, b1)
  <2> HIDE DEF a0, a1
  <2>1. QED
    BY <1>3, <1>5, TurnedConcat
<1>7. Turned(c0, c1)
  <2> HIDE DEF b0, b1
  <2>1. QED
    BY <1>3, <1>6, TurnedConcat
<1>8. Turned(d0, d1)
  <2> HIDE DEF c0, c1
  <2>1. QED
    BY <1>3, <1>7, TurnedConcat
<1>9. Turned(e0, e1)
  <2> HIDE DEF d0, d1
  <2>1. QED
    BY <1>3, <1>8, TurnedConcat
<1>10. Turned(e0 \o <<"NMul">>, e1 \o <<"NMul">>)
  <2> HIDE DEF e0, e1
  <2>1. QED
    BY <1>4, <1>9, TurnedConcat
<1>11. QED
  BY <1>10 DEF Order

\* What a force_cache draws.
Forced(p) ==
  FlattenSeq([i \in DOMAIN Order(p) |->
    AllDrawn(p, Order(p)[i], Generated(p, Order(p)[i]))])

\* What a force_cache draws is a sequence of draws.
LEMMA ForcedType ==
  ASSUME Types, NEW p \in Ranks
  PROVE  Forced(p) \in Seq(Draws)
<1>1. Order(p) \in Seq(Ops)
  BY OrderTurned DEF Turned, Ranks
<1>2. PICK s \in Seq(Ops) : s = Order(p)
  BY <1>1
<1>3. ASSUME NEW i \in DOMAIN s
      PROVE  AllDrawn(p, s[i], Generated(p, s[i])) \in Seq(Draws)
  <2>1. s[i] \in Ops /\ s[i] \in Drawable
    BY DEF Drawable
  <2>2. QED
    BY <2>1, GeneratedType, AllDrawnFacts
<1>4. [i \in DOMAIN s |-> AllDrawn(p, s[i], Generated(p, s[i]))] \in Seq(Seq(Draws))
  <2>1. DOMAIN s = 1 .. Len(s) /\ Len(s) \in Nat
    OBVIOUS
  <2>2. QED
    BY <1>3, <2>1
<1>5. QED
  BY <1>2, <1>4, FlattenFacts DEF Forced

\* What force_cache does.
LEMMA ForceCacheFacts ==
  ASSUME Types, NEW p \in Ranks, ForceCache(p)
  PROVE  /\ phase[p] = "dry" /\ at[p] = Len(program)
         /\ stock' = [stock EXCEPT ![p] = [s \in Slots |-> Filled(s, asked[p][s[1]])]]
         /\ tape' = [tape EXCEPT ![p] = tape[p] \o Forced(p)]
         /\ phase' = [phase EXCEPT ![p] = "online"]
         /\ at' = [at EXCEPT ![p] = 0]
         /\ size' = [size EXCEPT ![p] = Elements]
         /\ UNCHANGED <<program, asked, online, ndss, checks>>
  BY DEF ForceCache, Forced, Types

\* A step of rank p.
RankStep(p) == DryRun(p) \/ ForceCache(p) \/ Online(p) \/ End(p)

\* Each step keeps the types; the tape of a rank and its checks only grow.
LEMMA RankStepTypes ==
  ASSUME Types, NEW p \in Ranks, RankStep(p)
  PROVE  /\ Types'
         /\ IsPrefix(tape[p], tape'[p]) /\ checks[p] <= checks'[p]
<1>1. /\ program \in Seq(Operations) /\ Len(program) \in Nat
      /\ phase \in [Ranks -> {"dry", "online", "done"}]
      /\ at \in [Ranks -> 0 .. Len(program)] /\ size \in [Ranks -> 1 .. Elements]
      /\ asked \in [Ranks -> [Ops -> Seq(Nat)]] /\ stock \in [Ranks -> [Slots -> Nat]]
      /\ tape \in [Ranks -> Seq(Draws)] /\ online \in [Ranks -> Seq(Reqs)]
      /\ ndss \in [Ranks -> Nat] /\ checks \in [Ranks -> Nat]
  BY DEF Types
<1>2. 1 \in 1 .. Elements /\ Elements \in 1 .. Elements
  BY DryRunsAssumption
<1>3. IsPrefix(tape[p], tape[p])
  BY <1>1, PrefixReflexive
<1>4. CASE DryRun(p)
  <2>1. PICK new, draws :
          /\ new = [op \in Ops |-> asked[p][op] \o
                     SizesOf(op, Twin(p, CalledAs(p, NextCall(p)), size[p]))]
          /\ draws = AllDrawn(p, "Prg",
                       SizesOf("Prg", Twin(p, CalledAs(p, NextCall(p)), size[p])))
    OBVIOUS
  <2>2. /\ at[p] < Len(program) /\ at' = [at EXCEPT ![p] = at[p] + 1]
        /\ asked' = [asked EXCEPT ![p] = new]
        /\ tape' = [tape EXCEPT ![p] = tape[p] \o draws]
        /\ size' = [size EXCEPT ![p] = TwinReturns(NextCall(p), size[p])]
        /\ UNCHANGED <<program, phase, stock, online, ndss, checks>>
    BY <1>4, <2>1, DryRunFacts
  <2>3. NextCall(p) \in Operations /\ size[p] \in 1 .. Elements
    BY <2>2, NextCallFacts
  <2>4. \A op : SizesOf(op, Twin(p, CalledAs(p, NextCall(p)), size[p])) \in Seq(Nat)
    BY <2>3, TwinTypes
  <2>5. draws \in Seq(Draws)
    BY <2>1, <2>3, TwinTypes
  <2>6. new \in [Ops -> Seq(Nat)]
    BY <1>1, <2>1, <2>4
  <2>7. tape[p] \o draws \in Seq(Draws) /\ IsPrefix(tape[p], tape[p] \o draws)
    BY <1>1, <2>5, PrefixConcat
  <2>8. TwinReturns(NextCall(p), size[p]) \in 1 .. Elements
    BY <1>1, <1>2 DEF TwinReturns
  <2>9. at[p] + 1 \in 0 .. Len(program)
    BY <1>1, <2>2
  <2>10. /\ at' \in [Ranks -> 0 .. Len(program)]
         /\ asked' \in [Ranks -> [Ops -> Seq(Nat)]]
         /\ tape' \in [Ranks -> Seq(Draws)] /\ tape'[p] = tape[p] \o draws
         /\ size' \in [Ranks -> 1 .. Elements]
    BY <1>1, <2>2, <2>6, <2>7, <2>8, <2>9
  <2>11. Types'
    BY <1>1, <2>2, <2>10 DEF Types
  <2>12. checks'[p] = checks[p] /\ checks[p] \in Nat
    BY <1>1, <2>2
  <2>13. QED
    BY <2>7, <2>10, <2>11, <2>12
<1>5. CASE ForceCache(p)
  <2>1. PICK full, draws : full = [s \in Slots |-> Filled(s, asked[p][s[1]])] /\ draws = Forced(p)
    OBVIOUS
  <2>2. /\ stock' = [stock EXCEPT ![p] = full]
        /\ tape' = [tape EXCEPT ![p] = tape[p] \o draws]
        /\ phase' = [phase EXCEPT ![p] = "online"]
        /\ at' = [at EXCEPT ![p] = 0]
        /\ size' = [size EXCEPT ![p] = Elements]
        /\ UNCHANGED <<program, asked, online, ndss, checks>>
    BY <1>5, <2>1, ForceCacheFacts
  <2>3. full \in [Slots -> Nat]
    <3>1. ASSUME NEW s \in Slots
          PROVE  Filled(s, asked[p][s[1]]) \in Nat
      <4>1. s[1] \in Ops
        BY SlotOps
      <4>2. asked[p][s[1]] \in Seq(Nat)
        BY <1>1, <4>1
      <4>3. QED
        BY <4>2, FilledFacts
    <3>2. QED
      BY <2>1, <3>1
  <2>4. draws \in Seq(Draws)
    BY <2>1, ForcedType
  <2>5. tape[p] \o draws \in Seq(Draws) /\ IsPrefix(tape[p], tape[p] \o draws)
    BY <1>1, <2>4, PrefixConcat
  <2>6. 0 \in 0 .. Len(program)
    BY <1>1
  <2>7. /\ stock' \in [Ranks -> [Slots -> Nat]]
        /\ tape' \in [Ranks -> Seq(Draws)] /\ tape'[p] = tape[p] \o draws
        /\ phase' \in [Ranks -> {"dry", "online", "done"}]
        /\ at' \in [Ranks -> 0 .. Len(program)]
        /\ size' \in [Ranks -> 1 .. Elements]
    BY <1>1, <1>2, <2>2, <2>3, <2>5, <2>6
  <2>8. Types'
    BY <1>1, <2>2, <2>7 DEF Types
  <2>9. QED
    BY <1>1, <2>2, <2>5, <2>7, <2>8
<1>6. CASE Online(p)
  <2>1. PICK after : after = After(p, CalledAs(p, NextCall(p)), size[p], Has(p))
    OBVIOUS
  <2>2. /\ at[p] < Len(program) /\ at' = [at EXCEPT ![p] = at[p] + 1]
        /\ stock' = [stock EXCEPT ![p] = after.stock]
        /\ tape' = [tape EXCEPT ![p] = after.tape]
        /\ online' = [online EXCEPT ![p] = after.online]
        /\ ndss' = [ndss EXCEPT ![p] = after.ndss]
        /\ checks' = [checks EXCEPT ![p] = after.checks]
        /\ size' = [size EXCEPT ![p] = Returns(NextCall(p), size[p])]
        /\ UNCHANGED <<program, phase, asked>>
    BY <1>6, <2>1, OnlineFacts
  <2>3. NextCall(p) \in Operations /\ size[p] \in 1 .. Elements /\ Has(p) \in Holdings
    BY <2>2, NextCallFacts
  <2>4. after \in Holdings /\ Grown(Has(p), after)
    BY <2>1, <2>3, AfterFacts
  <2>5. /\ after.stock \in [Slots -> Nat] /\ after.tape \in Seq(Draws)
        /\ after.online \in Seq(Reqs) /\ after.ndss \in Nat /\ after.checks \in Nat
    BY <2>4 DEF Holdings
  <2>6. IsPrefix(tape[p], after.tape) /\ checks[p] <= after.checks
    BY <2>4 DEF Grown, Has
  <2>7. Returns(NextCall(p), size[p]) \in 1 .. Elements /\ at[p] + 1 \in 0 .. Len(program)
    BY <1>1, <1>2, <2>2 DEF Returns
  <2>8. /\ stock' \in [Ranks -> [Slots -> Nat]]
        /\ tape' \in [Ranks -> Seq(Draws)] /\ tape'[p] = after.tape
        /\ online' \in [Ranks -> Seq(Reqs)] /\ ndss' \in [Ranks -> Nat]
        /\ checks' \in [Ranks -> Nat] /\ checks'[p] = after.checks
        /\ at' \in [Ranks -> 0 .. Len(program)] /\ size' \in [Ranks -> 1 .. Elements]
    BY <1>1, <2>2, <2>5, <2>7
  <2>9. Types'
    BY <1>1, <2>2, <2>8 DEF Types
  <2>10. QED
    BY <2>6, <2>8, <2>9
<1>7. CASE End(p)
  <2>1. /\ phase' = [phase EXCEPT ![p] = "done"]
        /\ UNCHANGED <<program, at, size, asked, stock, tape, online, ndss, checks>>
    BY <1>7 DEF End
  <2>2. phase' \in [Ranks -> {"dry", "online", "done"}]
    BY <1>1, <2>1
  <2>3. QED
    BY <1>1, <1>3, <2>1, <2>2 DEF Types
<1>8. QED
  BY <1>4, <1>5, <1>6, <1>7 DEF RankStep

\* The types of everything always hold.
LEMMA AlwaysTypes == Spec => []Types
<1>1. Types /\ [Next]_vars => Types'
  <2> SUFFICES ASSUME Types, [Next]_vars
               PROVE  Types'
    OBVIOUS
  <2>1. CASE UNCHANGED vars
    BY <2>1 DEF vars, Types
  <2>2. ASSUME NEW p \in Ranks, RankStep(p)
        PROVE  Types'
    BY <2>2, RankStepTypes
  <2>3. (\E p \in Ranks : RankStep(p)) \/ UNCHANGED vars
    BY DEF Next, RankStep
  <2>4. QED
    BY <2>1, <2>2, <2>3
<1>2. QED
  BY <1>1, InitTypes, PTL DEF Spec

\* The type invariant: sizes, positions and stocks stay in range, through the
\* dry run, force_cache and the program, for every set of programs.
THEOREM TypesHold == Spec => []TypeOK
<1>1. Types => TypeOK
  BY DEF Types, TypeOK
<1>2. QED
  BY <1>1, AlwaysTypes, PTL

-----------------------------------------------------------------------------
\* The ranks go the same way.

\* What rank 1 has, as rank 0 names it.
Seen(h) ==
  [stock |-> [s \in Slots |-> h.stock[<<Name(1, s[1]), s[2]>>]], tape |-> h.tape,
   online |-> Renamed(h.online), ndss |-> h.ndss, checks |-> h.checks]

\* A rank, as rank 0 names what it has.
View(p) ==
  [phase |-> phase[p], at |-> at[p], size |-> size[p],
   asked |-> [op \in Ops |-> asked[p][Name(p, op)]],
   has |-> IF p = 0 THEN Has(0) ELSE Seen(Has(p))]

\* The same but for the cache and the tape.
With(h, s, t) ==
  [stock |-> s, tape |-> t, online |-> h.online, ndss |-> h.ndss, checks |-> h.checks]

\* The operations of force_cache, out of what has been asked.
GeneratedOf(requested, op) ==
  IF op \in Counted THEN <<Filled(<<op, 0>>, requested[op])>> ELSE requested[op]
ForcedOf(requested) ==
  FlattenSeq([i \in DOMAIN Order(0) |->
    AllDrawn(0, Order(0)[i], GeneratedOf(requested, Order(0)[i]))])

\* Where a step of its rank takes it.
NextView(v, pr) ==
  LET f == pr[v.at + 1]
      counted == Twin(0, f, v.size)
  IN CASE v.phase = "dry" /\ v.at < Len(pr) ->
            [phase |-> "dry", at |-> v.at + 1, size |-> TwinReturns(f, v.size),
             asked |-> [op \in Ops |-> v.asked[op] \o SizesOf(op, counted)],
             has |-> With(v.has, v.has.stock,
               v.has.tape \o AllDrawn(0, "Prg", SizesOf("Prg", counted)))]
       [] v.phase = "dry" /\ ~ (v.at < Len(pr)) ->
            [phase |-> "online", at |-> 0, size |-> Elements, asked |-> v.asked,
             has |-> With(v.has, [s \in Slots |-> Filled(s, v.asked[s[1]])],
               v.has.tape \o ForcedOf(v.asked))]
       [] v.phase = "online" /\ v.at < Len(pr) ->
            [phase |-> "online", at |-> v.at + 1, size |-> Returns(f, v.size),
             asked |-> v.asked, has |-> After(0, f, v.size, v.has)]
       [] OTHER -> [v EXCEPT !.phase = "done"]

\* What both name the same.
LEMMA AlikeSeen ==
  /\ \A h \in Holdings : Seen(h) \in Holdings /\ Alike(h, Seen(h))
  /\ \A h, k \in Holdings : Alike(h, k) => k = Seen(h)
<1>1. ASSUME NEW h \in Holdings
      PROVE  Seen(h) \in Holdings /\ Alike(h, Seen(h))
  <2>1. h.stock \in [Slots -> Nat] /\ h.online \in Seq(Reqs)
    BY DEF Holdings
  <2>2. Renamed(h.online) \in Seq(Reqs)
    BY <2>1, RenamedFacts
  <2>3. PICK m, o : /\ m = [s \in Slots |-> h.stock[<<Name(1, s[1]), s[2]>>]]
                    /\ o = Renamed(h.online)
    OBVIOUS
  <2>4. m \in [Slots -> Nat]
    BY <2>1, <2>3, SlotNamed
  <2>5. Seen(h) = [stock |-> m, tape |-> h.tape, online |-> o, ndss |-> h.ndss,
                   checks |-> h.checks]
    BY <2>3 DEF Seen
  <2>6. QED
    BY <2>2, <2>3, <2>4, <2>5 DEF Holdings, Alike
<1>2. ASSUME NEW h \in Holdings, NEW k \in Holdings, Alike(h, k)
      PROVE  k = Seen(h)
  <2>1. k = [stock |-> k.stock, tape |-> k.tape, online |-> k.online, ndss |-> k.ndss,
             checks |-> k.checks]
    BY DEF Holdings
  <2>2. QED
    BY <1>2, <2>1 DEF Alike, Seen
<1>3. QED
  BY <1>1, <1>2

\* A call of rank 1 does to what rank 0 sees what rank 0's call does.
LEMMA AfterAlike ==
  ASSUME NEW f \in Operations, NEW n \in 1 .. Elements, NEW h \in Holdings
  PROVE  Seen(After(1, CalledAs(1, f), n, h)) = After(0, f, n, Seen(h))
<1>1. Seen(h) \in Holdings /\ Alike(h, Seen(h)) /\ 0 \in Ranks /\ 1 \in Ranks
      /\ CalledAs(0, f) = f /\ (CalledAs(1, f) = "NdssDelayCheck" <=> f = "NdssDelayCheck")
  BY AlikeSeen DEF Ranks, CalledAs
<1>2. /\ After(1, CalledAs(1, f), n, h) \in Holdings
      /\ After(0, f, n, Seen(h)) \in Holdings
  <2>1. After(0, CalledAs(0, f), n, Seen(h)) \in Holdings
    BY <1>1, AfterFacts
  <2>2. QED
    BY <1>1, <2>1, AfterFacts
<1>3. Alike(After(1, CalledAs(1, f), n, h), After(0, f, n, Seen(h)))
  <2>1. CASE f = "NdssDelayCheck"
    BY <1>1, <2>1, NdssDelayCheckAlike DEF After
  <2>2. CASE f # "NdssDelayCheck"
    <3>1. /\ Requested(0, f, n) \in Seq(Reqs)
          /\ Requested(1, CalledAs(1, f), n) = Renamed(Requested(0, f, n))
      <4>1. /\ Requested(0, CalledAs(0, f), n) \in Seq(Reqs)
            /\ Requested(1, CalledAs(1, f), n) = Renamed(Requested(0, CalledAs(0, f), n))
        BY <1>1, <2>2, CallFacts
      <4>2. QED
        BY <1>1, <4>1
    <3>2. Alike(CarriedOn(1, h, Requested(1, CalledAs(1, f), n)),
                CarriedOn(0, Seen(h), Requested(0, f, n)))
      BY <1>1, <3>1, CarriedOnAlike
    <3>3. QED
      BY <1>1, <2>2, <3>2 DEF After
  <2>3. QED
    BY <2>1, <2>2
<1>4. QED
  BY <1>2, <1>3, AlikeSeen

\* What the cache is filled with at rank 1.
LEMMA FilledNamed ==
  ASSUME NEW s \in Slots, NEW sizes
  PROVE  Filled(<<Name(1, s[1]), s[2]>>, sizes) = Filled(s, sizes)
<1>1. s = <<s[1], s[2]>> /\ (Name(1, s[1]) \in Counted <=> s[1] \in Counted)
  BY NameFacts DEF Slots, Ranks
<1>2. PICK x : x = <<Name(1, s[1]), s[2]>>
  OBVIOUS
<1>3. x[1] = Name(1, s[1]) /\ x[2] = s[2] /\ x = <<x[1], x[2]>>
  BY <1>2
<1>4. \A n : /\ Slot(x[1], n) = x <=> Slot(s[1], n) = s
             /\ Units(x[1], n) = Units(s[1], n)
  <2> SUFFICES ASSUME NEW n
               PROVE  /\ Slot(x[1], n) = x <=> Slot(s[1], n) = s
                      /\ Units(x[1], n) = Units(s[1], n)
    OBVIOUS
  <2>1. Slot(x[1], n) = x <=> x[2] = IF x[1] \in Counted THEN 0 ELSE n
    BY <1>3 DEF Slot
  <2>2. Slot(s[1], n) = s <=> s[2] = IF s[1] \in Counted THEN 0 ELSE n
    BY <1>1 DEF Slot
  <2>3. QED
    BY <1>1, <1>3, <2>1, <2>2 DEF Units
<1>5. [i \in DOMAIN sizes |-> IF Slot(x[1], sizes[i]) = x THEN Units(x[1], sizes[i]) ELSE 0]
        = [i \in DOMAIN sizes |-> IF Slot(s[1], sizes[i]) = s THEN Units(s[1], sizes[i]) ELSE 0]
  BY <1>4
<1>6. Filled(x, sizes) = Filled(s, sizes)
  BY <1>5 DEF Filled
<1>7. QED
  BY <1>2, <1>6

\* What a force_cache draws follows from what rank 0 sees as asked for.
LEMMA ForcedSeen ==
  ASSUME Types, NEW p \in Ranks
  PROVE  Forced(p) = ForcedOf([op \in Ops |-> asked[p][Name(p, op)]])
<1> DEFINE requested == [op \in Ops |-> asked[p][Name(p, op)]]
<1>1. ASSUME NEW op \in Ops
      PROVE  AllDrawn(p, Name(p, op), Generated(p, Name(p, op)))
               = AllDrawn(0, op, GeneratedOf(requested, op))
  <2>1. Name(p, op) \in Ops /\ (Name(p, op) \in Counted <=> op \in Counted) /\ op \in Drawable
    BY NameFacts DEF Drawable
  <2>2. Generated(p, Name(p, op)) = GeneratedOf(requested, op)
    <3>1. op \in Counted => Filled(<<Name(p, op), 0>>, asked[p][Name(p, op)])
                              = Filled(<<op, 0>>, requested[op])
      <4>1. CASE p = 0
        BY <4>1 DEF Name
      <4>2. CASE p = 1 /\ op \in Counted
        <5>1. PICK s \in Slots : s = <<op, 0>>
          BY <4>2 DEF Slots
        <5>2. Filled(<<Name(1, s[1]), s[2]>>, asked[p][Name(p, op)])
                = Filled(s, asked[p][Name(p, op)])
          BY FilledNamed
        <5>3. QED
          BY <4>2, <5>1, <5>2
      <4>3. QED
        BY <4>1, <4>2 DEF Ranks
    <3>2. QED
      BY <2>1, <3>1 DEF Generated, GeneratedOf
  <2>3. Generated(p, Name(p, op)) \in Seq(Nat)
    BY <2>1, GeneratedType
  <2>4. QED
    BY <2>1, <2>2, <2>3, AllDrawnFacts
<1> HIDE DEF requested
<1>2. /\ Order(0) \in Seq(Ops) /\ Order(p) \in Seq(Ops) /\ Len(Order(p)) = Len(Order(0))
      /\ \A i \in 1 .. Len(Order(0)) : Order(p)[i] = Name(p, Order(0)[i])
  <2>1. CASE p = 0
    BY <2>1, OrderTurned, NameFacts DEF Turned, Ranks
  <2>2. CASE p = 1
    BY <2>2, OrderTurned DEF Turned
  <2>3. QED
    BY <2>1, <2>2 DEF Ranks
<1>3. PICK s \in Seq(Ops), t \in Seq(Ops) : s = Order(0) /\ t = Order(p)
  BY <1>2
<1>4. DOMAIN s = DOMAIN t /\ \A i \in DOMAIN s : s[i] \in Ops /\ t[i] = Name(p, s[i])
  BY <1>2, <1>3
<1>5. [i \in DOMAIN t |-> AllDrawn(p, t[i], Generated(p, t[i]))]
        = [i \in DOMAIN s |-> AllDrawn(0, s[i], GeneratedOf(requested, s[i]))]
  BY <1>1, <1>4
<1>6. Forced(p) = ForcedOf(requested)
  BY <1>3, <1>5 DEF Forced, ForcedOf
<1>7. QED
  BY <1>6 DEF requested

\* The fields of a view.
LEMMA ViewFields ==
  ASSUME Types, NEW p \in Ranks
  PROVE  /\ View(p).phase = phase[p] /\ View(p).at = at[p] /\ View(p).size = size[p]
         /\ View(p).asked = [op \in Ops |-> asked[p][Name(p, op)]]
         /\ View(p).has = IF p = 0 THEN Has(p) ELSE Seen(Has(p))
         /\ View(p).has.tape = tape[p]
         /\ View(p).has.stock \in [Slots -> Nat]
         /\ View(p).has = [stock |-> View(p).has.stock, tape |-> tape[p],
                           online |-> View(p).has.online, ndss |-> ndss[p],
                           checks |-> checks[p]]
<1>1. Has(p) \in Holdings
  BY DEF Has, Holdings, Types
<1>2. Seen(Has(p)) \in Holdings
  BY <1>1, AlikeSeen
<1>3. p = 0 \/ p = 1
  BY DEF Ranks
<1>4. /\ View(p).phase = phase[p] /\ View(p).at = at[p] /\ View(p).size = size[p]
      /\ View(p).asked = [op \in Ops |-> asked[p][Name(p, op)]]
      /\ View(p).has = IF p = 0 THEN Has(p) ELSE Seen(Has(p))
  BY <1>3 DEF View
<1>5. PICK h \in Holdings : h = View(p).has
  BY <1>1, <1>2, <1>4
<1>6. h.tape = tape[p] /\ h.ndss = ndss[p] /\ h.checks = checks[p]
  BY <1>4, <1>5 DEF Seen, Has
<1>7. /\ h.stock \in [Slots -> Nat]
      /\ h = [stock |-> h.stock, tape |-> h.tape, online |-> h.online, ndss |-> h.ndss,
              checks |-> h.checks]
  BY DEF Holdings
<1>8. QED
  BY <1>4, <1>5, <1>6, <1>7

\* A call of a twin takes the view of its rank on.
LEMMA DryRunView ==
  ASSUME Types, Types', NEW p \in Ranks, DryRun(p)
  PROVE  View(p)' = NextView(View(p), program)
<1> DEFINE f == NextCall(p)
           mine == Twin(p, CalledAs(p, f), size[p])
           first == Twin(0, f, size[p])
<1>1. /\ phase[p] = "dry" /\ at[p] < Len(program)
      /\ at' = [at EXCEPT ![p] = at[p] + 1]
      /\ asked' = [asked EXCEPT ![p] = [op \in Ops |-> asked[p][op] \o SizesOf(op, mine)]]
      /\ tape' = [tape EXCEPT ![p] = tape[p] \o AllDrawn(p, "Prg", SizesOf("Prg", mine))]
      /\ size' = [size EXCEPT ![p] = TwinReturns(f, size[p])]
      /\ UNCHANGED <<program, phase, stock, online, ndss, checks>>
  BY DryRunFacts
<1>2. f \in Operations /\ size[p] \in 1 .. Elements
  BY <1>1, NextCallFacts
<1>3. \A op \in Ops \cup {"Prg"} : SizesOf(Name(p, op), mine) = SizesOf(op, first)
  <2>1. CalledAs(0, f) = f
    BY DEF CalledAs
  <2>2. CASE p = 0
    BY <2>1, <2>2 DEF Name
  <2>3. CASE p = 1
    <3>1. \A op \in Ops \cup {"Prg"} :
            SizesOf(Name(1, op), Twin(1, CalledAs(1, f), size[p]))
              = SizesOf(op, Twin(0, CalledAs(0, f), size[p]))
      BY <1>2, CallFacts
    <3>2. QED
      BY <2>1, <2>3, <3>1
  <2>4. QED
    BY <2>2, <2>3 DEF Ranks
<1>4. /\ SizesOf("Prg", mine) = SizesOf("Prg", first) /\ SizesOf("Prg", mine) \in Seq(Nat)
      /\ Name(p, "Prg") = "Prg" /\ "Prg" \in Drawable
  <2>1. Name(p, "Prg") = "Prg" /\ "Prg" \in Drawable
    BY NameFacts DEF Drawable
  <2>2. SizesOf("Prg", mine) \in Seq(Nat)
    BY <1>2, TwinTypes
  <2>3. QED
    BY <1>3, <2>1, <2>2
<1>5. AllDrawn(p, "Prg", SizesOf("Prg", mine)) = AllDrawn(0, "Prg", SizesOf("Prg", first))
  <2>1. AllDrawn(p, Name(p, "Prg"), SizesOf("Prg", mine)) = AllDrawn(0, "Prg", SizesOf("Prg", mine))
    BY <1>4, AllDrawnFacts
  <2>2. QED
    BY <1>4, <2>1
<1> HIDE DEF mine
<1>6. \A op \in Ops : Name(p, op) \in Ops /\ asked'[p][Name(p, op)]
                        = asked[p][Name(p, op)] \o SizesOf(op, first)
  <2> SUFFICES ASSUME NEW op \in Ops
               PROVE  Name(p, op) \in Ops /\ asked'[p][Name(p, op)]
                        = asked[p][Name(p, op)] \o SizesOf(op, first)
    OBVIOUS
  <2>1. Name(p, op) \in Ops
    BY NameFacts
  <2>2. asked'[p] = [o \in Ops |-> asked[p][o] \o SizesOf(o, mine)]
    BY <1>1 DEF Types
  <2>3. SizesOf(Name(p, op), mine) = SizesOf(op, first)
    BY <1>3
  <2>4. QED
    BY <2>1, <2>2, <2>3
<1>7. PICK draws : draws = AllDrawn(0, "Prg", SizesOf("Prg", first))
  OBVIOUS
<1>8. tape'[p] = tape[p] \o draws
  BY <1>1, <1>5, <1>7 DEF Types
<1>9. PICK new : new = [op \in Ops |-> asked[p][Name(p, op)] \o SizesOf(op, first)]
  OBVIOUS
<1>10. View(p).asked' = new
  <2>1. View(p).asked' = [op \in Ops |-> asked'[p][Name(p, op)]]
    BY DEF View
  <2>2. QED
    BY <1>6, <1>9, <2>1
<1>11. Has(p)' = [stock |-> stock[p], tape |-> tape[p] \o draws, online |-> online[p],
                  ndss |-> ndss[p], checks |-> checks[p]]
  BY <1>1, <1>8 DEF Has, Types
<1>12. View(p).has' = With(View(p).has, View(p).has.stock, tape[p] \o draws)
  <2>1. CASE p = 0
    <3>1. Has(p)' = With(Has(p), Has(p).stock, tape[p] \o draws)
      BY <1>11 DEF Has, With
    <3>2. QED
      BY <2>1, <3>1 DEF View
  <2>2. CASE p = 1
    <3>1. Seen(Has(p))' = [stock |-> [s \in Slots |-> stock[p][<<Name(1, s[1]), s[2]>>]],
                           tape |-> tape[p] \o draws, online |-> Renamed(online[p]),
                           ndss |-> ndss[p], checks |-> checks[p]]
      BY <1>11 DEF Seen
    <3>2. Seen(Has(p)) = [stock |-> [s \in Slots |-> stock[p][<<Name(1, s[1]), s[2]>>]],
                          tape |-> tape[p], online |-> Renamed(online[p]),
                          ndss |-> ndss[p], checks |-> checks[p]]
      BY DEF Seen, Has
    <3>3. Seen(Has(p))' = With(Seen(Has(p)), Seen(Has(p)).stock, tape[p] \o draws)
      BY <3>1, <3>2 DEF With
    <3>4. QED
      BY <2>2, <3>3 DEF View
  <2>3. QED
    BY <2>1, <2>2 DEF Ranks
<1>13. View(p)' = [phase |-> "dry", at |-> at[p] + 1, size |-> TwinReturns(f, size[p]),
                   asked |-> new, has |-> With(View(p).has, View(p).has.stock, tape[p] \o draws)]
  <2>1. phase'[p] = "dry" /\ at'[p] = at[p] + 1 /\ size'[p] = TwinReturns(f, size[p])
    BY <1>1 DEF Types
  <2>2. View(p)' = [phase |-> phase'[p], at |-> at'[p], size |-> size'[p],
                    asked |-> View(p).asked', has |-> View(p).has']
    BY DEF View
  <2>3. QED
    BY <1>10, <1>12, <2>1, <2>2
<1>14. NextView(View(p), program)
         = [phase |-> "dry", at |-> at[p] + 1, size |-> TwinReturns(f, size[p]),
            asked |-> [op \in Ops |-> View(p).asked[op] \o SizesOf(op, first)],
            has |-> With(View(p).has, View(p).has.stock, View(p).has.tape \o draws)]
  <2>1. View(p).phase = "dry" /\ View(p).at = at[p] /\ View(p).size = size[p]
    BY <1>1, ViewFields
  <2>2. program[View(p).at + 1] = f
    BY <2>1 DEF NextCall
  <2>3. QED
    BY <1>1, <1>7, <2>1, <2>2 DEF NextView
<1>15. /\ View(p).has.tape = tape[p]
       /\ \A op \in Ops : View(p).asked[op] = asked[p][Name(p, op)]
  <2>1. View(p).has.tape = tape[p]
    BY ViewFields
  <2>2. View(p).asked = [op \in Ops |-> asked[p][Name(p, op)]]
    BY ViewFields
  <2>3. QED
    BY <2>1, <2>2
<1>16. [op \in Ops |-> View(p).asked[op] \o SizesOf(op, first)] = new
  BY <1>9, <1>15
<1>17. QED
  BY <1>13, <1>14, <1>15, <1>16

\* force_cache takes the view of its rank on.
LEMMA ForceCacheView ==
  ASSUME Types, Types', NEW p \in Ranks, ForceCache(p)
  PROVE  View(p)' = NextView(View(p), program)
<1>1. /\ phase[p] = "dry" /\ at[p] = Len(program)
      /\ stock' = [stock EXCEPT ![p] = [s \in Slots |-> Filled(s, asked[p][s[1]])]]
      /\ tape' = [tape EXCEPT ![p] = tape[p] \o Forced(p)]
      /\ phase' = [phase EXCEPT ![p] = "online"]
      /\ at' = [at EXCEPT ![p] = 0]
      /\ size' = [size EXCEPT ![p] = Elements]
      /\ UNCHANGED <<program, asked, online, ndss, checks>>
  BY ForceCacheFacts
<1>2. PICK requested : requested = [op \in Ops |-> asked[p][Name(p, op)]]
  OBVIOUS
<1>3. PICK draws : draws = ForcedOf(requested)
  OBVIOUS
<1>4. tape'[p] = tape[p] \o draws
  BY <1>1, <1>2, <1>3, ForcedSeen DEF Types
<1>5. PICK full : full = [s \in Slots |-> Filled(s, requested[s[1]])]
  OBVIOUS
<1>6. View(p).has' = With(View(p).has, full, tape[p] \o draws)
  <2>1. stock'[p] = [s \in Slots |-> Filled(s, asked[p][s[1]])]
    BY <1>1 DEF Types
  <2>2. CASE p = 0
    <3>1. \A s \in Slots : s[1] \in Ops
      BY SlotOps
    <3>2. stock'[p] = full
      BY <1>2, <1>5, <2>1, <2>2, <3>1, NameFacts
    <3>3. Has(p)' = [stock |-> full, tape |-> tape[p] \o draws, online |-> online[p],
                     ndss |-> ndss[p], checks |-> checks[p]]
      BY <1>1, <1>4, <3>2 DEF Has, Types
    <3>4. Has(p)' = With(Has(p), full, tape[p] \o draws)
      BY <3>3 DEF Has, With
    <3>5. QED
      BY <2>2, <3>4 DEF View
  <2>3. CASE p = 1
    <3>1. ASSUME NEW s \in Slots
          PROVE  stock'[p][<<Name(1, s[1]), s[2]>>] = Filled(s, requested[s[1]])
      <4>1. PICK x \in Slots : x = <<Name(1, s[1]), s[2]>>
        BY SlotNamed
      <4>2. stock'[p][x] = Filled(x, asked[p][x[1]])
        BY <2>1
      <4>3. s[1] \in Ops
        BY SlotOps
      <4>4. asked[p][x[1]] = requested[s[1]]
        BY <1>2, <2>3, <4>1, <4>3
      <4>5. Filled(<<Name(1, s[1]), s[2]>>, requested[s[1]]) = Filled(s, requested[s[1]])
        BY FilledNamed
      <4>6. QED
        BY <4>1, <4>2, <4>4, <4>5
    <3>2. [s \in Slots |-> stock'[p][<<Name(1, s[1]), s[2]>>]] = full
      BY <1>5, <3>1
    <3>3. Has(p)' = [stock |-> stock'[p], tape |-> tape[p] \o draws, online |-> online[p],
                     ndss |-> ndss[p], checks |-> checks[p]]
      BY <1>1, <1>4 DEF Has, Types
    <3>4. Seen(Has(p))' = [stock |-> full, tape |-> tape[p] \o draws,
                           online |-> Renamed(online[p]), ndss |-> ndss[p], checks |-> checks[p]]
      <4>1. Seen(Has(p))' = [stock |-> [s \in Slots |-> Has(p)'.stock[<<Name(1, s[1]), s[2]>>]],
                             tape |-> Has(p)'.tape, online |-> Renamed(Has(p)'.online),
                             ndss |-> Has(p)'.ndss, checks |-> Has(p)'.checks]
        BY DEF Seen
      <4>2. /\ Has(p)'.stock = stock'[p] /\ Has(p)'.tape = tape[p] \o draws
            /\ Has(p)'.online = online[p] /\ Has(p)'.ndss = ndss[p]
            /\ Has(p)'.checks = checks[p]
        BY <3>3
      <4>3. QED
        BY <3>2, <4>1, <4>2
    <3>5. Seen(Has(p)) = [stock |-> [s \in Slots |-> stock[p][<<Name(1, s[1]), s[2]>>]],
                          tape |-> tape[p], online |-> Renamed(online[p]),
                          ndss |-> ndss[p], checks |-> checks[p]]
      BY DEF Seen, Has
    <3>6. Seen(Has(p))' = With(Seen(Has(p)), full, tape[p] \o draws)
      BY <3>4, <3>5 DEF With
    <3>7. QED
      BY <2>3, <3>6 DEF View
  <2>4. QED
    BY <2>2, <2>3 DEF Ranks
<1>7. View(p)' = [phase |-> "online", at |-> 0, size |-> Elements, asked |-> requested,
                  has |-> With(View(p).has, full, tape[p] \o draws)]
  <2>1. phase'[p] = "online" /\ at'[p] = 0 /\ size'[p] = Elements /\ asked' = asked
    BY <1>1 DEF Types
  <2>2. View(p)' = [phase |-> phase'[p], at |-> at'[p], size |-> size'[p],
                    asked |-> [op \in Ops |-> asked'[p][Name(p, op)]], has |-> View(p).has']
    BY DEF View
  <2>3. QED
    BY <1>2, <1>6, <2>1, <2>2
<1>8. /\ View(p).phase = "dry" /\ View(p).at = at[p] /\ View(p).asked = requested
      /\ View(p).has.tape = tape[p] /\ at[p] \in Nat
  <2>1. at[p] \in Nat
    BY DEF Types
  <2>2. QED
    BY <1>1, <1>2, <2>1, ViewFields
<1>9. NextView(View(p), program)
        = [phase |-> "online", at |-> 0, size |-> Elements, asked |-> requested,
           has |-> With(View(p).has, full, tape[p] \o draws)]
  <2>1. ~ (View(p).at < Len(program))
    BY <1>1, <1>8
  <2>2. QED
    BY <1>3, <1>5, <1>8, <2>1 DEF NextView
<1>10. QED
  BY <1>7, <1>9

\* A call of the program takes the view of its rank on.
LEMMA OnlineView ==
  ASSUME Types, Types', NEW p \in Ranks, Online(p)
  PROVE  View(p)' = NextView(View(p), program)
<1>1. PICK after : after = After(p, CalledAs(p, NextCall(p)), size[p], Has(p))
  OBVIOUS
<1>2. /\ phase[p] = "online" /\ at[p] < Len(program)
      /\ at' = [at EXCEPT ![p] = at[p] + 1]
      /\ stock' = [stock EXCEPT ![p] = after.stock]
      /\ tape' = [tape EXCEPT ![p] = after.tape]
      /\ online' = [online EXCEPT ![p] = after.online]
      /\ ndss' = [ndss EXCEPT ![p] = after.ndss]
      /\ checks' = [checks EXCEPT ![p] = after.checks]
      /\ size' = [size EXCEPT ![p] = Returns(NextCall(p), size[p])]
      /\ UNCHANGED <<program, phase, asked>>
  BY <1>1, OnlineFacts
<1>3. NextCall(p) \in Operations /\ size[p] \in 1 .. Elements /\ Has(p) \in Holdings
  BY <1>2, NextCallFacts
<1>4. after \in Holdings
  BY <1>1, <1>3, AfterFacts
<1>5. Has(p)' = after
  <2>1. after = [stock |-> after.stock, tape |-> after.tape, online |-> after.online,
                 ndss |-> after.ndss, checks |-> after.checks]
    BY <1>4 DEF Holdings
  <2>2. QED
    BY <1>2, <2>1 DEF Has, Types
<1>6. View(p).has' = After(0, NextCall(p), size[p], View(p).has)
  <2>1. CASE p = 0
    BY <1>1, <1>5, <2>1 DEF View, CalledAs
  <2>2. CASE p = 1
    <3>1. View(p).has' = Seen(after) /\ View(p).has = Seen(Has(p))
      BY <1>5, <2>2 DEF View
    <3>2. QED
      BY <1>1, <1>3, <2>2, <3>1, AfterAlike
  <2>3. QED
    BY <2>1, <2>2 DEF Ranks
<1>7. View(p)' = [phase |-> "online", at |-> at[p] + 1, size |-> Returns(NextCall(p), size[p]),
                  asked |-> View(p).asked, has |-> After(0, NextCall(p), size[p], View(p).has)]
  <2>1. /\ phase'[p] = "online" /\ at'[p] = at[p] + 1 /\ asked' = asked
        /\ size'[p] = Returns(NextCall(p), size[p])
    BY <1>2 DEF Types
  <2>2. View(p)' = [phase |-> phase'[p], at |-> at'[p], size |-> size'[p],
                    asked |-> [op \in Ops |-> asked'[p][Name(p, op)]], has |-> View(p).has']
    BY DEF View
  <2>3. View(p).asked = [op \in Ops |-> asked[p][Name(p, op)]]
    BY ViewFields
  <2>4. QED
    BY <1>6, <2>1, <2>2, <2>3
<1>8. View(p).phase = "online" /\ View(p).at = at[p] /\ View(p).size = size[p]
  BY <1>2, ViewFields
<1>9. program[View(p).at + 1] = NextCall(p)
  BY <1>8 DEF NextCall
<1>10. QED
  BY <1>2, <1>7, <1>8, <1>9 DEF NextView

\* The end takes the view of its rank on.
LEMMA EndView ==
  ASSUME Types, Types', NEW p \in Ranks, End(p)
  PROVE  View(p)' = NextView(View(p), program)
<1>1. /\ phase[p] = "online" /\ at[p] = Len(program)
      /\ phase' = [phase EXCEPT ![p] = "done"]
      /\ UNCHANGED <<program, at, size, asked, stock, tape, online, ndss, checks>>
  BY DEF End
<1>2. Has(p)' = Has(p) /\ phase'[p] = "done"
  BY <1>1 DEF Has, Types
<1>3. View(p)' = [View(p) EXCEPT !.phase = "done"]
  <2>1. (IF p = 0 THEN Has(0) ELSE Seen(Has(p)))' = IF p = 0 THEN Has(0) ELSE Seen(Has(p))
    BY <1>2 DEF Ranks, Seen
  <2>2. PICK has : has = IF p = 0 THEN Has(0) ELSE Seen(Has(p))
    OBVIOUS
  <2>3. View(p)' = [phase |-> "done", at |-> at[p], size |-> size[p],
                    asked |-> [op \in Ops |-> asked[p][Name(p, op)]], has |-> has]
    BY <1>1, <1>2, <2>1, <2>2 DEF View
  <2>4. View(p) = [phase |-> phase[p], at |-> at[p], size |-> size[p],
                   asked |-> [op \in Ops |-> asked[p][Name(p, op)]], has |-> has]
    BY <2>2 DEF View
  <2>5. QED
    BY <2>3, <2>4
<1>4. View(p).phase = "online" /\ View(p).at = at[p] /\ at[p] \in Nat
  <2>1. at[p] \in Nat
    BY DEF Types
  <2>2. QED
    BY <1>1, <2>1, ViewFields
<1>5. ~ (View(p).at < Len(program))
  BY <1>1, <1>4
<1>6. QED
  BY <1>3, <1>4, <1>5 DEF NextView

\* A step of rank p goes on as its view does; the other rank stays.
LEMMA StepView ==
  ASSUME Types, NEW p \in Ranks, RankStep(p)
  PROVE  /\ View(p)' = NextView(View(p), program)
         /\ IsPrefix(View(p).has.tape, View(p)'.has.tape)
         /\ View(p)'.has.tape \in Seq(Draws)
         /\ program' = program
<1>1. Types' /\ IsPrefix(tape[p], tape'[p])
  BY RankStepTypes
<1>2. View(p)' = NextView(View(p), program)
  BY <1>1, DryRunView, ForceCacheView, OnlineView, EndView DEF RankStep
<1>3. View(p).has.tape = tape[p]
  BY ViewFields
<1>4. View(p)'.has.tape = tape'[p]
  BY <1>1 DEF View, Has, Seen, Ranks
<1>5. tape'[p] \in Seq(Draws)
  BY <1>1 DEF Types
<1>6. program' = program
  BY DEF RankStep, DryRun, ForceCache, Online, End
<1>7. QED
  BY <1>1, <1>2, <1>3, <1>4, <1>5, <1>6

\* A step of one rank touches no variable of the other.
LEMMA OthersKept ==
  ASSUME Types, NEW p \in Ranks, RankStep(p), NEW q \in Ranks \ {p}
  PROVE  /\ phase'[q] = phase[q] /\ at'[q] = at[q] /\ size'[q] = size[q]
         /\ asked'[q] = asked[q] /\ stock'[q] = stock[q] /\ tape'[q] = tape[q]
         /\ online'[q] = online[q] /\ ndss'[q] = ndss[q] /\ checks'[q] = checks[q]
<1>1. CASE DryRun(p)
  BY <1>1, DryRunFacts DEF Types
<1>2. CASE ForceCache(p)
  BY <1>2, ForceCacheFacts DEF Types
<1>3. CASE Online(p)
  BY <1>3, OnlineFacts DEF Types
<1>4. CASE End(p)
  BY <1>4 DEF End, Types
<1>5. QED
  BY <1>1, <1>2, <1>3, <1>4 DEF RankStep

\* A step of one rank does not touch what the other has.
LEMMA OthersStay ==
  ASSUME Types, NEW p \in Ranks, RankStep(p), NEW q \in Ranks \ {p}
  PROVE  View(q)' = View(q)
<1>1. /\ phase'[q] = phase[q] /\ at'[q] = at[q] /\ size'[q] = size[q]
      /\ asked'[q] = asked[q] /\ stock'[q] = stock[q] /\ tape'[q] = tape[q]
      /\ online'[q] = online[q] /\ ndss'[q] = ndss[q] /\ checks'[q] = checks[q]
  BY OthersKept
<1>2. Has(q)' = Has(q)
  BY <1>1 DEF Has
<1>3. q = 0 \/ q = 1
  BY DEF Ranks
<1>4. (IF q = 0 THEN Has(0) ELSE Seen(Has(q)))' = IF q = 0 THEN Has(0) ELSE Seen(Has(q))
  BY <1>2, <1>3 DEF Seen
<1>5. QED
  BY <1>1, <1>4 DEF View

IsPath(n, path, pr) ==
  /\ \A k \in 0 .. n - 1 : path[k + 1] = NextView(path[k], pr)
  /\ \A k \in 0 .. n : path[k].has.tape \in Seq(Draws)
  /\ \A j, k \in 0 .. n : j <= k => IsPrefix(path[j].has.tape, path[k].has.tape)

OnPath(n, path) == \A p \in Ranks : \E k \in 0 .. n : path[k] = View(p)

\* Both ranks are on the way, which is one.
PathInv == \E n \in Nat : \E path : IsPath(n, path, program) /\ OnPath(n, path)

\* A path goes on by one step of a rank at its end.
LEMMA PathExtended ==
  ASSUME NEW n \in Nat, NEW path, NEW pr, NEW w, IsPath(n, path, pr),
         w = NextView(path[n], pr), w.has.tape \in Seq(Draws),
         IsPrefix(path[n].has.tape, w.has.tape)
  PROVE  IsPath(n + 1, [k \in 0 .. n + 1 |-> IF k <= n THEN path[k] ELSE w], pr)
<1> DEFINE new == [k \in 0 .. n + 1 |-> IF k <= n THEN path[k] ELSE w]
<1>1. (\A k \in 0 .. n : new[k] = path[k]) /\ new[n + 1] = w
  OBVIOUS
<1> HIDE DEF new
<1>2. ASSUME NEW k \in 0 .. n
      PROVE  new[k + 1] = NextView(new[k], pr)
  <2>1. CASE k = n
    BY <1>1, <2>1
  <2>2. CASE k # n
    <3>1. k \in 0 .. n - 1 /\ k + 1 \in 0 .. n
      BY <2>2
    <3>2. QED
      BY <1>1, <3>1 DEF IsPath
  <2>3. QED
    BY <2>1, <2>2
<1>3. ASSUME NEW k \in 0 .. n + 1
      PROVE  new[k].has.tape \in Seq(Draws)
  <2>1. CASE k = n + 1
    BY <1>1, <2>1
  <2>2. CASE k # n + 1
    <3>1. k \in 0 .. n
      BY <2>2
    <3>2. QED
      BY <1>1, <3>1 DEF IsPath
  <2>3. QED
    BY <2>1, <2>2
<1>4. ASSUME NEW j \in 0 .. n + 1, NEW k \in 0 .. n + 1, j <= k
      PROVE  IsPrefix(new[j].has.tape, new[k].has.tape)
  <2>1. CASE j = n + 1
    <3>1. k = n + 1
      BY <1>4, <2>1
    <3>2. QED
      BY <1>1, <2>1, <3>1, PrefixReflexive
  <2>2. CASE j # n + 1 /\ k = n + 1
    <3>1. j \in 0 .. n /\ n \in 0 .. n /\ j <= n
      BY <2>2
    <3>2. /\ IsPrefix(path[j].has.tape, path[n].has.tape)
          /\ path[j].has.tape \in Seq(Draws) /\ path[n].has.tape \in Seq(Draws)
      BY <3>1 DEF IsPath
    <3>3. IsPrefix(path[j].has.tape, w.has.tape)
      BY <3>2, PrefixTransitive
    <3>4. QED
      BY <1>1, <2>2, <3>1, <3>3
  <2>3. CASE j # n + 1 /\ k # n + 1
    <3>1. j \in 0 .. n /\ k \in 0 .. n
      BY <2>3
    <3>2. QED
      BY <1>1, <1>4, <3>1 DEF IsPath
  <2>4. QED
    BY <2>1, <2>2, <2>3
<1>5. IsPath(n + 1, new, pr)
  <2>1. \A k \in 0 .. (n + 1) - 1 : new[k + 1] = NextView(new[k], pr)
    BY <1>2
  <2>2. QED
    BY <1>3, <1>4, <2>1 DEF IsPath
<1>6. QED
  BY <1>5 DEF new

\* Both ranks start at the beginning of a path without steps.
LEMMA InitPath == Init => PathInv
<1> SUFFICES ASSUME Init
             PROVE  PathInv
  OBVIOUS
<1>1. Types /\ 0 \in Ranks /\ 1 \in Ranks
  BY InitTypes DEF Ranks
<1>2. View(1) = View(0)
  <2>1. /\ phase[0] = phase[1] /\ at[0] = at[1] /\ size[0] = size[1] /\ tape[0] = tape[1]
        /\ online[0] = <<>> /\ online[1] = <<>> /\ ndss[0] = ndss[1] /\ checks[0] = checks[1]
        /\ asked[0] = [op \in Ops |-> <<>>] /\ asked[1] = [op \in Ops |-> <<>>]
        /\ stock[0] = [s \in Slots |-> 0] /\ stock[1] = [s \in Slots |-> 0]
    BY <1>1 DEF Init
  <2>2. [op \in Ops |-> asked[1][Name(1, op)]] = [op \in Ops |-> asked[0][Name(0, op)]]
    <3>1. \A op \in Ops : Name(1, op) \in Ops /\ Name(0, op) \in Ops
      BY <1>1, NameFacts
    <3>2. QED
      BY <2>1, <3>1
  <2>3. [s \in Slots |-> stock[1][<<Name(1, s[1]), s[2]>>]] = stock[0]
    BY <2>1, SlotNamed
  <2>4. Renamed(online[1]) = online[0]
    <3>1. Renamed(<<>>) = <<>>
      BY PlannedNone, RequestsOne DEF Planned
    <3>2. QED
      BY <2>1, <3>1
  <2>5. Seen(Has(1)) = Has(0)
    BY <2>1, <2>3, <2>4 DEF Seen, Has
  <2>6. QED
    BY <2>1, <2>2, <2>5 DEF View
<1>3. View(0).has.tape \in Seq(Draws)
  <2>1. View(0).has.tape = tape[0]
    BY <1>1, ViewFields
  <2>2. QED
    BY <1>1, <2>1 DEF Types
<1> DEFINE path == [k \in {0} |-> View(0)]
<1>4. path[0] = View(0)
  OBVIOUS
<1> HIDE DEF path
<1>5. IsPath(0, path, program)
  <2>1. 0 .. 0 - 1 = {} /\ \A k \in 0 .. 0 : k = 0
    OBVIOUS
  <2>2. IsPrefix(path[0].has.tape, path[0].has.tape)
    BY <1>3, <1>4, PrefixReflexive
  <2>3. QED
    BY <1>3, <1>4, <2>1, <2>2 DEF IsPath
<1>6. OnPath(0, path)
  BY <1>2, <1>4 DEF OnPath, Ranks
<1>7. QED
  BY <1>5, <1>6 DEF PathInv

\* A rank inside the path follows it, a rank at its end prolongs it.
LEMMA StepPath ==
  ASSUME Types, PathInv, NEW p \in Ranks, RankStep(p)
  PROVE  PathInv'
<1>1. PICK n \in Nat : \E path : IsPath(n, path, program) /\ OnPath(n, path)
  BY DEF PathInv
<1>2. PICK path : IsPath(n, path, program) /\ OnPath(n, path)
  BY <1>1
<1>3. PICK k \in 0 .. n : path[k] = View(p)
  BY <1>2 DEF OnPath
<1>4. PICK w : w = View(p)'
  OBVIOUS
<1>5. program' = program /\ IsPath(n, path, program')
  <2>1. program' = program
    BY StepView
  <2>2. QED
    BY <1>2, <2>1
<1>6. /\ w = NextView(path[k], program') /\ IsPrefix(path[k].has.tape, w.has.tape)
      /\ w.has.tape \in Seq(Draws)
  BY <1>3, <1>4, <1>5, StepView
<1>7. ASSUME NEW q \in Ranks \ {p}
      PROVE  \E j \in 0 .. n : path[j] = View(q)'
  BY <1>2, OthersStay DEF OnPath
<1>8. CASE k < n
  <2>1. k \in 0 .. n - 1 /\ k + 1 \in 0 .. n
    BY <1>8
  <2>2. path[k + 1] = w
    BY <1>5, <1>6, <2>1 DEF IsPath
  <2>3. OnPath(n, path)'
    BY <1>4, <1>7, <2>1, <2>2 DEF OnPath
  <2>4. QED
    BY <1>5, <2>3 DEF PathInv
<1>9. CASE k = n
  <2> DEFINE new == [j \in 0 .. n + 1 |-> IF j <= n THEN path[j] ELSE w]
  <2>1. IsPath(n + 1, new, program')
    BY <1>5, <1>6, <1>9, PathExtended
  <2>2. /\ \A j \in 0 .. n : new[j] = path[j] /\ j \in 0 .. n + 1
        /\ new[n + 1] = w /\ n + 1 \in 0 .. n + 1
    OBVIOUS
  <2> HIDE DEF new
  <2>3. OnPath(n + 1, new)'
    BY <1>4, <1>7, <2>2 DEF OnPath
  <2>4. n + 1 \in Nat
    OBVIOUS
  <2>5. QED
    BY <2>1, <2>3, <2>4 DEF PathInv
<1>10. QED
  BY <1>8, <1>9

\* Both ranks are always on one path.
LEMMA AlwaysPath == Spec => [](Types /\ PathInv)
<1>1. Init => Types /\ PathInv
  BY InitTypes, InitPath
<1>2. Types /\ PathInv /\ [Next]_vars => Types' /\ PathInv'
  <2> SUFFICES ASSUME Types, PathInv, [Next]_vars
               PROVE  Types' /\ PathInv'
    OBVIOUS
  <2>1. CASE UNCHANGED vars
    <3>1. Types'
      BY <2>1 DEF vars, Types
    <3>2. program' = program /\ \A p \in Ranks : View(p)' = View(p)
      BY <2>1 DEF vars, View, Has, Seen
    <3>3. \A n, path : OnPath(n, path)' <=> OnPath(n, path)
      BY <3>2 DEF OnPath
    <3>4. PathInv'
      BY <3>2, <3>3 DEF PathInv
    <3>5. QED
      BY <3>1, <3>4
  <2>2. ASSUME NEW p \in Ranks, RankStep(p)
        PROVE  Types' /\ PathInv'
    BY <2>2, RankStepTypes, StepPath
  <2>3. (\E p \in Ranks : RankStep(p)) \/ UNCHANGED vars
    BY DEF Next, RankStep
  <2>4. QED
    BY <2>1, <2>2, <2>3
<1>3. QED
  BY <1>1, <1>2, PTL DEF Spec

\* The ranks draw from the shared Prg for the same purposes in the same order,
\* for every program, whatever the twins count, force_cache generates, the cache
\* misses or NdssBufferAppend checks, and however far one rank is ahead.
THEOREM TapesHold == Spec => []TapesAgree
<1>1. Types /\ PathInv => TapesAgree
  <2> SUFFICES ASSUME Types, PathInv
               PROVE  TapesAgree
    OBVIOUS
  <2>1. PICK n \in Nat : \E path : IsPath(n, path, program) /\ OnPath(n, path)
    BY DEF PathInv
  <2>2. PICK path : IsPath(n, path, program) /\ OnPath(n, path)
    BY <2>1
  <2>3. 0 \in Ranks /\ 1 \in Ranks /\ Peer(0) = 1 /\ Peer(1) = 0
    BY DEF Ranks, Peer
  <2>4. PICK j \in 0 .. n : path[j] = View(0)
    BY <2>2, <2>3 DEF OnPath
  <2>5. PICK k \in 0 .. n : path[k] = View(1)
    BY <2>2, <2>3 DEF OnPath
  <2>6. IsPrefix(path[j].has.tape, path[k].has.tape) \/ IsPrefix(path[k].has.tape, path[j].has.tape)
    BY <2>2 DEF IsPath
  <2>7. path[j].has.tape = tape[0] /\ path[k].has.tape = tape[1]
    <3>1. View(0).has.tape = tape[0]
      BY <2>3, ViewFields
    <3>2. View(1).has.tape = tape[1]
      BY <2>3, ViewFields
    <3>3. QED
      BY <2>4, <2>5, <3>1, <3>2
  <2>8. QED
    BY <2>3, <2>6, <2>7 DEF TapesAgree
<1>2. QED
  BY <1>1, AlwaysPath, PTL

-----------------------------------------------------------------------------
\* What the dry run counts is what the program takes.

\* The sum of a beginning.
UpTo(w, n) == AddedUp([i \in 1 .. n |-> w[i]])

\* The sums of the beginnings, one after another, and their bound.
LEMMA UpToFacts ==
  ASSUME NEW w \in Seq(Nat)
  PROVE  /\ UpTo(w, 0) = 0 /\ UpTo(w, Len(w)) = AddedUp(w)
         /\ \A n \in 0 .. Len(w) : UpTo(w, n) \in Nat /\ UpTo(w, n) <= AddedUp(w)
         /\ \A n \in 0 .. Len(w) - 1 : UpTo(w, n + 1) = UpTo(w, n) + w[n + 1]
<1>1. Len(w) \in Nat /\ w = [i \in 1 .. Len(w) |-> w[i]]
  OBVIOUS
<1>2. UpTo(w, 0) = 0
  <2>1. [i \in 1 .. 0 |-> w[i]] = <<>>
    OBVIOUS
  <2>2. QED
    BY <2>1, AddedUpOne DEF UpTo
<1>3. UpTo(w, Len(w)) = AddedUp(w)
  BY <1>1 DEF UpTo
<1>4. ASSUME NEW n \in 0 .. Len(w), NEW m \in 0 .. Len(w), n <= m
      PROVE  /\ UpTo(w, n) \in Nat
             /\ UpTo(w, m) = UpTo(w, n) + AddedUp([i \in 1 .. m - n |-> w[n + i]])
             /\ AddedUp([i \in 1 .. m - n |-> w[n + i]]) \in Nat
  <2>1. PICK a, b, c : /\ a = [i \in 1 .. n |-> w[i]] /\ c = [i \in 1 .. m |-> w[i]]
                       /\ b = [i \in 1 .. m - n |-> w[n + i]]
    OBVIOUS
  <2>2. m - n \in Nat /\ n \in Nat /\ m \in Nat
    BY <1>1, <1>4
  <2>3. \A i \in 1 .. Len(w) : w[i] \in Nat
    OBVIOUS
  <2>4. \A i \in 1 .. n : i \in 1 .. Len(w) /\ i \in 1 .. m
    BY <1>1, <1>4
  <2>5. \A i \in 1 .. m - n : n + i \in 1 .. Len(w) /\ n + i \in 1 .. m
    BY <1>1, <1>4, <2>2
  <2>6. \A i \in 1 .. m : i \in 1 .. Len(w)
    BY <1>1, <1>4
  <2>7. a \in Seq(Nat) /\ Len(a) = n
    BY <2>1, <2>2, <2>3, <2>4
  <2>8. b \in Seq(Nat) /\ Len(b) = m - n
    BY <2>1, <2>2, <2>3, <2>5
  <2>9. c \in Seq(Nat) /\ Len(c) = m
    BY <2>1, <2>2, <2>3, <2>6
  <2>10. IsConcat(a, b, c)
    <3>1. Len(c) = Len(a) + Len(b)
      BY <2>2, <2>7, <2>8, <2>9
    <3>2. \A i \in 1 .. Len(a) : c[i] = a[i]
      BY <2>1, <2>4, <2>7
    <3>3. \A i \in 1 .. Len(b) : c[Len(a) + i] = b[i]
      BY <2>1, <2>5, <2>7, <2>8
    <3>4. QED
      BY <3>1, <3>2, <3>3 DEF IsConcat
  <2>11. c = a \o b
    BY <2>7, <2>8, <2>9, <2>10, ConcatPointwise
  <2>12. AddedUp(c) = AddedUp(a) + AddedUp(b) /\ AddedUp(a) \in Nat /\ AddedUp(b) \in Nat
    BY <2>7, <2>8, <2>11, AddedUpConcat, AddedUpType
  <2>13. QED
    BY <2>1, <2>12 DEF UpTo
<1>5. ASSUME NEW n \in 0 .. Len(w)
      PROVE  UpTo(w, n) \in Nat /\ UpTo(w, n) <= AddedUp(w)
  <2>1. Len(w) \in 0 .. Len(w) /\ n <= Len(w)
    BY <1>1
  <2>2. PICK rest : rest = AddedUp([i \in 1 .. Len(w) - n |-> w[n + i]])
    OBVIOUS
  <2>3. UpTo(w, n) \in Nat /\ UpTo(w, Len(w)) = UpTo(w, n) + rest /\ rest \in Nat
    BY <1>4, <2>1, <2>2
  <2>4. QED
    BY <1>3, <2>3
<1>6. ASSUME NEW n \in 0 .. Len(w) - 1
      PROVE  UpTo(w, n + 1) = UpTo(w, n) + w[n + 1]
  <2>1. n \in 0 .. Len(w) /\ n + 1 \in 0 .. Len(w) /\ n <= n + 1 /\ n + 1 \in 1 .. Len(w)
    BY <1>1
  <2>2. UpTo(w, n + 1) = UpTo(w, n) + AddedUp([i \in 1 .. (n + 1) - n |-> w[n + i]])
    BY <1>4, <2>1
  <2>3. [i \in 1 .. (n + 1) - n |-> w[n + i]] = <<w[n + 1]>>
    <3>1. (n + 1) - n = 1
      BY <2>1
    <3>2. [i \in 1 .. 1 |-> w[n + i]] = <<w[n + 1]>>
      OBVIOUS
    <3>3. QED
      BY <3>1, <3>2
  <2>4. w[n + 1] \in Nat
    BY <2>1
  <2>5. AddedUp(<<w[n + 1]>>) = w[n + 1]
    BY <2>4, AddedUpOne
  <2>6. QED
    BY <2>2, <2>3, <2>5
<1>7. QED
  BY <1>2, <1>3, <1>5, <1>6

\* A request whose slots are full enough is served, and nothing else.
LEMMA CarriedCovered ==
  ASSUME NEW p \in Ranks, NEW h \in Holdings, NEW r \in Reqs,
         \A x \in Slots : Wanted(x, r) <= h.stock[x],
         Carried(p, h, r).checks = 0
  PROVE  /\ Carried(p, h, r).online = h.online
         /\ \A x \in Slots : Carried(p, h, r).stock[x] = h.stock[x] - Wanted(x, r)
<1>1. /\ r.op \in Drawable \cup {"ndss"} /\ r.num \in Nat
      /\ r.op \in Shaped => r.num \in 1 .. Elements
  BY DEF Reqs, IsReq
<1>2. /\ h.ndss \in Nat /\ h.stock \in [Slots -> Nat] /\ h.checks \in Nat
      /\ h.ndss + r.num \in Nat
  BY <1>1 DEF Holdings
<1>3. \A x \in Slots : h.stock[x] - 0 = h.stock[x]
  <2>1. \A x \in Slots : h.stock[x] \in Nat
    BY <1>2
  <2>2. QED
    BY <2>1
<1>4. CASE r.op \in {"Prg", "ndss"}
  <2>1. \A x \in Slots : Wanted(x, r) = 0
    <3>1. ASSUME NEW x \in Slots
          PROVE  x[1] \in Ops
      BY SlotOps
    <3>2. PartsOf(r.op) = {r.op} /\ r.op \notin Ops
      BY <1>4, OpsAre DEF PartsOf
    <3>3. Slot(r.op, r.num)[1] = r.op
      BY DEF Slot
    <3>4. QED
      BY <3>1, <3>2, <3>3 DEF Wanted
  <2>2. Carried(p, h, r).stock = h.stock /\ Carried(p, h, r).online = h.online
    <3>1. CASE r.op = "Prg"
      <4>1. PICK t : t = h.tape \o Drawn(p, "Prg", r.num)
        OBVIOUS
      <4>2. Carried(p, h, r) = [h EXCEPT !.tape = t]
        BY <3>1, <4>1 DEF Carried
      <4>3. QED
        BY <4>2 DEF Holdings
    <3>2. CASE r.op = "ndss"
      <4>1. PICK k : k = [h EXCEPT !.ndss = @ + r.num]
        OBVIOUS
      <4>2. k \in Holdings /\ k.stock = h.stock /\ k.online = h.online /\ k.ndss = h.ndss + r.num
        BY <1>2, <4>1 DEF Holdings
      <4>3. Carried(p, h, r) = IF k.ndss >= NdssMax THEN NdssDelayCheck(p, k) ELSE k
        BY <3>2, <4>1 DEF Carried, Appended
      <4>4. k.ndss >= NdssMax => k.ndss = 0
        BY <4>2, <4>3, NdssDelayCheckFacts
      <4>5. Carried(p, h, r) = k
        BY <4>3, <4>4 DEF NdssDelayCheck
      <4>6. QED
        BY <4>2, <4>5
    <3>3. QED
      BY <1>4, <3>1, <3>2
  <2>3. QED
    BY <1>3, <2>1, <2>2
<1>5. CASE r.op \notin {"Prg", "ndss"}
  <2>1. Servable(r.op, r.num)
    BY <1>1, <1>5 DEF Servable, Drawable
  <2>2. Carried(p, h, r) = Served(p, h, r.op, r.num)
    BY <1>5 DEF Carried
  <2>3. ASSUME NEW part \in PartsOf(r.op)
        PROVE  h.stock[Slot(part, r.num)] >= Units(part, r.num)
    <3>1. PICK x \in Slots : x = Slot(part, r.num) /\ x[1] = part
      BY <2>1, SlotFacts
    <3>2. Wanted(x, r) = Units(part, r.num)
      BY <3>1 DEF Wanted
    <3>3. Wanted(x, r) <= h.stock[x] /\ h.stock[x] \in Nat /\ Units(part, r.num) \in Nat
      BY <1>1, <1>2, UnitsType
    <3>4. QED
      BY <3>1, <3>2, <3>3
  <2>4. Holds(h, r.op, r.num)
    BY <2>3 DEF Holds
  <2>5. PICK left : left = [s \in Slots |-> h.stock[s] - Wanted(s, r)]
    OBVIOUS
  <2>6. Carried(p, h, r) = [h EXCEPT !.stock = left]
    BY <2>2, <2>4, <2>5 DEF Served, Wanted
  <2>7. Carried(p, h, r).stock = left /\ Carried(p, h, r).online = h.online
    BY <2>6 DEF Holdings
  <2>8. QED
    BY <2>5, <2>7
<1>6. QED
  BY <1>4, <1>5

\* And so is a call.
LEMMA CallCovered ==
  ASSUME NEW p \in Ranks, NEW has \in Holdings, NEW requests \in Seq(Reqs),
         \A x \in Slots : Need(x, requests) <= has.stock[x],
         CarriedOn(p, has, requests).checks = 0
  PROVE  /\ CarriedOn(p, has, requests).online = has.online
         /\ \A x \in Slots : CarriedOn(p, has, requests).stock[x] + Need(x, requests)
                               = has.stock[x]
<1> DEFINE w(x) == [i \in DOMAIN requests |-> Wanted(x, requests[i])]
           L == Len(requests)
<1>1. L \in Nat /\ DOMAIN requests = 1 .. L /\ has.stock \in [Slots -> Nat]
  BY DEF Holdings
<1>2. \A x : w(x) \in Seq(Nat) /\ Len(w(x)) = L
  <2> SUFFICES ASSUME NEW x
               PROVE  w(x) \in Seq(Nat) /\ Len(w(x)) = L
    OBVIOUS
  <2>1. \A i \in 1 .. L : requests[i] \in Reqs
    OBVIOUS
  <2>2. \A r \in Reqs : Wanted(x, r) \in Nat
    BY UnitsType DEF Wanted, Reqs
  <2>3. \A i \in 1 .. L : Wanted(x, requests[i]) \in Nat
    BY <2>1, <2>2
  <2>4. QED
    BY <1>1, <2>3
<1>3. \A x : \A i \in 1 .. L : w(x)[i] = Wanted(x, requests[i])
  BY <1>1
<1>4. \A x : Need(x, requests) = AddedUp(w(x))
  BY DEF Need
<1> HIDE DEF w, L
<1>5. \A x : /\ UpTo(w(x), 0) = 0 /\ UpTo(w(x), L) = Need(x, requests)
             /\ \A n \in 0 .. L : UpTo(w(x), n) \in Nat /\ UpTo(w(x), n) <= Need(x, requests)
             /\ \A n \in 0 .. L - 1 : UpTo(w(x), n + 1) = UpTo(w(x), n) + w(x)[n + 1]
  <2> SUFFICES ASSUME NEW x
               PROVE  /\ UpTo(w(x), 0) = 0 /\ UpTo(w(x), L) = Need(x, requests)
                      /\ \A n \in 0 .. L : /\ UpTo(w(x), n) \in Nat
                                           /\ UpTo(w(x), n) <= Need(x, requests)
                      /\ \A n \in 0 .. L - 1 : UpTo(w(x), n + 1) = UpTo(w(x), n) + w(x)[n + 1]
    OBVIOUS
  <2>1. PICK v \in Seq(Nat) : v = w(x) /\ Len(v) = L /\ AddedUp(v) = Need(x, requests)
    BY <1>2, <1>4
  <2>2. /\ UpTo(v, 0) = 0 /\ UpTo(v, Len(v)) = AddedUp(v)
        /\ \A n \in 0 .. Len(v) : UpTo(v, n) \in Nat /\ UpTo(v, n) <= AddedUp(v)
        /\ \A n \in 0 .. Len(v) - 1 : UpTo(v, n + 1) = UpTo(v, n) + v[n + 1]
    BY UpToFacts
  <2>3. QED
    BY <2>1, <2>2
<1>6. PICK g \in [0 .. L -> Holdings] :
        /\ g[0] = has /\ g[L] = CarriedOn(p, has, requests)
        /\ \A i \in 1 .. L : g[i] = Carried(p, g[i - 1], requests[i])
  BY CarriedOnFacts DEF L
<1> DEFINE N == {n \in Nat : n <= L /\ g[n].checks = 0 =>
             /\ g[n].online = has.online
             /\ \A x \in Slots : g[n].stock[x] + UpTo(w(x), n) = has.stock[x]}
<1>7. Nat \subseteq N
  <2>1. 0 \in N
    <3>1. ASSUME NEW x \in Slots
          PROVE  has.stock[x] + UpTo(w(x), 0) = has.stock[x]
      <4>1. has.stock[x] \in Nat /\ UpTo(w(x), 0) = 0
        BY <1>1, <1>5
      <4>2. QED
        BY <4>1
    <3>2. QED
      BY <1>6, <3>1
  <2>2. ASSUME NEW n \in Nat, n \in N
        PROVE  n + 1 \in N
    <3>1. SUFFICES ASSUME n + 1 <= L, g[n + 1].checks = 0
                   PROVE  /\ g[n + 1].online = has.online
                          /\ \A x \in Slots : g[n + 1].stock[x] + UpTo(w(x), n + 1)
                                                = has.stock[x]
      OBVIOUS
    <3>2. /\ n + 1 \in 1 .. L /\ n \in 0 .. L /\ n + 1 \in 0 .. L /\ n \in 0 .. L - 1
          /\ (n + 1) - 1 = n /\ n <= L
      BY <1>1, <3>1
    <3>3. PICK r \in Reqs : r = requests[n + 1]
      BY <1>1, <3>2
    <3>4. /\ g[n] \in Holdings /\ g[n + 1] \in Holdings
          /\ g[n + 1] = Carried(p, g[n], r)
      BY <1>6, <3>2, <3>3
    <3>5. g[n].checks = 0
      <4>1. Grown(g[n], Carried(p, g[n], r))
        BY <3>4, CarriedFacts
      <4>2. g[n].checks <= g[n + 1].checks /\ g[n].checks \in Nat
        BY <3>4, <4>1 DEF Grown, Holdings
      <4>3. QED
        BY <3>1, <4>2
    <3>6. /\ g[n].online = has.online
          /\ \A x \in Slots : g[n].stock[x] + UpTo(w(x), n) = has.stock[x]
      BY <2>2, <3>2, <3>5
    <3>7. ASSUME NEW x \in Slots
          PROVE  /\ UpTo(w(x), n + 1) = UpTo(w(x), n) + Wanted(x, r)
                 /\ UpTo(w(x), n) \in Nat /\ UpTo(w(x), n + 1) \in Nat /\ Wanted(x, r) \in Nat
                 /\ Wanted(x, r) <= g[n].stock[x] /\ g[n].stock[x] \in Nat
      <4>1. /\ UpTo(w(x), n + 1) = UpTo(w(x), n) + w(x)[n + 1]
            /\ UpTo(w(x), n) \in Nat /\ UpTo(w(x), n + 1) \in Nat
            /\ UpTo(w(x), n + 1) <= Need(x, requests)
        BY <1>5, <3>2
      <4>2. w(x)[n + 1] = Wanted(x, r)
        BY <1>3, <3>2, <3>3
      <4>3. Wanted(x, r) \in Nat
        BY UnitsType DEF Wanted, Reqs
      <4>4. g[n].stock[x] \in Nat /\ has.stock[x] \in Nat
        BY <1>1, <3>4 DEF Holdings
      <4>5. Need(x, requests) <= has.stock[x] /\ g[n].stock[x] + UpTo(w(x), n) = has.stock[x]
        BY <3>6
      <4>6. Need(x, requests) \in Nat
        BY NeedFacts
      <4>7. QED
        BY <4>1, <4>2, <4>3, <4>4, <4>5, <4>6
    <3>8. /\ Carried(p, g[n], r).online = g[n].online
          /\ \A x \in Slots : Carried(p, g[n], r).stock[x] = g[n].stock[x] - Wanted(x, r)
      <4>1. Carried(p, g[n], r).checks = 0
        BY <3>1, <3>4
      <4>2. \A x \in Slots : Wanted(x, r) <= g[n].stock[x]
        BY <3>7
      <4>3. QED
        BY <3>4, <4>1, <4>2, CarriedCovered
    <3>9. ASSUME NEW x \in Slots
          PROVE  g[n + 1].stock[x] + UpTo(w(x), n + 1) = has.stock[x]
      <4>1. g[n + 1].stock[x] = g[n].stock[x] - Wanted(x, r)
        BY <3>4, <3>8
      <4>2. g[n].stock[x] + UpTo(w(x), n) = has.stock[x]
        BY <3>6
      <4>3. QED
        BY <3>7, <4>1, <4>2
    <3>10. QED
      BY <3>4, <3>6, <3>8, <3>9
  <2> HIDE DEF N
  <2>3. QED
    BY <2>1, <2>2, NatSetInduction
<1>8. /\ g[L].online = has.online
      /\ \A x \in Slots : g[L].stock[x] + UpTo(w(x), L) = has.stock[x]
  <2>1. L \in N /\ L <= L /\ g[L].checks = 0
    BY <1>1, <1>6, <1>7
  <2>2. QED
    BY <2>1
<1>9. QED
  BY <1>5, <1>6, <1>8

\* Nothing follows a sum.
SumLast(pr) == \A i \in 1 .. Len(pr) : pr[i] = "SumA" => i = Len(pr)

\* The elements the calls before have left, and what the next one takes.
Left(pr, n) == IF \E i \in 1 .. n : pr[i] = "NMulA" THEN 1 ELSE Elements
Taken(pr, p, x, n) ==
  Filled(x, SizesOf(x[1], Twin(p, CalledAs(p, pr[n]), Left(pr, n - 1))))
Cum(pr, p, x, n) == UpTo([i \in 1 .. Len(pr) |-> Taken(pr, p, x, i)], n)

\* How many elements a call is for.
LEMMA LeftFacts ==
  ASSUME NEW pr \in Seq(Operations), NEW n \in Nat
  PROVE  /\ Left(pr, n) \in 1 .. Elements /\ Left(pr, 0) = Elements
         /\ Left(pr, n + 1) = IF pr[n + 1] = "NMulA" THEN 1 ELSE Left(pr, n)
<1>1. Elements \in 1 .. Elements /\ 1 \in 1 .. Elements
  BY DryRunsAssumption
<1>2. Left(pr, 0) = Elements
  <2>1. ~ \E i \in 1 .. 0 : pr[i] = "NMulA"
    OBVIOUS
  <2>2. QED
    BY <2>1 DEF Left
<1>3. Left(pr, n + 1) = IF pr[n + 1] = "NMulA" THEN 1 ELSE Left(pr, n)
  <2>1. \A i \in 1 .. n : i \in 1 .. n + 1
    OBVIOUS
  <2>2. \A i \in 1 .. n + 1 : i = n + 1 \/ i \in 1 .. n
    OBVIOUS
  <2>3. n + 1 \in 1 .. n + 1
    OBVIOUS
  <2>4. CASE pr[n + 1] = "NMulA"
    BY <2>3, <2>4 DEF Left
  <2>5. CASE pr[n + 1] # "NMulA"
    <3>1. (\E i \in 1 .. n + 1 : pr[i] = "NMulA") <=> \E i \in 1 .. n : pr[i] = "NMulA"
      BY <2>1, <2>2, <2>5
    <3>2. QED
      BY <2>5, <3>1 DEF Left
  <2>6. QED
    BY <2>4, <2>5
<1>4. QED
  BY <1>1, <1>2, <1>3 DEF Left

\* What the first calls take together, call by call.
LEMMA CumFacts ==
  ASSUME NEW pr \in Seq(Operations), NEW p \in Ranks, NEW x
  PROVE  /\ Cum(pr, p, x, 0) = 0
         /\ \A n \in 0 .. Len(pr) : /\ Cum(pr, p, x, n) \in Nat
                                    /\ Cum(pr, p, x, n) <= Cum(pr, p, x, Len(pr))
         /\ \A n \in 0 .. Len(pr) - 1 :
              /\ Taken(pr, p, x, n + 1) \in Nat
              /\ Cum(pr, p, x, n + 1) = Cum(pr, p, x, n) + Taken(pr, p, x, n + 1)
<1>1. PICK w : w = [i \in 1 .. Len(pr) |-> Taken(pr, p, x, i)]
  OBVIOUS
<1>2. ASSUME NEW i \in 1 .. Len(pr)
      PROVE  Taken(pr, p, x, i) \in Nat
  <2>1. pr[i] \in Operations /\ i - 1 \in Nat
    OBVIOUS
  <2>2. Left(pr, i - 1) \in 1 .. Elements
    BY <2>1, LeftFacts
  <2>3. SizesOf(x[1], Twin(p, CalledAs(p, pr[i]), Left(pr, i - 1))) \in Seq(Nat)
    BY <2>1, <2>2, TwinTypes
  <2>4. QED
    BY <2>3, FilledFacts DEF Taken
<1>3. w \in Seq(Nat) /\ Len(w) = Len(pr) /\ \A i \in 1 .. Len(pr) : w[i] = Taken(pr, p, x, i)
  BY <1>1, <1>2
<1>4. /\ UpTo(w, 0) = 0 /\ UpTo(w, Len(w)) = AddedUp(w)
      /\ \A n \in 0 .. Len(w) : UpTo(w, n) \in Nat /\ UpTo(w, n) <= AddedUp(w)
      /\ \A n \in 0 .. Len(w) - 1 : UpTo(w, n + 1) = UpTo(w, n) + w[n + 1]
  BY <1>3, UpToFacts
<1>5. \A n : Cum(pr, p, x, n) = UpTo(w, n)
  BY <1>1 DEF Cum
<1>6. \A n \in 0 .. Len(pr) - 1 : n + 1 \in 1 .. Len(pr)
  OBVIOUS
<1>7. QED
  BY <1>2, <1>3, <1>4, <1>5, <1>6

\* The cache of rank p is good for what the program still takes.
Planning(p) ==
  /\ phase[p] # "done" /\ at[p] < Len(program) => size[p] = Left(program, at[p])
  /\ phase[p] = "dry" =>
       /\ online[p] = <<>> /\ checks[p] = 0
       /\ \A x \in Slots : Filled(x, asked[p][x[1]]) = Cum(program, p, x, at[p])
  /\ phase[p] = "online" /\ checks[p] = 0 =>
       /\ online[p] = <<>>
       /\ \A x \in Slots : stock[p][x] + Cum(program, p, x, at[p])
                             = Cum(program, p, x, Len(program))
  /\ phase[p] = "done" /\ checks[p] = 0 =>
       online[p] = <<>> /\ \A x \in Slots : stock[p][x] = 0

Covering == SumLast(program) => \A p \in Ranks : Planning(p)

\* A cache that is empty and a program not started are planned.
LEMMA InitCovering == Init => Covering
<1> SUFFICES ASSUME Init, NEW p \in Ranks
             PROVE  Planning(p)
  BY DEF Covering
<1>1. Types
  BY InitTypes
<1>2. program \in Seq(Operations)
  BY <1>1 DEF Types
<1>3. /\ phase[p] = "dry" /\ at[p] = 0 /\ size[p] = Elements /\ online[p] = <<>>
      /\ checks[p] = 0 /\ asked[p] = [op \in Ops |-> <<>>]
  BY DEF Init
<1>4. Left(program, 0) = Elements
  BY <1>2, LeftFacts
<1>5. ASSUME NEW x \in Slots
      PROVE  Filled(x, asked[p][x[1]]) = Cum(program, p, x, 0)
  <2>1. x[1] \in Ops
    BY SlotOps
  <2>2. asked[p][x[1]] = <<>>
    BY <1>3, <2>1
  <2>3. Filled(x, <<>>) = 0 /\ Cum(program, p, x, 0) = 0
    BY <1>2, FilledOne, CumFacts
  <2>4. QED
    BY <2>2, <2>3
<1>6. QED
  BY <1>3, <1>4, <1>5 DEF Planning

\* The size a call leaves.
LEMMA SizeLeft ==
  ASSUME Types, SumLast(program), NEW p \in Ranks, at[p] < Len(program),
         size[p] = Left(program, at[p]), at[p] + 1 < Len(program)
  PROVE  /\ TwinReturns(NextCall(p), size[p]) = Left(program, at[p] + 1)
         /\ Returns(NextCall(p), size[p]) = Left(program, at[p] + 1)
<1>1. program \in Seq(Operations) /\ at[p] \in Nat /\ Len(program) \in Nat
  BY DEF Types
<1>2. Left(program, at[p] + 1) = IF program[at[p] + 1] = "NMulA" THEN 1 ELSE Left(program, at[p])
  BY <1>1, LeftFacts
<1>3. program[at[p] + 1] # "SumA"
  BY <1>1 DEF SumLast
<1>4. QED
  BY <1>2, <1>3 DEF TwinReturns, Returns, NextCall

\* A twin counts what its call is going to take.
LEMMA DryRunPlanning ==
  ASSUME Types, SumLast(program), NEW p \in Ranks, Planning(p), DryRun(p)
  PROVE  Planning(p)'
<1> DEFINE mine == Twin(p, CalledAs(p, NextCall(p)), size[p])
<1>1. /\ phase[p] = "dry" /\ at[p] < Len(program)
      /\ at' = [at EXCEPT ![p] = at[p] + 1]
      /\ asked' = [asked EXCEPT ![p] = [op \in Ops |-> asked[p][op] \o SizesOf(op, mine)]]
      /\ size' = [size EXCEPT ![p] = TwinReturns(NextCall(p), size[p])]
      /\ UNCHANGED <<program, phase, stock, online, ndss, checks>>
  BY DryRunFacts
<1>2. /\ at'[p] = at[p] + 1 /\ asked'[p] = [op \in Ops |-> asked[p][op] \o SizesOf(op, mine)]
      /\ size'[p] = TwinReturns(NextCall(p), size[p]) /\ phase'[p] = "dry"
      /\ at[p] \in Nat /\ Len(program) \in Nat /\ program \in Seq(Operations)
  BY <1>1 DEF Types
<1>3. /\ size[p] = Left(program, at[p]) /\ online[p] = <<>> /\ checks[p] = 0
      /\ \A x \in Slots : Filled(x, asked[p][x[1]]) = Cum(program, p, x, at[p])
  BY <1>1 DEF Planning
<1>4. at[p] + 1 < Len(program) => size'[p] = Left(program, at[p] + 1)
  BY <1>1, <1>2, <1>3, SizeLeft
<1>5. ASSUME NEW x \in Slots
      PROVE  Filled(x, asked'[p][x[1]]) = Cum(program, p, x, at[p] + 1)
  <2>1. x[1] \in Ops
    BY SlotOps
  <2>2. asked'[p][x[1]] = asked[p][x[1]] \o SizesOf(x[1], mine)
    BY <1>2, <2>1
  <2>3. NextCall(p) \in Operations /\ size[p] \in 1 .. Elements
    BY <1>1, NextCallFacts
  <2>4. SizesOf(x[1], mine) \in Seq(Nat)
    BY <2>3, TwinTypes
  <2>5. asked[p][x[1]] \in Seq(Nat)
    BY <2>1 DEF Types
  <2>6. Filled(x, asked[p][x[1]] \o SizesOf(x[1], mine))
          = Filled(x, asked[p][x[1]]) + Filled(x, SizesOf(x[1], mine))
    BY <2>4, <2>5, FilledFacts
  <2>7. Taken(program, p, x, at[p] + 1) = Filled(x, SizesOf(x[1], mine))
    <3>1. (at[p] + 1) - 1 = at[p]
      BY <1>2
    <3>2. QED
      BY <1>3, <3>1 DEF Taken, NextCall
  <2>8. Cum(program, p, x, at[p] + 1)
          = Cum(program, p, x, at[p]) + Taken(program, p, x, at[p] + 1)
    <3>1. at[p] \in 0 .. Len(program) - 1
      BY <1>1, <1>2
    <3>2. QED
      BY <1>2, <3>1, CumFacts
  <2>9. QED
    BY <1>3, <2>2, <2>6, <2>7, <2>8
<1>6. QED
  BY <1>1, <1>2, <1>3, <1>4, <1>5 DEF Planning

\* force_cache fills the cache with what all calls take together.
LEMMA ForceCachePlanning ==
  ASSUME Types, SumLast(program), NEW p \in Ranks, Planning(p), ForceCache(p)
  PROVE  Planning(p)'
<1>1. /\ phase[p] = "dry" /\ at[p] = Len(program)
      /\ stock' = [stock EXCEPT ![p] = [s \in Slots |-> Filled(s, asked[p][s[1]])]]
      /\ phase' = [phase EXCEPT ![p] = "online"]
      /\ at' = [at EXCEPT ![p] = 0]
      /\ size' = [size EXCEPT ![p] = Elements]
      /\ UNCHANGED <<program, asked, online, ndss, checks>>
  BY ForceCacheFacts
<1>2. /\ phase'[p] = "online" /\ at'[p] = 0 /\ size'[p] = Elements
      /\ stock'[p] = [s \in Slots |-> Filled(s, asked[p][s[1]])]
      /\ program \in Seq(Operations)
  BY <1>1 DEF Types
<1>3. /\ online[p] = <<>> /\ checks[p] = 0
      /\ \A x \in Slots : Filled(x, asked[p][x[1]]) = Cum(program, p, x, Len(program))
  BY <1>1 DEF Planning
<1>4. Left(program, 0) = Elements
  BY <1>2, LeftFacts
<1>5. ASSUME NEW x \in Slots
      PROVE  stock'[p][x] + Cum(program, p, x, 0) = Cum(program, p, x, Len(program))
  <2>1. Cum(program, p, x, 0) = 0
    BY <1>2, CumFacts
  <2>2. Len(program) \in 0 .. Len(program)
    BY <1>2
  <2>3. Cum(program, p, x, Len(program)) \in Nat
    BY <1>2, <2>2, CumFacts
  <2>4. stock'[p][x] = Cum(program, p, x, Len(program))
    BY <1>2, <1>3
  <2>5. QED
    BY <2>1, <2>3, <2>4
<1>6. QED
  BY <1>1, <1>2, <1>3, <1>4, <1>5 DEF Planning

\* A call takes what its twin has counted.
LEMMA OnlinePlanning ==
  ASSUME Types, SumLast(program), NEW p \in Ranks, Planning(p), Online(p)
  PROVE  Planning(p)'
<1> DEFINE f == NextCall(p)
<1>1. PICK after : after = After(p, CalledAs(p, f), size[p], Has(p))
  OBVIOUS
<1>2. /\ phase[p] = "online" /\ at[p] < Len(program)
      /\ at' = [at EXCEPT ![p] = at[p] + 1]
      /\ stock' = [stock EXCEPT ![p] = after.stock]
      /\ online' = [online EXCEPT ![p] = after.online]
      /\ checks' = [checks EXCEPT ![p] = after.checks]
      /\ size' = [size EXCEPT ![p] = Returns(f, size[p])]
      /\ UNCHANGED <<program, phase, asked>>
  BY <1>1, OnlineFacts
<1>3. /\ at'[p] = at[p] + 1 /\ stock'[p] = after.stock /\ online'[p] = after.online
      /\ checks'[p] = after.checks /\ size'[p] = Returns(f, size[p]) /\ phase'[p] = "online"
      /\ at[p] \in Nat /\ Len(program) \in Nat /\ program \in Seq(Operations)
  BY <1>2 DEF Types
<1>4. f \in Operations /\ size[p] \in 1 .. Elements /\ Has(p) \in Holdings
  BY <1>2, NextCallFacts
<1>5. size[p] = Left(program, at[p])
  BY <1>2 DEF Planning
<1>6. at[p] + 1 < Len(program) => size'[p] = Left(program, at[p] + 1)
  BY <1>2, <1>3, <1>5, SizeLeft
<1>7. ASSUME after.checks = 0
      PROVE  /\ after.online = <<>>
             /\ \A x \in Slots : after.stock[x] + Cum(program, p, x, at[p] + 1)
                                   = Cum(program, p, x, Len(program))
  <2>1. after \in Holdings /\ Grown(Has(p), after)
    BY <1>1, <1>4, AfterFacts
  <2>2. checks[p] = 0
    <3>1. Has(p).checks <= after.checks /\ Has(p).checks = checks[p] /\ checks[p] \in Nat
      BY <2>1 DEF Grown, Has, Types
    <3>2. QED
      BY <1>7, <3>1
  <2>3. /\ Has(p).online = <<>>
        /\ \A x \in Slots : Has(p).stock[x] + Cum(program, p, x, at[p])
                              = Cum(program, p, x, Len(program))
    BY <1>2, <2>2 DEF Planning, Has
  <2>4. ASSUME NEW x \in Slots
        PROVE  /\ Cum(program, p, x, at[p] + 1)
                    = Cum(program, p, x, at[p]) + Taken(program, p, x, at[p] + 1)
               /\ Taken(program, p, x, at[p] + 1)
                    = Filled(x, SizesOf(x[1], Twin(p, CalledAs(p, f), size[p])))
               /\ Cum(program, p, x, at[p]) \in Nat
               /\ Cum(program, p, x, at[p] + 1) <= Cum(program, p, x, Len(program))
               /\ Cum(program, p, x, Len(program)) \in Nat
               /\ Taken(program, p, x, at[p] + 1) \in Nat /\ Has(p).stock[x] \in Nat
    <3>1. /\ at[p] \in 0 .. Len(program) - 1 /\ at[p] \in 0 .. Len(program)
          /\ at[p] + 1 \in 0 .. Len(program) /\ (at[p] + 1) - 1 = at[p]
          /\ Len(program) \in 0 .. Len(program)
      <4>1. PICK k \in Nat, n \in Nat : k = at[p] /\ n = Len(program)
        BY <1>3
      <4>2. k < n
        BY <1>2, <4>1
      <4>3. /\ k \in 0 .. n - 1 /\ k \in 0 .. n /\ k + 1 \in 0 .. n /\ (k + 1) - 1 = k
            /\ n \in 0 .. n
        BY <4>2
      <4>4. QED
        BY <4>1, <4>3
    <3>2. /\ Cum(program, p, x, at[p] + 1)
               = Cum(program, p, x, at[p]) + Taken(program, p, x, at[p] + 1)
          /\ Cum(program, p, x, at[p]) \in Nat
          /\ Cum(program, p, x, at[p] + 1) <= Cum(program, p, x, Len(program))
          /\ Cum(program, p, x, Len(program)) \in Nat
          /\ Taken(program, p, x, at[p] + 1) \in Nat
      BY <1>3, <3>1, CumFacts
    <3>3. Taken(program, p, x, at[p] + 1)
            = Filled(x, SizesOf(x[1], Twin(p, CalledAs(p, f), size[p])))
      BY <1>5, <3>1 DEF Taken, NextCall
    <3>4. Has(p).stock[x] \in Nat
      BY <1>4 DEF Holdings
    <3>5. QED
      BY <3>2, <3>3, <3>4
  <2>5. CASE f = "NdssDelayCheck"
    <3>1. after = NdssDelayCheck(p, Has(p))
      BY <1>1, <2>5 DEF After, CalledAs
    <3>2. Has(p).ndss = 0
      BY <1>4, <1>7, <3>1, NdssDelayCheckFacts
    <3>3. after = Has(p)
      BY <3>1, <3>2 DEF NdssDelayCheck
    <3>4. ASSUME NEW x \in Slots
          PROVE  after.stock[x] + Cum(program, p, x, at[p] + 1)
                   = Cum(program, p, x, Len(program))
      <4>1. Twin(p, CalledAs(p, f), size[p]) = <<>>
        BY <1>4, <2>5, CallFacts
      <4>2. SizesOf(x[1], <<>>) = <<>> /\ Filled(x, <<>>) = 0
        BY SizesOne, FilledOne
      <4>3. Taken(program, p, x, at[p] + 1) = 0
        BY <2>4, <4>1, <4>2
      <4>4. Has(p).stock[x] + Cum(program, p, x, at[p]) = Cum(program, p, x, Len(program))
        BY <2>3
      <4>5. QED
        BY <2>4, <3>3, <4>3, <4>4
    <3>5. QED
      BY <2>3, <3>3, <3>4
  <2>6. CASE f # "NdssDelayCheck"
    <3>1. PICK requests : requests = Requested(p, CalledAs(p, f), size[p])
      OBVIOUS
    <3>2. /\ requests \in Seq(Reqs)
          /\ \A x \in Slots : Need(x, requests)
               = Filled(x, SizesOf(x[1], Twin(p, CalledAs(p, f), size[p])))
      BY <1>4, <2>6, <3>1, CallFacts
    <3>3. after = CarriedOn(p, Has(p), requests)
      BY <1>1, <2>6, <3>1 DEF After, CalledAs
    <3>4. ASSUME NEW x \in Slots
          PROVE  /\ Need(x, requests) = Taken(program, p, x, at[p] + 1)
                 /\ Need(x, requests) <= Has(p).stock[x]
      <4>1. Need(x, requests) = Taken(program, p, x, at[p] + 1)
        BY <2>4, <3>2
      <4>2. Has(p).stock[x] + Cum(program, p, x, at[p]) = Cum(program, p, x, Len(program))
        BY <2>3
      <4>3. QED
        BY <2>4, <4>1, <4>2
    <3>5. /\ CarriedOn(p, Has(p), requests).online = Has(p).online
          /\ \A x \in Slots : CarriedOn(p, Has(p), requests).stock[x] + Need(x, requests)
                                = Has(p).stock[x]
      <4>1. CarriedOn(p, Has(p), requests).checks = 0
        BY <1>7, <3>3
      <4>2. \A x \in Slots : Need(x, requests) <= Has(p).stock[x]
        BY <3>4
      <4>3. QED
        BY <1>4, <3>2, <4>1, <4>2, CallCovered
    <3>6. ASSUME NEW x \in Slots
          PROVE  after.stock[x] + Cum(program, p, x, at[p] + 1)
                   = Cum(program, p, x, Len(program))
      <4>1. after.stock[x] + Taken(program, p, x, at[p] + 1) = Has(p).stock[x]
        BY <3>3, <3>4, <3>5
      <4>2. Has(p).stock[x] + Cum(program, p, x, at[p]) = Cum(program, p, x, Len(program))
        BY <2>3
      <4>3. after.stock[x] \in Nat
        BY <2>1 DEF Holdings
      <4>4. QED
        BY <2>4, <4>1, <4>2, <4>3
    <3>7. QED
      BY <2>3, <3>3, <3>5, <3>6
  <2>7. QED
    BY <2>5, <2>6
<1>8. QED
  BY <1>2, <1>3, <1>6, <1>7 DEF Planning

\* A program at its end has taken everything.
LEMMA EndPlanning ==
  ASSUME Types, SumLast(program), NEW p \in Ranks, Planning(p), End(p)
  PROVE  Planning(p)'
<1>1. /\ phase[p] = "online" /\ at[p] = Len(program) /\ phase'[p] = "done"
      /\ UNCHANGED <<program, at, size, asked, stock, tape, online, ndss, checks>>
  BY DEF End, Types
<1>2. ASSUME checks[p] = 0
      PROVE  online[p] = <<>> /\ \A x \in Slots : stock[p][x] = 0
  <2>1. /\ online[p] = <<>>
        /\ \A x \in Slots : stock[p][x] + Cum(program, p, x, Len(program))
                              = Cum(program, p, x, Len(program))
    BY <1>1, <1>2 DEF Planning
  <2>2. ASSUME NEW x \in Slots
        PROVE  stock[p][x] = 0
    <3>1. program \in Seq(Operations) /\ stock[p][x] \in Nat
      BY DEF Types
    <3>2. Len(program) \in 0 .. Len(program)
      BY <3>1
    <3>3. Cum(program, p, x, Len(program)) \in Nat
      BY <3>1, <3>2, CumFacts
    <3>4. QED
      BY <2>1, <3>1, <3>3
  <2>3. QED
    BY <2>1, <2>2
<1>3. QED
  BY <1>1, <1>2 DEF Planning

\* A step of one rank leaves the plan of the other.
LEMMA OtherPlanning ==
  ASSUME Types, NEW p \in Ranks, RankStep(p), NEW q \in Ranks \ {p}, Planning(q)
  PROVE  Planning(q)'
<1>1. /\ phase'[q] = phase[q] /\ at'[q] = at[q] /\ size'[q] = size[q]
      /\ asked'[q] = asked[q] /\ stock'[q] = stock[q]
      /\ online'[q] = online[q] /\ checks'[q] = checks[q] /\ program' = program
  BY OthersKept, StepView
<1>2. QED
  BY <1>1 DEF Planning

\* The plan of each rank always holds.
LEMMA AlwaysCovering == Spec => [](Types /\ Covering)
<1>1. Init => Types /\ Covering
  BY InitTypes, InitCovering
<1>2. Types /\ Covering /\ [Next]_vars => Types' /\ Covering'
  <2> SUFFICES ASSUME Types, Covering, [Next]_vars
               PROVE  Types' /\ Covering'
    OBVIOUS
  <2>1. CASE UNCHANGED vars
    BY <2>1 DEF vars, Types, Covering, Planning
  <2>2. ASSUME NEW p \in Ranks, RankStep(p)
        PROVE  Types' /\ Covering'
    <3>1. Types'
      BY <2>2, RankStepTypes
    <3>2. program' = program
      BY <2>2, StepView
    <3>3. SUFFICES ASSUME SumLast(program), NEW q \in Ranks
                   PROVE  Planning(q)'
      BY <3>1, <3>2 DEF Covering
    <3>4. Planning(q)
      BY <3>3 DEF Covering
    <3>5. CASE q = p
      BY <2>2, <3>3, <3>4, <3>5, DryRunPlanning, ForceCachePlanning, OnlinePlanning,
         EndPlanning DEF RankStep
    <3>6. CASE q # p
      BY <2>2, <3>4, <3>6, OtherPlanning
    <3>7. QED
      BY <3>5, <3>6
  <2>3. (\E p \in Ranks : RankStep(p)) \/ UNCHANGED vars
    BY DEF Next, RankStep
  <2>4. QED
    BY <2>1, <2>2, <2>3
<1>3. QED
  BY <1>1, <1>2, PTL DEF Spec

\* A program the dry run can foresee is one with nothing after a sum.
LEMMA ForeseenFacts ==
  ASSUME Types, Covering, NEW p \in Ranks, Foreseen(p)
  PROVE  Planning(p) /\ checks[p] = 0
<1>1. DOMAIN program = 1 .. Len(program)
  BY DEF Types
<1>2. SumLast(program) /\ checks[p] = 0
  BY <1>1 DEF Foreseen, SumLast
<1>3. QED
  BY <1>2 DEF Covering

\* Of a program its dry run can foresee, no operation generates a correlation
\* online: each _cache twin counts enough of every shape its operation takes.
THEOREM DryRunsCover == Spec => []OfflineCovers
<1>1. Types /\ Covering => OfflineCovers
  <2> SUFFICES ASSUME Types, Covering, NEW p \in Ranks, Foreseen(p)
               PROVE  online[p] = <<>>
    BY DEF OfflineCovers
  <2>1. Planning(p) /\ checks[p] = 0
    BY ForeseenFacts
  <2>2. phase[p] \in {"dry", "online", "done"}
    BY DEF Types
  <2>3. QED
    BY <2>1, <2>2 DEF Planning
<1>2. QED
  BY <1>1, AlwaysCovering, PTL

\* Of such a program no correlation is generated for nobody: at its end the
\* cache is empty, so no _cache twin counts more than its operation takes.
THEOREM NothingLeftOver == Spec => []NothingWasted
<1>1. Types /\ Covering => NothingWasted
  <2> SUFFICES ASSUME Types, Covering, NEW p \in Ranks, phase[p] = "done", Foreseen(p)
               PROVE  \A s \in Slots : stock[p][s] = 0
    BY DEF NothingWasted
  <2>1. Planning(p) /\ checks[p] = 0
    BY ForeseenFacts
  <2>2. QED
    BY <2>1 DEF Planning
<1>2. QED
  BY <1>1, AlwaysCovering, PTL
=============================================================================
