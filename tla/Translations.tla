---------------------------- MODULE Translations ----------------------------
(***************************************************************************)
(* The values of the shuffles and translations of mosac: how both ranks    *)
(* draw them from trees of random masks (mosac/cr/utils/shuffle.cc), how   *)
(* ASTSet and its variants merge many short ones into one that is          *)
(* checked, and how the functions named _2k lay blocks out into a long one *)
(* (mosac/cr/true_cr.cc).  TranslationScripts has the messages of the same *)
(* code; here a message arrives, and the values are what matters.          *)
(*                                                                         *)
(* A translation under perm is two shared vectors a and b (lhs and rhs in  *)
(* shuffle.cc) that open to the same values with macs, b's under perm.     *)
(* Rank "set" knows perm, rank "get" does not.  A shared element is a pair *)
(* of value and mac at each rank; the field is the numbers modulo Q.       *)
(***************************************************************************)
EXTENDS Integers, Sequences, FiniteSets, FiniteSetsExt, SequencesExt

CONSTANTS
  Q,             \* bound: the field, a prime
  Key,           \* the sum of both ranks' mac keys
  KeyR, KeyT,    \* the keys of the two VOLEs of a double translation
  Draw(_),       \* the random element at an index, a tuple of numbers
  GenPerm(_, _), \* a permutation of 0 .. n - 1, for a seed
  Jobs,          \* the calls: function, size n, block size T
  Seeds,         \* where the seeds of a call start
  MergeRounds,   \* bound: what findB and findB_double return, B in DoubleASTSet
  BatchSize,     \* bound: batch_size of the functions named _2k
  Errors,        \* what is added to a wrong element: pairs
  Places         \* bound: the indices of wrong elements

Functions2k == {"ASTSet_2k", "DoubleASTSet_2k", "_DoubleASTSet_2k"}
Names == {"ShuffleSet", "ASTSet", "DoubleASTSet"} \cup Functions2k

ASSUME TranslationsAssumption ==
  /\ Q \in Nat \ {0, 1} /\ Key \in 0 .. Q - 1
  /\ {KeyR, KeyT} \subseteq 0 .. Q - 1 /\ KeyR # KeyT
  /\ MergeRounds \in Nat \ {0, 1} /\ BatchSize \in Nat \ {0} /\ Seeds \subseteq Nat
  /\ Errors \subseteq (0 .. Q - 1) \X (0 .. Q - 1)
  /\ \A job \in Jobs : job.name \in Names /\ (job.name \notin Functions2k => job.n = job.T)

VARIABLES
  job,    \* the call, its seeds, and what goes wrong in it
  stage,  \* where the call is
  pool,   \* the merged translations of T elements, in the order they are made
  fresh,  \* the translations of the batch that is being merged
  turn,   \* the round of the merge, or the layer
  acc,    \* the translations merged so far, side by side, or the layers so far
  spent,  \* the slices of VOLE correlations the call has used
  found   \* the checks that fail

vars == <<job, stage, pool, fresh, turn, acc, spent, found>>

-----------------------------------------------------------------------------

Log2Ceil(n) == Min({k \in 0 .. n : 2 ^ k >= n})
DivCeil(x, y) == (x + y - 1) \div y

\* A block is a part of the call, and has at least two elements: T_bits divides.
ASSUME BlocksAssumption ==
  \A j \in Jobs : /\ {j.T, Log2Ceil(j.T), Log2Ceil(j.n)} \subseteq Nat \ {0}
                  /\ j.n \in Nat /\ j.n >= j.T

\* Both are powers of two where blocks are laid out.
ASSUME LayersAssumption ==
  \A j \in Jobs : j.name \in Functions2k =>
    j.n = 2 ^ Log2Ceil(j.n) /\ j.T = 2 ^ Log2Ceil(j.T)

\* Shared elements and vectors of them, numbered from 0.
Sides == {"set", "get"}
Add(x, y) == [s \in Sides |-> [c \in 1 .. 2 |-> (x[s][c] + y[s][c]) % Q]]
Sub(x, y) == [s \in Sides |-> [c \in 1 .. 2 |-> (x[s][c] - y[s][c]) % Q]]
AddVec(v, w) == [i \in DOMAIN v |-> Add(v[i], w[i])]
SubVec(v, w) == [i \in DOMAIN v |-> Sub(v[i], w[i])]
Open(x) == [c \in 1 .. 2 |-> (x.set[c] + x.get[c]) % Q]
MacHolds(x) == Open(x)[2] = (Key * Open(x)[1]) % Q
Sum(pairs) ==
  [c \in 1 .. 2 |-> MapThenSumSet(LAMBDA i : pairs[i][c], DOMAIN pairs) % Q]
Concat(vecs) ==
  LET size == Cardinality(DOMAIN vecs[1])
  IN  [p \in 0 .. Len(vecs) * size - 1 |-> vecs[p \div size + 1][p % size]]

\* RandomAuth: a random value with its mac, at an index of the draws.
RandomAuth(x) ==
  LET set == <<Draw(x \o <<1>>), Draw(x \o <<2>>)>>
      val == Draw(x \o <<3>>)
  IN  [set |-> set, get |-> <<val, (Key * (set[1] + val) - set[2]) % Q>>]

\* AuthSet and AuthGet: the values of set, with macs.
Auth(vals, x) ==
  [i \in DOMAIN vals |->
     LET mac == Draw(x \o <<i>>)
     IN  [set |-> <<vals[i], mac>>, get |-> <<0, (Key * vals[i] - mac) % Q>>]]

Double == job.name \in {"DoubleASTSet", "DoubleASTSet_2k", "_DoubleASTSet_2k"}
Columns == IF Double THEN 1 .. 2 ELSE {1}

\* Something is wrong with translation f at index i.
Wrong(what, f, i) == job.fault.what = what /\ job.fault.id = f /\ job.fault.at = i
Bump(pair, wrong) ==
  [c \in 1 .. 2 |-> (pair[c] + (IF wrong THEN job.fault.err[c] ELSE 0)) % Q]

Perm(f) == GenPerm(job.T, job.seed + f)

-----------------------------------------------------------------------------

\* The i-th tree of translation f.  get knows all its leaves, set all but
\* the one at perm[i]: a row is wrong when another of set's leaves is.  The
\* leaves of column 0 are for the consistency check.
WrongLeaf(f, i, j) == Wrong("row", f, i) /\ j = (Perm(f)[i] + 1) % job.T
Leaf(f, c, i, j) == <<Draw(<<f, c, i, j, 1>>), Draw(<<f, c, i, j, 2>>)>>
SetLeaf(f, c, i, j) == Bump(Leaf(f, c, i, j), WrongLeaf(f, i, j))

GetLeaves(f, c) ==
  [i \in 0 .. job.T - 1 |-> [j \in 0 .. job.T - 1 |-> Leaf(f, c, i, j)]]
WrongSetLeaves(f, c) ==
  [i \in 0 .. job.T - 1 |-> [j \in 0 .. job.T - 1 |->
     IF j = i THEN <<0, 0>> ELSE SetLeaf(f, c, i, j)]]
SetLeaves(f, c) ==
  [i \in 0 .. job.T - 1 |-> [j \in 0 .. job.T - 1 |->
     IF j = Perm(f)[i] THEN <<0, 0>> ELSE SetLeaf(f, c, i, j)]]

\* The sums of the leaves of all trees at a place, and of a tree.
Sums(leaves) ==
  [a |-> [j \in 0 .. job.T - 1 |-> Sum([i \in 0 .. job.T - 1 |-> leaves[i][j]])],
   b |-> [i \in 0 .. job.T - 1 |-> Sum([j \in 0 .. job.T - 1 |-> leaves[i][j]])]]

\* BatchASTSend_check, BatchASTRecv_check: over one bit of the leaves, which
\* another leaf changes; set's leaf at perm[i] is some value of its own.
GetBit(f, i, j) == Leaf(f, 0, i, j)[1] % 2
SetBit(f, i, j) ==
  IF j = Perm(f)[i] THEN Draw(<<f, i>>) % 2
  ELSE IF WrongLeaf(f, i, j) THEN 1 - GetBit(f, i, j) ELSE GetBit(f, i, j)
Consistent(f) ==
  LET I == 0 .. job.T - 1
      Xor(bits) == MapThenSumSet(LAMBDA i : bits[i], I) % 2
      check_a == [j \in I |-> (Xor([i \in I |-> SetBit(f, i, j)])
                               + Xor([i \in I |-> GetBit(f, i, j)])) % 2]
  IN  \A i \in I :
        (Xor([j \in I |-> SetBit(f, i, j)]) + check_a[Perm(f)[i]]) % 2
          = Xor([j \in I |-> GetBit(f, i, j)])

\* SgrrShuffleSend_internal and SgrrShuffleRecv_internal: set gets the
\* differences (the functions over other trees do the same).
ShuffleSend(f) ==
  LET sums == Sums(SetLeaves(f, 1))
  IN  [i \in DOMAIN sums.a |->
         [k \in 1 .. 2 |-> (sums.a[Perm(f)[i]][k] - sums.b[i][k]) % Q]]
ShuffleRecv(f) ==
  LET sums == Sums(GetLeaves(f, 1))
  IN  [a |-> [j \in DOMAIN sums.a |-> [k \in 1 .. 2 |-> -sums.a[j][k] % Q]], b |-> sums.b]

\* ASTSend_internal and ASTRecv_internal, one column of a translation.  get
\* sends set its shares of the random r without its sums: r_sub_b.
r(f, c, i) == RandomAuth(<<f, c, i>>)
ASTRecv(f, c) ==
  LET sums == Sums(GetLeaves(f, c))
  IN  [r_sub_b |-> [i \in DOMAIN sums.b |->
         Bump([k \in 1 .. 2 |-> (r(f, c, i).get[k] - sums.b[i][k]) % Q],
              c = 1 /\ Wrong("correction", f, i))],
       lhs |-> sums.b,
       rhs |-> [j \in DOMAIN sums.a |-> Bump(sums.a[j], c = 1 /\ Wrong("share", f, j))]]
ASTSend(f, c, r_sub_b) ==
  LET sums == Sums(SetLeaves(f, c))
      lhs == [i \in DOMAIN sums.b |-> [k \in 1 .. 2 |-> (r_sub_b[i][k] + r(f, c, i).set[k]) % Q]]
      rhs(i) == [k \in 1 .. 2 |-> (lhs[i][k] + sums.b[i][k] - sums.a[Perm(f)[i]][k]) % Q]
  IN  [lhs |-> lhs,
       rhs |-> [j \in DOMAIN sums.a |-> rhs(CHOOSE i \in DOMAIN sums.b : Perm(f)[i] = j)]]

\* DoubleASTSend_internal and DoubleASTRecv_internal: two columns at once.
DoubleASTRecv(f) == [c \in 1 .. 2 |-> ASTRecv(f, c)]
DoubleASTSend(f, r_sub_b) == [c \in 1 .. 2 |-> ASTSend(f, c, r_sub_b[c])]

Translation(f) ==
  LET get == IF Double THEN DoubleASTRecv(f) ELSE <<ASTRecv(f, 1)>>
      set == IF Double THEN DoubleASTSend(f, [c \in 1 .. 2 |-> get[c].r_sub_b])
             ELSE <<ASTSend(f, 1, get[1].r_sub_b)>>
      Shared(c, v) == [i \in 0 .. job.T - 1 |-> [set |-> set[c][v][i], get |-> get[c][v][i]]]
  IN  [perm |-> Perm(f), ids |-> <<f>>,
       a |-> [c \in Columns |-> Shared(c, "lhs")], b |-> [c \in Columns |-> Shared(c, "rhs")]]

-----------------------------------------------------------------------------

\* compose_vec_2k and compose_perm_2k: where the elements of the blocks of
\* layer l go.  The layers after the middle one mirror those before it.
num_bits == Log2Ceil(job.n)
T_bits == Log2Ceil(job.T)
T_num == job.n \div job.T
depth == 2 * DivCeil(num_bits, T_bits) - 1

WrongMirror(l) == IF 2 * l > depth THEN depth - l ELSE l
Mirror(l) == IF 2 * l > depth THEN depth - l - 1 ELSE l
Step(l) == 2 ^ Max({0, num_bits - (Mirror(l) + 1) * T_bits})

Offset(step) ==
  LET offset[p \in 0 .. T_num - 1] ==
        IF p = 0 THEN 0
        ELSE LET next == offset[p - 1] + 1
             IN  IF next % (job.T * step) = step THEN next + step * (job.T - 1) ELSE next
  IN  offset

\* Vectors or permutations of blocks laid out for layer l.
compose_vec_2k(l, ins) ==
  LET off == Offset(Step(l))
      at == [pj \in (0 .. T_num - 1) \X (0 .. job.T - 1) |-> off[pj[1]] + pj[2] * Step(l)]
  IN  [x \in 0 .. job.n - 1 |->
         LET pj == CHOOSE pj \in DOMAIN at : at[pj] = x IN ins[pj[1] + 1][pj[2]]]
WrongCompose(l, perms) ==
  compose_vec_2k(l, [p \in 1 .. T_num |-> [j \in 0 .. job.T - 1 |-> perms[p][j] * Step(l)]])
compose_perm_2k(l, perms) ==
  LET off == Offset(Step(l))
  IN  compose_vec_2k(l, [p \in 1 .. T_num |->
         [j \in 0 .. job.T - 1 |-> off[p - 1] + perms[p][j] * Step(l)]])

\* The blocks of layer l, and translations side by side, as one.
Layout(l, ts) ==
  [perm |-> compose_perm_2k(l, [p \in DOMAIN ts |-> ts[p].perm]),
   ids |-> <<FlattenSeq([p \in DOMAIN ts |-> ts[p].ids])>>,
   a |-> [c \in Columns |-> compose_vec_2k(l, [p \in DOMAIN ts |-> ts[p].a[c]])],
   b |-> [c \in Columns |-> compose_vec_2k(l, [p \in DOMAIN ts |-> ts[p].b[c]])]]

Join(ts) ==
  [perm |-> Concat([p \in DOMAIN ts |->
              [i \in 0 .. job.T - 1 |-> (p - 1) * job.T + ts[p].perm[i]]]),
   ids |-> [p \in DOMAIN ts |-> ts[p].ids],
   a |-> [c \in Columns |-> Concat([p \in DOMAIN ts |-> ts[p].a[c]])],
   b |-> [c \in Columns |-> Concat([p \in DOMAIN ts |-> ts[p].b[c]])]]

Split(t) ==
  LET Part(v, p) == [i \in 0 .. job.T - 1 |-> v[(p - 1) * job.T + i]]
  IN  [p \in DOMAIN t.ids |->
         [perm |-> [i \in 0 .. job.T - 1 |-> t.perm[(p - 1) * job.T + i] - (p - 1) * job.T],
          ids |-> t.ids[p],
          a |-> [c \in Columns |-> Part(t.a[c], p)], b |-> [c \in Columns |-> Part(t.b[c], p)]]]

-----------------------------------------------------------------------------

\* What a round does with translation y after x: shuffle_perm and shuffle_p.
WrongThen(perm, _perm) == [i \in DOMAIN perm |-> perm[_perm[i]]]
Then(perm, _perm) == [i \in DOMAIN perm |-> _perm[perm[i]]]
Put(_perm, p) == [j \in DOMAIN p |-> p[CHOOSE i \in DOMAIN p : _perm[i] = j]]

\* The VOLEs a round multiplies over: their number, how many elements each
\* has, and the first one of the round.
WrongMergeVoles(size) ==
  IF job.name = "DoubleASTSet" THEN [no |-> <<0, turn>>, of |-> 4 * size, base |-> 0]
  ELSE [no |-> <<0, Len(pool)>>, of |-> 4 * size * MergeRounds, base |-> 2 * size * turn]
MergeVoles(size) ==
  IF job.name = "DoubleASTSet" THEN [no |-> <<0, turn>>, of |-> 4 * size, base |-> 0]
  ELSE [no |-> <<0, Len(pool)>>, of |-> 4 * size * MergeRounds, base |-> 4 * size * turn]
LayerVoles ==
  [no |-> <<1, 0>>, of |-> 4 * job.n * (depth - 1), base |-> 4 * job.n * (turn - 1)]

\* MulHelperSet and MulHelperGet: a shared vector times a key of get, over
\* the elements of a VOLE from first.
MulHelper(key, v, vole, first) ==
  LET vole_a(i, k) == Draw(vole \o <<first + i, 2 * k>>)
      vole_b(i, k) == Draw(vole \o <<first + i, 2 * k + 1>>)
      vole_c(i, k) == vole_b(i, k) + key * vole_a(i, k)
  IN  [i \in DOMAIN v |->
         [set |-> [k \in 1 .. 2 |-> -vole_b(i, k) % Q],
          get |-> [k \in 1 .. 2 |->
                     (key * (v[i].set[k] - vole_a(i, k) + v[i].get[k]) + vole_c(i, k)) % Q]]]

\* The products of a round in column c: b by R, _a and _b by T, the new b
\* by R; where in the VOLEs each starts and how many elements it takes.
Slices(c, size, voles) ==
  <<[vole |-> voles.no \o <<1>>, first |-> voles.base + (c - 1) * size, count |-> size],
    [vole |-> voles.no \o <<2>>, first |-> voles.base + (c - 1) * 2 * size, count |-> 2 * size],
    [vole |-> voles.no \o <<1>>, first |-> voles.base + (c + 1) * size, count |-> size]>>

Product(key, v, slice) == MulHelper(key, v, slice.vole, slice.first)

\* One round in column c: what is opened, and the new b.
Opened(x, y, c) == SubVec(x.b[c], y.a[c])
Values(v) == [i \in DOMAIN v |-> Open(v[i])[1]]
NewB(x, y, c) ==
  AddVec(y.b[c], Auth(Put(y.perm, Values(Opened(x, y, c))), <<turn, Len(pool), c, 0>>))

\* The vectors whose macs a round has checked later: the opened ones, and
\* those of AShareLineCombineDelayCheck.
WrongLines(x, y) == IF Double THEN {NewB(x, y, c) : c \in Columns} ELSE {x.a[1]}
Lines(x, y) ==
  CASE job.name \in {"DoubleASTSet", "DoubleASTSet_2k"} -> {}
    [] job.name = "_DoubleASTSet_2k" -> {NewB(x, y, c) : c \in Columns}
    [] OTHER -> {NewB(x, y, 1), x.a[1]}

\* The check of a double round: b times R, opened and put back as b was,
\* is the new b times R.
Products(x, y, c, slices) ==
  LET size == Cardinality(DOMAIN y.perm)
      bR == Product(KeyR, x.b[c], slices[1])
      _abT == Product(KeyT, Concat(<<y.a[c], y.b[c]>>), slices[2])
      _aT == [i \in 0 .. size - 1 |-> _abT[i]]
      _bT == [i \in 0 .. size - 1 |-> _abT[size + i]]
      pR == SubVec(bR, _aT)
      shuffle_bR == AddVec(_bT, Auth(Put(y.perm, Values(pR)), <<turn, Len(pool), c, 1>>))
      shuffled_bR == Product(KeyR, NewB(x, y, c), slices[3])
  IN  [pR |-> pR,
       agree |-> \A i \in 0 .. size - 1 : Open(shuffled_bR[i]) = Open(shuffle_bR[i])]

MacsHold(v) == \A i \in DOMAIN v : MacHolds(v[i])

Multiplies == job.name \in {"DoubleASTSet", "DoubleASTSet_2k"}

\* A round: acc and y become one translation, unless the delayed checks say
\* so later.
Round(y, voles) ==
  LET size == Cardinality(DOMAIN y.perm)
      slices == [c \in Columns |-> Slices(c, size, voles)]
      products == [c \in Columns |-> Products(acc, y, c, slices[c])]
  IN  /\ acc' = [perm |-> Then(acc.perm, y.perm), a |-> acc.a,
                 b |-> [c \in Columns |-> NewB(acc, y, c)],
                 ids |-> [p \in DOMAIN acc.ids |-> acc.ids[p] \o y.ids[p]]]
      /\ found' = found
           \cup (IF \A c \in Columns : MacsHold(Opened(acc, y, c)) THEN {} ELSE {"open"})
           \cup (IF \A v \in Lines(acc, y) : MacsHold(v) THEN {} ELSE {"line"})
           \cup (IF Multiplies => \A c \in Columns : MacsHold(products[c].pR) THEN {} ELSE {"open"})
           \cup (IF Multiplies => \A c \in Columns : products[c].agree THEN {} ELSE {"double"})
      /\ spent' = IF ~Multiplies THEN spent
                  ELSE spent \o FlattenSeq([c \in Columns |-> [i \in 1 .. 3 |->
                         [vole |-> slices[c][i].vole, first |-> slices[c][i].first,
                          count |-> slices[c][i].count, of |-> voles.of]]])

-----------------------------------------------------------------------------

NoFault == [what |-> "none", id |-> 0, at |-> 0, err |-> <<0, 0>>]
total == T_num * depth

Init ==
  /\ \E j \in Jobs, s \in Seeds :
       LET made == (j.n \div j.T) * (2 * DivCeil(Log2Ceil(j.n), Log2Ceil(j.T)) - 1) * MergeRounds
           faults == [what : {"row", "correction", "share"}, id : 1 .. made,
                      at : Places, err : Errors]
       IN  \E fault \in faults \cup {NoFault} :
             job = [name |-> j.name, n |-> j.n, T |-> j.T, seed |-> s, fault |-> fault]
  /\ stage = "generate" /\ turn = 0
  /\ pool = <<>> /\ fresh = <<>> /\ acc = <<>> /\ spent = <<>> /\ found = {}

\* The j-th translations of round k.
WrongOfRound(k) ==
  LET num == Len(fresh) \div MergeRounds IN [j \in 1 .. num |-> fresh[k + j]]
OfRound(k) ==
  LET num == Len(fresh) \div MergeRounds IN [j \in 1 .. num |-> fresh[k * num + j]]

\* A batch of translations is made, MergeRounds for each one it is to be,
\* and shuffled by a common seed.  ASTSet makes them one by one, DoubleASTSet
\* all at once, and neither shuffles them.  A wrong row ends the call.
Stop(f) == /\ ~Consistent(f)
           /\ stage' = "stopped" /\ found' = {"consistency"}
           /\ UNCHANGED <<job, pool, fresh, turn, acc, spent>>

Generate ==
  /\ stage = "generate" /\ job.name # "ShuffleSet"
  /\ LET first == MergeRounds * Len(pool)
         num == Min({BatchSize, total - Len(pool)})
         made == first + 1 .. first + num * MergeRounds
     IN  \/ \E f \in made : Stop(f)
         \/ /\ \A f \in made : Consistent(f)
            /\ LET identity == [x \in 0 .. Cardinality(made) - 1 |-> x]
                   shuffle == IF job.name \in Functions2k
                              THEN GenPerm(Cardinality(made), job.seed + Len(pool))
                              ELSE identity
               IN  fresh' = [x \in 1 .. Cardinality(made) |->
                               Translation(first + 1 + shuffle[x - 1])]
            /\ acc' = Join(SubSeq(fresh', 1, num))
            /\ stage' = "merge" /\ turn' = 1
            /\ UNCHANGED <<job, pool, spent, found>>

Merge ==
  /\ stage = "merge" /\ turn < MergeRounds
  /\ LET y == Join(OfRound(turn)) IN Round(y, MergeVoles(Cardinality(DOMAIN y.perm)))
  /\ turn' = turn + 1
  /\ UNCHANGED <<job, stage, pool, fresh>>

EndMerge ==
  /\ stage = "merge" /\ turn = MergeRounds
  /\ pool' = pool \o Split(acc)
  /\ fresh' = <<>> /\ turn' = 0
  /\ stage' = IF Len(pool') < total THEN "generate"
              ELSE IF job.name \in Functions2k THEN "layer" ELSE "done"
  /\ UNCHANGED <<job, acc, spent, found>>

Layer ==
  /\ stage = "layer" /\ turn < depth
  /\ LET y == Layout(turn, [i \in 1 .. T_num |-> pool[turn * T_num + i]])
     IN  IF turn = 0 THEN acc' = y /\ UNCHANGED <<spent, found>>
         ELSE Round(y, LayerVoles)
  /\ turn' = turn + 1
  /\ stage' = IF turn' = depth THEN "done" ELSE "layer"
  /\ UNCHANGED <<job, pool, fresh>>

\* A shuffle makes one set of trees, and no translation.
ShuffleSet ==
  /\ stage = "generate" /\ job.name = "ShuffleSet"
  /\ \/ Stop(1)
     \/ /\ Consistent(1)
        /\ acc' = [perm |-> Perm(1), delta |-> ShuffleSend(1),
                   a |-> ShuffleRecv(1).a, b |-> ShuffleRecv(1).b]
        /\ stage' = "done"
        /\ UNCHANGED <<job, pool, fresh, turn, spent, found>>

Next == Generate \/ Merge \/ EndMerge \/ Layer \/ ShuffleSet

Spec == Init /\ [][Next]_vars

-----------------------------------------------------------------------------

Finished == stage = "done" /\ job.name # "ShuffleSet"

IsPermutation(perm) == {perm[i] : i \in DOMAIN perm} = DOMAIN perm

\* A call goes through its stages, and what it has composed so far is under
\* a permutation (shuffle_perm).
TypeOK ==
  /\ job.name \in Names /\ job.seed \in Seeds
  /\ stage \in {"generate", "merge", "layer", "done", "stopped"}
  /\ Len(pool) <= total /\ turn \in 0 .. Max({MergeRounds, depth})
  /\ found \subseteq {"consistency", "open", "line", "double"}
  /\ acc # <<>> => IsPermutation(acc.perm)
  /\ \A p \in DOMAIN pool : IsPermutation(pool[p].perm)

\* The values of b are those of a under the permutation, and have macs.
Translates(t) ==
  \A c \in Columns : \A i \in DOMAIN t.perm :
    /\ Open(t.b[c][t.perm[i]]) = Open(t.a[c][i])
    /\ MacHolds(t.a[c][i]) /\ MacHolds(t.b[c][t.perm[i]])

\* When nothing is wrong no check fails, and what a call returns translates
\* by the permutation it returns to set, through all its rounds and layers.
ChecksPass ==
  job.fault = NoFault =>
    stage # "stopped" /\ found = {} /\ (Finished => Translates(acc))

\* What no check is made to find: a wrong value with a right mac, in a
\* translation of a function that does not multiply, or in one that no
\* round puts after another.
Consistently(err) == err[2] = (Key * err[1]) % Q
Unchecked ==
  /\ job.fault.what = "share" /\ Consistently(job.fault.err)
  /\ \/ ~Multiplies
     \/ job.fault.id \in {pool[p].ids[1] : p \in 1 .. T_num}

\* A wrong element of one of the trees, of the correction or of a share ends
\* the call, is found by a delayed check, or leaves the result right.
FaultsAreFound == Finished /\ ~Unchecked => found # {} \/ Translates(acc)

\* Every element of a VOLE masks one product, and a slice ends within the
\* elements the call has asked for (tmp_a, _tmp_a and their subspans).
MasksSpentOnce ==
  \A x \in DOMAIN spent :
    /\ spent[x].first + spent[x].count <= spent[x].of
    /\ \A y \in DOMAIN spent :
         x # y /\ spent[x].vole = spent[y].vole =>
           \/ spent[x].first + spent[x].count <= spent[y].first
           \/ spent[y].first + spent[y].count <= spent[x].first

\* Every translation made goes into the result, and only once: through the
\* common shuffle, the rounds of the merges and the layers.
EachTranslationOnce ==
  Finished => LET ids == acc.ids[1]
              IN  /\ Len(ids) = total * MergeRounds
                  /\ {ids[x] : x \in DOMAIN ids} = 1 .. total * MergeRounds

\* The differences of set fit the vectors of get, which add up to the same
\* values under the permutation (delta, a and b of ShuffleSet and ShuffleGet).
DeltasFit ==
  stage = "done" /\ job.name = "ShuffleSet" =>
    \A i \in DOMAIN acc.perm : \A k \in 1 .. 2 :
      (acc.delta[i][k] + acc.a[acc.perm[i]][k] + acc.b[i][k]) % Q = 0

\* The layers of blocks of 2 elements reach every permutation of 4 elements: the
\* mirrored layers of ASTSet_2k leave none out.
EveryPermutation ==
  stage = "layer" /\ turn = 0 /\ job.n = 4 /\ job.T = 2 /\ job.fault = NoFault =>
    LET Swaps == {<<p, q>> : p, q \in {[i \in 0 .. 1 |-> i], [i \in 0 .. 1 |-> 1 - i]}}
        layer == [l \in 0 .. 2 |-> {compose_perm_2k(l, ps) : ps \in Swaps}]
    IN  Cardinality({Then(Then(x, y), z) : x \in layer[0], y \in layer[1], z \in layer[2]}) = 24
=============================================================================
