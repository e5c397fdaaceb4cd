------------------------------- MODULE DryRuns -------------------------------
(***************************************************************************)
(* An offline phase and the online one it is made for, at two ranks, each  *)
(* at its own speed.  Every operation of mosac/ss/ashare.cc has a twin,    *)
(* named _cache, that does nothing but count the correlations it is going  *)
(* to ask for.  A program first calls the twins; force_cache generates     *)
(* what has been counted; then the program proper takes it out of the      *)
(* cache, and generates on the spot what it does not find there.           *)
(*                                                                         *)
(* What an operation asks for comes from its script in ShareScripts, what  *)
(* its twin counts is translated here.  A step is a whole call, as a rank  *)
(* served by its cache need not meet its peer.                             *)
(*                                                                         *)
(* tape is what a rank has drawn from the Prg both ranks share, in order,  *)
(* under a FakeCorrelation: there a generation draws the shares of both    *)
(* ranks, so the ranks get matching correlations only if they draw them    *)
(* for the same generation.  Under a TrueCorrelation only the public       *)
(* values are drawn, and the generations on the tape exchange messages     *)
(* that must meet.                                                         *)
(***************************************************************************)
EXTENDS ShareScripts

CONSTANTS
  Programs,  \* bound: the programs, sequences of operations of rank 0
  Elements,  \* bound: the elements a program starts with
  NdssMax    \* bound: DelayMaxSize of NdssBufferAppend, 1 << 24

\* The operations of a Protocol.
Operations ==
  {"RandA", "MulAA", "InvA", "DivAA", "DivPA", "ZeroOneA", "RandFairA",
   "FairA2P", "A2P", "P2A", "RandP", "SetA", "NMulA", "SumA", "ShuffleA",
   "ShuffleA_2k", "SShuffleA", "OptSShuffleA", "NdssDelayCheck"}

ASSUME DryRunsAssumption ==
  /\ Elements \in Nat \ {0} /\ NdssMax \in Nat
  /\ Programs \subseteq Seq(Operations)

\* The operations of a Correlation, each with what the peer calls meanwhile.
Dual == [BeaverTriple |-> "BeaverTriple", NMul |-> "NMul",
         RandomSet |-> "RandomGet", RandomGet |-> "RandomSet",
         RandomVoleSet |-> "RandomVoleGet", RandomVoleGet |-> "RandomVoleSet",
         ShuffleSet |-> "ShuffleGet", ShuffleGet |-> "ShuffleSet",
         ASTSet |-> "ASTGet", ASTGet |-> "ASTSet",
         DoubleASTSet |-> "DoubleASTGet", DoubleASTGet |-> "DoubleASTSet"]
Ops == DOMAIN Dual

\* Their caches count single correlations, or correlations of a shape.
Counted == {"BeaverTriple", "RandomSet", "RandomGet", "RandomVoleSet",
            "RandomVoleGet"}
Slots == (Counted \X {0}) \cup ((Ops \ Counted) \X (1 .. Elements))
Slot(op, n) == <<op, IF op \in Counted THEN 0 ELSE n>>
Units(op, n) == IF op \in Counted THEN n ELSE 1

VARIABLES
  program,  \* the program
  phase,    \* "dry", "online" or "done", per rank
  at,       \* the calls of this phase a rank has made
  size,     \* the elements of what the last call has returned
  asked,    \* the sizes of the requests counted, per operation
  stock,    \* what the cache holds
  tape,     \* the draws from the shared Prg
  online,   \* the requests generated on the spot
  ndss,     \* the elements in the buffer of NdssBufferAppend
  checks    \* history: how often NdssDelayCheck has looked at them

vars == <<program, phase, at, size, asked, stock, tape, online, ndss, checks>>

-----------------------------------------------------------------------------
\* The twins, as sequences of the requests they count.

Count(op, n) == <<[op |-> op, num |-> n]>>

RandA_cache(n) == Count("RandomGet", n) \o Count("RandomSet", n)
MulAA_cache(n) == Count("BeaverTriple", n)
WrongInvA_cache(n) == MulAA_cache(n)
InvA_cache(n) == RandA_cache(n) \o MulAA_cache(n)
DivAA_cache(n) == InvA_cache(n) \o MulAA_cache(n)
DivPA_cache(n) == InvA_cache(n)
ZeroOneA_cache(n) == RandA_cache(n) \o MulAA_cache(n)
RandFairA_cache(n) == ZeroOneA_cache(n * WordBits)
NMulA_cache(n) == Count("NMul", n) \o MulAA_cache(n)
SetA_cache(n) == Count("RandomSet", n)
GetA_cache(n) == Count("RandomGet", n)

\* The twin that calls ZerosA itself, and so draws as the operation does.
WrongP2A_cache(p, n) == IF p = 0 THEN Count("Prg", 2 * n) ELSE <<>>
P2A_cache(p, n) == Count("Prg", 2 * n)

ShuffleA_cache(p, n) ==
  IF p = 0 THEN Count("ShuffleSet", n) \o Count("ShuffleGet", n)
           ELSE Count("ShuffleGet", n) \o Count("ShuffleSet", n)

ShuffleASet_2k_cache(n) ==
  Times(Depth(n) * FindB * (n \div BlockSize), Count("ShuffleSet", BlockSize))
ShuffleAGet_2k_cache(n) ==
  Times(Depth(n) * FindB * (n \div BlockSize), Count("ShuffleGet", BlockSize))
ShuffleA_2k_cache(p, n) ==
  IF p = 0 THEN ShuffleASet_2k_cache(n) \o ShuffleAGet_2k_cache(n)
           ELSE ShuffleAGet_2k_cache(n) \o ShuffleASet_2k_cache(n)

\* The products of SShuffleA's twins; their public values are not drawn.
WrongShuffleProof_cache(n) ==
  Times(4, NMulA_cache(n)) \o RandA_cache(2) \o MulAA_cache(2)
ShuffleProof_cache(n) ==
  Times(3, NMulA_cache(n)) \o RandA_cache(2) \o MulAA_cache(2)
SShuffleASet_cache(n) ==
  Count("ASTSet", n) \o SetA_cache(n) \o ShuffleProof_cache(n)
SShuffleAGet_cache(n) ==
  Count("ASTGet", n) \o GetA_cache(n) \o ShuffleProof_cache(n)
SShuffleA_cache(p, n) ==
  IF p = 0 THEN SShuffleASet_cache(n) \o SShuffleAGet_cache(n)
           ELSE SShuffleAGet_cache(n) \o SShuffleASet_cache(n)

OptSShuffleASet_cache(n) ==
  Count("RandomVoleSet", 2 * n) \o Count("DoubleASTSet", n)
  \o Times(2, SetA_cache(n)) \o Count("RandomVoleSet", 2 * n)
OptSShuffleAGet_cache(n) ==
  Count("RandomVoleGet", 2 * n) \o Count("DoubleASTGet", n)
  \o Times(2, GetA_cache(n)) \o Count("RandomVoleGet", 2 * n)
OptSShuffleA_cache(p, n) ==
  IF p = 0 THEN OptSShuffleASet_cache(n) \o OptSShuffleAGet_cache(n)
           ELSE OptSShuffleAGet_cache(n) \o OptSShuffleASet_cache(n)

\* The others (A2P, A2P_delay, FairA2P, RandP, SumA) count nothing, and
\* NdssDelayCheck has no twin.
Twin(p, f, n) ==
  CASE f = "RandA" -> RandA_cache(n)
    [] f = "MulAA" -> MulAA_cache(n)
    [] f = "InvA" -> InvA_cache(n)
    [] f = "DivAA" -> DivAA_cache(n)
    [] f = "DivPA" -> DivPA_cache(n)
    [] f = "ZeroOneA" -> ZeroOneA_cache(n)
    [] f = "RandFairA" -> RandFairA_cache(n)
    [] f = "NMulA" -> NMulA_cache(n)
    [] f = "SetA" -> SetA_cache(n)
    [] f = "GetA" -> GetA_cache(n)
    [] f = "P2A" -> P2A_cache(p, n)
    [] f = "ShuffleA" -> ShuffleA_cache(p, n)
    [] f = "ShuffleA_2k" -> ShuffleA_2k_cache(p, n)
    [] f = "SShuffleA" -> SShuffleA_cache(p, n)
    [] f = "OptSShuffleA" -> OptSShuffleA_cache(p, n)
    [] OTHER -> <<>>

-----------------------------------------------------------------------------
\* What the generations of a FakeCorrelation draw.  A draw is named as rank 0
\* names what it is for.

Draw(p, op, n) ==
  <<[for |-> IF p = 0 \/ op \notin Ops THEN op ELSE Dual[op], num |-> n]>>

FakeRandomSet(p, n) == Draw(p, "RandomSet", n)
FakeRandomGet(p, n) == Draw(p, "RandomGet", n)
FakeRandomAuth(p, n) ==
  IF p = 0 THEN FakeRandomSet(p, n) \o FakeRandomGet(p, n)
           ELSE FakeRandomGet(p, n) \o FakeRandomSet(p, n)
FakeBeaverTriple(p, n) == Times(5, Draw(p, "BeaverTriple", n))
FakeRandomVole(p, op, n) == Times(2, Draw(p, op, n))
FakeShuffle(p, op) == Draw(p, op, 2)
FakeAST(p, op, n) == Draw(p, op, 1) \o FakeRandomAuth(p, n)
FakeDoubleAST(p, op, n) == Draw(p, op, 1) \o Times(2, FakeRandomAuth(p, n))
FakeNMul(p, n) == Times(2, Draw(p, "NMul", n))

Drawn(p, op, n) ==
  CASE op = "RandomSet" -> FakeRandomSet(p, n)
    [] op = "RandomGet" -> FakeRandomGet(p, n)
    [] op = "RandomAuth" -> FakeRandomAuth(p, n)
    [] op = "BeaverTriple" -> FakeBeaverTriple(p, n)
    [] op \in {"RandomVoleSet", "RandomVoleGet"} -> FakeRandomVole(p, op, n)
    [] op \in {"ShuffleSet", "ShuffleGet"} -> FakeShuffle(p, op)
    [] op \in {"ASTSet", "ASTGet"} -> FakeAST(p, op, n)
    [] op \in {"DoubleASTSet", "DoubleASTGet"} -> FakeDoubleAST(p, op, n)
    [] op = "NMul" -> FakeNMul(p, n)
    [] op = "Prg" -> Draw(p, "Prg", n)

AllDrawn(p, op, sizes) ==
  FlattenSeq([i \in DOMAIN sizes |-> Drawn(p, op, sizes[i])])

\* The sizes of the requests of an operation, in their order.
SizesOf(op, requests) ==
  FlattenSeq([i \in DOMAIN requests |->
    IF requests[i].op = op THEN <<requests[i].num>> ELSE <<>>])

-----------------------------------------------------------------------------

Init ==
  /\ program \in Programs
  /\ phase = [p \in Ranks |-> "dry"]
  /\ at = [p \in Ranks |-> 0]
  /\ size = [p \in Ranks |-> Elements]
  /\ asked = [p \in Ranks |-> [op \in Ops |-> <<>>]]
  /\ stock = [p \in Ranks |-> [s \in Slots |-> 0]]
  /\ tape = [p \in Ranks |-> <<>>]
  /\ online = [p \in Ranks |-> <<>>]
  /\ ndss = [p \in Ranks |-> 0]
  /\ checks = [p \in Ranks |-> 0]

\* The next call of rank p: where rank 0 sets, rank 1 gets.
Called(p) ==
  LET f == program[at[p] + 1]
  IN IF p = 1 /\ f = "SetA" THEN "GetA" ELSE f

Calls(p, during) ==
  /\ phase[p] = during /\ at[p] < Len(program)
  /\ at' = [at EXCEPT ![p] = @ + 1]

\* The elements a call returns; the twin of SumA returns as many as it gets.
Returns(f, n) == IF f \in {"NMulA", "SumA"} THEN 1 ELSE n
TwinReturns(f, n) == IF f = "NMulA" THEN 1 ELSE n

DryRun(p) ==
  LET counted == Twin(p, Called(p), size[p])
  IN /\ Calls(p, "dry")
     /\ asked' = [asked EXCEPT ![p] = [op \in Ops |->
          @[op] \o SizesOf(op, counted)]]
     /\ tape' = [tape EXCEPT ![p] =
          @ \o AllDrawn(p, "Prg", SizesOf("Prg", counted))]
     /\ size' = [size EXCEPT ![p] = TwinReturns(Called(p), @)]
     /\ UNCHANGED <<program, phase, stock, online, ndss, checks>>

AddedUp(amounts) ==
  LET sum[i \in 0 .. Len(amounts)] ==
        IF i = 0 THEN 0 ELSE sum[i - 1] + amounts[i]
  IN  sum[Len(amounts)]

\* What requests of these sizes put into a slot of the cache.
Filled(s, sizes) ==
  AddedUp([i \in DOMAIN sizes |->
    IF Slot(s[1], sizes[i]) = s THEN Units(s[1], sizes[i]) ELSE 0])

\* What force_cache generates, in order: of some operations one generation
\* of everything counted.
InTurn(p, set, get) == IF p = 0 THEN <<set, get>> ELSE <<get, set>>
Order(p) ==
  <<"BeaverTriple">> \o InTurn(p, "RandomSet", "RandomGet")
  \o InTurn(p, "RandomVoleSet", "RandomVoleGet")
  \o InTurn(p, "ShuffleSet", "ShuffleGet")
  \o InTurn(p, "ASTSet", "ASTGet")
  \o InTurn(p, "DoubleASTSet", "DoubleASTGet") \o <<"NMul">>
Generated(p, op) ==
  IF op \in Counted THEN <<Filled(<<op, 0>>, asked[p][op])>> ELSE asked[p][op]

\* The elements the program starts with are the same in both phases.
ForceCache(p) ==
  /\ phase[p] = "dry" /\ at[p] = Len(program)
  /\ stock' = [stock EXCEPT ![p] = [s \in Slots |-> Filled(s, asked[p][s[1]])]]
  /\ tape' = [tape EXCEPT ![p] = @ \o FlattenSeq([i \in DOMAIN Order(p) |->
       AllDrawn(p, Order(p)[i], Generated(p, Order(p)[i]))])]
  /\ phase' = [phase EXCEPT ![p] = "online"]
  /\ at' = [at EXCEPT ![p] = 0]
  /\ size' = [size EXCEPT ![p] = Elements]
  /\ UNCHANGED <<program, asked, online, ndss, checks>>

\* What a call asks for: the requests and the draws of its script, and what
\* it appends to the buffer of the shuffles.
IsRequest(s) ==
  \/ s.do = "call" /\ s.tag \in Ops \cup {"RandomAuth", "Prg"}
  \/ s.do = "push" /\ s.tag = "ndss"
Requests(script) ==
  FlattenSeq([i \in DOMAIN script |->
    IF IsRequest(script[i]) THEN Count(script[i].tag, script[i].num) ELSE <<>>])
Requested(p, f, n) == IF f = "SumA" THEN <<>> ELSE Requests(Script(p, f, n))

\* RandomAuth is served by a Set and a Get together.
PartsOf(op) == IF op = "RandomAuth" THEN {"RandomSet", "RandomGet"} ELSE {op}

\* How rank p goes on from what it has, one request after another.
WrongHolds(has, op, n) ==
  \A part \in PartsOf(op) : has.stock[Slot(part, n)] > 0
Holds(has, op, n) ==
  \A part \in PartsOf(op) : has.stock[Slot(part, n)] >= Units(part, n)

Served(p, has, op, n) ==
  IF Holds(has, op, n)
    THEN [has EXCEPT !.stock = [s \in Slots |->
            @[s] - (IF \E part \in PartsOf(op) : s = Slot(part, n)
                      THEN Units(s[1], n) ELSE 0)]]
    ELSE [has EXCEPT !.online = @ \o Count(op, n),
                     !.tape = @ \o Drawn(p, op, n)]

\* The check of the buffer opens a combination of it, masked by a RandA(1).
NdssDelayCheck(p, has) ==
  IF has.ndss = 0 THEN has
  ELSE Served(p, [has EXCEPT !.ndss = 0, !.checks = @ + 1], "RandomAuth", 1)

Appended(p, has, n) ==
  LET appended == [has EXCEPT !.ndss = @ + n]
  IN IF appended.ndss >= NdssMax THEN NdssDelayCheck(p, appended) ELSE appended

Carried(p, has, r) ==
  CASE r.op = "Prg" -> [has EXCEPT !.tape = @ \o Drawn(p, "Prg", r.num)]
    [] r.op = "ndss" -> Appended(p, has, r.num)
    [] OTHER -> Served(p, has, r.op, r.num)

CarriedOn(p, before, requests) ==
  LET has[i \in 0 .. Len(requests)] ==
        IF i = 0 THEN before ELSE Carried(p, has[i - 1], requests[i])
  IN  has[Len(requests)]

Online(p) ==
  LET f == Called(p)
      before == [stock |-> stock[p], tape |-> tape[p], online |-> online[p],
                 ndss |-> ndss[p], checks |-> checks[p]]
      after == IF f = "NdssDelayCheck" THEN NdssDelayCheck(p, before)
               ELSE CarriedOn(p, before, Requested(p, f, size[p]))
  IN /\ Calls(p, "online")
     /\ stock' = [stock EXCEPT ![p] = after.stock]
     /\ tape' = [tape EXCEPT ![p] = after.tape]
     /\ online' = [online EXCEPT ![p] = after.online]
     /\ ndss' = [ndss EXCEPT ![p] = after.ndss]
     /\ checks' = [checks EXCEPT ![p] = after.checks]
     /\ size' = [size EXCEPT ![p] = Returns(f, @)]
     /\ UNCHANGED <<program, phase, asked>>

End(p) ==
  /\ phase[p] = "online" /\ at[p] = Len(program)
  /\ phase' = [phase EXCEPT ![p] = "done"]
  /\ UNCHANGED <<program, at, size, asked, stock, tape, online, ndss, checks>>

Next ==
  \/ \E p \in Ranks : DryRun(p) \/ ForceCache(p) \/ Online(p) \/ End(p)
  \/ (\A p \in Ranks : phase[p] = "done") /\ UNCHANGED vars

Spec == Init /\ [][Next]_vars

-----------------------------------------------------------------------------
\* Properties.

TypeOK ==
  /\ phase \in [Ranks -> {"dry", "online", "done"}]
  /\ at \in [Ranks -> 0 .. Len(program)]
  /\ size \in [Ranks -> 1 .. Elements]
  /\ \A p \in Ranks : DOMAIN asked[p] = Ops
  /\ stock \in [Ranks -> [Slots -> Nat]]
  /\ ndss \in [Ranks -> Nat] /\ checks \in [Ranks -> Nat]

\* The program is one whose dry run knows what is coming: nothing follows a
\* sum, whose twin returns more elements than the sum, and no check of the
\* shuffles has asked for the element no twin counts.
Foreseen(p) ==
  checks[p] = 0 /\ \A i \in DOMAIN program : program[i] = "SumA" => i = Len(program)

\* What the dry run counted covers what the program asks for: no request
\* generates its correlations online (the offline / online separation of
\* "--cache 1", README.md:90).
OfflineCovers == \A p \in Ranks : Foreseen(p) => online[p] = <<>>

\* Nothing is generated for nobody: a program run to its end leaves an empty
\* cache.  A twin that counts more than its operation asks for would have the
\* offline phase generate and throw away.
NothingWasted ==
  \A p \in Ranks :
    phase[p] = "done" /\ Foreseen(p) => \A s \in Slots : stock[p][s] = 0

\* The ranks draw from the shared Prg for the same purposes in the same
\* order, whatever they count, cache or generate and however far one is
\* ahead: a draw of one rank only would set apart every public value and
\* every faked correlation after it, and a generation entered at one rank
\* only would wait for ever.
TapesAgree ==
  \E p \in Ranks : IsPrefix(tape[p], tape[Peer(p)])

\* With a cache no correlation is generated online at all.
NothingOnline == \A p \in Ranks : online[p] = <<>>
=============================================================================
