------------------------------ MODULE Session ------------------------------
(***************************************************************************)
(* Two ranks running one program over their connections, each at its own   *)
(* speed.  A rank is a sequence of steps still to do; a call is replaced   *)
(* by the script of what it calls when the rank gets there.                *)
(*                                                                         *)
(* The values of shares are left out.  What is kept of a share is whether  *)
(* the ranks' macs of it fit: at most once in a behaviour the mac share    *)
(* one rank enters into a check buffer is wrong.  The values the checks    *)
(* compare are random combinations of what was entered, so they agree when *)
(* everything entered fits; that they agree by chance when it does not is  *)
(* left out too.                                                           *)
(***************************************************************************)
EXTENDS ShareScripts

CONSTANTS
  Programs,   \* bound: the programs, sequences of calls [op, num] of rank 0
  Reserve,    \* bound: base_vole_num_ of a VOLE adapter
  VoleNum,    \* bound: vole_num_ of a VOLE adapter
  SetupLeft,  \* bound: what the one-time setup leaves in a VOLE adapter
  LineMax,    \* bound: DelayMaxSize of AShareLineCombineDelayCheck, 1 << 24
  DelayMax,   \* bound: the delay_check_buff_ checked early, 1 << 19
  NdssMax,    \* bound: DelayMaxSize of NdssBufferAppend, 1 << 24
  Crashes     \* whether a rank may crash

\* The operations a program is made of: those of shares, the requests of
\* correlations no cache holds, a new key and the checks.
Operations ==
  {"RandA", "MulAA", "InvA", "DivAA", "DivPA", "ZeroOneA", "RandFairA", "FairA2P",
   "A2P", "A2P_delay", "P2A", "RandP", "SetA", "GetA", "NMulA", "ShuffleA",
   "ShuffleA_2k", "SShuffleA", "OptSShuffleA", "ASTSet", "ASTGet",
   "cr.BatchShuffleSet", "cr.BatchShuffleGet", "cr._BatchShuffleSet",
   "cr._BatchShuffleGet", "cr.ASTSet_2k", "cr.ASTGet_2k", "cr.DoubleASTSet_2k",
   "cr.DoubleASTGet_2k", "cr._DoubleASTSet_2k", "cr._DoubleASTGet_2k", "SetKey",
   "SetVoleKey", "NdssDelayCheck", "prot.DelayCheck", "cr.DelayCheck"}

\* The generation of a double translation divides by the number of its OTs,
\* which is zero for a single element.
Calls ==
  {c \in [op : Operations, num : Nat] : c.op = "OptSShuffleA" => c.num >= 2}

ASSUME SessionAssumption ==
  /\ Programs \subseteq Seq(Calls)
  /\ Reserve \in Nat /\ VoleNum \in Nat /\ Reserve < VoleNum
  /\ SetupLeft \in 0 .. VoleNum - Reserve
  /\ LineMax \in Nat /\ DelayMax \in Nat /\ NdssMax \in Nat
  /\ Crashes \in BOOLEAN

Buffers == {"line", "delay", "double", "check", "ndss", "now"}

\* The VOLE adapters of a rank: under its mac key and under its VOLE key, and
\* of each kind one it receives with and one it sends with.
Kinds == {"mac", "extra"}
Nobody == 2

VARIABLES
  todo,     \* the steps a rank has still to do
  chan,     \* the messages on their way to a rank, per channel
  left,     \* the values left in a rank's VOLE buffers, per kind and receiver
  buf,      \* the check buffers
  mine,     \* the digest a rank sends
  theirs,   \* the digest it has received
  flag,     \* what the last check returned
  ended,    \* how the rank has ended before the end of its program
  passed,   \* history: the comparisons passed before any failed
  failed,   \* history: whether one has failed
  wrong     \* history: the rank that has entered a wrong mac, or Nobody

vars == <<todo, chan, left, buf, mine, theirs, flag, ended, passed, failed,
          wrong>>

-----------------------------------------------------------------------------

\* Where a function has a set and a get side the ranks call one each.
Sides ==
  {<<"SetA", "GetA">>, <<"ASTSet", "ASTGet">>,
   <<"cr.BatchShuffleSet", "cr.BatchShuffleGet">>,
   <<"cr._BatchShuffleSet", "cr._BatchShuffleGet">>,
   <<"cr.ASTSet_2k", "cr.ASTGet_2k">>,
   <<"cr.DoubleASTSet_2k", "cr.DoubleASTGet_2k">>,
   <<"cr._DoubleASTSet_2k", "cr._DoubleASTGet_2k">>}
Called(p, op) ==
  IF p = 1 /\ \E side \in Sides : op \in {side[1], side[2]}
    THEN LET side == CHOOSE side \in Sides : op \in {side[1], side[2]}
         IN IF op = side[1] THEN side[2] ELSE side[1]
    ELSE op

\* A program ends with every check there is: the examples and the tests end
\* with those their operations call for.
FinalChecks ==
  Call("NdssDelayCheck", 0) \o Call("prot.DelayCheck", 0)
  \o Call("cr.DelayCheck", 0)

Init ==
  /\ \E program \in Programs :
       todo = [p \in Ranks |->
         FlattenSeq([i \in DOMAIN program |->
           Call(Called(p, program[i].op), program[i].num)]) \o FinalChecks]
  /\ chan = [p \in Ranks |-> [c \in Channels |-> <<>>]]
  /\ left = [p \in Ranks |-> [k \in Kinds |-> [r \in Ranks |-> SetupLeft]]]
  /\ buf = [p \in Ranks |-> [b \in Buffers |-> <<>>]]
  /\ mine = [p \in Ranks |-> <<>>]
  /\ theirs = [p \in Ranks |-> <<>>]
  /\ flag = [p \in Ranks |-> TRUE]
  /\ ended = [p \in Ranks |-> "no"]
  /\ passed = [p \in Ranks |-> 0]
  /\ failed = [p \in Ranks |-> FALSE]
  /\ wrong = Nobody

\* Rank p is at a step of some kind, and goes on with a script.
At(p, do) == todo[p] # <<>> /\ Head(todo[p]).do = do
GoOn(p, script) == todo' = [todo EXCEPT ![p] = script \o Tail(@)]

SendStep(p) ==
  LET s == Head(todo[p])
      digest == IF s.tag = "digest" THEN mine[p] ELSE <<>>
  IN /\ At(p, "send")
     /\ chan' = [chan EXCEPT ![Peer(p)][s.ch] =
          Append(@, [tag |-> s.tag, num |-> s.num, digest |-> digest])]
     /\ GoOn(p, <<>>)
     /\ UNCHANGED <<left, buf, mine, theirs, flag, ended, passed, failed, wrong>>

\* Messages are received in order; their tags are not compared.
RecvStep(p) ==
  LET s == Head(todo[p])
  IN /\ At(p, "recv")
     /\ chan[p][s.ch] # <<>>
     /\ theirs' = [theirs EXCEPT ![p] = Head(chan[p][s.ch]).digest]
     /\ chan' = [chan EXCEPT ![p][s.ch] = Tail(@)]
     /\ GoOn(p, <<>>)
     /\ UNCHANGED <<left, buf, mine, flag, ended, passed, failed, wrong>>

Stateful == {"RandomSet", "RandomGet", "RandomVoleSet", "RandomVoleGet",
             "SetKey", "SetVoleKey", "cr.DelayCheck", "prot.DelayCheck",
             "NdssDelayCheck", "AShareLineCombineDelayCheck"}

CallStep(p) ==
  LET s == Head(todo[p])
  IN /\ At(p, "call") /\ s.tag \notin Stateful
     /\ GoOn(p, Script(p, s.tag, s.num))
     /\ UNCHANGED <<chan, left, buf, mine, theirs, flag, ended, passed, failed,
                    wrong>>

\* RandomSet at rank r and RandomGet at its peer take n values from the
\* adapters r receives with, RandomVoleSet and RandomVoleGet from the extra
\* ones: as many extensions as they lack, each leaving a reserve for the
\* next (ExtensionBuffer).
Block == VoleNum - Reserve
WrongLacking(n, has) == IF n > has THEN (n - has) \div Block ELSE 0
Lacking(n, has) == IF n > has THEN DivCeil(n - has, Block) ELSE 0

Receives(kind) == IF kind = "mac" THEN "RandomSet" ELSE "RandomVoleSet"
Sends(kind) == IF kind = "mac" THEN "RandomGet" ELSE "RandomVoleGet"

ServeVole(p, kind, r) ==
  LET n == Head(todo[p]).num
      lacking == Lacking(n, left[p][kind][r])
  IN /\ At(p, "call")
     /\ Head(todo[p]).tag = IF p = r THEN Receives(kind) ELSE Sends(kind)
     /\ left' = [left EXCEPT ![p][kind][r] = @ + lacking * Block - n]
     /\ GoOn(p, Times(lacking, IF p = r THEN BootstrapRecv(p) ELSE BootstrapSend(p)))
     /\ UNCHANGED <<chan, buf, mine, theirs, flag, ended, passed, failed, wrong>>

\* A new key has the adapters of its kind made and set up again: those rank
\* 1 receives with first, at both ranks.
SetupVole(p) ==
  /\ At(p, "call") /\ Head(todo[p]).tag \in {"SetKey", "SetVoleKey"}
  /\ LET kind == IF Head(todo[p]).tag = "SetKey" THEN "mac" ELSE "extra"
     IN left' = [left EXCEPT ![p][kind] = [r \in Ranks |-> SetupLeft]]
  /\ GoOn(p, InitVoleAdapter(p))
  /\ UNCHANGED <<chan, buf, mine, theirs, flag, ended, passed, failed, wrong>>

\* The check of Protocol looks at check_buff_, and returns true at once when
\* it is empty.
WrongProtocolBuffer == "delay"
ProtocolBuffer == "check"

DelayCheck(p) ==
  /\ At(p, "call") /\ Head(todo[p]).tag = "prot.DelayCheck"
  /\ flag' = [flag EXCEPT ![p] = TRUE]
  /\ GoOn(p, IF buf[p][ProtocolBuffer] = <<>> THEN <<>>
             ELSE CompareDigests(p, ProtocolBuffer))
  /\ UNCHANGED <<chan, left, buf, mine, theirs, ended, passed, failed, wrong>>

\* TrueCorrelation's looks at delay_check_buff_ and double_ast_check_buff_:
\* when either holds anything it compares the first, and then the second if
\* it holds anything.
WrongCheckedDouble(p) == <<>>
CheckedDouble(p) ==
  IF buf[p].double = <<>> THEN <<>> ELSE CompareDigests(p, "double")

CrDelayCheck(p) ==
  /\ At(p, "call") /\ Head(todo[p]).tag = "cr.DelayCheck"
  /\ flag' = [flag EXCEPT ![p] = TRUE]
  /\ GoOn(p, IF buf[p].delay = <<>> /\ buf[p].double = <<>> THEN <<>>
             ELSE CompareDigests(p, "delay") \o CheckedDouble(p))
  /\ UNCHANGED <<chan, left, buf, mine, theirs, ended, passed, failed, wrong>>

NdssDelayCheck(p) ==
  /\ At(p, "call") /\ Head(todo[p]).tag = "NdssDelayCheck"
  /\ flag' = [flag EXCEPT ![p] = TRUE]
  /\ GoOn(p, IF buf[p].ndss = <<>> THEN <<>>
             ELSE SyncSeed(p) \o Call("RandA", 1) \o Exchange(p, "combination", 1)
                  \o CompareDigests(p, "ndss"))
  /\ UNCHANGED <<chan, left, buf, mine, theirs, ended, passed, failed, wrong>>

\* The line buffer is checked by opening a combination of what it holds.
LineCheck(p) ==
  /\ At(p, "call") /\ Head(todo[p]).tag = "AShareLineCombineDelayCheck"
  /\ GoOn(p, IF buf[p].line = <<>> THEN <<>>
             ELSE SyncSeed(p) \o Call("RandomAuth", 1)
                  \o Exchange(p, "combination", 1) \o Local("combine", "line", 0))
  /\ UNCHANGED <<chan, left, buf, mine, theirs, flag, ended, passed, failed,
                 wrong>>

Entry(of, by) == [of |-> of, by |-> by]
Of(entries) == [i \in DOMAIN entries |-> entries[i].of]
Size(entries) == FoldSeq(LAMBDA n, sum : sum + n, 0, Of(entries))

\* A push that makes a buffer too large has it checked.
WhenFull(buffer, size) ==
  CASE buffer = "line" /\ size >= LineMax -> Call("AShareLineCombineDelayCheck", 0)
    [] buffer = "ndss" /\ size >= NdssMax ->
         Call("NdssDelayCheck", 0) \o Local("enforce", "ndss", 0)
    [] OTHER -> <<>>

Push(p) ==
  LET s == Head(todo[p])
      pushed(by) == Append(buf[p][s.tag], Entry(s.num, by))
  IN /\ At(p, "push")
     /\ \E by \in {Nobody, p} :
          /\ by = p => wrong = Nobody
          /\ buf' = [buf EXCEPT ![p][s.tag] = pushed(by)]
          /\ wrong' = IF by = p THEN p ELSE wrong
     /\ GoOn(p, WhenFull(s.tag, Size(pushed(Nobody))))
     /\ UNCHANGED <<chan, left, mine, theirs, flag, ended, passed, failed>>

\* The combination of the line buffer is entered for the next DelayCheck.
Combine(p) ==
  LET by == IF \E i \in DOMAIN buf[p].line : buf[p].line[i].by = p
              THEN p ELSE Nobody
      delay == Append(buf[p].delay, Entry(Len(buf[p].line), by))
  IN /\ At(p, "combine")
     /\ buf' = [buf EXCEPT ![p].line = <<>>, ![p].delay = delay]
     /\ GoOn(p, IF Len(delay) > DelayMax
                  THEN Call("cr.DelayCheck", 0) \o Local("enforce", "delay", 0)
                  ELSE <<>>)
     /\ UNCHANGED <<chan, left, mine, theirs, flag, ended, passed, failed, wrong>>

\* check_buff_ is cleared before its digest is sent, the others after the
\* comparison.
WrongHashed(p, b) == IF b = "check" THEN <<>> ELSE buf[p][b]
Hashed(p, b) == buf[p][b]

Digest(p) ==
  LET b == Head(todo[p]).tag
  IN /\ At(p, "digest")
     /\ mine' = [mine EXCEPT ![p] = Hashed(p, b)]
     /\ buf' = IF b = "check" THEN [buf EXCEPT ![p].check = <<>>] ELSE buf
     /\ GoOn(p, <<>>)
     /\ UNCHANGED <<chan, left, theirs, flag, ended, passed, failed, wrong>>

WrongCleared(p, b) == IF p = 1 THEN {} ELSE {b}
Cleared(p, b) == {b}

WrongSame(p) == p = 1 \/ mine[p] = theirs[p]
Same(p) == mine[p] = theirs[p]

Compare(p) ==
  LET b == Head(todo[p]).tag
      same == Same(p)
  IN /\ At(p, "compare")
     /\ buf' = [buf EXCEPT ![p] =
          [c \in Buffers |-> IF c \in Cleared(p, b) THEN <<>> ELSE @[c]]]
     /\ flag' = [flag EXCEPT ![p] = same /\ (b = "double" => @)]
     /\ passed' = [passed EXCEPT ![p] = IF same /\ ~failed[p] THEN @ + 1 ELSE @]
     /\ failed' = [failed EXCEPT ![p] = @ \/ ~same]
     /\ mine' = [mine EXCEPT ![p] = <<>>]
     /\ theirs' = [theirs EXCEPT ![p] = <<>>]
     /\ GoOn(p, <<>>)
     /\ UNCHANGED <<chan, left, ended, wrong>>

End(p, how) ==
  /\ ended' = [ended EXCEPT ![p] = how]
  /\ todo' = [todo EXCEPT ![p] = <<>>]
  /\ UNCHANGED <<chan, left, buf, mine, theirs, flag, passed, failed, wrong>>

\* YACL_ENFORCE of a check that has returned true ...
EnforceHolds(p) ==
  /\ At(p, "enforce") /\ flag[p]
  /\ GoOn(p, <<>>)
  /\ UNCHANGED <<chan, left, buf, mine, theirs, flag, ended, passed, failed,
                 wrong>>

\* ... or false.
EnforceFails(p) == At(p, "enforce") /\ ~flag[p] /\ End(p, "check")

\* The product of a single factor.
ProductFails(p) == At(p, "throw") /\ End(p, "product")

\* Recv throws when the peer has gone and no message of it is left.
RecvFails(p) ==
  /\ At(p, "recv") /\ chan[p][Head(todo[p]).ch] = <<>>
  /\ ended[Peer(p)] # "no"
  /\ End(p, "recv")

Crash(p) ==
  /\ Crashes /\ todo[p] # <<>>
  /\ \A q \in Ranks : ended[q] = "no"
  /\ End(p, "crash")

RankStep(p) ==
  \/ SendStep(p) \/ RecvStep(p) \/ CallStep(p)
  \/ \E kind \in Kinds, r \in Ranks : ServeVole(p, kind, r)
  \/ SetupVole(p) \/ DelayCheck(p) \/ CrDelayCheck(p) \/ NdssDelayCheck(p) \/ LineCheck(p)
  \/ Push(p) \/ Combine(p) \/ Digest(p) \/ Compare(p)
  \/ EnforceHolds(p) \/ EnforceFails(p) \/ ProductFails(p) \/ RecvFails(p)

Done == \A p \in Ranks : todo[p] = <<>>
Finished == Done /\ UNCHANGED vars

Next == Finished \/ \E p \in Ranks : RankStep(p) \/ Crash(p)

Spec == Init /\ [][Next]_vars
FairSpec == Spec /\ \A p \in Ranks : WF_vars(RankStep(p))

-----------------------------------------------------------------------------
\* Properties.

TypeOK ==
  /\ DOMAIN todo = Ranks /\ DOMAIN chan = Ranks
  /\ left \in [Ranks -> [Kinds -> [Ranks -> 0 .. VoleNum - Reserve]]]
  /\ DOMAIN buf = Ranks /\ \A p \in Ranks : DOMAIN buf[p] = Buffers
  /\ flag \in [Ranks -> BOOLEAN]
  /\ ended \in [Ranks -> {"no", "check", "product", "recv", "crash"}]
  /\ passed \in [Ranks -> Nat] /\ failed \in [Ranks -> BOOLEAN]
  /\ wrong \in Ranks \cup {Nobody}

\* The message a rank is about to receive is the one it waits for, of the
\* length it expects: tags are not compared by the connection, so a pair of
\* functions that send and receive in different orders would read one
\* message for another.
RightMessage ==
  \A p \in Ranks : At(p, "recv") =>
    LET s == Head(todo[p])
    IN chan[p][s.ch] # <<>> =>
         Head(chan[p][s.ch]).tag = s.tag /\ Head(chan[p][s.ch]).num = s.num

Returned == Done /\ \A p \in Ranks : ended[p] = "no"

\* No message outlives the program: the next one would read it first.
NothingUnread ==
  Returned => \A p \in Ranks, c \in Channels : chan[p][c] = <<>>

\* The ranks agree on every check: when one has failed at a rank, the peer
\* never passes it.
VerdictsAgree ==
  \A p \in Ranks : failed[p] => passed[Peer(p)] <= passed[p]

\* No check fails while every mac entered fits: at each comparison the ranks
\* have entered the same openings, however often a full buffer was checked
\* early.
NoFalseAlarm == wrong = Nobody => \A p \in Ranks : ~failed[p]

StillPending(b) == \E p \in Ranks : buf[p][b] # <<>>

\* A wrong mac is found, at both ranks: no program returns with one entered
\* and no check failed, unless it still waits in the line buffer.
WrongMacIsFound ==
  Returned /\ wrong # Nobody =>
    \/ \A p \in Ranks : failed[p]
    \/ \E i \in DOMAIN buf[wrong].line : buf[wrong].line[i].by = wrong

\* A program that ends with its checks leaves nothing unchecked.
NothingPending == Returned => \A b \in Buffers : ~StillPending(b)

\* Every product of factors can be taken (YACL_ENFORCE(tmp.size() == 1) in
\* _NMul).
ProductsSucceed == \A p \in Ranks : ~At(p, "throw")

\* Every program comes to an end at both ranks.
Completes == <>Done
=============================================================================
