------------------------- MODULE CorrelationScripts -------------------------
(***************************************************************************)
(* The generations of TrueCorrelation (mosac/cr/true_cr.cc) and of the     *)
(* primitives below them (mosac/cr/utils), as scripts of rank p.  Where    *)
(* the code has a function for each side there is a script for each side.  *)
(* The check buffers are "delay" (delay_check_buff_) and "line" (val_ and  *)
(* mac_delay_check_buff_).                                                 *)
(***************************************************************************)
EXTENDS Wire

CONSTANTS
  NoiseNum,     \* bound: mp_param_.noise_num_
  TripleBatch,  \* bound: the triples of one batch of OTs
  ASTRounds     \* bound: B of ASTSet and ASTGet, 10 in the code

ASSUME ScriptsAssumption ==
  /\ NoiseNum \in Nat \ {0} /\ TripleBatch \in Nat \ {0}
  /\ ASTRounds \in Nat

DivCeil(m, n) == (m + n - 1) \div n

\* The noise of an extension: one punctured PRF for each of its positions.
MpVoleSend ==
  Times(NoiseNum, Recv("choices", 1) \o Send("GGM_tree", 1))
  \o Send("MpVole", NoiseNum)
MpVoleRecv ==
  Times(NoiseNum, Send("choices", 1) \o Recv("GGM_tree", 1))
  \o Recv("MpVole", NoiseNum)

\* One extension of a VOLE adapter: its OTs, MpVole, the consistency check
\* and the seed of the code.
BootstrapSend(p) ==
  OtCall(p, p, NoiseNum) \o MpVoleSend
  \o SyncSeed(p) \o Recv("MalVole", 1) \o Send("MalVoleHash", 1)
  \o SyncSeed(p)

BootstrapRecv(p) ==
  OtCall(p, Peer(p), NoiseNum) \o MpVoleRecv
  \o SyncSeed(p) \o Send("MalVole", 1) \o Recv("MalVoleHash", 1)
  \o SyncSeed(p)

RandomAuth(p, n) ==
  IF p = 0 THEN Call("RandomSet", n) \o Call("RandomGet", n)
           ELSE Call("RandomGet", n) \o Call("RandomSet", n)

AuthSet(n) == Call("RandomSet", n) \o Send("AuthSet", n)
AuthGet(n) == Call("RandomGet", n) \o Recv("AuthSet", n)

\* Both ranks authenticate n values, rank 0 first.
AuthBoth(p, n) ==
  IF p = 0 THEN AuthSet(n) \o AuthGet(n) ELSE AuthGet(n) \o AuthSet(n)

OpenAndDelayCheck(p, n) == Exchange(p, "opening", n) \o Local("push", "delay", n)

MulPPExtendSendWithChosenB(p, n) ==
  OtCall(p, p, n) \o Send("MulPP", n) \o SyncSeed(p)
MulPPExtendRecvWithChosenB(p, n) ==
  OtCall(p, Peer(p), n) \o Recv("MulPP", n) \o SyncSeed(p)

BeaverTripleExtendWithChosenB(p, n) ==
  IF p = 0
    THEN MulPPExtendSendWithChosenB(p, n) \o MulPPExtendRecvWithChosenB(p, n)
    ELSE MulPPExtendRecvWithChosenB(p, n) \o MulPPExtendSendWithChosenB(p, n)

\* The sizes of the batches n triples are made in.
Batches(n) ==
  [i \in 1 .. DivCeil(n, TripleBatch) |->
     IF i * TripleBatch <= n THEN TripleBatch ELSE n % TripleBatch]

\* The end of both kinds of triple: a random combination is opened and
\* compared with the product of the opened factors.
TripleCheck(p, n) ==
  SyncSeed(p) \o OpenAndDelayCheck(p, 2 * n) \o Exchange(p, "product", n)

BeaverTriple(p, n) ==
  FlattenSeq([i \in DOMAIN Batches(n) |->
                BeaverTripleExtendWithChosenB(p, Batches(n)[i])])
  \o AuthBoth(p, 5 * n) \o TripleCheck(p, n)

BeaverTripleWithChosenB(p, n) ==
  BeaverTripleExtendWithChosenB(p, n)
  \o AuthBoth(p, 4 * n) \o TripleCheck(p, n)

Mul(p, n) ==
  FlattenSeq([i \in DOMAIN Batches(n) |->
                BeaverTripleWithChosenB(p, Batches(n)[i])])
  \o OpenAndDelayCheck(p, n)

\* _NMul multiplies the halves until one value remains; for a single value
\* it has nothing to multiply and throws.
ProductTree(p, n) ==
  IF n = 1 THEN <<>>
  ELSE Mul(p, n \div 2) \o Call("ProductTree", (n \div 2) + (n % 2))

Inv(p, n) == RandomAuth(p, n) \o Mul(p, n) \o OpenAndDelayCheck(p, n)

NMul(p, n) ==
  RandomAuth(p, n)
  \o (IF n = 1 THEN Local("throw", "product", 0) ELSE Call("ProductTree", n))
  \o Call("Inv", 1)

\* The check of the puncturable PRFs of a shuffle.
ShuffleSend_check(p, n) ==
  Recv("consistency_check", n) \o ExchangeWithCommit(p, "check_hash", 1)
ShuffleRecv_check(p, n) ==
  Send("consistency_check", n) \o ExchangeWithCommit(p, "check_hash", 1)

\* ShuffleSet and ShuffleGet of n elements.
ShuffleSet(p, n) ==
  OtCall(p, Peer(p), n) \o Times(n, Recv("GGM_tree", n)) \o ShuffleSend_check(p, n)
ShuffleGet(p, n) ==
  OtCall(p, p, n) \o Times(n, Send("GGM_tree", n)) \o ShuffleRecv_check(p, n)

\* One authenticated share translation of n elements.
ASTSend(p, n) ==
  OtCall(p, Peer(p), n) \o Times(n, Recv("GGM_tree", n))
  \o Recv("r_sub_b", 2 * n) \o ShuffleSend_check(p, n)
ASTRecv(p, n) ==
  OtCall(p, p, n) \o Times(n, Send("GGM_tree", n))
  \o Send("r_sub_b", 2 * n) \o ShuffleRecv_check(p, n)

AShareLineCombineDelayCheck(n) == Local("push", "line", n)

ASTSet(p, n) ==
  RandomAuth(p, n) \o ASTSend(p, n)
  \o Times(ASTRounds,
       Call("RandomAuth", n) \o Call("ASTSend", n)
       \o OpenAndDelayCheck(p, n) \o AuthSet(n)
       \o AShareLineCombineDelayCheck(n) \o AShareLineCombineDelayCheck(n))

ASTGet(p, n) ==
  RandomAuth(p, n) \o ASTRecv(p, n)
  \o Times(ASTRounds,
       Call("RandomAuth", n) \o Call("ASTRecv", n)
       \o OpenAndDelayCheck(p, n) \o AuthGet(n)
       \o AShareLineCombineDelayCheck(n) \o AShareLineCombineDelayCheck(n))
=============================================================================
