------------------------- MODULE TranslationScripts -------------------------
(***************************************************************************)
(* The generations of TrueCorrelation that make many translations at once  *)
(* (mosac/cr/true_cr.cc) and the batched primitives below them             *)
(* (mosac/cr/utils/shuffle.cc, silent_vole.cc), as scripts of rank p.  The *)
(* check buffer "double" is double_ast_check_buff_.                        *)
(***************************************************************************)
EXTENDS CorrelationScripts, FiniteSetsExt

CONSTANTS
  BlockSize,    \* bound: T of the functions named _2k, a power of two
  BatchMax,     \* bound: kBatchAST and kBatchShuffle, 8192 in the code
  BatchOts,     \* bound: kBatchOtSize, 1 << 23
  DoubleRounds, \* bound: B of DoubleASTSet and DoubleASTGet, 5 in the code
  MergeRounds,  \* bound: what findB returns for a batch, and findB_double
  CallRounds    \* bound: what findB returns for all translations of a call

ASSUME TranslationScriptsAssumption ==
  /\ BlockSize \in Nat \ {0, 1} /\ BatchMax \in Nat \ {0}
  /\ BatchOts \in Nat /\ BatchOts >= 8
  /\ DoubleRounds \in Nat \ {0} /\ MergeRounds \in Nat \ {0}
  /\ CallRounds \in Nat \ {0}

\* As many as there are powers of two below n.
Log2Ceil(n) == Cardinality({k \in 0 .. n : 2 ^ k < n})

\* The passes of a shuffle of n elements, in blocks of BlockSize.
Depth(n) == 2 * DivCeil(Log2Ceil(n), Log2Ceil(BlockSize)) - 1

\* The OTs of one shuffle or translation of n elements.
RequiredOt(n) == n * Log2Ceil(n)

\* The sizes of the parts of at most size in which total things are made.
Parts(total, size) ==
  [i \in 1 .. DivCeil(total, size) |->
     IF i * size <= total THEN size ELSE total - (i - 1) * size]

\* The messages of a batch: one for every delay_round translations, of the
\* size of delay_round of them even when it holds fewer.
DelayRound(n) == DivCeil(BatchMax, RequiredOt(n))

WrongBatchMessageReceive(tag, total, n, size) ==
  FlattenSeq([i \in 1 .. total \div DelayRound(n) |-> Recv(tag, DelayRound(n) * size)])
BatchMessageReceive(tag, total, n, size) ==
  FlattenSeq([i \in 1 .. total |->
    IF (i - 1) % DelayRound(n) = 0 THEN Recv(tag, DelayRound(n) * size) ELSE <<>>])

WrongBatchMessageSend(tag, total, n, size) ==
  FlattenSeq([i \in 1 .. total |->
    IF i % DelayRound(n) = 0 THEN Send(tag, DelayRound(n) * size) ELSE <<>>])
BatchMessageSend(tag, total, n, size) ==
  FlattenSeq([i \in 1 .. total |->
    IF i % DelayRound(n) = 0 THEN Send(tag, DelayRound(n) * size) ELSE <<>>])
  \o (IF total % DelayRound(n) # 0 THEN Send(tag, DelayRound(n) * size) ELSE <<>>)

\* total shuffles of n elements, and the variant over random OTs.
BatchShuffleSend(p, total, n) ==
  OtCall(p, Peer(p), total * RequiredOt(n))
  \o BatchMessageReceive("BatchShuffle", total, n, RequiredOt(n))
  \o ShuffleSend_check(p, total * n)
BatchShuffleRecv(p, total, n) ==
  OtCall(p, p, total * RequiredOt(n))
  \o BatchMessageSend("BatchShuffle", total, n, RequiredOt(n))
  \o ShuffleRecv_check(p, total * n)

SgrrOtExtHelper(n) == 2 * Log2Ceil(n)

SgrrBatchShuffleSend(p, total, n) ==
  OtCall(p, Peer(p), total * RequiredOt(n))
  \o BatchMessageReceive("BatchShuffle", total, n, n * SgrrOtExtHelper(n))
  \o ShuffleSend_check(p, total * n)
SgrrBatchShuffleRecv(p, total, n) ==
  OtCall(p, p, total * RequiredOt(n))
  \o BatchMessageSend("BatchShuffle", total, n, n * SgrrOtExtHelper(n))
  \o ShuffleRecv_check(p, total * n)

\* total translations of n elements.  A message holds the corrections too,
\* 2 for each element of a translation and 4 of a double one.
BatchASTSend(p, total, n) ==
  OtCall(p, Peer(p), total * RequiredOt(n))
  \o BatchMessageReceive("BatchAST", total, n, RequiredOt(n) + 2 * n)
  \o ShuffleSend_check(p, total * n)
BatchASTRecv(p, total, n) ==
  OtCall(p, p, total * RequiredOt(n))
  \o BatchMessageSend("BatchAST", total, n, RequiredOt(n) + 2 * n)
  \o ShuffleRecv_check(p, total * n)

BatchDoubleASTSend(p, total, n) ==
  OtCall(p, Peer(p), total * RequiredOt(n))
  \o BatchMessageReceive("BatchAST", total, n, RequiredOt(n) + 4 * n)
  \o ShuffleSend_check(p, total * n)
BatchDoubleASTRecv(p, total, n) ==
  OtCall(p, p, total * RequiredOt(n))
  \o BatchMessageSend("BatchAST", total, n, RequiredOt(n) + 4 * n)
  \o ShuffleRecv_check(p, total * n)

-----------------------------------------------------------------------------

\* A silent VOLE adapter, made for one use: its set-up from a base VOLE
\* with its check, and one extension.
BaseVoleSend(p) ==
  OtCall(p, p, NoiseNum + 1) \o Send("BaseVole", NoiseNum + 1)
  \o SyncSeed(p) \o Recv("MalBaseVole", 2)
BaseVoleRecv(p) ==
  OtCall(p, Peer(p), NoiseNum + 1) \o Recv("BaseVole", NoiseNum + 1)
  \o SyncSeed(p) \o Send("MalBaseVole", 2)

SilentVoleSend(p) ==
  OtCall(p, p, NoiseNum) \o MpVoleSend
  \o SyncSeed(p) \o Recv("MalVole", 1) \o Send("MalVoleHash", 1)
SilentVoleRecv(p) ==
  OtCall(p, Peer(p), NoiseNum) \o MpVoleRecv
  \o SyncSeed(p) \o Send("MalVole", 1) \o Recv("MalVoleHash", 1)

FreshVoleSend(p) == BaseVoleSend(p) \o SilentVoleSend(p)
FreshVoleRecv(p) == BaseVoleRecv(p) \o SilentVoleRecv(p)

\* The set-up of a Wolverine adapter, and of the two of a kind.
VoleSetupSend(p) == BaseVoleSend(p) \o BootstrapSend(p)
VoleSetupRecv(p) == BaseVoleRecv(p) \o BootstrapRecv(p)

InitVoleAdapter(p) ==
  IF p = 0 THEN VoleSetupSend(p) \o VoleSetupRecv(p)
           ELSE VoleSetupRecv(p) \o VoleSetupSend(p)

\* n pairs of value and mac times a key of the peer, and two such vectors
\* in one message.
MulHelperSet(n) == Send("MulHelper", 2 * n)
MulHelperGet(n) == Recv("MulHelper", 2 * n)
MulHelperSet2(m, n) == Send("MulHelper", 2 * (m + n))
MulHelperGet2(m, n) == Recv("MulHelper", 2 * (m + n))

PushHashes == Times(2, Local("push", "double", 1))

\* The part of a round of a double translation between the products: four
\* vectors are opened, and put back under the permutation.
OpenFour(p, n) == Times(4, OpenAndDelayCheck(p, n))

\* One round of DoubleASTSet: its products are sent one by one, over VOLEs
\* of its own ...
DoubleASTSetRound(p, n) ==
  FreshVoleRecv(p) \o MulHelperSet(n) \o MulHelperSet(n)
  \o FreshVoleRecv(p) \o MulHelperSet(2 * n) \o MulHelperSet(2 * n)
  \o OpenFour(p, n) \o Times(4, AuthSet(n))
  \o MulHelperSet(n) \o MulHelperSet(n) \o PushHashes
DoubleASTGetRound(p, n) ==
  FreshVoleSend(p) \o MulHelperGet(n) \o MulHelperGet(n)
  \o FreshVoleSend(p) \o MulHelperGet(2 * n) \o MulHelperGet(2 * n)
  \o OpenFour(p, n) \o Times(4, AuthGet(n))
  \o MulHelperGet(n) \o MulHelperGet(n) \o PushHashes

DoubleASTSet(p, n) ==
  RandomAuth(p, n * DoubleRounds) \o RandomAuth(p, n * DoubleRounds)
  \o BatchDoubleASTSend(p, DoubleRounds, n)
  \o Times(DoubleRounds - 1, Call("DoubleASTSetRound", n))
DoubleASTGet(p, n) ==
  RandomAuth(p, n * DoubleRounds) \o RandomAuth(p, n * DoubleRounds)
  \o BatchDoubleASTRecv(p, DoubleRounds, n)
  \o Times(DoubleRounds - 1, Call("DoubleASTGetRound", n))

\* ... and one of the functions named _2k: two by two, over VOLEs made once
\* for all rounds.
DoubleSetRound_2k(p, n) ==
  MulHelperSet2(n, n) \o MulHelperSet2(2 * n, 2 * n)
  \o OpenFour(p, n) \o Times(4, AuthSet(n)) \o MulHelperSet2(n, n) \o PushHashes
DoubleGetRound_2k(p, n) ==
  MulHelperGet2(n, n) \o MulHelperGet2(2 * n, 2 * n)
  \o OpenFour(p, n) \o Times(4, AuthGet(n)) \o MulHelperGet2(n, n) \o PushHashes

\* A round of a single translation, as in ASTSet.
SetRound(p, n) ==
  OpenAndDelayCheck(p, n) \o AuthSet(n)
  \o Times(2, AShareLineCombineDelayCheck(n))
GetRound(p, n) ==
  OpenAndDelayCheck(p, n) \o AuthGet(n)
  \o Times(2, AShareLineCombineDelayCheck(n))

\* The rounds of _DoubleASTSet_2k: a merge opens both vectors at once, a
\* layer one after the other.
_DoubleSetMerge(p, n) ==
  OpenAndDelayCheck(p, 2 * n) \o AuthSet(2 * n)
  \o Times(2, AShareLineCombineDelayCheck(n))
_DoubleGetMerge(p, n) ==
  OpenAndDelayCheck(p, 2 * n) \o AuthGet(2 * n)
  \o Times(2, AShareLineCombineDelayCheck(n))
_DoubleSetLayer(p, n) ==
  Times(2, OpenAndDelayCheck(p, n)) \o Times(2, AuthSet(n))
  \o Times(2, AShareLineCombineDelayCheck(n))
_DoubleGetLayer(p, n) ==
  Times(2, OpenAndDelayCheck(p, n)) \o Times(2, AuthGet(n))
  \o Times(2, AShareLineCombineDelayCheck(n))

\* The sizes of the batches in which the translations of a _2k are made, B
\* of BlockSize for each of them.
Total(n) == (n \div BlockSize) * Depth(n)
Batches_2k(n, B) ==
  Parts(Total(n), DivCeil(BatchOts, RequiredOt(BlockSize) * B))

\* One batch: MergeRounds translations for every one of num, shuffled by a
\* common seed and merged.  ASTSet sizes its batches by what findB returns for
\* all of them and merges as many as it returns for the batch; the double ones
\* are given the B of the call.
ASTSet_batch_basic_2k(p, num) ==
  RandomAuth(p, num * MergeRounds * BlockSize)
  \o BatchASTSend(p, num * MergeRounds, BlockSize) \o SyncSeed(p)
  \o Times(MergeRounds - 1, Call("SetRound", num * BlockSize))
ASTGet_batch_basic_2k(p, num) ==
  RandomAuth(p, num * MergeRounds * BlockSize)
  \o BatchASTRecv(p, num * MergeRounds, BlockSize) \o SyncSeed(p)
  \o Times(MergeRounds - 1, Call("GetRound", num * BlockSize))

DoubleASTSet_batch_basic_2k(p, num) ==
  Times(2, RandomAuth(p, num * MergeRounds * BlockSize))
  \o BatchDoubleASTSend(p, num * MergeRounds, BlockSize) \o SyncSeed(p)
  \o Times(2, FreshVoleRecv(p))
  \o Times(MergeRounds - 1, Call("DoubleSetRound_2k", num * BlockSize))
DoubleASTGet_batch_basic_2k(p, num) ==
  Times(2, RandomAuth(p, num * MergeRounds * BlockSize))
  \o BatchDoubleASTRecv(p, num * MergeRounds, BlockSize) \o SyncSeed(p)
  \o Times(2, FreshVoleSend(p))
  \o Times(MergeRounds - 1, Call("DoubleGetRound_2k", num * BlockSize))

_DoubleASTSet_batch_basic_2k(p, num) ==
  Times(2, RandomAuth(p, num * CallRounds * BlockSize))
  \o BatchDoubleASTSend(p, num * CallRounds, BlockSize) \o SyncSeed(p)
  \o Times(CallRounds - 1, Call("_DoubleSetMerge", num * BlockSize))
_DoubleASTGet_batch_basic_2k(p, num) ==
  Times(2, RandomAuth(p, num * CallRounds * BlockSize))
  \o BatchDoubleASTRecv(p, num * CallRounds, BlockSize) \o SyncSeed(p)
  \o Times(CallRounds - 1, Call("_DoubleGetMerge", num * BlockSize))

\* Translations of n elements out of translations of BlockSize: the batches,
\* and a round for every layer after the first.
InBatches(n, B, f) ==
  FlattenSeq([i \in DOMAIN Batches_2k(n, B) |-> Call(f, Batches_2k(n, B)[i])])

ASTSet_2k(n) ==
  InBatches(n, CallRounds, "ASTSet_batch_basic_2k") \o Times(Depth(n) - 1, Call("SetRound", n))
ASTGet_2k(n) ==
  InBatches(n, CallRounds, "ASTGet_batch_basic_2k") \o Times(Depth(n) - 1, Call("GetRound", n))

DoubleASTSet_2k(p, n) ==
  InBatches(n, MergeRounds, "DoubleASTSet_batch_basic_2k") \o Times(2, FreshVoleRecv(p))
  \o Times(Depth(n) - 1, Call("DoubleSetRound_2k", n))
DoubleASTGet_2k(p, n) ==
  InBatches(n, MergeRounds, "DoubleASTGet_batch_basic_2k") \o Times(2, FreshVoleSend(p))
  \o Times(Depth(n) - 1, Call("DoubleGetRound_2k", n))

_DoubleASTSet_2k(n) ==
  InBatches(n, CallRounds, "_DoubleASTSet_batch_basic_2k")
  \o Times(Depth(n) - 1, Call("_DoubleSetLayer", n))
_DoubleASTGet_2k(n) ==
  InBatches(n, CallRounds, "_DoubleASTGet_batch_basic_2k")
  \o Times(Depth(n) - 1, Call("_DoubleGetLayer", n))

\* The functions called by name.
TranslationScript(p, f, n) ==
  CASE f = "BatchShuffleSet" -> BatchShuffleSend(p, n, BlockSize)
    [] f = "BatchShuffleGet" -> BatchShuffleRecv(p, n, BlockSize)
    [] f = "_BatchShuffleSet" -> SgrrBatchShuffleSend(p, n, BlockSize)
    [] f = "_BatchShuffleGet" -> SgrrBatchShuffleRecv(p, n, BlockSize)
    [] f = "DoubleASTSetRound" -> DoubleASTSetRound(p, n)
    [] f = "DoubleASTGetRound" -> DoubleASTGetRound(p, n)
    [] f = "DoubleASTSet" -> DoubleASTSet(p, n)
    [] f = "DoubleASTGet" -> DoubleASTGet(p, n)
    [] f = "DoubleSetRound_2k" -> DoubleSetRound_2k(p, n)
    [] f = "DoubleGetRound_2k" -> DoubleGetRound_2k(p, n)
    [] f = "SetRound" -> SetRound(p, n)
    [] f = "GetRound" -> GetRound(p, n)
    [] f = "_DoubleSetMerge" -> _DoubleSetMerge(p, n)
    [] f = "_DoubleGetMerge" -> _DoubleGetMerge(p, n)
    [] f = "_DoubleSetLayer" -> _DoubleSetLayer(p, n)
    [] f = "_DoubleGetLayer" -> _DoubleGetLayer(p, n)
    [] f = "ASTSet_batch_basic_2k" -> ASTSet_batch_basic_2k(p, n)
    [] f = "ASTGet_batch_basic_2k" -> ASTGet_batch_basic_2k(p, n)
    [] f = "DoubleASTSet_batch_basic_2k" -> DoubleASTSet_batch_basic_2k(p, n)
    [] f = "DoubleASTGet_batch_basic_2k" -> DoubleASTGet_batch_basic_2k(p, n)
    [] f = "_DoubleASTSet_batch_basic_2k" -> _DoubleASTSet_batch_basic_2k(p, n)
    [] f = "_DoubleASTGet_batch_basic_2k" -> _DoubleASTGet_batch_basic_2k(p, n)
    [] f = "DoubleASTSet_2k" -> DoubleASTSet_2k(p, n)
    [] f = "DoubleASTGet_2k" -> DoubleASTGet_2k(p, n)
    [] f = "ASTSet_2k" -> ASTSet_2k(n)
    [] f = "ASTGet_2k" -> ASTGet_2k(n)
    [] f = "_DoubleASTSet_2k" -> _DoubleASTSet_2k(n)
    [] f = "_DoubleASTGet_2k" -> _DoubleASTGet_2k(n)

=============================================================================
