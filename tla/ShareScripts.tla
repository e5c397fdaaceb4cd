---------------------------- MODULE ShareScripts ----------------------------
(***************************************************************************)
(* The operations on shares (mosac/ss/ashare.cc), as scripts of rank p     *)
(* over the correlations of CorrelationScripts.  The check buffers are     *)
(* "check" (Protocol's check_buff_), "ndss" (ndss_val_buff_ and            *)
(* ndss_mac_buff_) and "now", for the check A2P makes at once.             *)
(***************************************************************************)
EXTENDS TranslationScripts

CONSTANTS
  FindB,     \* bound: what ShuffleFindB returns
  WordBits   \* bound: the bits of a value, 64 or 128 in the code

ASSUME ShareScriptsAssumption == FindB \in Nat /\ WordBits \in Nat

\* A correlation no cache holds is generated and checked (mosac/cr/cr.cc).
Request(op, n) ==
  Call(op, n) \o Call("cr.DelayCheck", 0) \o Local("enforce", "delay", 0)

RandA(n) == Request("RandomAuth", n)

\* A digest of a check buffer is exchanged and compared.
CompareDigests(p, buffer) ==
  Local("digest", buffer, 0) \o ExchangeWithCommit(p, "digest", 1)
  \o Local("compare", buffer, 0)

A2P(p, n) ==
  Exchange(p, "opening", n) \o SyncSeed(p)
  \o Local("push", "now", n) \o CompareDigests(p, "now")
  \o Local("enforce", "now", 0)

A2P_delay(p, n) == Exchange(p, "opening", n) \o Local("push", "check", n)

MulAA(p, n) == Request("BeaverTriple", n) \o A2P_delay(p, 2 * n)

InvA(p, n) == RandA(n) \o MulAA(p, n) \o A2P_delay(p, n)

DivAA(p, n) == InvA(p, n) \o MulAA(p, n)
DivPA(p, n) == InvA(p, n)

\* Public values and shares of zero come out of the Prg both ranks seed
\* alike (SetupContext); nothing is sent.
RandP(n) == Call("Prg", n)
ZerosA(n) == Call("Prg", 2 * n)
P2A(n) == ZerosA(n)

ZeroOneA(p, n) == RandA(n) \o MulAA(p, n) \o A2P_delay(p, n)

SetA(n) == Request("RandomSet", n) \o Send("SetA", n)
WrongGetA(n) == Request("RandomGet", n)
GetA(n) == Request("RandomGet", n) \o Recv("SetA", n)

NMulA(p, n) == Request("NMul", n) \o MulAA(p, n) \o A2P_delay(p, n)

\* One pass of a shuffle: the masked shares, values and macs.
WrongShuffleAGet_internal(n) == Send("a+x_mac", n) \o Send("a+x_val", n)
ShuffleAGet_internal(n) == Send("a+x_val", n) \o Send("a+x_mac", n)
ShuffleASet_internal(n) == Recv("a+x_val", n) \o Recv("a+x_mac", n)

ShuffleASet(n) == Request("ShuffleSet", n) \o ShuffleASet_internal(n)
ShuffleAGet(n) == Request("ShuffleGet", n) \o ShuffleAGet_internal(n)

ShuffleA(p, n) ==
  IF p = 0 THEN ShuffleASet(n) \o ShuffleAGet(n)
           ELSE ShuffleAGet(n) \o ShuffleASet(n)

\* A shuffle of n elements in passes over blocks of BlockSize.
NdssBufferAppend(n) == Local("push", "ndss", n)

ShuffleASet_2k(n) ==
  Times(Depth(n) * FindB,
    Times(n \div BlockSize, Request("ShuffleSet", BlockSize))
    \o ShuffleASet_internal(n) \o NdssBufferAppend(n))
ShuffleAGet_2k(n) ==
  Times(Depth(n) * FindB,
    Times(n \div BlockSize, Request("ShuffleGet", BlockSize))
    \o ShuffleAGet_internal(n) \o NdssBufferAppend(n))

ShuffleA_2k(p, n) ==
  IF p = 0 THEN ShuffleASet_2k(n) \o ShuffleAGet_2k(n)
           ELSE ShuffleAGet_2k(n) \o ShuffleASet_2k(n)

\* Three products of n factors and a masked product of two differences show
\* that the shuffle kept its elements.
ShuffleProof(p, n) ==
  RandP(1) \o RandP(1)
  \o Times(3, NMulA(p, n)) \o RandA(2) \o MulAA(p, 2) \o A2P_delay(p, 2)

SShuffleASet(p, n) ==
  Request("ASTSet", n) \o A2P_delay(p, n) \o SetA(n) \o ShuffleProof(p, n)
SShuffleAGet(p, n) ==
  Request("ASTGet", n) \o A2P_delay(p, n) \o GetA(n) \o ShuffleProof(p, n)

SShuffleA(p, n) ==
  IF p = 0 THEN SShuffleASet(p, n) \o SShuffleAGet(p, n)
           ELSE SShuffleAGet(p, n) \o SShuffleASet(p, n)

\* The shuffle over a double translation: it is carried out on the values
\* and on their products with a key of the peer, and what it returns times
\* the key is compared with what it returns for the products.
OptSShuffleASet(p, n) ==
  Call("RandomVoleSet", 2 * n) \o Send("OptSS_first_vole", 2 * n)
  \o Request("DoubleASTSet", n) \o A2P_delay(p, n) \o A2P_delay(p, n)
  \o SetA(n) \o SetA(n)
  \o Call("RandomVoleSet", 2 * n) \o Send("OptSS_second_vole", 2 * n)
  \o Local("push", "now", 2 * n) \o CompareDigests(p, "now")
  \o Local("enforce", "now", 0)
OptSShuffleAGet(p, n) ==
  Call("RandomVoleGet", 2 * n) \o Recv("OptSS_first_vole", 2 * n)
  \o Request("DoubleASTGet", n) \o A2P_delay(p, n) \o A2P_delay(p, n)
  \o GetA(n) \o GetA(n)
  \o Call("RandomVoleGet", 2 * n) \o Recv("OptSS_second_vole", 2 * n)
  \o Local("push", "now", 2 * n) \o CompareDigests(p, "now")
  \o Local("enforce", "now", 0)

OptSShuffleA(p, n) ==
  IF p = 0 THEN OptSShuffleASet(p, n) \o OptSShuffleAGet(p, n)
           ELSE OptSShuffleAGet(p, n) \o OptSShuffleASet(p, n)

\* Shared values made of shared bits, and opened bit by bit.
RandFairA(p, n) == ZeroOneA(p, n * WordBits)
FairA2P(p, n) == Times(WordBits, A2P_delay(p, n)) \o A2P_delay(p, n)

\* The requests no cache serves: shuffles of BlockSize in batches, and
\* translations out of blocks.
cr_BatchShuffleSet(n) ==
  LET sizes == Parts(n, DivCeil(BatchOts, RequiredOt(BlockSize)))
  IN FlattenSeq([i \in DOMAIN sizes |-> Call("BatchShuffleSet", sizes[i])])
cr_BatchShuffleGet(n) ==
  LET sizes == Parts(n, DivCeil(BatchOts, RequiredOt(BlockSize)))
  IN FlattenSeq([i \in DOMAIN sizes |-> Call("BatchShuffleGet", sizes[i])])
cr__BatchShuffleSet(n) ==
  LET sizes == Parts(n, DivCeil(BatchOts \div 8, RequiredOt(BlockSize)))
  IN FlattenSeq([i \in DOMAIN sizes |-> Call("_BatchShuffleSet", sizes[i])])
cr__BatchShuffleGet(n) ==
  LET sizes == Parts(n, DivCeil(BatchOts \div 8, RequiredOt(BlockSize)))
  IN FlattenSeq([i \in DOMAIN sizes |-> Call("_BatchShuffleGet", sizes[i])])

\* The functions called by name.
Script(p, f, n) ==
  CASE f = "RandomAuth" -> RandomAuth(p, n)
    [] f = "BeaverTriple" -> BeaverTriple(p, n)
    [] f = "ProductTree" -> ProductTree(p, n)
    [] f = "Inv" -> Inv(p, n)
    [] f = "NMul" -> NMul(p, n)
    [] f = "ShuffleSet" -> ShuffleSet(p, n)
    [] f = "ShuffleGet" -> ShuffleGet(p, n)
    [] f = "ASTSend" -> ASTSend(p, n)
    [] f = "ASTRecv" -> ASTRecv(p, n)
    [] f = "ASTSet" -> ASTSet(p, n)
    [] f = "ASTGet" -> ASTGet(p, n)
    [] f = "RandA" -> RandA(n)
    [] f = "MulAA" -> MulAA(p, n)
    [] f = "InvA" -> InvA(p, n)
    [] f = "ZeroOneA" -> ZeroOneA(p, n)
    [] f = "A2P" -> A2P(p, n)
    [] f = "A2P_delay" -> A2P_delay(p, n)
    [] f = "SetA" -> SetA(n)
    [] f = "GetA" -> GetA(n)
    [] f = "NMulA" -> NMulA(p, n)
    [] f = "ShuffleA" -> ShuffleA(p, n)
    [] f = "ShuffleA_2k" -> ShuffleA_2k(p, n)
    [] f = "SShuffleA" -> SShuffleA(p, n)
    [] f = "Prg" -> <<>>
    [] f = "RandP" -> RandP(n)
    [] f = "P2A" -> P2A(n)
    [] f = "DivPA" -> DivPA(p, n)
    [] f = "DivAA" -> DivAA(p, n)
    [] f = "RandFairA" -> RandFairA(p, n)
    [] f = "FairA2P" -> FairA2P(p, n)
    [] f = "OptSShuffleA" -> OptSShuffleA(p, n)
    [] f = "cr.BatchShuffleSet" -> cr_BatchShuffleSet(n)
    [] f = "cr.BatchShuffleGet" -> cr_BatchShuffleGet(n)
    [] f = "cr._BatchShuffleSet" -> cr__BatchShuffleSet(n)
    [] f = "cr._BatchShuffleGet" -> cr__BatchShuffleGet(n)
    [] f = "cr.ASTSet_2k" -> Request("ASTSet_2k", n)
    [] f = "cr.ASTGet_2k" -> Request("ASTGet_2k", n)
    [] f = "cr.DoubleASTSet_2k" -> Request("DoubleASTSet_2k", n)
    [] f = "cr.DoubleASTGet_2k" -> Request("DoubleASTGet_2k", n)
    [] f = "cr._DoubleASTSet_2k" -> Request("_DoubleASTSet_2k", n)
    [] f = "cr._DoubleASTGet_2k" -> Request("_DoubleASTGet_2k", n)
    [] OTHER -> TranslationScript(p, f, n)
=============================================================================
