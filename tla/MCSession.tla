----------------------------- MODULE MCSession -----------------------------
(* Small instances of Session. *)
EXTENDS Session

Do(op, n) == [op |-> op, num |-> n]

\* The programs of at most two calls of a set.
UpToTwo(calls) == {<<c>> : c \in calls} \cup (calls \X calls)

\* One call of each kind of correlation and of each way to open and check.
ShareCalls ==
  {Do("RandA", 2), Do("MulAA", 3), Do("InvA", 1), Do("A2P", 2), Do("SetA", 2),
   Do("GetA", 1), Do("ShuffleA", 2), Do("ShuffleA_2k", 4),
   Do("NMulA", 3), Do("NMulA", 1), Do("DivAA", 1), Do("RandFairA", 2),
   Do("FairA2P", 1), Do("SetKey", 0)}

SharePrograms == UpToTwo(ShareCalls)

ShufflePrograms ==
  UpToTwo({Do("SShuffleA", 2), Do("OptSShuffleA", 2), Do("SetA", 1)})

\* One call of each kind of generation of many shuffles or translations, and
\* of the operations over them.
TranslationCalls ==
  {Do("OptSShuffleA", 2), Do("cr.BatchShuffleSet", 9),
   Do("cr._BatchShuffleGet", 3), Do("cr.ASTSet_2k", 4),
   Do("cr.DoubleASTGet_2k", 4), Do("cr._DoubleASTSet_2k", 4),
   Do("SetVoleKey", 0)}
TranslationPrograms == UpToTwo(TranslationCalls)

LongPrograms == ShufflePrograms \cup TranslationPrograms

\* A program for each, for the runs with a crash and of a single factor.
SinglePrograms == {<<c>> : c \in ShareCalls}
OneElement == {<<Do("SShuffleA", 1)>>}

\* One share translation, for the run about what stays unchecked after it.
OneTranslation == {<<Do("ASTSet", 1)>>}
=============================================================================
