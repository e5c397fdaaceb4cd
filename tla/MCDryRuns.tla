----------------------------- MODULE MCDryRuns -----------------------------
(* Small instances of DryRuns. *)
EXTENDS DryRuns

\* Programs of two operations, and of two after a shuffle in blocks, which
\* the check of the shuffles can come after.  What takes products of its
\* elements, translates them twice or shuffles them in blocks is not called
\* on the one a sum or product returns.
OneReturned == {"NMulA", "SumA"}
TakesMany == {"NMulA", "SShuffleA", "ShuffleA_2k"}
Pairs ==
  {calls \in Operations \X Operations :
     ~(calls[1] \in OneReturned /\ calls[2] \in TakesMany)}
AnyPrograms == Pairs \cup {<<"ShuffleA_2k">> \o calls : calls \in Pairs}

\* The program of NDSS_online_example.cc.
ExamplePrograms == {<<"RandA", "ShuffleA_2k", "NdssDelayCheck", "A2P">>,
                    <<"RandA", "ShuffleA_2k", "A2P", "NdssDelayCheck", "MulAA">>}
=============================================================================
