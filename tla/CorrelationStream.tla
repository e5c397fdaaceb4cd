------------------------- MODULE CorrelationStream -------------------------
(***************************************************************************)
(* What a correlation adapter (VoleAdapter, OtAdapter: the classes of      *)
(* mosac/cr/utils/vole_adapter.h and ot_adapter.h) promises its callers.   *)
(* Each end is handed a stream of correlations, some of them per request.  *)
(* No correlation is handed out twice, and the two ends' streams agree as  *)
(* far as both have come: the k-th value of one end belongs to the k-th    *)
(* value of the other.                                                     *)
(***************************************************************************)
EXTENDS Naturals, Sequences, SequencesExt

CONSTANTS Ends, Junk
VARIABLE got    \* got[p]: everything end p has been handed, in order

Agree(s, t) == IsPrefix(s, t) \/ IsPrefix(t, s)

Start(g) == g = [p \in Ends |-> <<>>]

\* From g to h end p is handed some more correlations: real ones, none of
\* them twice, and those its peer holds at the same positions.
Delivery(g, h, p) ==
  /\ IsStrictPrefix(g[p], h[p])
  /\ IsInjective(h[p])
  /\ Junk \notin Range(h[p])
  /\ \A q \in Ends \ {p} : h[q] = g[q] /\ Agree(h[p], g[q])

Init == Start(got)
Deliver(p) == Delivery(got, got', p)

Next == \E p \in Ends : Deliver(p)

Spec == Init /\ [][Next]_got
=============================================================================
