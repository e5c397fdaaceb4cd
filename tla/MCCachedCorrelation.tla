------------------------ MODULE MCCachedCorrelation ------------------------
(* Small instances of CachedCorrelation. *)
EXTENDS CachedCorrelation

Ask(op, n) == [op |-> op, num |-> n]

\* Both kinds of vector, both directions, and the request made of two parts.
SmallRequests ==
  {Ask("RandomAuth", 1), Ask("RandomSet", 2), Ask("ASTGet", 2),
   Ask("BeaverTriple", 1)}
=============================================================================
