-------------------------- MODULE FerretCot_proofs --------------------------
(***************************************************************************)
(* What is proved of ExtensionBuffer, said of FerretCot: its in-place      *)
(* rounds begin at VoleNum and never refresh the reserve.                  *)
(***************************************************************************)
EXTENDS FerretCot, TLAPS

\* The adapter with FerretCot's constants: the same definitions again, under
\* names of their own.
Adapter == INSTANCE ExtensionBuffer_proofs

\* FerretCot starts as the adapter does.
LEMMA SameInit == Init => Adapter!Init
BY DEF Init, Adapter!Init, Ends, Adapter!Ends, Empty, Adapter!Empty

\* A call is a call.
LEMMA SameCall == \A p, n : Call(p, n) => Adapter!Call(p, n)
BY DEF Call, Adapter!Call, Empty, Adapter!Empty

\* Every step inside a call is one of the adapter.
LEMMA SameStep == \A p : Step(p) => Adapter!Step(p)
<1>1. \A p : BeginExtension(p) => Adapter!BeginExtension(p)
  BY DEF BeginExtension, Adapter!BeginExtension, Extending, Adapter!Extending,
     NextSeed, Adapter!NextSeed, BaseVole, Adapter!BaseVole
<1>2. \A p : /\ EndSetup(p) => Adapter!EndSetup(p)
             /\ EndInplace(p) => Adapter!EndInplace(p)
             /\ EndBootstrap(p) => Adapter!EndBootstrap(p)
  BY DEF EndSetup, Adapter!EndSetup, EndInplace, Adapter!EndInplace,
     EndBootstrap, Adapter!EndBootstrap, PeerIsIn, Adapter!PeerIsIn,
     Peer, Adapter!Peer, Made, Adapter!Made, Block, Adapter!Block,
     Overlay, Adapter!Overlay
<1>3. \A p : ServeFromBuffer(p) => Adapter!ServeFromBuffer(p)
  BY DEF ServeFromBuffer, Adapter!ServeFromBuffer, Min2, Adapter!Min2,
     Refreshed, Adapter!Refreshed, CopyOut, Adapter!CopyOut,
     Return, Adapter!Return, Overlay, Adapter!Overlay
<1>4. \A p : /\ DrainWorstCase(p) => Adapter!DrainWorstCase(p)
             /\ DrainRest(p) => Adapter!DrainRest(p)
  BY DEF DrainWorstCase, Adapter!DrainWorstCase, DrainRest, Adapter!DrainRest,
     CopyOut, Adapter!CopyOut, Return, Adapter!Return, Overlay, Adapter!Overlay
<1>5. QED
  BY <1>1, <1>2, <1>3, <1>4 DEF Step, Adapter!Step

\* So FerretCot's behaviours are the adapter's.
LEMMA SameSpec == Spec => Adapter!Spec
<1>1. Ends = Adapter!Ends
  BY DEF Ends, Adapter!Ends
<1>2. Finished => Adapter!Finished
  BY <1>1 DEF Finished, Adapter!Finished, vars, Adapter!vars
<1>3. Next => Adapter!Next
  BY <1>1, <1>2, SameCall, SameStep DEF Next, Adapter!Next
<1>4. [Next]_vars => [Adapter!Next]_(Adapter!vars)
  BY <1>3 DEF vars, Adapter!vars
<1>5. QED
  BY <1>4, SameInit, PTL DEF Spec, Adapter!Spec

\* rcot copies within its buffer and the caller's span only.
THEOREM FerretCursorsSafe == Spec => []CursorsInBounds
<1>1. Adapter!Spec => []Adapter!CursorsInBounds
  BY Adapter!CursorsSafe, FerretSizes DEF RefreshReserve, InplaceFrom
<1>2. Adapter!CursorsInBounds => CursorsInBounds
  BY DEF Adapter!CursorsInBounds, CursorsInBounds, Ends, Adapter!Ends
<1>3. QED
  BY <1>1, <1>2, SameSpec, PTL

\* The two ends of the OT adapter run every extension from the same seed.
THEOREM FerretSameSeeds == Spec => []SeedsPaired
<1>1. Adapter!Spec => []Adapter!SeedsPaired
  BY Adapter!SameSeeds, FerretSizes DEF RefreshReserve, InplaceFrom
<1>2. Adapter!SeedsPaired => SeedsPaired
  BY DEF Adapter!SeedsPaired, SeedsPaired
<1>3. QED
  BY <1>1, <1>2, SameSpec, PTL

\* The OT adapter hands each end its half of one stream, none of it twice,
\* although it runs extensions from a reserve it has used before.
THEOREM FerretStream == Spec => StreamSpec
<1>1. Adapter!Spec => Adapter!StreamSpec
  BY Adapter!OneStream, FerretSizes DEF RefreshReserve, InplaceFrom
<1>2. Adapter!Stream!Init => Stream!Init
  BY DEF Adapter!Stream!Init, Stream!Init, Stream!Start, Adapter!Stream!Start,
     Ends, Adapter!Ends
<1>3. [Adapter!Stream!Next]_given => [Stream!Next]_given
  BY DEF Adapter!Stream!Next, Stream!Next, Adapter!Stream!Deliver, Stream!Deliver,
     Adapter!Stream!Delivery, Stream!Delivery, Adapter!Stream!IsStrictPrefix,
     Stream!IsStrictPrefix, Adapter!Stream!IsPrefix, Stream!IsPrefix,
     Adapter!Stream!IsInjective, Stream!IsInjective, Adapter!Stream!Range,
     Stream!Range, Adapter!Stream!Agree, Stream!Agree, Ends, Adapter!Ends,
     Empty, Adapter!Empty
<1>4. QED
  BY <1>1, <1>2, <1>3, SameSpec, PTL DEF Adapter!StreamSpec, StreamSpec,
     Stream!Spec, Adapter!Stream!Spec
=============================================================================
