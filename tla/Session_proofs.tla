--------------------------- MODULE Session_proofs ---------------------------
(***************************************************************************)
(* The two ranks of a session, for every program and all sizes.  What a    *)
(* rank does next depends on what it has done, never on what it has        *)
(* received: both walk down one path, and at each position of the path     *)
(* their steps fit.                                                        *)
(*                                                                         *)
(* And a wrong mac is found at both ranks: it stays in a check buffer or   *)
(* in a digest until a comparison fails, and every buffer but the line     *)
(* buffer has a check still to come.                                       *)
(***************************************************************************)
EXTENDS Session, ShareScripts_proofs

-----------------------------------------------------------------------------
\* The control of a rank: its steps to do, what is left in its VOLE buffers,
\* the openings in its check buffers and those of its digest.

Entries == [of : Int, by : Ranks \cup {Nobody}]
Lefts == [Kinds -> [Ranks -> 0 .. VoleNum - Reserve]]
Sizes == [Buffers -> Seq(Int)]
Controls == [todo : Seq(Steps), left : Lefts, sizes : Sizes, mine : Seq(Int)]

SumOf(sizes) == FoldSeq(LAMBDA n, sum : sum + n, 0, sizes)

\* What a call without a script is replaced by.
VoleCalls == {"RandomSet", "RandomGet", "RandomVoleSet", "RandomVoleGet"}
ToReceive == {"RandomSet", "RandomVoleSet"}
KindOf(f) == IF f \in {"RandomSet", "RandomGet"} THEN "mac" ELSE "extra"
ReceiverOf(p, f) == IF f \in ToReceive THEN p ELSE Peer(p)
Wanting(p, c, f, n) == Lacking(n, c.left[KindOf(f)][ReceiverOf(p, f)])

GrownServed(p, c, f, n) ==
  Times(Wanting(p, c, f, n),
        IF f \in ToReceive THEN BootstrapRecv(p) ELSE BootstrapSend(p))
GrownCr(p, c) ==
  IF c.sizes["delay"] = <<>> /\ c.sizes["double"] = <<>> THEN <<>>
  ELSE CompareDigests(p, "delay")
       \o (IF c.sizes["double"] = <<>> THEN <<>> ELSE CompareDigests(p, "double"))
GrownProtocol(p, c) ==
  IF c.sizes["check"] = <<>> THEN <<>> ELSE CompareDigests(p, "check")
GrownNdss(p, c) ==
  IF c.sizes["ndss"] = <<>> THEN <<>>
  ELSE SyncSeed(p) \o Call("RandA", 1) \o Exchange(p, "combination", 1)
       \o CompareDigests(p, "ndss")
GrownLine(p, c) ==
  IF c.sizes["line"] = <<>> THEN <<>>
  ELSE SyncSeed(p) \o Call("RandomAuth", 1) \o Exchange(p, "combination", 1)
       \o Local("combine", "line", 0)

GrownCall(p, c, f, n) ==
  IF f \notin Stateful THEN Script(p, f, n)
  ELSE IF f \in VoleCalls THEN GrownServed(p, c, f, n)
  ELSE IF f \in {"SetKey", "SetVoleKey"} THEN InitVoleAdapter(p)
  ELSE IF f = "cr.DelayCheck" THEN GrownCr(p, c)
  ELSE IF f = "prot.DelayCheck" THEN GrownProtocol(p, c)
  ELSE IF f = "NdssDelayCheck" THEN GrownNdss(p, c)
  ELSE GrownLine(p, c)

\* What a step is replaced by, and what it leaves.
Grown(p, c, h) ==
  IF h.do = "call" THEN GrownCall(p, c, h.tag, h.num)
  ELSE IF h.do = "push"
    THEN WhenFull(h.tag, SumOf(Append(c.sizes[h.tag], h.num)))
  ELSE IF h.do = "combine" /\ Len(c.sizes["delay"]) + 1 > DelayMax
    THEN Call("cr.DelayCheck", 0) \o Local("enforce", "delay", 0)
  ELSE <<>>

LeftAfter(p, c, h) ==
  IF h.do # "call" THEN c.left
  ELSE IF h.tag \in VoleCalls
    THEN [c.left EXCEPT ![KindOf(h.tag)][ReceiverOf(p, h.tag)] =
            @ + Wanting(p, c, h.tag, h.num) * Block - h.num]
  ELSE IF h.tag = "SetKey"
    THEN [c.left EXCEPT !["mac"] = [r \in Ranks |-> SetupLeft]]
  ELSE IF h.tag = "SetVoleKey"
    THEN [c.left EXCEPT !["extra"] = [r \in Ranks |-> SetupLeft]]
  ELSE c.left

SizesAfter(c, h) ==
  IF h.do = "push" THEN [c.sizes EXCEPT ![h.tag] = Append(@, h.num)]
  ELSE IF h.do = "combine"
    THEN [c.sizes EXCEPT !["delay"] = Append(@, Len(c.sizes["line"])),
                         !["line"] = <<>>]
  ELSE IF h.do = "digest" /\ h.tag = "check"
    THEN [c.sizes EXCEPT !["check"] = <<>>]
  ELSE IF h.do = "compare" THEN [c.sizes EXCEPT ![h.tag] = <<>>]
  ELSE c.sizes

MineAfter(c, h) ==
  IF h.do = "digest" THEN c.sizes[h.tag]
  ELSE IF h.do = "compare" THEN <<>> ELSE c.mine

After(p, c) ==
  LET h == Head(c.todo)
  IN [todo |-> Grown(p, c, h) \o Tail(c.todo), left |-> LeftAfter(p, c, h),
      sizes |-> SizesAfter(c, h), mine |-> MineAfter(c, h)]

\* Rank p's control fits its peer's.
Paired(p, c, d) ==
  /\ Len(c.todo) = Len(d.todo)
  /\ \A i \in 1 .. Len(c.todo) : StepsFit(c.todo[i], d.todo[i])
  /\ d.left = c.left /\ d.sizes = c.sizes /\ d.mine = c.mine

-----------------------------------------------------------------------------
\* What the ranks' controls grow by fits.

\* The ways two functions are twins.
LEMMA TwinCases ==
  ASSUME NEW f, NEW g, <<f, g>> \in Twins
  PROVE  \/ f \in Whole \cup WholeStateful /\ g = f
         \/ <<f, g>> \in Halves \cup HalvesStateful
         \/ <<g, f>> \in Halves \cup HalvesStateful
<1>1. CASE \E e \in Whole \cup WholeStateful : <<f, g>> = <<e, e>>
  BY <1>1
<1>2. CASE <<f, g>> \in Halves \cup HalvesStateful
  BY <1>2
<1>3. ASSUME NEW h \in Halves \cup HalvesStateful, <<f, g>> = <<h[2], h[1]>>
      PROVE  <<g, f>> \in Halves \cup HalvesStateful
  <2>1. h = <<h[1], h[2]>>
    BY DEF Halves, HalvesStateful
  <2>2. QED
    BY <1>3, <2>1
<1>4. QED
  BY <1>1, <1>2, <1>3 DEF Twins

\* ... which goes both ways.
LEMMA TwinsBack ==
  ASSUME NEW f, NEW g, <<f, g>> \in Twins
  PROVE  <<g, f>> \in Twins
  BY DEF Twins, Whole, WholeStateful, Halves, HalvesStateful

\* A function both ranks call a side of, the same or each its own.
LEMMA ScriptFits ==
  ASSUME NEW p \in Ranks, NEW f, NEW g, <<f, g>> \in Twins, f \notin Stateful,
         NEW n \in Nat, f \in OfTwo => n >= 2
  PROVE  g \notin Stateful /\ Fit(p, Script(p, f, n), Script(Peer(p), g, n))
<1>1. CASE f \in Whole /\ g = f
  BY <1>1, WholeFits DEF OfTwo
<1>2. CASE <<f, g>> \in Halves
  <2>1. g \notin Stateful
    BY <1>2 DEF Halves, Stateful
  <2>2. f = "DoubleASTSet" => n >= 2
    BY DEF OfTwo
  <2>3. QED
    BY <1>2, <2>1, <2>2, HalvesFit
<1>3. CASE <<g, f>> \in Halves
  <2>1. g \notin Stateful
    BY <1>3 DEF Halves, Stateful
  <2>2. g = "DoubleASTSet" => n >= 2
    <3>1. g = "DoubleASTSet" => f = "DoubleASTGet"
      BY <1>3 DEF Halves
    <3>2. QED
      BY <3>1 DEF OfTwo
  <2>3. Fit(Peer(p), Script(Peer(p), g, n), Script(Peer(Peer(p)), f, n))
    BY <1>3, <2>2, HalvesFit, PeerFacts
  <2>4. QED
    BY <2>1, <2>3, FitBack, PeerFacts
<1>4. QED
  <2>1. \/ f \in Whole \cup WholeStateful /\ g = f
        \/ <<f, g>> \in Halves \cup HalvesStateful
        \/ <<g, f>> \in Halves \cup HalvesStateful
    BY TwinCases
  <2>2. f \notin WholeStateful
    BY DEF WholeStateful, Stateful
  <2>3. /\ <<f, g>> \notin HalvesStateful
        /\ <<g, f>> \notin HalvesStateful
    BY DEF HalvesStateful, Stateful
  <2>4. QED
    BY <1>1, <1>2, <1>3, <2>1, <2>2, <2>3

\* What a rank takes from a VOLE buffer leaves less than a block or what
\* there was more.
LEMMA LackingFacts ==
  ASSUME NEW n \in Nat, NEW has \in 0 .. VoleNum - Reserve
  PROVE  /\ Lacking(n, has) \in Int
         /\ has + Lacking(n, has) * Block - n \in 0 .. VoleNum - Reserve
<1>1. Block \in Nat \ {0} /\ Block = VoleNum - Reserve
  BY SessionAssumption DEF Block
<1>2. CASE n > has
  <2>1. /\ DivCeil(n - has, Block) \in Int
        /\ n - has <= Block * DivCeil(n - has, Block)
        /\ Block * DivCeil(n - has, Block) < n - has + Block
    <3>1. n - has \in Int
      OBVIOUS
    <3>2. QED
      BY <1>1, <3>1, DivCeilFacts
  <2>2. PICK l \in Int : l = DivCeil(n - has, Block)
    BY <2>1
  <2>3. PICK m \in Int : m = Block * l
    BY <1>1
  <2>4. PICK b \in Nat : b = Block
    BY <1>1
  <2>5. l * b = m /\ n - has <= m /\ m < n - has + b
    BY <2>1, <2>2, <2>3, <2>4
  <2>6. has + m - n \in 0 .. b
    BY <2>5
  <2>7. QED
    BY <1>1, <1>2, <2>2, <2>4, <2>5, <2>6 DEF Lacking
<1>3. CASE ~(n > has)
  BY <1>1, <1>3, SessionAssumption DEF Lacking
<1>4. QED
  BY <1>2, <1>3

\* A step, by its kind.
LEMMA StepFacts ==
  ASSUME NEW s \in Steps
  PROVE  /\ s.num \in Int /\ s.tag \in Tags /\ s.ch \in Channels
         /\ s.do = "call" => /\ s.tag \in Functions /\ s.num \in Nat
                             /\ s.tag \in OfTwo => s.num >= 2
         /\ s.do \in OnBuffers => s.tag \in Buffers
         /\ s.do \in Messages => s.tag \in Purposes
         /\ s.do \in Messages \cup OnBuffers \cup {"call", "throw"}
  BY DEF Steps, Legal, Buffers, CheckBuffers

\* Twins take from the adapters of one kind and receiver.
LEMMA TakenFrom ==
  ASSUME NEW p \in Ranks, NEW f, NEW g, <<f, g>> \in Twins, f \in VoleCalls
  PROVE  /\ g \in VoleCalls /\ KindOf(g) = KindOf(f) /\ KindOf(f) \in Kinds
         /\ ReceiverOf(Peer(p), g) = ReceiverOf(p, f) /\ ReceiverOf(p, f) \in Ranks
         /\ f \in ToReceive <=> g \notin ToReceive
<1>1. f \notin Whole \cup WholeStateful
  BY DEF Whole, WholeStateful, VoleCalls
<1>2. <<f, g>> \notin Halves /\ <<g, f>> \notin Halves
  BY DEF Halves, VoleCalls
<1>3. <<f, g>> \in HalvesStateful \/ <<g, f>> \in HalvesStateful
  BY <1>1, <1>2, TwinCases
<1>4. QED
  BY <1>3, PeerFacts DEF HalvesStateful, VoleCalls, KindOf, ReceiverOf, ToReceive,
     Kinds

\* What calls without a script grow to.
LEMMA StatefulFits ==
  ASSUME NEW p \in Ranks, NEW c \in Controls, NEW d \in Controls,
         d.left = c.left, d.sizes = c.sizes,
         NEW f, NEW g, <<f, g>> \in Twins, f \in Stateful, NEW n \in Nat
  PROVE  Fit(p, GrownCall(p, c, f, n), GrownCall(Peer(p), d, g, n))
<1>1. CASE f \in VoleCalls
  <2>1. /\ g \in VoleCalls /\ KindOf(g) = KindOf(f) /\ KindOf(f) \in Kinds
        /\ ReceiverOf(Peer(p), g) = ReceiverOf(p, f) /\ ReceiverOf(p, f) \in Ranks
        /\ f \in ToReceive <=> g \notin ToReceive
    BY <1>1, TakenFrom
  <2>2. Wanting(Peer(p), d, g, n) = Wanting(p, c, f, n)
    BY <2>1 DEF Wanting
  <2>3. Wanting(p, c, f, n) \in Int
    BY <2>1, LackingFacts DEF Wanting, Controls, Lefts
  <2>4. Fit(p, GrownServed(p, c, f, n), GrownServed(Peer(p), d, g, n))
    <3>1. CASE f \in ToReceive
      BY <2>1, <2>2, <2>3, <3>1, FitBootstrap, FitTimes DEF GrownServed
    <3>2. CASE f \notin ToReceive
      BY <2>1, <2>2, <2>3, <3>2, FitBootstrap, FitTimes DEF GrownServed
    <3>3. QED
      BY <3>1, <3>2
  <2>5. g \in Stateful
    BY <2>1 DEF VoleCalls, Stateful
  <2>6. QED
    BY <1>1, <2>1, <2>4, <2>5 DEF GrownCall
<1>2. CASE f \notin VoleCalls
  <2>1. g = f /\ f \in WholeStateful
    <3>1. f \in WholeStateful
      BY <1>2 DEF VoleCalls, WholeStateful, Stateful
    <3>2. <<f, g>> \notin Halves \cup HalvesStateful
      BY <1>2 DEF Halves, HalvesStateful, VoleCalls, Stateful
    <3>3. <<g, f>> \notin Halves \cup HalvesStateful
      BY <1>2 DEF Halves, HalvesStateful, VoleCalls, Stateful
    <3>4. QED
      BY <3>1, <3>2, <3>3, TwinCases
  <2>2. Fit(p, GrownCr(p, c), GrownCr(Peer(p), d))
    BY FitCompare, FitEmpty, FitConcat, BufferFacts DEF GrownCr
  <2>3. Fit(p, GrownProtocol(p, c), GrownProtocol(Peer(p), d))
    BY FitCompare, FitEmpty, BufferFacts DEF GrownProtocol
  <2>4. Fit(p, GrownNdss(p, c), GrownNdss(Peer(p), d))
    <3>1. Fit(p, Call("RandA", 1), Call("RandA", 1))
      BY FitWhole DEF Whole
    <3>2. Fit(p, Exchange(p, "combination", 1), Exchange(Peer(p), "combination", 1))
      BY FitExchange, PurposeFacts
    <3>3. QED
      BY <3>1, <3>2, FitSyncSeed, FitCompare, FitEmpty, FitConcat, BufferFacts
         DEF GrownNdss
  <2>5. Fit(p, GrownLine(p, c), GrownLine(Peer(p), d))
    <3>1. Fit(p, Call("RandomAuth", 1), Call("RandomAuth", 1))
      BY FitWhole DEF Whole
    <3>2. Fit(p, Exchange(p, "combination", 1), Exchange(Peer(p), "combination", 1))
      BY FitExchange, PurposeFacts
    <3>3. Fit(p, Local("combine", "line", 0), Local("combine", "line", 0))
      BY FitLocal, BufferFacts
    <3>4. QED
      BY <3>1, <3>2, <3>3, FitSyncSeed, FitEmpty, FitConcat DEF GrownLine
  <2>6. QED
    BY <1>2, <2>1, <2>2, <2>3, <2>4, <2>5, FitInitVole DEF GrownCall
<1>3. QED
  BY <1>1, <1>2

\* A full buffer is checked at both ranks.
LEMMA FullFits ==
  ASSUME NEW p \in Ranks, NEW b, NEW size
  PROVE  Fit(p, WhenFull(b, size), WhenFull(b, size))
<1>1. /\ Fit(p, Call("AShareLineCombineDelayCheck", 0),
                Call("AShareLineCombineDelayCheck", 0))
      /\ Fit(p, Call("NdssDelayCheck", 0), Call("NdssDelayCheck", 0))
  BY FitWhole DEF WholeStateful
<1>2. Fit(p, Local("enforce", "ndss", 0), Local("enforce", "ndss", 0))
  BY FitLocal, BufferFacts
<1>3. CASE b = "line" /\ size >= LineMax
  BY <1>1, <1>3 DEF WhenFull
<1>4. CASE b = "ndss" /\ size >= NdssMax
  BY <1>1, <1>2, <1>4, FitConcat DEF WhenFull
<1>5. CASE ~(b = "line" /\ size >= LineMax) /\ ~(b = "ndss" /\ size >= NdssMax)
  BY <1>5, FitEmpty DEF WhenFull
<1>6. QED
  BY <1>3, <1>4, <1>5

\* Whatever the steps, what they grow to fits.
LEMMA GrownFits ==
  ASSUME NEW p \in Ranks, NEW c \in Controls, NEW d \in Controls,
         d.left = c.left, d.sizes = c.sizes,
         NEW h \in Steps, NEW k \in Steps, StepsFit(h, k)
  PROVE  Fit(p, Grown(p, c, h), Grown(Peer(p), d, k))
<1>1. CASE h.do = "call"
  <2>1. k.do = "call" /\ <<h.tag, k.tag>> \in Twins /\ k.num = h.num
    BY <1>1 DEF StepsFit, Messages
  <2>2. h.num \in Nat /\ (h.tag \in OfTwo => h.num >= 2)
    BY <1>1, StepFacts
  <2>3. CASE h.tag \in Stateful
    BY <1>1, <2>1, <2>2, <2>3, StatefulFits DEF Grown
  <2>4. CASE h.tag \notin Stateful
    BY <1>1, <2>1, <2>2, <2>4, ScriptFits DEF Grown, GrownCall
  <2>5. QED
    BY <2>3, <2>4
<1>2. CASE h.do = "push"
  BY <1>2, FullFits DEF Grown, StepsFit, Messages
<1>3. CASE h.do = "combine"
  <2>1. k.do = "combine"
    BY <1>3 DEF StepsFit, Messages
  <2>2. Fit(p, Call("cr.DelayCheck", 0), Call("cr.DelayCheck", 0))
    BY FitWhole DEF WholeStateful
  <2>3. Fit(p, Local("enforce", "delay", 0), Local("enforce", "delay", 0))
    BY FitLocal, BufferFacts
  <2>4. QED
    BY <1>3, <2>1, <2>2, <2>3, FitConcat, FitEmpty DEF Grown
<1>4. CASE h.do \notin {"call", "push", "combine"}
  <2>1. k.do \notin {"call", "push", "combine"}
    BY <1>4 DEF StepsFit, Messages
  <2>2. QED
    BY <1>4, <2>1, FitEmpty DEF Grown
<1>5. QED
  BY <1>1, <1>2, <1>3, <1>4

-----------------------------------------------------------------------------
\* Controls after a step.

\* Head and tail.
LEMMA HeadTail ==
  ASSUME NEW T, NEW s \in Seq(T), s # <<>>
  PROVE  /\ Len(s) \in Nat \ {0} /\ Head(s) = s[1] /\ Head(s) \in T
         /\ Tail(s) \in Seq(T) /\ Len(Tail(s)) = Len(s) - 1
         /\ \A i \in 1 .. Len(s) - 1 : Tail(s)[i] = s[i + 1]
  BY HeadTailProperties

\* A rank's control stays one.
LEMMA AfterControls ==
  ASSUME NEW p \in Ranks, NEW c \in Controls, c.todo # <<>>,
         Grown(p, c, Head(c.todo)) \in Seq(Steps)
  PROVE  After(p, c) \in Controls
<1> DEFINE h == Head(c.todo)
<1>1. h \in Steps /\ Tail(c.todo) \in Seq(Steps)
  BY HeadTail DEF Controls
<1> HIDE DEF h
<1>2. LeftAfter(p, c, h) \in Lefts
  <2>1. c.left \in Lefts
    BY DEF Controls
  <2>2. CASE h.do = "call" /\ h.tag \in VoleCalls
    <3>1. KindOf(h.tag) \in Kinds /\ ReceiverOf(p, h.tag) \in Ranks
      BY PeerFacts DEF KindOf, ReceiverOf, Kinds
    <3>2. PICK kind \in Kinds : kind = KindOf(h.tag)
      BY <3>1
    <3>3. PICK r \in Ranks : r = ReceiverOf(p, h.tag)
      BY <3>1
    <3>4. c.left[kind][r] \in 0 .. VoleNum - Reserve
      BY <2>1 DEF Lefts
    <3>5. h.num \in Nat
      BY <1>1, <2>2, StepFacts
    <3>6. c.left[kind][r] + Wanting(p, c, h.tag, h.num) * Block - h.num
            \in 0 .. VoleNum - Reserve
      BY <3>2, <3>3, <3>4, <3>5, LackingFacts DEF Wanting
    <3>7. LeftAfter(p, c, h)
            = [c.left EXCEPT ![kind][r] =
                 @ + Wanting(p, c, h.tag, h.num) * Block - h.num]
      BY <2>2, <3>2, <3>3 DEF LeftAfter
    <3>8. PICK v \in 0 .. VoleNum - Reserve :
            v = c.left[kind][r] + Wanting(p, c, h.tag, h.num) * Block - h.num
      BY <3>6
    <3>9. LeftAfter(p, c, h) = [c.left EXCEPT ![kind][r] = v]
      BY <3>7, <3>8
    <3>10. QED
      BY <2>1, <3>9 DEF Lefts
  <2>3. CASE ~(h.do = "call" /\ h.tag \in VoleCalls)
    <3>1. [r \in Ranks |-> SetupLeft] \in [Ranks -> 0 .. VoleNum - Reserve]
      BY SessionAssumption
    <3>2. QED
      BY <2>1, <2>3, <3>1 DEF LeftAfter, Lefts, Kinds
  <2>4. QED
    BY <2>2, <2>3
<1>3. SizesAfter(c, h) \in Sizes /\ MineAfter(c, h) \in Seq(Int)
  <2>1. c.sizes \in Sizes /\ c.mine \in Seq(Int)
    BY DEF Controls
  <2>2. h.num \in Int /\ (h.do \in OnBuffers => h.tag \in Buffers)
    BY <1>1, StepFacts
  <2>3. "line" \in Buffers /\ "delay" \in Buffers /\ "check" \in Buffers
    BY DEF Buffers
  <2>4. <<>> \in Seq(Int)
    OBVIOUS
  <2>5. CASE h.do = "push"
    <3>1. Append(c.sizes[h.tag], h.num) \in Seq(Int)
      BY <2>1, <2>2, <2>5 DEF Sizes, OnBuffers
    <3>2. QED
      BY <2>1, <2>5, <3>1 DEF SizesAfter, MineAfter, Sizes
  <2>6. CASE h.do = "combine"
    <3>1. Append(c.sizes["delay"], Len(c.sizes["line"])) \in Seq(Int)
      BY <2>1, <2>3 DEF Sizes
    <3>2. PICK x \in Seq(Int) : x = Append(c.sizes["delay"], Len(c.sizes["line"]))
      BY <3>1
    <3>3. SizesAfter(c, h) = [c.sizes EXCEPT !["delay"] = x, !["line"] = <<>>]
      BY <2>6, <3>2 DEF SizesAfter
    <3>4. SizesAfter(c, h) \in Sizes
      BY <2>1, <2>4, <3>3 DEF Sizes
    <3>5. QED
      BY <2>1, <2>6, <3>4 DEF MineAfter
  <2>7. CASE h.do = "digest"
    <3>1. MineAfter(c, h) \in Seq(Int)
      BY <2>1, <2>2, <2>7 DEF MineAfter, Sizes, OnBuffers
    <3>2. SizesAfter(c, h) \in {c.sizes, [c.sizes EXCEPT !["check"] = <<>>]}
      BY <2>7 DEF SizesAfter
    <3>3. [c.sizes EXCEPT !["check"] = <<>>] \in Sizes
      BY <2>1, <2>4 DEF Sizes
    <3>4. QED
      BY <2>1, <3>1, <3>2, <3>3
  <2>8. CASE h.do \notin {"push", "combine", "digest"}
    BY <2>1, <2>4, <2>2, <2>8 DEF SizesAfter, MineAfter, Sizes
  <2>9. QED
    BY <2>5, <2>6, <2>7, <2>8
<1>4. Grown(p, c, h) \o Tail(c.todo) \in Seq(Steps)
  BY <1>1 DEF h
<1>5. QED
  BY <1>2, <1>3, <1>4 DEF After, Controls, h

\* Controls that are paired stay so.
LEMMA AfterPaired ==
  ASSUME NEW p \in Ranks, NEW c \in Controls, NEW d \in Controls,
         Paired(p, c, d), c.todo # <<>>
  PROVE  /\ After(p, c) \in Controls /\ After(Peer(p), d) \in Controls
         /\ Paired(p, After(p, c), After(Peer(p), d))
         /\ Formed(p, Grown(p, c, Head(c.todo)))
         /\ Grown(p, c, Head(c.todo)) \in Seq(Steps)
<1> DEFINE q == Peer(p)
           h == Head(c.todo)
           k == Head(d.todo)
<1>1. q \in Ranks
  BY PeerFacts
<1>2. /\ c.todo \in Seq(Steps) /\ d.todo \in Seq(Steps) /\ d.todo # <<>>
      /\ Len(d.todo) = Len(c.todo) /\ Len(c.todo) \in Nat \ {0}
      /\ h = c.todo[1] /\ k = d.todo[1]
      /\ h \in Steps /\ k \in Steps
      /\ Tail(c.todo) \in Seq(Steps) /\ Tail(d.todo) \in Seq(Steps)
      /\ Len(Tail(c.todo)) = Len(c.todo) - 1 /\ Len(Tail(d.todo)) = Len(c.todo) - 1
      /\ \A i \in 1 .. Len(c.todo) - 1 :
           Tail(c.todo)[i] = c.todo[i + 1] /\ Tail(d.todo)[i] = d.todo[i + 1]
  <2>1. c.todo \in Seq(Steps) /\ d.todo \in Seq(Steps)
    BY DEF Controls
  <2>2. Len(d.todo) = Len(c.todo) /\ Len(c.todo) # 0
    BY <2>1 DEF Paired
  <2>3. d.todo # <<>>
    BY <2>2
  <2>4. QED
    BY <2>1, <2>2, <2>3, HeadTail
<1> HIDE DEF h, k
<1>3. StepsFit(h, k)
  BY <1>2 DEF Paired
<1>4. d.left = c.left /\ d.sizes = c.sizes /\ d.mine = c.mine
  BY DEF Paired
<1>5. Fit(p, Grown(p, c, h), Grown(q, d, k))
  BY <1>2, <1>3, <1>4, GrownFits
<1>6. /\ Grown(p, c, h) \in Seq(Steps) /\ Grown(q, d, k) \in Seq(Steps)
      /\ Len(Grown(q, d, k)) = Len(Grown(p, c, h))
      /\ \A i \in 1 .. Len(Grown(p, c, h)) :
           StepsFit(Grown(p, c, h)[i], Grown(q, d, k)[i])
      /\ Formed(p, Grown(p, c, h)) /\ Formed(q, Grown(q, d, k))
  BY <1>5 DEF Fit, Match
<1>7. After(p, c) \in Controls /\ After(q, d) \in Controls
  BY <1>1, <1>2, <1>6, AfterControls DEF h, k
<1>8. /\ LeftAfter(q, d, k) = LeftAfter(p, c, h)
      /\ SizesAfter(d, k) = SizesAfter(c, h)
      /\ MineAfter(d, k) = MineAfter(c, h)
  <2>1. CASE h.do = "call"
    <3>1. k.do = "call" /\ <<h.tag, k.tag>> \in Twins /\ k.num = h.num
      BY <1>3, <2>1 DEF StepsFit, Messages
    <3>2. SizesAfter(d, k) = SizesAfter(c, h) /\ MineAfter(d, k) = MineAfter(c, h)
      BY <1>4, <2>1, <3>1 DEF SizesAfter, MineAfter
    <3>3. CASE h.tag \in VoleCalls
      <4>1. /\ k.tag \in VoleCalls /\ KindOf(k.tag) = KindOf(h.tag)
            /\ ReceiverOf(q, k.tag) = ReceiverOf(p, h.tag)
        BY <3>1, <3>3, TakenFrom
      <4>2. Wanting(q, d, k.tag, k.num) = Wanting(p, c, h.tag, h.num)
        BY <1>4, <3>1, <4>1 DEF Wanting
      <4>3. QED
        BY <1>4, <2>1, <3>1, <3>2, <3>3, <4>1, <4>2 DEF LeftAfter
    <3>4. CASE h.tag \notin VoleCalls
      <4>1. k.tag \notin VoleCalls
        <5>1. <<k.tag, h.tag>> \in Twins
          BY <3>1, TwinsBack
        <5>2. QED
          BY <3>4, <5>1, TakenFrom
      <4>2. /\ k.tag = "SetKey" <=> h.tag = "SetKey"
            /\ k.tag = "SetVoleKey" <=> h.tag = "SetVoleKey"
        BY <3>1, TwinCases DEF Halves, HalvesStateful
      <4>3. QED
        BY <1>4, <2>1, <3>1, <3>2, <3>4, <4>1, <4>2 DEF LeftAfter
    <3>5. QED
      BY <3>3, <3>4
  <2>2. CASE h.do \in Messages
    <3>1. k.do \in Messages
      BY <1>3, <2>2 DEF StepsFit, Messages
    <3>2. QED
      BY <1>4, <2>2, <3>1 DEF LeftAfter, SizesAfter, MineAfter, Messages
  <2>3. CASE h.do \notin Messages \cup {"call"}
    <3>1. k.do = h.do /\ k.tag = h.tag /\ k.num = h.num
      BY <1>3, <2>3 DEF StepsFit, Messages
    <3>2. QED
      BY <1>4, <2>3, <3>1 DEF LeftAfter, SizesAfter, MineAfter
  <2>4. QED
    BY <2>1, <2>2, <2>3
<1>9. Paired(p, After(p, c), After(q, d))
  <2> DEFINE s == Grown(p, c, h)
             t == Grown(q, d, k)
             u == Tail(c.todo)
             v == Tail(d.todo)
  <2>1. /\ Len(t) = Len(s) /\ Len(v) = Len(u) /\ Len(s) \in Nat /\ Len(u) \in Nat
        /\ s \in Seq(Steps) /\ t \in Seq(Steps) /\ u \in Seq(Steps) /\ v \in Seq(Steps)
        /\ \A i \in 1 .. Len(s) : StepsFit(s[i], t[i])
    BY <1>2, <1>6
  <2>2. \A i \in 1 .. Len(u) : StepsFit(u[i], v[i])
    BY <1>2 DEF Paired
  <2>3. /\ After(p, c).todo = s \o u /\ After(q, d).todo = t \o v
        /\ After(p, c).left = LeftAfter(p, c, h)
        /\ After(q, d).left = LeftAfter(q, d, k)
        /\ After(p, c).sizes = SizesAfter(c, h) /\ After(q, d).sizes = SizesAfter(d, k)
        /\ After(p, c).mine = MineAfter(c, h) /\ After(q, d).mine = MineAfter(d, k)
    BY DEF After, s, t, u, v, h, k
  <2> HIDE DEF s, t, u, v
  <2>4. /\ s \o u \in Seq(Steps) /\ Len(s \o u) = Len(s) + Len(u)
        /\ \A i \in 1 .. Len(s) + Len(u) :
             (s \o u)[i] = IF i <= Len(s) THEN s[i] ELSE u[i - Len(s)]
    BY <2>1, ConcatProperties
  <2>5. /\ t \o v \in Seq(Steps) /\ Len(t \o v) = Len(t) + Len(v)
        /\ \A i \in 1 .. Len(t) + Len(v) :
             (t \o v)[i] = IF i <= Len(t) THEN t[i] ELSE v[i - Len(t)]
    BY <2>1, ConcatProperties
  <2>6. ASSUME NEW i \in 1 .. Len(s) + Len(u)
        PROVE  StepsFit((s \o u)[i], (t \o v)[i])
    <3>1. CASE i <= Len(s)
      BY <2>4, <2>5, <2>1, <3>1
    <3>2. CASE ~(i <= Len(s))
      <4>1. i - Len(s) \in 1 .. Len(u)
        BY <2>1, <3>2
      <4>2. QED
        BY <2>4, <2>5, <2>1, <2>2, <3>2, <4>1
    <3>3. QED
      BY <3>1, <3>2
  <2>7. Len(s \o u) = Len(t \o v)
    BY <2>4, <2>5, <2>1
  <2>8. QED
    BY <1>8, <2>4, <2>6, <2>7, <2>3 DEF Paired
<1>10. QED
  BY <1>6, <1>7, <1>9 DEF h, k

-----------------------------------------------------------------------------
\* The steps of a rank, as steps of its control.

Contents == [tag : Tags, num : Int, digest : Seq(Entries)]
Ways == {"no", "check", "product", "recv", "crash"}

Basics ==
  /\ todo \in [Ranks -> Seq(Steps)]
  /\ chan \in [Ranks -> [Channels -> Seq(Contents)]]
  /\ left \in [Ranks -> Lefts]
  /\ buf \in [Ranks -> [Buffers -> Seq(Entries)]]
  /\ mine \in [Ranks -> Seq(Entries)] /\ theirs \in [Ranks -> Seq(Entries)]
  /\ flag \in [Ranks -> BOOLEAN] /\ ended \in [Ranks -> Ways]
  /\ passed \in [Ranks -> Nat] /\ failed \in [Ranks -> BOOLEAN]
  /\ wrong \in Ranks \cup {Nobody}

\* Rank p is where c says, or has ended there.
Matches(p, c) ==
  /\ todo[p] = IF ended[p] = "no" THEN c.todo ELSE <<>>
  /\ left[p] = c.left
  /\ \A b \in Buffers : Of(buf[p][b]) = c.sizes[b]
  /\ Of(mine[p]) = c.mine

\* Rank p goes on from control c.
Took(p, c) ==
  LET h == Head(c.todo)
  IN /\ c.todo # <<>> /\ todo[p] = c.todo /\ ended[p] = "no"
     /\ todo' = [todo EXCEPT ![p] = Grown(p, c, h) \o Tail(c.todo)]
     /\ left' = [left EXCEPT ![p] = LeftAfter(p, c, h)]
     /\ \E B \in [Buffers -> Seq(Entries)], M \in Seq(Entries) :
          /\ buf' = [buf EXCEPT ![p] = B] /\ mine' = [mine EXCEPT ![p] = M]
          /\ \A b \in Buffers : Of(B[b]) = SizesAfter(c, h)[b]
          /\ Of(M) = MineAfter(c, h)
     /\ UNCHANGED ended

\* The openings of entries.
LEMMA OfFacts ==
  /\ Of(<<>>) = <<>>
  /\ \A s \in Seq(Entries) :
       /\ Of(s) \in Seq(Int) /\ Len(Of(s)) = Len(s) /\ Len(s) \in Nat
       /\ \A i \in 1 .. Len(s) : Of(s)[i] = s[i].of
       /\ Of(s) = <<>> <=> s = <<>>
  /\ \A s \in Seq(Entries), e \in Entries :
       Of(Append(s, e)) = Append(Of(s), e.of)
<1>1. ASSUME NEW s \in Seq(Entries)
      PROVE  /\ Of(s) \in Seq(Int) /\ Len(Of(s)) = Len(s) /\ Len(s) \in Nat
             /\ DOMAIN s = 1 .. Len(s)
             /\ \A i \in 1 .. Len(s) : Of(s)[i] = s[i].of
  <2>1. DOMAIN s = 1 .. Len(s) /\ Len(s) \in Nat
    OBVIOUS
  <2>2. \A i \in 1 .. Len(s) : s[i].of \in Int
    <3>1. \A i \in 1 .. Len(s) : s[i] \in Entries
      BY <2>1
    <3>2. QED
      BY <3>1 DEF Entries
  <2>3. Of(s) = [i \in 1 .. Len(s) |-> s[i].of]
    BY <2>1 DEF Of
  <2>4. QED
    BY <2>1, <2>2, <2>3
<1>2. ASSUME NEW s \in Seq(Entries)
      PROVE  Of(s) = <<>> <=> s = <<>>
  BY <1>1
<1>3. Of(<<>>) = <<>>
  <2>1. <<>> \in Seq(Entries)
    OBVIOUS
  <2>2. QED
    BY <1>2, <2>1
<1>4. ASSUME NEW s \in Seq(Entries), NEW e \in Entries
      PROVE  Of(Append(s, e)) = Append(Of(s), e.of)
  <2>1. /\ Append(s, e) \in Seq(Entries) /\ Len(Append(s, e)) = Len(s) + 1
        /\ \A i \in 1 .. Len(s) : Append(s, e)[i] = s[i]
        /\ Append(s, e)[Len(s) + 1] = e
    OBVIOUS
  <2>2. e.of \in Int
    BY DEF Entries
  <2>3. PICK t \in Seq(Int) : t = Append(Of(s), e.of)
    <3>1. \A o \in Seq(Int), n \in Int : Append(o, n) \in Seq(Int)
      OBVIOUS
    <3>2. QED
      BY <1>1, <2>2, <3>1
  <2>4. /\ Len(t) = Len(s) + 1 /\ t[Len(s) + 1] = e.of
        /\ \A i \in 1 .. Len(s) : t[i] = s[i].of
    BY <1>1, <2>2, <2>3
  <2>5. PICK u \in Seq(Int) : u = Of(Append(s, e))
    BY <1>1, <2>1
  <2>6. /\ Len(u) = Len(s) + 1
        /\ \A i \in 1 .. Len(s) + 1 : u[i] = Append(s, e)[i].of
    BY <1>1, <2>1, <2>5
  <2>7. \A i \in 1 .. Len(s) + 1 : u[i] = t[i]
    <3>1. ASSUME NEW i \in 1 .. Len(s) + 1
          PROVE  u[i] = t[i]
      <4>1. CASE i \in 1 .. Len(s)
        BY <2>1, <2>4, <2>6, <4>1
      <4>2. CASE i = Len(s) + 1
        BY <2>1, <2>4, <2>6, <4>2
      <4>3. QED
        BY <1>1, <4>1, <4>2
    <3>2. QED
      BY <3>1
  <2>8. u = t
    BY <2>4, <2>6, <2>7
  <2>9. QED
    BY <2>3, <2>5, <2>8
<1>5. QED
  BY <1>1, <1>2, <1>3, <1>4

\* A rank at a step of some kind has not ended.
LEMMA AtFacts ==
  ASSUME Basics, NEW p \in Ranks, NEW c \in Controls, Matches(p, c),
         NEW do, At(p, do)
  PROVE  /\ c.todo # <<>> /\ todo[p] = c.todo /\ ended[p] = "no"
         /\ Head(todo[p]) = Head(c.todo) /\ Head(c.todo) \in Steps
         /\ Head(c.todo).do = do
<1>1. todo[p] # <<>> /\ Head(todo[p]).do = do
  BY DEF At
<1>2. ended[p] = "no" /\ todo[p] = c.todo
  BY <1>1 DEF Matches
<1>3. QED
  BY <1>1, <1>2, HeadTail DEF Controls

\* A step that only goes on.
LEMMA TookOn ==
  ASSUME Basics, NEW p \in Ranks, NEW c \in Controls, Matches(p, c),
         NEW do, At(p, do), GoOn(p, Grown(p, c, Head(c.todo))),
         left' = [left EXCEPT ![p] = LeftAfter(p, c, Head(c.todo))],
         SizesAfter(c, Head(c.todo)) = c.sizes, MineAfter(c, Head(c.todo)) = c.mine,
         UNCHANGED <<buf, mine, ended>>
  PROVE  Took(p, c)
<1> DEFINE h == Head(c.todo)
<1>1. c.todo # <<>> /\ todo[p] = c.todo /\ ended[p] = "no"
  BY AtFacts
<1>2. todo' = [todo EXCEPT ![p] = Grown(p, c, h) \o Tail(c.todo)]
  BY <1>1 DEF GoOn, Basics
<1>3. /\ buf' = [buf EXCEPT ![p] = buf[p]] /\ mine' = [mine EXCEPT ![p] = mine[p]]
      /\ buf[p] \in [Buffers -> Seq(Entries)] /\ mine[p] \in Seq(Entries)
  BY DEF Basics
<1>4. /\ \A b \in Buffers : Of(buf[p][b]) = SizesAfter(c, h)[b]
      /\ Of(mine[p]) = MineAfter(c, h)
  BY DEF Matches
<1>5. QED
  BY <1>1, <1>2, <1>3, <1>4 DEF Took

\* A step that changes a check buffer or the digest.
LEMMA TookBuffers ==
  ASSUME Basics, NEW p \in Ranks, NEW c \in Controls, Matches(p, c),
         NEW do, At(p, do), GoOn(p, Grown(p, c, Head(c.todo))),
         Head(c.todo).do # "call",
         NEW B \in [Buffers -> Seq(Entries)], NEW M \in Seq(Entries),
         buf' = [buf EXCEPT ![p] = B], mine' = [mine EXCEPT ![p] = M],
         \A b \in Buffers : Of(B[b]) = SizesAfter(c, Head(c.todo))[b],
         Of(M) = MineAfter(c, Head(c.todo)),
         UNCHANGED <<left, ended>>
  PROVE  Took(p, c)
<1> DEFINE h == Head(c.todo)
<1>1. c.todo # <<>> /\ todo[p] = c.todo /\ ended[p] = "no"
  BY AtFacts
<1>2. todo' = [todo EXCEPT ![p] = Grown(p, c, h) \o Tail(c.todo)]
  BY <1>1 DEF GoOn, Basics
<1>3. LeftAfter(p, c, h) = left[p] /\ left' = [left EXCEPT ![p] = left[p]]
  BY DEF LeftAfter, Matches, Basics
<1>4. QED
  BY <1>1, <1>2, <1>3 DEF Took

\* Messages, enforced checks and calls with a script.
LEMMA TookMessage ==
  ASSUME Basics, NEW p \in Ranks, NEW c \in Controls, Matches(p, c),
         SendStep(p) \/ RecvStep(p) \/ EnforceHolds(p)
  PROVE  Took(p, c)
<1> DEFINE h == Head(c.todo)
<1>1. PICK do \in {"send", "recv", "enforce"} :
        At(p, do) /\ GoOn(p, <<>>) /\ UNCHANGED <<left, buf, mine, ended>>
  BY DEF SendStep, RecvStep, EnforceHolds
<1>2. h.do = do
  BY <1>1, AtFacts
<1>3. /\ Grown(p, c, h) = <<>> /\ LeftAfter(p, c, h) = c.left
      /\ SizesAfter(c, h) = c.sizes /\ MineAfter(c, h) = c.mine
  BY <1>1, <1>2 DEF Grown, LeftAfter, SizesAfter, MineAfter
<1>4. left' = [left EXCEPT ![p] = LeftAfter(p, c, h)]
  BY <1>1, <1>3 DEF Matches, Basics
<1>5. QED
  BY <1>1, <1>3, <1>4, TookOn

\* What a call does to the control.
LEMMA CallFacts ==
  ASSUME Basics, NEW p \in Ranks, NEW c \in Controls, Matches(p, c), At(p, "call")
  PROVE  LET h == Head(c.todo)
         IN  /\ h = Head(todo[p]) /\ h.tag \in Functions /\ h.num \in Nat
             /\ SizesAfter(c, h) = c.sizes /\ MineAfter(c, h) = c.mine
             /\ Grown(p, c, h) = GrownCall(p, c, h.tag, h.num)
             /\ h.tag \notin VoleCalls \cup {"SetKey", "SetVoleKey"} =>
                  LeftAfter(p, c, h) = left[p]
             /\ h.do = "call"
             /\ \A b \in Buffers : buf[p][b] = <<>> <=> c.sizes[b] = <<>>
<1> DEFINE h == Head(c.todo)
<1>1. h = Head(todo[p]) /\ h.do = "call" /\ h \in Steps
  BY AtFacts
<1>2. h.tag \in Functions /\ h.num \in Nat
  BY <1>1, StepFacts
<1>3. /\ SizesAfter(c, h) = c.sizes /\ MineAfter(c, h) = c.mine
      /\ Grown(p, c, h) = GrownCall(p, c, h.tag, h.num)
  BY <1>1 DEF Grown, SizesAfter, MineAfter
<1>4. h.tag \notin VoleCalls \cup {"SetKey", "SetVoleKey"} =>
        LeftAfter(p, c, h) = left[p]
  BY <1>1 DEF LeftAfter, Matches
<1>5. \A b \in Buffers : buf[p][b] = <<>> <=> c.sizes[b] = <<>>
  <2>1. \A b \in Buffers : buf[p][b] \in Seq(Entries) /\ Of(buf[p][b]) = c.sizes[b]
    BY DEF Basics, Matches
  <2>2. QED
    BY <2>1, OfFacts
<1>6. QED
  BY <1>1, <1>2, <1>3, <1>4, <1>5

\* A call with a script.
LEMMA TookCall ==
  ASSUME Basics, NEW p \in Ranks, NEW c \in Controls, Matches(p, c), CallStep(p)
  PROVE  Took(p, c)
<1> DEFINE h == Head(c.todo)
<1>1. /\ At(p, "call") /\ Head(todo[p]).tag \notin Stateful
      /\ GoOn(p, Script(p, Head(todo[p]).tag, Head(todo[p]).num))
      /\ UNCHANGED <<left, buf, mine, ended>>
  BY DEF CallStep
<1>2. /\ h = Head(todo[p]) /\ h.tag \notin Stateful
      /\ SizesAfter(c, h) = c.sizes /\ MineAfter(c, h) = c.mine
      /\ Grown(p, c, h) = GrownCall(p, c, h.tag, h.num)
      /\ LeftAfter(p, c, h) = left[p]
  BY <1>1, CallFacts DEF Stateful, VoleCalls
<1>3. GrownCall(p, c, h.tag, h.num) = Script(p, h.tag, h.num)
  BY <1>2 DEF GrownCall
<1>4. left' = [left EXCEPT ![p] = LeftAfter(p, c, h)]
  BY <1>1, <1>2 DEF Basics
<1>5. GoOn(p, Grown(p, c, h))
  BY <1>1, <1>2, <1>3
<1>6. QED
  BY <1>1, <1>2, <1>4, <1>5, TookOn

\* Values out of a VOLE buffer.
LEMMA TookVole ==
  ASSUME Basics, NEW p \in Ranks, NEW c \in Controls, Matches(p, c),
         NEW kind \in Kinds, NEW r \in Ranks, ServeVole(p, kind, r)
  PROVE  Took(p, c)
<1> DEFINE h == Head(c.todo)
           f == h.tag
           n == h.num
           lacking == Lacking(Head(todo[p]).num, left[p][kind][r])
<1>1. /\ At(p, "call")
      /\ Head(todo[p]).tag = IF p = r THEN Receives(kind) ELSE Sends(kind)
      /\ left' = [left EXCEPT ![p][kind][r] = @ + lacking * Block - Head(todo[p]).num]
      /\ GoOn(p, Times(lacking, IF p = r THEN BootstrapRecv(p) ELSE BootstrapSend(p)))
      /\ UNCHANGED <<buf, mine, ended>>
  BY DEF ServeVole
<1>2. /\ h = Head(todo[p]) /\ h.do = "call" /\ n \in Nat
      /\ SizesAfter(c, h) = c.sizes /\ MineAfter(c, h) = c.mine
      /\ Grown(p, c, h) = GrownCall(p, c, f, n)
  BY <1>1, CallFacts
<1>3. /\ f \in VoleCalls /\ f \in Stateful /\ KindOf(f) = kind
      /\ ReceiverOf(p, f) = r /\ (f \in ToReceive <=> p = r)
  BY <1>1, <1>2, PeerFacts DEF Kinds, Receives, Sends, VoleCalls, Stateful, KindOf,
     ReceiverOf, ToReceive, Ranks
<1>4. left[p] = c.left /\ n = Head(todo[p]).num
  BY <1>2 DEF Matches
<1> HIDE DEF h, f, n
<1>5. Wanting(p, c, f, n) = lacking
  BY <1>3, <1>4 DEF Wanting
<1> HIDE DEF lacking
<1>6. GoOn(p, Grown(p, c, h))
  <2>1. GrownCall(p, c, f, n) = GrownServed(p, c, f, n)
    BY <1>3 DEF GrownCall
  <2>2. GrownServed(p, c, f, n)
          = Times(lacking, IF p = r THEN BootstrapRecv(p) ELSE BootstrapSend(p))
    BY <1>3, <1>5 DEF GrownServed
  <2>3. QED
    BY <1>1, <1>2, <2>1, <2>2 DEF lacking
<1>7. LeftAfter(p, c, h) = [left[p] EXCEPT ![kind][r] = @ + lacking * Block - n]
  BY <1>2, <1>3, <1>4, <1>5 DEF LeftAfter, f, n
<1>8. left' = [left EXCEPT ![p] = LeftAfter(p, c, h)]
  <2>1. left' = [left EXCEPT ![p][kind][r] = @ + lacking * Block - n]
    BY <1>1, <1>4 DEF lacking
  <2>2. QED
    BY <1>7, <2>1 DEF Basics, Lefts
<1>9. QED
  BY <1>1, <1>2, <1>6, <1>8, TookOn DEF h

\* A new key.
LEMMA TookSetup ==
  ASSUME Basics, NEW p \in Ranks, NEW c \in Controls, Matches(p, c), SetupVole(p)
  PROVE  Took(p, c)
<1> DEFINE h == Head(c.todo)
           kind == IF Head(todo[p]).tag = "SetKey" THEN "mac" ELSE "extra"
<1>1. /\ At(p, "call") /\ Head(todo[p]).tag \in {"SetKey", "SetVoleKey"}
      /\ left' = [left EXCEPT ![p][kind] = [r \in Ranks |-> SetupLeft]]
      /\ GoOn(p, InitVoleAdapter(p)) /\ UNCHANGED <<buf, mine, ended>>
  BY DEF SetupVole
<1>2. /\ h = Head(todo[p]) /\ h.do = "call"
      /\ SizesAfter(c, h) = c.sizes /\ MineAfter(c, h) = c.mine
      /\ Grown(p, c, h) = GrownCall(p, c, h.tag, h.num)
  BY <1>1, CallFacts
<1>3. h.tag \in Stateful /\ h.tag \notin VoleCalls
  BY <1>1, <1>2 DEF Stateful, VoleCalls
<1>4. GoOn(p, Grown(p, c, h))
  BY <1>1, <1>2, <1>3 DEF GrownCall
<1>5. LeftAfter(p, c, h) = [left[p] EXCEPT ![kind] = [r \in Ranks |-> SetupLeft]]
  BY <1>1, <1>2, <1>3 DEF LeftAfter, Matches
<1>6. left' = [left EXCEPT ![p] = LeftAfter(p, c, h)]
  BY <1>1, <1>5 DEF Basics, Lefts
<1>7. QED
  BY <1>1, <1>2, <1>4, <1>6, TookOn

\* The checks.
LEMMA TookCheck ==
  ASSUME Basics, NEW p \in Ranks, NEW c \in Controls, Matches(p, c),
         DelayCheck(p) \/ CrDelayCheck(p) \/ NdssDelayCheck(p) \/ LineCheck(p)
  PROVE  Took(p, c)
<1> DEFINE h == Head(c.todo)
<1>1. /\ At(p, "call") /\ UNCHANGED <<left, buf, mine, ended>>
  BY DEF DelayCheck, CrDelayCheck, NdssDelayCheck, LineCheck
<1>2. /\ h = Head(todo[p])
      /\ SizesAfter(c, h) = c.sizes /\ MineAfter(c, h) = c.mine
      /\ Grown(p, c, h) = GrownCall(p, c, h.tag, h.num)
      /\ h.tag \notin VoleCalls \cup {"SetKey", "SetVoleKey"} =>
           LeftAfter(p, c, h) = left[p]
      /\ \A b \in Buffers : buf[p][b] = <<>> <=> c.sizes[b] = <<>>
  BY <1>1, CallFacts
<1>3. /\ buf[p]["line"] = <<>> <=> c.sizes["line"] = <<>>
      /\ buf[p]["ndss"] = <<>> <=> c.sizes["ndss"] = <<>>
      /\ buf[p]["check"] = <<>> <=> c.sizes["check"] = <<>>
      /\ buf[p]["delay"] = <<>> <=> c.sizes["delay"] = <<>>
      /\ buf[p]["double"] = <<>> <=> c.sizes["double"] = <<>>
  BY <1>2 DEF Buffers
<1>4. h.tag \notin VoleCalls \cup {"SetKey", "SetVoleKey"} /\ GoOn(p, Grown(p, c, h))
  <2>1. CASE DelayCheck(p)
    <3>1. /\ h.tag = "prot.DelayCheck"
          /\ GoOn(p, IF buf[p]["check"] = <<>> THEN <<>> ELSE CompareDigests(p, "check"))
      BY <1>2, <2>1 DEF DelayCheck, ProtocolBuffer
    <3>2. GrownCall(p, c, h.tag, h.num) = GrownProtocol(p, c)
      BY <3>1 DEF GrownCall, Stateful, VoleCalls
    <3>3. QED
      BY <1>2, <1>3, <3>1, <3>2 DEF GrownProtocol, VoleCalls
  <2>2. CASE CrDelayCheck(p)
    <3>1. /\ h.tag = "cr.DelayCheck"
          /\ GoOn(p, IF buf[p]["delay"] = <<>> /\ buf[p]["double"] = <<>> THEN <<>>
                     ELSE CompareDigests(p, "delay") \o CheckedDouble(p))
      BY <1>2, <2>2 DEF CrDelayCheck
    <3>2. GrownCall(p, c, h.tag, h.num) = GrownCr(p, c)
      BY <3>1 DEF GrownCall, Stateful, VoleCalls
    <3>3. CheckedDouble(p) = IF c.sizes["double"] = <<>> THEN <<>>
                             ELSE CompareDigests(p, "double")
      BY <1>3 DEF CheckedDouble
    <3>4. QED
      BY <1>2, <1>3, <3>1, <3>2, <3>3 DEF GrownCr, VoleCalls
  <2>3. CASE NdssDelayCheck(p)
    <3>1. /\ h.tag = "NdssDelayCheck"
          /\ GoOn(p, IF buf[p]["ndss"] = <<>> THEN <<>>
                     ELSE SyncSeed(p) \o Call("RandA", 1)
                          \o Exchange(p, "combination", 1)
                          \o CompareDigests(p, "ndss"))
      BY <1>2, <2>3 DEF NdssDelayCheck
    <3>2. GrownCall(p, c, h.tag, h.num) = GrownNdss(p, c)
      BY <3>1 DEF GrownCall, Stateful, VoleCalls
    <3>3. QED
      BY <1>2, <1>3, <3>1, <3>2 DEF GrownNdss, VoleCalls
  <2>4. CASE LineCheck(p)
    <3>1. /\ h.tag = "AShareLineCombineDelayCheck"
          /\ GoOn(p, IF buf[p]["line"] = <<>> THEN <<>>
                     ELSE SyncSeed(p) \o Call("RandomAuth", 1)
                          \o Exchange(p, "combination", 1)
                          \o Local("combine", "line", 0))
      BY <1>2, <2>4 DEF LineCheck
    <3>2. GrownCall(p, c, h.tag, h.num) = GrownLine(p, c)
      BY <3>1 DEF GrownCall, Stateful, VoleCalls
    <3>3. QED
      BY <1>2, <1>3, <3>1, <3>2 DEF GrownLine, VoleCalls
  <2>5. QED
    BY <2>1, <2>2, <2>3, <2>4
<1>5. left' = [left EXCEPT ![p] = LeftAfter(p, c, h)]
  BY <1>1, <1>2, <1>4 DEF Basics
<1>6. QED
  BY <1>1, <1>2, <1>4, <1>5, TookOn

\* An entry into a check buffer.
LEMMA TookPush ==
  ASSUME Basics, NEW p \in Ranks, NEW c \in Controls, Matches(p, c), Push(p)
  PROVE  Took(p, c)
<1> DEFINE h == Head(c.todo)
<1>1. PICK by \in {Nobody, p} :
        /\ At(p, "push")
        /\ buf' = [buf EXCEPT ![p][Head(todo[p]).tag] =
                     Append(buf[p][Head(todo[p]).tag], Entry(Head(todo[p]).num, by))]
        /\ GoOn(p, WhenFull(Head(todo[p]).tag,
                     Size(Append(buf[p][Head(todo[p]).tag],
                                 Entry(Head(todo[p]).num, Nobody)))))
        /\ UNCHANGED <<left, mine, ended>>
  BY DEF Push
<1>2. h = Head(todo[p]) /\ h.do = "push" /\ h \in Steps
  BY <1>1, AtFacts
<1> HIDE DEF h
<1>3. h.num \in Int /\ h.tag \in Buffers
  BY <1>2, StepFacts DEF OnBuffers
<1> DEFINE b == h.tag
           n == h.num
           old == buf[p][b]
<1>4. old \in Seq(Entries) /\ Of(old) = c.sizes[b]
  BY <1>3 DEF Basics, Matches
<1>5. /\ Entry(n, by) \in Entries /\ Entry(n, by).of = n
      /\ Entry(n, Nobody) \in Entries /\ Entry(n, Nobody).of = n
  BY <1>3 DEF Entry, Entries
<1> DEFINE new == Append(old, Entry(n, by))
<1>6. /\ new \in Seq(Entries) /\ Of(new) = Append(c.sizes[b], n)
      /\ Of(Append(old, Entry(n, Nobody))) = Append(c.sizes[b], n)
  <2>1. \A s \in Seq(Entries), e \in Entries : Append(s, e) \in Seq(Entries)
    OBVIOUS
  <2>2. QED
    BY <1>4, <1>5, <2>1, OfFacts
<1>7. Size(Append(old, Entry(n, Nobody))) = SumOf(Append(c.sizes[b], n))
  BY <1>6 DEF Size, SumOf
<1> DEFINE B == [buf[p] EXCEPT ![b] = new]
<1> HIDE DEF old, new, n, b
<1>8. buf' = [buf EXCEPT ![p] = B] /\ B \in [Buffers -> Seq(Entries)]
  <2>1. buf' = [buf EXCEPT ![p][b] = new]
    BY <1>1, <1>2 DEF old, new, n, b
  <2>2. QED
    BY <1>3, <1>6, <2>1 DEF Basics
<1>9. Grown(p, c, h) = WhenFull(b, Size(Append(old, Entry(n, Nobody))))
  BY <1>2, <1>7 DEF Grown, b, n
<1>10. GoOn(p, Grown(p, c, h))
  BY <1>1, <1>2, <1>9 DEF old, b, n
<1>11. SizesAfter(c, h) = [c.sizes EXCEPT ![b] = Append(c.sizes[b], n)]
       /\ MineAfter(c, h) = c.mine
  BY <1>2 DEF SizesAfter, MineAfter, b, n
<1>12. \A e \in Buffers : Of(B[e]) = SizesAfter(c, h)[e]
  <2>1. \A e \in Buffers : Of(buf[p][e]) = c.sizes[e]
    BY DEF Matches
  <2>2. \A e \in Buffers : B[e] = IF e = b THEN new ELSE buf[p][e]
    BY DEF Basics
  <2>3. \A e \in Buffers :
          SizesAfter(c, h)[e] = IF e = b THEN Append(c.sizes[b], n) ELSE c.sizes[e]
    BY <1>11 DEF Controls, Sizes
  <2>4. QED
    BY <1>6, <2>1, <2>2, <2>3
<1>13. /\ mine' = [mine EXCEPT ![p] = mine[p]] /\ mine[p] \in Seq(Entries)
       /\ Of(mine[p]) = MineAfter(c, h)
  BY <1>1, <1>11 DEF Basics, Matches
<1>14. h.do # "call" /\ At(p, "push") /\ UNCHANGED <<left, ended>>
  BY <1>1, <1>2
<1> HIDE DEF B
<1>15. QED
  BY <1>8, <1>10, <1>12, <1>13, <1>14, TookBuffers DEF h

\* The combination of the line buffer.
LEMMA TookCombine ==
  ASSUME Basics, NEW p \in Ranks, NEW c \in Controls, Matches(p, c), Combine(p)
  PROVE  Took(p, c)
<1> DEFINE h == Head(c.todo)
           line == buf[p]["line"]
           by == IF \E i \in DOMAIN line : line[i].by = p THEN p ELSE Nobody
           delay == Append(buf[p]["delay"], Entry(Len(line), by))
           B == [buf[p] EXCEPT !["line"] = <<>>, !["delay"] = delay]
<1>1. /\ At(p, "combine")
      /\ buf' = [buf EXCEPT ![p]["line"] = <<>>, ![p]["delay"] = delay]
      /\ GoOn(p, IF Len(delay) > DelayMax
                   THEN Call("cr.DelayCheck", 0) \o Local("enforce", "delay", 0)
                   ELSE <<>>)
      /\ UNCHANGED <<left, mine, ended>>
  BY DEF Combine
<1>2. h.do = "combine"
  BY <1>1, AtFacts
<1>3. /\ "line" \in Buffers /\ "delay" \in Buffers
      /\ line \in Seq(Entries) /\ Of(line) = c.sizes["line"]
      /\ buf[p]["delay"] \in Seq(Entries) /\ Of(buf[p]["delay"]) = c.sizes["delay"]
  BY DEF Basics, Matches, Buffers
<1>4. /\ Len(line) \in Nat /\ Len(c.sizes["line"]) = Len(line)
      /\ Len(c.sizes["delay"]) = Len(buf[p]["delay"]) /\ Len(buf[p]["delay"]) \in Nat
  BY <1>3, OfFacts
<1>5. Entry(Len(line), by) \in Entries /\ Entry(Len(line), by).of = Len(line)
  BY <1>4 DEF Entry, Entries
<1>6. /\ delay \in Seq(Entries) /\ Len(delay) = Len(c.sizes["delay"]) + 1
      /\ Of(delay) = Append(c.sizes["delay"], Len(c.sizes["line"]))
  <2>1. \A s \in Seq(Entries), e \in Entries :
          Append(s, e) \in Seq(Entries) /\ Len(Append(s, e)) = Len(s) + 1
    OBVIOUS
  <2> HIDE DEF by
  <2>2. QED
    BY <1>3, <1>4, <1>5, <2>1, OfFacts
<1> HIDE DEF delay, by
<1>7. buf' = [buf EXCEPT ![p] = B] /\ B \in [Buffers -> Seq(Entries)]
  <2>1. <<>> \in Seq(Entries)
    OBVIOUS
  <2>2. QED
    BY <1>1, <1>3, <1>6, <2>1 DEF Basics
<1>8. GoOn(p, Grown(p, c, h))
  BY <1>1, <1>2, <1>6 DEF Grown
<1>9. /\ SizesAfter(c, h) =
           [c.sizes EXCEPT !["delay"] = Append(@, Len(c.sizes["line"])),
                           !["line"] = <<>>]
      /\ MineAfter(c, h) = c.mine
  BY <1>2 DEF SizesAfter, MineAfter
<1>10. \A e \in Buffers : Of(B[e]) = SizesAfter(c, h)[e]
  <2>1. \A e \in Buffers : Of(buf[p][e]) = c.sizes[e]
    BY DEF Matches
  <2>2. \A e \in Buffers : B[e] = IF e = "delay" THEN delay
                                 ELSE IF e = "line" THEN <<>> ELSE buf[p][e]
    BY DEF Basics
  <2>3. \A e \in Buffers :
          SizesAfter(c, h)[e] = IF e = "line" THEN <<>>
            ELSE IF e = "delay" THEN Append(c.sizes["delay"], Len(c.sizes["line"]))
            ELSE c.sizes[e]
    BY <1>9 DEF Controls, Sizes
  <2>4. QED
    BY <1>6, <2>1, <2>2, <2>3, OfFacts
<1>11. /\ mine' = [mine EXCEPT ![p] = mine[p]] /\ mine[p] \in Seq(Entries)
       /\ Of(mine[p]) = MineAfter(c, h)
  BY <1>1, <1>9 DEF Basics, Matches
<1>12. h.do # "call" /\ At(p, "combine") /\ UNCHANGED <<left, ended>>
  BY <1>1, <1>2
<1> HIDE DEF B
<1>13. QED
  BY <1>7, <1>8, <1>10, <1>11, <1>12, TookBuffers

\* The digest of a check buffer.
LEMMA TookDigest ==
  ASSUME Basics, NEW p \in Ranks, NEW c \in Controls, Matches(p, c), Digest(p)
  PROVE  Took(p, c) /\ mine' = [mine EXCEPT ![p] = buf[p][Head(c.todo).tag]]
<1> DEFINE h == Head(c.todo)
           b == h.tag
           B == IF b = "check" THEN [buf[p] EXCEPT !["check"] = <<>>] ELSE buf[p]
<1>1. At(p, "digest") /\ GoOn(p, <<>>) /\ UNCHANGED <<left, ended>>
  BY DEF Digest
<1>2. h = Head(todo[p]) /\ h.do = "digest" /\ h \in Steps
  BY <1>1, AtFacts
<1>3. /\ mine' = [mine EXCEPT ![p] = buf[p][b]]
      /\ buf' = IF b = "check" THEN [buf EXCEPT ![p]["check"] = <<>>] ELSE buf
  BY <1>2 DEF Digest, Hashed
<1>4. b \in Buffers /\ "check" \in Buffers
  BY <1>2, StepFacts DEF OnBuffers, Buffers
<1> HIDE DEF h
<1>5. buf[p][b] \in Seq(Entries) /\ Of(buf[p][b]) = c.sizes[b]
  BY <1>4 DEF Basics, Matches
<1>6. Grown(p, c, h) = <<>> /\ MineAfter(c, h) = c.sizes[b]
  BY <1>2 DEF Grown, MineAfter
<1>7. buf' = [buf EXCEPT ![p] = B] /\ B \in [Buffers -> Seq(Entries)]
  <2>1. <<>> \in Seq(Entries)
    OBVIOUS
  <2>2. QED
    BY <1>3, <2>1 DEF Basics
<1>8. \A e \in Buffers : Of(B[e]) = SizesAfter(c, h)[e]
  <2>1. \A e \in Buffers : Of(buf[p][e]) = c.sizes[e]
    BY DEF Matches
  <2>2. CASE b = "check"
    <3>1. SizesAfter(c, h) = [c.sizes EXCEPT !["check"] = <<>>]
      BY <1>2, <2>2 DEF SizesAfter
    <3>2. \A e \in Buffers :
            SizesAfter(c, h)[e] = IF e = "check" THEN <<>> ELSE c.sizes[e]
      BY <3>1 DEF Controls, Sizes
    <3>3. \A e \in Buffers : B[e] = IF e = "check" THEN <<>> ELSE buf[p][e]
      BY <2>2 DEF Basics
    <3>4. QED
      BY <2>1, <3>2, <3>3, OfFacts
  <2>3. CASE b # "check"
    BY <1>2, <2>1, <2>3 DEF SizesAfter
  <2>4. QED
    BY <2>2, <2>3
<1>9. /\ GoOn(p, Grown(p, c, h)) /\ h.do # "call" /\ At(p, "digest")
      /\ UNCHANGED <<left, ended>>
  BY <1>1, <1>2, <1>6
<1> HIDE DEF B, b
<1>10. PICK M \in Seq(Entries) : M = buf[p][b]
  BY <1>5
<1>11. mine' = [mine EXCEPT ![p] = M] /\ Of(M) = MineAfter(c, h)
  BY <1>3, <1>5, <1>6, <1>10
<1>12. Took(p, c)
  BY <1>7, <1>8, <1>9, <1>11, TookBuffers DEF h
<1>13. QED
  BY <1>3, <1>12 DEF h, b

\* A comparison.
LEMMA TookCompare ==
  ASSUME Basics, NEW p \in Ranks, NEW c \in Controls, Matches(p, c), Compare(p)
  PROVE  Took(p, c)
<1> DEFINE h == Head(c.todo)
           b == h.tag
           B == [e \in Buffers |-> IF e = b THEN <<>> ELSE buf[p][e]]
<1>1. /\ At(p, "compare") /\ GoOn(p, <<>>) /\ UNCHANGED <<left, ended>>
      /\ mine' = [mine EXCEPT ![p] = <<>>]
  BY DEF Compare
<1>2. h = Head(todo[p]) /\ h.do = "compare" /\ h \in Steps
  BY <1>1, AtFacts
<1>3. buf' = [buf EXCEPT ![p] = B]
  BY <1>2 DEF Compare, Cleared, Basics
<1>4. b \in Buffers
  BY <1>2, StepFacts DEF OnBuffers
<1> HIDE DEF h
<1>5. <<>> \in Seq(Entries)
  OBVIOUS
<1>6. B \in [Buffers -> Seq(Entries)]
  BY <1>5 DEF Basics
<1>7. /\ Grown(p, c, h) = <<>> /\ MineAfter(c, h) = <<>>
      /\ SizesAfter(c, h) = [c.sizes EXCEPT ![b] = <<>>]
  BY <1>2 DEF Grown, MineAfter, SizesAfter
<1>8. \A e \in Buffers : Of(B[e]) = SizesAfter(c, h)[e]
  <2>1. \A e \in Buffers : Of(buf[p][e]) = c.sizes[e]
    BY DEF Matches
  <2>2. \A e \in Buffers : SizesAfter(c, h)[e] = IF e = b THEN <<>> ELSE c.sizes[e]
    BY <1>7 DEF Controls, Sizes
  <2>3. QED
    BY <2>1, <2>2, OfFacts
<1>9. GoOn(p, Grown(p, c, h)) /\ h.do # "call" /\ Of(<<>>) = MineAfter(c, h)
  BY <1>1, <1>2, <1>7, OfFacts
<1> HIDE DEF B
<1>10. QED
  BY <1>1, <1>3, <1>5, <1>6, <1>8, <1>9, TookBuffers DEF h

\* The steps a rank goes on with, and those it ends at.
Moves(p) ==
  \/ SendStep(p) \/ RecvStep(p) \/ CallStep(p)
  \/ \E kind \in Kinds, r \in Ranks : ServeVole(p, kind, r)
  \/ SetupVole(p) \/ DelayCheck(p) \/ CrDelayCheck(p) \/ NdssDelayCheck(p)
  \/ LineCheck(p) \/ Push(p) \/ Combine(p) \/ Digest(p) \/ Compare(p)
  \/ EnforceHolds(p)
Ends(p) == EnforceFails(p) \/ ProductFails(p) \/ RecvFails(p) \/ Crash(p)

\* A rank that goes on does so from its control.
LEMMA MovesTook ==
  ASSUME Basics, NEW p \in Ranks, NEW c \in Controls, Matches(p, c), Moves(p)
  PROVE  Took(p, c)
<1>1. CASE SendStep(p) \/ RecvStep(p) \/ EnforceHolds(p)
  BY <1>1, TookMessage
<1>2. CASE CallStep(p)
  BY <1>2, TookCall
<1>3. CASE \E kind \in Kinds, r \in Ranks : ServeVole(p, kind, r)
  BY <1>3, TookVole
<1>4. CASE SetupVole(p)
  BY <1>4, TookSetup
<1>5. CASE DelayCheck(p) \/ CrDelayCheck(p) \/ NdssDelayCheck(p) \/ LineCheck(p)
  BY <1>5, TookCheck
<1>6. CASE Push(p)
  BY <1>6, TookPush
<1>7. CASE Combine(p)
  BY <1>7, TookCombine
<1>8. CASE Digest(p)
  BY <1>8, TookDigest
<1>9. CASE Compare(p)
  BY <1>9, TookCompare
<1>10. QED
  BY <1>1, <1>2, <1>3, <1>4, <1>5, <1>6, <1>7, <1>8, <1>9 DEF Moves

\* What each kind of step does besides.
LEMMA MoveKinds ==
  ASSUME NEW p \in Ranks, Moves(p)
  PROVE  LET do == Head(todo[p]).do
         IN  /\ do # "throw"
             /\ do = "send" => SendStep(p)
             /\ do = "recv" => RecvStep(p)
             /\ do = "digest" => Digest(p)
             /\ do = "push" => Push(p)
             /\ do = "combine" => Combine(p)
             /\ do = "compare" => Compare(p)
             /\ do \notin Messages => UNCHANGED chan
             /\ do \notin {"recv", "compare"} => UNCHANGED theirs
             /\ do # "compare" => UNCHANGED <<passed, failed>>
             /\ do \notin {"digest", "compare"} => UNCHANGED mine
             /\ do # "push" => UNCHANGED wrong
             /\ do \notin {"push", "combine", "digest", "compare"} => UNCHANGED buf
             /\ UNCHANGED ended
<1>1. CASE SendStep(p)
  BY <1>1 DEF SendStep, At, Messages
<1>2. CASE RecvStep(p)
  BY <1>2 DEF RecvStep, At, Messages
<1>3. CASE CallStep(p)
  BY <1>3 DEF CallStep, At
<1>4. CASE \E kind \in Kinds, r \in Ranks : ServeVole(p, kind, r)
  BY <1>4 DEF ServeVole, At
<1>5. CASE SetupVole(p)
  BY <1>5 DEF SetupVole, At
<1>6. CASE DelayCheck(p) \/ CrDelayCheck(p) \/ NdssDelayCheck(p) \/ LineCheck(p)
  BY <1>6 DEF DelayCheck, CrDelayCheck, NdssDelayCheck, LineCheck, At
<1>7. CASE Push(p)
  BY <1>7 DEF Push, At
<1>8. CASE Combine(p)
  BY <1>8 DEF Combine, At
<1>9. CASE Digest(p)
  BY <1>9 DEF Digest, At
<1>10. CASE Compare(p)
  BY <1>10 DEF Compare, At
<1>11. CASE EnforceHolds(p)
  BY <1>11 DEF EnforceHolds, At
<1>12. QED
  BY <1>1, <1>2, <1>3, <1>4, <1>5, <1>6, <1>7, <1>8, <1>9, <1>10, <1>11 DEF Moves

\* A rank that has gone on is where its control says, and its peer where it was.
LEMMA TookMatches ==
  ASSUME Basics, NEW p \in Ranks, NEW c \in Controls, Took(p, c),
         After(p, c) \in Controls
  PROVE  /\ Matches(p, After(p, c))'
         /\ \A d : Matches(Peer(p), d) => Matches(Peer(p), d)'
         /\ todo' \in [Ranks -> Seq(Steps)] /\ left' \in [Ranks -> Lefts]
         /\ buf' \in [Ranks -> [Buffers -> Seq(Entries)]]
         /\ mine' \in [Ranks -> Seq(Entries)]
<1> DEFINE h == Head(c.todo)
           a == After(p, c)
<1>1. /\ ended[p] = "no" /\ ended' = ended
      /\ todo' = [todo EXCEPT ![p] = Grown(p, c, h) \o Tail(c.todo)]
      /\ left' = [left EXCEPT ![p] = LeftAfter(p, c, h)]
  BY DEF Took
<1>2. PICK B \in [Buffers -> Seq(Entries)], M \in Seq(Entries) :
        /\ buf' = [buf EXCEPT ![p] = B] /\ mine' = [mine EXCEPT ![p] = M]
        /\ \A b \in Buffers : Of(B[b]) = SizesAfter(c, h)[b]
        /\ Of(M) = MineAfter(c, h)
  BY DEF Took
<1>3. /\ a.todo = Grown(p, c, h) \o Tail(c.todo) /\ a.left = LeftAfter(p, c, h)
      /\ a.sizes = SizesAfter(c, h) /\ a.mine = MineAfter(c, h)
  BY DEF After
<1> HIDE DEF a
<1>4. a.todo \in Seq(Steps) /\ a.left \in Lefts
  BY DEF Controls, a
<1> HIDE DEF h
<1>5. /\ todo' = [todo EXCEPT ![p] = a.todo] /\ left' = [left EXCEPT ![p] = a.left]
      /\ \A b \in Buffers : Of(B[b]) = a.sizes[b]
      /\ Of(M) = a.mine
  BY <1>1, <1>2, <1>3
<1>6. Matches(p, a)'
  BY <1>1, <1>2, <1>5 DEF Matches, Basics
<1>7. \A d : Matches(Peer(p), d) => Matches(Peer(p), d)'
  <2>1. Peer(p) \in Ranks /\ Peer(p) # p
    BY PeerFacts
  <2>2. /\ todo'[Peer(p)] = todo[Peer(p)] /\ left'[Peer(p)] = left[Peer(p)]
        /\ buf'[Peer(p)] = buf[Peer(p)] /\ mine'[Peer(p)] = mine[Peer(p)]
        /\ ended'[Peer(p)] = ended[Peer(p)]
    BY <1>1, <1>2, <2>1 DEF Basics
  <2>3. QED
    BY <2>2 DEF Matches
<1>8. QED
  BY <1>2, <1>4, <1>5, <1>6, <1>7 DEF Basics, a

\* The types of the rest.
LEMMA BasicsKept ==
  ASSUME Basics, NEW p \in Ranks, NEW c \in Controls, Matches(p, c), Moves(p),
         After(p, c) \in Controls
  PROVE  Basics'
<1> DEFINE h == Head(todo[p])
           q == Peer(p)
<1>1. Took(p, c)
  BY MovesTook
<1>2. h \in Steps /\ q \in Ranks
  BY <1>1, HeadTail, PeerFacts DEF Took, Controls
<1>3. chan' \in [Ranks -> [Channels -> Seq(Contents)]]
      /\ theirs' \in [Ranks -> Seq(Entries)]
  <2>1. CASE h.do = "send"
    <3>1. SendStep(p) /\ theirs' = theirs
      BY <2>1, MoveKinds
    <3> DEFINE digest == IF h.tag = "digest" THEN mine[p] ELSE <<>>
               m == [tag |-> h.tag, num |-> h.num, digest |-> digest]
    <3>2. h.tag \in Tags /\ h.num \in Int /\ h.ch \in Channels
      BY <1>2, StepFacts
    <3>3. digest \in Seq(Entries)
      <4>1. <<>> \in Seq(Entries) /\ mine[p] \in Seq(Entries)
        BY DEF Basics
      <4>2. QED
        BY <4>1
    <3>4. m \in Contents
      BY <3>2, <3>3 DEF Contents
    <3>5. chan' = [chan EXCEPT ![q][h.ch] = Append(@, m)]
      BY <3>1 DEF SendStep
    <3>6. Append(chan[q][h.ch], m) \in Seq(Contents)
      <4>1. \A s \in Seq(Contents) : Append(s, m) \in Seq(Contents)
        BY <3>4
      <4>2. QED
        BY <1>2, <3>2, <4>1 DEF Basics
    <3> HIDE DEF m
    <3>7. QED
      BY <1>2, <3>1, <3>2, <3>5, <3>6 DEF Basics
  <2>2. CASE h.do = "recv"
    <3>1. RecvStep(p)
      BY <2>2, MoveKinds
    <3>2. h.ch \in Channels
      BY <1>2, StepFacts
    <3>3. /\ chan[p][h.ch] # <<>> /\ chan[p][h.ch] \in Seq(Contents)
          /\ theirs' = [theirs EXCEPT ![p] = Head(chan[p][h.ch]).digest]
          /\ chan' = [chan EXCEPT ![p][h.ch] = Tail(@)]
      BY <3>1, <3>2 DEF RecvStep, Basics
    <3>4. /\ Head(chan[p][h.ch]) \in Contents
          /\ Tail(chan[p][h.ch]) \in Seq(Contents)
      BY <3>3, HeadTail
    <3>5. Head(chan[p][h.ch]).digest \in Seq(Entries)
      BY <3>4 DEF Contents
    <3>6. QED
      BY <3>2, <3>3, <3>4, <3>5 DEF Basics
  <2>3. CASE h.do = "compare"
    <3>1. theirs' = [theirs EXCEPT ![p] = <<>>] /\ chan' = chan
      BY <2>3, MoveKinds DEF Compare, Messages
    <3>2. <<>> \in Seq(Entries)
      OBVIOUS
    <3>3. QED
      BY <3>1, <3>2 DEF Basics
  <2>4. CASE h.do \notin {"send", "recv", "compare"}
    BY <2>4, MoveKinds DEF Basics, Messages
  <2>5. QED
    BY <2>1, <2>2, <2>3, <2>4
<1>4. flag' \in [Ranks -> BOOLEAN] /\ wrong' \in Ranks \cup {Nobody}
  <2>1. flag' \in [Ranks -> BOOLEAN]
    <3>1. \/ flag' = flag \/ flag' = [flag EXCEPT ![p] = TRUE]
          \/ Compare(p)
      BY DEF Moves, SendStep, RecvStep, CallStep, ServeVole, SetupVole, DelayCheck,
         CrDelayCheck, NdssDelayCheck, LineCheck, Push, Combine, Digest, EnforceHolds
    <3>2. CASE Compare(p)
      <4>1. flag' = [flag EXCEPT ![p] =
                       Same(p) /\ (Head(todo[p]).tag = "double" => flag[p])]
        BY <3>2 DEF Compare
      <4>2. flag \in [Ranks -> BOOLEAN]
        BY DEF Basics
      <4>3. QED
        BY <4>1, <4>2
    <3>3. QED
      BY <3>1, <3>2 DEF Basics
  <2>2. CASE h.do = "push"
    <3>1. PICK by \in {Nobody, p} : wrong' = IF by = p THEN p ELSE wrong
      BY <2>2, MoveKinds DEF Push
    <3>2. QED
      BY <2>1, <3>1 DEF Basics
  <2>3. CASE h.do # "push"
    BY <2>1, <2>3, MoveKinds DEF Basics
  <2>4. QED
    BY <2>1, <2>2, <2>3
<1>5. passed' \in [Ranks -> Nat] /\ failed' \in [Ranks -> BOOLEAN]
  <2>1. CASE h.do = "compare"
    <3>1. /\ passed' = [passed EXCEPT ![p] = IF Same(p) /\ ~failed[p] THEN @ + 1 ELSE @]
          /\ failed' = [failed EXCEPT ![p] = failed[p] \/ ~Same(p)]
      BY <2>1, MoveKinds DEF Compare
    <3>2. passed \in [Ranks -> Nat] /\ failed \in [Ranks -> BOOLEAN]
      BY DEF Basics
    <3>3. passed' \in [Ranks -> Nat]
      BY <3>1, <3>2
    <3>4. failed' \in [Ranks -> BOOLEAN]
      BY <3>1, <3>2
    <3>5. QED
      BY <3>3, <3>4
  <2>2. CASE h.do # "compare"
    BY <2>2, MoveKinds DEF Basics
  <2>3. QED
    BY <2>1, <2>2
<1>6. ended' \in [Ranks -> Ways]
  BY MoveKinds DEF Basics
<1>7. QED
  BY <1>1, <1>3, <1>4, <1>5, <1>6, TookMatches DEF Basics

\* A rank that ends keeps everything but its steps.
LEMMA EndKept ==
  ASSUME Basics, NEW p \in Ranks, Ends(p)
  PROVE  /\ Basics'
         /\ \A r \in Ranks : \A d : Matches(r, d) => Matches(r, d)'
         /\ UNCHANGED <<chan, left, buf, mine, theirs, passed, failed, wrong>>
<1>1. PICK how \in {"check", "product", "recv", "crash"} : End(p, how)
  BY DEF Ends, EnforceFails, ProductFails, RecvFails, Crash
<1>2. /\ ended' = [ended EXCEPT ![p] = how] /\ todo' = [todo EXCEPT ![p] = <<>>]
      /\ UNCHANGED <<chan, left, buf, mine, theirs, flag, passed, failed, wrong>>
  BY <1>1 DEF End
<1>3. <<>> \in Seq(Steps) /\ how \in Ways /\ how # "no"
  BY DEF Ways
<1>4. Basics'
  BY <1>2, <1>3 DEF Basics
<1>5. ASSUME NEW r \in Ranks, NEW d, Matches(r, d)
      PROVE  Matches(r, d)'
  <2>1. CASE r = p
    BY <1>2, <1>3, <1>5, <2>1 DEF Matches, Basics
  <2>2. CASE r # p
    BY <1>2, <1>3, <1>5, <2>2 DEF Matches, Basics
  <2>3. QED
    BY <2>1, <2>2
<1>6. QED
  BY <1>2, <1>4, <1>5

-----------------------------------------------------------------------------
\* The path.

Paths == [Nat -> [Ranks -> Controls]]
StepAt(path, i, p) == Head(path[i][p].todo)

\* Before a comparison the digests are exchanged, in what a rank has still to
\* do at position i or in what it has just done.
Preceded(path, p, i, steps, k) ==
  /\ i + k >= 3
  /\ k >= 2 => SecondDigest(p, steps[k - 1])
  /\ k < 2 => SecondDigest(p, StepAt(path, i - 1, p))
  /\ k >= 3 => FirstDigest(p, steps[k - 2])
  /\ k < 3 => FirstDigest(p, StepAt(path, i + k - 3, p))
Follows(path, p, i) ==
  \A k \in 1 .. Len(path[i][p].todo) :
    path[i][p].todo[k].do = "compare" =>
      Preceded(path, p, i, path[i][p].todo, k)

\* Both ranks' controls from the first to position n.
IsPath(path, n) ==
  /\ \A i \in 0 .. n, p \in Ranks :
       Paired(p, path[i][p], path[i][Peer(p)]) /\ Follows(path, p, i)
  /\ \A i \in 0 .. n - 1, p \in Ranks :
       /\ path[i][p].todo # <<>> /\ StepAt(path, i, p).do # "throw"
       /\ path[i + 1][p] = After(p, path[i][p])

\* Only a step that is no message grows.
LEMMA MessageFacts ==
  ASSUME NEW p \in Ranks, NEW c, NEW h, h.do \in Messages
  PROVE  Grown(p, c, h) = <<>>
  BY DEF Grown, Messages

\* The digests stay before the comparisons.
LEMMA FollowsKept ==
  ASSUME NEW path \in Paths, NEW p \in Ranks, NEW i \in Nat, Follows(path, p, i),
         path[i][p].todo # <<>>, NEW G \in Seq(Steps), Formed(p, G),
         StepAt(path, i, p).do \in Messages => G = <<>>,
         path[i + 1][p].todo = G \o Tail(path[i][p].todo)
  PROVE  Follows(path, p, i + 1)
<1> DEFINE s == path[i][p].todo
           t == path[i + 1][p].todo
           h == StepAt(path, i, p)
<1>1. s \in Seq(Steps)
  BY DEF Paths, Controls
<1>2. /\ Len(s) \in Nat \ {0} /\ h = s[1] /\ h \in Steps
      /\ Tail(s) \in Seq(Steps) /\ Len(Tail(s)) = Len(s) - 1
      /\ \A k \in 1 .. Len(s) - 1 : Tail(s)[k] = s[k + 1]
  BY <1>1, HeadTail DEF StepAt
<1>3. \A k \in 1 .. Len(s) : s[k].do = "compare" => Preceded(path, p, i, s, k)
  BY DEF Follows
<1>4. t = G \o Tail(s)
  OBVIOUS
<1> HIDE DEF s, t, h
<1>5. ASSUME \A k \in 1 .. Len(t) :
               t[k].do = "compare" => Preceded(path, p, i + 1, t, k)
      PROVE  Follows(path, p, i + 1)
  BY <1>5 DEF Follows, t
<1>6. CASE h.do \in Messages
  <2>1. G = <<>>
    BY <1>6 DEF h
  <2>2. t = Tail(s)
    BY <1>2, <1>4, <2>1
  <2>3. ASSUME NEW k \in 1 .. Len(t), t[k].do = "compare"
        PROVE  Preceded(path, p, i + 1, t, k)
    <3>1. k + 1 \in 1 .. Len(s) /\ k \in 1 .. Len(s) - 1 /\ t[k] = s[k + 1]
      BY <1>2, <2>2
    <3>2. Preceded(path, p, i, s, k + 1)
      BY <1>3, <2>3, <3>1
    <3>3. k + 1 - 1 = k /\ k + 1 - 2 = k - 1 /\ i + (k + 1) - 3 = i + 1 + k - 3
      BY <3>1
    <3>4. /\ i + 1 + k >= 3 /\ SecondDigest(p, s[k])
          /\ k >= 2 => FirstDigest(p, s[k - 1])
          /\ k < 2 => FirstDigest(p, StepAt(path, i + 1 + k - 3, p))
      <4>1. /\ i + (k + 1) >= 3 /\ k + 1 >= 2
            /\ k + 1 >= 3 <=> k >= 2
            /\ k + 1 < 3 <=> k < 2
            /\ i + (k + 1) >= 3 => i + 1 + k >= 3
        <5>1. i + (k + 1) >= 3
          BY <3>2 DEF Preceded
        <5>2. k \in Nat /\ k >= 1
          BY <3>1
        <5>3. QED
          BY <5>1, <5>2
      <4>2. /\ SecondDigest(p, s[k + 1 - 1])
            /\ k + 1 >= 3 => FirstDigest(p, s[k + 1 - 2])
            /\ k + 1 < 3 => FirstDigest(p, StepAt(path, i + (k + 1) - 3, p))
        BY <3>2, <4>1 DEF Preceded
      <4>3. QED
        BY <3>3, <4>1, <4>2
    <3>5. CASE k >= 3
      <4>1. t[k - 1] = s[k] /\ t[k - 2] = s[k - 1]
        BY <1>2, <2>2, <3>1, <3>5
      <4>2. /\ SecondDigest(p, t[k - 1]) /\ FirstDigest(p, t[k - 2])
            /\ k \in Nat /\ (i + 1) + k >= 3
        BY <3>1, <3>4, <3>5, <4>1
      <4>3. ~(k < 2) /\ ~(k < 3)
        BY <3>5, <4>2
      <4>4. QED
        BY <4>2, <4>3 DEF Preceded
    <3>6. CASE k = 2
      <4>1. t[1] = s[2] /\ s[1] = StepAt(path, i, p)
        BY <1>2, <2>2, <3>1, <3>6 DEF h
      <4>2. QED
        BY <3>1, <3>4, <3>6, <4>1 DEF Preceded
    <3>7. CASE k = 1
      <4>1. s[k] = StepAt(path, i, p) /\ i + 1 - 1 = i
        BY <1>2, <3>7 DEF h
      <4>2. QED
        BY <3>1, <3>4, <3>7, <4>1 DEF Preceded
    <3>8. QED
      BY <3>1, <3>5, <3>6, <3>7
  <2>4. QED
    BY <1>5, <2>3
<1>7. CASE h.do \notin Messages
  <2>1. ~SecondDigest(p, h) /\ ~FirstDigest(p, h)
    BY <1>7 DEF SecondDigest, FirstDigest, IsDigest, Messages
  <2>2. ASSUME NEW k \in 1 .. Len(Tail(s)), Tail(s)[k].do = "compare"
        PROVE  /\ k >= 3 /\ SecondDigest(p, Tail(s)[k - 1])
               /\ FirstDigest(p, Tail(s)[k - 2])
    <3>1. k + 1 \in 1 .. Len(s) /\ Tail(s)[k] = s[k + 1] /\ k \in Nat \ {0}
      BY <1>2
    <3>2. Preceded(path, p, i, s, k + 1)
      BY <1>3, <2>2, <3>1
    <3>3. SecondDigest(p, s[k])
      <4>1. k + 1 >= 2 /\ k + 1 - 1 = k
        BY <3>1
      <4>2. QED
        BY <3>2, <4>1 DEF Preceded
    <3>4. k # 1
      BY <1>2, <2>1, <3>3
    <3>5. FirstDigest(p, s[k - 1])
      <4>1. k + 1 >= 3 /\ k + 1 - 2 = k - 1
        BY <3>1, <3>4
      <4>2. QED
        BY <3>2, <4>1 DEF Preceded
    <3>6. k # 2
      BY <1>2, <2>1, <3>5
    <3>7. k >= 3 /\ Tail(s)[k - 1] = s[k] /\ Tail(s)[k - 2] = s[k - 1]
      BY <1>2, <3>1, <3>4, <3>6
    <3>8. QED
      BY <3>3, <3>5, <3>7
  <2>3. Formed(p, Tail(s))
    BY <2>2 DEF Formed
  <2>4. Formed(p, t)
    BY <1>2, <1>4, <2>3, FormedConcat
  <2>5. ASSUME NEW k \in 1 .. Len(t), t[k].do = "compare"
        PROVE  Preceded(path, p, i + 1, t, k)
    <3>1. k >= 3 /\ SecondDigest(p, t[k - 1]) /\ FirstDigest(p, t[k - 2])
      BY <2>4, <2>5 DEF Formed
    <3>2. QED
      BY <3>1 DEF Preceded
  <2>6. QED
    BY <1>5, <2>5
<1>8. QED
  BY <1>6, <1>7

\* A path both ranks can go on from goes on.
LEMMA PathExtended ==
  ASSUME NEW path \in Paths, NEW n \in Nat, IsPath(path, n), NEW p \in Ranks,
         path[n][p].todo # <<>>, StepAt(path, n, p).do # "throw"
  PROVE  \E longer \in Paths :
           IsPath(longer, n + 1) /\ \A i \in 0 .. n : longer[i] = path[i]
<1> DEFINE next == [r \in Ranks |-> After(r, path[n][r])]
           longer == [path EXCEPT ![n + 1] = next]
<1>1. ASSUME NEW r \in Ranks
      PROVE  /\ path[n][r].todo # <<>> /\ StepAt(path, n, r).do # "throw"
  <2> DEFINE c == path[n][p]
             d == path[n][Peer(p)]
  <2>1. c \in Controls /\ d \in Controls /\ Paired(p, c, d)
    BY PeerFacts DEF Paths, IsPath
  <2>2. c.todo \in Seq(Steps) /\ d.todo \in Seq(Steps)
    BY <2>1 DEF Controls
  <2>3. /\ Len(c.todo) = Len(d.todo)
        /\ \A i \in 1 .. Len(c.todo) : StepsFit(c.todo[i], d.todo[i])
    BY <2>1 DEF Paired
  <2> HIDE DEF c, d
  <2>4. Len(c.todo) \in Nat \ {0} /\ Head(c.todo) = c.todo[1]
    BY <2>2, HeadTail DEF c
  <2>5. d.todo # <<>>
    BY <2>2, <2>3, <2>4
  <2>6. Head(d.todo) = d.todo[1]
    BY <2>2, <2>5, HeadTail
  <2>7. StepsFit(Head(c.todo), Head(d.todo))
    BY <2>3, <2>4, <2>6
  <2>8. Head(d.todo).do # "throw"
    BY <2>7 DEF StepsFit, Messages, StepAt, c
  <2>9. r = p \/ r = Peer(p)
    BY DEF Peer, Ranks
  <2>10. QED
    BY <2>5, <2>8, <2>9 DEF StepAt, c, d
<1>2. ASSUME NEW r \in Ranks
      PROVE  /\ After(r, path[n][r]) \in Controls
             /\ Paired(r, After(r, path[n][r]), After(Peer(r), path[n][Peer(r)]))
             /\ Formed(r, Grown(r, path[n][r], Head(path[n][r].todo)))
             /\ Grown(r, path[n][r], Head(path[n][r].todo)) \in Seq(Steps)
  <2>1. /\ path[n][r] \in Controls /\ path[n][Peer(r)] \in Controls
        /\ Paired(r, path[n][r], path[n][Peer(r)])
    BY PeerFacts DEF Paths, IsPath
  <2>2. QED
    BY <1>1, <2>1, AfterPaired
<1>3. next \in [Ranks -> Controls]
  BY <1>2
<1>4. /\ longer \in Paths /\ longer[n + 1] = next
      /\ \A i \in 0 .. n : longer[i] = path[i]
  BY <1>3 DEF Paths
<1> HIDE DEF longer, next
<1>5. ASSUME NEW i \in 0 .. n, NEW r \in Ranks
      PROVE  Paired(r, longer[i][r], longer[i][Peer(r)]) /\ Follows(longer, r, i)
  <2>1. Paired(r, path[i][r], path[i][Peer(r)]) /\ Follows(path, r, i)
    BY DEF IsPath
  <2>2. longer[i] = path[i]
    BY <1>4
  <2>3. \A j \in 0 .. n : StepAt(longer, j, r) = StepAt(path, j, r)
    BY <1>4 DEF StepAt
  <2>4. ASSUME NEW k \in 1 .. Len(path[i][r].todo),
               path[i][r].todo[k].do = "compare"
        PROVE  Preceded(longer, r, i, path[i][r].todo, k)
    <3>1. Preceded(path, r, i, path[i][r].todo, k)
      BY <2>1, <2>4 DEF Follows
    <3>2. Len(path[i][r].todo) \in Nat
      BY DEF Paths, Controls
    <3>3. k < 2 => StepAt(longer, i - 1, r) = StepAt(path, i - 1, r)
      <4>1. k < 2 => i - 1 \in 0 .. n
        BY <3>1, <3>2 DEF Preceded
      <4>2. QED
        BY <2>3, <4>1
    <3>4. k < 3 => StepAt(longer, i + k - 3, r) = StepAt(path, i + k - 3, r)
      <4>1. k < 3 => i + k - 3 \in 0 .. n
        BY <3>1, <3>2 DEF Preceded
      <4>2. QED
        BY <2>3, <4>1
    <3>5. QED
      BY <3>1, <3>3, <3>4 DEF Preceded
  <2>5. QED
    BY <2>1, <2>2, <2>4 DEF Follows
<1>6. ASSUME NEW r \in Ranks
      PROVE  Paired(r, longer[n + 1][r], longer[n + 1][Peer(r)])
             /\ Follows(longer, r, n + 1)
  <2>1. /\ longer[n + 1][r] = After(r, path[n][r])
        /\ longer[n + 1][Peer(r)] = After(Peer(r), path[n][Peer(r)])
    BY <1>4, PeerFacts DEF next
  <2> DEFINE G == Grown(r, path[n][r], Head(path[n][r].todo))
  <2>2. longer[n] = path[n] /\ Follows(longer, r, n)
    BY <1>4, <1>5
  <2>3. longer[n + 1][r].todo = G \o Tail(longer[n][r].todo)
    <3>1. After(r, path[n][r]).todo = G \o Tail(path[n][r].todo)
      BY DEF After
    <3> HIDE DEF G
    <3>2. QED
      BY <2>1, <2>2, <3>1
  <2>4. G \in Seq(Steps) /\ Formed(r, G)
    BY <1>2
  <2>5. StepAt(longer, n, r).do \in Messages => G = <<>>
    BY <2>2, MessageFacts DEF StepAt
  <2>6. longer[n][r].todo # <<>>
    BY <1>1, <2>2
  <2> HIDE DEF G
  <2>7. Follows(longer, r, n + 1)
    BY <1>4, <2>2, <2>3, <2>4, <2>5, <2>6, FollowsKept
  <2>8. QED
    BY <1>2, <2>1, <2>7
<1>7. ASSUME NEW i \in 0 .. n, NEW r \in Ranks
      PROVE  /\ longer[i][r].todo # <<>> /\ StepAt(longer, i, r).do # "throw"
             /\ longer[i + 1][r] = After(r, longer[i][r])
  <2>1. CASE i = n
    BY <1>1, <1>4, <2>1 DEF StepAt, next
  <2>2. CASE i # n
    <3>1. i \in 0 .. n - 1 /\ i + 1 \in 0 .. n
      BY <2>2
    <3>2. longer[i] = path[i] /\ longer[i + 1] = path[i + 1]
      BY <1>4, <3>1
    <3>3. QED
      BY <3>1, <3>2 DEF IsPath, StepAt
  <2>3. QED
    BY <2>1, <2>2
<1>8. IsPath(longer, n + 1)
  <2>1. \A i \in 0 .. n + 1 : i \in 0 .. n \/ i = n + 1
    OBVIOUS
  <2>2. n + 1 - 1 = n
    OBVIOUS
  <2>3. QED
    BY <1>5, <1>6, <1>7, <2>1, <2>2 DEF IsPath
<1>9. QED
  BY <1>4, <1>8

-----------------------------------------------------------------------------
\* The ranks on the path, and the messages between them.

\* Where the ranks are on the path: rank p at position at[p].
Walks(path, n, at) ==
  /\ IsPath(path, n)
  /\ \A p \in Ranks : at[p] <= n /\ Matches(p, path[at[p]][p])
Advance(at, p) == [at EXCEPT ![p] = @ + 1]

\* A rank behind its peer never sends: its peer would not have gone on.
Behind(path, at) ==
  \A p \in Ranks, i \in Nat :
    at[p] <= i /\ i < at[Peer(p)] => StepAt(path, i, p).do # "send"

\* What the ranks have got on the way: the digest they would send, the
\* comparisons passed and whether one has failed.
LogEntries == [mine : Seq(Entries), passed : Nat, failed : BOOLEAN]
Logs == [Ranks -> [Nat -> LogEntries]]
Now(p) == [mine |-> mine[p], passed |-> passed[p], failed |-> failed[p]]

\* The messages on their way to rank p: those its peer has sent from where p
\* is on.
IsSend(path, i, q, c) ==
  StepAt(path, i, q).do = "send" /\ StepAt(path, i, q).ch = c
Sent(path, log, q, i) ==
  [tag |-> StepAt(path, i, q).tag, num |-> StepAt(path, i, q).num,
   digest |-> IF StepAt(path, i, q).tag = "digest" THEN log[q][i].mine ELSE <<>>]
Places == [Ranks -> [Channels -> Seq(Nat)]]
ListedOn(path, at, log, m, p, c) ==
  /\ Len(m) = Len(chan[p][c])
  /\ \A j, k \in 1 .. Len(m) : j < k => m[j] < m[k]
  /\ \A k \in 1 .. Len(m) :
       /\ at[p] <= m[k] /\ m[k] < at[Peer(p)] /\ IsSend(path, m[k], Peer(p), c)
       /\ chan[p][c][k] = Sent(path, log, Peer(p), m[k])
  /\ \A i \in Nat :
       at[p] <= i /\ i < at[Peer(p)] /\ IsSend(path, i, Peer(p), c) =>
         \E k \in 1 .. Len(m) : m[k] = i
Listed(path, at, log, places) ==
  \A p \in Ranks, c \in Channels : ListedOn(path, at, log, places[p][c], p, c)

\* On the path the ranks' steps fit.
LEMMA PathFits ==
  ASSUME NEW path \in Paths, NEW n \in Nat, IsPath(path, n), NEW i \in 0 .. n,
         NEW p \in Ranks, path[i][p].todo # <<>>
  PROVE  /\ path[i][Peer(p)].todo # <<>>
         /\ StepAt(path, i, p) \in Steps /\ StepAt(path, i, Peer(p)) \in Steps
         /\ StepsFit(StepAt(path, i, p), StepAt(path, i, Peer(p)))
<1> DEFINE c == path[i][p].todo
           d == path[i][Peer(p)].todo
<1>1. c \in Seq(Steps) /\ d \in Seq(Steps)
  <2>1. path[i][p] \in Controls /\ path[i][Peer(p)] \in Controls
    BY PeerFacts DEF Paths
  <2>2. QED
    BY <2>1 DEF Controls
<1>2. Len(c) = Len(d) /\ \A k \in 1 .. Len(c) : StepsFit(c[k], d[k])
  BY DEF IsPath, Paired
<1>3. c # <<>>
  OBVIOUS
<1> HIDE DEF c, d
<1>4. Len(c) \in Nat \ {0} /\ Head(c) = c[1] /\ Head(c) \in Steps
  BY <1>1, <1>3, HeadTail
<1>5. d # <<>>
  BY <1>1, <1>2, <1>4
<1>6. Head(d) = d[1] /\ Head(d) \in Steps
  BY <1>1, <1>5, HeadTail
<1>7. StepsFit(Head(c), Head(d))
  BY <1>2, <1>4, <1>6
<1>8. QED
  BY <1>4, <1>5, <1>6, <1>7 DEF StepAt, c, d

\* The first message of a channel a rank is about to receive on is the one
\* its peer has sent at the position the rank is at.
LEMMA FirstMessage ==
  ASSUME NEW path \in Paths, NEW n \in Nat, NEW at \in [Ranks -> Nat],
         NEW log \in Logs, NEW places \in Places, Basics,
         Walks(path, n, at), Listed(path, at, log, places),
         NEW p \in Ranks, At(p, "recv"), chan[p][Head(todo[p]).ch] # <<>>
  PROVE  LET h == StepAt(path, at[p], p)
         IN  /\ h = Head(todo[p]) /\ h \in Steps /\ at[p] < at[Peer(p)]
             /\ IsSend(path, at[p], Peer(p), h.ch)
             /\ StepAt(path, at[p], Peer(p)).tag = h.tag
             /\ StepAt(path, at[p], Peer(p)).num = h.num
             /\ Len(places[p][h.ch]) >= 1 /\ places[p][h.ch][1] = at[p]
             /\ Head(chan[p][h.ch]) = Sent(path, log, Peer(p), at[p])
<1> DEFINE i == at[p]
           q == Peer(p)
           h == StepAt(path, i, p)
           g == StepAt(path, i, q)
           m == places[p][h.ch]
<1>1. /\ q \in Ranks /\ i \in 0 .. n /\ at[q] \in 0 .. n
      /\ IsPath(path, n) /\ Matches(p, path[i][p]) /\ path[i][p] \in Controls
  BY PeerFacts DEF Walks, Paths
<1>2. /\ path[i][p].todo # <<>> /\ h = Head(todo[p]) /\ h.do = "recv"
  BY <1>1, AtFacts DEF StepAt
<1>3. h \in Steps /\ g \in Steps /\ StepsFit(h, g)
  BY <1>1, <1>2, PathFits
<1>4. g.do = "send" /\ g.ch = h.ch /\ g.tag = h.tag /\ g.num = h.num
  BY <1>2, <1>3 DEF StepsFit, Messages
<1>5. h.ch \in Channels
  BY <1>3, StepFacts
<1>6. chan[p][h.ch] \in Seq(Contents) /\ chan[p][h.ch] # <<>> /\ m \in Seq(Nat)
  BY <1>2, <1>5 DEF Basics, Places
<1>7. ListedOn(path, at, log, m, p, h.ch)
  BY <1>5 DEF Listed
<1> HIDE DEF h, g, m, i, q
<1>8. Len(m) = Len(chan[p][h.ch]) /\ Len(m) \in Nat \ {0}
  <2>1. Len(m) = Len(chan[p][h.ch])
    BY <1>7 DEF ListedOn
  <2>2. QED
    BY <1>6, <2>1
<1>9. i <= m[1] /\ m[1] < at[q] /\ m[1] \in Nat
  BY <1>6, <1>7, <1>8 DEF ListedOn, i, q
<1>10. IsSend(path, i, q, h.ch)
  BY <1>4 DEF IsSend, g
<1>11. i \in Nat /\ i < at[q] /\ at[q] \in Nat
  BY <1>1, <1>9
<1>12. PICK k \in 1 .. Len(m) : m[k] = i
  BY <1>7, <1>10, <1>11 DEF ListedOn, i, q
<1>13. k = 1
  <2>1. 1 < k => m[1] < m[k]
    BY <1>7, <1>8 DEF ListedOn
  <2>2. QED
    BY <1>8, <1>9, <1>11, <1>12, <2>1
<1>14. chan[p][h.ch][1] = Sent(path, log, q, i)
  BY <1>7, <1>8, <1>12, <1>13 DEF ListedOn, q
<1>15. Head(chan[p][h.ch]) = chan[p][h.ch][1]
  BY <1>6, HeadTail
<1>16. QED
  BY <1>2, <1>3, <1>4, <1>8, <1>10, <1>11, <1>12, <1>13, <1>14, <1>15
     DEF h, g, m, i, q

\* A rank that goes on is one further.
LEMMA WalkOn ==
  ASSUME NEW path \in Paths, NEW n \in Nat, NEW at \in [Ranks -> Nat],
         Basics, Walks(path, n, at), NEW p \in Ranks, Moves(p), at[p] < n
  PROVE  LET h == StepAt(path, at[p], p)
         IN  /\ Basics' /\ Walks(path, n, Advance(at, p))'
             /\ h = Head(todo[p]) /\ h \in Steps /\ todo[p] # <<>>
             /\ StepAt(path, at[p], Peer(p)) \in Steps
             /\ StepsFit(h, StepAt(path, at[p], Peer(p)))
             /\ path[at[p] + 1][p] = After(p, path[at[p]][p])
             /\ Took(p, path[at[p]][p])
<1> DEFINE i == at[p]
           h == StepAt(path, i, p)
<1>1. PICK c \in Controls : c = path[i][p]
  BY DEF Paths
<1>2. PICK a \in Controls : a = path[i + 1][p]
  BY DEF Paths
<1>3. IsPath(path, n) /\ Matches(p, c) /\ a = After(p, c) /\ c.todo # <<>>
  BY <1>1, <1>2 DEF Walks, IsPath
<1>4. Took(p, c)
  BY <1>3, MovesTook
<1>5. Basics' /\ Matches(p, a)' /\ \A d : Matches(Peer(p), d) => Matches(Peer(p), d)'
  BY <1>3, <1>4, TookMatches, BasicsKept
<1>6. /\ h \in Steps /\ StepAt(path, i, Peer(p)) \in Steps
      /\ StepsFit(h, StepAt(path, i, Peer(p)))
  BY <1>1, <1>3, PathFits
<1>7. h = Head(todo[p]) /\ todo[p] # <<>>
  BY <1>1, <1>4 DEF Took, StepAt
<1>8. Walks(path, n, Advance(at, p))'
  <2>1. PICK d : d = path[at[Peer(p)]][Peer(p)]
    OBVIOUS
  <2>2. Matches(Peer(p), d)'
    BY <1>5, <2>1, PeerFacts DEF Walks
  <2>3. /\ Advance(at, p)[p] = i + 1 /\ Advance(at, p)[Peer(p)] = at[Peer(p)]
        /\ at[Peer(p)] <= n /\ \A r \in Ranks : r = p \/ r = Peer(p)
    BY PeerFacts DEF Advance, Walks, Peer, Ranks
  <2>4. \A r \in Ranks :
          Advance(at, p)[r] <= n /\ Matches(r, path[Advance(at, p)[r]][r])'
    BY <1>2, <1>5, <2>1, <2>2, <2>3
  <2>5. QED
    BY <1>3, <2>4 DEF Walks
<1>9. QED
  BY <1>1, <1>2, <1>3, <1>4, <1>5, <1>6, <1>7, <1>8

\* The rank behind still never sends.
LEMMA BehindKept ==
  ASSUME NEW path \in Paths, NEW n \in Nat, NEW at \in [Ranks -> Nat],
         NEW log \in Logs, NEW places \in Places, Basics,
         Walks(path, n, at), Listed(path, at, log, places), Behind(path, at),
         NEW p \in Ranks, Moves(p), at[p] < n
  PROVE  Behind(path, Advance(at, p))
<1> DEFINE i == at[p]
           h == StepAt(path, i, p)
<1>1. h = Head(todo[p]) /\ todo[p] # <<>> /\ StepsFit(h, StepAt(path, i, Peer(p)))
  BY WalkOn
<1>2. ASSUME at[Peer(p)] <= i
      PROVE  StepAt(path, i, Peer(p)).do # "send"
  <2>1. SUFFICES ASSUME StepAt(path, i, Peer(p)).do = "send"
                 PROVE  FALSE
    OBVIOUS
  <2>2. h.do = "recv"
    BY <1>1, <2>1 DEF StepsFit, Messages
  <2>3. At(p, "recv") /\ chan[p][Head(todo[p]).ch] # <<>>
    BY <1>1, <2>2, MoveKinds DEF RecvStep, At
  <2>4. at[p] < at[Peer(p)]
    BY <2>3, FirstMessage
  <2>5. QED
    BY <1>2, <2>4, PeerFacts
<1>3. /\ Advance(at, p)[p] = i + 1 /\ Advance(at, p)[Peer(p)] = at[Peer(p)]
      /\ Peer(Peer(p)) = p /\ i \in Nat /\ at[Peer(p)] \in Nat
      /\ \A r \in Ranks : r = p \/ r = Peer(p)
  BY PeerFacts DEF Advance, Peer, Ranks
<1> HIDE DEF h, i
<1>4. ASSUME NEW j \in Nat, i + 1 <= j, j < at[Peer(p)]
      PROVE  StepAt(path, j, p).do # "send"
  BY <1>3, <1>4 DEF Behind, i
<1>5. ASSUME NEW j \in Nat, at[Peer(p)] <= j, j < i + 1
      PROVE  StepAt(path, j, Peer(p)).do # "send"
  <2>1. CASE j = i
    BY <1>2, <1>5, <2>1
  <2>2. CASE j # i
    <3>1. j < at[Peer(Peer(p))]
      BY <1>3, <1>5, <2>2 DEF i
    <3>2. QED
      BY <1>5, <3>1, PeerFacts DEF Behind
  <2>3. QED
    BY <2>1, <2>2
<1>6. QED
  BY <1>3, <1>4, <1>5 DEF Behind

\* What a rank has sent stays what it was.
Recorded(log, p, i, new) == [log EXCEPT ![p][i] = new]
LEMMA SentKept ==
  ASSUME NEW path \in Paths, NEW at \in [Ranks -> Nat], NEW log \in Logs,
         NEW p \in Ranks, NEW new \in LogEntries
  PROVE  /\ Recorded(log, p, at[p] + 1, new) \in Logs
         /\ Recorded(log, p, at[p] + 1, new)[p][at[p] + 1] = new
         /\ \A r \in Ranks, j \in Nat :
              j <= at[r] =>
                /\ Recorded(log, p, at[p] + 1, new)[r][j] = log[r][j]
                /\ Sent(path, Recorded(log, p, at[p] + 1, new), r, j)
                     = Sent(path, log, r, j)
<1> DEFINE log2 == Recorded(log, p, at[p] + 1, new)
<1>1. log2 \in Logs /\ log2[p][at[p] + 1] = new
  BY DEF Logs, Recorded
<1>2. ASSUME NEW r \in Ranks, NEW j \in Nat, j <= at[r]
      PROVE  log2[r][j] = log[r][j]
  BY <1>2 DEF Logs, Recorded
<1> HIDE DEF log2
<1>3. ASSUME NEW r \in Ranks, NEW j \in Nat, j <= at[r]
      PROVE  Sent(path, log2, r, j) = Sent(path, log, r, j)
  BY <1>2, <1>3 DEF Sent
<1>4. QED
  BY <1>1, <1>2, <1>3 DEF log2

\* A channel a step neither sends nor receives on is listed as before.
LEMMA ListedStays ==
  ASSUME NEW path \in Paths, NEW at \in [Ranks -> Nat], NEW log \in Logs,
         NEW p \in Ranks, NEW new \in LogEntries,
         NEW r \in Ranks, NEW c \in Channels, NEW m \in Seq(Nat),
         ListedOn(path, at, log, m, r, c), ~IsSend(path, at[p], Peer(r), c),
         chan'[r][c] = chan[r][c]
  PROVE  ListedOn(path, Advance(at, p), Recorded(log, p, at[p] + 1, new), m, r, c)'
<1> DEFINE at2 == Advance(at, p)
           log2 == Recorded(log, p, at[p] + 1, new)
           q == Peer(r)
<1>1. q \in Ranks
  BY PeerFacts
<1>2. \A s \in Ranks : at[s] \in Nat /\ at2[s] = IF s = p THEN at[s] + 1 ELSE at[s]
  BY DEF Advance
<1>3. \A j \in Nat : j <= at[q] => Sent(path, log2, q, j) = Sent(path, log, q, j)
  BY <1>1, SentKept
<1> HIDE DEF at2, log2, q
<1>4. Len(m) \in Nat /\ \A k \in 1 .. Len(m) : m[k] \in Nat
  OBVIOUS
<1>5. /\ Len(m) = Len(chan[r][c])
      /\ \A j, k \in 1 .. Len(m) : j < k => m[j] < m[k]
  BY DEF ListedOn
<1>6. ASSUME NEW k \in 1 .. Len(m)
      PROVE  /\ at2[r] <= m[k] /\ m[k] < at2[q] /\ IsSend(path, m[k], q, c)
             /\ chan'[r][c][k] = Sent(path, log2, q, m[k])
  <2>1. /\ at[r] <= m[k] /\ m[k] < at[q] /\ IsSend(path, m[k], q, c)
        /\ chan[r][c][k] = Sent(path, log, q, m[k])
    BY DEF ListedOn, q
  <2>2. m[k] # at[p]
    BY <2>1 DEF q
  <2>3. at2[r] <= m[k] /\ m[k] < at2[q]
    BY <1>1, <1>2, <1>4, <2>1, <2>2
  <2>4. Sent(path, log2, q, m[k]) = Sent(path, log, q, m[k])
    BY <1>1, <1>2, <1>3, <1>4, <2>1
  <2>5. QED
    BY <2>1, <2>3, <2>4
<1>7. ASSUME NEW i \in Nat, at2[r] <= i, i < at2[q], IsSend(path, i, q, c)
      PROVE  \E k \in 1 .. Len(m) : m[k] = i
  <2>1. i # at[p]
    BY <1>7 DEF q
  <2>2. at[r] <= i /\ i < at[q]
    BY <1>1, <1>2, <1>7, <2>1
  <2>3. QED
    BY <1>7, <2>2 DEF ListedOn, q
<1>8. QED
  BY <1>5, <1>6, <1>7 DEF ListedOn, at2, log2, q

\* A message sent is listed last.
LEMMA ListedSend ==
  ASSUME NEW path \in Paths, NEW at \in [Ranks -> Nat], NEW log \in Logs,
         NEW p \in Ranks, NEW new \in LogEntries, NEW c \in Channels,
         NEW m \in Seq(Nat), ListedOn(path, at, log, m, Peer(p), c),
         at[Peer(p)] <= at[p], IsSend(path, at[p], p, c),
         chan[Peer(p)][c] \in Seq(Contents), Sent(path, log, p, at[p]) \in Contents,
         chan'[Peer(p)][c] = Append(chan[Peer(p)][c], Sent(path, log, p, at[p]))
  PROVE  /\ Append(m, at[p]) \in Seq(Nat)
         /\ ListedOn(path, Advance(at, p), Recorded(log, p, at[p] + 1, new),
                     Append(m, at[p]), Peer(p), c)'
<1> DEFINE at2 == Advance(at, p)
           log2 == Recorded(log, p, at[p] + 1, new)
           q == Peer(p)
           m2 == Append(m, at[p])
           l == Len(m)
<1>1. q \in Ranks /\ q # p /\ Peer(q) = p
  BY PeerFacts
<1>2. /\ at[p] \in Nat /\ at[q] \in Nat /\ at2[p] = at[p] + 1 /\ at2[q] = at[q]
  BY <1>1 DEF Advance
<1>3. \A j \in Nat : j <= at[p] => Sent(path, log2, p, j) = Sent(path, log, p, j)
  BY SentKept
<1>4. /\ m2 \in Seq(Nat) /\ Len(m2) = l + 1 /\ l \in Nat /\ m2[l + 1] = at[p]
      /\ \A k \in 1 .. l : m2[k] = m[k] /\ m[k] \in Nat
  OBVIOUS
<1>5. /\ l = Len(chan[q][c])
      /\ \A j, k \in 1 .. l : j < k => m[j] < m[k]
      /\ \A k \in 1 .. l : /\ at[q] <= m[k] /\ m[k] < at[p] /\ IsSend(path, m[k], p, c)
                           /\ chan[q][c][k] = Sent(path, log, p, m[k])
      /\ \A i \in Nat : at[q] <= i /\ i < at[p] /\ IsSend(path, i, p, c) =>
                          \E k \in 1 .. l : m[k] = i
  BY <1>1 DEF ListedOn
<1> HIDE DEF at2, log2, q, m2, l
<1>6. /\ Len(chan'[q][c]) = l + 1
      /\ chan'[q][c][l + 1] = Sent(path, log, p, at[p])
      /\ \A k \in 1 .. l : chan'[q][c][k] = chan[q][c][k]
  <2>1. PICK s \in Seq(Contents) : s = chan[q][c]
    BY DEF q
  <2>2. chan'[q][c] = Append(s, Sent(path, log, p, at[p]))
    BY <2>1 DEF q
  <2>3. QED
    BY <1>5, <2>1, <2>2
<1>7. ASSUME NEW j \in 1 .. l + 1, NEW k \in 1 .. l + 1, j < k
      PROVE  m2[j] < m2[k]
  <2>1. j \in 1 .. l /\ (k \in 1 .. l \/ k = l + 1)
    BY <1>4, <1>7
  <2>2. QED
    BY <1>4, <1>5, <1>7, <2>1
<1>8. ASSUME NEW k \in 1 .. l + 1
      PROVE  /\ at2[q] <= m2[k] /\ m2[k] < at2[p] /\ IsSend(path, m2[k], p, c)
             /\ chan'[q][c][k] = Sent(path, log2, p, m2[k])
  <2>1. CASE k \in 1 .. l
    <3>1. Sent(path, log2, p, m[k]) = Sent(path, log, p, m[k])
      <4>1. m[k] \in Nat /\ m[k] <= at[p]
        BY <1>2, <1>4, <1>5, <2>1
      <4>2. QED
        BY <1>3, <4>1
    <3>2. QED
      BY <1>2, <1>4, <1>5, <1>6, <2>1, <3>1
  <2>2. CASE k = l + 1
    BY <1>2, <1>3, <1>4, <1>6, <2>2 DEF q
  <2>3. QED
    BY <1>4, <2>1, <2>2
<1>9. ASSUME NEW i \in Nat, at2[q] <= i, i < at2[p], IsSend(path, i, p, c)
      PROVE  \E k \in 1 .. l + 1 : m2[k] = i
  <2>1. CASE i = at[p]
    BY <1>4, <2>1
  <2>2. CASE i # at[p]
    <3>1. at[q] <= i /\ i < at[p]
      BY <1>2, <1>9, <2>2
    <3>2. PICK k \in 1 .. l : m[k] = i
      BY <1>5, <1>9, <3>1
    <3>3. k \in 1 .. l + 1 /\ m2[k] = i
      BY <1>4, <3>2
    <3>4. QED
      BY <3>3
  <2>3. QED
    BY <2>1, <2>2
<1>10. ListedOn(path, at2, log2, m2, q, c)'
  BY <1>1, <1>4, <1>6, <1>7, <1>8, <1>9 DEF ListedOn
<1>11. QED
  BY <1>4, <1>10 DEF at2, log2, q, m2

\* A message received is listed no more.
LEMMA ListedRecv ==
  ASSUME NEW path \in Paths, NEW at \in [Ranks -> Nat], NEW log \in Logs,
         NEW p \in Ranks, NEW new \in LogEntries, NEW c \in Channels,
         NEW m \in Seq(Nat), ListedOn(path, at, log, m, p, c),
         Len(m) >= 1, m[1] = at[p],
         chan[p][c] \in Seq(Contents), chan'[p][c] = Tail(chan[p][c])
  PROVE  /\ Tail(m) \in Seq(Nat)
         /\ ListedOn(path, Advance(at, p), Recorded(log, p, at[p] + 1, new),
                     Tail(m), p, c)'
<1> DEFINE at2 == Advance(at, p)
           log2 == Recorded(log, p, at[p] + 1, new)
           q == Peer(p)
           m2 == Tail(m)
           l == Len(m)
<1>1. q \in Ranks /\ q # p
  BY PeerFacts
<1>2. /\ at[p] \in Nat /\ at[q] \in Nat /\ at2[p] = at[p] + 1 /\ at2[q] = at[q]
  BY <1>1 DEF Advance
<1>3. \A j \in Nat : j <= at[q] => Sent(path, log2, q, j) = Sent(path, log, q, j)
  BY <1>1, SentKept
<1>4. /\ m2 \in Seq(Nat) /\ Len(m2) = l - 1 /\ l \in Nat \ {0}
      /\ \A k \in 1 .. l - 1 : m2[k] = m[k + 1]
      /\ \A k \in 1 .. l : m[k] \in Nat
  <2>1. m # <<>>
    OBVIOUS
  <2>2. QED
    BY <2>1, HeadTail
<1>5. /\ l = Len(chan[p][c])
      /\ \A j, k \in 1 .. l : j < k => m[j] < m[k]
      /\ \A k \in 1 .. l : /\ at[p] <= m[k] /\ m[k] < at[q] /\ IsSend(path, m[k], q, c)
                           /\ chan[p][c][k] = Sent(path, log, q, m[k])
      /\ \A i \in Nat : at[p] <= i /\ i < at[q] /\ IsSend(path, i, q, c) =>
                          \E k \in 1 .. l : m[k] = i
  BY DEF ListedOn
<1> HIDE DEF at2, log2, q, m2, l
<1>6. /\ Len(chan'[p][c]) = l - 1
      /\ \A k \in 1 .. l - 1 : chan'[p][c][k] = chan[p][c][k + 1]
  <2>1. PICK s \in Seq(Contents) : s = chan[p][c]
    OBVIOUS
  <2>2. s # <<>>
    BY <1>4, <1>5, <2>1
  <2>3. QED
    BY <1>5, <2>1, <2>2, HeadTail
<1>7. ASSUME NEW j \in 1 .. l - 1, NEW k \in 1 .. l - 1, j < k
      PROVE  m2[j] < m2[k]
  <2>1. j + 1 \in 1 .. l /\ k + 1 \in 1 .. l /\ j + 1 < k + 1
    <3>1. l \in Nat
      BY <1>4
    <3>2. QED
      BY <1>7, <3>1
  <2>2. QED
    BY <1>4, <1>5, <2>1
<1>8. ASSUME NEW k \in 1 .. l - 1
      PROVE  /\ at2[p] <= m2[k] /\ m2[k] < at2[q] /\ IsSend(path, m2[k], q, c)
             /\ chan'[p][c][k] = Sent(path, log2, q, m2[k])
  <2>1. k + 1 \in 1 .. l /\ 1 \in 1 .. l /\ 1 < k + 1
    BY <1>4
  <2>2. m[1] < m[k + 1] /\ m2[k] = m[k + 1] /\ m[k + 1] \in Nat
    BY <1>4, <1>5, <2>1
  <2>3. Sent(path, log2, q, m[k + 1]) = Sent(path, log, q, m[k + 1])
    BY <1>2, <1>3, <1>5, <2>1, <2>2
  <2>4. QED
    BY <1>2, <1>5, <1>6, <2>1, <2>2, <2>3
<1>9. ASSUME NEW i \in Nat, at2[p] <= i, i < at2[q], IsSend(path, i, q, c)
      PROVE  \E k \in 1 .. l - 1 : m2[k] = i
  <2>1. at[p] <= i /\ i < at[q] /\ i # at[p]
    BY <1>2, <1>9
  <2>2. PICK k \in 1 .. l : m[k] = i
    BY <1>5, <1>9, <2>1
  <2>3. k # 1
    BY <2>1, <2>2
  <2>4. k - 1 \in 1 .. l - 1 /\ m2[k - 1] = i
    <3>1. k - 1 \in 1 .. l - 1 /\ k - 1 + 1 = k
      BY <1>4, <2>2, <2>3
    <3>2. QED
      BY <1>4, <2>2, <3>1
  <2>5. QED
    BY <2>4
<1>10. ListedOn(path, at2, log2, m2, p, c)'
  BY <1>4, <1>6, <1>7, <1>8, <1>9 DEF ListedOn, q
<1>11. QED
  BY <1>4, <1>10 DEF at2, log2, m2

\* The messages on their way stay listed.
LEMMA ListedKept ==
  ASSUME NEW path \in Paths, NEW n \in Nat, NEW at \in [Ranks -> Nat],
         NEW log \in Logs, NEW places \in Places, Basics,
         Walks(path, n, at), Listed(path, at, log, places), Behind(path, at),
         \A r \in Ranks : log[r][at[r]].mine = mine[r],
         NEW p \in Ranks, Moves(p), at[p] < n, NEW new \in LogEntries
  PROVE  \E places2 \in Places :
           Listed(path, Advance(at, p), Recorded(log, p, at[p] + 1, new), places2)'
<1> DEFINE i == at[p]
           q == Peer(p)
           h == StepAt(path, i, p)
           g == StepAt(path, i, q)
           at2 == Advance(at, p)
           log2 == Recorded(log, p, i + 1, new)
<1>1. /\ h = Head(todo[p]) /\ h \in Steps /\ g \in Steps /\ StepsFit(h, g)
      /\ todo[p] # <<>>
  BY WalkOn
<1>2. /\ q \in Ranks /\ q # p /\ Peer(q) = p /\ \A r \in Ranks : r = p \/ r = q
  BY PeerFacts DEF Peer, Ranks
<1>3. \A r \in Ranks, c \in Channels :
        /\ ListedOn(path, at, log, places[r][c], r, c)
        /\ places[r][c] \in Seq(Nat) /\ chan[r][c] \in Seq(Contents)
  BY DEF Listed, Places, Basics
<1>4. ASSUME NEW r \in Ranks, NEW c \in Channels, ~IsSend(path, i, Peer(r), c),
             chan'[r][c] = chan[r][c]
      PROVE  ListedOn(path, at2, log2, places[r][c], r, c)'
  BY <1>3, <1>4, ListedStays
<1> HIDE DEF h, g, q, at2, log2
<1>5. CASE h.do = "send"
  <2> DEFINE ch == h.ch
             places2 == [places EXCEPT ![q][ch] = Append(@, i)]
             m == Sent(path, log, p, i)
  <2>1. SendStep(p) /\ ch \in Channels /\ h.tag \in Tags /\ h.num \in Int
    BY <1>1, <1>5, MoveKinds, StepFacts
  <2>2. m = [tag |-> h.tag, num |-> h.num,
             digest |-> IF h.tag = "digest" THEN mine[p] ELSE <<>>]
    BY DEF Sent, h
  <2>3. m \in Contents
    <3>1. <<>> \in Seq(Entries) /\ mine[p] \in Seq(Entries)
      BY DEF Basics
    <3>2. QED
      BY <2>1, <2>2, <3>1 DEF Contents
  <2>4. chan' = [chan EXCEPT ![q][ch] = Append(@, m)]
    BY <1>1, <2>1, <2>2 DEF SendStep, q
  <2> HIDE DEF m
  <2>5. at[q] <= i
    <3>1. at[p] <= i /\ i < at[q] => h.do # "send"
      BY DEF Behind, h, q
    <3>2. at[q] \in Nat /\ i \in Nat
      BY <1>2
    <3>3. QED
      BY <1>5, <3>1, <3>2
  <2>6. g.do = "recv"
    BY <1>1, <1>5 DEF StepsFit, Messages
  <2>7. /\ chan'[q][ch] = Append(chan[q][ch], m)
        /\ \A r \in Ranks, c \in Channels :
             ~(r = q /\ c = ch) => chan'[r][c] = chan[r][c]
    BY <1>2, <2>1, <2>4 DEF Basics
  <2>8. /\ Append(places[q][ch], i) \in Seq(Nat)
        /\ ListedOn(path, at2, log2, Append(places[q][ch], i), q, ch)'
    <3>1. IsSend(path, i, p, ch)
      BY <1>5 DEF IsSend, h
    <3>2. QED
      BY <1>2, <1>3, <2>1, <2>3, <2>5, <2>7, <3>1, ListedSend DEF q, m, at2, log2
  <2>9. ASSUME NEW r \in Ranks, NEW c \in Channels, ~(r = q /\ c = ch)
        PROVE  ListedOn(path, at2, log2, places[r][c], r, c)'
    <3>1. ~IsSend(path, i, Peer(r), c)
      <4>1. CASE r = p
        BY <2>6, <4>1 DEF IsSend, g, q
      <4>2. CASE r = q
        BY <1>2, <2>9, <4>2 DEF IsSend, h
      <4>3. QED
        BY <1>2, <4>1, <4>2
    <3>2. QED
      BY <1>4, <2>7, <2>9, <3>1
  <2>10. /\ places2 \in Places /\ places2[q][ch] = Append(places[q][ch], i)
         /\ \A r \in Ranks, c \in Channels :
              ~(r = q /\ c = ch) => places2[r][c] = places[r][c]
    BY <1>2, <2>1, <2>8 DEF Places
  <2> HIDE DEF places2, ch
  <2>11. ASSUME NEW r \in Ranks, NEW c \in Channels
         PROVE  ListedOn(path, at2, log2, places2[r][c], r, c)'
    <3>1. CASE r = q /\ c = ch
      BY <2>8, <2>10, <3>1
    <3>2. CASE ~(r = q /\ c = ch)
      BY <2>9, <2>10, <3>2
    <3>3. QED
      BY <3>1, <3>2
  <2>12. QED
    BY <2>10, <2>11 DEF Listed, at2, log2
<1>6. CASE h.do = "recv"
  <2> DEFINE ch == h.ch
             places2 == [places EXCEPT ![p][ch] = Tail(@)]
  <2>1. RecvStep(p) /\ ch \in Channels
    BY <1>1, <1>6, MoveKinds, StepFacts
  <2>2. /\ At(p, "recv") /\ chan[p][Head(todo[p]).ch] # <<>>
        /\ chan' = [chan EXCEPT ![p][ch] = Tail(@)]
    BY <1>1, <2>1 DEF RecvStep
  <2>3. Len(places[p][ch]) >= 1 /\ places[p][ch][1] = i /\ IsSend(path, i, q, ch)
    BY <2>2, FirstMessage DEF h, q
  <2>4. /\ chan'[p][ch] = Tail(chan[p][ch])
        /\ \A r \in Ranks, c \in Channels :
             ~(r = p /\ c = ch) => chan'[r][c] = chan[r][c]
    BY <1>2, <2>1, <2>2 DEF Basics
  <2>5. /\ Tail(places[p][ch]) \in Seq(Nat)
        /\ ListedOn(path, at2, log2, Tail(places[p][ch]), p, ch)'
    BY <1>3, <2>1, <2>3, <2>4, ListedRecv DEF at2, log2
  <2>6. ASSUME NEW r \in Ranks, NEW c \in Channels, ~(r = p /\ c = ch)
        PROVE  ListedOn(path, at2, log2, places[r][c], r, c)'
    <3>1. ~IsSend(path, i, Peer(r), c)
      <4>1. CASE r = p
        BY <2>3, <2>6, <4>1 DEF IsSend, q
      <4>2. CASE r = q
        BY <1>2, <1>6, <4>2 DEF IsSend, h
      <4>3. QED
        BY <1>2, <4>1, <4>2
    <3>2. QED
      BY <1>4, <2>4, <2>6, <3>1
  <2>7. /\ places2 \in Places /\ places2[p][ch] = Tail(places[p][ch])
        /\ \A r \in Ranks, c \in Channels :
             ~(r = p /\ c = ch) => places2[r][c] = places[r][c]
    BY <1>2, <2>1, <2>5 DEF Places
  <2> HIDE DEF places2, ch
  <2>8. ASSUME NEW r \in Ranks, NEW c \in Channels
        PROVE  ListedOn(path, at2, log2, places2[r][c], r, c)'
    <3>1. CASE r = p /\ c = ch
      BY <2>5, <2>7, <3>1
    <3>2. CASE ~(r = p /\ c = ch)
      BY <2>6, <2>7, <3>2
    <3>3. QED
      BY <3>1, <3>2
  <2>9. QED
    BY <2>7, <2>8 DEF Listed, at2, log2
<1>7. CASE h.do \notin Messages
  <2>1. chan' = chan
    BY <1>1, <1>7, MoveKinds
  <2>2. g.do # "send" /\ h.do # "send"
    BY <1>1, <1>7 DEF StepsFit, Messages
  <2>3. ASSUME NEW r \in Ranks, NEW c \in Channels
        PROVE  ListedOn(path, at2, log2, places[r][c], r, c)'
    <3>1. ~IsSend(path, i, Peer(r), c)
      <4>1. CASE r = p
        BY <2>2, <4>1 DEF IsSend, g, q
      <4>2. CASE r = q
        BY <1>2, <2>2, <4>2 DEF IsSend, h
      <4>3. QED
        BY <1>2, <4>1, <4>2
    <3>2. QED
      BY <1>4, <2>1, <3>1
  <2>4. QED
    BY <2>3 DEF Listed, at2, log2
<1>8. QED
  BY <1>5, <1>6, <1>7 DEF Messages

-----------------------------------------------------------------------------
\* What the ranks have seen on the way.

\* What a comparison at position i compares, and what it makes of the log.
SameAt(log, i) == log[0][i - 2].mine = log[1][i - 2].mine
Verdict(path, log, p, i) ==
  IF StepAt(path, i, p).do = "compare"
    THEN /\ log[p][i + 1].passed = IF SameAt(log, i) /\ ~log[p][i].failed
                                     THEN log[p][i].passed + 1 ELSE log[p][i].passed
         /\ log[p][i + 1].failed <=> log[p][i].failed \/ ~SameAt(log, i)
    ELSE /\ log[p][i + 1].passed = log[p][i].passed
         /\ log[p][i + 1].failed <=> log[p][i].failed

\* Position i is behind rank p ...
Past(path, at, log, p, i) ==
  /\ StepAt(path, i, p).do \in Messages => log[p][i + 1].mine = log[p][i].mine
  /\ StepAt(path, i, p).do = "compare" => i >= 2 /\ i - 2 <= at[Peer(p)]
  /\ Verdict(path, log, p, i)

\* ... and what it was there: its digest was of the path's openings, it has
\* passed no less since, and nothing more if it had failed.
Before(path, log, p, i) ==
  /\ Of(log[p][i].mine) = path[i][p].mine
  /\ log[p][i].passed <= passed[p]
  /\ log[p][i].failed => failed[p] /\ passed[p] = log[p][i].passed

Logged(path, at, log) ==
  \A p \in Ranks :
    /\ log[p][at[p]] = Now(p)
    /\ \A i \in Nat : i <= at[p] => Before(path, log, p, i)
    /\ \A i \in Nat : i < at[p] => Past(path, at, log, p, i)

\* The ranks agree on the verdicts at every position both have come to.
Agreed(at, log) ==
  \A i \in Nat :
    i <= at[0] /\ i <= at[1] =>
      /\ log[0][i].passed = log[1][i].passed
      /\ log[0][i].failed <=> log[1][i].failed

\* The digest last received is the one its peer has sent.
Received(path, at, log) ==
  \A p \in Ranks :
    LET i == at[p]
        q == Peer(p)
    IN  /\ i >= 1 /\ IsDigest(StepAt(path, i - 1, p), "recv") =>
             i <= at[q] /\ theirs[p] = log[q][i - 1].mine
        /\ /\ i >= 2 /\ IsDigest(StepAt(path, i - 2, p), "recv")
           /\ StepAt(path, i - 1, p).do = "send"
           => i - 1 <= at[q] /\ theirs[p] = log[q][i - 2].mine

\* A comparison compares what the ranks' digests were before they sent them.
LEMMA ComparesLog ==
  ASSUME NEW path \in Paths, NEW n \in Nat, NEW at \in [Ranks -> Nat],
         NEW log \in Logs, Basics, Walks(path, n, at), Logged(path, at, log),
         Received(path, at, log), NEW p \in Ranks, At(p, "compare")
  PROVE  /\ at[p] >= 2 /\ at[p] - 2 <= at[Peer(p)] /\ at[p] - 2 \in Nat
         /\ Same(p) <=> SameAt(log, at[p])
<1> DEFINE i == at[p]
           q == Peer(p)
           c == path[i][p]
<1>1. /\ q \in Ranks /\ i \in 0 .. n /\ at[q] \in 0 .. n /\ i \in Nat
      /\ IsPath(path, n) /\ Matches(p, c) /\ c \in Controls
  BY PeerFacts DEF Walks, Paths
<1>2. c.todo # <<>> /\ Head(c.todo).do = "compare"
  BY <1>1, AtFacts
<1>3. Len(c.todo) >= 1 /\ c.todo[1].do = "compare" /\ Len(c.todo) \in Nat
  BY <1>1, <1>2, HeadTail DEF Controls
<1>4. Follows(path, p, i)
  BY <1>1 DEF IsPath
<1>5. Preceded(path, p, i, c.todo, 1)
  BY <1>3, <1>4 DEF Follows
<1>6. /\ i >= 2 /\ SecondDigest(p, StepAt(path, i - 1, p))
      /\ FirstDigest(p, StepAt(path, i - 2, p))
  <2>1. i + 1 - 3 = i - 2 /\ 1 < 2 /\ 1 < 3
    BY <1>1
  <2>2. /\ i + 1 >= 3 /\ SecondDigest(p, StepAt(path, i - 1, p))
        /\ FirstDigest(p, StepAt(path, i + 1 - 3, p))
    BY <1>5, <2>1 DEF Preceded
  <2>3. QED
    BY <1>1, <2>1, <2>2
<1> HIDE DEF c
<1>7. mine[p] = log[p][i - 2].mine
  <2>1. /\ log[p][i] = Now(p)
        /\ Past(path, at, log, p, i - 1) /\ Past(path, at, log, p, i - 2)
    BY <1>1, <1>6 DEF Logged
  <2>2. /\ StepAt(path, i - 1, p).do \in Messages
        /\ StepAt(path, i - 2, p).do \in Messages
    BY <1>6 DEF SecondDigest, FirstDigest, IsDigest, Messages
  <2>3. i - 1 + 1 = i /\ i - 2 + 1 = i - 1
    BY <1>1
  <2>4. log[p][i].mine = log[p][i - 1].mine /\ log[p][i - 1].mine = log[p][i - 2].mine
    BY <2>1, <2>2, <2>3 DEF Past
  <2>5. QED
    BY <2>1, <2>4 DEF Now
<1>8. i - 2 <= at[q] /\ theirs[p] = log[q][i - 2].mine
  <2>1. CASE p = 0
    <3>1. /\ IsDigest(StepAt(path, i - 1, p), "recv")
          /\ IsDigest(StepAt(path, i - 2, p), "send")
      BY <1>6, <2>1 DEF SecondDigest, FirstDigest
    <3>2. i <= at[q] /\ theirs[p] = log[q][i - 1].mine
      BY <1>1, <1>6, <3>1 DEF Received
    <3>3. StepAt(path, i - 2, q).do \in Messages
      <4>1. i - 2 \in 0 .. n - 1 /\ i - 2 \in 0 .. n
        BY <1>1, <1>6
      <4>2. path[i - 2][p].todo # <<>>
        BY <1>1, <4>1 DEF IsPath
      <4>3. StepsFit(StepAt(path, i - 2, p), StepAt(path, i - 2, q))
        BY <1>1, <4>1, <4>2, PathFits
      <4>4. QED
        BY <3>1, <4>3 DEF StepsFit, IsDigest, Messages
    <3>4. Past(path, at, log, q, i - 2)
      BY <1>1, <1>6, <3>2 DEF Logged
    <3>5. i - 2 + 1 = i - 1
      BY <1>1
    <3>6. QED
      BY <1>1, <1>6, <3>2, <3>3, <3>4, <3>5 DEF Past
  <2>2. CASE p # 0
    <3>1. /\ IsDigest(StepAt(path, i - 2, p), "recv")
          /\ StepAt(path, i - 1, p).do = "send"
      BY <1>6, <2>2 DEF SecondDigest, FirstDigest, IsDigest
    <3>2. i - 1 <= at[q] /\ theirs[p] = log[q][i - 2].mine
      BY <1>1, <1>6, <3>1 DEF Received
    <3>3. QED
      BY <1>1, <1>6, <3>2
  <2>3. QED
    BY <2>1, <2>2
<1>9. Same(p) <=> SameAt(log, i)
  BY <1>7, <1>8 DEF Same, SameAt, Ranks, Peer, q
<1>10. QED
  BY <1>1, <1>6, <1>8, <1>9

\* The log of a rank that goes on.
LEMMA LoggedKept ==
  ASSUME NEW path \in Paths, NEW n \in Nat, NEW at \in [Ranks -> Nat],
         NEW log \in Logs, Basics, Walks(path, n, at), Logged(path, at, log),
         Received(path, at, log), NEW p \in Ranks, Moves(p), at[p] < n,
         NEW new \in LogEntries, new = Now(p)'
  PROVE  Logged(path, Advance(at, p), Recorded(log, p, at[p] + 1, new))'
<1> DEFINE i == at[p]
           q == Peer(p)
           h == StepAt(path, i, p)
           at2 == Advance(at, p)
           log2 == Recorded(log, p, i + 1, new)
<1>1. /\ h = Head(todo[p]) /\ todo[p] # <<>> /\ Basics'
      /\ Walks(path, n, at2)' /\ Took(p, path[i][p])
  BY WalkOn
<1>2. /\ q \in Ranks /\ q # p /\ Peer(q) = p /\ \A r \in Ranks : r = p \/ r = q
      /\ i \in Nat /\ at[q] \in Nat /\ at2[p] = i + 1 /\ at2[q] = at[q]
  BY PeerFacts DEF Advance, Peer, Ranks
<1>3. /\ log2[p][i + 1] = new
      /\ \A r \in Ranks, j \in Nat : j <= at[r] => log2[r][j] = log[r][j]
  BY SentKept
<1>4. /\ new.mine = mine'[p] /\ new.passed = passed'[p] /\ new.failed = failed'[p]
      /\ log[p][i] = Now(p) /\ log[q][at[q]] = Now(q)
  BY <1>2 DEF Now, Logged
<1>5. \A r \in Ranks, j \in Nat :
        /\ j <= at[r] => Before(path, log, r, j)
        /\ j < at[r] => Past(path, at, log, r, j)
  BY DEF Logged
<1>6. At(p, "compare") <=> h.do = "compare"
  BY <1>1 DEF At
<1>7. /\ h.do = "compare" =>
           /\ i >= 2 /\ i - 2 <= at[q] /\ i - 2 \in Nat
           /\ Same(p) <=> SameAt(log, i)
  BY <1>6, ComparesLog
<1>8. /\ passed'[p] = IF h.do = "compare" /\ Same(p) /\ ~failed[p]
                        THEN passed[p] + 1 ELSE passed[p]
      /\ failed'[p] <=> failed[p] \/ (h.do = "compare" /\ ~Same(p))
      /\ passed'[q] = passed[q] /\ failed'[q] = failed[q]
  <2>1. passed \in [Ranks -> Nat] /\ failed \in [Ranks -> BOOLEAN]
    BY DEF Basics
  <2>2. CASE h.do = "compare"
    <3>1. /\ passed' = [passed EXCEPT ![p] = IF Same(p) /\ ~failed[p] THEN @ + 1 ELSE @]
          /\ failed' = [failed EXCEPT ![p] = failed[p] \/ ~Same(p)]
      BY <1>1, <2>2, MoveKinds DEF Compare
    <3>2. QED
      BY <1>2, <2>1, <2>2, <3>1
  <2>3. CASE h.do # "compare"
    <3>1. passed' = passed /\ failed' = failed
      BY <1>1, <2>3, MoveKinds
    <3>2. QED
      BY <2>3, <3>1
  <2>4. QED
    BY <2>2, <2>3
<1>9. h.do \in Messages => mine'[p] = mine[p]
  BY <1>1, MoveKinds DEF Messages
<1>10. mine'[q] = mine[q]
  BY <1>1, <1>2 DEF Took, Basics
<1>11. passed[p] \in Nat /\ passed[q] \in Nat
  BY <1>2 DEF Basics
<1>12. Of(mine'[p]) = path[i + 1][p].mine
  BY <1>1, <1>2 DEF Walks, Matches
<1>13. Walks(path, n, at2)' => TRUE
  OBVIOUS
<1> HIDE DEF h, q, at2, log2, i
<1>14. ASSUME NEW j \in Nat, j >= 2, j - 2 <= i, j - 2 <= at[q]
       PROVE  SameAt(log2, j) <=> SameAt(log, j)
  <2>1. j - 2 \in Nat
    BY <1>14
  <2>2. \A r \in Ranks : log2[r][j - 2] = log[r][j - 2]
    BY <1>2, <1>3, <1>14, <2>1 DEF i
  <2>3. QED
    BY <2>2 DEF SameAt, Ranks
<1>15. ASSUME NEW r \in Ranks, NEW j \in Nat, j <= at[r]
       PROVE  Before(path, log2, r, j)'
  <2>1. Before(path, log, r, j) /\ log2[r][j] = log[r][j]
    BY <1>3, <1>5, <1>15
  <2>2. log[r][j].passed \in Nat
    BY DEF Logs, LogEntries
  <2>3. /\ passed[r] <= passed'[r] /\ passed[r] \in Nat /\ passed'[r] \in Nat
        /\ failed[r] => failed'[r] /\ passed'[r] = passed[r]
    BY <1>2, <1>8, <1>11
  <2>4. QED
    BY <2>1, <2>2, <2>3 DEF Before
<1>16. Before(path, log2, p, i + 1)'
  BY <1>2, <1>3, <1>4, <1>8, <1>11, <1>12 DEF Before
<1>17. ASSUME NEW r \in Ranks, NEW j \in Nat, j < at[r]
       PROVE  Past(path, at2, log2, r, j)
  <2>1. /\ Past(path, at, log, r, j) /\ log2[r][j] = log[r][j]
        /\ log2[r][j + 1] = log[r][j + 1]
    <3>1. at[r] \in Nat /\ j + 1 \in Nat /\ j <= at[r] /\ j + 1 <= at[r]
      BY <1>2, <1>17
    <3>2. QED
      BY <1>3, <1>5, <1>17, <3>1
  <2>2. at[Peer(r)] <= at2[Peer(r)] /\ Peer(r) \in Ranks
        /\ at[Peer(r)] \in Nat /\ at2[Peer(r)] \in Nat
    <3>1. CASE r = p
      BY <1>2, <3>1 DEF q
    <3>2. CASE r = q
      BY <1>2, <3>2 DEF i
    <3>3. QED
      BY <1>2, <3>1, <3>2
  <2>3. at[r] <= i \/ at[r] <= at[q]
    BY <1>2 DEF i
  <2>4. StepAt(path, j, r).do = "compare" =>
          j >= 2 /\ j - 2 <= at[Peer(r)] /\ j - 2 <= at2[Peer(r)]
    BY <2>1, <2>2 DEF Past
  <2>5. StepAt(path, j, r).do = "compare" => j - 2 <= i /\ j - 2 <= at[q]
    <3>1. CASE r = p
      BY <1>2, <1>17, <2>4, <3>1 DEF i, q
    <3>2. CASE r = q
      BY <1>2, <1>17, <2>4, <3>2 DEF i
    <3>3. QED
      BY <1>2, <3>1, <3>2
  <2>6. StepAt(path, j, r).do = "compare" => (SameAt(log2, j) <=> SameAt(log, j))
    BY <1>14, <2>4, <2>5
  <2>7. QED
    BY <2>1, <2>4, <2>6 DEF Past, Verdict
<1>18. Past(path, at2, log2, p, i)
  <2>1. log2[p][i] = log[p][i] /\ log2[p][i + 1] = new
    BY <1>2, <1>3 DEF i
  <2>2. h.do \in Messages => log2[p][i + 1].mine = log2[p][i].mine
    BY <1>4, <1>9, <2>1 DEF Now
  <2>3. h.do = "compare" => i >= 2 /\ i - 2 <= at2[q]
    BY <1>2, <1>7
  <2>4. h.do = "compare" => (SameAt(log2, i) <=> Same(p))
    BY <1>2, <1>7, <1>14
  <2>5. log[p][i].passed = passed[p] /\ (log[p][i].failed <=> failed[p])
    BY <1>4 DEF Now
  <2>6. Verdict(path, log2, p, i)
    <3>1. CASE h.do = "compare"
      BY <1>4, <1>8, <2>1, <2>4, <2>5, <3>1 DEF Verdict, h
    <3>2. CASE h.do # "compare"
      BY <1>4, <1>8, <2>1, <2>5, <3>2 DEF Verdict, h
    <3>3. QED
      BY <3>1, <3>2
  <2>7. QED
    BY <2>2, <2>3, <2>6 DEF Past, h, q
<1>19. log2[p][at2[p]] = Now(p)' /\ log2[q][at2[q]] = Now(q)'
  <2>1. log2[q][at[q]] = Now(q)
    BY <1>2, <1>3, <1>4
  <2>2. Now(q)' = Now(q)
    BY <1>8, <1>10 DEF Now
  <2>3. QED
    BY <1>2, <1>3, <2>1, <2>2 DEF i
<1>20. ASSUME NEW r \in Ranks
       PROVE  /\ log2[r][at2[r]] = Now(r)'
              /\ \A j \in Nat : j <= at2[r] => Before(path, log2, r, j)'
              /\ \A j \in Nat : j < at2[r] => Past(path, at2, log2, r, j)
  <2>1. CASE r = p
    <3>1. \A j \in Nat : j <= at2[p] => j <= at[p] \/ j = i + 1
      BY <1>2 DEF i
    <3>2. \A j \in Nat : j < at2[p] => j < at[p] \/ j = i
      BY <1>2 DEF i
    <3>3. QED
      BY <1>15, <1>16, <1>17, <1>18, <1>19, <2>1, <3>1, <3>2
  <2>2. CASE r = q
    BY <1>2, <1>15, <1>17, <1>19, <2>2
  <2>3. QED
    BY <1>2, <2>1, <2>2
<1>21. QED
  BY <1>20 DEF Logged, at2, log2, i

\* The digest received by a rank that goes on.
LEMMA ReceivedKept ==
  ASSUME NEW path \in Paths, NEW n \in Nat, NEW at \in [Ranks -> Nat],
         NEW log \in Logs, NEW places \in Places, Basics,
         Walks(path, n, at), Listed(path, at, log, places),
         Received(path, at, log), NEW p \in Ranks, Moves(p), at[p] < n,
         NEW new \in LogEntries
  PROVE  Received(path, Advance(at, p), Recorded(log, p, at[p] + 1, new))'
<1> DEFINE i == at[p]
           q == Peer(p)
           h == StepAt(path, i, p)
           at2 == Advance(at, p)
           log2 == Recorded(log, p, i + 1, new)
<1>1. h = Head(todo[p]) /\ todo[p] # <<>>
  BY WalkOn
<1>2. /\ q \in Ranks /\ q # p /\ Peer(q) = p /\ \A r \in Ranks : r = p \/ r = q
      /\ i \in Nat /\ at[q] \in Nat /\ at2[p] = i + 1 /\ at2[q] = at[q]
  BY PeerFacts DEF Advance, Peer, Ranks
<1>3. \A r \in Ranks, j \in Nat : j <= at[r] => log2[r][j] = log[r][j]
  BY SentKept
<1>4. theirs'[q] = theirs[q]
  <2>1. CASE h.do \in {"recv", "compare"}
    BY <1>1, <1>2, <2>1, MoveKinds DEF RecvStep, Compare, Basics
  <2>2. CASE h.do \notin {"recv", "compare"}
    BY <1>1, <2>2, MoveKinds
  <2>3. QED
    BY <2>1, <2>2
<1>5. /\ i >= 1 /\ IsDigest(StepAt(path, i - 1, p), "recv") =>
           i <= at[q] /\ theirs[p] = log[q][i - 1].mine
      /\ at[q] >= 1 /\ IsDigest(StepAt(path, at[q] - 1, q), "recv") =>
           at[q] <= i /\ theirs[q] = log[p][at[q] - 1].mine
      /\ /\ at[q] >= 2 /\ IsDigest(StepAt(path, at[q] - 2, q), "recv")
         /\ StepAt(path, at[q] - 1, q).do = "send"
         => at[q] - 1 <= i /\ theirs[q] = log[p][at[q] - 2].mine
  BY <1>2 DEF Received
<1>6. IsDigest(h, "recv") => i + 1 <= at[q] /\ theirs'[p] = log[q][i].mine
  <2>1. SUFFICES ASSUME h.do = "recv", h.tag = "digest"
                 PROVE  i + 1 <= at[q] /\ theirs'[p] = log[q][i].mine
    BY DEF IsDigest
  <2>2. RecvStep(p)
    BY <1>1, <2>1, MoveKinds
  <2>3. At(p, "recv") /\ chan[p][h.ch] # <<>> /\ theirs'[p] = Head(chan[p][h.ch]).digest
    BY <1>1, <2>2 DEF RecvStep, Basics
  <2>4. /\ i < at[q] /\ StepAt(path, i, q).tag = "digest"
        /\ Head(chan[p][h.ch]) = Sent(path, log, q, i)
    BY <1>1, <2>1, <2>3, FirstMessage
  <2>5. Sent(path, log, q, i).digest = log[q][i].mine
    BY <2>4 DEF Sent
  <2>6. QED
    BY <1>2, <2>3, <2>4, <2>5
<1>7. h.do = "send" => theirs' = theirs
  BY <1>1, MoveKinds
<1> HIDE DEF h, q, at2, log2, i
<1>8. /\ i + 1 - 1 = i /\ i + 1 - 2 = i - 1
  BY <1>2
<1>9. /\ IsDigest(StepAt(path, i, p), "recv") =>
           i + 1 <= at2[q] /\ theirs'[p] = log2[q][i].mine
      /\ i + 1 >= 2 /\ IsDigest(StepAt(path, i - 1, p), "recv")
         /\ StepAt(path, i, p).do = "send"
         => i <= at2[q] /\ theirs'[p] = log2[q][i - 1].mine
  <2>1. CASE IsDigest(h, "recv")
    <3>1. log2[q][i] = log[q][i]
      BY <1>2, <1>3, <1>6, <2>1
    <3>2. h.do # "send"
      BY <2>1 DEF IsDigest
    <3>3. QED
      BY <1>2, <1>6, <2>1, <3>1, <3>2 DEF h
  <2>2. CASE ~IsDigest(h, "recv")
    <3>1. SUFFICES ASSUME i + 1 >= 2, IsDigest(StepAt(path, i - 1, p), "recv"),
                          h.do = "send"
                   PROVE  i <= at2[q] /\ theirs'[p] = log2[q][i - 1].mine
      BY <2>2 DEF h
    <3>2. i >= 1 /\ i - 1 \in Nat
      BY <1>2, <3>1
    <3>3. i <= at[q] /\ theirs[p] = log[q][i - 1].mine
      BY <1>5, <3>1, <3>2
    <3>4. log2[q][i - 1] = log[q][i - 1]
      BY <1>2, <1>3, <3>2, <3>3
    <3>5. QED
      BY <1>2, <1>7, <3>1, <3>3, <3>4
  <2>3. QED
    BY <2>1, <2>2
<1>10. /\ at[q] >= 1 /\ IsDigest(StepAt(path, at[q] - 1, q), "recv") =>
            at[q] <= at2[p] /\ theirs'[q] = log2[p][at[q] - 1].mine
       /\ /\ at[q] >= 2 /\ IsDigest(StepAt(path, at[q] - 2, q), "recv")
          /\ StepAt(path, at[q] - 1, q).do = "send"
          => at[q] - 1 <= at2[p] /\ theirs'[q] = log2[p][at[q] - 2].mine
  <2>1. \A j \in Nat : j <= i => log2[p][j] = log[p][j]
    BY <1>3 DEF i
  <2>2. at[q] >= 1 => at[q] - 1 \in Nat
    BY <1>2
  <2>3. at[q] >= 2 => at[q] - 2 \in Nat
    BY <1>2
  <2>4. /\ at[q] <= i => at[q] <= at2[p] /\ at[q] - 1 <= i
        /\ at[q] - 1 <= i => at[q] - 1 <= at2[p] /\ at[q] - 2 <= i
    BY <1>2
  <2>5. QED
    BY <1>4, <1>5, <2>1, <2>2, <2>3, <2>4
<1>11. QED
  <2>1. ASSUME NEW r \in Ranks
        PROVE  /\ /\ at2[r] >= 1 /\ IsDigest(StepAt(path, at2[r] - 1, r), "recv")
                  => at2[r] <= at2[Peer(r)]
                     /\ theirs'[r] = log2[Peer(r)][at2[r] - 1].mine
               /\ /\ at2[r] >= 2 /\ IsDigest(StepAt(path, at2[r] - 2, r), "recv")
                  /\ StepAt(path, at2[r] - 1, r).do = "send"
                  => at2[r] - 1 <= at2[Peer(r)]
                     /\ theirs'[r] = log2[Peer(r)][at2[r] - 2].mine
    <3>1. CASE r = p
      BY <1>2, <1>8, <1>9, <3>1 DEF q
    <3>2. CASE r = q
      BY <1>2, <1>10, <3>2
    <3>3. QED
      BY <1>2, <3>1, <3>2
  <2>2. QED
    BY <2>1 DEF Received, at2, log2, i

\* The verdicts agree when a rank goes on.
LEMMA AgreedKept ==
  ASSUME NEW path \in Paths, NEW n \in Nat, NEW at \in [Ranks -> Nat],
         NEW log \in Logs, Basics, Walks(path, n, at), Logged(path, at, log),
         Agreed(at, log), Received(path, at, log),
         NEW p \in Ranks, Moves(p), at[p] < n,
         NEW new \in LogEntries, new = Now(p)'
  PROVE  Agreed(Advance(at, p), Recorded(log, p, at[p] + 1, new))
<1> DEFINE i == at[p]
           q == Peer(p)
           at2 == Advance(at, p)
           log2 == Recorded(log, p, i + 1, new)
           h == StepAt(path, i, p)
           g == StepAt(path, i, q)
<1>1. /\ q \in Ranks /\ q # p /\ Peer(q) = p /\ \A r \in Ranks : r = p \/ r = q
      /\ i \in Nat /\ at[q] \in Nat /\ at2[p] = i + 1 /\ at2[q] = at[q]
  BY PeerFacts DEF Advance, Peer, Ranks
<1>2. /\ log2 \in Logs
      /\ \A r \in Ranks, j \in Nat : j <= at[r] => log2[r][j] = log[r][j]
  BY SentKept
<1>3. \A r \in Ranks, j \in Nat : j < at2[r] => Past(path, at2, log2, r, j)
  <2>1. Logged(path, at2, log2)'
    BY LoggedKept
  <2>2. QED
    BY <2>1 DEF Logged
<1>4. StepsFit(h, g)
  BY WalkOn
<1>5. h.do = "compare" <=> g.do = "compare"
  BY <1>4 DEF StepsFit, Messages
<1>6. \A j \in Nat : j <= i /\ j <= at[q] =>
        log[p][j].passed = log[q][j].passed /\ (log[p][j].failed <=> log[q][j].failed)
  <2>1. (p = 0 /\ q = 1) \/ (p = 1 /\ q = 0)
    BY PeerFacts DEF Ranks
  <2>2. QED
    BY <2>1 DEF Agreed
<1> HIDE DEF h, g, q, at2, log2, i
<1>7. ASSUME NEW j \in Nat, j <= at2[p], j <= at2[q]
      PROVE  /\ log2[p][j].passed = log2[q][j].passed
             /\ log2[p][j].failed <=> log2[q][j].failed
  <2>1. CASE j <= i
    <3>1. log2[p][j] = log[p][j] /\ log2[q][j] = log[q][j]
      BY <1>1, <1>2, <1>7, <2>1 DEF i
    <3>2. QED
      BY <1>1, <1>6, <1>7, <2>1, <3>1
  <2>2. CASE j = i + 1
    <3>1. i < at2[p] /\ i < at2[q] /\ i <= at[q]
      BY <1>1, <1>7, <2>2
    <3>2. Past(path, at2, log2, p, i) /\ Past(path, at2, log2, q, i)
      BY <1>1, <1>3, <3>1
    <3>3. Verdict(path, log2, p, i) /\ Verdict(path, log2, q, i)
      BY <3>2 DEF Past
    <3>4. log2[p][i] = log[p][i] /\ log2[q][i] = log[q][i]
      BY <1>1, <1>2, <3>1 DEF i
    <3>5. /\ log2[p][i].passed = log2[q][i].passed
          /\ log2[p][i].failed <=> log2[q][i].failed
      BY <1>1, <1>6, <3>1, <3>4
    <3>6. CASE h.do = "compare"
      BY <1>5, <2>2, <3>3, <3>5, <3>6 DEF Verdict, h, g
    <3>7. CASE h.do # "compare"
      BY <1>5, <2>2, <3>3, <3>5, <3>7 DEF Verdict, h, g
    <3>8. QED
      BY <3>6, <3>7
  <2>3. QED
    BY <1>1, <1>7, <2>1, <2>2
<1>8. (p = 0 /\ q = 1) \/ (p = 1 /\ q = 0)
  BY PeerFacts DEF Ranks, q
<1>9. QED
  BY <1>7, <1>8 DEF Agreed, at2, log2, i

-----------------------------------------------------------------------------
\* What fits stays so, and checks of what fits pass.

\* Entries of macs that all fit.
Sound(entries) == \A k \in 1 .. Len(entries) : entries[k].by = Nobody

\* While no wrong mac is entered no entry is of one, and no check has failed.
Clean(at, log) ==
  wrong = Nobody =>
    \A p \in Ranks :
      /\ ~failed[p]
      /\ \A b \in Buffers : Sound(buf[p][b])
      /\ \A i \in Nat : i <= at[p] => Sound(log[p][i].mine)

\* Entries of the same openings that all fit are the same.
LEMMA SoundEqual ==
  ASSUME NEW s \in Seq(Entries), NEW t \in Seq(Entries), Sound(s), Sound(t),
         Of(s) = Of(t)
  PROVE  s = t
<1>1. /\ Len(s) = Len(t) /\ Len(s) \in Nat
      /\ \A k \in 1 .. Len(s) : s[k].of = t[k].of
  BY OfFacts
<1>2. ASSUME NEW k \in 1 .. Len(s)
      PROVE  s[k] = t[k]
  <2>1. s[k] \in Entries /\ t[k] \in Entries
    BY <1>1
  <2>2. s[k].by = t[k].by
    BY <1>1 DEF Sound
  <2>3. \A e \in Entries : e = [of |-> e.of, by |-> e.by]
    BY DEF Entries
  <2>4. s[k].of = t[k].of
    BY <1>1
  <2>5. QED
    BY <2>1, <2>2, <2>3, <2>4
<1>3. QED
  BY <1>1, <1>2

\* What a step enters while no mac is wrong.
LEMMA SoundBuffers ==
  ASSUME Basics, NEW p \in Ranks, NEW h \in Steps, h = Head(todo[p]), todo[p] # <<>>,
         Moves(p), \A b \in Buffers : Sound(buf[p][b]), Sound(mine[p]), wrong' = Nobody
  PROVE  (\A b \in Buffers : Sound(buf'[p][b])) /\ Sound(mine'[p])
<1>1. /\ \A s \in Seq(Entries), e \in Entries :
           Sound(s) /\ e.by = Nobody => Sound(Append(s, e))
      /\ Sound(<<>>)
  <2>1. Sound(<<>>)
    BY DEF Sound
  <2>2. ASSUME NEW s \in Seq(Entries), NEW e \in Entries, Sound(s), e.by = Nobody
        PROVE  Sound(Append(s, e))
    <3>1. /\ Len(Append(s, e)) = Len(s) + 1 /\ Len(s) \in Nat
          /\ \A k \in 1 .. Len(s) : Append(s, e)[k] = s[k]
          /\ Append(s, e)[Len(s) + 1] = e
      OBVIOUS
    <3>2. ASSUME NEW k \in 1 .. Len(s) + 1
          PROVE  Append(s, e)[k].by = Nobody
      <4>1. CASE k \in 1 .. Len(s)
        BY <2>2, <3>1, <4>1 DEF Sound
      <4>2. CASE k = Len(s) + 1
        BY <2>2, <3>1, <4>2
      <4>3. QED
        BY <3>1, <4>1, <4>2
    <3>3. QED
      BY <3>1, <3>2 DEF Sound
  <2>3. QED
    BY <2>1, <2>2
<1>2. p # Nobody /\ buf[p] \in [Buffers -> Seq(Entries)] /\ DOMAIN buf = Ranks
      /\ DOMAIN mine = Ranks
  BY DEF Basics, Ranks, Nobody
<1>3. CASE h.do = "push"
  <2>1. h.tag \in Buffers /\ h.num \in Int
    BY <1>3, StepFacts DEF OnBuffers
  <2>2. PICK by \in {Nobody, p} :
          /\ buf' = [buf EXCEPT ![p][h.tag] = Append(buf[p][h.tag], Entry(h.num, by))]
          /\ wrong' = IF by = p THEN p ELSE wrong
    BY <1>3, MoveKinds DEF Push
  <2>3. by = Nobody
    BY <1>2, <2>2
  <2>4. Entry(h.num, by) \in Entries /\ Entry(h.num, by).by = Nobody
    BY <2>1, <2>3 DEF Entry, Entries
  <2>5. Sound(Append(buf[p][h.tag], Entry(h.num, by)))
    BY <1>1, <1>2, <2>1, <2>4
  <2>6. \A b \in Buffers :
          buf'[p][b] = IF b = h.tag THEN Append(buf[p][h.tag], Entry(h.num, by))
                       ELSE buf[p][b]
    BY <1>2, <2>1, <2>2
  <2>7. mine' = mine
    BY <1>3, MoveKinds
  <2>8. QED
    BY <2>5, <2>6, <2>7
<1>4. CASE h.do = "combine"
  <2> DEFINE line == buf[p]["line"]
             by == IF \E i \in DOMAIN line : line[i].by = p THEN p ELSE Nobody
             delay == Append(buf[p]["delay"], Entry(Len(line), by))
  <2>1. buf' = [buf EXCEPT ![p]["line"] = <<>>, ![p]["delay"] = delay]
    BY <1>4, MoveKinds DEF Combine
  <2>2. "line" \in Buffers /\ "delay" \in Buffers
    BY DEF Buffers
  <2>3. line \in Seq(Entries) /\ buf[p]["delay"] \in Seq(Entries)
    BY <1>2, <2>2
  <2>4. DOMAIN line = 1 .. Len(line) /\ Len(line) \in Nat
    BY <2>3
  <2>5. Sound(line)
    BY <2>2
  <2>6. by = Nobody
    BY <1>2, <2>4, <2>5 DEF Sound
  <2>7. Entry(Len(line), by) \in Entries /\ Entry(Len(line), by).by = Nobody
    BY <2>4, <2>6 DEF Entry, Entries
  <2> HIDE DEF by, line
  <2>8. Sound(delay)
    BY <1>1, <2>2, <2>3, <2>7
  <2> HIDE DEF delay
  <2>9. \A b \in Buffers :
          buf'[p][b] = IF b = "line" THEN <<>> ELSE IF b = "delay" THEN delay
                       ELSE buf[p][b]
    BY <1>2, <2>1, <2>2
  <2>10. mine' = mine
    BY <1>4, MoveKinds
  <2>11. QED
    BY <1>1, <2>8, <2>9, <2>10
<1>5. CASE h.do = "digest"
  <2>1. /\ mine' = [mine EXCEPT ![p] = buf[p][h.tag]] /\ h.tag \in Buffers
        /\ buf' = IF h.tag = "check" THEN [buf EXCEPT ![p]["check"] = <<>>] ELSE buf
    BY <1>5, MoveKinds, StepFacts DEF Digest, Hashed, OnBuffers
  <2>2. mine'[p] = buf[p][h.tag]
    BY <1>2, <2>1
  <2>3. \A b \in Buffers : buf'[p][b] \in {<<>>, buf[p][b]}
    <3>1. CASE h.tag = "check"
      BY <1>2, <2>1, <3>1
    <3>2. CASE h.tag # "check"
      BY <2>1, <3>2
    <3>3. QED
      BY <3>1, <3>2
  <2>4. QED
    BY <1>1, <2>1, <2>2, <2>3
<1>6. CASE h.do = "compare"
  <2>1. /\ mine' = [mine EXCEPT ![p] = <<>>]
        /\ buf' = [buf EXCEPT ![p] =
             [c \in Buffers |-> IF c \in Cleared(p, h.tag) THEN <<>> ELSE @[c]]]
    BY <1>6, MoveKinds DEF Compare
  <2>2. mine'[p] = <<>>
    BY <1>2, <2>1
  <2>3. \A b \in Buffers : buf'[p][b] \in {<<>>, buf[p][b]}
    BY <1>2, <2>1
  <2>4. QED
    BY <1>1, <2>2, <2>3
<1>7. CASE h.do \notin {"push", "combine", "digest", "compare"}
  BY <1>7, MoveKinds
<1>8. QED
  BY <1>3, <1>4, <1>5, <1>6, <1>7

\* No check fails while no mac is wrong.
LEMMA CleanKept ==
  ASSUME NEW path \in Paths, NEW n \in Nat, NEW at \in [Ranks -> Nat],
         NEW log \in Logs, Basics, Walks(path, n, at), Logged(path, at, log),
         Clean(at, log), Received(path, at, log),
         NEW p \in Ranks, Moves(p), at[p] < n,
         NEW new \in LogEntries, new = Now(p)'
  PROVE  Clean(Advance(at, p), Recorded(log, p, at[p] + 1, new))'
<1> DEFINE i == at[p]
           q == Peer(p)
           at2 == Advance(at, p)
           log2 == Recorded(log, p, i + 1, new)
           h == StepAt(path, i, p)
<1>1. SUFFICES ASSUME wrong' = Nobody
               PROVE  \A r \in Ranks :
                        /\ ~failed'[r]
                        /\ \A b \in Buffers : Sound(buf'[r][b])
                        /\ \A j \in Nat : j <= at2[r] => Sound(log2[r][j].mine)
  BY DEF Clean
<1>2. /\ q \in Ranks /\ q # p /\ Peer(q) = p /\ \A r \in Ranks : r = p \/ r = q
      /\ i \in Nat /\ at[q] \in Nat /\ at2[p] = i + 1 /\ at2[q] = at[q]
  BY PeerFacts DEF Advance, Peer, Ranks
<1>3. /\ log2[p][i + 1] = new
      /\ \A r \in Ranks, j \in Nat : j <= at[r] => log2[r][j] = log[r][j]
  BY SentKept
<1>4. /\ h = Head(todo[p]) /\ h \in Steps /\ todo[p] # <<>> /\ Took(p, path[i][p])
  BY WalkOn
<1>5. wrong = Nobody
  <2>1. CASE h.do = "push"
    <3>1. wrong' \in {wrong, p}
      BY <1>4, <2>1, MoveKinds DEF Push
    <3>2. QED
      BY <1>1, <3>1 DEF Ranks, Nobody
  <2>2. CASE h.do # "push"
    BY <1>1, <1>4, <2>2, MoveKinds
  <2>3. QED
    BY <2>1, <2>2
<1>6. \A r \in Ranks :
        /\ ~failed[r]
        /\ \A b \in Buffers : Sound(buf[r][b])
        /\ \A j \in Nat : j <= at[r] => Sound(log[r][j].mine)
  BY <1>5 DEF Clean
<1>7. log[p][i].mine = mine[p] /\ new.mine = mine'[p] /\ new.failed = failed'[p]
  <2>1. log[p][i] = Now(p)
    BY DEF Logged
  <2>2. QED
    BY <2>1 DEF Now
<1>8. (\A b \in Buffers : Sound(buf'[p][b])) /\ Sound(mine'[p])
  <2>1. Sound(mine[p])
    BY <1>2, <1>6, <1>7
  <2>2. QED
    BY <1>1, <1>4, <1>6, <2>1, SoundBuffers
<1>9. buf'[q] = buf[q] /\ failed'[q] = failed[q]
  <2>1. buf'[q] = buf[q]
    BY <1>2, <1>4 DEF Took, Basics
  <2>2. CASE h.do = "compare"
    BY <1>2, <1>4, <2>1, <2>2, MoveKinds DEF Compare, Basics
  <2>3. CASE h.do # "compare"
    BY <1>4, <2>1, <2>3, MoveKinds
  <2>4. QED
    BY <2>2, <2>3
<1>10. ~failed'[p]
  <2>1. CASE h.do # "compare"
    BY <1>4, <1>6, <2>1, MoveKinds
  <2>2. CASE h.do = "compare"
    <3>1. At(p, "compare")
      BY <1>4, <2>2 DEF At
    <3>2. /\ i - 2 \in Nat /\ i - 2 <= at[q] /\ i - 2 <= i
          /\ Same(p) <=> SameAt(log, i)
      BY <1>2, <3>1, ComparesLog
    <3>3. PICK j \in Nat : j = i - 2
      BY <3>2
    <3>4. i - 2 \in 0 .. n
      BY <1>2, <3>2
    <3>5. path[j][0].mine = path[j][1].mine
      <4>1. Paired(0, path[j][0], path[j][1])
        BY <3>3, <3>4, PeerFacts DEF Walks, IsPath, Ranks
      <4>2. QED
        BY <4>1 DEF Paired
    <3>6. \A r \in Ranks : /\ Of(log[r][j].mine) = path[j][r].mine
                           /\ Sound(log[r][j].mine) /\ log[r][j].mine \in Seq(Entries)
      <4>1. \A r \in Ranks : j <= at[r]
        BY <1>2, <3>2, <3>3
      <4>2. \A r \in Ranks : Before(path, log, r, j) /\ Sound(log[r][j].mine)
        BY <1>6, <4>1 DEF Logged
      <4>3. \A r \in Ranks : log[r][j] \in LogEntries
        BY DEF Logs
      <4>4. QED
        BY <4>2, <4>3 DEF Before, LogEntries
    <3>7. log[0][j].mine = log[1][j].mine
      <4>1. 0 \in Ranks /\ 1 \in Ranks
        BY DEF Ranks
      <4>2. QED
        BY <3>5, <3>6, <4>1, SoundEqual
    <3>8. Same(p)
      BY <3>2, <3>3, <3>7 DEF SameAt
    <3>9. failed' = [failed EXCEPT ![p] = failed[p] \/ ~Same(p)]
      BY <1>4, <2>2, MoveKinds DEF Compare
    <3>10. QED
      BY <1>6, <3>8, <3>9 DEF Basics
  <2>3. QED
    BY <2>1, <2>2
<1> HIDE DEF h, q, at2, log2, i
<1>11. ASSUME NEW r \in Ranks, NEW j \in Nat, j <= at2[r]
       PROVE  Sound(log2[r][j].mine)
  <2>1. CASE j <= at[r]
    BY <1>3, <1>6, <1>11, <2>1
  <2>2. CASE ~(j <= at[r])
    <3>1. r = p /\ j = i + 1
      BY <1>2, <1>11, <2>2 DEF i
    <3>2. QED
      BY <1>3, <1>7, <1>8, <3>1
  <2>3. QED
    BY <2>1, <2>2
<1>12. ASSUME NEW r \in Ranks
       PROVE  ~failed'[r] /\ \A b \in Buffers : Sound(buf'[r][b])
  <2>1. CASE r = p
    BY <1>8, <1>10, <2>1
  <2>2. CASE r = q
    BY <1>2, <1>6, <1>9, <2>2
  <2>3. QED
    BY <1>2, <2>1, <2>2
<1>13. QED
  BY <1>11, <1>12

-----------------------------------------------------------------------------
\* The start.

\* The ranks call the same or a half each of an operation.
LEMMA CalledTwins ==
  ASSUME NEW op \in Operations
  PROVE  /\ Called(0, op) = op /\ <<op, Called(1, op)>> \in Twins
         /\ op \in OfTwo => op = "OptSShuffleA"
<1>1. Called(0, op) = op
  BY DEF Called
<1>2. op \in OfTwo => op = "OptSShuffleA"
  BY DEF Operations, OfTwo
<1>3. CASE \E side \in Sides : op \in {side[1], side[2]}
  <2> DEFINE side == CHOOSE side \in Sides : op \in {side[1], side[2]}
  <2>1. side \in Sides /\ op \in {side[1], side[2]}
    BY <1>3
  <2>2. Called(1, op) = IF op = side[1] THEN side[2] ELSE side[1]
    BY <1>3 DEF Called
  <2> HIDE DEF side
  <2>3. side \in Halves /\ side = <<side[1], side[2]>>
    BY <2>1 DEF Sides, Halves
  <2>4. CASE op = side[1]
    <3>1. Called(1, op) = side[2] /\ <<op, Called(1, op)>> \in Halves
      BY <2>2, <2>3, <2>4
    <3>2. QED
      BY <1>1, <1>2, <3>1 DEF Twins
  <2>5. CASE op # side[1]
    <3>1. op = side[2] /\ Called(1, op) = side[1]
      BY <2>1, <2>2, <2>5
    <3>2. <<side[2], side[1]>> \in {<<h[2], h[1]>> : h \in Halves}
      BY <2>3
    <3>3. <<op, Called(1, op)>> \in Twins
      BY <3>1, <3>2 DEF Twins
    <3>4. QED
      BY <1>1, <1>2, <3>3
  <2>6. QED
    BY <1>1, <1>2, <2>4, <2>5
<1>4. CASE ~\E side \in Sides : op \in {side[1], side[2]}
  <2>1. Called(1, op) = op
    BY <1>4 DEF Called
  <2>2. op \in Whole \cup WholeStateful
    <3>1. op \notin {"SetA", "GetA", "ASTSet", "ASTGet"}
      BY <1>4 DEF Sides
    <3>2. op \notin {"cr.BatchShuffleSet", "cr.BatchShuffleGet",
                     "cr._BatchShuffleSet", "cr._BatchShuffleGet"}
      BY <1>4 DEF Sides
    <3>3. op \notin {"cr.ASTSet_2k", "cr.ASTGet_2k", "cr.DoubleASTSet_2k",
                     "cr.DoubleASTGet_2k", "cr._DoubleASTSet_2k",
                     "cr._DoubleASTGet_2k"}
      BY <1>4 DEF Sides
    <3>4. QED
      BY <3>1, <3>2, <3>3 DEF Operations, Whole, WholeStateful
  <2>3. QED
    BY <1>1, <1>2, <2>1, <2>2 DEF Twins
<1>5. QED
  BY <1>3, <1>4

\* The steps of a program.
Body(p, program) ==
  FlattenSeq([i \in DOMAIN program |->
    Call(Called(p, program[i].op), program[i].num)])
Start(p, program) == Body(p, program) \o FinalChecks

\* The ranks' calls fit ...
LEMMA BodyFits ==
  ASSUME NEW program \in Programs
  PROVE  Fit(0, Body(0, program), Body(1, program))
<1> DEFINE F == [i \in DOMAIN program |->
                   Call(Called(0, program[i].op), program[i].num)]
           G == [i \in DOMAIN program |->
                   Call(Called(1, program[i].op), program[i].num)]
<1>1. program \in Seq(Calls) /\ 0 \in Ranks
  BY SessionAssumption DEF Ranks
<1>2. DOMAIN program = 1 .. Len(program) /\ Len(program) \in Nat
  BY <1>1
<1>3. ASSUME NEW i \in 1 .. Len(program)
      PROVE  Fit(0, F[i], G[i])
  <2>1. program[i] \in Calls
    BY <1>1, <1>3
  <2>2. /\ program[i].op \in Operations /\ program[i].num \in Nat
        /\ program[i].op = "OptSShuffleA" => program[i].num >= 2
    BY <2>1 DEF Calls
  <2>3. /\ Called(0, program[i].op) = program[i].op
        /\ <<program[i].op, Called(1, program[i].op)>> \in Twins
        /\ program[i].op \in OfTwo => program[i].num >= 2
    BY <2>2, CalledTwins
  <2>4. Fit(0, Call(program[i].op, program[i].num),
               Call(Called(1, program[i].op), program[i].num))
    BY <1>1, <2>2, <2>3, FitCall
  <2>5. QED
    BY <1>2, <2>3, <2>4
<1>4. /\ F \in Seq(Seq(Steps)) /\ G \in Seq(Seq(Steps)) /\ Len(F) = Len(G)
      /\ Len(F) = Len(program)
  <2>1. \A i \in 1 .. Len(program) : F[i] \in Seq(Steps) /\ G[i] \in Seq(Steps)
    BY <1>3 DEF Fit, Match
  <2> DEFINE m == Len(program)
  <2>2. F = [i \in 1 .. m |-> F[i]] /\ G = [i \in 1 .. m |-> G[i]]
    BY <1>2
  <2> HIDE DEF F, G, m
  <2>3. m \in Nat
    BY <1>2 DEF m
  <2>4. F \in [1 .. m -> Seq(Steps)] /\ G \in [1 .. m -> Seq(Steps)]
    BY <2>1, <2>2 DEF m
  <2>5. QED
    BY <2>3, <2>4 DEF m
<1>5. Fit(0, FlattenSeq(F), FlattenSeq(G))
  <2> HIDE DEF F, G
  <2>1. QED
    BY <1>1, <1>3, <1>4, FitFlatten
<1>6. QED
  BY <1>5 DEF Body

\* ... and so do they with the last checks.
LEMMA StartFits ==
  ASSUME NEW program \in Programs
  PROVE  Fit(0, Start(0, program), Start(1, program))
<1>1. 0 \in Ranks
  BY DEF Ranks
<1>2. Fit(0, FinalChecks, FinalChecks)
  <2>1. \A f \in {"NdssDelayCheck", "prot.DelayCheck", "cr.DelayCheck"} :
          f \in Whole \cup WholeStateful /\ f # "OptSShuffleA"
    BY DEF WholeStateful
  <2>2. /\ Fit(0, Call("NdssDelayCheck", 0), Call("NdssDelayCheck", 0))
        /\ Fit(0, Call("prot.DelayCheck", 0), Call("prot.DelayCheck", 0))
        /\ Fit(0, Call("cr.DelayCheck", 0), Call("cr.DelayCheck", 0))
    BY <1>1, <2>1, FitWhole
  <2>3. Fit(0, Call("NdssDelayCheck", 0) \o Call("prot.DelayCheck", 0),
               Call("NdssDelayCheck", 0) \o Call("prot.DelayCheck", 0))
    BY <1>1, <2>2, FitConcat
  <2>4. QED
    BY <1>1, <2>2, <2>3, FitConcat DEF FinalChecks
<1>3. QED
  BY <1>1, <1>2, BodyFits, FitConcat DEF Start

\* The ranks walk down a path together.
Together(path, n, at, log, places) ==
  /\ Walks(path, n, at) /\ Behind(path, at) /\ Listed(path, at, log, places)
  /\ Logged(path, at, log) /\ Received(path, at, log) /\ Agreed(at, log)
  /\ Clean(at, log)

\* The inductive invariant: there is a path, and both ranks walk down it.
IInv ==
  /\ Basics
  /\ \E path \in Paths, n \in Nat, at \in [Ranks -> Nat], log \in Logs,
        places \in Places : Together(path, n, at, log, places)

\* A rank's control as it starts.
First(p, program) ==
  [todo |-> Start(p, program),
   left |-> [k \in Kinds |-> [r \in Ranks |-> SetupLeft]],
   sizes |-> [b \in Buffers |-> <<>>], mine |-> <<>>]
AtStart(program) == [i \in Nat |-> [p \in Ranks |-> First(p, program)]]

\* The path starts with the steps of a program.
LEMMA PathStarts ==
  ASSUME NEW program \in Programs
  PROVE  AtStart(program) \in Paths /\ IsPath(AtStart(program), 0)
<1> DEFINE path == AtStart(program)
<1>1. Fit(0, Start(0, program), Start(1, program))
  BY StartFits
<1>2. Fit(1, Start(1, program), Start(0, program))
  BY <1>1, FitBack, PeerFacts DEF Ranks
<1>3. ASSUME NEW p \in Ranks
      PROVE  Fit(p, Start(p, program), Start(Peer(p), program))
  BY <1>1, <1>2, PeerFacts DEF Ranks
<1>4. ASSUME NEW p \in Ranks
      PROVE  First(p, program) \in Controls
  <2>1. Start(p, program) \in Seq(Steps)
    BY <1>3 DEF Fit, Match
  <2>2. [k \in Kinds |-> [r \in Ranks |-> SetupLeft]] \in Lefts
    BY SessionAssumption DEF Lefts
  <2>3. <<>> \in Seq(Int)
    OBVIOUS
  <2>4. [b \in Buffers |-> <<>>] \in Sizes
    BY <2>3 DEF Sizes
  <2>5. QED
    BY <2>1, <2>2, <2>3, <2>4 DEF First, Controls
<1>5. path \in Paths
  BY <1>4 DEF Paths, AtStart
<1>6. \A p \in Ranks : path[0][p] = First(p, program)
  BY DEF AtStart
<1> HIDE DEF path
<1>7. ASSUME NEW p \in Ranks
      PROVE  Paired(p, path[0][p], path[0][Peer(p)])
  <2>1. /\ path[0][p] = First(p, program)
        /\ path[0][Peer(p)] = First(Peer(p), program)
    BY <1>6, PeerFacts
  <2>2. Paired(p, First(p, program), First(Peer(p), program))
    BY <1>3 DEF Paired, First, Fit, Match
  <2>3. QED
    BY <2>1, <2>2
<1>8. ASSUME NEW p \in Ranks
      PROVE  Follows(path, p, 0)
  <2> DEFINE s == Start(p, program)
  <2>1. s = path[0][p].todo
    <3>1. First(p, program).todo = s
      BY DEF First
    <3>2. QED
      BY <1>6, <3>1
  <2> HIDE DEF s
  <2>2. Formed(p, s)
    BY <1>3 DEF Fit, Match, s
  <2>3. ASSUME NEW k \in 1 .. Len(s), s[k].do = "compare"
        PROVE  Preceded(path, p, 0, s, k)
    <3>1. k >= 3 /\ SecondDigest(p, s[k - 1]) /\ FirstDigest(p, s[k - 2])
      BY <2>2, <2>3 DEF Formed
    <3>2. 0 + k >= 3 /\ ~(k < 2) /\ ~(k < 3)
      BY <3>1
    <3>3. QED
      BY <3>1, <3>2 DEF Preceded
  <2>4. QED
    BY <2>1, <2>3 DEF Follows
<1>9. IsPath(path, 0)
  <2>1. \A i \in 0 .. 0 : i = 0
    OBVIOUS
  <2>2. 0 .. 0 - 1 = {}
    OBVIOUS
  <2>3. QED
    BY <1>7, <1>8, <2>1, <2>2 DEF IsPath
<1>10. QED
  BY <1>5, <1>9 DEF path

\* The ranks start together.
LEMMA StartsTogether == Init => IInv
<1> SUFFICES ASSUME Init
             PROVE  IInv
  OBVIOUS
<1>1. PICK program \in Programs : todo = [p \in Ranks |-> Start(p, program)]
  BY DEF Init, Start, Body
<1> DEFINE path == AtStart(program)
           at == [p \in Ranks |-> 0]
           entry == [mine |-> <<>>, passed |-> 0, failed |-> FALSE]
           log == [p \in Ranks |-> [i \in Nat |-> entry]]
           places == [p \in Ranks |-> [c \in Channels |-> <<>>]]
<1>2. path \in Paths /\ IsPath(path, 0)
  BY <1>1, PathStarts
<1>3. at \in [Ranks -> Nat] /\ \A p \in Ranks : at[p] = 0
  OBVIOUS
<1>4. <<>> \in Seq(Entries) /\ <<>> \in Seq(Nat) /\ <<>> \in Seq(Contents)
  OBVIOUS
<1>5. entry \in LogEntries
  BY <1>4 DEF LogEntries
<1>6. log \in Logs /\ \A p \in Ranks, i \in Nat : log[p][i] = entry
  BY <1>5 DEF Logs
<1>7. places \in Places /\ \A p \in Ranks, c \in Channels : places[p][c] = <<>>
  BY <1>4 DEF Places
<1>8. \A p \in Ranks : path[0][p] = First(p, program) /\ First(p, program) \in Controls
  <2>1. \A p \in Ranks : path[0][p] = First(p, program)
    BY DEF AtStart
  <2>2. \A p \in Ranks : path[0][p] \in Controls
    BY <1>2 DEF Paths
  <2>3. QED
    BY <2>1, <2>2
<1>9. Basics
  <2>1. todo \in [Ranks -> Seq(Steps)]
    BY <1>1, <1>8 DEF First, Controls
  <2>2. left \in [Ranks -> Lefts]
    BY SessionAssumption DEF Init, Lefts
  <2>3. "no" \in Ways /\ Nobody \in Ranks \cup {Nobody}
    BY DEF Ways
  <2>4. QED
    BY <1>4, <2>1, <2>2, <2>3 DEF Basics, Init
<1>10. ASSUME NEW p \in Ranks
       PROVE  Matches(p, First(p, program))
  BY <1>1, OfFacts DEF Matches, First, Init
<1> HIDE DEF path, at, log, places
<1>11. Walks(path, 0, at)
  BY <1>2, <1>3, <1>8, <1>10 DEF Walks
<1>12. Behind(path, at)
  <2>1. \A i \in Nat : ~(i < 0)
    OBVIOUS
  <2>2. QED
    BY <1>3, <2>1, PeerFacts DEF Behind
<1>13. Listed(path, at, log, places)
  <2>1. ASSUME NEW p \in Ranks, NEW c \in Channels
        PROVE  ListedOn(path, at, log, <<>>, p, c)
    <3>1. chan[p][c] = <<>> /\ at[p] = 0 /\ at[Peer(p)] = 0
      BY <1>3, PeerFacts DEF Init
    <3>2. Len(<<>>) = 0 /\ 1 .. 0 = {} /\ \A i \in Nat : ~(i < 0)
      OBVIOUS
    <3>3. QED
      BY <3>1, <3>2 DEF ListedOn
  <2>2. QED
    BY <1>7, <2>1 DEF Listed
<1>14. Logged(path, at, log)
  <2>1. ASSUME NEW p \in Ranks
        PROVE  /\ log[p][0] = Now(p)
               /\ Before(path, log, p, 0)
    <3>1. log[p][0] = entry
      BY <1>6
    <3>2. path[0][p].mine = <<>>
      <4>1. First(p, program).mine = <<>>
        BY DEF First
      <4>2. QED
        BY <1>8, <4>1
    <3>3. mine[p] = <<>> /\ passed[p] = 0 /\ failed[p] = FALSE
      BY DEF Init
    <3>4. log[p][0] = Now(p)
      BY <3>1, <3>3 DEF Now
    <3>5. Before(path, log, p, 0)
      BY <3>1, <3>2, <3>3, OfFacts DEF Before
    <3>6. QED
      BY <3>4, <3>5
  <2>2. \A i \in Nat : (i <= 0 => i = 0) /\ ~(i < 0)
    OBVIOUS
  <2>3. QED
    BY <1>3, <2>1, <2>2 DEF Logged
<1>15. Received(path, at, log)
  <2>1. ~(0 >= 1) /\ ~(0 >= 2)
    OBVIOUS
  <2>2. QED
    BY <1>3, <2>1 DEF Received
<1>16. Agreed(at, log)
  BY <1>6, PeerFacts DEF Agreed, Ranks
<1>17. Clean(at, log)
  <2>1. Sound(<<>>)
    BY DEF Sound
  <2>2. \A p \in Ranks : ~failed[p] /\ \A b \in Buffers : buf[p][b] = <<>>
    BY DEF Init
  <2>3. QED
    BY <1>6, <2>1, <2>2 DEF Clean
<1>18. QED
  BY <1>2, <1>3, <1>6, <1>7, <1>9, <1>11, <1>12, <1>13, <1>14, <1>15, <1>16, <1>17
     DEF IInv, Together

-----------------------------------------------------------------------------
\* The ranks stay together.

\* What is said of the ranks is said of the part of the path they have walked.
LEMMA TogetherOnLonger ==
  ASSUME NEW path \in Paths, NEW longer \in Paths, NEW n \in Nat,
         NEW at \in [Ranks -> Nat], NEW log \in Logs, NEW places \in Places,
         Together(path, n, at, log, places),
         IsPath(longer, n + 1), \A i \in 0 .. n : longer[i] = path[i]
  PROVE  Together(longer, n + 1, at, log, places)
<1>1. /\ \A i \in Nat : \A p : i <= n => StepAt(longer, i, p) = StepAt(path, i, p)
      /\ \A i \in Nat : \A p, c : i <= n =>
             (IsSend(longer, i, p, c) <=> IsSend(path, i, p, c))
      /\ \A i \in Nat : \A p : i <= n => Sent(longer, log, p, i) = Sent(path, log, p, i)
  <2>1. \A i \in Nat : \A p : i <= n => StepAt(longer, i, p) = StepAt(path, i, p)
    BY DEF StepAt
  <2>2. QED
    BY <2>1 DEF IsSend, Sent
<1>2. \A p \in Ranks : at[p] \in Nat /\ at[p] <= n /\ Peer(p) \in Ranks
  BY PeerFacts DEF Together, Walks
<1>3. Walks(longer, n + 1, at)
  <2>1. ASSUME NEW p \in Ranks
        PROVE  at[p] <= n + 1 /\ Matches(p, longer[at[p]][p])
    <3>1. longer[at[p]] = path[at[p]] /\ at[p] <= n + 1
      BY <1>2
    <3>2. QED
      BY <3>1 DEF Together, Walks
  <2>2. QED
    BY <2>1 DEF Walks
<1>4. Behind(longer, at)
  <2>1. ASSUME NEW p \in Ranks, NEW i \in Nat, at[p] <= i, i < at[Peer(p)]
        PROVE  StepAt(longer, i, p).do # "send"
    <3>1. i <= n
      BY <1>2, <2>1
    <3>2. QED
      BY <1>1, <2>1, <3>1 DEF Together, Behind
  <2>2. QED
    BY <2>1 DEF Behind
<1>5. Listed(longer, at, log, places)
  <2>1. ASSUME NEW p \in Ranks, NEW c \in Channels
        PROVE  ListedOn(longer, at, log, places[p][c], p, c)
    <3> DEFINE q == Peer(p)
    <3>1. PICK m \in Seq(Nat) : m = places[p][c]
      BY DEF Places
    <3>2. ListedOn(path, at, log, m, p, c)
      BY <3>1 DEF Together, Listed
    <3>3. \A k \in 1 .. Len(m) : m[k] \in Nat /\ (m[k] < at[q] => m[k] <= n)
      BY <1>2
    <3>4. \A i \in Nat : i < at[q] => i <= n
      BY <1>2
    <3>5. ASSUME NEW k \in 1 .. Len(m)
          PROVE  /\ at[p] <= m[k] /\ m[k] < at[q] /\ IsSend(longer, m[k], q, c)
                 /\ chan[p][c][k] = Sent(longer, log, q, m[k])
      <4>1. /\ at[p] <= m[k] /\ m[k] < at[q] /\ IsSend(path, m[k], q, c)
            /\ chan[p][c][k] = Sent(path, log, q, m[k])
        BY <3>2 DEF ListedOn
      <4>2. m[k] \in Nat /\ m[k] <= n
        BY <3>3, <4>1
      <4>3. QED
        BY <1>1, <4>1, <4>2
    <3>6. ASSUME NEW i \in Nat, at[p] <= i, i < at[q], IsSend(longer, i, q, c)
          PROVE  \E k \in 1 .. Len(m) : m[k] = i
      <4>1. IsSend(path, i, q, c)
        BY <1>1, <3>4, <3>6
      <4>2. QED
        BY <3>2, <3>6, <4>1 DEF ListedOn
    <3>7. QED
      BY <3>1, <3>2, <3>5, <3>6 DEF ListedOn
  <2>2. QED
    BY <2>1 DEF Listed
<1>6. Logged(longer, at, log)
  <2>1. ASSUME NEW p \in Ranks, NEW i \in Nat, i <= at[p]
        PROVE  Before(longer, log, p, i)
    <3>1. longer[i] = path[i]
      BY <1>2, <2>1
    <3>2. Before(path, log, p, i)
      BY <2>1 DEF Together, Logged
    <3>3. QED
      BY <3>1, <3>2 DEF Before
  <2>2. ASSUME NEW p \in Ranks, NEW i \in Nat, i < at[p]
        PROVE  Past(longer, at, log, p, i)
    <3>1. StepAt(longer, i, p) = StepAt(path, i, p)
      BY <1>1, <1>2, <2>2
    <3>2. Past(path, at, log, p, i)
      BY <2>2 DEF Together, Logged
    <3>3. QED
      BY <3>1, <3>2 DEF Past, Verdict
  <2>3. QED
    BY <2>1, <2>2 DEF Together, Logged
<1>7. Received(longer, at, log)
  <2>1. ASSUME NEW p \in Ranks
        PROVE  /\ at[p] >= 1 => StepAt(longer, at[p] - 1, p) = StepAt(path, at[p] - 1, p)
               /\ at[p] >= 2 => StepAt(longer, at[p] - 2, p) = StepAt(path, at[p] - 2, p)
    <3>1. /\ at[p] >= 1 => at[p] - 1 \in Nat /\ at[p] - 1 <= n
          /\ at[p] >= 2 => at[p] - 2 \in Nat /\ at[p] - 2 <= n
      BY <1>2
    <3>2. QED
      BY <1>1, <3>1
  <2>2. \A p \in Ranks : at[p] >= 2 => at[p] >= 1
    BY <1>2
  <2>3. Received(path, at, log)
    BY DEF Together
  <2>4. QED
    BY <2>1, <2>2, <2>3 DEF Received
<1>8. QED
  BY <1>3, <1>4, <1>5, <1>6, <1>7 DEF Together

\* A rank that goes on stays on a path with its peer.
LEMMA MovesTogether ==
  ASSUME NEW path \in Paths, NEW n \in Nat, NEW at \in [Ranks -> Nat],
         NEW log \in Logs, NEW places \in Places, Basics,
         Together(path, n, at, log, places), NEW p \in Ranks, Moves(p), at[p] < n
  PROVE  IInv'
<1>1. /\ Walks(path, n, at) /\ Behind(path, at) /\ Listed(path, at, log, places)
      /\ Logged(path, at, log) /\ Received(path, at, log) /\ Agreed(at, log)
      /\ Clean(at, log)
  BY DEF Together
<1>2. Basics' /\ Walks(path, n, Advance(at, p))'
  BY <1>1, WalkOn
<1>3. Now(p)' \in LogEntries
  BY <1>2 DEF Now, LogEntries, Basics
<1>4. PICK new \in LogEntries : new = Now(p)'
  BY <1>3
<1>5. PICK at2 \in [Ranks -> Nat] : at2 = Advance(at, p)
  <2>1. at[p] + 1 \in Nat
    OBVIOUS
  <2>2. Advance(at, p) \in [Ranks -> Nat]
    BY <2>1 DEF Advance
  <2>3. QED
    BY <2>2
<1>6. PICK log2 \in Logs : log2 = Recorded(log, p, at[p] + 1, new)
  BY SentKept
<1>7. \A r \in Ranks : log[r][at[r]].mine = mine[r]
  <2>1. \A r \in Ranks : log[r][at[r]] = Now(r)
    BY <1>1 DEF Logged
  <2>2. \A r \in Ranks : Now(r).mine = mine[r]
    BY DEF Now
  <2>3. QED
    BY <2>1, <2>2
<1>8. PICK places2 \in Places : Listed(path, at2, log2, places2)'
  BY <1>1, <1>5, <1>6, <1>7, ListedKept
<1>9. Behind(path, at2)
  BY <1>1, <1>5, BehindKept
<1>10. Logged(path, at2, log2)'
  BY <1>1, <1>4, <1>5, <1>6, LoggedKept
<1>11. Received(path, at2, log2)'
  BY <1>1, <1>5, <1>6, ReceivedKept
<1>12. Agreed(at2, log2)
  BY <1>1, <1>4, <1>5, <1>6, AgreedKept
<1>13. Clean(at2, log2)'
  BY <1>1, <1>4, <1>5, <1>6, CleanKept
<1>14. Together(path, n, at2, log2, places2)'
  BY <1>2, <1>5, <1>8, <1>9, <1>10, <1>11, <1>12, <1>13 DEF Together
<1>15. QED
  BY <1>2, <1>14 DEF IInv

\* The steps keep the ranks together.
LEMMA StaysTogether == IInv /\ [Next]_vars => IInv'
<1> SUFFICES ASSUME IInv, [Next]_vars
             PROVE  IInv'
  OBVIOUS
<1>1. PICK path \in Paths, n \in Nat, at \in [Ranks -> Nat], log \in Logs,
           places \in Places : Together(path, n, at, log, places)
  BY DEF IInv
<1>2. Basics
  BY DEF IInv
<1>3. ASSUME NEW p \in Ranks, Moves(p)
      PROVE  IInv'
  <2>1. CASE at[p] < n
    BY <1>1, <1>2, <1>3, <2>1, MovesTogether
  <2>2. CASE ~(at[p] < n)
    <3>1. at[p] = n /\ Matches(p, path[n][p]) /\ IsPath(path, n)
      <4>1. at[p] <= n /\ at[p] \in Nat /\ Matches(p, path[at[p]][p]) /\ IsPath(path, n)
        BY <1>1 DEF Together, Walks
      <4>2. at[p] = n
        BY <2>2, <4>1
      <4>3. QED
        BY <4>1, <4>2
    <3>2. path[n][p] \in Controls
      BY DEF Paths
    <3>3. Took(p, path[n][p])
      BY <1>2, <1>3, <3>1, <3>2, MovesTook
    <3>4. path[n][p].todo # <<>> /\ StepAt(path, n, p) = Head(todo[p])
      BY <3>3 DEF Took, StepAt
    <3>5. StepAt(path, n, p).do # "throw"
      BY <1>3, <3>4, MoveKinds
    <3>6. PICK longer \in Paths :
            IsPath(longer, n + 1) /\ \A i \in 0 .. n : longer[i] = path[i]
      BY <3>1, <3>4, <3>5, PathExtended
    <3>7. Together(longer, n + 1, at, log, places)
      BY <1>1, <3>6, TogetherOnLonger
    <3>8. n + 1 \in Nat /\ at[p] < n + 1
      BY <3>1
    <3>9. QED
      BY <1>2, <1>3, <3>7, <3>8, MovesTogether
  <2>3. QED
    BY <2>1, <2>2
<1>4. ASSUME NEW p \in Ranks, Ends(p)
      PROVE  IInv'
  <2>1. /\ Basics' /\ \A r \in Ranks : \A d : Matches(r, d) => Matches(r, d)'
        /\ UNCHANGED <<chan, left, buf, mine, theirs, passed, failed, wrong>>
    BY <1>2, <1>4, EndKept
  <2>2. Walks(path, n, at)'
    BY <1>1, <2>1 DEF Together, Walks
  <2>3. Listed(path, at, log, places)'
    BY <1>1, <2>1 DEF Together, Listed, ListedOn
  <2>4. Logged(path, at, log)'
    BY <1>1, <2>1 DEF Together, Logged, Before, Now
  <2>5. Received(path, at, log)' /\ Clean(at, log)'
    BY <1>1, <2>1 DEF Together, Received, Clean
  <2>6. Together(path, n, at, log, places)'
    BY <1>1, <2>2, <2>3, <2>4, <2>5 DEF Together
  <2>7. QED
    BY <2>1, <2>6 DEF IInv
<1>5. CASE UNCHANGED vars
  <2>1. /\ todo' = todo /\ chan' = chan /\ left' = left /\ buf' = buf /\ mine' = mine
        /\ theirs' = theirs /\ flag' = flag /\ ended' = ended /\ passed' = passed
        /\ failed' = failed /\ wrong' = wrong
    BY <1>5 DEF vars
  <2>2. Basics'
    BY <1>2, <2>1 DEF Basics
  <2>3. Walks(path, n, at)'
    BY <1>1, <2>1 DEF Together, Walks, Matches
  <2>4. Listed(path, at, log, places)'
    BY <1>1, <2>1 DEF Together, Listed, ListedOn
  <2>5. Logged(path, at, log)'
    BY <1>1, <2>1 DEF Together, Logged, Before, Now
  <2>6. Received(path, at, log)' /\ Clean(at, log)'
    BY <1>1, <2>1 DEF Together, Received, Clean
  <2>7. Together(path, n, at, log, places)'
    BY <1>1, <2>3, <2>4, <2>5, <2>6 DEF Together
  <2>8. QED
    BY <2>2, <2>7 DEF IInv
<1>6. Next => UNCHANGED vars \/ \E p \in Ranks : Moves(p) \/ Ends(p)
  BY DEF Next, Finished, RankStep, Moves, Ends
<1>7. QED
  BY <1>3, <1>4, <1>5, <1>6

-----------------------------------------------------------------------------
\* What that gives.

\* The ranks walk down a path together, whatever they run.
THEOREM Walked == Spec => []IInv
<1>1. Init => IInv
  BY StartsTogether
<1>2. IInv /\ [Next]_vars => IInv'
  BY StaysTogether
<1>3. QED
  BY <1>1, <1>2, PTL DEF Spec

\* Every variable keeps its type; a VOLE buffer never holds less than nothing
\* nor more than an extension leaves (CallStep, ServeVole, SetupVole).
THEOREM Typed == Spec => []TypeOK
<1>1. IInv => TypeOK
  BY DEF IInv, Basics, TypeOK, Lefts, Ways
<1>2. QED
  BY <1>1, Walked, PTL

\* Whatever two ranks run together, the message one is about to receive is the
\* one it waits for (Connection.Recv compares no tags).
THEOREM RightMessages == Spec => []RightMessage
<1>1. ASSUME IInv, NEW p \in Ranks, At(p, "recv"), chan[p][Head(todo[p]).ch] # <<>>
      PROVE  /\ Head(chan[p][Head(todo[p]).ch]).tag = Head(todo[p]).tag
             /\ Head(chan[p][Head(todo[p]).ch]).num = Head(todo[p]).num
  <2>1. PICK path \in Paths, n \in Nat, at \in [Ranks -> Nat], log \in Logs,
             places \in Places : Together(path, n, at, log, places)
    BY <1>1 DEF IInv
  <2>2. Walks(path, n, at) /\ Listed(path, at, log, places) /\ Basics
    BY <1>1, <2>1 DEF IInv, Together
  <2> DEFINE h == StepAt(path, at[p], p)
             g == StepAt(path, at[p], Peer(p))
  <2>3. /\ h = Head(todo[p]) /\ g.tag = h.tag /\ g.num = h.num
        /\ Head(chan[p][h.ch]) = Sent(path, log, Peer(p), at[p])
    <3>1. At(p, "recv") /\ chan[p][Head(todo[p]).ch] # <<>> /\ p \in Ranks
      BY <1>1
    <3> HIDE DEF h, g
    <3>2. /\ h = Head(todo[p]) /\ StepAt(path, at[p], Peer(p)).tag = h.tag
          /\ StepAt(path, at[p], Peer(p)).num = h.num
          /\ Head(chan[p][h.ch]) = Sent(path, log, Peer(p), at[p])
      BY <2>2, <3>1, FirstMessage DEF h
    <3>3. QED
      BY <3>2 DEF g
  <2>4. /\ Sent(path, log, Peer(p), at[p]).tag = g.tag
        /\ Sent(path, log, Peer(p), at[p]).num = g.num
    BY DEF Sent
  <2> HIDE DEF h, g
  <2>5. QED
    BY <2>3, <2>4
<1>2. IInv => RightMessage
  BY <1>1 DEF RightMessage
<1>3. QED
  BY <1>2, Walked, PTL

\* When both ranks have returned every message has been received.
THEOREM AllRead == Spec => []NothingUnread
<1>1. ASSUME IInv, Returned, NEW p \in Ranks, NEW c \in Channels
      PROVE  chan[p][c] = <<>>
  <2>1. PICK path \in Paths, n \in Nat, at \in [Ranks -> Nat], log \in Logs,
             places \in Places : Together(path, n, at, log, places)
    BY <1>1 DEF IInv
  <2>2. ASSUME NEW r \in Ranks
        PROVE  at[r] = n
    <3>1. /\ IsPath(path, n) /\ at[r] <= n /\ at[r] \in Nat
          /\ Matches(r, path[at[r]][r])
      BY <2>1 DEF Together, Walks
    <3>2. path[at[r]][r].todo = <<>>
      BY <1>1, <3>1 DEF Matches, Returned, Done
    <3>3. at[r] \notin 0 .. n - 1
      BY <3>1, <3>2 DEF IsPath
    <3>4. QED
      BY <3>1, <3>3
  <2>3. at[p] = n /\ at[Peer(p)] = n
    BY <2>2, PeerFacts
  <2>4. PICK m \in Seq(Nat) : m = places[p][c]
    BY DEF Places
  <2>5. ListedOn(path, at, log, m, p, c)
    BY <2>1, <2>4 DEF Together, Listed
  <2>6. \A k \in 1 .. Len(m) : n <= m[k] /\ m[k] < n /\ m[k] \in Nat
    BY <2>3, <2>5 DEF ListedOn
  <2>7. Len(m) = 0
    BY <2>6
  <2>8. Len(chan[p][c]) = 0 /\ chan[p][c] \in Seq(Contents)
    BY <1>1, <2>5, <2>7 DEF ListedOn, IInv, Basics
  <2>9. QED
    BY <2>8
<1>2. IInv => NothingUnread
  BY <1>1 DEF NothingUnread
<1>3. QED
  BY <1>2, Walked, PTL

\* When a check has failed at a rank its peer never passes it.
THEOREM SameVerdicts == Spec => []VerdictsAgree
<1>1. ASSUME IInv, NEW p \in Ranks, failed[p]
      PROVE  passed[Peer(p)] <= passed[p]
  <2>1. PICK path \in Paths, n \in Nat, at \in [Ranks -> Nat], log \in Logs,
             places \in Places : Together(path, n, at, log, places)
    BY <1>1 DEF IInv
  <2> DEFINE q == Peer(p)
             i == at[p]
             j == at[q]
  <2>2. q \in Ranks /\ i \in Nat /\ j \in Nat /\ ((p = 0 /\ q = 1) \/ (p = 1 /\ q = 0))
    BY PeerFacts DEF Ranks
  <2>3. passed[p] \in Nat /\ passed[q] \in Nat
    BY <1>1, <2>2 DEF IInv, Basics
  <2>4. \A k \in Nat : k <= i /\ k <= j =>
          /\ log[p][k].passed = log[q][k].passed
          /\ (log[p][k].failed <=> log[q][k].failed)
    BY <2>1, <2>2 DEF Together, Agreed
  <2>5. /\ log[p][i] = Now(p) /\ log[q][j] = Now(q)
        /\ \A k \in Nat : (k <= i => Before(path, log, p, k))
                          /\ (k <= j => Before(path, log, q, k))
    BY <2>1, <2>2 DEF Together, Logged
  <2> HIDE DEF i, j, q
  <2>6. /\ log[p][i].passed = passed[p] /\ (log[p][i].failed <=> failed[p])
        /\ log[q][j].passed = passed[q]
    BY <2>5 DEF Now
  <2>7. CASE i <= j
    <3>1. log[q][i].failed /\ log[q][i].passed = passed[p] /\ Before(path, log, q, i)
      BY <1>1, <2>2, <2>4, <2>5, <2>6, <2>7
    <3>2. passed[q] = passed[p]
      BY <3>1 DEF Before
    <3>3. QED
      BY <2>3, <3>2 DEF q
  <2>8. CASE ~(i <= j)
    <3>1. j <= i /\ j <= j
      BY <2>2, <2>8
    <3>2. log[p][j].passed = passed[q] /\ Before(path, log, p, j)
      BY <2>2, <2>4, <2>5, <2>6, <3>1
    <3>3. QED
      BY <3>2 DEF Before, q
  <2>9. QED
    BY <2>7, <2>8
<1>2. IInv => VerdictsAgree
  BY <1>1 DEF VerdictsAgree
<1>3. QED
  BY <1>2, Walked, PTL

\* No check fails while every mac entered fits, however often a full buffer
\* is checked early.
THEOREM ChecksOfFittingPass == Spec => []NoFalseAlarm
<1>1. IInv => NoFalseAlarm
  BY DEF IInv, Together, Clean, NoFalseAlarm
<1>2. QED
  BY <1>1, Walked, PTL

-----------------------------------------------------------------------------
\* Where a rank is between a digest and its comparison.

\* Of what a rank has to do, T, the first k steps end a comparison that has
\* begun (none if k is 0): its digest, M, is what the buffer holds, or the
\* buffer was cleared when it was taken.
UnderWay(T, k) ==
  k >= 1 => T[k].do = "compare" /\ \A j \in 1 .. k - 1 : T[j].do \in Messages
Taken(T, k, B, M) ==
  /\ k = 0 => M = <<>>
  /\ k >= 1 => IF T[k].tag = "check" THEN B["check"] = <<>> ELSE M = B[T[k].tag]
NowNext(T, k, B) ==
  B["now"] # <<>> =>
    IF k = 0 THEN T # <<>> /\ T[1].do = "digest" /\ T[1].tag = "now"
    ELSE T[k].tag = "now"
Open(T, k, B, M) ==
  /\ k \in 0 .. Len(T) /\ ClosedFrom(T, k)
  /\ UnderWay(T, k) /\ Taken(T, k, B, M) /\ NowNext(T, k, B)

\* A digest further on stays linked to its comparison.
LEMMA LinkedTail ==
  ASSUME NEW T \in Seq(Steps), T # <<>>, NEW i \in 1 .. Len(T), i >= 2, Linked(T, i)
  PROVE  Linked(Tail(T), i - 1)
<1>1. /\ Len(T) \in Nat /\ Len(Tail(T)) = Len(T) - 1
      /\ \A j \in 1 .. Len(T) - 1 : Tail(T)[j] = T[j + 1]
  BY HeadTail
<1>2. /\ i + 5 \in 1 .. Len(T) /\ T[i].do = "digest" /\ T[i + 5].do = "compare"
      /\ T[i + 5].tag = T[i].tag /\ \A j \in i + 1 .. i + 4 : T[j].do \in Messages
  BY DEF Linked
<1> DEFINE U == Tail(T)
<1> HIDE DEF U
<1>3. /\ i - 1 \in 1 .. Len(T) - 1 /\ (i - 1) + 1 = i
      /\ (i - 1) + 5 \in 1 .. Len(T) - 1 /\ ((i - 1) + 5) + 1 = i + 5
  BY <1>1, <1>2
<1>4. U[i - 1] = T[i] /\ U[(i - 1) + 5] = T[i + 5]
  BY <1>1, <1>3 DEF U
<1>5. ASSUME NEW j \in (i - 1) + 1 .. (i - 1) + 4
      PROVE  U[j].do \in Messages
  <2>1. j \in 1 .. Len(T) - 1 /\ j + 1 \in i + 1 .. i + 4
    BY <1>1, <1>2
  <2>2. U[j] = T[j + 1]
    BY <1>1, <2>1 DEF U
  <2>3. QED
    BY <1>2, <2>1, <2>2
<1>6. QED
  BY <1>1, <1>2, <1>3, <1>4, <1>5 DEF Linked, U

\* What is closed from a position on is closed from there without the first
\* step.
LEMMA ClosedTail ==
  ASSUME NEW T \in Seq(Steps), T # <<>>, NEW k \in Nat, NEW m \in Nat, m + 1 >= k,
         ClosedFrom(T, k),
         \A i \in 1 .. Len(T) : i > m + 1 /\ T[i].do = "compare" => i - 5 > m + 1
  PROVE  ClosedFrom(Tail(T), m)
<1>1. /\ Len(T) \in Nat /\ Len(Tail(T)) = Len(T) - 1
      /\ \A j \in 1 .. Len(T) - 1 : Tail(T)[j] = T[j + 1]
  BY HeadTail
<1> DEFINE U == Tail(T)
<1> HIDE DEF U
<1>2. ASSUME NEW i \in 1 .. Len(U), i > m
      PROVE  ClosedAt(U, m, i)
  <2>1. i \in 1 .. Len(T) - 1 /\ i + 1 \in 1 .. Len(T) /\ i + 1 > k /\ i + 1 > m + 1
    BY <1>1, <1>2 DEF U
  <2>2. ClosedAt(T, k, i + 1) /\ U[i] = T[i + 1]
    BY <1>1, <2>1 DEF ClosedFrom, U
  <2>3. U[i].do = "digest" => Linked(U, i)
    <3>1. ASSUME U[i].do = "digest"
          PROVE  Linked(U, i)
      <4>1. Linked(T, i + 1) /\ i + 1 >= 2 /\ (i + 1) - 1 = i
        BY <2>1, <2>2, <3>1 DEF ClosedAt
      <4>2. Linked(U, (i + 1) - 1)
        BY <2>1, <4>1, LinkedTail DEF U
      <4>3. QED
        BY <4>1, <4>2
    <3>2. QED
      BY <3>1
  <2>4. U[i].do = "compare" => i - 5 > m /\ Linked(U, i - 5)
    <3>1. ASSUME U[i].do = "compare"
          PROVE  i - 5 > m /\ Linked(U, i - 5)
      <4>1. Linked(T, (i + 1) - 5) /\ (i + 1) - 5 > m + 1
        BY <2>1, <2>2, <3>1 DEF ClosedAt
      <4>2. /\ (i + 1) - 5 \in 1 .. Len(T) /\ (i + 1) - 5 >= 2
            /\ ((i + 1) - 5) - 1 = i - 5 /\ i - 5 > m
        BY <1>1, <2>1, <4>1
      <4>3. Linked(U, ((i + 1) - 5) - 1)
        BY <4>1, <4>2, LinkedTail DEF U
      <4>4. QED
        BY <4>2, <4>3
    <3>2. QED
      BY <3>1
  <2>5. PushesNow(U, i) =>
          i < Len(U) /\ U[i + 1].do = "digest" /\ U[i + 1].tag = "now"
    <3>1. ASSUME PushesNow(U, i)
          PROVE  i < Len(U) /\ U[i + 1].do = "digest" /\ U[i + 1].tag = "now"
      <4>1. /\ i + 1 < Len(T) /\ T[(i + 1) + 1].do = "digest"
            /\ T[(i + 1) + 1].tag = "now"
        BY <2>2, <3>1 DEF ClosedAt, PushesNow
      <4>2. i + 1 \in 1 .. Len(T) - 1 /\ i < Len(T) - 1
        BY <1>1, <2>1, <4>1
      <4>3. QED
        BY <1>1, <4>1, <4>2 DEF U
    <3>2. QED
      BY <3>1
  <2>6. QED
    BY <2>3, <2>4, <2>5 DEF ClosedAt
<1>3. QED
  BY <1>2 DEF ClosedFrom, U

\* The first step: within a comparison, a digest, or neither.
LEMMA OpenTail ==
  ASSUME NEW T \in Seq(Steps), T # <<>>, NEW k \in 0 .. Len(T), ClosedFrom(T, k),
         UnderWay(T, k)
  PROVE  /\ k >= 1 => ClosedFrom(Tail(T), k - 1)
         /\ k >= 2 => T[1].do \in Messages
         /\ k = 1 => T[1].do = "compare"
         /\ k = 0 /\ T[1].do = "digest" => Linked(T, 1) /\ ClosedFrom(Tail(T), 5)
         /\ k = 0 /\ T[1].do # "digest" => Closed(Tail(T))
         /\ k = 0 => T[1].do # "compare"
<1>1. Len(T) \in Nat \ {0} /\ 1 \in 1 .. Len(T) /\ k \in Nat
  BY HeadTail
<1>2. /\ \A i \in 1 .. Len(T) : i > k => ClosedAt(T, k, i)
      /\ k >= 1 => T[k].do = "compare" /\ \A j \in 1 .. k - 1 : T[j].do \in Messages
  BY DEF ClosedFrom, UnderWay
<1>3. ASSUME k >= 1
      PROVE  ClosedFrom(Tail(T), k - 1)
  <2>1. \A i \in 1 .. Len(T) :
          i > (k - 1) + 1 /\ T[i].do = "compare" => i - 5 > (k - 1) + 1
    <3>1. (k - 1) + 1 = k
      BY <1>1
    <3>2. QED
      BY <1>2, <3>1 DEF ClosedAt
  <2>2. k - 1 \in Nat /\ (k - 1) + 1 >= k
    BY <1>1, <1>3
  <2>3. QED
    BY <1>1, <2>1, <2>2, ClosedTail
<1>4. /\ k >= 2 => T[1].do \in Messages
      /\ k = 1 => T[1].do = "compare"
  BY <1>1, <1>2
<1>5. ASSUME k = 0, T[1].do = "compare"
      PROVE  FALSE
  <2>1. ClosedAt(T, 0, 1)
    BY <1>1, <1>2, <1>5
  <2>2. 1 - 5 > 0
    BY <1>5, <2>1 DEF ClosedAt
  <2>3. QED
    BY <2>2
<1>6. ASSUME k = 0, T[1].do = "digest"
      PROVE  Linked(T, 1) /\ ClosedFrom(Tail(T), 5)
  <2>1. Linked(T, 1)
    BY <1>1, <1>2, <1>6 DEF ClosedAt
  <2>2. T[6].do = "compare" /\ \A j \in 2 .. 5 : T[j].do \in Messages
    BY <2>1 DEF Linked
  <2>3. ASSUME NEW i \in 1 .. Len(T), i > 5 + 1, T[i].do = "compare"
        PROVE  i - 5 > 5 + 1
    <3>1. Linked(T, i - 5) /\ i - 5 \in 2 .. Len(T)
      BY <1>1, <1>2, <1>6, <2>3 DEF ClosedAt
    <3>2. T[i - 5].do = "digest"
      BY <3>1 DEF Linked
    <3>3. i - 5 # 6 /\ i - 5 \notin 2 .. 5
      BY <2>2, <3>2 DEF Messages
    <3>4. QED
      BY <3>1, <3>3
  <2>4. ClosedFrom(T, 0) /\ 5 \in Nat /\ 0 \in Nat /\ 5 + 1 >= 0
    BY <1>6
  <2>5. QED
    BY <2>1, <2>3, <2>4, ClosedTail
<1>7. ASSUME k = 0, T[1].do # "digest"
      PROVE  Closed(Tail(T))
  <2>1. ASSUME NEW i \in 1 .. Len(T), i > 0 + 1, T[i].do = "compare"
        PROVE  i - 5 > 0 + 1
    <3>1. Linked(T, i - 5) /\ i - 5 > 0 /\ i - 5 \in Int
      BY <1>1, <1>2, <1>7, <2>1 DEF ClosedAt
    <3>2. T[i - 5].do = "digest"
      BY <3>1 DEF Linked
    <3>3. i - 5 # 1
      BY <1>7, <3>2
    <3>4. QED
      BY <3>1, <3>3
  <2>2. ClosedFrom(T, 0) /\ 0 \in Nat /\ 0 + 1 >= 0
    BY <1>7
  <2>3. QED
    BY <2>1, <2>2, ClosedTail DEF Closed
<1>8. QED
  BY <1>3, <1>4, <1>5, <1>6, <1>7

\* What a step h does to a rank's buffers and digest, and what it grows to.
Handles(h, G, B, M, B2, M2) ==
  /\ h.do = "digest" =>
       /\ G = <<>> /\ M2 = B[h.tag]
       /\ \A b \in Buffers : B2[b] = IF b = "check" /\ h.tag = "check" THEN <<>> ELSE B[b]
  /\ h.do = "compare" =>
       /\ G = <<>> /\ M2 = <<>>
       /\ \A b \in Buffers : B2[b] = IF b = h.tag THEN <<>> ELSE B[b]
  /\ h.do \in Messages => G = <<>> /\ M2 = M /\ \A b \in Buffers : B2[b] = B[b]
  /\ h.do \notin {"digest", "compare"} => M2 = M
  /\ h.do # "push" \/ h.tag # "now" =>
       (h.do \notin {"digest", "compare"} => B2["now"] = B["now"])
  /\ h.do = "push" /\ h.tag = "now" => G = <<>>

\* A step takes a comparison that has begun one step further, or begins one.
LEMMA OpenKept ==
  ASSUME NEW T \in Seq(Steps), T # <<>>, NEW k \in 0 .. Len(T),
         NEW B, NEW M, NEW B2, NEW M2, Open(T, k, B, M),
         NEW G \in Seq(Steps), Closed(G), Handles(T[1], G, B, M, B2, M2)
  PROVE  \E k2 \in Nat : Open(G \o Tail(T), k2, B2, M2)
<1> DEFINE U == Tail(T)
<1>1. /\ Len(T) \in Nat \ {0} /\ U \in Seq(Steps) /\ Len(U) = Len(T) - 1
      /\ \A j \in 1 .. Len(T) - 1 : U[j] = T[j + 1]
      /\ 1 \in 1 .. Len(T) /\ k \in Nat
  BY HeadTail
<1>2. \A i \in 1 .. Len(T) : T[i] \in Steps
  OBVIOUS
<1>3. /\ ClosedFrom(T, k) /\ UnderWay(T, k) /\ Taken(T, k, B, M) /\ NowNext(T, k, B)
  BY DEF Open
<1>4. /\ k >= 1 => ClosedFrom(U, k - 1)
      /\ k >= 2 => T[1].do \in Messages
      /\ k = 1 => T[1].do = "compare"
      /\ k = 0 /\ T[1].do = "digest" => Linked(T, 1) /\ ClosedFrom(U, 5)
      /\ k = 0 /\ T[1].do # "digest" => Closed(U)
      /\ k = 0 => T[1].do # "compare"
  BY <1>3, OpenTail
<1> HIDE DEF U
<1>5. G = <<>> => G \o U = U
  BY <1>1
<1>6. \A i \in 1 .. Len(T) : T[i].do = "compare" \/ T[i].do = "digest" => T[i].tag \in Buffers
  BY <1>2, StepFacts DEF OnBuffers
<1>7. "now" \in Buffers /\ "check" \in Buffers
  BY DEF Buffers
<1>8. CASE k >= 2
  <2>1. PICK m \in Nat : m = k - 1 /\ m >= 1
    BY <1>1, <1>8
  <2>2. G = <<>> /\ M2 = M /\ \A b \in Buffers : B2[b] = B[b]
    BY <1>4, <1>8 DEF Handles
  <2>3. m \in 0 .. Len(U) /\ U[m] = T[k] /\ k \in 1 .. Len(T)
    BY <1>1, <1>8, <2>1
  <2>4. UnderWay(U, m)
    <3>1. ASSUME NEW j \in 1 .. m - 1
          PROVE  U[j].do \in Messages
      <4>1. j \in 1 .. Len(T) - 1 /\ j + 1 \in 1 .. k - 1
        BY <1>1, <2>1
      <4>2. QED
        BY <1>1, <1>3, <1>8, <4>1 DEF UnderWay
    <3>2. QED
      BY <1>3, <1>8, <2>3, <3>1 DEF UnderWay
  <2>5. T[k].tag \in Buffers
    BY <1>3, <1>6, <1>8, <2>3 DEF UnderWay
  <2>6. Taken(U, m, B2, M2)
    BY <1>3, <1>7, <1>8, <2>1, <2>2, <2>3, <2>5 DEF Taken
  <2>7. NowNext(U, m, B2)
    BY <1>3, <1>7, <1>8, <2>1, <2>2, <2>3 DEF NowNext
  <2>8. ClosedFrom(U, m)
    BY <1>1, <1>4, <1>8, <2>1
  <2>9. QED
    BY <1>5, <2>2, <2>3, <2>4, <2>6, <2>7, <2>8 DEF Open, U
<1>9. CASE k = 1
  <2>1. T[1].do = "compare" /\ ClosedFrom(U, 0)
    BY <1>4, <1>9
  <2>2. G = <<>> /\ M2 = <<>> /\ \A b \in Buffers : B2[b] = IF b = T[1].tag THEN <<>> ELSE B[b]
    BY <2>1 DEF Handles
  <2>3. NowNext(U, 0, B2)
    BY <1>3, <1>7, <1>9, <2>2 DEF NowNext
  <2>4. UnderWay(U, 0) /\ Taken(U, 0, B2, M2) /\ 0 \in 0 .. Len(U)
    BY <1>1, <2>2 DEF UnderWay, Taken
  <2>5. QED
    BY <1>5, <2>1, <2>2, <2>3, <2>4 DEF Open, U
<1>10. CASE k = 0 /\ T[1].do = "digest"
  <2>1. Linked(T, 1) /\ ClosedFrom(U, 5)
    BY <1>4, <1>10
  <2>2. /\ 6 \in 1 .. Len(T) /\ T[6].do = "compare" /\ T[6].tag = T[1].tag
        /\ \A j \in 2 .. 5 : T[j].do \in Messages
    BY <2>1 DEF Linked
  <2>3. /\ 5 \in 0 .. Len(U) /\ U[5] = T[6]
        /\ \A j \in 1 .. 4 : U[j] = T[j + 1] /\ j + 1 \in 2 .. 5
    BY <1>1, <2>2
  <2>4. /\ G = <<>> /\ M2 = B[T[1].tag]
        /\ \A b \in Buffers :
             B2[b] = IF b = "check" /\ T[1].tag = "check" THEN <<>> ELSE B[b]
    BY <1>10 DEF Handles
  <2>5. UnderWay(U, 5)
    BY <2>2, <2>3 DEF UnderWay
  <2>6. T[1].tag \in Buffers
    BY <1>1, <1>6, <1>10
  <2>7. Taken(U, 5, B2, M2)
    BY <1>7, <2>2, <2>3, <2>4, <2>6 DEF Taken
  <2>8. NowNext(U, 5, B2)
    BY <1>3, <1>7, <1>10, <2>2, <2>3, <2>4 DEF NowNext
  <2>9. QED
    BY <1>5, <2>1, <2>3, <2>4, <2>5, <2>7, <2>8 DEF Open, U
<1>11. CASE k = 0 /\ T[1].do # "digest"
  <2>1. T[1].do # "compare" /\ Closed(U) /\ M = <<>>
    BY <1>3, <1>4, <1>11 DEF Taken
  <2>2. M2 = <<>>
    BY <1>11, <2>1 DEF Handles
  <2> DEFINE V == G \o U
  <2>3. V \in Seq(Steps) /\ Len(V) \in Nat /\ ClosedFrom(V, 0)
    BY <1>1, <2>1, ClosedConcat, ConcatProperties DEF Closed
  <2>4. NowNext(V, 0, B2)
    <3>1. CASE T[1].do = "push" /\ T[1].tag = "now"
      <4>1. V = U
        BY <1>5, <3>1 DEF Handles
      <4>2. 1 < Len(T) /\ T[2].do = "digest" /\ T[2].tag = "now"
        BY <1>1, <1>3, <1>11, <3>1 DEF ClosedFrom, ClosedAt, PushesNow
      <4>3. U[1] = T[2] /\ Len(U) >= 1
        BY <1>1, <4>2
      <4> HIDE DEF V
      <4>4. V # <<>>
        BY <4>1, <4>3
      <4>5. QED
        BY <4>1, <4>2, <4>3, <4>4 DEF NowNext
    <3>2. CASE T[1].do # "push" \/ T[1].tag # "now"
      <4>1. B2["now"] = B["now"]
        BY <1>11, <2>1, <3>2 DEF Handles
      <4>2. B["now"] = <<>>
        BY <1>3, <1>11 DEF NowNext
      <4>3. QED
        BY <4>1, <4>2 DEF NowNext
    <3>3. QED
      BY <3>1, <3>2
  <2> HIDE DEF V
  <2>5. UnderWay(V, 0) /\ Taken(V, 0, B2, M2) /\ 0 \in 0 .. Len(V)
    BY <2>2, <2>3 DEF UnderWay, Taken
  <2>6. Open(V, 0, B2, M2)
    BY <2>3, <2>4, <2>5 DEF Open
  <2>7. QED
    BY <2>6 DEF V, U
<1>12. QED
  BY <1>1, <1>8, <1>9, <1>10, <1>11

-----------------------------------------------------------------------------
\* What a check is made of.

\* What a check is made of enters nothing into a check buffer.
Quiets ==
  {"RandA", "RandomAuth", "RandomSet", "RandomGet", "cr.DelayCheck",
   "prot.DelayCheck", "NdssDelayCheck"}
Quiet(s) == s.do \notin {"push", "combine"} /\ (s.do = "call" => s.tag \in Quiets)
QuietSteps == {s \in Steps : Quiet(s)}

\* The buffers the last checks of a program look at, and which looks at which.
Checked == {"ndss", "check", "delay", "double"}
CheckOf(b) ==
  IF b = "ndss" THEN "NdssDelayCheck"
  ELSE IF b = "check" THEN "prot.DelayCheck" ELSE "cr.DelayCheck"
Checks(s, b) ==
  \/ s.do = "compare" /\ s.tag = b
  \/ s.do = "call" /\ s.tag = CheckOf(b)

\* Of what a rank has to do, T, nothing is entered into buffer b after its last
\* check; E is what the buffer holds.
Covered(T, b, E) ==
  \E i \in 0 .. Len(T) :
    /\ i = 0 => E = <<>>
    /\ i >= 1 => Checks(T[i], b)
    /\ \A j \in i + 1 .. Len(T) : Quiet(T[j])

\* Scripts of quiet steps.
LEMMA QuietFacts ==
  /\ <<>> \in Seq(QuietSteps) /\ Seq(QuietSteps) \subseteq Seq(Steps)
  /\ \A s, t \in Seq(QuietSteps) : s \o t \in Seq(QuietSteps)
  /\ \A e \in QuietSteps : <<e>> \in Seq(QuietSteps)
  /\ \A e, f \in QuietSteps : <<e, f>> \in Seq(QuietSteps)
  /\ \A k \in Int, s \in Seq(QuietSteps) : Times(k, s) \in Seq(QuietSteps)
<1>1. \A k \in Int, s \in Seq(QuietSteps) : Times(k, s) \in Seq(QuietSteps)
  <2>1. ASSUME NEW k \in Int, NEW s \in Seq(QuietSteps)
        PROVE  Times(k, s) \in Seq(QuietSteps)
    <3> DEFINE F == [i \in 1 .. k |-> s]
    <3>1. CASE k <= 0
      <4>1. F = <<>>
        BY <3>1
      <4>2. <<>> \in Seq(QuietSteps)
        OBVIOUS
      <4>3. QED
        BY <4>1, <4>2, FlattenFacts DEF Times
    <3>2. CASE k > 0
      <4>1. F \in Seq(Seq(QuietSteps))
        BY <3>2
      <4>2. QED
        BY <4>1, FlattenFacts DEF Times
    <3>3. QED
      BY <3>1, <3>2
  <2>2. QED
    BY <2>1
<1>2. \A s, t \in Seq(QuietSteps) : s \o t \in Seq(QuietSteps)
  OBVIOUS
<1>3. Seq(QuietSteps) \subseteq Seq(Steps)
  <2>1. QuietSteps \subseteq Steps
    BY DEF QuietSteps
  <2>2. QED
    BY <2>1
<1>4. /\ \A e \in QuietSteps : <<e>> \in Seq(QuietSteps)
      /\ \A e, f \in QuietSteps : <<e, f>> \in Seq(QuietSteps)
  OBVIOUS
<1>5. QED
  BY <1>1, <1>2, <1>3, <1>4

\* Messages are quiet.
LEMMA QuietMessages ==
  ASSUME NEW p \in Ranks
  PROVE  /\ \A tag \in Purposes, n \in Int :
              /\ Send(tag, n) \in Seq(QuietSteps) /\ Recv(tag, n) \in Seq(QuietSteps)
              /\ Exchange(p, tag, n) \in Seq(QuietSteps)
         /\ SyncSeed(p) \in Seq(QuietSteps)
         /\ \A s \in Ranks, n \in Int : OtCall(p, s, n) \in Seq(QuietSteps)
<1>1. ASSUME NEW do \in Messages, NEW ch \in Channels, NEW tag \in Purposes, NEW n \in Int
      PROVE  Step(do, ch, tag, n) \in QuietSteps
  <2>1. Legal(Step(do, ch, tag, n)) /\ Quiet(Step(do, ch, tag, n))
    BY DEF Legal, Step, Messages, OnBuffers, Quiet
  <2>2. tag \in Tags
    BY DEF Tags
  <2>3. QED
    BY <2>1, <2>2, StepTypes DEF QuietSteps
<1>2. "main" \in Channels /\ "send" \in Messages /\ "recv" \in Messages
  BY DEF Channels, Messages
<1>3. \A tag \in Purposes, n \in Int :
        /\ Send(tag, n) \in Seq(QuietSteps) /\ Recv(tag, n) \in Seq(QuietSteps)
  BY <1>1, <1>2, QuietFacts DEF Send, Recv
<1>4. \A tag \in Purposes, n \in Int : Exchange(p, tag, n) \in Seq(QuietSteps)
  BY <1>3, QuietFacts DEF Exchange
<1>5. SyncSeed(p) \in Seq(QuietSteps)
  BY <1>4, QuietFacts, PurposeFacts DEF SyncSeed, ExchangeWithCommit
<1>6. ASSUME NEW s \in Ranks, NEW n \in Int
      PROVE  OtCall(p, s, n) \in Seq(QuietSteps)
  <2>1. OtChannel(p, s) \in Channels
    BY DEF OtChannel, Channels, Adapters, Spawned, Ranks, Peer
  <2>2. /\ Step("recv", OtChannel(p, s), "choices", n) \in QuietSteps
        /\ Step("send", OtChannel(p, s), "messages", n) \in QuietSteps
        /\ Step("send", OtChannel(p, s), "choices", n) \in QuietSteps
        /\ Step("recv", OtChannel(p, s), "messages", n) \in QuietSteps
    BY <1>1, <1>2, <2>1, PurposeFacts
  <2>3. QED
    BY <2>2, QuietFacts DEF OtCall
<1>7. QED
  BY <1>3, <1>4, <1>5, <1>6

\* So are the calls a check makes, and its enforcement.
LEMMA QuietCalls ==
  ASSUME NEW p \in Ranks
  PROVE  /\ \A f \in Quiets, n \in Nat : Call(f, n) \in Seq(QuietSteps)
         /\ \A b \in CheckBuffers : Local("enforce", b, 0) \in Seq(QuietSteps)
         /\ \A b \in CheckBuffers : CompareDigests(p, b) \in Seq(QuietSteps)
<1>1. ASSUME NEW f \in Quiets, NEW n \in Nat
      PROVE  Call(f, n) \in Seq(QuietSteps)
  <2>1. f \in Functions /\ f \notin OfTwo
    <3>1. \/ f \in Whole \cup WholeStateful
          \/ f \in {"RandomSet", "RandomGet"}
      BY DEF Quiets, Whole, WholeStateful
    <3>2. <<"RandomSet", "RandomGet">> \in Twins /\ <<"RandomGet", "RandomSet">> \in Twins
      <4>1. <<"RandomSet", "RandomGet">> \in HalvesStateful
        BY DEF HalvesStateful
      <4>2. QED
        BY <4>1, TwinFacts
    <3>3. PICK g : <<f, g>> \in Twins
      BY <3>1, <3>2, TwinFacts
    <3>4. f \in Functions
      BY <3>3 DEF Functions
    <3>5. QED
      BY <3>4 DEF Quiets, OfTwo
  <2>2. Legal(Step("call", "main", f, n)) /\ Quiet(Step("call", "main", f, n))
    BY <2>1 DEF Legal, Step, Messages, OnBuffers, Quiet
  <2>3. f \in Tags /\ "main" \in Channels
    BY <2>1 DEF Tags, Channels
  <2>4. Step("call", "main", f, n) \in QuietSteps
    BY <2>2, <2>3, StepTypes DEF QuietSteps
  <2>5. QED
    BY <2>4, QuietFacts DEF Call
<1>2. ASSUME NEW do \in {"digest", "compare", "enforce"}, NEW b \in CheckBuffers
      PROVE  Local(do, b, 0) \in Seq(QuietSteps)
  <2>1. Legal(Step(do, "main", b, 0)) /\ Quiet(Step(do, "main", b, 0)) /\ do \in OnBuffers
    BY DEF Legal, Step, Messages, OnBuffers, Quiet
  <2>2. b \in Tags /\ "main" \in Channels
    BY DEF Tags, Channels
  <2>3. Step(do, "main", b, 0) \in QuietSteps
    BY <2>1, <2>2, StepTypes DEF QuietSteps
  <2>4. QED
    BY <2>3, QuietFacts DEF Local
<1>3. ASSUME NEW b \in CheckBuffers
      PROVE  CompareDigests(p, b) \in Seq(QuietSteps)
  BY <1>2, QuietMessages, QuietFacts, PurposeFacts DEF CompareDigests, ExchangeWithCommit
<1>4. QED
  BY <1>1, <1>2, <1>3

\* An extension of a VOLE adapter only exchanges messages.
LEMMA QuietBootstrap ==
  ASSUME NEW p \in Ranks
  PROVE  /\ BootstrapSend(p) \in Seq(QuietSteps)
         /\ BootstrapRecv(p) \in Seq(QuietSteps)
<1>1. NoiseNum \in Int /\ Peer(p) \in Ranks
  BY ScriptsAssumption, PeerFacts
<1>2. \A tag \in Purposes, n \in Int :
        Send(tag, n) \in Seq(QuietSteps) /\ Recv(tag, n) \in Seq(QuietSteps)
  BY QuietMessages
<1>3. MpVoleSend \in Seq(QuietSteps) /\ MpVoleRecv \in Seq(QuietSteps)
  <2>1. /\ Recv("choices", 1) \o Send("GGM_tree", 1) \in Seq(QuietSteps)
        /\ Send("choices", 1) \o Recv("GGM_tree", 1) \in Seq(QuietSteps)
    BY <1>2, QuietFacts, PurposeFacts
  <2>2. QED
    BY <1>1, <1>2, <2>1, QuietFacts, PurposeFacts DEF MpVoleSend, MpVoleRecv
<1>4. /\ SyncSeed(p) \in Seq(QuietSteps)
      /\ OtCall(p, p, NoiseNum) \in Seq(QuietSteps)
      /\ OtCall(p, Peer(p), NoiseNum) \in Seq(QuietSteps)
  BY <1>1, QuietMessages
<1>5. /\ Send("MalVole", 1) \in Seq(QuietSteps) /\ Recv("MalVole", 1) \in Seq(QuietSteps)
      /\ Send("MalVoleHash", 1) \in Seq(QuietSteps)
      /\ Recv("MalVoleHash", 1) \in Seq(QuietSteps)
  BY <1>2, PurposeFacts
<1>6. QED
  BY <1>3, <1>4, <1>5, QuietFacts DEF BootstrapSend, BootstrapRecv

\* What is quiet grows to what is quiet.
LEMMA QuietGrown ==
  ASSUME NEW p \in Ranks, NEW c \in Controls, NEW h \in Steps, Quiet(h)
  PROVE  Grown(p, c, h) \in Seq(QuietSteps)
<1>1. CASE h.do # "call"
  BY <1>1, QuietFacts DEF Grown, Quiet
<1>2. CASE h.do = "call"
  <2>1. h.tag \in Quiets /\ h.num \in Nat /\ Grown(p, c, h) = GrownCall(p, c, h.tag, h.num)
    BY <1>2, StepFacts DEF Grown, Quiet
  <2>2. PICK n \in Nat : n = h.num
    BY <2>1
  <2>3. CASE h.tag = "RandA"
    <3>1. /\ Call("RandomAuth", n) \in Seq(QuietSteps)
          /\ Call("cr.DelayCheck", 0) \in Seq(QuietSteps)
          /\ Local("enforce", "delay", 0) \in Seq(QuietSteps)
      BY QuietCalls, BufferFacts DEF Quiets
    <3>2. RandA(n) \in Seq(QuietSteps)
      BY <3>1, QuietFacts DEF RandA, Request
    <3>3. Script(p, "RandA", n) = RandA(n) /\ "RandA" \notin Stateful
      BY DEF Script, Stateful
    <3>4. QED
      BY <2>1, <2>2, <2>3, <3>2, <3>3 DEF GrownCall
  <2>4. CASE h.tag = "RandomAuth"
    <3>1. /\ Call("RandomSet", n) \in Seq(QuietSteps)
          /\ Call("RandomGet", n) \in Seq(QuietSteps)
      BY QuietCalls DEF Quiets
    <3>2. RandomAuth(p, n) \in Seq(QuietSteps)
      BY <3>1, QuietFacts DEF RandomAuth
    <3>3. Script(p, "RandomAuth", n) = RandomAuth(p, n) /\ "RandomAuth" \notin Stateful
      BY DEF Script, Stateful
    <3>4. QED
      BY <2>1, <2>2, <2>4, <3>2, <3>3 DEF GrownCall
  <2>5. CASE h.tag \in {"RandomSet", "RandomGet"}
    <3>1. Wanting(p, c, h.tag, n) \in Int
      <4>1. KindOf(h.tag) \in Kinds /\ ReceiverOf(p, h.tag) \in Ranks
        BY PeerFacts DEF KindOf, Kinds, ReceiverOf
      <4>2. QED
        BY <4>1, LackingFacts DEF Wanting, Controls, Lefts
    <3>2. GrownServed(p, c, h.tag, n) \in Seq(QuietSteps)
      BY <3>1, QuietBootstrap, QuietFacts DEF GrownServed
    <3>3. h.tag \in VoleCalls /\ h.tag \in Stateful
      BY <2>5 DEF VoleCalls, Stateful
    <3>4. QED
      BY <2>1, <2>2, <3>2, <3>3 DEF GrownCall
  <2>6. CASE h.tag = "cr.DelayCheck"
    <3>1. GrownCr(p, c) \in Seq(QuietSteps)
      BY QuietCalls, QuietFacts, BufferFacts DEF GrownCr
    <3>2. QED
      BY <2>1, <2>6, <3>1 DEF GrownCall, Stateful, VoleCalls
  <2>7. CASE h.tag = "prot.DelayCheck"
    <3>1. GrownProtocol(p, c) \in Seq(QuietSteps)
      BY QuietCalls, QuietFacts, BufferFacts DEF GrownProtocol
    <3>2. QED
      BY <2>1, <2>7, <3>1 DEF GrownCall, Stateful, VoleCalls
  <2>8. CASE h.tag = "NdssDelayCheck"
    <3>1. /\ SyncSeed(p) \in Seq(QuietSteps) /\ Call("RandA", 1) \in Seq(QuietSteps)
          /\ Exchange(p, "combination", 1) \in Seq(QuietSteps)
          /\ CompareDigests(p, "ndss") \in Seq(QuietSteps)
      BY QuietCalls, QuietMessages, BufferFacts, PurposeFacts DEF Quiets
    <3>2. GrownNdss(p, c) \in Seq(QuietSteps)
      BY <3>1, QuietFacts DEF GrownNdss
    <3>3. QED
      BY <2>1, <2>8, <3>2 DEF GrownCall, Stateful, VoleCalls
  <2>9. QED
    BY <2>1, <2>3, <2>4, <2>5, <2>6, <2>7, <2>8 DEF Quiets
<1>3. QED
  BY <1>1, <1>2

\* A check of a buffer that holds something grows to a comparison of it.
LEMMA ChecksGrown ==
  ASSUME NEW p \in Ranks, NEW c \in Controls, NEW h \in Steps, NEW b \in Checked,
         h.do = "call", h.tag = CheckOf(b), c.sizes[b] # <<>>
  PROVE  \E g \in 1 .. Len(Grown(p, c, h)) : Checks(Grown(p, c, h)[g], b)
<1> DEFINE C(a) == CompareDigests(p, a)
           G == Grown(p, c, h)
<1>1. ASSUME NEW a \in CheckBuffers
      PROVE  /\ C(a) \in Seq(Steps) /\ Len(C(a)) = 6
             /\ C(a)[6].do = "compare" /\ C(a)[6].tag = a
  <2>1. C(a) \in Seq(Steps) /\ Len(C(a)) = 6 /\ C(a)[6] = Step("compare", "main", a, 0)
    BY CompareSteps
  <2>2. QED
    BY <2>1 DEF Step
<1> HIDE DEF C
<1>2. Checked \subseteq CheckBuffers
  BY DEF Checked, CheckBuffers
<1>3. G = GrownCall(p, c, h.tag, h.num)
  BY DEF Grown
<1> HIDE DEF G
<1>4. ASSUME NEW s \in Seq(Steps), NEW a \in CheckBuffers, NEW t \in Seq(Steps),
             G = (s \o C(a)) \o t
      PROVE  \E g \in 1 .. Len(G) : Checks(G[g], a)
  <2> DEFINE u == s \o C(a)
  <2>1. /\ u \in Seq(Steps) /\ Len(u) = Len(s) + Len(C(a)) /\ Len(s) \in Nat
        /\ \A i \in 1 .. Len(C(a)) : u[Len(s) + i] = C(a)[i]
    BY <1>1, StepsConcat
  <2> HIDE DEF u
  <2>2. Len(u) = Len(s) + 6 /\ u[Len(s) + 6] = C(a)[6]
    <3>1. Len(C(a)) = 6 /\ 6 \in 1 .. 6
      BY <1>1
    <3>2. QED
      BY <2>1, <3>1
  <2>3. /\ Len(u \o t) = Len(u) + Len(t)
        /\ \A i \in 1 .. Len(u) : (u \o t)[i] = u[i]
    BY <2>1, StepsConcat
  <2>6. Len(t) \in Nat
    OBVIOUS
  <2>4. Len(s) + 6 \in 1 .. Len(G) /\ G[Len(s) + 6] = C(a)[6]
    <3>1. Len(s) + 6 \in 1 .. Len(u) /\ Len(s) + 6 \in 1 .. Len(u) + Len(t)
      BY <2>1, <2>2, <2>3, <2>6
    <3>2. QED
      BY <1>4, <2>2, <2>3, <3>1 DEF u
  <2>5. QED
    BY <1>1, <2>4 DEF Checks
<1>5. /\ <<>> \in Seq(Steps) /\ \A s \in Seq(Steps) : s \o <<>> = s /\ <<>> \o s = s
  OBVIOUS
<1>6. CASE b = "ndss"
  <2> DEFINE s == SyncSeed(p) \o Call("RandA", 1) \o Exchange(p, "combination", 1)
  <2>1. G = s \o C("ndss")
    BY <1>3, <1>6 DEF GrownCall, Stateful, VoleCalls, CheckOf, GrownNdss, C
  <2>2. s \in Seq(Steps)
    <3>1. /\ SyncSeed(p) \in Seq(QuietSteps) /\ Call("RandA", 1) \in Seq(QuietSteps)
          /\ Exchange(p, "combination", 1) \in Seq(QuietSteps)
      BY QuietCalls, QuietMessages, PurposeFacts DEF Quiets
    <3>2. QED
      BY <3>1, QuietFacts
  <2> HIDE DEF s
  <2>3. "ndss" \in CheckBuffers /\ s \o C("ndss") \in Seq(Steps)
    BY <1>1, <2>2, BufferFacts, StepsConcat
  <2>4. G = (s \o C("ndss")) \o <<>>
    BY <1>5, <2>1, <2>3
  <2>5. QED
    BY <1>4, <1>5, <1>6, <2>2, <2>3, <2>4 DEF G
<1>7. CASE b = "check"
  <2>1. G = C("check")
    BY <1>3, <1>7 DEF GrownCall, Stateful, VoleCalls, CheckOf, GrownProtocol, C
  <2>2. G = (<<>> \o C("check")) \o <<>>
    BY <1>1, <1>5, <2>1, BufferFacts
  <2>3. QED
    BY <1>4, <1>5, <1>7, <2>2, BufferFacts DEF G
<1>8. CASE b \in {"delay", "double"}
  <2> DEFINE D == IF c.sizes["double"] = <<>> THEN <<>> ELSE C("double")
  <2>1. G = C("delay") \o D
    BY <1>3, <1>8 DEF GrownCall, Stateful, VoleCalls, CheckOf, GrownCr, C
  <2>2. D \in Seq(Steps) /\ C("delay") \in Seq(Steps)
    BY <1>1, <1>5, BufferFacts
  <2>3. CASE b = "delay"
    <3>1. G = (<<>> \o C("delay")) \o D
      BY <1>5, <2>1, <2>2
    <3>2. QED
      BY <1>4, <1>5, <2>2, <2>3, <3>1, BufferFacts DEF G
  <2>4. CASE b = "double"
    <3>1. G = C("delay") \o C("double")
      BY <2>1, <2>4
    <3>2. C("double") \in Seq(Steps) /\ C("delay") \o C("double") \in Seq(Steps)
      BY <1>1, <2>2, BufferFacts, StepsConcat
    <3>3. G = (C("delay") \o C("double")) \o <<>>
      BY <1>5, <3>1, <3>2
    <3>4. QED
      BY <1>4, <1>5, <2>2, <2>4, <3>3, BufferFacts DEF G
  <2>5. QED
    BY <1>8, <2>3, <2>4
<1>9. QED
  BY <1>6, <1>7, <1>8 DEF Checked, G

\* After a step the last check of a buffer is still to come, or has found it
\* empty.
LEMMA CoveredKept ==
  ASSUME NEW T \in Seq(Steps), T # <<>>, NEW b \in Checked, NEW E, NEW E2,
         Covered(T, b, E), NEW G \in Seq(Steps),
         Quiet(T[1]) => G \in Seq(QuietSteps) /\ (E = <<>> => E2 = <<>>),
         Checks(T[1], b) => E2 = <<>> \/ \E g \in 1 .. Len(G) : Checks(G[g], b)
  PROVE  Covered(G \o Tail(T), b, E2)
<1> DEFINE U == Tail(T)
           V == G \o U
<1>1. /\ Len(T) \in Nat \ {0} /\ U \in Seq(Steps) /\ Len(U) = Len(T) - 1
      /\ \A j \in 1 .. Len(T) - 1 : U[j] = T[j + 1]
  BY HeadTail
<1> HIDE DEF U
<1>11. Len(G) \in Nat /\ Len(U) \in Nat
  BY <1>1
<1>2. /\ V \in Seq(Steps) /\ Len(V) = Len(G) + Len(U)
      /\ \A i \in 1 .. Len(G) : V[i] = G[i]
      /\ \A i \in 1 .. Len(U) : V[Len(G) + i] = U[i]
  BY <1>1, StepsConcat
<1> HIDE DEF V
<1> SUFFICES Covered(V, b, E2)
  BY DEF V, U
<1>3. PICK i \in 0 .. Len(T) :
        /\ i = 0 => E = <<>>
        /\ i >= 1 => Checks(T[i], b)
        /\ \A j \in i + 1 .. Len(T) : Quiet(T[j])
  BY DEF Covered
<1>4. PICK m \in Nat : m = Len(G)
  BY <1>11
<1>5. PICK n \in Nat : n = Len(T) /\ n >= 1
  BY <1>1
<1>6. \A j \in 1 .. n - 1 : V[m + j] = T[j + 1]
  BY <1>1, <1>2, <1>4, <1>5
<1>7. Len(V) = m + n - 1
  BY <1>1, <1>2, <1>4, <1>5
<1>8. CASE i >= 2
  <2>1. /\ m + (i - 1) \in 1 .. Len(V) /\ V[m + (i - 1)] = T[i]
    BY <1>3, <1>5, <1>6, <1>7, <1>8
  <2>2. ASSUME NEW j \in m + (i - 1) + 1 .. Len(V)
        PROVE  Quiet(V[j])
    <3>1. j - m \in 1 .. n - 1 /\ m + (j - m) = j /\ (j - m) + 1 \in i + 1 .. n
      BY <1>3, <1>5, <1>7, <1>8
    <3>2. V[j] = T[(j - m) + 1]
      BY <1>6, <3>1
    <3>3. QED
      BY <1>3, <1>5, <3>1, <3>2
  <2>3. PICK k \in Nat : k = m + (i - 1) /\ k >= 1
    BY <2>1
  <2>4. k \in 0 .. Len(V) /\ Checks(V[k], b) /\ \A j \in k + 1 .. Len(V) : Quiet(V[j])
    BY <1>3, <1>7, <1>8, <2>1, <2>2, <2>3
  <2>5. QED
    BY <2>3, <2>4 DEF Covered
<1>9. CASE i <= 1
  <2>1. Checks(T[1], b) => Quiet(T[1])
    BY DEF Checks, Quiet, Checked, CheckOf, Quiets
  <2>2. Quiet(T[1]) /\ G \in Seq(QuietSteps)
    <3>1. CASE i = 1
      BY <1>3, <2>1, <3>1
    <3>2. CASE i = 0
      BY <1>3, <1>5, <3>2
    <3>3. QED
      BY <1>3, <1>9, <3>1, <3>2
  <2>3. \A j \in 1 .. m : G[j] \in QuietSteps /\ V[j] = G[j]
    BY <1>2, <1>4, <2>2
  <2>4. ASSUME NEW j \in 1 .. Len(V)
        PROVE  Quiet(V[j])
    <3>1. CASE j <= m
      BY <2>3, <3>1 DEF QuietSteps
    <3>2. CASE j > m
      <4>1. /\ j - m \in 1 .. n - 1 /\ m + (j - m) = j /\ (j - m) + 1 \in i + 1 .. n
        BY <1>3, <1>5, <1>7, <1>9, <3>2
      <4>2. V[j] = T[(j - m) + 1]
        BY <1>6, <4>1
      <4>3. QED
        BY <1>3, <1>5, <4>1, <4>2
    <3>3. QED
      BY <1>4, <3>1, <3>2
  <2>5. Len(V) \in Nat
    BY <1>5, <1>7
  <2>6. CASE E2 = <<>>
    <3>1. 0 \in 0 .. Len(V) /\ \A j \in 0 + 1 .. Len(V) : Quiet(V[j])
      BY <2>4, <2>5
    <3>2. QED
      BY <2>6, <3>1 DEF Covered
  <2>7. CASE E2 # <<>>
    <3>1. Checks(T[1], b)
      <4>1. i # 0
        BY <1>3, <2>2, <2>7
      <4>2. i = 1
        BY <1>3, <1>9, <4>1
      <4>3. QED
        BY <1>3, <4>2
    <3>2. PICK g \in 1 .. Len(G) : Checks(G[g], b)
      BY <2>7, <3>1
    <3>3. g \in 0 .. Len(V) /\ g >= 1 /\ V[g] = G[g] /\ g \in Nat
      BY <1>2, <1>4, <1>5, <1>7, <3>2
    <3>4. \A j \in g + 1 .. Len(V) : Quiet(V[j])
      BY <2>4, <3>3
    <3>5. QED
      BY <3>2, <3>3, <3>4 DEF Covered
  <2>8. QED
    BY <2>6, <2>7
<1>10. QED
  BY <1>3, <1>8, <1>9

-----------------------------------------------------------------------------
\* A rank's steps.

\* A rank that goes on does so with a closed script.
LEMMA MoveGrows ==
  ASSUME IInv, NEW p \in Ranks, Moves(p)
  PROVE  /\ todo[p] \in Seq(Steps) /\ todo[p] # <<>> /\ ended[p] = "no"
         /\ Head(todo[p]) = todo[p][1] /\ Head(todo[p]) \in Steps
         /\ \E c \in Controls :
              /\ Matches(p, c) /\ Took(p, c) /\ c.todo = todo[p]
              /\ Grown(p, c, Head(todo[p])) \in Seq(Steps)
              /\ Closed(Grown(p, c, Head(todo[p])))
<1>1. PICK path \in Paths, n \in Nat, at \in [Ranks -> Nat], log \in Logs,
           places \in Places : Together(path, n, at, log, places)
  BY DEF IInv
<1> DEFINE i == at[p]
           c == path[i][p]
           d == path[i][Peer(p)]
           h == Head(todo[p])
<1>2. /\ IsPath(path, n) /\ i \in 0 .. n /\ Matches(p, c) /\ Basics
      /\ Peer(p) \in Ranks
  BY <1>1, PeerFacts DEF Together, Walks, IInv
<1>3. c \in Controls /\ d \in Controls
  BY <1>2 DEF Paths
<1>4. Took(p, c)
  BY <1>2, <1>3, MovesTook
<1>5. c.todo # <<>> /\ todo[p] = c.todo /\ ended[p] = "no"
  BY <1>4 DEF Took
<1>6. StepAt(path, i, p) = h
  BY <1>5 DEF StepAt
<1>7. /\ StepAt(path, i, p) \in Steps /\ StepAt(path, i, Peer(p)) \in Steps
      /\ StepsFit(StepAt(path, i, p), StepAt(path, i, Peer(p)))
  BY <1>2, <1>5, PathFits
<1>8. d.left = c.left /\ d.sizes = c.sizes
  BY <1>2 DEF IsPath, Paired
<1>9. todo[p] \in Seq(Steps)
  BY <1>2 DEF Basics
<1> HIDE DEF i, c, d, h
<1>10. Fit(p, Grown(p, c, h), Grown(Peer(p), d, StepAt(path, i, Peer(p))))
  BY <1>3, <1>6, <1>7, <1>8, GrownFits
<1>11. Grown(p, c, h) \in Seq(Steps) /\ Closed(Grown(p, c, h))
  BY <1>10 DEF Fit, Match
<1>12. Head(todo[p]) = todo[p][1] /\ h \in Steps
  BY <1>5, <1>6, <1>7, <1>9, HeadTail DEF h
<1>13. QED
  BY <1>2, <1>3, <1>4, <1>5, <1>9, <1>11, <1>12 DEF h

\* What a step does to the rank's buffers and to its digest.
LEMMA MoveHandles ==
  ASSUME Basics, NEW p \in Ranks, Moves(p), NEW c, NEW h \in Steps, h = Head(todo[p])
  PROVE  /\ Handles(h, Grown(p, c, h), buf[p], mine[p], buf'[p], mine'[p])
         /\ \A r \in Ranks : r # p => buf'[r] = buf[r] /\ mine'[r] = mine[r]
         /\ Quiet(h) => \A b \in Buffers : buf'[p][b] \in {<<>>, buf[p][b]}
<1> DEFINE G == Grown(p, c, h)
<1>1. /\ DOMAIN buf = Ranks /\ buf[p] \in [Buffers -> Seq(Entries)]
      /\ DOMAIN mine = Ranks /\ "now" \in Buffers
  BY DEF Basics, Buffers
<1>2. h.do \notin {"call", "push", "combine"} => G = <<>>
  BY DEF Grown
<1>3. h.do = "push" /\ h.tag = "now" => G = <<>>
  BY DEF Grown, WhenFull
<1> HIDE DEF G
<1>4. CASE h.do = "push"
  <2>1. h.tag \in Buffers
    BY <1>4, StepFacts DEF OnBuffers
  <2>2. PICK by \in {Nobody, p} :
          buf' = [buf EXCEPT ![p][h.tag] = Append(buf[p][h.tag], Entry(h.num, by))]
    BY <1>4, MoveKinds DEF Push
  <2>3. mine' = mine
    BY <1>4, MoveKinds
  <2>4. h.tag # "now" => buf'[p]["now"] = buf[p]["now"]
    BY <1>1, <2>1, <2>2
  <2>5. \A r \in Ranks : r # p => buf'[r] = buf[r]
    BY <1>1, <2>2
  <2>6. ~Quiet(h)
    BY <1>4 DEF Quiet
  <2>7. QED
    BY <1>3, <1>4, <2>3, <2>4, <2>5, <2>6 DEF Handles, Messages, G
<1>5. CASE h.do = "combine"
  <2>1. PICK delay :
          buf' = [buf EXCEPT ![p]["line"] = <<>>, ![p]["delay"] = delay]
    BY <1>5, MoveKinds DEF Combine
  <2>2. mine' = mine
    BY <1>5, MoveKinds
  <2>3. /\ buf'[p]["now"] = buf[p]["now"]
        /\ \A r \in Ranks : r # p => buf'[r] = buf[r]
    BY <1>1, <2>1
  <2>4. ~Quiet(h)
    BY <1>5 DEF Quiet
  <2>5. QED
    BY <1>5, <2>2, <2>3, <2>4 DEF Handles, Messages, G
<1>6. CASE h.do = "digest"
  <2>1. /\ mine' = [mine EXCEPT ![p] = buf[p][h.tag]]
        /\ buf' = IF h.tag = "check" THEN [buf EXCEPT ![p]["check"] = <<>>] ELSE buf
    BY <1>6, MoveKinds DEF Digest, Hashed
  <2>2. /\ mine'[p] = buf[p][h.tag]
        /\ \A r \in Ranks : r # p => mine'[r] = mine[r]
    BY <1>1, <2>1
  <2>3. /\ \A b \in Buffers :
             buf'[p][b] = IF b = "check" /\ h.tag = "check" THEN <<>> ELSE buf[p][b]
        /\ \A r \in Ranks : r # p => buf'[r] = buf[r]
    <3>1. CASE h.tag = "check"
      BY <1>1, <2>1, <3>1
    <3>2. CASE h.tag # "check"
      BY <2>1, <3>2
    <3>3. QED
      BY <3>1, <3>2
  <2>4. QED
    BY <1>2, <1>6, <2>2, <2>3 DEF Handles, Messages, G
<1>7. CASE h.do = "compare"
  <2>1. /\ mine' = [mine EXCEPT ![p] = <<>>]
        /\ buf' = [buf EXCEPT ![p] =
             [b \in Buffers |-> IF b \in Cleared(p, h.tag) THEN <<>> ELSE @[b]]]
    BY <1>7, MoveKinds DEF Compare
  <2>2. mine'[p] = <<>> /\ \A r \in Ranks : r # p => mine'[r] = mine[r]
    BY <1>1, <2>1
  <2>3. /\ \A b \in Buffers : buf'[p][b] = IF b = h.tag THEN <<>> ELSE buf[p][b]
        /\ \A r \in Ranks : r # p => buf'[r] = buf[r]
    BY <1>1, <2>1 DEF Cleared
  <2>4. QED
    BY <1>2, <1>7, <2>2, <2>3 DEF Handles, Messages, G
<1>8. CASE h.do \notin {"push", "combine", "digest", "compare"}
  <2>1. buf' = buf /\ mine' = mine
    BY <1>8, MoveKinds
  <2>2. h.do \in Messages => G = <<>>
    BY <1>2 DEF Messages
  <2>3. QED
    BY <1>8, <2>1, <2>2 DEF Handles, G
<1>9. QED
  BY <1>4, <1>5, <1>6, <1>7, <1>8

\* A rank's comparison is under way, and every buffer it has a last check for
\* will be checked once more or is empty.
OpenTo(p) ==
  ended[p] = "no" =>
    /\ \E k \in Nat : Open(todo[p], k, buf[p], mine[p])
    /\ \A b \in Checked : Covered(todo[p], b, buf[p][b])

\* The rank's steps keep it so.
LEMMA OpenStays ==
  ASSUME IInv, NEW p \in Ranks, Moves(p), OpenTo(p)
  PROVE  OpenTo(p)'
<1>1. /\ todo[p] \in Seq(Steps) /\ todo[p] # <<>> /\ ended[p] = "no"
      /\ Head(todo[p]) = todo[p][1] /\ Head(todo[p]) \in Steps
  BY MoveGrows
<1>2. PICK c \in Controls :
        /\ Matches(p, c) /\ Took(p, c) /\ c.todo = todo[p]
        /\ Grown(p, c, Head(todo[p])) \in Seq(Steps)
        /\ Closed(Grown(p, c, Head(todo[p])))
  BY MoveGrows
<1> DEFINE T == todo[p]
           h == Head(todo[p])
           G == Grown(p, c, h)
<1>3. Basics /\ Checked \subseteq Buffers
  BY DEF IInv, Checked, Buffers
<1>4. todo'[p] = G \o Tail(T)
  BY <1>2, <1>3 DEF Took, Basics
<1>5. /\ Handles(h, G, buf[p], mine[p], buf'[p], mine'[p])
      /\ Quiet(h) => \A b \in Buffers : buf'[p][b] \in {<<>>, buf[p][b]}
  BY <1>1, <1>3, MoveHandles
<1> HIDE DEF T, h, G
<1>6. T \in Seq(Steps) /\ T # <<>> /\ h = T[1] /\ h \in Steps /\ G \in Seq(Steps) /\ Closed(G)
  BY <1>1, <1>2 DEF T, h, G
<1>7. \E k \in Nat : Open(G \o Tail(T), k, buf'[p], mine'[p])
  <2>1. PICK k \in Nat : Open(T, k, buf[p], mine[p])
    BY <1>1 DEF OpenTo, T
  <2>2. k \in 0 .. Len(T)
    BY <2>1 DEF Open
  <2>3. Handles(T[1], G, buf[p], mine[p], buf'[p], mine'[p])
    BY <1>5, <1>6
  <2>4. QED
    BY <1>6, <2>1, <2>2, <2>3, OpenKept
<1>8. ASSUME NEW b \in Checked
      PROVE  Covered(G \o Tail(T), b, buf'[p][b])
  <2>1. Covered(T, b, buf[p][b]) /\ b \in Buffers
    BY <1>1, <1>3, <1>8 DEF OpenTo, T
  <2>2. Quiet(T[1]) => G \in Seq(QuietSteps) /\ (buf[p][b] = <<>> => buf'[p][b] = <<>>)
    BY <1>5, <1>6, <2>1, QuietGrown DEF G
  <2>3. Checks(T[1], b) =>
          buf'[p][b] = <<>> \/ \E g \in 1 .. Len(G) : Checks(G[g], b)
    <3>1. CASE h.do = "compare" /\ h.tag = b
      BY <1>5, <2>1, <3>1 DEF Handles
    <3>2. CASE h.do = "call" /\ h.tag = CheckOf(b)
      <4>1. CASE c.sizes[b] # <<>>
        <5>1. \E g \in 1 .. Len(G) : Checks(G[g], b)
          BY <1>6, <3>2, <4>1, ChecksGrown DEF G
        <5>2. QED
          BY <5>1
      <4>2. CASE c.sizes[b] = <<>>
        <5>1. Of(buf[p][b]) = <<>> /\ buf[p][b] \in Seq(Entries)
          BY <1>2, <1>3, <2>1, <4>2 DEF Matches, Basics
        <5>2. buf[p][b] = <<>>
          BY <5>1, OfFacts
        <5>3. Quiet(h)
          BY <3>2 DEF Quiet, Quiets, CheckOf
        <5>4. QED
          BY <1>5, <2>1, <5>2, <5>3
      <4>3. QED
        BY <4>1, <4>2
    <3>3. QED
      BY <1>6, <3>1, <3>2 DEF Checks
  <2>4. QED
    BY <1>6, <2>1, <2>2, <2>3, CoveredKept
<1>9. QED
  BY <1>4, <1>7, <1>8 DEF OpenTo

-----------------------------------------------------------------------------
\* What the ranks enter and receive.

\* Entries of wrong macs of rank q at most, and of one at least.
By(entries, q) == \A i \in 1 .. Len(entries) : entries[i].by \in {Nobody, q}
Has(entries, q) == \E i \in 1 .. Len(entries) : entries[i].by = q

\* What a rank enters is its own, and what it receives its peer's.
Owned ==
  \A p \in Ranks :
    /\ \A b \in Buffers : By(buf[p][b], p)
    /\ By(mine[p], p) /\ By(theirs[p], Peer(p))
    /\ \A c \in Channels : \A i \in 1 .. Len(chan[p][c]) :
         By(chan[p][c][i].digest, Peer(p))

\* A wrong mac is in a check buffer or in a digest until a check has failed.
Kept ==
  wrong \in Ranks =>
    \/ failed[wrong] \/ Has(mine[wrong], wrong)
    \/ \E b \in Buffers : Has(buf[wrong][b], wrong)

\* One more entry.
LEMMA AppendFacts ==
  /\ \A q : By(<<>>, q) /\ ~Has(<<>>, q)
  /\ \A s \in Seq(Entries), e \in Entries : \A q :
       /\ By(s, q) /\ e.by \in {Nobody, q} => By(Append(s, e), q)
       /\ Has(s, q) \/ e.by = q => Has(Append(s, e), q)
<1>1. ASSUME NEW s \in Seq(Entries), NEW e \in Entries, NEW q
      PROVE  /\ By(s, q) /\ e.by \in {Nobody, q} => By(Append(s, e), q)
             /\ Has(s, q) \/ e.by = q => Has(Append(s, e), q)
  <2> DEFINE t == Append(s, e)
  <2>1. /\ Len(t) = Len(s) + 1 /\ Len(s) \in Nat /\ t[Len(s) + 1] = e
        /\ \A i \in 1 .. Len(s) : t[i] = s[i]
    OBVIOUS
  <2> HIDE DEF t
  <2>2. /\ \A i \in 1 .. Len(t) : i \in 1 .. Len(s) \/ i = Len(s) + 1
        /\ \A i \in 1 .. Len(s) : i \in 1 .. Len(t)
        /\ Len(s) + 1 \in 1 .. Len(t)
    BY <2>1
  <2>3. By(s, q) /\ e.by \in {Nobody, q} => By(t, q)
    BY <2>1, <2>2 DEF By
  <2>4. Has(s, q) \/ e.by = q => Has(t, q)
    BY <2>1, <2>2 DEF Has
  <2>5. QED
    BY <2>3, <2>4 DEF t
<1>2. \A q : By(<<>>, q) /\ ~Has(<<>>, q)
  BY DEF By, Has
<1>3. QED
  BY <1>1, <1>2

\* What becomes of a rank's buffers and of its digest.
LEMMA BufferSteps ==
  ASSUME Basics, NEW p \in Ranks, Moves(p), Head(todo[p]) \in Steps
  PROVE  /\ \A b \in Buffers :
              \/ buf'[p][b] \in {<<>>, buf[p][b]}
              \/ \E e \in Entries : /\ e.by \in {Nobody, p}
                                    /\ buf'[p][b] = Append(buf[p][b], e)
         /\ \/ mine'[p] \in {<<>>, mine[p]}
            \/ \E b \in Buffers : mine'[p] = buf[p][b]
         /\ \A r \in Ranks : r # p => buf'[r] = buf[r] /\ mine'[r] = mine[r]
<1> DEFINE h == Head(todo[p])
<1>1. /\ DOMAIN buf = Ranks /\ buf[p] \in [Buffers -> Seq(Entries)]
      /\ "line" \in Buffers /\ "delay" \in Buffers
  BY DEF Basics, Buffers
<1>2. PICK c : c = 0
  OBVIOUS
<1>3. PICK k \in Steps : k = h
  OBVIOUS
<1>4. /\ Handles(k, Grown(p, c, k), buf[p], mine[p], buf'[p], mine'[p])
      /\ \A r \in Ranks : r # p => buf'[r] = buf[r] /\ mine'[r] = mine[r]
      /\ Quiet(k) => \A b \in Buffers : buf'[p][b] \in {<<>>, buf[p][b]}
  BY <1>3, MoveHandles
<1> HIDE DEF h
<1>5. /\ \/ mine'[p] \in {<<>>, mine[p]}
         \/ \E b \in Buffers : mine'[p] = buf[p][b]
  <2>1. CASE h.do = "digest"
    <3>1. h.tag \in Buffers
      BY <1>3, <2>1, StepFacts DEF OnBuffers
    <3>2. QED
      BY <1>3, <1>4, <2>1, <3>1 DEF Handles
  <2>2. CASE h.do # "digest"
    BY <1>3, <1>4, <2>2 DEF Handles
  <2>3. QED
    BY <2>1, <2>2
<1>6. CASE h.do = "push"
  <2>1. h.tag \in Buffers /\ h.num \in Int
    BY <1>3, <1>6, StepFacts DEF OnBuffers
  <2>2. PICK by \in {Nobody, p} :
          buf' = [buf EXCEPT ![p][h.tag] = Append(buf[p][h.tag], Entry(h.num, by))]
    BY <1>6, MoveKinds DEF Push, h
  <2>3. Entry(h.num, by) \in Entries /\ Entry(h.num, by).by \in {Nobody, p}
    BY <2>1 DEF Entry, Entries
  <2>4. PICK e \in Entries : e.by \in {Nobody, p} /\ e = Entry(h.num, by)
    BY <2>3
  <2>5. \A b \in Buffers :
          buf'[p][b] = IF b = h.tag THEN Append(buf[p][b], e) ELSE buf[p][b]
    BY <1>1, <2>1, <2>2, <2>4
  <2>6. QED
    BY <1>4, <1>5, <2>4, <2>5
<1>7. CASE h.do = "combine"
  <2>1. PICK by \in {Nobody, p} :
          buf' = [buf EXCEPT ![p]["line"] = <<>>,
                    ![p]["delay"] = Append(buf[p]["delay"], Entry(Len(buf[p]["line"]), by))]
    BY <1>7, MoveKinds DEF Combine, h
  <2>2. buf[p]["line"] \in Seq(Entries)
    BY <1>1
  <2>3. Len(buf[p]["line"]) \in Nat
    BY <2>2
  <2>4. PICK e \in Entries : e.by \in {Nobody, p} /\ e = Entry(Len(buf[p]["line"]), by)
    <3>1. /\ Entry(Len(buf[p]["line"]), by) \in Entries
          /\ Entry(Len(buf[p]["line"]), by).by \in {Nobody, p}
      BY <2>3 DEF Entry, Entries
    <3>2. QED
      BY <3>1
  <2>5. \A b \in Buffers :
          buf'[p][b] = IF b = "line" THEN <<>>
                       ELSE IF b = "delay" THEN Append(buf[p][b], e) ELSE buf[p][b]
    BY <1>1, <2>1, <2>4
  <2>6. QED
    BY <1>4, <1>5, <2>4, <2>5
<1>8. CASE h.do \in {"digest", "compare"}
  <2>1. Quiet(k)
    BY <1>3, <1>8 DEF Quiet
  <2>2. QED
    BY <1>4, <1>5, <2>1
<1>9. CASE h.do \notin {"push", "combine", "digest", "compare"}
  <2>1. buf' = buf
    BY <1>9, MoveKinds DEF h
  <2>2. QED
    BY <1>4, <1>5, <2>1
<1>10. QED
  BY <1>6, <1>7, <1>8, <1>9

\* Digests stay those of the rank that takes them.
LEMMA OwnedStays ==
  ASSUME IInv, Owned, NEW p \in Ranks, Moves(p)
  PROVE  Owned'
<1> DEFINE q == Peer(p)
           h == Head(todo[p])
<1>1. Basics /\ h \in Steps /\ todo[p] # <<>>
  BY MoveGrows DEF IInv
<1>2. /\ q \in Ranks /\ q # p /\ Peer(q) = p /\ \A r \in Ranks : r = p \/ r = q
  BY PeerFacts DEF Peer, Ranks
<1>3. /\ \A b \in Buffers :
           \/ buf'[p][b] \in {<<>>, buf[p][b]}
           \/ \E e \in Entries : /\ e.by \in {Nobody, p}
                                 /\ buf'[p][b] = Append(buf[p][b], e)
      /\ \/ mine'[p] \in {<<>>, mine[p]}
         \/ \E b \in Buffers : mine'[p] = buf[p][b]
      /\ \A r \in Ranks : r # p => buf'[r] = buf[r] /\ mine'[r] = mine[r]
  BY <1>1, BufferSteps
<1>4. buf \in [Ranks -> [Buffers -> Seq(Entries)]]
  BY <1>1 DEF Basics
<1> HIDE DEF q, h
<1>5. ASSUME NEW r \in Ranks
      PROVE  (\A b \in Buffers : By(buf'[r][b], r)) /\ By(mine'[r], r)
  <2>1. (\A b \in Buffers : By(buf[r][b], r)) /\ By(mine[r], r)
    BY DEF Owned
  <2>2. CASE r # p
    BY <1>3, <2>1, <2>2
  <2>3. CASE r = p
    <3>1. ASSUME NEW b \in Buffers
          PROVE  By(buf'[p][b], p)
      <4>1. CASE buf'[p][b] \in {<<>>, buf[p][b]}
        BY <2>1, <2>3, <4>1, AppendFacts
      <4>2. CASE \E e \in Entries : /\ e.by \in {Nobody, p}
                                    /\ buf'[p][b] = Append(buf[p][b], e)
        <5>1. buf[p][b] \in Seq(Entries) /\ By(buf[p][b], p)
          BY <1>4, <2>1, <2>3
        <5>2. QED
          BY <4>2, <5>1, AppendFacts
      <4>3. QED
        BY <1>3, <4>1, <4>2
    <3>2. By(mine'[p], p)
      BY <1>3, <2>1, <2>3, AppendFacts
    <3>3. QED
      BY <2>3, <3>1, <3>2
  <2>4. QED
    BY <2>2, <2>3
<1>6. ASSUME NEW r \in Ranks
      PROVE  /\ By(theirs[r], Peer(r))
             /\ \A c \in Channels : \A i \in 1 .. Len(chan[r][c]) :
                  By(chan[r][c][i].digest, Peer(r))
  BY DEF Owned
<1>7. /\ theirs \in [Ranks -> Seq(Entries)]
      /\ chan \in [Ranks -> [Channels -> Seq(Contents)]]
  BY <1>1 DEF Basics
<1>8. CASE h.do = "send"
  <2>1. PICK m \in Contents :
          /\ chan' = [chan EXCEPT ![q][h.ch] = Append(@, m)]
          /\ m.digest \in {<<>>, mine[p]}
    <3>1. SendStep(p)
      BY <1>8, MoveKinds DEF h
    <3> DEFINE m == [tag |-> h.tag, num |-> h.num,
                     digest |-> IF h.tag = "digest" THEN mine[p] ELSE <<>>]
    <3>2. chan' = [chan EXCEPT ![q][h.ch] = Append(@, m)]
      BY <3>1 DEF SendStep, h, q
    <3>3. m.digest \in {<<>>, mine[p]}
      OBVIOUS
    <3>4. h.tag \in Tags /\ h.num \in Int /\ mine[p] \in Seq(Entries)
      BY <1>1, StepFacts DEF Basics
    <3>5. m \in Contents
      <4>1. <<>> \in Seq(Entries)
        OBVIOUS
      <4>2. QED
        BY <3>4, <4>1 DEF Contents
    <3> HIDE DEF m
    <3>6. QED
      BY <3>2, <3>3, <3>5
  <2>2. By(m.digest, p) /\ h.ch \in Channels
    <3>1. By(mine[p], p)
      BY DEF Owned
    <3>2. QED
      BY <1>1, <2>1, <3>1, AppendFacts, StepFacts
  <2>3. theirs' = theirs
    BY <1>8, MoveKinds DEF h
  <2>4. ASSUME NEW r \in Ranks, NEW c \in Channels, NEW i \in 1 .. Len(chan'[r][c])
        PROVE  By(chan'[r][c][i].digest, Peer(r))
    <3>1. CASE r = q /\ c = h.ch
      <4> DEFINE s == chan[q][h.ch]
      <4>1. chan'[r][c] = Append(s, m) /\ s \in Seq(Contents)
        BY <1>2, <1>7, <2>1, <2>2, <3>1
      <4> HIDE DEF s
      <4>2. i \in 1 .. Len(s) + 1 /\ Len(s) \in Nat
        BY <2>4, <4>1
      <4>3. CASE i \in 1 .. Len(s)
        <5>1. chan'[r][c][i] = s[i]
          BY <4>1, <4>3
        <5>2. QED
          BY <1>2, <1>6, <2>2, <3>1, <4>3, <5>1 DEF s
      <4>4. CASE i = Len(s) + 1
        <5>1. chan'[r][c][i] = m
          BY <4>1, <4>4
        <5>2. QED
          BY <1>2, <2>2, <3>1, <5>1
      <4>5. QED
        BY <4>2, <4>3, <4>4
    <3>2. CASE ~(r = q /\ c = h.ch)
      <4>1. chan'[r][c] = chan[r][c]
        BY <1>2, <1>7, <2>1, <2>2, <3>2
      <4>2. QED
        BY <1>6, <2>4, <4>1
    <3>3. QED
      BY <3>1, <3>2
  <2>5. QED
    BY <1>5, <1>6, <2>3, <2>4 DEF Owned
<1>9. CASE h.do = "recv"
  <2>1. /\ theirs' = [theirs EXCEPT ![p] = Head(chan[p][h.ch]).digest]
        /\ chan' = [chan EXCEPT ![p][h.ch] = Tail(@)] /\ chan[p][h.ch] # <<>>
    <3>1. RecvStep(p)
      BY <1>9, MoveKinds DEF h
    <3>2. QED
      BY <3>1 DEF RecvStep, h
  <2>2. PICK s \in Seq(Contents) : s = chan[p][h.ch] /\ s # <<>> /\ h.ch \in Channels
    BY <1>1, <1>7, <2>1, StepFacts
  <2>3. /\ Head(s) = s[1] /\ Len(Tail(s)) = Len(s) - 1 /\ Len(s) \in Nat \ {0}
        /\ \A i \in 1 .. Len(s) - 1 : Tail(s)[i] = s[i + 1]
    BY <2>2, HeadTail
  <2>4. \A i \in 1 .. Len(s) : By(s[i].digest, Peer(p))
    BY <1>6, <2>2
  <2>5. ASSUME NEW r \in Ranks
        PROVE  By(theirs'[r], Peer(r))
    <3>1. CASE r = p
      <4>1. theirs'[p] = s[1].digest /\ 1 \in 1 .. Len(s)
        BY <1>7, <2>1, <2>2, <2>3
      <4>2. QED
        BY <2>4, <3>1, <4>1
    <3>2. CASE r # p
      BY <1>6, <1>7, <2>1, <3>2
    <3>3. QED
      BY <3>1, <3>2
  <2>6. ASSUME NEW r \in Ranks, NEW c \in Channels, NEW i \in 1 .. Len(chan'[r][c])
        PROVE  By(chan'[r][c][i].digest, Peer(r))
    <3>1. CASE r = p /\ c = h.ch
      <4>1. chan'[r][c] = Tail(s)
        BY <1>7, <2>1, <2>2, <3>1
      <4>2. i + 1 \in 1 .. Len(s) /\ chan'[r][c][i] = s[i + 1]
        BY <2>3, <2>6, <4>1
      <4>3. QED
        BY <2>4, <3>1, <4>2
    <3>2. CASE ~(r = p /\ c = h.ch)
      <4>1. chan'[r][c] = chan[r][c]
        BY <1>7, <2>1, <2>2, <3>2
      <4>2. QED
        BY <1>6, <2>6, <4>1
    <3>3. QED
      BY <3>1, <3>2
  <2>7. QED
    BY <1>5, <2>5, <2>6 DEF Owned
<1>10. CASE h.do \notin Messages
  <2>1. chan' = chan /\ theirs' \in {theirs, [theirs EXCEPT ![p] = <<>>]}
    <3>1. CASE h.do = "compare"
      BY <1>10, <3>1, MoveKinds DEF Compare, h
    <3>2. CASE h.do # "compare"
      BY <1>10, <3>2, MoveKinds DEF Messages, h
    <3>3. QED
      BY <3>1, <3>2
  <2>2. \A r \in Ranks : theirs'[r] \in {<<>>, theirs[r]}
    BY <1>7, <2>1
  <2>3. \A r \in Ranks : By(theirs'[r], Peer(r))
    BY <1>6, <2>2, AppendFacts
  <2>4. QED
    BY <1>5, <1>6, <2>1, <2>3 DEF Owned
<1>11. QED
  BY <1>8, <1>9, <1>10 DEF Messages

\* No step loses a wrong mac, unless a check fails.
LEMMA KeptStays ==
  ASSUME IInv, Owned, Kept, NEW p \in Ranks, Moves(p), OpenTo(p)
  PROVE  Kept'
<1> DEFINE h == Head(todo[p])
           T == todo[p]
<1>1. SUFFICES ASSUME NEW w \in Ranks, wrong' = w
               PROVE  \/ failed'[w] \/ Has(mine'[w], w)
                      \/ \E b \in Buffers : Has(buf'[w][b], w)
  BY DEF Kept
<1>2. Basics /\ T \in Seq(Steps) /\ T # <<>> /\ h \in Steps /\ h = T[1] /\ ended[p] = "no"
  BY MoveGrows DEF IInv
<1>3. PICK c : c = 0
  OBVIOUS
<1>4. /\ Handles(h, Grown(p, c, h), buf[p], mine[p], buf'[p], mine'[p])
      /\ \A r \in Ranks : r # p => buf'[r] = buf[r] /\ mine'[r] = mine[r]
  BY <1>2, MoveHandles
<1>5. PICK k \in Nat : Open(T, k, buf[p], mine[p])
  BY <1>2 DEF OpenTo
<1>6. /\ k \in 0 .. Len(T) /\ ClosedFrom(T, k) /\ UnderWay(T, k)
      /\ Taken(T, k, buf[p], mine[p])
  BY <1>5 DEF Open
<1>7. /\ k >= 2 => T[1].do \in Messages
      /\ k = 1 => T[1].do = "compare"
      /\ k = 0 => T[1].do # "compare"
  BY <1>2, <1>6, OpenTail
<1>8. buf \in [Ranks -> [Buffers -> Seq(Entries)]] /\ "line" \in Buffers /\ "delay" \in Buffers
  BY <1>2 DEF Basics, Buffers
<1>9. failed \in [Ranks -> BOOLEAN] /\ mine \in [Ranks -> Seq(Entries)]
      /\ DOMAIN failed = Ranks
  BY <1>2 DEF Basics
<1>10. p # Nobody /\ w # Nobody
  BY DEF Ranks, Nobody
<1> HIDE DEF T, h
<1>11. \/ h.do # "push" /\ wrong' = wrong
       \/ h.do = "push"
  BY MoveKinds DEF h
<1>12. CASE w # p /\ wrong = w
  <2>1. failed'[w] = failed[w]
    <3>1. CASE h.do = "compare"
      <4>1. failed' = [failed EXCEPT ![p] = failed[p] \/ ~Same(p)]
        BY <3>1, MoveKinds DEF Compare, h
      <4>2. QED
        BY <1>9, <1>12, <4>1
    <3>2. CASE h.do # "compare"
      BY <3>2, MoveKinds DEF h
    <3>3. QED
      BY <3>1, <3>2
  <2>2. QED
    BY <1>4, <1>12, <2>1 DEF Kept
<1>13. CASE h.do = "push"
  <2>1. h.tag \in Buffers /\ h.num \in Int
    BY <1>2, <1>13, StepFacts DEF OnBuffers
  <2>2. PICK by \in {Nobody, p} :
          /\ buf' = [buf EXCEPT ![p][h.tag] = Append(buf[p][h.tag], Entry(h.num, by))]
          /\ wrong' = IF by = p THEN p ELSE wrong
    BY <1>13, MoveKinds DEF Push, h
  <2>3. PICK e \in Entries : e = Entry(h.num, by) /\ e.by = by
    <3>1. Entry(h.num, by) \in Entries /\ Entry(h.num, by).by = by
      BY <2>1 DEF Entry, Entries
    <3>2. QED
      BY <3>1
  <2>4. \A b \in Buffers :
          buf'[p][b] = IF b = h.tag THEN Append(buf[p][b], e) ELSE buf[p][b]
    BY <1>8, <2>1, <2>2, <2>3
  <2>5. \A b \in Buffers : buf[p][b] \in Seq(Entries)
    BY <1>8
  <2>6. failed' = failed /\ mine' = mine
    BY <1>13, MoveKinds DEF h
  <2>7. CASE by = p
    <3>1. w = p /\ Has(buf'[p][h.tag], p)
      BY <1>1, <2>1, <2>2, <2>3, <2>4, <2>5, <2>7, AppendFacts
    <3>2. QED
      BY <2>1, <3>1
  <2>8. CASE by # p
    <3>1. wrong = w
      BY <1>1, <2>2, <2>8
    <3>2. CASE w = p
      <4>1. \A b \in Buffers : Has(buf[p][b], p) => Has(buf'[p][b], p)
        BY <2>4, <2>5, AppendFacts
      <4>2. QED
        BY <2>6, <3>1, <3>2, <4>1 DEF Kept
    <3>3. QED
      BY <1>12, <3>1, <3>2
  <2>9. QED
    BY <2>7, <2>8
<1>14. CASE h.do # "push" /\ w = p
  <2>1. \/ failed[p] \/ Has(mine[p], p)
        \/ \E b \in Buffers : Has(buf[p][b], p)
    BY <1>1, <1>11, <1>14 DEF Kept
  <2>2. CASE h.do = "combine"
    <3> DEFINE by == IF \E i \in DOMAIN buf[p]["line"] : buf[p]["line"][i].by = p
                       THEN p ELSE Nobody
    <3>1. buf' = [buf EXCEPT ![p]["line"] = <<>>,
                    ![p]["delay"] = Append(buf[p]["delay"], Entry(Len(buf[p]["line"]), by))]
      BY <2>2, MoveKinds DEF Combine, h
    <3>2. failed' = failed /\ mine' = mine
      BY <2>2, MoveKinds DEF h
    <3>3. buf[p]["line"] \in Seq(Entries) /\ buf[p]["delay"] \in Seq(Entries)
      BY <1>8
    <3>4. DOMAIN buf[p]["line"] = 1 .. Len(buf[p]["line"]) /\ Len(buf[p]["line"]) \in Nat
      BY <3>3
    <3>5. Has(buf[p]["line"], p) => by = p
      BY <3>4 DEF Has
    <3>6. by \in {Nobody, p}
      OBVIOUS
    <3> HIDE DEF by
    <3>7. PICK e \in Entries : e = Entry(Len(buf[p]["line"]), by) /\ e.by = by
      <4>1. /\ Entry(Len(buf[p]["line"]), by) \in Entries
            /\ Entry(Len(buf[p]["line"]), by).by = by
        BY <3>4, <3>6 DEF Entry, Entries
      <4>2. QED
        BY <4>1
    <3>8. \A b \in Buffers :
            buf'[p][b] = IF b = "line" THEN <<>>
                         ELSE IF b = "delay" THEN Append(buf[p][b], e) ELSE buf[p][b]
      BY <1>8, <3>1, <3>7
    <3>9. \A b \in Buffers : Has(buf[p][b], p) =>
            Has(buf'[p]["delay"], p) \/ Has(buf'[p][b], p)
      <4>4. buf'[p]["delay"] = Append(buf[p]["delay"], e)
        BY <1>8, <3>8
      <4>1. Has(buf[p]["line"], p) => Has(buf'[p]["delay"], p)
        BY <3>3, <3>5, <3>7, <4>4, AppendFacts
      <4>2. Has(buf[p]["delay"], p) => Has(buf'[p]["delay"], p)
        BY <3>3, <4>4, AppendFacts
      <4>3. QED
        BY <3>8, <4>1, <4>2
    <3>10. QED
      BY <1>8, <1>14, <2>1, <3>2, <3>9
  <2>3. CASE h.do = "digest"
    <3>1. failed' = failed
      BY <2>3, MoveKinds DEF h
    <3>2. /\ mine'[p] = buf[p][h.tag]
          /\ \A b \in Buffers :
               buf'[p][b] = IF b = "check" /\ h.tag = "check" THEN <<>> ELSE buf[p][b]
      BY <1>4, <2>3 DEF Handles
    <3>3. mine[p] = <<>>
      <4>1. k = 0
        BY <1>2, <1>7, <2>3 DEF Messages
      <4>2. QED
        BY <1>6, <4>1 DEF Taken
    <3>4. ~Has(mine[p], p)
      BY <3>3, AppendFacts
    <3>5. QED
      BY <1>14, <2>1, <3>1, <3>2, <3>4
  <2>4. CASE h.do = "compare"
    <3>1. /\ failed' = [failed EXCEPT ![p] = failed[p] \/ ~Same(p)]
          /\ h.tag \in Buffers
      BY <1>2, <2>4, MoveKinds, StepFacts DEF Compare, OnBuffers, h
    <3>2. failed'[p] = (failed[p] \/ ~Same(p))
      BY <1>9, <3>1
    <3>3. \A b \in Buffers : buf'[p][b] = IF b = h.tag THEN <<>> ELSE buf[p][b]
      BY <1>4, <2>4 DEF Handles
    <3>4. IF h.tag = "check" THEN buf[p]["check"] = <<>> ELSE mine[p] = buf[p][h.tag]
      <4>1. k = 1
        BY <1>2, <1>7, <2>4 DEF Messages
      <4>2. QED
        BY <1>2, <1>6, <4>1 DEF Taken
    <3>5. Has(buf[p][h.tag], p) => Has(mine[p], p)
      BY <3>4, AppendFacts
    <3>6. Has(mine[p], p) => ~Same(p)
      <4>1. By(theirs[p], Peer(p)) /\ Peer(p) # p
        BY PeerFacts DEF Owned
      <4>2. \A i \in 1 .. Len(theirs[p]) : theirs[p][i].by # p
        BY <1>10, <4>1 DEF By
      <4>3. QED
        BY <4>2 DEF Has, Same
    <3>7. CASE failed[p] \/ Has(mine[p], p)
      BY <1>14, <3>2, <3>6, <3>7
    <3>8. CASE \E b \in Buffers : Has(buf[p][b], p)
      <4>1. PICK b \in Buffers : Has(buf[p][b], p)
        BY <3>8
      <4>2. CASE b = h.tag
        BY <3>5, <3>7, <4>1, <4>2
      <4>3. CASE b # h.tag
        BY <1>14, <3>3, <4>1, <4>3
      <4>4. QED
        BY <4>2, <4>3
    <3>9. QED
      BY <2>1, <3>7, <3>8
  <2>5. CASE h.do \notin {"push", "combine", "digest", "compare"}
    <3>1. buf' = buf /\ mine' = mine /\ failed' = failed
      BY <2>5, MoveKinds DEF h
    <3>2. QED
      BY <1>14, <2>1, <3>1
  <2>6. QED
    BY <1>14, <2>2, <2>3, <2>4, <2>5
<1>15. QED
  BY <1>1, <1>11, <1>12, <1>13, <1>14

-----------------------------------------------------------------------------
\* The inductive invariant, and what it gives.

MacsInv == IInv /\ (\A p \in Ranks : OpenTo(p)) /\ Owned /\ Kept

\* Programs end with their checks, and start with nothing to check.
LEMMA MacsStart == Init => MacsInv
<1> SUFFICES ASSUME Init
             PROVE  MacsInv
  OBVIOUS
<1>1. IInv
  BY StartsTogether
<1>2. /\ buf = [p \in Ranks |-> [b \in Buffers |-> <<>>]]
      /\ mine = [p \in Ranks |-> <<>>] /\ theirs = [p \in Ranks |-> <<>>]
      /\ chan = [p \in Ranks |-> [c \in Channels |-> <<>>]] /\ wrong = Nobody
  BY DEF Init
<1>3. PICK program \in Programs : todo = [p \in Ranks |-> Start(p, program)]
  BY DEF Init, Start, Body
<1>4. Checked \subseteq Buffers /\ "now" \in Buffers
  BY DEF Checked, Buffers
<1>5. ASSUME NEW p \in Ranks
      PROVE  OpenTo(p)
  <2> DEFINE T == todo[p]
             F == FlattenSeq([i \in DOMAIN program |->
                    Call(Called(p, program[i].op), program[i].num)])
  <2>1. T = Start(p, program) /\ T = F \o FinalChecks
    BY <1>3 DEF Start, Body
  <2>2. T \in Seq(Steps) /\ Closed(T)
    <3>1. Fit(0, Start(0, program), Start(1, program))
      BY StartFits
    <3>2. p = 0 \/ p = 1
      BY DEF Ranks
    <3>3. QED
      BY <2>1, <3>1, <3>2 DEF Fit, Match
  <2>3. buf[p] = [b \in Buffers |-> <<>>] /\ mine[p] = <<>>
    BY <1>2
  <2> HIDE DEF T, F
  <2>4. Open(T, 0, buf[p], mine[p])
    <3>1. Len(T) \in Nat
      BY <2>2
    <3>2. UnderWay(T, 0) /\ Taken(T, 0, buf[p], mine[p]) /\ NowNext(T, 0, buf[p])
      BY <1>4, <2>3 DEF UnderWay, Taken, NowNext
    <3>3. QED
      BY <2>2, <3>1, <3>2 DEF Open, Closed
  <2>5. ASSUME NEW b \in Checked
        PROVE  Covered(T, b, buf[p][b])
    <3> DEFINE x == Call("NdssDelayCheck", 0)
               y == Call("prot.DelayCheck", 0)
               z == Call("cr.DelayCheck", 0)
    <3>1. F \in Seq(Steps)
      <4>1. Fit(0, Body(0, program), Body(1, program))
        BY BodyFits
      <4>2. p = 0 \/ p = 1
        BY DEF Ranks
      <4>3. QED
        BY <4>1, <4>2 DEF Fit, Match, Body, F
    <3>2. /\ x \in Seq(Steps) /\ y \in Seq(Steps) /\ z \in Seq(Steps)
          /\ Len(x) = 1 /\ Len(y) = 1 /\ Len(z) = 1
          /\ Checks(x[1], "ndss") /\ Checks(y[1], "check")
          /\ Checks(z[1], "delay") /\ Checks(z[1], "double")
          /\ Quiet(x[1]) /\ Quiet(y[1]) /\ Quiet(z[1])
      <4>1. x \in Seq(QuietSteps) /\ y \in Seq(QuietSteps) /\ z \in Seq(QuietSteps)
        BY QuietCalls DEF Quiets
      <4>2. \A f : Len(Call(f, 0)) = 1 /\ Call(f, 0)[1].do = "call" /\ Call(f, 0)[1].tag = f
        BY DEF Call, Step
      <4>3. QED
        BY <4>1, <4>2, QuietFacts DEF Checks, CheckOf, Quiet, Quiets
    <3> HIDE DEF x, y, z
    <3>3. /\ x \o y \in Seq(Steps) /\ Len(x \o y) = Len(x) + Len(y)
          /\ \A i \in 1 .. Len(x) : (x \o y)[i] = x[i]
          /\ \A i \in 1 .. Len(y) : (x \o y)[Len(x) + i] = y[i]
      BY <3>2, StepsConcat
    <3>4. x \o y \in Seq(Steps) /\ Len(x \o y) = 2 /\ (x \o y)[1] = x[1] /\ (x \o y)[2] = y[1]
      BY <3>2, <3>3
    <3> DEFINE v == x \o y
    <3> HIDE DEF v
    <3>5. /\ v \o z \in Seq(Steps) /\ Len(v \o z) = Len(v) + Len(z)
          /\ \A i \in 1 .. Len(v) : (v \o z)[i] = v[i]
          /\ \A i \in 1 .. Len(z) : (v \o z)[Len(v) + i] = z[i]
      BY <3>2, <3>4, StepsConcat DEF v
    <3>6. /\ v \o z \in Seq(Steps) /\ Len(v \o z) = 3
          /\ (v \o z)[1] = x[1] /\ (v \o z)[2] = y[1] /\ (v \o z)[3] = z[1]
      BY <3>2, <3>4, <3>5 DEF v
    <3> DEFINE u == v \o z
               m == Len(F)
    <3>7. u = FinalChecks
      BY DEF u, v, x, y, z, FinalChecks
    <3> HIDE DEF u
    <3>8. /\ Len(F \o u) = Len(F) + Len(u)
          /\ \A i \in 1 .. Len(u) : (F \o u)[Len(F) + i] = u[i]
      BY <3>1, <3>6, StepsConcat DEF u
    <3>9. m \in Nat
      BY <3>1
    <3>10. /\ Len(T) = m + 3 /\ T[m + 1] = x[1] /\ T[m + 2] = y[1] /\ T[m + 3] = z[1]
      BY <2>1, <3>6, <3>7, <3>8 DEF u
    <3> HIDE DEF m
    <3>11. /\ \A j \in m + 2 .. Len(T) : Quiet(T[j])
           /\ \A j \in m + 3 .. Len(T) : Quiet(T[j])
           /\ \A j \in m + 4 .. Len(T) : Quiet(T[j])
      <4>1. \A j \in m + 1 .. m + 3 : j = m + 1 \/ j = m + 2 \/ j = m + 3
        BY <3>9
      <4>2. \A j \in m + 1 .. Len(T) : Quiet(T[j])
        BY <3>2, <3>10, <4>1
      <4>3. QED
        BY <3>9, <4>2
    <3>12. PICK i \in m + 1 .. m + 3 : Checks(T[i], b) /\ \A j \in i + 1 .. Len(T) : Quiet(T[j])
      <4>1. CASE b = "ndss"
        BY <3>2, <3>9, <3>10, <3>11, <4>1
      <4>2. CASE b = "check"
        BY <3>2, <3>9, <3>10, <3>11, <4>2
      <4>3. CASE b = "delay" \/ b = "double"
        BY <3>2, <3>9, <3>10, <3>11, <4>3
      <4>4. QED
        BY <4>1, <4>2, <4>3 DEF Checked
    <3>13. i \in 0 .. Len(T) /\ i # 0
      BY <3>9, <3>10
    <3>14. QED
      BY <3>12, <3>13 DEF Covered
  <2>6. QED
    BY <2>4, <2>5 DEF OpenTo, T
<1>6. Owned
  <2>1. \A r \in Ranks, b \in Buffers : buf[r][b] = <<>>
    BY <1>2
  <2>2. \A r \in Ranks : mine[r] = <<>> /\ theirs[r] = <<>>
    BY <1>2
  <2>3. \A r \in Ranks, c \in Channels : chan[r][c] = <<>>
    BY <1>2
  <2>4. QED
    BY <2>1, <2>2, <2>3, AppendFacts DEF Owned
<1>7. Kept
  BY <1>2 DEF Kept, Ranks, Nobody
<1>8. QED
  BY <1>1, <1>5, <1>6, <1>7 DEF MacsInv

\* Every step keeps the invariant.
LEMMA MacsStay == MacsInv /\ [Next]_vars => MacsInv'
<1> SUFFICES ASSUME MacsInv, [Next]_vars
             PROVE  MacsInv'
  OBVIOUS
<1>1. IInv /\ (\A p \in Ranks : OpenTo(p)) /\ Owned /\ Kept /\ Basics
  BY DEF MacsInv, IInv
<1>2. IInv'
  BY <1>1, StaysTogether
<1>3. ASSUME NEW p \in Ranks, Moves(p)
      PROVE  MacsInv'
  <2>1. Owned' /\ Kept' /\ OpenTo(p)'
    BY <1>1, <1>3, OwnedStays, KeptStays, OpenStays
  <2>2. ASSUME NEW r \in Ranks
        PROVE  OpenTo(r)'
    <3>1. CASE r = p
      BY <2>1, <3>1
    <3>2. CASE r # p
      <4>1. PICK c \in Controls : Took(p, c)
        BY <1>1, <1>3, MoveGrows
      <4>2. todo'[r] = todo[r] /\ buf'[r] = buf[r] /\ mine'[r] = mine[r]
            /\ ended'[r] = ended[r]
        BY <1>1, <3>2, <4>1 DEF Took, Basics
      <4>3. OpenTo(r)
        BY <1>1
      <4>4. QED
        BY <4>2, <4>3 DEF OpenTo
    <3>3. QED
      BY <3>1, <3>2
  <2>3. QED
    BY <1>2, <2>1, <2>2 DEF MacsInv
<1>4. ASSUME NEW p \in Ranks, Ends(p)
      PROVE  MacsInv'
  <2>1. PICK how \in Ways \ {"no"} : End(p, how)
    BY <1>4 DEF Ends, EnforceFails, ProductFails, RecvFails, Crash, Ways
  <2>2. /\ ended' = [ended EXCEPT ![p] = how] /\ todo' = [todo EXCEPT ![p] = <<>>]
        /\ UNCHANGED <<chan, buf, mine, theirs, failed, wrong>>
    BY <2>1 DEF End
  <2>3. Owned' /\ Kept'
    BY <1>1, <2>2 DEF Owned, Kept
  <2>4. ASSUME NEW r \in Ranks
        PROVE  OpenTo(r)'
    <3>1. CASE r = p
      <4>1. ended'[r] # "no"
        BY <1>1, <2>2, <3>1 DEF Basics
      <4>2. QED
        BY <4>1 DEF OpenTo
    <3>2. CASE r # p
      <4>1. todo'[r] = todo[r] /\ ended'[r] = ended[r] /\ buf'[r] = buf[r] /\ mine'[r] = mine[r]
        BY <1>1, <2>2, <3>2 DEF Basics
      <4>2. OpenTo(r)
        BY <1>1
      <4>3. QED
        BY <4>1, <4>2 DEF OpenTo
    <3>3. QED
      BY <3>1, <3>2
  <2>5. QED
    BY <1>2, <2>3, <2>4 DEF MacsInv
<1>5. CASE UNCHANGED vars
  <2>1. /\ todo' = todo /\ chan' = chan /\ buf' = buf /\ mine' = mine
        /\ theirs' = theirs /\ ended' = ended /\ failed' = failed /\ wrong' = wrong
    BY <1>5 DEF vars
  <2>2. (\A p \in Ranks : OpenTo(p)') /\ Owned' /\ Kept'
    BY <1>1, <2>1 DEF OpenTo, Owned, Kept
  <2>3. QED
    BY <1>2, <2>2 DEF MacsInv
<1>6. Next => UNCHANGED vars \/ \E p \in Ranks : Moves(p) \/ Ends(p)
  BY DEF Next, Finished, RankStep, Moves, Ends
<1>7. QED
  BY <1>3, <1>4, <1>5, <1>6

\* When a rank has returned there is nothing in its digest nor in its check
\* buffers, but for the line buffer.
LEMMA ReturnedEmpty ==
  ASSUME MacsInv, Returned, NEW p \in Ranks
  PROVE  mine[p] = <<>> /\ \A b \in Buffers \ {"line"} : buf[p][b] = <<>>
<1>1. todo[p] = <<>> /\ ended[p] = "no"
  BY DEF Returned, Done
<1>2. OpenTo(p)
  BY DEF MacsInv
<1> DEFINE T == todo[p]
<1>3. T = <<>> /\ Len(T) = 0
  BY <1>1
<1> HIDE DEF T
<1>4. PICK k \in Nat : Open(T, k, buf[p], mine[p])
  BY <1>1, <1>2 DEF OpenTo, T
<1>5. k = 0
  BY <1>3, <1>4 DEF Open
<1>6. mine[p] = <<>> /\ buf[p]["now"] = <<>>
  BY <1>3, <1>4, <1>5 DEF Open, Taken, NowNext
<1>7. ASSUME NEW b \in Checked
      PROVE  buf[p][b] = <<>>
  <2>1. Covered(T, b, buf[p][b])
    BY <1>1, <1>2 DEF OpenTo, T
  <2>2. QED
    BY <1>3, <2>1 DEF Covered
<1>8. QED
  BY <1>6, <1>7 DEF Buffers, Checked

\* A comparison that has failed at one rank has at both when both have
\* returned.
LEMMA ReturnedAgree ==
  ASSUME IInv, Returned, NEW p \in Ranks, failed[p]
  PROVE  failed[Peer(p)]
<1>1. PICK path \in Paths, n \in Nat, at \in [Ranks -> Nat], log \in Logs,
           places \in Places : Together(path, n, at, log, places)
  BY DEF IInv
<1>2. ASSUME NEW r \in Ranks
      PROVE  at[r] = n
  <2>1. /\ IsPath(path, n) /\ at[r] <= n /\ at[r] \in Nat
        /\ Matches(r, path[at[r]][r])
    BY <1>1 DEF Together, Walks
  <2>2. path[at[r]][r].todo = <<>>
    BY <2>1 DEF Matches, Returned, Done
  <2>3. at[r] \notin 0 .. n - 1
    BY <2>1, <2>2 DEF IsPath
  <2>4. QED
    BY <2>1, <2>3
<1>3. \A r \in Ranks : log[r][n].failed = failed[r]
  <2>1. \A r \in Ranks : log[r][n] = Now(r)
    BY <1>1, <1>2 DEF Together, Logged
  <2>2. \A r \in Ranks : Now(r).failed = failed[r]
    BY DEF Now
  <2>3. QED
    BY <2>1, <2>2
<1>4. log[0][n].failed <=> log[1][n].failed
  <2>1. n <= at[0] /\ n <= at[1]
    BY <1>2 DEF Ranks
  <2>2. QED
    BY <1>1, <2>1 DEF Together, Agreed
<1>5. QED
  BY <1>3, <1>4, PeerFacts DEF Ranks

\* The macs entered are kept until a check fails, by every step of the code.
THEOREM MacsKept == Spec => []MacsInv
<1>1. Init => MacsInv
  BY MacsStart
<1>2. MacsInv /\ [Next]_vars => MacsInv'
  BY MacsStay
<1>3. QED
  BY <1>1, <1>2, PTL DEF Spec

\* A wrong mac is found at both ranks by a program that ends with its checks,
\* unless it still waits in the line buffer (DelayCheck, NdssDelayCheck).
THEOREM WrongMacsFound == Spec => []WrongMacIsFound
<1>1. ASSUME MacsInv, Returned, wrong # Nobody
      PROVE  \/ \A p \in Ranks : failed[p]
             \/ \E i \in DOMAIN buf[wrong]["line"] : buf[wrong]["line"][i].by = wrong
  <2>1. PICK w \in Ranks : wrong = w
    BY <1>1 DEF MacsInv, IInv, Basics
  <2>2. /\ mine[w] = <<>> /\ \A b \in Buffers \ {"line"} : buf[w][b] = <<>>
    BY <1>1, ReturnedEmpty
  <2>3. failed[w] \/ Has(buf[w]["line"], w)
    <3>1. \/ failed[w] \/ Has(mine[w], w)
          \/ \E b \in Buffers : Has(buf[w][b], w)
      BY <1>1, <2>1 DEF MacsInv, Kept
    <3>2. QED
      BY <2>2, <3>1, AppendFacts
  <2>4. CASE failed[w]
    <3>1. failed[Peer(w)]
      BY <1>1, <2>4, ReturnedAgree DEF MacsInv
    <3>2. \A p \in Ranks : p = w \/ p = Peer(w)
      BY DEF Ranks, Peer
    <3>3. QED
      BY <2>4, <3>1, <3>2
  <2>5. CASE Has(buf[w]["line"], w)
    <3>1. buf[w]["line"] \in Seq(Entries)
      BY <1>1 DEF MacsInv, IInv, Basics, Buffers
    <3>2. DOMAIN buf[w]["line"] = 1 .. Len(buf[w]["line"])
      BY <3>1
    <3>3. QED
      BY <2>1, <2>5, <3>2 DEF Has
  <2>6. QED
    BY <2>3, <2>4, <2>5
<1>2. MacsInv => WrongMacIsFound
  BY <1>1 DEF WrongMacIsFound
<1>3. QED
  BY <1>2, MacsKept, PTL

\* A program that ends with its checks leaves nothing unchecked but what is in
\* the line buffer, which no check at the end looks at.
THEOREM NothingElsePending ==
  Spec => [](Returned => \A b \in Buffers \ {"line"} : ~StillPending(b))
<1>1. MacsInv => (Returned => \A b \in Buffers \ {"line"} : ~StillPending(b))
  BY ReturnedEmpty DEF StillPending
<1>2. QED
  BY <1>1, MacsKept, PTL
=============================================================================
