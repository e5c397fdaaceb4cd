----------------------- MODULE ExtensionBuffer_proofs -----------------------
(***************************************************************************)
(* Proofs about ExtensionBuffer, for all sizes the assumptions allow: its  *)
(* cursors stay in bounds, the reserve of an adapter that refreshes it is  *)
(* spent once, and the two ends hand out one stream of correlations.       *)
(***************************************************************************)
EXTENDS ExtensionBuffer, DataLemmas, SequenceTheorems, TLAPS

\* What an end knows at each point of rsend / rrecv: how much the request
\* can still need, and where the cursors stand.
PhaseInv(p) ==
  /\ ~isSetup[p] => /\ pc[p] \in {"idle", "setup", "in_setup"}
                    /\ used[p] = 0 /\ upper[p] = 0
  /\ isSetup[p] => /\ pc[p] \notin {"setup", "in_setup"}
                   /\ BaseNum <= used[p] /\ used[p] <= upper[p]
                   /\ upper[p] <= VoleNum
  /\ offset[p] + need[p] = Len(out[p])
  /\ pc[p] \in {"setup", "in_setup"} => rounds[p] = 0
  /\ pc[p] = "in_loop" => need[p] >= InplaceFrom
  /\ pc[p] = "loop" /\ rounds[p] > 0 => need[p] >= BaseNum
  /\ pc[p] \in {"boot1", "in_boot1", "drain1"} => need[p] <= VoleNum
  /\ pc[p] \in {"boot2", "in_boot2", "drain2"} => need[p] <= VoleNum - BaseNum
  /\ pc[p] \in {"drain1", "drain2"} => used[p] = BaseNum /\ upper[p] = VoleNum

IInv == TypeOK /\ \A p \in Ends : PhaseInv(p)

\* The phases entail the bounds on the cursors.
LEMMA PhasesBoundCursors == IInv => CursorsInBounds
<1> SUFFICES ASSUME IInv, NEW p \in Ends
             PROVE  /\ isSetup[p] => BaseNum <= used[p] /\ used[p] <= upper[p]
                    /\ upper[p] <= VoleNum
                    /\ offset[p] + need[p] = Len(out[p])
                    /\ pc[p] = "drain2" => need[p] <= upper[p] - used[p]
                    /\ pc[p] = "in_loop" => offset[p] + VoleNum <= Len(out[p])
  BY DEF CursorsInBounds
<1>1. /\ used[p] \in Nat /\ upper[p] \in Nat /\ offset[p] \in Nat
      /\ need[p] \in Nat
      /\ PhaseInv(p)
  BY DEF IInv, TypeOK
<1>2. QED
  BY <1>1, SizesAssumption DEF PhaseInv

\* Overlaying typed elements keeps the domain and the type (memcpy).
LEMMA OverlayType ==
  ASSUME NEW S, NEW s \in Seq(S), NEW at \in Nat, NEW t \in Seq(S)
  PROVE  Overlay(s, at, t) \in Seq(S) /\ Len(Overlay(s, at, t)) = Len(s)
<1>1. \A i \in 1 .. Len(s) : i - at \in DOMAIN t => t[i - at] \in S
  OBVIOUS
<1>2. \A i \in 1 .. Len(s) : s[i] \in S
  OBVIOUS
<1>3. Overlay(s, at, t) \in [1 .. Len(s) -> S]
  BY <1>1, <1>2 DEF Overlay
<1>4. QED
  BY <1>3

LEMMA OverlayBufType ==
  ASSUME NEW S, NEW n \in Nat, NEW s \in [1 .. n -> S], NEW at \in Nat,
         NEW t \in Seq(S)
  PROVE  Overlay(s, at, t) \in [1 .. n -> S]
  BY DEF Overlay

\* A piece of a sequence is a sequence over the same set.
LEMMA SubSeqType ==
  ASSUME NEW S, NEW s \in Seq(S), NEW m \in Nat, NEW n \in Nat,
         1 <= m, n <= Len(s)
  PROVE  SubSeq(s, m, n) \in Seq(S)
<1>1. \A i \in 1 .. Len(s) : s[i] \in S
  OBVIOUS
<1>2. CASE m <= n
  BY <1>1, <1>2
<1>3. CASE n < m
  BY <1>3
<1>4. QED
  BY <1>2, <1>3

\* The blocks an extension makes.
LEMMA BlockType ==
  ASSUME NEW e \in Nat, NEW n \in Nat
  PROVE  Block(e, n) \in Seq(Corr)
  BY DEF Block, Corr

-----------------------------------------------------------------------------
\* The sequences an end writes are typed and keep their lengths.

\* memcpy into the caller's span.
LEMMA CopyOutType ==
  ASSUME TypeOK, NEW p \in Ends, NEW s \in [1 .. VoleNum -> Corr],
         NEW from \in Nat, NEW n \in Nat, from + n <= VoleNum
  PROVE  LET o == Overlay(out[p], offset[p], [i \in 1 .. n |-> s[from + i]])
         IN  o \in Seq(Corr) /\ Len(o) = Len(out[p])
<1>1. [i \in 1 .. n |-> s[from + i]] \in Seq(Corr)
  BY SizesAssumption
<1>2. out[p] \in Seq(Corr) /\ offset[p] \in Nat
  BY DEF TypeOK
<1>3. /\ Overlay(out[p], offset[p], [i \in 1 .. n |-> s[from + i]])
           \in Seq(Corr)
      /\ Len(Overlay(out[p], offset[p], [i \in 1 .. n |-> s[from + i]]))
           = Len(out[p])
  BY <1>1, <1>2, OverlayType, ZenonT(40)
<1>4. QED
  BY <1>3, Zenon

\* A seed is a sequence of correlations.
LEMMA NextSeedType ==
  ASSUME IInv, NEW p \in Ends
  PROVE  NextSeed(p) \in Seq(Corr)
<1>1. /\ out[p] \in Seq(Corr) /\ offset[p] \in Nat /\ need[p] \in Nat
      /\ buf[p] \in [1 .. VoleNum -> Corr] /\ rounds[p] \in Nat
      /\ PhaseInv(p)
  BY DEF IInv, TypeOK
<1>2. BaseVole \in Seq(Corr)
  BY SizesAssumption DEF BaseVole, Corr
<1>3. SubSeq(buf[p], 1, BaseNum) \in Seq(Corr)
  <2>1. BaseNum \in Nat /\ VoleNum \in Nat /\ BaseNum <= VoleNum
    BY SizesAssumption
  <2>2. buf[p] \in Seq(Corr) /\ Len(buf[p]) = VoleNum
    BY <1>1, <2>1
  <2>3. QED
    BY <2>1, <2>2, SubSeqType
<1>4. ASSUME pc[p] = "loop", rounds[p] > 0
      PROVE  SubSeq(out[p], offset[p] + 1, offset[p] + BaseNum)
               \in Seq(Corr)
  <2>1. offset[p] + BaseNum <= Len(out[p])
    BY <1>1, <1>4, SizesAssumption DEF PhaseInv
  <2>2. QED
    <3>1. /\ offset[p] + 1 \in Nat /\ offset[p] + BaseNum \in Nat
          /\ 1 <= offset[p] + 1
      BY <1>1, SizesAssumption
    <3>2. QED
      BY <1>1, <2>1, <3>1, SubSeqType
<1>5. QED
  BY <1>2, <1>3, <1>4 DEF NextSeed

\* Refreshing the reserve keeps the buffer's type.
LEMMA RefreshedType ==
  ASSUME IInv, NEW p \in Ends, pc[p] = "loop"
  PROVE  Refreshed(p) \in [1 .. VoleNum -> Corr]
<1>1. /\ out[p] \in Seq(Corr) /\ offset[p] \in Nat /\ need[p] \in Nat
      /\ buf[p] \in [1 .. VoleNum -> Corr] /\ rounds[p] \in Nat
      /\ PhaseInv(p)
  BY DEF IInv, TypeOK
<1>2. CASE rounds[p] > 0
  <2>1. offset[p] + BaseNum <= Len(out[p])
    BY <1>1, <1>2, SizesAssumption DEF PhaseInv
  <2>2. SubSeq(out[p], offset[p] + 1, offset[p] + BaseNum) \in Seq(Corr)
    <3>1. /\ offset[p] + 1 \in Nat /\ offset[p] + BaseNum \in Nat
          /\ 1 <= offset[p] + 1
      BY <1>1, SizesAssumption
    <3>2. QED
      BY <1>1, <2>1, <3>1, SubSeqType
  <2>3. Overlay(buf[p], 0, SubSeq(out[p], offset[p] + 1, offset[p] + BaseNum))
          \in [1 .. VoleNum -> Corr]
    BY <1>1, <2>2, SizesAssumption, OverlayBufType
  <2>4. QED
    BY <1>1, <2>3 DEF Refreshed
<1>3. CASE ~(rounds[p] > 0)
  BY <1>1, <1>3 DEF Refreshed
<1>4. QED
  BY <1>2, <1>3

\* What an extension makes is a sequence of correlations.
LEMMA MadeType ==
  ASSUME TypeOK, NEW p \in Ends, NEW n \in Nat
  PROVE  Made(p, n) \in Seq(Corr)
  BY BlockType DEF Made, TypeOK

-----------------------------------------------------------------------------
\* Each action preserves the inductive invariant.

\* What the type invariant and the phases say of one end.
LEMMA EndFacts ==
  ASSUME IInv, NEW p \in Ends
  PROVE  /\ used[p] \in Nat /\ upper[p] \in Nat /\ offset[p] \in Nat
         /\ need[p] \in Nat /\ rounds[p] \in Nat /\ isSetup[p] \in BOOLEAN
         /\ out[p] \in Seq(Corr) /\ Len(out[p]) \in Nat
         /\ buf[p] \in [1 .. VoleNum -> Corr]
         /\ PhaseInv(p)
  BY DEF IInv, TypeOK

\* An end none of whose variables changes keeps its phase.
LEMMA PhaseUnchanged ==
  ASSUME NEW p \in Ends, PhaseInv(p),
         pc'[p] = pc[p], isSetup'[p] = isSetup[p], used'[p] = used[p],
         upper'[p] = upper[p], offset'[p] = offset[p], need'[p] = need[p],
         out'[p] = out[p], rounds'[p] = rounds[p]
  PROVE  PhaseInv(p)'
  BY DEF PhaseInv

LEMMA CallInv ==
  ASSUME IInv, NEW p \in Ends, NEW n \in 1 .. MaxRequest, Call(p, n)
  PROVE  IInv'
<1>1. TypeOK'
  <2>1. [i \in 1 .. n |-> Empty] \in Seq(Corr)
    BY BoundsAssumption DEF Empty, Corr
  <2>2. requests' \in Seq(1 .. MaxRequest) /\ Len(requests') <= MaxCalls
    <3>1. requests \in Seq(1 .. MaxRequest) /\ Len(requests) <= MaxCalls
          /\ calls[p] \in 0 .. MaxCalls /\ calls[p] < MaxCalls
      BY DEF Call, IInv, TypeOK
    <3>2. CASE calls[p] < Len(requests)
      BY <3>1, <3>2 DEF Call
    <3>3. CASE ~(calls[p] < Len(requests))
      <4>1. requests' = Append(requests, n)
        BY <3>3 DEF Call
      <4>2. QED
        BY <3>1, <3>3, <4>1, BoundsAssumption
    <3>4. QED
      BY <3>2, <3>3
  <2>3. /\ pc' \in [Ends -> {"idle", "setup", "loop", "boot1", "boot2",
                             "in_setup", "in_loop", "in_boot1", "in_boot2",
                             "drain1", "drain2"}]
        /\ calls' \in [Ends -> 0 .. MaxCalls]
        /\ offset' \in [Ends -> Nat] /\ need' \in [Ends -> Nat]
        /\ rounds' \in [Ends -> Nat]
    <3>1. /\ calls' = [calls EXCEPT ![p] = @ + 1] /\ calls[p] < MaxCalls
          /\ offset' = [offset EXCEPT ![p] = 0]
          /\ need' = [need EXCEPT ![p] = n]
          /\ rounds' = [rounds EXCEPT ![p] = 0]
          /\ pc' = [pc EXCEPT ![p] = IF isSetup[p] THEN "loop" ELSE "setup"]
      BY DEF Call
    <3>2. calls[p] + 1 \in 0 .. MaxCalls /\ n \in Nat
      BY <3>1, BoundsAssumption DEF IInv, TypeOK
    <3>3. QED
      BY <3>1, <3>2 DEF IInv, TypeOK
  <2>4. out' \in [Ends -> Seq(Corr)]
    BY <2>1 DEF Call, IInv, TypeOK
  <2>5. QED
    BY <2>2, <2>3, <2>4 DEF Call, IInv, TypeOK
<1>2. ASSUME NEW q \in Ends
      PROVE  PhaseInv(q)'
  <2>1. CASE q = p
    <3>1. /\ offset'[p] = 0 /\ need'[p] = n /\ rounds'[p] = 0
          /\ out'[p] = [i \in 1 .. n |-> Empty]
          /\ pc'[p] = IF isSetup[p] THEN "loop" ELSE "setup"
          /\ isSetup' = isSetup /\ used' = used /\ upper' = upper
      BY DEF Call, IInv, TypeOK
    <3>2. Len(out'[p]) = n
      BY <3>1, BoundsAssumption
    <3>3. QED
      BY <2>1, <3>1, <3>2, EndFacts, BoundsAssumption DEF PhaseInv
  <2>2. CASE q # p
    <3>1. PhaseInv(q)
      BY EndFacts
    <3>2. QED
      BY <2>2, <3>1, PhaseUnchanged DEF Call, IInv, TypeOK
  <2>3. QED
    BY <2>1, <2>2
<1>3. QED
  BY <1>1, <1>2 DEF IInv

LEMMA BeginExtensionInv ==
  ASSUME IInv, NEW p \in Ends, BeginExtension(p)
  PROVE  IInv'
<1>1. pc[p] \in {"setup", "loop", "boot1", "boot2"}
  BY DEF BeginExtension, Extending
<1>2. Extending[pc[p]] \in {"in_setup", "in_loop", "in_boot1", "in_boot2"}
  BY <1>1 DEF Extending
<1>3. TypeOK'
  <2>1. NextSeed(p) \in Seq(Corr)
    BY NextSeedType
  <2>2. seeds[p] \in Seq(Seq(Corr)) /\ seeds \in [Ends -> Seq(Seq(Corr))]
    BY DEF IInv, TypeOK
  <2>3. Append(seeds[p], NextSeed(p)) \in Seq(Seq(Corr))
    BY <2>1, <2>2, AppendProperties
  <2>4. seeds' \in [Ends -> Seq(Seq(Corr))]
    BY <2>2, <2>3 DEF BeginExtension
  <2>5. QED
    BY <1>2, <2>4 DEF BeginExtension, IInv, TypeOK
<1>4. ASSUME NEW q \in Ends
      PROVE  PhaseInv(q)'
  <2>1. CASE q = p
    <3>1. /\ pc'[p] = Extending[pc[p]]
          /\ pc[p] = "loop" => need[p] >= InplaceFrom
          /\ UNCHANGED <<isSetup, used, upper, offset, need, out, rounds>>
      BY DEF BeginExtension, IInv, TypeOK
    <3>2. QED
      BY <1>1, <2>1, <3>1, EndFacts DEF PhaseInv, Extending
  <2>2. CASE q # p
    <3>1. PhaseInv(q)
      BY EndFacts
    <3>2. QED
      BY <2>2, <3>1, PhaseUnchanged DEF BeginExtension, IInv, TypeOK
  <2>3. QED
    BY <2>1, <2>2
<1>5. QED
  BY <1>3, <1>4 DEF IInv

LEMMA EndSetupInv ==
  ASSUME IInv, NEW p \in Ends, EndSetup(p)
  PROVE  IInv'
<1>1. TypeOK'
  <2>1. SetupNum \in Nat /\ BaseNum \in Nat /\ VoleNum \in Nat
    BY SizesAssumption
  <2>2. Made(p, SetupNum) \in Seq(Corr)
    BY <2>1, MadeType DEF IInv
  <2>3. Overlay(buf[p], 0, Made(p, SetupNum)) \in [1 .. VoleNum -> Corr]
    BY <2>1, <2>2, EndFacts, OverlayBufType
  <2>4. QED
    BY <2>1, <2>3 DEF EndSetup, IInv, TypeOK
<1>2. ASSUME NEW q \in Ends
      PROVE  PhaseInv(q)'
  <2>1. CASE q = p
    <3>1. /\ pc[p] = "in_setup" /\ pc'[p] = "loop" /\ isSetup'[p] = TRUE
          /\ used'[p] = BaseNum /\ upper'[p] = SetupNum
          /\ UNCHANGED <<offset, need, out, rounds>>
      BY DEF EndSetup, IInv, TypeOK
    <3>2. rounds[p] = 0
      BY <3>1, EndFacts DEF PhaseInv
    <3>3. QED
      BY <2>1, <3>1, <3>2, EndFacts, SizesAssumption DEF PhaseInv
  <2>2. CASE q # p
    <3>1. PhaseInv(q)
      BY EndFacts
    <3>2. QED
      BY <2>2, <3>1, PhaseUnchanged DEF EndSetup, IInv, TypeOK
  <2>3. QED
    BY <2>1, <2>2
<1>3. QED
  BY <1>1, <1>2 DEF IInv

LEMMA EndInplaceInv ==
  ASSUME IInv, NEW p \in Ends, EndInplace(p)
  PROVE  IInv'
<1> DEFINE written == Overlay(out[p], offset[p], Made(p, VoleNum))
<1>1. written \in Seq(Corr) /\ Len(written) = Len(out[p])
  <2>1. Made(p, VoleNum) \in Seq(Corr)
    BY SizesAssumption, MadeType DEF IInv
  <2>2. QED
    BY <2>1, EndFacts, OverlayType
<1>2. /\ pc[p] = "in_loop" /\ need[p] >= VoleNum
  BY EndFacts, SizesAssumption DEF EndInplace, PhaseInv
<1>3. /\ pc'[p] = "loop" /\ out'[p] = written
      /\ offset'[p] = offset[p] + (VoleNum - BaseNum)
      /\ need'[p] = need[p] - (VoleNum - BaseNum)
      /\ rounds'[p] = rounds[p] + 1
      /\ UNCHANGED <<isSetup, used, upper>>
  BY DEF EndInplace, IInv, TypeOK
<1>4. /\ offset[p] + (VoleNum - BaseNum) \in Nat
      /\ need[p] - (VoleNum - BaseNum) \in Nat
      /\ need[p] - (VoleNum - BaseNum) >= BaseNum
      /\ rounds[p] + 1 \in Nat
  BY <1>2, EndFacts, SizesAssumption, SMTT(40)
<1>5. TypeOK'
  <2>1. out' \in [Ends -> Seq(Corr)]
    BY <1>1 DEF EndInplace, IInv, TypeOK
  <2>2. QED
    BY <1>4, <2>1 DEF EndInplace, IInv, TypeOK
<1>6. ASSUME NEW q \in Ends
      PROVE  PhaseInv(q)'
  <2>1. CASE q = p
    <3>1. offset'[p] + need'[p] = Len(out'[p])
      <4>1. offset[p] + need[p] = Len(out[p])
        BY EndFacts DEF PhaseInv
      <4>2. /\ offset[p] \in Nat /\ need[p] \in Nat
            /\ VoleNum - BaseNum \in Int
        BY EndFacts, SizesAssumption
      <4> HIDE DEF written
      <4>3. QED
        BY <1>1, <1>3, <4>1, <4>2
    <3>2. QED
      BY <1>2, <1>3, <1>4, <2>1, <3>1, EndFacts DEF PhaseInv
  <2>2. CASE q # p
    <3>1. PhaseInv(q)
      BY EndFacts
    <3>2. QED
      BY <2>2, <3>1, PhaseUnchanged DEF EndInplace, IInv, TypeOK
  <2>3. QED
    BY <2>1, <2>2
<1>7. QED
  BY <1>5, <1>6 DEF IInv

LEMMA EndBootstrapInv ==
  ASSUME IInv, NEW p \in Ends, EndBootstrap(p)
  PROVE  IInv'
<1>1. TypeOK'
  <2>1. VoleNum \in Nat /\ BaseNum \in Nat
    BY SizesAssumption
  <2>2. Made(p, VoleNum) \in Seq(Corr)
    BY <2>1, MadeType DEF IInv
  <2>3. Overlay(buf[p], 0, Made(p, VoleNum)) \in [1 .. VoleNum -> Corr]
    BY <2>1, <2>2, EndFacts, OverlayBufType
  <2>4. QED
    BY <2>1, <2>3 DEF EndBootstrap, IInv, TypeOK
<1>2. ASSUME NEW q \in Ends
      PROVE  PhaseInv(q)'
  <2>1. CASE q = p
    <3>1. /\ \/ pc[p] = "in_boot1" /\ pc'[p] = "drain1"
             \/ pc[p] = "in_boot2" /\ pc'[p] = "drain2"
          /\ used'[p] = BaseNum /\ upper'[p] = VoleNum
          /\ UNCHANGED <<isSetup, offset, need, out, rounds>>
      BY DEF EndBootstrap, IInv, TypeOK
    <3>2. QED
      BY <2>1, <3>1, EndFacts, SizesAssumption DEF PhaseInv
  <2>2. CASE q # p
    <3>1. PhaseInv(q)
      BY EndFacts
    <3>2. QED
      BY <2>2, <3>1, PhaseUnchanged DEF EndBootstrap, IInv, TypeOK
  <2>3. QED
    BY <2>1, <2>2
<1>3. QED
  BY <1>1, <1>2 DEF IInv

\* What a memcpy of n correlations from position from + 1 of s changes.
LEMMA CopyOutFacts ==
  ASSUME IInv, NEW p \in Ends, NEW s \in [1 .. VoleNum -> Corr],
         NEW from \in Nat, NEW n \in Nat, from + n <= VoleNum, n <= need[p],
         CopyOut(p, s, from, n)
  PROVE  /\ out' \in [Ends -> Seq(Corr)] /\ Len(out'[p]) = Len(out[p])
         /\ offset' \in [Ends -> Nat] /\ offset'[p] = offset[p] + n
         /\ need' \in [Ends -> Nat] /\ need'[p] = need[p] - n
         /\ offset'[p] + need'[p] = Len(out'[p])
         /\ \A q \in Ends \ {p} : /\ out'[q] = out[q]
                                  /\ offset'[q] = offset[q]
                                  /\ need'[q] = need[q]
<1> DEFINE o == Overlay(out[p], offset[p], [i \in 1 .. n |-> s[from + i]])
<1>1. o \in Seq(Corr) /\ Len(o) = Len(out[p])
  BY CopyOutType DEF IInv
<1>2. /\ out' = [out EXCEPT ![p] = o]
      /\ offset' = [offset EXCEPT ![p] = @ + n]
      /\ need' = [need EXCEPT ![p] = @ - n]
  BY DEF CopyOut
<1>3. offset[p] + n \in Nat /\ need[p] - n \in Nat
  BY EndFacts
<1> HIDE DEF o
<1>4. out' \in [Ends -> Seq(Corr)] /\ out'[p] = o
  BY <1>1, <1>2 DEF IInv, TypeOK
<1>5. /\ offset' \in [Ends -> Nat] /\ offset'[p] = offset[p] + n
      /\ need' \in [Ends -> Nat] /\ need'[p] = need[p] - n
  BY <1>2, <1>3 DEF IInv, TypeOK
<1>6. offset'[p] + need'[p] = Len(out'[p])
  BY <1>1, <1>4, <1>5, EndFacts, SMTT(40) DEF PhaseInv
<1>7. QED
  BY <1>1, <1>2, <1>4, <1>5, <1>6 DEF IInv, TypeOK

\* What a call hands over when it returns.
LEMMA ReturnType ==
  ASSUME IInv, NEW p \in Ends, out' \in [Ends -> Seq(Corr)], Return(p)
  PROVE  given' \in [Ends -> Seq(Corr)]
<1>1. given[p] \o out'[p] \in Seq(Corr)
  BY ConcatProperties DEF IInv, TypeOK
<1>2. QED
  BY <1>1 DEF Return, IInv, TypeOK

LEMMA ServeFromBufferInv ==
  ASSUME IInv, NEW p \in Ends, ServeFromBuffer(p)
  PROVE  IInv'
<1> DEFINE n == Min2(upper[p] - used[p], need[p])
<1>1. /\ pc[p] = "loop" /\ need[p] < InplaceFrom /\ isSetup[p]
      /\ BaseNum <= used[p] /\ used[p] <= upper[p] /\ upper[p] <= VoleNum
  BY EndFacts DEF ServeFromBuffer, PhaseInv
<1>2. n \in Nat /\ n <= need[p] /\ used[p] + n <= upper[p]
  BY <1>1, EndFacts, SizesAssumption DEF Min2
<1>3. Refreshed(p) \in [1 .. VoleNum -> Corr]
  BY <1>1, RefreshedType
<1>4. CopyOut(p, Refreshed(p), used[p], n)
  BY DEF ServeFromBuffer
<1>5. used[p] + n <= VoleNum
  BY <1>1, <1>2, EndFacts, SizesAssumption
<1>6. /\ buf' = [buf EXCEPT ![p] = Refreshed(p)]
      /\ used' = [used EXCEPT ![p] = @ + n]
      /\ \/ /\ n < need[p] /\ pc' = [pc EXCEPT ![p] = "boot1"]
            /\ given' = given
         \/ /\ ~(n < need[p]) /\ pc' = [pc EXCEPT ![p] = "idle"]
            /\ Return(p)
      /\ UNCHANGED <<requests, calls, isSetup, upper, rounds, seeds>>
  BY DEF ServeFromBuffer
<1> HIDE DEF n
<1>7. /\ out' \in [Ends -> Seq(Corr)] /\ Len(out'[p]) = Len(out[p])
      /\ offset' \in [Ends -> Nat] /\ need' \in [Ends -> Nat]
      /\ need'[p] = need[p] - n
      /\ offset'[p] + need'[p] = Len(out'[p])
      /\ \A q \in Ends \ {p} : /\ out'[q] = out[q]
                               /\ offset'[q] = offset[q]
                               /\ need'[q] = need[q]
  BY <1>2, <1>3, <1>4, <1>5, EndFacts, CopyOutFacts
<1>8. given' \in [Ends -> Seq(Corr)]
  BY <1>6, <1>7, ReturnType DEF IInv, TypeOK
<1>9. TypeOK'
  <2>1. used[p] + n \in Nat
    BY <1>2, EndFacts
  <2>2. used' \in [Ends -> Nat] /\ buf' \in [Ends -> [1 .. VoleNum -> Corr]]
    BY <1>3, <1>6, <2>1 DEF IInv, TypeOK
  <2>3. QED
    BY <1>6, <1>7, <1>8, <2>2 DEF IInv, TypeOK
<1>10. ASSUME NEW q \in Ends
       PROVE  PhaseInv(q)'
  <2>1. CASE q = p
    <3>1. /\ used'[p] = used[p] + n /\ upper'[p] = upper[p]
          /\ isSetup'[p] /\ pc'[p] \in {"boot1", "idle"}
      BY <1>1, <1>6 DEF IInv, TypeOK
    <3>2. BaseNum <= used'[p] /\ used'[p] <= upper'[p] /\ upper'[p] <= VoleNum
      BY <1>1, <1>2, <3>1, EndFacts, SizesAssumption
    <3>3. need'[p] <= VoleNum
      BY <1>1, <1>2, <1>7, EndFacts, SizesAssumption
    <3>4. QED
      BY <1>7, <2>1, <3>1, <3>2, <3>3 DEF PhaseInv
  <2>2. CASE q # p
    <3>1. PhaseInv(q)
      BY EndFacts
    <3>2. QED
      BY <1>6, <1>7, <2>2, <3>1, PhaseUnchanged DEF IInv, TypeOK
  <2>3. QED
    BY <2>1, <2>2
<1>11. QED
  BY <1>9, <1>10 DEF IInv

LEMMA DrainWorstCaseInv ==
  ASSUME IInv, NEW p \in Ends, DrainWorstCase(p)
  PROVE  IInv'
<1> DEFINE n == VoleNum - BaseNum
<1>1. /\ pc[p] = "drain1" /\ need[p] > n /\ isSetup[p]
      /\ used[p] = BaseNum /\ upper[p] = VoleNum /\ need[p] <= VoleNum
  BY EndFacts DEF DrainWorstCase, PhaseInv
<1>2. n \in Nat /\ n <= need[p] /\ used[p] + n <= VoleNum /\ BaseNum <= n
  BY <1>1, EndFacts, SizesAssumption
<1>3. CopyOut(p, buf[p], used[p], n)
  BY <1>1 DEF DrainWorstCase
<1>4. /\ pc' = [pc EXCEPT ![p] = "boot2"]
      /\ UNCHANGED <<requests, calls, isSetup, buf, used, upper, rounds, seeds,
                     given>>
  BY DEF DrainWorstCase
<1> HIDE DEF n
<1>5. /\ out' \in [Ends -> Seq(Corr)] /\ Len(out'[p]) = Len(out[p])
      /\ offset' \in [Ends -> Nat] /\ need' \in [Ends -> Nat]
      /\ need'[p] = need[p] - n
      /\ offset'[p] + need'[p] = Len(out'[p])
      /\ \A q \in Ends \ {p} : /\ out'[q] = out[q]
                               /\ offset'[q] = offset[q]
                               /\ need'[q] = need[q]
  BY <1>2, <1>3, EndFacts, CopyOutFacts
<1>6. TypeOK'
  BY <1>4, <1>5 DEF IInv, TypeOK
<1>7. ASSUME NEW q \in Ends
      PROVE  PhaseInv(q)'
  <2>1. CASE q = p
    <3>1. need'[p] <= VoleNum - BaseNum
      <4>1. need[p] \in Nat /\ need[p] <= VoleNum /\ need'[p] = need[p] - n
        BY <1>1, <1>5, EndFacts
      <4>2. VoleNum \in Nat /\ BaseNum \in Nat /\ 2 * BaseNum <= VoleNum
        BY SizesAssumption
      <4>3. QED
        BY <4>1, <4>2 DEF n
    <3>2. QED
      BY <1>1, <1>4, <1>5, <2>1, <3>1, EndFacts DEF PhaseInv, IInv, TypeOK
  <2>2. CASE q # p
    <3>1. PhaseInv(q)
      BY EndFacts
    <3>2. QED
      BY <1>4, <1>5, <2>2, <3>1, PhaseUnchanged DEF IInv, TypeOK
  <2>3. QED
    BY <2>1, <2>2
<1>8. QED
  BY <1>6, <1>7 DEF IInv

LEMMA DrainRestInv ==
  ASSUME IInv, NEW p \in Ends, DrainRest(p)
  PROVE  IInv'
<1>1. /\ pc[p] \in {"drain1", "drain2"} /\ isSetup[p]
      /\ used[p] = BaseNum /\ upper[p] = VoleNum
      /\ need[p] <= VoleNum - BaseNum
  BY EndFacts, SizesAssumption DEF DrainRest, PhaseInv
<1>2. need[p] \in Nat /\ need[p] <= need[p] /\ used[p] + need[p] <= VoleNum
  BY <1>1, EndFacts, SizesAssumption
<1>3. /\ CopyOut(p, buf[p], used[p], need[p])
      /\ used' = [used EXCEPT ![p] = @ + need[p]]
      /\ pc' = [pc EXCEPT ![p] = "idle"]
      /\ Return(p)
      /\ UNCHANGED <<requests, calls, isSetup, buf, upper, rounds, seeds>>
  BY DEF DrainRest
<1>4. /\ out' \in [Ends -> Seq(Corr)] /\ Len(out'[p]) = Len(out[p])
      /\ offset' \in [Ends -> Nat] /\ need' \in [Ends -> Nat]
      /\ offset'[p] + need'[p] = Len(out'[p])
      /\ \A q \in Ends \ {p} : /\ out'[q] = out[q]
                               /\ offset'[q] = offset[q]
                               /\ need'[q] = need[q]
  BY <1>2, <1>3, EndFacts, CopyOutFacts
<1>5. given' \in [Ends -> Seq(Corr)]
  BY <1>3, <1>4, ReturnType
<1>6. TypeOK'
  <2>1. used' \in [Ends -> Nat]
    BY <1>2, <1>3, EndFacts, SMTT(40) DEF IInv, TypeOK
  <2>2. QED
    BY <1>3, <1>4, <1>5, <2>1 DEF IInv, TypeOK
<1>7. ASSUME NEW q \in Ends
      PROVE  PhaseInv(q)'
  <2>1. CASE q = p
    <3>1. /\ used'[p] = used[p] + need[p] /\ upper'[p] = upper[p]
          /\ isSetup'[p] /\ pc'[p] = "idle"
      BY <1>1, <1>3 DEF IInv, TypeOK
    <3>2. QED
      BY <1>1, <1>2, <1>4, <2>1, <3>1, SizesAssumption DEF PhaseInv
  <2>2. CASE q # p
    <3>1. PhaseInv(q)
      BY EndFacts
    <3>2. QED
      BY <1>3, <1>4, <2>2, <3>1, PhaseUnchanged DEF IInv, TypeOK
  <2>3. QED
    BY <2>1, <2>2
<1>8. QED
  BY <1>6, <1>7 DEF IInv

-----------------------------------------------------------------------------

LEMMA InitIInv == Init => IInv
<1> SUFFICES ASSUME Init PROVE IInv
  OBVIOUS
<1>1. TypeOK
  BY SizesAssumption, BoundsAssumption DEF Init, TypeOK, Empty, Corr
<1>2. ASSUME NEW p \in Ends
      PROVE  PhaseInv(p)
  BY <1>2, SizesAssumption DEF Init, PhaseInv
<1>3. QED
  BY <1>1, <1>2 DEF IInv

LEMMA NextIInv == IInv /\ [Next]_vars => IInv'
<1> SUFFICES ASSUME IInv, [Next]_vars
             PROVE  IInv'
  OBVIOUS
<1>1. ASSUME NEW p \in Ends, NEW n \in 1 .. MaxRequest, Call(p, n)
      PROVE  IInv'
  BY <1>1, CallInv
<1>2. ASSUME NEW p \in Ends, Step(p)
      PROVE  IInv'
  BY <1>2, BeginExtensionInv, EndSetupInv, EndInplaceInv, ServeFromBufferInv,
     EndBootstrapInv, DrainWorstCaseInv, DrainRestInv DEF Step
<1>3. CASE UNCHANGED vars
  BY <1>3 DEF vars, IInv, TypeOK, PhaseInv
<1>4. QED
  BY <1>1, <1>2, <1>3 DEF Next, Finished

\* Every variable keeps its type, for all sizes of reserve and buffer.
THEOREM TypeCorrect == Spec => []TypeOK
<1>1. IInv => TypeOK
  BY DEF IInv
<1>2. QED
  BY <1>1, InitIInv, NextIInv, PTL DEF Spec

\* rsend and rrecv never copy outside the buffer or the caller's span and
\* never hand out the reserve, whatever sizes are asked for and whenever the
\* worst case of two Bootstraps occurs.
THEOREM CursorsSafe == Spec => []CursorsInBounds
<1>1. IInv => CursorsInBounds
  BY PhasesBoundCursors
<1>2. QED
  BY <1>1, InitIInv, NextIInv, PTL DEF Spec

-----------------------------------------------------------------------------
\* The reserve is spent once.  Every extension is seeded by correlations of
\* the one before it, and what is kept for the next seed is in nothing the
\* caller has or can still get.

\* The end is inside an extension.
Inside == {"in_setup", "in_loop", "in_boot1", "in_boot2"}

\* The i-th correlation kept for the next seed: in the caller's span between
\* in-place rounds, else at the front of the buffer.
InSpan(p) == pc[p] = "loop" /\ rounds[p] > 0
Kept(p, i) == IF InSpan(p) THEN out[p][offset[p] + i] ELSE buf[p][i]

\* What the caller has been given, or can be given before an extension.
Handed(p) ==
  Elems(given[p]) \cup {out[p][i] : i \in 1 .. offset[p]}
    \cup {buf[p][i] : i \in used[p] + 1 .. upper[p]}

\* No seed before the setup, and one at least inside an extension.
SeedsBegun(p) ==
  /\ pc[p] = "setup" \/ (pc[p] = "idle" /\ ~isSetup[p]) => Len(seeds[p]) = 0
  /\ pc[p] \in Inside => Len(seeds[p]) > 0

\* The seed of extension e is made of correlations of extension e - 1.
SeedsOfLast(p) ==
  \A e \in DOMAIN seeds[p] : \A x \in Elems(seeds[p][e]) : x[1] = e - 1

\* What is handed over has been made, and has seeded nothing.
HandedUnspent(p) ==
  \A x \in Handed(p) :
    /\ 0 < x[1] /\ x[1] <= Len(seeds[p])
    /\ pc[p] \in Inside => x[1] < Len(seeds[p])
    /\ \A e \in DOMAIN seeds[p] : x \notin Elems(seeds[p][e])

\* What is kept is of the last extension, and is not handed over.
KeptBack(p) ==
  isSetup[p] /\ pc[p] \notin Inside =>
    \A i \in 1 .. BaseNum :
      Kept(p, i)[1] = Len(seeds[p]) /\ Kept(p, i) \notin Handed(p)

SpentInv(p) ==
  SeedsBegun(p) /\ SeedsOfLast(p) /\ HandedUnspent(p) /\ KeptBack(p)

SInv == IInv /\ \A p \in Ends : SpentInv(p)

\* Seeds of different extensions differ in the extension they come from.
LEMMA SpentEntailed == SInv => SeedsSpentOnce
<1> SUFFICES ASSUME SInv, NEW p \in Ends
             PROVE  /\ \A e, f \in DOMAIN seeds[p] :
                         e # f => Elems(seeds[p][e]) \cap Elems(seeds[p][f]) = {}
                    /\ \A e \in DOMAIN seeds[p] :
                         Elems(seeds[p][e]) \cap Elems(given[p]) = {}
  BY DEF SeedsSpentOnce
<1>1. SeedsOfLast(p) /\ HandedUnspent(p) /\ seeds[p] \in Seq(Seq(Corr))
  BY DEF SInv, SpentInv, IInv, TypeOK
<1>2. ASSUME NEW e \in DOMAIN seeds[p], NEW f \in DOMAIN seeds[p], e # f,
             NEW x \in Elems(seeds[p][e]), x \in Elems(seeds[p][f])
      PROVE  FALSE
  <2>1. x[1] = e - 1 /\ x[1] = f - 1
    BY <1>1, <1>2 DEF SeedsOfLast
  <2>2. e \in Int /\ f \in Int
    BY <1>1
  <2>3. QED
    BY <1>2, <2>1, <2>2
<1>3. ASSUME NEW e \in DOMAIN seeds[p], NEW x \in Elems(given[p]),
             x \in Elems(seeds[p][e])
      PROVE  FALSE
  <2>1. x \in Handed(p)
    BY DEF Handed
  <2>2. QED
    BY <1>1, <1>3, <2>1 DEF HandedUnspent
<1>4. QED
  BY <1>2, <1>3

-----------------------------------------------------------------------------
\* The ways a step can change what is handed over and what is kept.

\* An end none of whose variables changes.
LEMMA SpentUnchanged ==
  ASSUME NEW p \in Ends, SpentInv(p),
         pc'[p] = pc[p], isSetup'[p] = isSetup[p], used'[p] = used[p],
         upper'[p] = upper[p], offset'[p] = offset[p], out'[p] = out[p],
         rounds'[p] = rounds[p], buf'[p] = buf[p], given'[p] = given[p],
         seeds'[p] = seeds[p]
  PROVE  SpentInv(p)'
<1>1. Handed(p)' = Handed(p)
  BY DEF Handed
<1>2. ASSUME NEW i \in 1 .. BaseNum
      PROVE  Kept(p, i)' = Kept(p, i)
  BY DEF Kept, InSpan
<1>3. SeedsBegun(p)' /\ SeedsOfLast(p)'
  BY DEF SpentInv, SeedsBegun, SeedsOfLast
<1>4. HandedUnspent(p)'
  BY <1>1 DEF SpentInv, HandedUnspent
<1>5. KeptBack(p)'
  BY <1>1, <1>2 DEF SpentInv, KeptBack
<1>6. QED
  BY <1>3, <1>4, <1>5 DEF SpentInv

\* Between extensions: nothing new is handed over, the same is kept.
LEMMA SpentBetween ==
  ASSUME NEW p \in Ends, SpentInv(p), isSetup[p], isSetup'[p],
         pc[p] \notin Inside, pc'[p] \notin Inside \cup {"setup"},
         seeds'[p] = seeds[p], Handed(p)' \subseteq Handed(p),
         \A i \in 1 .. BaseNum : Kept(p, i)' = Kept(p, i)
  PROVE  SpentInv(p)'
<1>1. SeedsBegun(p)' /\ SeedsOfLast(p)'
  BY DEF SpentInv, SeedsBegun, SeedsOfLast
<1>2. HandedUnspent(p)'
  BY DEF SpentInv, HandedUnspent
<1>3. KeptBack(p)'
  BY DEF SpentInv, KeptBack
<1>4. QED
  BY <1>1, <1>2, <1>3 DEF SpentInv

\* After an extension: of what it has made some is handed over and some,
\* other, is kept.
LEMMA SpentAfter ==
  ASSUME IInv, NEW p \in Ends, SpentInv(p), isSetup'[p],
         pc[p] \in Inside, pc'[p] \notin Inside \cup {"setup"},
         seeds'[p] = seeds[p],
         NEW I \in SUBSET Nat,
         \A x \in Handed(p)' : x \in Handed(p) \/ \E j \in I : x = <<Len(seeds[p]), j>>,
         \A i \in 1 .. BaseNum :
           \E j \in Nat \ I : Kept(p, i)' = <<Len(seeds[p]), j>>
  PROVE  SpentInv(p)'
<1> DEFINE S == Len(seeds[p])
<1>1. S \in Nat /\ S > 0 /\ DOMAIN seeds[p] = 1 .. S
  BY DEF SpentInv, SeedsBegun, IInv, TypeOK
<1>2. SeedsBegun(p)' /\ SeedsOfLast(p)'
  BY DEF SpentInv, SeedsBegun, SeedsOfLast
<1>3. HandedUnspent(p)'
  <2>1. ASSUME NEW x \in Handed(p)'
        PROVE  /\ 0 < x[1] /\ x[1] <= S
               /\ \A e \in DOMAIN seeds[p] : x \notin Elems(seeds[p][e])
    <3>1. CASE x \in Handed(p)
      BY <3>1 DEF SpentInv, HandedUnspent
    <3>2. CASE \E j \in I : x = <<S, j>>
      <4>1. x[1] = S
        BY <3>2
      <4>2. ASSUME NEW e \in DOMAIN seeds[p], x \in Elems(seeds[p][e])
            PROVE  FALSE
        <5>1. x[1] = e - 1
          BY <4>2 DEF SpentInv, SeedsOfLast
        <5>2. QED
          BY <1>1, <4>1, <5>1
      <4>3. QED
        BY <1>1, <4>1, <4>2
    <3>3. QED
      BY <3>1, <3>2
  <2>2. QED
    BY <2>1 DEF HandedUnspent
<1>4. KeptBack(p)'
  <2>1. ASSUME NEW i \in 1 .. BaseNum
        PROVE  Kept(p, i)'[1] = S /\ Kept(p, i)' \notin Handed(p)'
    <3>1. PICK j \in Nat \ I : Kept(p, i)' = <<S, j>>
      OBVIOUS
    <3>2. <<S, j>> \notin Handed(p)
      <4>1. ASSUME <<S, j>> \in Handed(p)
            PROVE  FALSE
        <5>1. <<S, j>>[1] < S
          BY <4>1 DEF SpentInv, HandedUnspent
        <5>2. QED
          BY <1>1, <5>1
      <4>2. QED
        BY <4>1
    <3>3. \A k \in I : <<S, j>> # <<S, k>>
      BY <3>1
    <3>4. QED
      BY <3>1, <3>2, <3>3
  <2>2. QED
    BY <2>1 DEF KeptBack
<1>5. QED
  BY <1>2, <1>3, <1>4 DEF SpentInv

\* The elements of a piece of a sequence.
LEMMA PieceElements ==
  ASSUME NEW S, NEW s \in Seq(S), NEW m \in Nat, NEW n \in Nat,
         m + n <= Len(s)
  PROVE  /\ SubSeq(s, m + 1, m + n) \in Seq(S)
         /\ Len(SubSeq(s, m + 1, m + n)) = n
         /\ \A k \in 1 .. n : SubSeq(s, m + 1, m + n)[k] = s[m + k]
<1>1. m + 1 \in Int /\ m + n \in Int
  OBVIOUS
<1>2. \A i \in m + 1 .. m + n : s[i] \in S
  OBVIOUS
<1>3. /\ SubSeq(s, m + 1, m + n) \in Seq(S)
      /\ Len(SubSeq(s, m + 1, m + n))
           = IF m + 1 <= m + n THEN m + n - (m + 1) + 1 ELSE 0
      /\ \A i \in 1 .. m + n - (m + 1) + 1 :
           SubSeq(s, m + 1, m + n)[i] = s[m + 1 + i - 1]
  BY <1>1, <1>2, SubSeqProperties
<1>4. \A i \in 1 .. n : m + 1 + i - 1 = m + i
  OBVIOUS
<1>5. m + n - (m + 1) + 1 = n
  OBVIOUS
<1>6. QED
  BY <1>3, <1>4, <1>5, SMTT(40)

\* What an in-place round has kept, in the caller's span.
LEMMA SpanElements ==
  ASSUME IInv, NEW p \in Ends, InSpan(p), NEW seed,
         seed = SubSeq(out[p], offset[p] + 1, offset[p] + BaseNum)
  PROVE  /\ seed \in Seq(Corr) /\ Len(seed) = BaseNum
         /\ \A k \in 1 .. BaseNum : seed[k] = out[p][offset[p] + k]
<1>1. /\ PhaseInv(p) /\ out[p] \in Seq(Corr) /\ offset[p] \in Nat
      /\ need[p] \in Nat /\ BaseNum \in Nat
  BY EndFacts, SizesAssumption
<1>2. offset[p] + BaseNum <= Len(out[p])
  BY <1>1 DEF PhaseInv, InSpan
<1>3. QED
  <2>1. out[p] \in Seq(Corr) /\ offset[p] \in Nat /\ BaseNum \in Nat
    BY <1>1
  <2>2. QED
    BY <1>2, <2>1, PieceElements, ZenonT(40)

\* What is handed over is correlations.
LEMMA HandedType ==
  ASSUME IInv, NEW p \in Ends, NEW x \in Handed(p)
  PROVE  x \in Corr /\ x[1] \in Nat
<1>1. /\ given[p] \in Seq(Corr) /\ out[p] \in Seq(Corr) /\ offset[p] \in Nat
      /\ need[p] \in Nat /\ used[p] \in Nat /\ upper[p] \in Nat
      /\ buf[p] \in [1 .. VoleNum -> Corr] /\ PhaseInv(p)
  BY DEF IInv, TypeOK
<1>2. upper[p] <= VoleNum /\ offset[p] <= Len(out[p])
  BY <1>1, SizesAssumption DEF PhaseInv
<1>3. x \in Corr
  <2>1. ASSUME NEW i \in DOMAIN given[p]
        PROVE  given[p][i] \in Corr
    BY <1>1
  <2>2. ASSUME NEW i \in 1 .. offset[p]
        PROVE  out[p][i] \in Corr
    BY <1>1, <1>2
  <2>3. ASSUME NEW i \in used[p] + 1 .. upper[p]
        PROVE  buf[p][i] \in Corr
    BY <1>1, <1>2, SizesAssumption
  <2>4. QED
    BY <2>1, <2>2, <2>3 DEF Handed, Elems
<1>4. QED
  BY <1>3 DEF Corr

-----------------------------------------------------------------------------
\* Each action preserves SpentInv at the end that takes it.

\* The elements of a copy of a piece of s over the end of what is handed.
LEMMA CopyOutElements ==
  ASSUME IInv, NEW p \in Ends, NEW s \in [1 .. VoleNum -> Corr],
         NEW from \in Nat, NEW n \in Nat, from + n <= VoleNum, n <= need[p],
         CopyOut(p, s, from, n), NEW i \in 1 .. offset'[p]
  PROVE  \/ i <= offset[p] /\ out'[p][i] = out[p][i]
         \/ i > offset[p] /\ i - offset[p] \in 1 .. n
              /\ out'[p][i] = s[from + (i - offset[p])]
<1>1. /\ out[p] \in Seq(Corr) /\ offset[p] \in Nat /\ need[p] \in Nat
      /\ offset[p] + need[p] = Len(out[p])
  BY EndFacts DEF PhaseInv
<1>2. offset'[p] = offset[p] + n
  BY CopyOutFacts
<1>3. i \in DOMAIN out[p]
  BY <1>1, <1>2
<1>4. out'[p] = Overlay(out[p], offset[p], [k \in 1 .. n |-> s[from + k]])
  BY DEF CopyOut, IInv, TypeOK
<1>5. out'[p][i] = IF i - offset[p] \in 1 .. n THEN s[from + (i - offset[p])]
                                              ELSE out[p][i]
  BY <1>3, <1>4 DEF Overlay
<1>6. QED
  BY <1>1, <1>2, <1>5

\* The elements of a copy that has been served from the rest of the buffer.
LEMMA ServedElements ==
  ASSUME IInv, NEW p \in Ends, NEW s \in [1 .. VoleNum -> Corr],
         NEW n \in Nat, used[p] + n <= upper[p], n <= need[p],
         isSetup[p], CopyOut(p, s, used[p], n),
         \A k \in used[p] + 1 .. upper[p] : s[k] = buf[p][k]
  PROVE  {out'[p][i] : i \in 1 .. offset'[p]} \subseteq Handed(p)
<1> SUFFICES ASSUME NEW i \in 1 .. offset'[p]
             PROVE  out'[p][i] \in Handed(p)
  OBVIOUS
<1>1. used[p] \in Nat /\ upper[p] \in Nat /\ upper[p] <= VoleNum /\ offset[p] \in Nat
      /\ offset'[p] = offset[p] + n
  <2>1. used[p] \in Nat /\ upper[p] \in Nat /\ upper[p] <= VoleNum /\ offset[p] \in Nat
    BY EndFacts DEF PhaseInv
  <2>2. QED
    BY <2>1, SizesAssumption, CopyOutFacts
<1>2. used[p] + n <= VoleNum
  BY <1>1, SizesAssumption
<1>3. CASE i <= offset[p] /\ out'[p][i] = out[p][i]
  BY <1>1, <1>3 DEF Handed
<1>4. CASE i > offset[p] /\ i - offset[p] \in 1 .. n
             /\ out'[p][i] = s[used[p] + (i - offset[p])]
  <2>1. used[p] + (i - offset[p]) \in used[p] + 1 .. upper[p]
    BY <1>1, <1>4, SMTT(40)
  <2>2. QED
    BY <1>4, <2>1 DEF Handed
<1>5. used[p] \in Nat
  BY <1>1
<1>6. QED
  BY <1>2, <1>3, <1>4, <1>5, CopyOutElements, ZenonT(40)

\* A call returns what its span holds.
LEMMA ReturnedElements ==
  ASSUME IInv, NEW p \in Ends, out' \in [Ends -> Seq(Corr)],
         offset'[p] = Len(out'[p]), Return(p)
  PROVE  Elems(given'[p]) \subseteq
           Elems(given[p]) \cup {out'[p][i] : i \in 1 .. offset'[p]}
<1>1. given[p] \in Seq(Corr) /\ out'[p] \in Seq(Corr)
      /\ given'[p] = given[p] \o out'[p]
  BY DEF Return, IInv, TypeOK
<1> SUFFICES ASSUME NEW k \in DOMAIN given'[p]
             PROVE  given'[p][k] \in
                      Elems(given[p]) \cup {out'[p][i] : i \in 1 .. offset'[p]}
  BY DEF Elems
<1>2. CASE k <= Len(given[p])
  <2>1. given'[p][k] = given[p][k] /\ k \in DOMAIN given[p]
    BY <1>1, <1>2
  <2>2. QED
    BY <2>1 DEF Elems
<1>3. CASE k > Len(given[p])
  <2>1. /\ given'[p][k] = out'[p][k - Len(given[p])]
        /\ k - Len(given[p]) \in 1 .. Len(out'[p])
    BY <1>1, <1>3
  <2>2. QED
    BY <2>1
<1>4. k \in Int /\ Len(given[p]) \in Int
  BY <1>1
<1>5. k <= Len(given[p]) \/ k > Len(given[p])
  BY <1>4
<1>6. QED
  BY <1>2, <1>3, <1>5, Zenon

\* A call only fixes the span to fill.
LEMMA CallSpent ==
  ASSUME SInv, NEW p \in Ends, NEW n \in 1 .. MaxRequest, Call(p, n)
  PROVE  SpentInv(p)'
<1>1. /\ pc[p] = "idle" /\ offset'[p] = 0 /\ rounds'[p] = 0
      /\ pc'[p] = IF isSetup[p] THEN "loop" ELSE "setup"
      /\ UNCHANGED <<isSetup, buf, used, upper, seeds, given>>
  BY DEF Call, SInv, IInv, TypeOK
<1>2. Handed(p)' \subseteq Handed(p)
  BY <1>1 DEF Handed
<1>3. SpentInv(p) /\ rounds'[p] \in Nat /\ offset[p] \in Nat
  BY <1>1 DEF SInv, IInv, TypeOK
<1>4. CASE isSetup[p]
  <2>1. \A i \in 1 .. BaseNum : Kept(p, i)' = Kept(p, i)
    BY <1>1 DEF Kept, InSpan
  <2>2. QED
    BY <1>1, <1>2, <1>3, <1>4, <2>1, SpentBetween DEF Inside
<1>5. CASE ~isSetup[p]
  <2>1. SeedsBegun(p)' /\ SeedsOfLast(p)'
    BY <1>1, <1>3, <1>5 DEF SpentInv, SeedsBegun, SeedsOfLast, Inside
  <2>2. HandedUnspent(p)'
    BY <1>1, <1>2, <1>3, <1>5 DEF SpentInv, HandedUnspent, Inside
  <2>3. KeptBack(p)'
    BY <1>1, <1>5 DEF KeptBack
  <2>4. QED
    BY <2>1, <2>2, <2>3 DEF SpentInv
<1>6. QED
  BY <1>4, <1>5

\* The seed of an extension is what has been kept, or at setup the base VOLE.
LEMMA NextSeedElements ==
  ASSUME IInv, NEW p \in Ends, pc[p] \in DOMAIN Extending,
         NEW x \in Elems(NextSeed(p))
  PROVE  \/ pc[p] = "setup" /\ x[1] = 0
         \/ isSetup[p] /\ \E i \in 1 .. BaseNum : x = Kept(p, i)
<1>1. PhaseInv(p) /\ out[p] \in Seq(Corr) /\ offset[p] \in Nat /\ need[p] \in Nat
      /\ buf[p] \in [1 .. VoleNum -> Corr] /\ isSetup[p] \in BOOLEAN
  BY EndFacts
<1>2. pc[p] \in {"setup", "loop", "boot1", "boot2"}
  BY DEF Extending
<1>3. CASE pc[p] = "setup"
  BY <1>3, SizesAssumption DEF NextSeed, BaseVole, Elems
<1>4. CASE pc[p] # "setup" /\ InSpan(p)
  <2>1. isSetup[p] /\ offset[p] + BaseNum <= Len(out[p])
    BY <1>1, <1>2, <1>4, SizesAssumption DEF PhaseInv, InSpan
  <2>2. NextSeed(p) = SubSeq(out[p], offset[p] + 1, offset[p] + BaseNum)
    BY <1>4 DEF NextSeed, InSpan
  <2> DEFINE seed == SubSeq(out[p], offset[p] + 1, offset[p] + BaseNum)
  <2>3. /\ seed \in Seq(Corr) /\ Len(seed) = BaseNum
        /\ \A k \in 1 .. BaseNum : seed[k] = out[p][offset[p] + k]
    BY <1>4, SpanElements
  <2> HIDE DEF seed
  <2>4. NextSeed(p) = seed
    BY <2>2 DEF seed
  <2>5. PICK i \in DOMAIN NextSeed(p) : x = NextSeed(p)[i]
    BY DEF Elems
  <2>6. i \in 1 .. BaseNum /\ x = out[p][offset[p] + i]
    BY <2>3, <2>4, <2>5, SizesAssumption
  <2>7. QED
    BY <1>4, <2>1, <2>6 DEF Kept
<1>5. CASE pc[p] # "setup" /\ ~InSpan(p)
  <2>1. isSetup[p] /\ BaseNum \in Nat /\ VoleNum \in Nat /\ BaseNum <= VoleNum
    BY <1>1, <1>2, <1>5, SizesAssumption DEF PhaseInv
  <2>2. NextSeed(p) = SubSeq(buf[p], 1, BaseNum)
    BY <1>5 DEF NextSeed, InSpan
  <2>3. PICK i \in DOMAIN NextSeed(p) : x = NextSeed(p)[i]
    BY DEF Elems
  <2>4. i \in 1 .. BaseNum /\ x = buf[p][i]
    <3>1. buf[p] \in Seq(Corr) /\ Len(buf[p]) = VoleNum
      BY <1>1, <2>1
    <3>2. QED
      BY <2>1, <2>2, <2>3, <3>1
  <2>5. QED
    BY <1>5, <2>1, <2>4 DEF Kept
<1>6. QED
  BY <1>3, <1>4, <1>5

\* An extension starts from the kept correlations, which nothing handed over holds.
LEMMA BeginExtensionSpent ==
  ASSUME SInv, NEW p \in Ends, BeginExtension(p)
  PROVE  SpentInv(p)'
<1> DEFINE S == Len(seeds[p])
<1>1. /\ seeds[p] \in Seq(Seq(Corr)) /\ S \in Nat /\ NextSeed(p) \in Seq(Corr)
      /\ SpentInv(p) /\ PhaseInv(p)
  BY NextSeedType, SMTT(40) DEF SInv, IInv, TypeOK
<1>2. /\ pc[p] \in DOMAIN Extending /\ pc[p] \in {"setup", "loop", "boot1", "boot2"}
      /\ pc'[p] \in Inside
      /\ seeds'[p] = Append(seeds[p], NextSeed(p))
      /\ UNCHANGED <<isSetup, buf, used, upper, out, offset, rounds, given>>
  BY DEF BeginExtension, Extending, Inside, SInv, IInv, TypeOK
<1>3. /\ Len(seeds'[p]) = S + 1 /\ DOMAIN seeds'[p] = 1 .. S + 1
      /\ seeds'[p][S + 1] = NextSeed(p)
      /\ \A e \in 1 .. S : seeds'[p][e] = seeds[p][e]
      /\ DOMAIN seeds[p] = 1 .. S
  BY <1>1, <1>2
<1>4. Handed(p)' = Handed(p)
  BY <1>2 DEF Handed
<1>5. pc[p] = "setup" => S = 0
  BY <1>1 DEF SpentInv, SeedsBegun
<1>6. ASSUME NEW x \in Elems(NextSeed(p))
      PROVE  x[1] = S /\ x \notin Handed(p)
  <2>1. CASE pc[p] = "setup" /\ x[1] = 0
    BY <1>1, <1>5, <2>1 DEF SpentInv, HandedUnspent
  <2>2. CASE isSetup[p] /\ \E i \in 1 .. BaseNum : x = Kept(p, i)
    BY <1>1, <1>2, <2>2 DEF SpentInv, KeptBack, Inside
  <2>3. QED
    BY <1>2, <2>1, <2>2, NextSeedElements DEF SInv
<1>7. SeedsBegun(p)'
  BY <1>1, <1>2, <1>3 DEF SeedsBegun, Inside
<1>8. SeedsOfLast(p)'
  <2>1. ASSUME NEW e \in 1 .. S + 1, NEW x \in Elems(seeds'[p][e])
        PROVE  x[1] = e - 1
    <3>1. CASE e = S + 1
      BY <1>1, <1>3, <1>6, <2>1, <3>1
    <3>2. CASE e \in 1 .. S
      BY <1>1, <1>3, <2>1, <3>2 DEF SpentInv, SeedsOfLast
    <3>3. QED
      BY <1>1, <3>1, <3>2
  <2>2. QED
    BY <1>3, <2>1 DEF SeedsOfLast, Elems
<1>9. HandedUnspent(p)'
  <2>1. ASSUME NEW x \in Handed(p)
        PROVE  /\ 0 < x[1] /\ x[1] <= S
               /\ \A e \in 1 .. S + 1 : x \notin Elems(seeds'[p][e])
    BY <1>1, <1>3, <1>6 DEF SpentInv, HandedUnspent
  <2>2. ASSUME NEW x \in Handed(p)
        PROVE  0 < x[1] /\ x[1] <= S + 1 /\ x[1] < S + 1
    <3>1. x[1] \in Int
      BY HandedType DEF SInv
    <3>2. QED
      BY <1>1, <2>1, <3>1
  <2>3. QED
    BY <1>3, <1>4, <2>1, <2>2 DEF HandedUnspent, Elems
<1>10. KeptBack(p)'
  BY <1>2 DEF KeptBack
<1>11. QED
  BY <1>7, <1>8, <1>9, <1>10 DEF SpentInv

\* Both ends of a Bootstrap, and the setup: the new block lies in the
\* buffer, its front is kept.
LEMMA RefillSpent ==
  ASSUME SInv, NEW p \in Ends, NEW n \in BaseNum .. VoleNum,
         pc[p] \in Inside, pc'[p] \notin Inside \cup {"setup", "loop"} \/ rounds'[p] = 0,
         pc'[p] \notin Inside \cup {"setup"}, isSetup'[p],
         buf'[p] = Overlay(buf[p], 0, Made(p, n)),
         used'[p] = BaseNum, upper'[p] = n,
         out'[p] = out[p], offset'[p] = offset[p], given'[p] = given[p],
         seeds'[p] = seeds[p]
  PROVE  SpentInv(p)'
<1> DEFINE S == Len(seeds[p])
           I == BaseNum + 1 .. n
<1>1. /\ SpentInv(p) /\ buf[p] \in [1 .. VoleNum -> Corr]
      /\ BaseNum \in Nat /\ BaseNum > 0 /\ VoleNum \in Nat /\ n \in Nat /\ n <= VoleNum
      /\ BaseNum <= n
  BY SizesAssumption DEF SInv, IInv, TypeOK
<1>2. ASSUME NEW i \in 1 .. n
      PROVE  buf'[p][i] = <<S, i>>
  <2>1. i - 0 = i /\ i \in 1 .. VoleNum
    BY <1>1
  <2>2. DOMAIN buf[p] = 1 .. VoleNum /\ DOMAIN Made(p, n) = 1 .. n
        /\ Made(p, n)[i] = <<S, i>>
    BY <1>1 DEF Made, Block
  <2>3. QED
    BY <1>2, <2>1, <2>2 DEF Overlay
<1>3. ASSUME NEW x \in Handed(p)'
      PROVE  x \in Handed(p) \/ \E j \in I : x = <<S, j>>
  <2>1. CASE x \in Elems(given[p]) \cup {out[p][i] : i \in 1 .. offset[p]}
    BY <2>1 DEF Handed
  <2>2. CASE \E i \in BaseNum + 1 .. n : x = buf'[p][i]
    BY <1>1, <1>2, <2>2
  <2>3. QED
    BY <2>1, <2>2 DEF Handed
<1>4. ASSUME NEW i \in 1 .. BaseNum
      PROVE  \E j \in Nat \ I : Kept(p, i)' = <<S, j>>
  <2>1. Kept(p, i)' = buf'[p][i]
    BY <1>1 DEF Kept, InSpan
  <2>2. i \in Nat \ I /\ i \in 1 .. n
    BY <1>1
  <2>3. QED
    BY <1>2, <2>1, <2>2
<1>5. I \in SUBSET Nat
  BY <1>1
<1> HIDE DEF I
<1>6. QED
  BY <1>1, <1>3, <1>4, <1>5, SpentAfter DEF SInv

\* The setup fills the buffer with a block nothing has used.
LEMMA EndSetupSpent ==
  ASSUME SInv, NEW p \in Ends, EndSetup(p)
  PROVE  SpentInv(p)'
<1>1. /\ pc[p] = "in_setup" /\ pc'[p] = "loop" /\ isSetup'[p] = TRUE
      /\ buf'[p] = Overlay(buf[p], 0, Made(p, SetupNum))
      /\ used'[p] = BaseNum /\ upper'[p] = SetupNum
      /\ UNCHANGED <<out, offset, rounds, seeds, given>>
  BY DEF EndSetup, SInv, IInv, TypeOK
<1>2. rounds[p] = 0
  BY <1>1, EndFacts DEF SInv, PhaseInv
<1>3. SetupNum \in BaseNum .. VoleNum
  BY SizesAssumption
<1>4. QED
  BY <1>1, <1>2, <1>3, RefillSpent DEF Inside

\* So does a Bootstrap.
LEMMA EndBootstrapSpent ==
  ASSUME SInv, NEW p \in Ends, EndBootstrap(p)
  PROVE  SpentInv(p)'
<1>1. /\ pc[p] \in {"in_boot1", "in_boot2"} /\ pc'[p] \in {"drain1", "drain2"}
      /\ isSetup'[p] = isSetup[p]
      /\ buf'[p] = Overlay(buf[p], 0, Made(p, VoleNum))
      /\ used'[p] = BaseNum /\ upper'[p] = VoleNum
      /\ UNCHANGED <<out, offset, rounds, seeds, given>>
  BY DEF EndBootstrap, SInv, IInv, TypeOK
<1>2. isSetup[p]
  BY <1>1, EndFacts DEF SInv, PhaseInv
<1>3. VoleNum \in BaseNum .. VoleNum
  BY SizesAssumption
<1>4. QED
  BY <1>1, <1>2, <1>3, RefillSpent DEF Inside

\* An in-place round: the new block lies in the caller's span, its end is
\* kept.
LEMMA EndInplaceSpent ==
  ASSUME SInv, NEW p \in Ends, EndInplace(p)
  PROVE  SpentInv(p)'
<1> DEFINE S == Len(seeds[p])
           kept == VoleNum - BaseNum
           I == 1 .. kept
<1>1. /\ SpentInv(p) /\ PhaseInv(p) /\ out[p] \in Seq(Corr)
      /\ offset[p] \in Nat /\ need[p] \in Nat /\ rounds[p] \in Nat
      /\ BaseNum \in Nat /\ VoleNum \in Nat /\ kept \in Nat
      /\ kept + BaseNum = VoleNum
  BY EndFacts, SizesAssumption DEF SInv
<1>2. /\ pc[p] = "in_loop" /\ pc'[p] = "loop"
      /\ out'[p] = Overlay(out[p], offset[p], Made(p, VoleNum))
      /\ offset'[p] = offset[p] + kept /\ rounds'[p] = rounds[p] + 1
      /\ UNCHANGED <<isSetup, buf, used, upper, seeds, given>>
  BY DEF EndInplace, SInv, IInv, TypeOK
<1>3. isSetup[p] /\ offset[p] + VoleNum <= Len(out[p])
  BY <1>1, <1>2, SizesAssumption DEF PhaseInv
<1> HIDE DEF kept
<1>4. ASSUME NEW i \in 1 .. offset[p] + VoleNum
      PROVE  out'[p][i] = IF i <= offset[p] THEN out[p][i]
                          ELSE <<S, i - offset[p]>>
  <2>1. i \in DOMAIN out[p] /\ DOMAIN Made(p, VoleNum) = 1 .. VoleNum
    BY <1>1, <1>3 DEF Made, Block
  <2>2. i > offset[p] => /\ i - offset[p] \in 1 .. VoleNum
                         /\ Made(p, VoleNum)[i - offset[p]] = <<S, i - offset[p]>>
    BY <1>1, SMTT(40) DEF Made, Block
  <2>3. i <= offset[p] => i - offset[p] \notin 1 .. VoleNum
    BY <1>1
  <2>4. (i <= offset[p]) \/ i > offset[p]
    BY <1>1
  <2>5. QED
    BY <1>2, <2>1, <2>2, <2>3, <2>4 DEF Overlay
<1>5. ASSUME NEW x \in Handed(p)'
      PROVE  x \in Handed(p) \/ \E j \in I : x = <<S, j>>
  <2>1. CASE x \in Elems(given[p]) \cup {buf[p][i] : i \in used[p] + 1 .. upper[p]}
    BY <2>1 DEF Handed
  <2>2. ASSUME NEW i \in 1 .. offset[p] + kept, x = out'[p][i]
        PROVE  x \in Handed(p) \/ \E j \in I : x = <<S, j>>
    <3>1. i \in 1 .. offset[p] + VoleNum
      BY <1>1
    <3>2. CASE i <= offset[p]
      <4>1. i \in 1 .. offset[p]
        BY <1>1, <2>2, <3>2
      <4>2. x = out[p][i]
        BY <1>4, <2>2, <3>1, <3>2
      <4>3. QED
        BY <4>1, <4>2 DEF Handed
    <3>3. CASE ~(i <= offset[p])
      <4>1. i - offset[p] \in I
        BY <1>1, <3>3
      <4>2. x = <<S, i - offset[p]>>
        BY <1>4, <2>2, <3>1, <3>3
      <4>3. QED
        BY <4>1, <4>2
    <3>4. QED
      BY <3>2, <3>3
  <2>3. QED
    BY <1>2, <2>1, <2>2 DEF Handed
<1>6. ASSUME NEW i \in 1 .. BaseNum
      PROVE  \E j \in Nat \ I : Kept(p, i)' = <<S, j>>
  <2>1. Kept(p, i)' = out'[p][offset[p] + kept + i]
    BY <1>1, <1>2 DEF Kept, InSpan
  <2>2. /\ offset[p] + kept + i \in 1 .. offset[p] + VoleNum
        /\ ~(offset[p] + kept + i <= offset[p])
        /\ offset[p] + kept + i - offset[p] = kept + i
    BY <1>1
  <2>3. out'[p][offset[p] + kept + i] = <<S, kept + i>>
    <3>1. ASSUME NEW k \in Nat, k = offset[p] + kept + i
          PROVE  out'[p][k] = <<S, kept + i>>
      <4>1. k \in 1 .. offset[p] + VoleNum /\ ~(k <= offset[p])
            /\ k - offset[p] = kept + i
        BY <1>1, <2>2, <3>1
      <4>2. out'[p][k] = <<S, k - offset[p]>>
        BY <1>4, <4>1
      <4>3. QED
        BY <4>1, <4>2
    <3>2. offset[p] + kept + i \in Nat
      BY <1>1
    <3>3. QED
      BY <3>1, <3>2
  <2>4. kept + i \in Nat \ I
    BY <1>1
  <2>5. QED
    BY <2>1, <2>3, <2>4
<1>7. I \in SUBSET Nat
  OBVIOUS
<1> HIDE DEF I
<1>8. QED
  BY <1>1, <1>2, <1>3, <1>5, <1>6, <1>7, SpentAfter DEF SInv, Inside

\* Refreshing puts what is kept at the front of the buffer and leaves its
\* rest alone.
LEMMA RefreshedElements ==
  ASSUME IInv, RefreshReserve, NEW p \in Ends, pc[p] = "loop"
  PROVE  /\ \A i \in 1 .. BaseNum : Refreshed(p)[i] = Kept(p, i)
         /\ \A i \in used[p] + 1 .. upper[p] : Refreshed(p)[i] = buf[p][i]
<1>1. /\ PhaseInv(p) /\ out[p] \in Seq(Corr)
      /\ offset[p] \in Nat /\ need[p] \in Nat
      /\ used[p] \in Nat /\ upper[p] \in Nat /\ rounds[p] \in Nat
      /\ buf[p] \in [1 .. VoleNum -> Corr] /\ isSetup[p] \in BOOLEAN
      /\ BaseNum \in Nat /\ BaseNum > 0 /\ VoleNum \in Nat /\ BaseNum <= VoleNum
  BY EndFacts, SizesAssumption
<1>2. BaseNum <= used[p] /\ used[p] <= upper[p] /\ upper[p] <= VoleNum
  BY <1>1 DEF PhaseInv
<1>3. CASE InSpan(p)
  <2> DEFINE seed == SubSeq(out[p], offset[p] + 1, offset[p] + BaseNum)
  <2>1. /\ seed \in Seq(Corr) /\ Len(seed) = BaseNum
        /\ \A k \in 1 .. BaseNum : seed[k] = out[p][offset[p] + k]
    BY <1>3, SpanElements
  <2>2. Refreshed(p) = Overlay(buf[p], 0, seed)
    BY <1>3 DEF Refreshed, InSpan
  <2> HIDE DEF seed
  <2>3. ASSUME NEW i \in 1 .. BaseNum
        PROVE  Overlay(buf[p], 0, seed)[i] = seed[i]
    <3>1. i \in DOMAIN buf[p] /\ i - 0 = i /\ i \in DOMAIN seed
      BY <1>1, <2>1
    <3>2. QED
      BY <3>1 DEF Overlay
  <2>4. ASSUME NEW i \in used[p] + 1 .. upper[p]
        PROVE  Overlay(buf[p], 0, seed)[i] = buf[p][i]
    <3>1. i \in DOMAIN buf[p] /\ i - 0 \notin DOMAIN seed
      BY <1>1, <1>2, <2>1
    <3>2. QED
      BY <3>1 DEF Overlay
  <2>5. QED
    BY <1>3, <2>1, <2>2, <2>3, <2>4 DEF Kept
<1>4. CASE ~InSpan(p)
  BY <1>4 DEF Refreshed, InSpan, Kept
<1>5. QED
  BY <1>3, <1>4

\* A copy takes the buffer past its reserve, never the reserve.
LEMMA ServeFromBufferSpent ==
  ASSUME SInv, RefreshReserve, NEW p \in Ends, ServeFromBuffer(p)
  PROVE  SpentInv(p)'
<1> DEFINE n == Min2(upper[p] - used[p], need[p])
<1>1. /\ IInv /\ SpentInv(p) /\ PhaseInv(p) /\ out[p] \in Seq(Corr)
      /\ offset[p] \in Nat /\ need[p] \in Nat
      /\ used[p] \in Nat /\ upper[p] \in Nat /\ rounds[p] \in Nat
      /\ buf[p] \in [1 .. VoleNum -> Corr]
      /\ BaseNum \in Nat /\ BaseNum > 0 /\ VoleNum \in Nat /\ BaseNum <= VoleNum
  BY EndFacts, SizesAssumption DEF SInv
<1>2. /\ pc[p] = "loop" /\ pc'[p] \in {"boot1", "idle"}
      /\ pc'[p] = "idle" => ~(n < need[p]) /\ Return(p)
      /\ pc'[p] # "idle" => given'[p] = given[p]
      /\ buf'[p] = Refreshed(p) /\ used'[p] = used[p] + n
      /\ CopyOut(p, Refreshed(p), used[p], n)
      /\ UNCHANGED <<isSetup, upper, rounds, seeds>>
  BY DEF ServeFromBuffer, SInv, IInv, TypeOK
<1>3. isSetup[p] /\ BaseNum <= used[p] /\ used[p] <= upper[p] /\ upper[p] <= VoleNum
  BY <1>1, <1>2 DEF PhaseInv
<1>4. n \in Nat /\ n <= need[p] /\ used[p] + n <= upper[p]
  BY <1>1, <1>3 DEF Min2
<1>5. Refreshed(p) \in [1 .. VoleNum -> Corr]
  BY <1>1, <1>2, RefreshedType
<1>6. /\ \A i \in 1 .. BaseNum : Refreshed(p)[i] = Kept(p, i)
      /\ \A i \in used[p] + 1 .. upper[p] : Refreshed(p)[i] = buf[p][i]
  BY <1>1, <1>2, RefreshedElements
<1> HIDE DEF n
<1>7. {out'[p][i] : i \in 1 .. offset'[p]} \subseteq Handed(p)
  BY <1>1, <1>2, <1>3, <1>4, <1>5, <1>6, ServedElements
<1>8. Elems(given'[p]) \subseteq Handed(p)
  <2>1. CASE pc'[p] # "idle"
    BY <1>2, <2>1 DEF Handed
  <2>2. CASE pc'[p] = "idle"
    <3>1. /\ out' \in [Ends -> Seq(Corr)] /\ offset' \in [Ends -> Nat]
          /\ offset'[p] + need'[p] = Len(out'[p]) /\ need'[p] = need[p] - n
      <4>1. used[p] + n <= VoleNum
        BY <1>1, <1>3, <1>4
      <4>2. QED
        BY <1>1, <1>2, <1>4, <1>5, <4>1, CopyOutFacts
    <3>2. need'[p] = 0
      BY <1>1, <1>2, <1>4, <2>2, <3>1
    <3>3. offset'[p] = Len(out'[p])
      BY <3>1, <3>2
    <3>4. QED
      BY <1>1, <1>2, <1>7, <2>2, <3>1, <3>3, ReturnedElements DEF Handed
  <2>3. QED
    BY <2>1, <2>2
<1>9. Handed(p)' \subseteq Handed(p)
  <2>1. {buf'[p][i] : i \in used'[p] + 1 .. upper'[p]} \subseteq Handed(p)
    <3>1. ASSUME NEW i \in used[p] + n + 1 .. upper[p]
          PROVE  Refreshed(p)[i] \in Handed(p)
      <4>1. i \in used[p] + 1 .. upper[p]
        BY <1>1, <1>4
      <4>2. QED
        BY <1>6, <4>1 DEF Handed
    <3>2. QED
      BY <1>2, <3>1
  <2>2. QED
    BY <1>7, <1>8, <2>1 DEF Handed
<1>10. \A i \in 1 .. BaseNum : Kept(p, i)' = Kept(p, i)
  <2>1. ASSUME NEW i \in 1 .. BaseNum
        PROVE  Kept(p, i)' = buf'[p][i]
    BY <1>2 DEF Kept, InSpan
  <2>2. QED
    BY <1>2, <1>6, <2>1
<1>11. QED
  BY <1>1, <1>2, <1>3, <1>9, <1>10, SpentBetween DEF Inside

\* So does the copy before the second Bootstrap.
LEMMA DrainWorstCaseSpent ==
  ASSUME SInv, NEW p \in Ends, DrainWorstCase(p)
  PROVE  SpentInv(p)'
<1> DEFINE n == upper[p] - BaseNum
<1>1. /\ IInv /\ SpentInv(p) /\ PhaseInv(p)
      /\ buf[p] \in [1 .. VoleNum -> Corr]
      /\ upper[p] \in Nat /\ need[p] \in Nat
      /\ BaseNum \in Nat /\ VoleNum \in Nat /\ BaseNum <= VoleNum
  BY EndFacts, SizesAssumption DEF SInv
<1>2. /\ pc[p] = "drain1" /\ pc'[p] = "boot2" /\ need[p] > n
      /\ CopyOut(p, buf[p], used[p], n)
      /\ UNCHANGED <<isSetup, buf, used, upper, rounds, seeds, given>>
  BY DEF DrainWorstCase, SInv, IInv, TypeOK
<1>3. isSetup[p] /\ used[p] = BaseNum /\ upper[p] = VoleNum
  BY <1>1, <1>2 DEF PhaseInv
<1>4. n \in Nat /\ n <= need[p] /\ used[p] + n <= upper[p]
  BY <1>1, <1>2, <1>3
<1> HIDE DEF n
<1>5. {out'[p][i] : i \in 1 .. offset'[p]} \subseteq Handed(p)
  BY <1>1, <1>2, <1>3, <1>4, ServedElements
<1>6. Handed(p)' \subseteq Handed(p)
  BY <1>2, <1>5 DEF Handed
<1>7. \A i \in 1 .. BaseNum : Kept(p, i)' = Kept(p, i)
  BY <1>2 DEF Kept, InSpan
<1>8. QED
  BY <1>1, <1>2, <1>3, <1>6, <1>7, SpentBetween DEF Inside

\* So does the last copy of a call.
LEMMA DrainRestSpent ==
  ASSUME SInv, NEW p \in Ends, DrainRest(p)
  PROVE  SpentInv(p)'
<1>1. /\ IInv /\ SpentInv(p) /\ PhaseInv(p)
      /\ buf[p] \in [1 .. VoleNum -> Corr]
      /\ used[p] \in Nat /\ upper[p] \in Nat /\ need[p] \in Nat /\ offset[p] \in Nat
      /\ BaseNum \in Nat /\ VoleNum \in Nat /\ BaseNum <= VoleNum
  BY EndFacts, SizesAssumption DEF SInv
<1>2. /\ pc[p] \in {"drain1", "drain2"} /\ pc'[p] = "idle"
      /\ pc[p] = "drain1" => need[p] <= upper[p] - BaseNum
      /\ CopyOut(p, buf[p], used[p], need[p]) /\ Return(p)
      /\ used'[p] = used[p] + need[p]
      /\ UNCHANGED <<isSetup, buf, upper, rounds, seeds>>
  BY DEF DrainRest, SInv, IInv, TypeOK
<1>3. isSetup[p] /\ used[p] = BaseNum /\ upper[p] = VoleNum
  BY <1>1, <1>2 DEF PhaseInv
<1>4. need[p] <= need[p] /\ used[p] + need[p] <= upper[p]
  BY <1>1, <1>2, <1>3 DEF PhaseInv
<1>5. {out'[p][i] : i \in 1 .. offset'[p]} \subseteq Handed(p)
  BY <1>1, <1>2, <1>3, <1>4, ServedElements
<1>6. /\ out' \in [Ends -> Seq(Corr)] /\ offset' \in [Ends -> Nat]
      /\ offset'[p] + need'[p] = Len(out'[p]) /\ need'[p] = need[p] - need[p]
  <2>1. used[p] + need[p] <= VoleNum
    BY <1>3, <1>4
  <2>2. QED
    BY <1>1, <1>2, <1>4, <2>1, CopyOutFacts
<1>7. offset'[p] = Len(out'[p])
  BY <1>1, <1>6
<1>8. Elems(given'[p]) \subseteq Handed(p)
  BY <1>1, <1>2, <1>5, <1>6, <1>7, ReturnedElements DEF Handed
<1>9. {buf'[p][i] : i \in used'[p] + 1 .. upper'[p]} \subseteq Handed(p)
  <2>1. ASSUME NEW i \in used[p] + need[p] + 1 .. upper[p]
        PROVE  buf[p][i] \in Handed(p)
    <3>1. i \in used[p] + 1 .. upper[p]
      BY <1>1
    <3>2. QED
      BY <3>1 DEF Handed
  <2>2. QED
    BY <1>2, <2>1
<1>10. Handed(p)' \subseteq Handed(p)
  BY <1>5, <1>8, <1>9 DEF Handed
<1>11. \A i \in 1 .. BaseNum : Kept(p, i)' = Kept(p, i)
  BY <1>2 DEF Kept, InSpan
<1>12. QED
  BY <1>1, <1>2, <1>3, <1>10, <1>11, SpentBetween DEF Inside

-----------------------------------------------------------------------------

\* No extension has begun.
LEMMA InitSInv == Init => SInv
<1> SUFFICES ASSUME Init PROVE SInv
  OBVIOUS
<1>1. ASSUME NEW p \in Ends
      PROVE  SpentInv(p)
  <2>1. /\ pc[p] = "idle" /\ isSetup[p] = FALSE /\ seeds[p] = <<>> /\ given[p] = <<>>
        /\ offset[p] = 0 /\ used[p] = 0 /\ upper[p] = 0
    BY DEF Init
  <2>2. Handed(p) = {}
    BY <2>1 DEF Handed, Elems
  <2>3. QED
    BY <2>1, <2>2 DEF SpentInv, SeedsBegun, SeedsOfLast, HandedUnspent, KeptBack, Inside
<1>2. QED
  BY <1>1, InitIInv DEF SInv

\* A step of one end leaves the other as it is.
LEMMA PeerFrame ==
  ASSUME IInv, NEW p \in Ends, NEW q \in Ends, q # p,
         Step(p) \/ \E n \in 1 .. MaxRequest : Call(p, n)
  PROVE  /\ pc'[q] = pc[q] /\ isSetup'[q] = isSetup[q] /\ used'[q] = used[q]
         /\ upper'[q] = upper[q] /\ offset'[q] = offset[q] /\ out'[q] = out[q]
         /\ rounds'[q] = rounds[q] /\ buf'[q] = buf[q] /\ given'[q] = given[q]
         /\ seeds'[q] = seeds[q]
<1>1. CASE BeginExtension(p)
  BY <1>1 DEF BeginExtension, IInv, TypeOK
<1>2. CASE EndSetup(p)
  BY <1>2 DEF EndSetup, IInv, TypeOK
<1>3. CASE EndInplace(p)
  BY <1>3 DEF EndInplace, IInv, TypeOK
<1>4. CASE ServeFromBuffer(p)
  BY <1>4 DEF ServeFromBuffer, CopyOut, Return, IInv, TypeOK
<1>5. CASE EndBootstrap(p)
  BY <1>5 DEF EndBootstrap, IInv, TypeOK
<1>6. CASE DrainWorstCase(p)
  BY <1>6 DEF DrainWorstCase, CopyOut, IInv, TypeOK
<1>7. CASE DrainRest(p)
  BY <1>7 DEF DrainRest, CopyOut, Return, IInv, TypeOK
<1>8. CASE \E n \in 1 .. MaxRequest : Call(p, n)
  BY <1>8 DEF Call, IInv, TypeOK
<1>9. QED
  BY <1>1, <1>2, <1>3, <1>4, <1>5, <1>6, <1>7, <1>8 DEF Step

\* A step of one end leaves the invariant of the other.
LEMMA PeerUntouched ==
  ASSUME SInv, NEW p \in Ends, NEW q \in Ends, q # p,
         Step(p) \/ \E n \in 1 .. MaxRequest : Call(p, n)
  PROVE  SpentInv(q)'
BY PeerFrame, SpentUnchanged DEF SInv

\* Every step keeps the invariant, one lemma per action.
LEMMA NextSInv ==
  ASSUME RefreshReserve, SInv, [Next]_vars
  PROVE  SInv'
<1>1. IInv'
  BY NextIInv DEF SInv
<1>2. ASSUME NEW q \in Ends
      PROVE  SpentInv(q)'
  <2>1. ASSUME NEW p \in Ends, NEW n \in 1 .. MaxRequest, Call(p, n)
        PROVE  SpentInv(q)'
    BY <2>1, CallSpent, PeerUntouched
  <2>2. ASSUME NEW p \in Ends, Step(p)
        PROVE  SpentInv(q)'
    <3>1. CASE q = p
      BY <2>2, <3>1, BeginExtensionSpent, EndSetupSpent, EndInplaceSpent,
         ServeFromBufferSpent, EndBootstrapSpent, DrainWorstCaseSpent,
         DrainRestSpent DEF Step
    <3>2. CASE q # p
      BY <2>2, <3>2, PeerUntouched
    <3>3. QED
      BY <3>1, <3>2
  <2>3. CASE UNCHANGED vars
    BY <2>3, SpentUnchanged DEF vars, SInv
  <2>4. QED
    BY <2>1, <2>2, <2>3 DEF Next, Finished
<1>3. QED
  BY <1>1, <1>2 DEF SInv

\* Where the in-place rounds leave a new reserve, as those of rsend and rrecv
\* do, no correlation seeds two extensions, and none that seeds one is handed
\* to a caller before or after, whatever sizes are asked for.
THEOREM ReserveSpentOnce == RefreshReserve => (Spec => []SeedsSpentOnce)
<1> SUFFICES ASSUME RefreshReserve
             PROVE  Spec => []SeedsSpentOnce
  OBVIOUS
<1>1. SInv /\ [Next]_vars => SInv'
  BY NextSInv
<1>2. QED
  BY <1>1, InitSInv, SpentEntailed, PTL DEF Spec

-----------------------------------------------------------------------------
\* Nothing an adapter has made is overwritten before it was used.

\* Where what has been made can be.
Accounted(p) ==
  Handed(p) \cup (UNION {Elems(seeds[p][f]) : f \in DOMAIN seeds[p]})
    \cup (IF isSetup[p] /\ pc[p] \notin Inside
            THEN {Kept(p, i) : i \in 1 .. BaseNum} ELSE {})

Size(e) == IF e = 1 THEN SetupNum ELSE VoleNum

\* Every extension that has returned is accounted for.
AllAccounted(p) ==
  \A e \in DOMAIN seeds[p] :
    (pc[p] \in Inside => e # Len(seeds[p])) =>
      \A i \in 1 .. Size(e) : <<e, i>> \in Accounted(p)

\* The first extension is the setup; before a Bootstrap overwrites the rest
\* of the buffer it has been copied out; a call returns all of its span.
RestCopied(p) ==
  /\ pc[p] = "in_setup" => Len(seeds[p]) = 1
  /\ isSetup[p] => Len(seeds[p]) >= 1 /\ (pc[p] \in Inside => Len(seeds[p]) > 1)
  /\ pc[p] \in {"boot1", "in_boot1"} => used[p] = upper[p]
  /\ pc[p] \in {"boot2", "in_boot2"} =>
       \A i \in used[p] + 1 .. upper[p] :
         \E j \in 1 .. offset[p] : buf[p][i] = out[p][j]
  /\ pc[p] = "idle" =>
       \A j \in 1 .. offset[p] : out[p][j] \in Elems(given[p])

LostInv(p) == AllAccounted(p) /\ RestCopied(p)
LInv == SInv /\ \A p \in Ends : LostInv(p)

\* Between calls what is accounted for has been handed over, has seeded an
\* extension, or lies in the buffer.
LEMMA LostEntailed == LInv => NothingLost
<1> SUFFICES ASSUME LInv, NEW p \in Ends, pc[p] = "idle",
                    NEW e \in DOMAIN seeds[p],
                    NEW x \in Elems(Block(e, Size(e)))
             PROVE  x \in Elems(given[p])
                      \cup (UNION {Elems(seeds[p][f]) : f \in DOMAIN seeds[p]})
                      \cup {buf[p][i] : i \in (1 .. BaseNum) \cup (used[p] + 1 .. upper[p])}
  BY DEF NothingLost, Size
<1>1. LostInv(p) /\ offset[p] \in Nat
  BY DEF LInv, SInv, IInv, TypeOK
<1>2. x \in Accounted(p)
  <2>1. PICK i \in 1 .. Size(e) : x = <<e, i>>
    BY DEF Elems, Block
  <2>2. QED
    BY <1>1, <2>1 DEF LostInv, AllAccounted, Inside
<1>3. CASE x \in Handed(p)
  BY <1>1, <1>3 DEF LostInv, RestCopied, Handed
<1>4. CASE x \in UNION {Elems(seeds[p][f]) : f \in DOMAIN seeds[p]}
  BY <1>4
<1>5. CASE \E i \in 1 .. BaseNum : x = Kept(p, i)
  <2>1. PICK i \in 1 .. BaseNum : x = Kept(p, i)
    BY <1>5
  <2>2. Kept(p, i) = buf[p][i]
    BY DEF Kept, InSpan
  <2>3. QED
    BY <2>1, <2>2
<1>6. QED
  BY <1>2, <1>3, <1>4, <1>5 DEF Accounted

-----------------------------------------------------------------------------
\* The ways a step can move what is accounted for.

\* An end none of whose variables changes.
LEMMA LostUnchanged ==
  ASSUME NEW p \in Ends, LostInv(p),
         pc'[p] = pc[p], isSetup'[p] = isSetup[p], used'[p] = used[p],
         upper'[p] = upper[p], offset'[p] = offset[p], out'[p] = out[p],
         rounds'[p] = rounds[p], buf'[p] = buf[p], given'[p] = given[p],
         seeds'[p] = seeds[p]
  PROVE  LostInv(p)'
<1>1. Handed(p)' = Handed(p)
  BY DEF Handed
<1>2. \A i : Kept(p, i)' = Kept(p, i)
  BY DEF Kept, InSpan
<1>3. Accounted(p)' = Accounted(p)
  BY <1>1, <1>2 DEF Accounted
<1>4. AllAccounted(p)'
  BY <1>3 DEF LostInv, AllAccounted
<1>5. RestCopied(p)'
  BY DEF LostInv, RestCopied
<1>6. QED
  BY <1>4, <1>5 DEF LostInv

\* Between extensions: what was handed over or kept still is.
LEMMA LostBetween ==
  ASSUME NEW p \in Ends, LostInv(p), isSetup[p], isSetup'[p],
         pc[p] \notin Inside, pc'[p] \notin Inside,
         seeds'[p] = seeds[p], Handed(p) \subseteq Handed(p)',
         \A i \in 1 .. BaseNum : Kept(p, i)' = Kept(p, i)
  PROVE  AllAccounted(p)'
<1>1. Accounted(p) \subseteq Accounted(p)'
  BY DEF Accounted
<1>2. QED
  BY <1>1 DEF LostInv, AllAccounted

\* After an extension: what was handed over still is, and all of the new
\* block is handed over or kept.
LEMMA LostAfter ==
  ASSUME IInv, NEW p \in Ends, LostInv(p), isSetup'[p],
         pc[p] \in Inside, pc'[p] \notin Inside,
         seeds'[p] = seeds[p], Handed(p) \subseteq Handed(p)',
         \A i \in 1 .. Size(Len(seeds[p])) :
           \/ <<Len(seeds[p]), i>> \in Handed(p)'
           \/ \E j \in 1 .. BaseNum : <<Len(seeds[p]), i>> = Kept(p, j)'
  PROVE  AllAccounted(p)'
<1>1. Accounted(p) \subseteq Accounted(p)'
  BY DEF Accounted
<1>2. ASSUME NEW e \in DOMAIN seeds[p], NEW i \in 1 .. Size(e)
      PROVE  <<e, i>> \in Accounted(p)'
  <2>1. CASE e = Len(seeds[p])
    <3>1. CASE <<e, i>> \in Handed(p)'
      BY <3>1 DEF Accounted
    <3>2. CASE \E j \in 1 .. BaseNum : <<e, i>> = Kept(p, j)'
      BY <3>2 DEF Accounted
    <3>3. QED
      BY <1>2, <2>1, <3>1, <3>2
  <2>2. CASE e # Len(seeds[p])
    BY <1>1, <1>2, <2>2 DEF LostInv, AllAccounted
  <2>3. QED
    BY <2>1, <2>2
<1>3. QED
  BY <1>2 DEF AllAccounted, Size

\* Only the setup is of its own size.
LEMMA SizeAfterSetup ==
  ASSUME NEW e \in Nat, e > 1
  PROVE  Size(e) = VoleNum
  BY DEF Size

\* A copy keeps what the span holds and adds a piece of s.
LEMMA CopyOutCovers ==
  ASSUME IInv, NEW p \in Ends, NEW s \in [1 .. VoleNum -> Corr],
         NEW from \in Nat, NEW n \in Nat, from + n <= VoleNum, n <= need[p],
         CopyOut(p, s, from, n)
  PROVE  /\ \A j \in 1 .. offset[p] :
              j \in 1 .. offset'[p] /\ out'[p][j] = out[p][j]
         /\ \A i \in from + 1 .. from + n :
              \E j \in 1 .. offset'[p] : out'[p][j] = s[i]
<1>1. /\ out[p] \in Seq(Corr) /\ offset[p] \in Nat /\ need[p] \in Nat
      /\ offset[p] + need[p] = Len(out[p])
  BY EndFacts DEF PhaseInv
<1>2. offset'[p] = offset[p] + n
  BY CopyOutFacts
<1>3. out'[p] = Overlay(out[p], offset[p], [k \in 1 .. n |-> s[from + k]])
  BY DEF CopyOut, IInv, TypeOK
<1>4. ASSUME NEW j \in 1 .. offset[p]
      PROVE  j \in 1 .. offset'[p] /\ out'[p][j] = out[p][j]
  <2>1. j \in DOMAIN out[p] /\ j \in 1 .. offset'[p] /\ j - offset[p] \notin 1 .. n
    BY <1>1, <1>2
  <2>2. QED
    BY <1>3, <2>1 DEF Overlay
<1>5. ASSUME NEW i \in from + 1 .. from + n
      PROVE  \E j \in 1 .. offset'[p] : out'[p][j] = s[i]
  <2>1. PICK j \in Int : j = offset[p] + (i - from)
    BY <1>1
  <2>2. /\ j \in DOMAIN out[p] /\ j \in 1 .. offset'[p]
        /\ j - offset[p] \in 1 .. n /\ from + (j - offset[p]) = i
    <3>1. i - from \in 1 .. n
      OBVIOUS
    <3>2. j - offset[p] = i - from /\ from + (j - offset[p]) = i
      BY <1>1, <2>1
    <3>3. 1 <= j /\ j <= offset[p] + n
      BY <1>1, <2>1, <3>1
    <3>4. QED
      BY <1>1, <1>2, <2>1, <3>1, <3>2, <3>3, SMTT(40)
  <2>3. out'[p][j] = s[from + (j - offset[p])]
    BY <1>3, <2>2 DEF Overlay
  <2>4. QED
    BY <2>2, <2>3
<1>6. QED
  BY <1>4, <1>5

\* Serving from the rest of the buffer moves it to the span.
LEMMA ServedCovers ==
  ASSUME IInv, NEW p \in Ends, NEW s \in [1 .. VoleNum -> Corr],
         NEW n \in Nat, used[p] + n <= upper[p], n <= need[p],
         isSetup[p], CopyOut(p, s, used[p], n),
         \A k \in used[p] + 1 .. upper[p] : s[k] = buf[p][k]
  PROVE  /\ \A j \in 1 .. offset[p] :
              j \in 1 .. offset'[p] /\ out'[p][j] = out[p][j]
         /\ \A i \in used[p] + 1 .. used[p] + n :
              \E j \in 1 .. offset'[p] : out'[p][j] = buf[p][i]
<1>1. /\ used[p] \in Nat /\ upper[p] \in Nat /\ upper[p] <= VoleNum
      /\ VoleNum \in Nat
  BY EndFacts, SizesAssumption DEF PhaseInv
<1>2. used[p] + n <= VoleNum
  BY <1>1
<1>3. /\ \A j \in 1 .. offset[p] :
           j \in 1 .. offset'[p] /\ out'[p][j] = out[p][j]
      /\ \A i \in used[p] + 1 .. used[p] + n :
           \E j \in 1 .. offset'[p] : out'[p][j] = s[i]
  BY <1>1, <1>2, CopyOutCovers, SMTT(40)
<1>4. \A i \in used[p] + 1 .. used[p] + n : i \in used[p] + 1 .. upper[p]
  BY <1>1
<1>5. QED
  BY <1>3, <1>4

\* A call that returns keeps what was given and gives all of its span.
LEMMA ReturnCovers ==
  ASSUME IInv, NEW p \in Ends, out' \in [Ends -> Seq(Corr)],
         offset'[p] = Len(out'[p]), Return(p)
  PROVE  /\ Elems(given[p]) \subseteq Elems(given'[p])
         /\ \A j \in 1 .. offset'[p] : out'[p][j] \in Elems(given'[p])
<1>1. given[p] \in Seq(Corr) /\ out'[p] \in Seq(Corr)
      /\ given'[p] = given[p] \o out'[p]
  BY DEF Return, IInv, TypeOK
<1>2. ASSUME NEW k \in DOMAIN given[p]
      PROVE  given[p][k] \in Elems(given'[p])
  <2>1. k \in DOMAIN given'[p] /\ given'[p][k] = given[p][k]
    BY <1>1
  <2>2. QED
    BY <2>1 DEF Elems
<1>3. ASSUME NEW j \in 1 .. Len(out'[p])
      PROVE  out'[p][j] \in Elems(given'[p])
  <2>1. /\ Len(given[p]) + j \in DOMAIN given'[p]
        /\ given'[p][Len(given[p]) + j] = out'[p][j]
    BY <1>1
  <2>2. QED
    BY <2>1 DEF Elems
<1>4. QED
  BY <1>2, <1>3 DEF Elems

-----------------------------------------------------------------------------
\* Each action preserves LostInv at the end that takes it.

\* A call hands over nothing yet and leaves the buffer alone.
LEMMA CallLost ==
  ASSUME LInv, NEW p \in Ends, NEW n \in 1 .. MaxRequest, Call(p, n)
  PROVE  LostInv(p)'
<1>1. /\ pc[p] = "idle" /\ offset'[p] = 0 /\ rounds'[p] = 0
      /\ pc'[p] = IF isSetup[p] THEN "loop" ELSE "setup"
      /\ UNCHANGED <<isSetup, buf, used, upper, seeds, given>>
  BY DEF Call, LInv, SInv, IInv, TypeOK
<1>2. LostInv(p) /\ SpentInv(p) /\ offset[p] \in Nat
  BY DEF LInv, SInv, IInv, TypeOK
<1>3. RestCopied(p)'
  BY <1>1, <1>2 DEF LostInv, RestCopied, Inside
<1>4. CASE isSetup[p]
  <2>1. Handed(p) \subseteq Handed(p)'
    BY <1>1, <1>2 DEF LostInv, RestCopied, Handed
  <2>2. \A i \in 1 .. BaseNum : Kept(p, i)' = Kept(p, i)
    BY <1>1 DEF Kept, InSpan
  <2>3. AllAccounted(p)'
    BY <1>1, <1>2, <1>4, <2>1, <2>2, LostBetween DEF Inside
  <2>4. QED
    BY <1>3, <2>3 DEF LostInv
<1>5. CASE ~isSetup[p]
  <2>1. Len(seeds'[p]) = 0 /\ seeds'[p] \in Seq(Seq(Corr))
    BY <1>1, <1>2, <1>5 DEF SpentInv, SeedsBegun, LInv, SInv, IInv, TypeOK
  <2>2. AllAccounted(p)'
    BY <2>1 DEF AllAccounted
  <2>3. QED
    BY <1>3, <2>2 DEF LostInv
<1>6. QED
  BY <1>4, <1>5

\* What is kept becomes the seed of the extension.
LEMMA KeptSeeds ==
  ASSUME IInv, NEW p \in Ends, pc[p] \in DOMAIN Extending, isSetup[p],
         NEW i \in 1 .. BaseNum
  PROVE  Kept(p, i) \in Elems(NextSeed(p))
<1>1. PhaseInv(p) /\ out[p] \in Seq(Corr) /\ offset[p] \in Nat /\ need[p] \in Nat
      /\ buf[p] \in [1 .. VoleNum -> Corr] /\ BaseNum \in Nat /\ VoleNum \in Nat
      /\ BaseNum <= VoleNum
  BY EndFacts, SizesAssumption
<1>2. pc[p] # "setup"
  BY <1>1 DEF PhaseInv
<1>3. CASE InSpan(p)
  <2>1. NextSeed(p) = SubSeq(out[p], offset[p] + 1, offset[p] + BaseNum)
    BY <1>2, <1>3 DEF NextSeed, InSpan
  <2>2. /\ NextSeed(p) \in Seq(Corr) /\ Len(NextSeed(p)) = BaseNum
        /\ \A k \in 1 .. BaseNum : NextSeed(p)[k] = out[p][offset[p] + k]
    BY <1>3, <2>1, SpanElements
  <2>3. i \in DOMAIN NextSeed(p) /\ NextSeed(p)[i] = Kept(p, i)
    BY <1>3, <2>2 DEF Kept
  <2>4. QED
    BY <2>3 DEF Elems
<1>4. CASE ~InSpan(p)
  <2>1. NextSeed(p) = SubSeq(buf[p], 1, BaseNum)
    BY <1>2, <1>4 DEF NextSeed, InSpan
  <2>2. buf[p] \in Seq(Corr) /\ Len(buf[p]) = VoleNum
    BY <1>1
  <2>3. i \in DOMAIN NextSeed(p) /\ NextSeed(p)[i] = Kept(p, i)
    BY <1>1, <1>4, <2>1, <2>2 DEF Kept
  <2>4. QED
    BY <2>3 DEF Elems
<1>5. QED
  BY <1>3, <1>4

\* An extension starts: what it is seeded with counts as spent from now on.
LEMMA BeginExtensionLost ==
  ASSUME LInv, NEW p \in Ends, BeginExtension(p)
  PROVE  LostInv(p)'
<1> DEFINE S == Len(seeds[p])
<1>1. /\ IInv /\ SpentInv(p) /\ LostInv(p) /\ PhaseInv(p)
      /\ seeds[p] \in Seq(Seq(Corr)) /\ S \in Nat /\ NextSeed(p) \in Seq(Corr)
  <2>1. IInv /\ SpentInv(p) /\ LostInv(p)
    BY DEF LInv, SInv
  <2>2. PhaseInv(p) /\ seeds[p] \in Seq(Seq(Corr)) /\ S \in Nat
    BY <2>1 DEF IInv, TypeOK
  <2>3. QED
    BY <2>1, <2>2, NextSeedType
<1>2. /\ pc[p] \in DOMAIN Extending /\ pc[p] \in {"setup", "loop", "boot1", "boot2"}
      /\ pc'[p] = Extending[pc[p]] /\ pc'[p] \in Inside
      /\ seeds'[p] = Append(seeds[p], NextSeed(p))
      /\ UNCHANGED <<isSetup, buf, used, upper, out, offset, rounds, given>>
  BY DEF BeginExtension, Extending, Inside, LInv, SInv, IInv, TypeOK
<1>3. /\ Len(seeds'[p]) = S + 1 /\ DOMAIN seeds'[p] = 1 .. S + 1
      /\ seeds'[p][S + 1] = NextSeed(p)
      /\ \A e \in 1 .. S : seeds'[p][e] = seeds[p][e]
      /\ DOMAIN seeds[p] = 1 .. S
  BY <1>1, <1>2
<1>4. Handed(p)' = Handed(p)
  BY <1>2 DEF Handed
<1>5. Accounted(p) \subseteq Accounted(p)'
  <2>1. ASSUME NEW f \in DOMAIN seeds[p]
        PROVE  Elems(seeds[p][f]) \subseteq UNION {Elems(seeds'[p][g]) : g \in DOMAIN seeds'[p]}
    <3>1. f \in DOMAIN seeds'[p] /\ seeds'[p][f] = seeds[p][f]
      BY <1>1, <1>3
    <3>2. QED
      BY <3>1
  <2>2. ASSUME isSetup[p], NEW i \in 1 .. BaseNum
        PROVE  Kept(p, i) \in UNION {Elems(seeds'[p][g]) : g \in DOMAIN seeds'[p]}
    <3>1. Kept(p, i) \in Elems(seeds'[p][S + 1]) /\ S + 1 \in DOMAIN seeds'[p]
      BY <1>1, <1>2, <1>3, <2>2, KeptSeeds
    <3>2. QED
      BY <3>1
  <2>3. QED
    BY <1>4, <2>1, <2>2 DEF Accounted, Elems
<1>6. AllAccounted(p)'
  <2>1. ASSUME NEW e \in DOMAIN seeds'[p], e # S + 1, NEW i \in 1 .. Size(e)
        PROVE  <<e, i>> \in Accounted(p)'
    <3>1. e \in DOMAIN seeds[p]
      BY <1>1, <1>3, <2>1
    <3>2. pc[p] \notin Inside
      BY <1>2 DEF Inside
    <3>3. QED
      BY <1>1, <1>5, <3>1, <3>2 DEF LostInv, AllAccounted
  <2>2. QED
    BY <1>2, <1>3, <2>1 DEF AllAccounted, Size
<1>7. RestCopied(p)'
  <2>1. pc[p] = "setup" => S = 0 /\ ~isSetup[p]
    BY <1>1 DEF SpentInv, SeedsBegun, PhaseInv
  <2>2. isSetup[p] => S >= 1
    BY <1>1 DEF LostInv, RestCopied
  <2>3. QED
    BY <1>1, <1>2, <1>3, <2>1, <2>2 DEF LostInv, RestCopied, Extending, Inside
<1>8. QED
  BY <1>6, <1>7 DEF LostInv

\* Both ends of a Bootstrap, and the setup: the rest of the buffer has been
\* copied out, and the new block is its front and its new rest.
LEMMA RefillLost ==
  ASSUME LInv, NEW p \in Ends, NEW n \in BaseNum .. VoleNum,
         n = Size(Len(seeds[p])), isSetup'[p],
         pc[p] \in Inside, pc'[p] \notin Inside,
         pc'[p] # "loop" \/ rounds'[p] = 0,
         \A i \in used[p] + 1 .. upper[p] :
           \E j \in 1 .. offset[p] : buf[p][i] = out[p][j],
         buf'[p] = Overlay(buf[p], 0, Made(p, n)),
         used'[p] = BaseNum, upper'[p] = n,
         out'[p] = out[p], offset'[p] = offset[p], given'[p] = given[p],
         seeds'[p] = seeds[p]
  PROVE  AllAccounted(p)'
<1> DEFINE S == Len(seeds[p])
<1>1. /\ LostInv(p) /\ IInv /\ buf[p] \in [1 .. VoleNum -> Corr]
      /\ BaseNum \in Nat /\ BaseNum > 0 /\ VoleNum \in Nat /\ n \in Nat /\ n <= VoleNum
      /\ BaseNum <= n
  <2>1. LostInv(p) /\ IInv
    BY DEF LInv, SInv
  <2>2. buf[p] \in [1 .. VoleNum -> Corr]
    BY <2>1 DEF IInv, TypeOK
  <2>3. BaseNum \in Nat /\ BaseNum > 0 /\ VoleNum \in Nat
    BY SizesAssumption
  <2>4. n \in Nat /\ n <= VoleNum /\ BaseNum <= n
    BY <2>3
  <2>5. QED
    BY <2>1, <2>2, <2>3, <2>4
<1>2. ASSUME NEW i \in 1 .. n
      PROVE  buf'[p][i] = <<S, i>>
  <2>1. i - 0 = i /\ i \in 1 .. VoleNum
    BY <1>1
  <2>2. DOMAIN buf[p] = 1 .. VoleNum /\ DOMAIN Made(p, n) = 1 .. n
        /\ Made(p, n)[i] = <<S, i>>
    BY <1>1 DEF Made, Block
  <2>3. QED
    BY <1>2, <2>1, <2>2 DEF Overlay
<1>3. Handed(p) \subseteq Handed(p)'
  BY DEF Handed
<1>4. ASSUME NEW i \in 1 .. n
      PROVE  \/ <<S, i>> \in Handed(p)'
             \/ \E j \in 1 .. BaseNum : <<S, i>> = Kept(p, j)'
  <2>1. CASE i <= BaseNum
    <3>1. Kept(p, i)' = buf'[p][i]
      BY <1>1 DEF Kept, InSpan
    <3>2. i \in 1 .. BaseNum
      BY <1>1, <2>1
    <3>3. QED
      BY <1>2, <3>1, <3>2
  <2>2. CASE ~(i <= BaseNum)
    <3>1. i \in used'[p] + 1 .. upper'[p]
      BY <1>1, <2>2
    <3>2. QED
      BY <1>2, <3>1 DEF Handed
  <2>3. QED
    BY <2>1, <2>2
<1>5. \A i \in 1 .. Size(Len(seeds[p])) :
        \/ <<Len(seeds[p]), i>> \in Handed(p)'
        \/ \E j \in 1 .. BaseNum : <<Len(seeds[p]), i>> = Kept(p, j)'
  BY <1>4
<1>6. QED
  BY <1>1, <1>3, <1>5, LostAfter

\* The setup fills an empty buffer: its first block is the rest and the reserve.
LEMMA EndSetupLost ==
  ASSUME LInv, NEW p \in Ends, EndSetup(p)
  PROVE  LostInv(p)'
<1>1. /\ pc[p] = "in_setup" /\ pc'[p] = "loop" /\ isSetup'[p] = TRUE
      /\ buf'[p] = Overlay(buf[p], 0, Made(p, SetupNum))
      /\ used'[p] = BaseNum /\ upper'[p] = SetupNum
      /\ UNCHANGED <<out, offset, rounds, seeds, given>>
  BY DEF EndSetup, LInv, SInv, IInv, TypeOK
<1>2. LostInv(p) /\ PhaseInv(p)
  BY DEF LInv, SInv, IInv
<1>3. rounds[p] = 0 /\ used[p] = 0 /\ upper[p] = 0 /\ Len(seeds[p]) = 1
  <2>1. ~isSetup[p]
    BY <1>1, <1>2 DEF PhaseInv
  <2>2. QED
    BY <1>1, <1>2, <2>1 DEF PhaseInv, LostInv, RestCopied
<1>4. SetupNum \in BaseNum .. VoleNum /\ SetupNum = Size(Len(seeds[p]))
  BY <1>3, SizesAssumption DEF Size
<1>5. \A i \in used[p] + 1 .. upper[p] :
        \E j \in 1 .. offset[p] : buf[p][i] = out[p][j]
  BY <1>3
<1>6. AllAccounted(p)'
  BY <1>1, <1>3, <1>4, <1>5, RefillLost DEF Inside
<1>7. RestCopied(p)'
  BY <1>1, <1>3 DEF RestCopied, Inside
<1>8. QED
  BY <1>6, <1>7 DEF LostInv

\* A Bootstrap replaces a buffer whose rest has been copied out.
LEMMA EndBootstrapLost ==
  ASSUME LInv, NEW p \in Ends, EndBootstrap(p)
  PROVE  LostInv(p)'
<1>1. /\ pc[p] \in {"in_boot1", "in_boot2"} /\ pc'[p] \in {"drain1", "drain2"}
      /\ isSetup'[p] = isSetup[p]
      /\ buf'[p] = Overlay(buf[p], 0, Made(p, VoleNum))
      /\ used'[p] = BaseNum /\ upper'[p] = VoleNum
      /\ UNCHANGED <<out, offset, rounds, seeds, given>>
  BY DEF EndBootstrap, LInv, SInv, IInv, TypeOK
<1>2. /\ LostInv(p) /\ PhaseInv(p) /\ isSetup[p] \in BOOLEAN
      /\ used[p] \in Nat /\ upper[p] \in Nat
  BY DEF LInv, SInv, IInv, TypeOK
<1>3. isSetup[p]
  BY <1>1, <1>2 DEF PhaseInv
<1>4. Len(seeds[p]) > 1 /\ Len(seeds[p]) \in Nat
  BY <1>1, <1>2, <1>3 DEF LostInv, RestCopied, Inside, LInv, SInv, IInv, TypeOK
<1>5. VoleNum \in BaseNum .. VoleNum /\ VoleNum = Size(Len(seeds[p]))
  BY <1>4, SizesAssumption, SizeAfterSetup
<1>6. \A i \in used[p] + 1 .. upper[p] :
        \E j \in 1 .. offset[p] : buf[p][i] = out[p][j]
  BY <1>1, <1>2 DEF LostInv, RestCopied
<1>7. AllAccounted(p)'
  BY <1>1, <1>3, <1>5, <1>6, RefillLost DEF Inside
<1>8. RestCopied(p)'
  BY <1>1, <1>4 DEF RestCopied, Inside
<1>9. QED
  BY <1>7, <1>8 DEF LostInv

\* An in-place round: the new block is what the span gets and its end.
LEMMA EndInplaceLost ==
  ASSUME LInv, NEW p \in Ends, EndInplace(p)
  PROVE  LostInv(p)'
<1> DEFINE S == Len(seeds[p])
           kept == VoleNum - BaseNum
<1>1. /\ IInv /\ LostInv(p) /\ PhaseInv(p) /\ out[p] \in Seq(Corr)
      /\ offset[p] \in Nat /\ need[p] \in Nat /\ rounds[p] \in Nat /\ S \in Nat
      /\ BaseNum \in Nat /\ VoleNum \in Nat /\ kept \in Nat
      /\ kept + BaseNum = VoleNum
  BY EndFacts, SizesAssumption, SMTT(40) DEF LInv, SInv, IInv, TypeOK
<1>2. /\ pc[p] = "in_loop" /\ pc'[p] = "loop"
      /\ out'[p] = Overlay(out[p], offset[p], Made(p, VoleNum))
      /\ offset'[p] = offset[p] + kept /\ rounds'[p] = rounds[p] + 1
      /\ UNCHANGED <<isSetup, buf, used, upper, seeds, given>>
  BY DEF EndInplace, LInv, SInv, IInv, TypeOK
<1>3. isSetup[p] /\ offset[p] + VoleNum <= Len(out[p]) /\ S > 1
  BY <1>1, <1>2, SizesAssumption DEF PhaseInv, LostInv, RestCopied, Inside
<1> HIDE DEF kept
<1>4. ASSUME NEW j \in 1 .. offset[p]
      PROVE  j \in 1 .. offset'[p] /\ out'[p][j] = out[p][j]
  <2>1. j \in DOMAIN out[p] /\ j \in 1 .. offset'[p] /\ j - offset[p] \notin 1 .. VoleNum
    BY <1>1, <1>2, <1>3
  <2>2. DOMAIN Made(p, VoleNum) = 1 .. VoleNum
    BY DEF Made, Block
  <2>3. QED
    BY <1>2, <2>1, <2>2 DEF Overlay
<1>5. ASSUME NEW i \in 1 .. VoleNum
      PROVE  out'[p][offset[p] + i] = <<S, i>>
  <2>1. offset[p] + i \in DOMAIN out[p]
    BY <1>1, <1>3
  <2>2. DOMAIN Made(p, VoleNum) = 1 .. VoleNum /\ Made(p, VoleNum)[i] = <<S, i>>
    BY DEF Made, Block
  <2>3. offset[p] \in Nat /\ i \in Nat /\ i \in DOMAIN Made(p, VoleNum)
    BY <1>1, <2>2
  <2>4. Overlay(out[p], offset[p], Made(p, VoleNum))[offset[p] + i]
          = Made(p, VoleNum)[i]
    <3>1. (offset[p] + i) - offset[p] = i
      BY <2>3
    <3>2. QED
      BY <2>1, <2>3, <3>1, Zenon DEF Overlay
  <2>5. out'[p][offset[p] + i] = Made(p, VoleNum)[i]
    BY <1>2, <2>4, Zenon
  <2>6. QED
    BY <2>2, <2>5, Zenon
<1>6. Handed(p) \subseteq Handed(p)'
  BY <1>2, <1>4 DEF Handed
<1>7. ASSUME NEW i \in 1 .. VoleNum
      PROVE  \/ <<S, i>> \in Handed(p)'
             \/ \E j \in 1 .. BaseNum : <<S, i>> = Kept(p, j)'
  <2>1. CASE i <= kept
    <3>1. offset[p] + i \in 1 .. offset'[p]
      BY <1>1, <1>2, <2>1
    <3>2. QED
      BY <1>5, <3>1 DEF Handed
  <2>2. CASE ~(i <= kept)
    <3>1. PICK j \in 1 .. BaseNum : i = kept + j
      <4>1. i - kept \in 1 .. BaseNum /\ i = kept + (i - kept)
        BY <1>1, <2>2
      <4>2. QED
        BY <4>1
    <3>2. Kept(p, j)' = out'[p][offset'[p] + j]
      BY <1>1, <1>2 DEF Kept, InSpan
    <3>3. offset'[p] + j = offset[p] + i
      BY <1>1, <1>2, <3>1
    <3>4. QED
      BY <1>5, <3>2, <3>3
  <2>3. QED
    BY <2>1, <2>2
<1>8. Size(S) = VoleNum
  BY <1>1, <1>3, SizeAfterSetup
<1>9. AllAccounted(p)'
  BY <1>1, <1>2, <1>3, <1>6, <1>7, <1>8, LostAfter DEF Inside
<1>10. RestCopied(p)'
  BY <1>1, <1>2, <1>3 DEF RestCopied, Inside
<1>11. QED
  BY <1>9, <1>10 DEF LostInv

\* A request is served from the buffer; the first Bootstrap follows only once its
\* rest has been copied out.
LEMMA ServeFromBufferLost ==
  ASSUME LInv, RefreshReserve, NEW p \in Ends, ServeFromBuffer(p)
  PROVE  LostInv(p)'
<1> DEFINE n == Min2(upper[p] - used[p], need[p])
<1>1. /\ IInv /\ LostInv(p) /\ PhaseInv(p)
      /\ offset[p] \in Nat /\ need[p] \in Nat
      /\ used[p] \in Nat /\ upper[p] \in Nat
      /\ buf[p] \in [1 .. VoleNum -> Corr]
      /\ BaseNum \in Nat /\ VoleNum \in Nat
  BY EndFacts, SizesAssumption DEF LInv, SInv
<1>2. /\ pc[p] = "loop" /\ pc'[p] \in {"boot1", "idle"}
      /\ pc'[p] = "idle" => ~(n < need[p]) /\ Return(p)
      /\ pc'[p] # "idle" => given'[p] = given[p] /\ n < need[p]
      /\ buf'[p] = Refreshed(p) /\ used'[p] = used[p] + n
      /\ CopyOut(p, Refreshed(p), used[p], n)
      /\ UNCHANGED <<isSetup, upper, rounds, seeds>>
  BY DEF ServeFromBuffer, LInv, SInv, IInv, TypeOK
<1>3. isSetup[p] /\ used[p] <= upper[p] /\ upper[p] <= VoleNum
  BY <1>1, <1>2 DEF PhaseInv
<1>4. n \in Nat /\ n <= need[p] /\ used[p] + n <= upper[p]
      /\ (n < need[p] => used[p] + n = upper[p])
  BY <1>1, <1>3 DEF Min2
<1>5. Refreshed(p) \in [1 .. VoleNum -> Corr]
  BY <1>1, <1>2, RefreshedType
<1>6. /\ \A i \in 1 .. BaseNum : Refreshed(p)[i] = Kept(p, i)
      /\ \A i \in used[p] + 1 .. upper[p] : Refreshed(p)[i] = buf[p][i]
  BY <1>1, <1>2, RefreshedElements
<1> HIDE DEF n
<1>7. /\ \A j \in 1 .. offset[p] : j \in 1 .. offset'[p] /\ out'[p][j] = out[p][j]
      /\ \A i \in used[p] + 1 .. used[p] + n :
           \E j \in 1 .. offset'[p] : out'[p][j] = buf[p][i]
  BY <1>1, <1>2, <1>3, <1>4, <1>5, <1>6, ServedCovers
<1>8. /\ out' \in [Ends -> Seq(Corr)] /\ offset' \in [Ends -> Nat]
      /\ offset'[p] + need'[p] = Len(out'[p]) /\ need'[p] = need[p] - n
  <2>1. used[p] + n <= VoleNum
    BY <1>1, <1>3, <1>4
  <2>2. QED
    BY <1>1, <1>2, <1>4, <1>5, <2>1, CopyOutFacts
<1>9. /\ Elems(given[p]) \subseteq Elems(given'[p])
      /\ pc'[p] = "idle" => \A j \in 1 .. offset'[p] : out'[p][j] \in Elems(given'[p])
  <2>1. CASE pc'[p] # "idle"
    BY <1>2, <2>1
  <2>2. CASE pc'[p] = "idle"
    <3>1. need'[p] = 0
      BY <1>1, <1>2, <1>4, <1>8, <2>2
    <3>2. offset'[p] = Len(out'[p])
      BY <1>8, <3>1
    <3>3. QED
      BY <1>1, <1>2, <1>8, <2>2, <3>2, ReturnCovers
  <2>3. QED
    BY <2>1, <2>2
<1>10. Handed(p) \subseteq Handed(p)'
  <2>1. ASSUME NEW i \in used[p] + 1 .. upper[p]
        PROVE  buf[p][i] \in Handed(p)'
    <3>1. CASE i <= used[p] + n
      <4>1. i \in used[p] + 1 .. used[p] + n
        BY <1>1, <1>4, <3>1
      <4>2. QED
        BY <1>7, <4>1 DEF Handed
    <3>2. CASE ~(i <= used[p] + n)
      <4>1. i \in used'[p] + 1 .. upper'[p] /\ buf'[p][i] = buf[p][i]
        BY <1>1, <1>2, <1>4, <1>6, <3>2
      <4>2. QED
        BY <4>1 DEF Handed
    <3>3. QED
      BY <3>1, <3>2
  <2>2. ASSUME NEW j \in 1 .. offset[p]
        PROVE  out[p][j] \in Handed(p)'
    BY <1>7 DEF Handed
  <2>3. Elems(given[p]) \subseteq Handed(p)'
    BY <1>9 DEF Handed
  <2>4. QED
    BY <2>1, <2>2, <2>3 DEF Handed
<1>11. \A i \in 1 .. BaseNum : Kept(p, i)' = Kept(p, i)
  <2>1. ASSUME NEW i \in 1 .. BaseNum
        PROVE  Kept(p, i)' = buf'[p][i]
    BY <1>2 DEF Kept, InSpan
  <2>2. QED
    BY <1>2, <1>6, <2>1
<1>12. AllAccounted(p)'
  BY <1>1, <1>2, <1>3, <1>10, <1>11, LostBetween DEF Inside
<1>13. RestCopied(p)'
  BY <1>1, <1>2, <1>3, <1>4, <1>9 DEF LostInv, RestCopied, Inside
<1>14. QED
  BY <1>12, <1>13 DEF LostInv

\* The rest of the buffer is copied out before the second Bootstrap.
LEMMA DrainWorstCaseLost ==
  ASSUME LInv, NEW p \in Ends, DrainWorstCase(p)
  PROVE  LostInv(p)'
<1> DEFINE n == upper[p] - BaseNum
<1>1. /\ IInv /\ LostInv(p) /\ PhaseInv(p)
      /\ buf[p] \in [1 .. VoleNum -> Corr]
      /\ upper[p] \in Nat /\ need[p] \in Nat
      /\ BaseNum \in Nat /\ VoleNum \in Nat /\ BaseNum <= VoleNum
  BY EndFacts, SizesAssumption DEF LInv, SInv
<1>2. /\ pc[p] = "drain1" /\ pc'[p] = "boot2" /\ need[p] > n
      /\ CopyOut(p, buf[p], used[p], n)
      /\ UNCHANGED <<isSetup, buf, used, upper, rounds, seeds, given>>
  BY DEF DrainWorstCase, LInv, SInv, IInv, TypeOK
<1>3. isSetup[p] /\ used[p] = BaseNum /\ upper[p] = VoleNum
  BY <1>1, <1>2 DEF PhaseInv
<1>4. n \in Nat /\ n <= need[p] /\ used[p] + n <= upper[p] /\ used[p] + n = upper[p]
  BY <1>1, <1>2, <1>3
<1> HIDE DEF n
<1>5. /\ \A j \in 1 .. offset[p] : j \in 1 .. offset'[p] /\ out'[p][j] = out[p][j]
      /\ \A i \in used[p] + 1 .. used[p] + n :
           \E j \in 1 .. offset'[p] : out'[p][j] = buf[p][i]
  BY <1>1, <1>2, <1>3, <1>4, ServedCovers
<1>6. Handed(p) \subseteq Handed(p)'
  BY <1>2, <1>5 DEF Handed
<1>7. \A i \in 1 .. BaseNum : Kept(p, i)' = Kept(p, i)
  BY <1>2 DEF Kept, InSpan
<1>8. AllAccounted(p)'
  BY <1>1, <1>2, <1>3, <1>6, <1>7, LostBetween DEF Inside
<1>9. RestCopied(p)'
  <2>1. \A i \in used[p] + 1 .. upper[p] :
          \E j \in 1 .. offset'[p] : buf[p][i] = out'[p][j]
    BY <1>4, <1>5
  <2>2. QED
    BY <1>1, <1>2, <1>3, <2>1 DEF LostInv, RestCopied, Inside
<1>10. QED
  BY <1>8, <1>9 DEF LostInv

\* The last copy of a call: what is left of the buffer stays in it.
LEMMA DrainRestLost ==
  ASSUME LInv, NEW p \in Ends, DrainRest(p)
  PROVE  LostInv(p)'
<1>1. /\ IInv /\ LostInv(p) /\ PhaseInv(p)
      /\ buf[p] \in [1 .. VoleNum -> Corr]
      /\ used[p] \in Nat /\ upper[p] \in Nat /\ need[p] \in Nat /\ offset[p] \in Nat
      /\ BaseNum \in Nat /\ VoleNum \in Nat /\ BaseNum <= VoleNum
  BY EndFacts, SizesAssumption DEF LInv, SInv
<1>2. /\ pc[p] \in {"drain1", "drain2"} /\ pc'[p] = "idle"
      /\ pc[p] = "drain1" => need[p] <= upper[p] - BaseNum
      /\ CopyOut(p, buf[p], used[p], need[p]) /\ Return(p)
      /\ used'[p] = used[p] + need[p]
      /\ UNCHANGED <<isSetup, buf, upper, rounds, seeds>>
  BY DEF DrainRest, LInv, SInv, IInv, TypeOK
<1>3. isSetup[p] /\ used[p] = BaseNum /\ upper[p] = VoleNum
  BY <1>1, <1>2 DEF PhaseInv
<1>4. need[p] <= need[p] /\ used[p] + need[p] <= upper[p]
  BY <1>1, <1>2, <1>3 DEF PhaseInv
<1>5. /\ \A j \in 1 .. offset[p] : j \in 1 .. offset'[p] /\ out'[p][j] = out[p][j]
      /\ \A i \in used[p] + 1 .. used[p] + need[p] :
           \E j \in 1 .. offset'[p] : out'[p][j] = buf[p][i]
  BY <1>1, <1>2, <1>3, <1>4, ServedCovers
<1>6. /\ out' \in [Ends -> Seq(Corr)] /\ offset' \in [Ends -> Nat]
      /\ offset'[p] + need'[p] = Len(out'[p]) /\ need'[p] = need[p] - need[p]
  <2>1. used[p] + need[p] <= VoleNum
    BY <1>3, <1>4
  <2>2. QED
    BY <1>1, <1>2, <1>4, <2>1, CopyOutFacts
<1>7. offset'[p] = Len(out'[p])
  BY <1>1, <1>6
<1>8. /\ Elems(given[p]) \subseteq Elems(given'[p])
      /\ \A j \in 1 .. offset'[p] : out'[p][j] \in Elems(given'[p])
  BY <1>1, <1>2, <1>6, <1>7, ReturnCovers
<1>9. Handed(p) \subseteq Handed(p)'
  <2>1. ASSUME NEW i \in used[p] + 1 .. upper[p]
        PROVE  buf[p][i] \in Handed(p)'
    <3>1. CASE i <= used[p] + need[p]
      <4>1. i \in used[p] + 1 .. used[p] + need[p]
        BY <1>1, <3>1
      <4>2. QED
        BY <1>5, <4>1 DEF Handed
    <3>2. CASE ~(i <= used[p] + need[p])
      <4>1. i \in used'[p] + 1 .. upper'[p] /\ buf'[p][i] = buf[p][i]
        BY <1>1, <1>2, <3>2
      <4>2. QED
        BY <4>1 DEF Handed
    <3>3. QED
      BY <3>1, <3>2
  <2>2. ASSUME NEW j \in 1 .. offset[p]
        PROVE  out[p][j] \in Handed(p)'
    BY <1>5 DEF Handed
  <2>3. Elems(given[p]) \subseteq Handed(p)'
    BY <1>8 DEF Handed
  <2>4. QED
    BY <2>1, <2>2, <2>3 DEF Handed
<1>10. \A i \in 1 .. BaseNum : Kept(p, i)' = Kept(p, i)
  BY <1>2 DEF Kept, InSpan
<1>11. AllAccounted(p)'
  BY <1>1, <1>2, <1>3, <1>9, <1>10, LostBetween DEF Inside
<1>12. RestCopied(p)'
  BY <1>1, <1>2, <1>3, <1>8 DEF LostInv, RestCopied, Inside
<1>13. QED
  BY <1>11, <1>12 DEF LostInv

-----------------------------------------------------------------------------

\* Nothing has been made yet.
LEMMA InitLInv == Init => LInv
<1> SUFFICES ASSUME Init PROVE LInv
  OBVIOUS
<1>1. ASSUME NEW p \in Ends
      PROVE  LostInv(p)
  <2>1. /\ pc[p] = "idle" /\ isSetup[p] = FALSE /\ seeds[p] = <<>> /\ offset[p] = 0
    BY DEF Init
  <2>2. QED
    BY <2>1 DEF LostInv, AllAccounted, RestCopied
<1>2. QED
  BY <1>1, InitSInv DEF LInv

\* A step of one end leaves the other as it is.
LEMMA PeerNotLost ==
  ASSUME LInv, NEW p \in Ends, NEW q \in Ends, q # p,
         Step(p) \/ \E n \in 1 .. MaxRequest : Call(p, n)
  PROVE  LostInv(q)'
BY PeerFrame, LostUnchanged DEF LInv, SInv

\* Every step keeps the account, one lemma per action.
LEMMA NextLInv ==
  ASSUME RefreshReserve, LInv, [Next]_vars
  PROVE  LInv'
<1>1. SInv'
  BY NextSInv DEF LInv
<1>2. ASSUME NEW q \in Ends
      PROVE  LostInv(q)'
  <2>1. ASSUME NEW p \in Ends, NEW n \in 1 .. MaxRequest, Call(p, n)
        PROVE  LostInv(q)'
    BY <2>1, CallLost, PeerNotLost
  <2>2. ASSUME NEW p \in Ends, Step(p)
        PROVE  LostInv(q)'
    <3>1. CASE q = p
      BY <2>2, <3>1, BeginExtensionLost, EndSetupLost, EndInplaceLost,
         ServeFromBufferLost, EndBootstrapLost, DrainWorstCaseLost,
         DrainRestLost DEF Step
    <3>2. CASE q # p
      BY <2>2, <3>2, PeerNotLost
    <3>3. QED
      BY <3>1, <3>2
  <2>3. CASE UNCHANGED vars
    BY <2>3, LostUnchanged DEF vars, LInv
  <2>4. QED
    BY <2>1, <2>2, <2>3 DEF Next, Finished
<1>3. QED
  BY <1>1, <1>2 DEF LInv

\* Where the in-place rounds leave a new reserve, nothing that was made is
\* overwritten before it was handed out or used as a seed: between calls all
\* of it is with the callers, spent, or still in the buffer.
THEOREM NothingIsLost == RefreshReserve => (Spec => []NothingLost)
<1> SUFFICES ASSUME RefreshReserve
             PROVE  Spec => []NothingLost
  OBVIOUS
<1>1. LInv /\ [Next]_vars => LInv'
  BY NextLInv
<1>2. QED
  BY <1>1, InitLInv, LostEntailed, PTL DEF Spec

-----------------------------------------------------------------------------
\* The two ends hand out one stream of correlations and run every extension
\* from the same seed, for all sizes, for all requests and whether or not
\* in-place rounds refresh the reserve.

-----------------------------------------------------------------------------
\* No correlation is handed out twice.  At every moment what an end has made
\* and not lost lies in three pieces: what finished requests were given, what
\* the request in hand has got so far, and what the buffer can still serve.

Span(p) ==
  IF pc[p] = "idle" THEN <<>> ELSE [i \in 1 .. offset[p] |-> out[p][i]]

\* After a worst-case drain the buffer has nothing until the next Bootstrap.
Rest(p) ==
  IF pc[p] \in {"boot2", "in_boot2"} THEN <<>>
  ELSE [i \in 1 .. upper[p] - used[p] |-> buf[p][used[p] + i]]

Distinct(g, s, r) ==
  /\ IsInjective(g) /\ IsInjective(s) /\ IsInjective(r)
  /\ Range(g) \cap Range(s) = {}
  /\ Range(g) \cap Range(r) = {}
  /\ Range(s) \cap Range(r) = {}

\* The correlations of the extensions an end has finished.
Finishing(p) == IF pc[p] \in Inside THEN Len(seeds[p]) - 1 ELSE Len(seeds[p])
UpTo(e) == {x \in Corr : 0 < x[1] /\ x[1] <= e}

OnceInv(p) ==
  /\ Distinct(given[p], Span(p), Rest(p))
  /\ Range(given[p]) \cup Range(Span(p)) \cup Range(Rest(p)) \subseteq UpTo(Finishing(p))
  /\ pc[p] \in Inside => seeds[p] # <<>>

-----------------------------------------------------------------------------
\* What can be done with the pieces.

\* What the buffer can still serve is overwritten or given up.
LEMMA DistinctWithout ==
  ASSUME NEW g, NEW s, NEW r, Distinct(g, s, r)
  PROVE  Distinct(g, s, <<>>)
<1>1. IsInjective(<<>>) /\ Range(<<>>) = {}
  BY DEF IsInjective, Range
<1>2. QED
  BY <1>1 DEF Distinct

\* The first k correlations of the buffer go to the request.
LEMMA DistinctMoved ==
  ASSUME NEW S, NEW g \in Seq(S), NEW s \in Seq(S), NEW r \in Seq(S),
         Distinct(g, s, r), NEW k \in Nat, k <= Len(r)
  PROVE  LET front == SubSeq(r, 1, k)
             back == SubSeq(r, k + 1, Len(r))
         IN  /\ Distinct(g, s \o front, back)
             /\ Range(s \o front) \subseteq Range(s) \cup Range(r)
             /\ Range(back) \subseteq Range(r)
<1> DEFINE front == SubSeq(r, 1, k)
           back == SubSeq(r, k + 1, Len(r))
<1>1. /\ front \in Seq(S) /\ back \in Seq(S)
      /\ Range(front) \subseteq Range(r) /\ Range(back) \subseteq Range(r)
      /\ IsInjective(front) /\ IsInjective(back) /\ Range(front) \cap Range(back) = {}
  BY CutFacts DEF Distinct
<1> HIDE DEF front, back
<1>2. Range(s \o front) = Range(s) \cup Range(front) /\ IsInjective(s \o front)
  BY <1>1, ConcatInjective DEF Distinct
<1>3. Distinct(g, s \o front, back)
  BY <1>1, <1>2 DEF Distinct
<1>4. QED
  BY <1>1, <1>2, <1>3 DEF front, back

\* A finished request has been given what it has got.
LEMMA DistinctReturned ==
  ASSUME NEW S, NEW g \in Seq(S), NEW s \in Seq(S), NEW r \in Seq(S),
         Distinct(g, s, r)
  PROVE  /\ Distinct(g \o s, <<>>, r)
         /\ Range(g \o s) = Range(g) \cup Range(s)
<1>1. IsInjective(<<>>) /\ Range(<<>>) = {}
  BY DEF IsInjective, Range
<1>2. Range(g \o s) = Range(g) \cup Range(s) /\ IsInjective(g \o s)
  BY ConcatInjective DEF Distinct
<1>3. QED
  BY <1>1, <1>2 DEF Distinct

\* New correlations go to the request, or to the buffer.
LEMMA DistinctNew ==
  ASSUME NEW S, NEW g \in Seq(S), NEW s \in Seq(S), NEW r \in Seq(S),
         NEW b \in Seq(S), Distinct(g, s, r), IsInjective(b),
         \A x \in Range(b) : x \notin Range(g) /\ x \notin Range(s) /\ x \notin Range(r)
  PROVE  /\ Distinct(g, s \o b, r) /\ Distinct(g, s, b)
         /\ Range(s \o b) = Range(s) \cup Range(b)
<1>1. Range(s \o b) = Range(s) \cup Range(b) /\ IsInjective(s \o b)
  BY ConcatInjective DEF Distinct
<1>2. QED
  BY <1>1 DEF Distinct

-----------------------------------------------------------------------------
\* Types and lengths of the pieces.

\* The pieces are sequences of correlations.
LEMMA PieceTypes ==
  ASSUME IInv, NEW p \in Ends
  PROVE  /\ given[p] \in Seq(Corr) /\ Span(p) \in Seq(Corr) /\ Rest(p) \in Seq(Corr)
         /\ pc[p] # "idle" => Len(Span(p)) = offset[p]
         /\ pc[p] \notin {"boot2", "in_boot2"} => Len(Rest(p)) = upper[p] - used[p]
<1>1. /\ given[p] \in Seq(Corr) /\ out[p] \in Seq(Corr) /\ offset[p] \in Nat
      /\ need[p] \in Nat /\ used[p] \in Nat /\ upper[p] \in Nat /\ VoleNum \in Nat
      /\ buf[p] \in [1 .. VoleNum -> Corr] /\ PhaseInv(p) /\ BaseNum \in Nat
  BY SizesAssumption DEF IInv, TypeOK
<1>2. upper[p] <= VoleNum /\ used[p] <= upper[p] /\ offset[p] <= Len(out[p])
  BY <1>1 DEF PhaseInv
<1>3. upper[p] - used[p] \in Nat
  BY <1>1, <1>2
<1>4. [i \in 1 .. offset[p] |-> out[p][i]] \in Seq(Corr)
  <2>1. \A i \in 1 .. offset[p] : out[p][i] \in Corr
    BY <1>1, <1>2
  <2>2. QED
    BY <1>1, <2>1
<1>5. [i \in 1 .. upper[p] - used[p] |-> buf[p][used[p] + i]] \in Seq(Corr)
  <2>1. \A i \in 1 .. upper[p] - used[p] : used[p] + i \in 1 .. VoleNum
    BY <1>1, <1>2
  <2>2. \A i \in 1 .. upper[p] - used[p] : buf[p][used[p] + i] \in Corr
    BY <1>1, <2>1
  <2>3. QED
    BY <1>3, <2>2
<1>6. <<>> \in Seq(Corr)
  OBVIOUS
<1>7. QED
  BY <1>1, <1>3, <1>4, <1>5, <1>6 DEF Span, Rest

\* Nothing new is made or handed over.
LEMMA PiecesKept ==
  ASSUME NEW p \in Ends, OnceInv(p), given'[p] = given[p], Span(p)' = Span(p),
         Rest(p)' = Rest(p) \/ Rest(p)' = <<>>, Finishing(p)' = Finishing(p),
         pc'[p] \in Inside => seeds'[p] # <<>>
  PROVE  OnceInv(p)'
<1>1. Distinct(given[p], Span(p), Rest(p)) /\ Distinct(given[p], Span(p), <<>>)
  BY DistinctWithout DEF OnceInv
<1>2. Distinct(given'[p], Span(p)', Rest(p)')
  BY <1>1
<1>3. Range(<<>>) = {}
  BY DEF Range
<1>4. Range(Rest(p)') \subseteq Range(Rest(p))
  BY <1>3
<1>5. Range(given'[p]) \cup Range(Span(p)') \cup Range(Rest(p)') \subseteq UpTo(Finishing(p)')
  BY <1>4 DEF OnceInv
<1>6. QED
  BY <1>2, <1>5 DEF OnceInv, Distinct, IsInjective, Range, UpTo

\* A part of a block: distinct, all of one extension.
LEMMA PartOfBlock ==
  ASSUME NEW e \in Nat, NEW b \in Seq(Corr),
         \A i \in 1 .. Len(b) : b[i][1] = e,
         \A i, j \in 1 .. Len(b) : b[i][2] = b[j][2] => i = j
  PROVE  IsInjective(b) /\ \A x \in Range(b) : x[1] = e
<1>1. DOMAIN b = 1 .. Len(b)
  OBVIOUS
<1>2. QED
  BY <1>1 DEF IsInjective, Range

\* An extension ends: a part of what it has made goes to the request, or is
\* what the buffer can serve.
LEMMA PiecesNew ==
  ASSUME IInv, NEW p \in Ends, OnceInv(p), pc[p] \in Inside, pc'[p] \notin Inside,
         seeds'[p] = seeds[p], given'[p] = given[p],
         NEW b \in Seq(Corr), IsInjective(b), \A x \in Range(b) : x[1] = Len(seeds[p]),
         \/ Span(p)' = Span(p) \o b /\ Rest(p)' = Rest(p)
         \/ Span(p)' = Span(p) /\ Rest(p)' = b
  PROVE  OnceInv(p)'
<1> DEFINE e == Len(seeds[p])
<1>1. e \in Nat /\ e > 0 /\ Finishing(p) = e - 1 /\ Finishing(p)' = e
  BY DEF OnceInv, Finishing, IInv, TypeOK
<1>2. \A x \in Range(b) : x \in Corr /\ x[1] = e
  BY SeqElements
<1> HIDE DEF e
<1>3. \A x \in UpTo(e - 1) : x \in UpTo(e) /\ x[1] # e
  BY <1>1 DEF UpTo, Corr
<1>4. Range(b) \subseteq UpTo(e)
  <2> SUFFICES ASSUME NEW x \in Range(b)
               PROVE  x \in UpTo(e)
    OBVIOUS
  <2>1. x \in Corr /\ x[1] = e
    BY <1>2
  <2>2. QED
    BY <1>1, <2>1 DEF UpTo
<1>5. Range(given[p]) \cup Range(Span(p)) \cup Range(Rest(p)) \subseteq UpTo(e - 1)
  BY <1>1 DEF OnceInv
<1>6. \A x \in Range(b) :
         x \notin Range(given[p]) /\ x \notin Range(Span(p)) /\ x \notin Range(Rest(p))
  BY <1>2, <1>3, <1>5
<1>7. /\ Distinct(given[p], Span(p) \o b, Rest(p)) /\ Distinct(given[p], Span(p), b)
      /\ Range(Span(p) \o b) = Range(Span(p)) \cup Range(b)
  <2>1. given[p] \in Seq(Corr) /\ Span(p) \in Seq(Corr) /\ Rest(p) \in Seq(Corr)
    BY PieceTypes
  <2>2. Distinct(given[p], Span(p), Rest(p))
    BY DEF OnceInv
  <2>3. QED
    BY <1>2, <1>6, <2>1, <2>2, DistinctNew
<1>8. Distinct(given'[p], Span(p)', Rest(p)')
  BY <1>7
<1>9. Range(given'[p]) \cup Range(Span(p)') \cup Range(Rest(p)') \subseteq UpTo(Finishing(p)')
  BY <1>1, <1>3, <1>4, <1>5, <1>7
<1>10. QED
  BY <1>8, <1>9 DEF OnceInv, Distinct, IsInjective, Range, UpTo

\* The first k correlations of the buffer go to the request, which is given
\* them now or later.
LEMMA PiecesMoved ==
  ASSUME IInv, NEW p \in Ends, OnceInv(p), pc[p] \notin Inside, pc'[p] \notin Inside,
         seeds'[p] = seeds[p], NEW k \in Nat, k <= Len(Rest(p)), NEW s,
         s = Span(p) \o SubSeq(Rest(p), 1, k),
         \/ given'[p] = given[p] /\ Span(p)' = s
         \/ given'[p] = given[p] \o s /\ Span(p)' = <<>>,
         \/ Rest(p)' = SubSeq(Rest(p), k + 1, Len(Rest(p)))
         \/ Rest(p)' = <<>>
  PROVE  OnceInv(p)'
<1> DEFINE r == SubSeq(Rest(p), k + 1, Len(Rest(p)))
           g == given[p]
<1>1. g \in Seq(Corr) /\ Span(p) \in Seq(Corr) /\ Rest(p) \in Seq(Corr)
  BY PieceTypes
<1>2. /\ SubSeq(Rest(p), 1, k) \in Seq(Corr) /\ r \in Seq(Corr)
  BY <1>1, CutFacts
<1>3. /\ Distinct(g, s, r)
      /\ Range(s) \subseteq Range(Span(p)) \cup Range(Rest(p))
      /\ Range(r) \subseteq Range(Rest(p))
  BY <1>1, DistinctMoved DEF OnceInv
<1>4. s \in Seq(Corr)
  BY <1>1, <1>2, ConcatProperties
<1> HIDE DEF r, g
<1>5. Distinct(g \o s, <<>>, r) /\ Range(g \o s) = Range(g) \cup Range(s)
  <2>1. g \in Seq(Corr) /\ s \in Seq(Corr) /\ r \in Seq(Corr) /\ Distinct(g, s, r)
    BY <1>1, <1>2, <1>3, <1>4
  <2> HIDE DEF Distinct
  <2>2. QED
    BY <2>1, DistinctReturned, ZenonT(40)
<1>6. /\ Distinct(g \o s, <<>>, <<>>) /\ Distinct(g, s, <<>>)
      /\ Range(<<>>) = {}
  BY <1>3, <1>5, DistinctWithout DEF Range
<1>7. Distinct(given'[p], Span(p)', Rest(p)')
  BY <1>3, <1>5, <1>6 DEF g, r
<1>8. Finishing(p)' = Finishing(p)
  BY DEF Finishing
<1>9. Range(g) \cup Range(s) \cup Range(r) \subseteq UpTo(Finishing(p))
  BY <1>3 DEF OnceInv, g
<1>10. Range(given'[p]) \cup Range(Span(p)') \cup Range(Rest(p)')
        \subseteq UpTo(Finishing(p)')
  BY <1>5, <1>6, <1>8, <1>9 DEF g, r
<1>11. QED
  BY <1>7, <1>10 DEF OnceInv, Distinct, IsInjective, Range, UpTo

\* What a copy adds to the request in hand.
LEMMA CopiedSpan ==
  ASSUME IInv, NEW p \in Ends, pc[p] # "idle", NEW s \in [1 .. VoleNum -> Corr],
         NEW from \in Nat, NEW n \in Nat, from + n <= VoleNum, n <= need[p],
         CopyOut(p, s, from, n)
  PROVE  [i \in 1 .. offset'[p] |-> out'[p][i]]
           = Span(p) \o [k \in 1 .. n |-> s[from + k]]
<1> DEFINE t == [k \in 1 .. n |-> s[from + k]]
           l == [i \in 1 .. offset'[p] |-> out'[p][i]]
<1>1. /\ out[p] \in Seq(Corr) /\ offset[p] \in Nat /\ offset'[p] = offset[p] + n
      /\ Span(p) = [i \in 1 .. offset[p] |-> out[p][i]]
      /\ Span(p) \in Seq(Corr) /\ Len(Span(p)) = offset[p]
  BY EndFacts, CopyOutFacts, PieceTypes DEF Span
<1>2. t \in Seq(Corr) /\ Len(t) = n
  <2>1. \A k \in 1 .. n : s[from + k] \in Corr
    BY SizesAssumption
  <2>2. QED
    BY <2>1
<1>3. /\ Span(p) \o t \in Seq(Corr) /\ Len(Span(p) \o t) = offset[p] + n
      /\ \A i \in 1 .. offset[p] + n :
           (Span(p) \o t)[i] = IF i <= offset[p] THEN Span(p)[i] ELSE t[i - offset[p]]
  BY <1>1, <1>2, ConcatProperties
<1>4. ASSUME NEW i \in 1 .. offset'[p]
      PROVE  out'[p][i] = (Span(p) \o t)[i]
  <2>1. \/ i <= offset[p] /\ out'[p][i] = out[p][i]
        \/ i > offset[p] /\ i - offset[p] \in 1 .. n
             /\ out'[p][i] = s[from + (i - offset[p])]
    BY CopyOutElements
  <2>2. CASE i <= offset[p]
    BY <1>1, <1>3, <2>1, <2>2
  <2>3. CASE i > offset[p]
    <3>1. i - offset[p] \in 1 .. n /\ out'[p][i] = s[from + (i - offset[p])]
      BY <1>1, <2>1, <2>3
    <3>2. (Span(p) \o t)[i] = t[i - offset[p]]
      BY <1>1, <1>3, <2>3
    <3>3. QED
      BY <3>1, <3>2
  <2>4. QED
    BY <1>1, <2>2, <2>3
<1>5. l \in Seq(Corr) /\ Len(l) = offset[p] + n
  <2>1. \A i \in 1 .. offset'[p] : out'[p][i] \in Corr
    <3>1. \A i \in 1 .. offset[p] + n : (Span(p) \o t)[i] \in Corr
      BY <1>3, ElementOfSeq
    <3>2. QED
      BY <1>1, <1>4, <3>1
  <2>2. offset'[p] \in Nat
    BY <1>1
  <2>3. QED
    <3> DEFINE m == offset'[p]
    <3>1. m \in Nat /\ m = offset[p] + n
      BY <1>1, <2>2
    <3>2. \A i \in 1 .. m : out'[p][i] \in Corr
      BY <2>1
    <3>3. l = [i \in 1 .. m |-> out'[p][i]]
      OBVIOUS
    <3> HIDE DEF m, l
    <3>4. QED
      BY <3>1, <3>2, <3>3
<1>6. \A i \in 1 .. Len(l) : l[i] = (Span(p) \o t)[i]
  BY <1>1, <1>4, <1>5
<1> HIDE DEF l, t
<1>7. l = Span(p) \o t
  BY <1>3, <1>5, <1>6, SeqEqual
<1>8. QED
  BY <1>7 DEF l, t

-----------------------------------------------------------------------------
\* Each action keeps the pieces of its end distinct.

\* A call has got nothing yet.
LEMMA CallOnce ==
  ASSUME IInv, NEW p \in Ends, OnceInv(p), NEW n \in 1 .. MaxRequest, Call(p, n)
  PROVE  OnceInv(p)'
<1>1. /\ pc[p] = "idle" /\ pc'[p] \in {"loop", "setup"} /\ offset'[p] = 0
      /\ UNCHANGED <<buf, used, upper, seeds, given>>
  BY DEF Call, IInv, TypeOK
<1>2. Span(p) = <<>> /\ Span(p)' = <<>>
  BY <1>1 DEF Span
<1>3. Rest(p)' = Rest(p)
  BY <1>1 DEF Rest
<1>4. Finishing(p)' = Finishing(p) /\ pc'[p] \notin Inside
  BY <1>1 DEF Finishing, Inside
<1>5. QED
  BY <1>1, <1>2, <1>3, <1>4, PiecesKept

\* An extension that begins moves nothing.
LEMMA BeginExtensionOnce ==
  ASSUME IInv, NEW p \in Ends, OnceInv(p), BeginExtension(p)
  PROVE  OnceInv(p)'
<1>1. /\ pc[p] \in {"setup", "loop", "boot1", "boot2"}
      /\ pc'[p] = Extending[pc[p]]
      /\ seeds'[p] = Append(seeds[p], NextSeed(p))
      /\ UNCHANGED <<buf, used, upper, out, offset, given>>
  BY DEF BeginExtension, Extending, IInv, TypeOK
<1>2. pc[p] \notin Inside /\ pc'[p] \in Inside
  BY <1>1 DEF Extending, Inside
<1>3. Span(p)' = Span(p)
  BY <1>1, <1>2 DEF Span, Inside
<1>4. Rest(p)' = Rest(p)
  BY <1>1 DEF Rest, Extending
<1>5. Len(seeds'[p]) = Len(seeds[p]) + 1 /\ seeds'[p] # <<>> /\ Len(seeds[p]) \in Nat
  <2>1. seeds[p] \in Seq(Seq(Corr)) /\ NextSeed(p) \in Seq(Corr)
    BY NextSeedType DEF IInv, TypeOK
  <2>2. /\ Append(seeds[p], NextSeed(p)) \in Seq(Seq(Corr))
        /\ Len(Append(seeds[p], NextSeed(p))) = Len(seeds[p]) + 1
    BY <2>1, AppendProperties
  <2>3. Len(seeds'[p]) = Len(seeds[p]) + 1 /\ Len(seeds[p]) \in Nat
    BY <1>1, <2>1, <2>2
  <2>4. Len(<<>>) = 0
    OBVIOUS
  <2>5. QED
    BY <2>3, <2>4
<1>6. Finishing(p)' = Finishing(p)
  BY <1>2, <1>5 DEF Finishing
<1>7. QED
  BY <1>1, <1>3, <1>4, <1>5, <1>6, PiecesKept

\* The setup and a Bootstrap: the buffer can serve what lies past its reserve.
LEMMA RefillOnce ==
  ASSUME IInv, NEW p \in Ends, OnceInv(p), pc[p] \in Inside,
         pc'[p] \notin Inside \cup {"boot2", "idle"},
         NEW n \in BaseNum .. VoleNum, buf'[p] = Overlay(buf[p], 0, Made(p, n)),
         used'[p] = BaseNum, upper'[p] = n, out'[p] = out[p],
         offset'[p] = offset[p], given'[p] = given[p], seeds'[p] = seeds[p]
  PROVE  OnceInv(p)'
<1>1. /\ BaseNum \in Nat /\ VoleNum \in Nat /\ n \in Nat /\ BaseNum <= n /\ n <= VoleNum
      /\ buf[p] \in [1 .. VoleNum -> Corr] /\ Len(seeds[p]) \in Nat
  BY SizesAssumption DEF IInv, TypeOK
<1>2. ASSUME NEW i \in 1 .. n
      PROVE  buf'[p][i] = <<Len(seeds[p]), i>>
  <2>1. /\ i \in 1 .. VoleNum /\ i - 0 = i
    BY <1>1
  <2>2. Made(p, n)[i] = <<Len(seeds[p]), i>> /\ DOMAIN Made(p, n) = 1 .. n
    BY DEF Made, Block
  <2>3. QED
    BY <1>1, <2>1, <2>2 DEF Overlay
<1>3. Span(p)' = Span(p)
  BY DEF Span, Inside
<1> DEFINE b == [i \in 1 .. n - BaseNum |-> buf'[p][BaseNum + i]]
<1>4. Rest(p)' = b
  BY DEF Rest, Inside
<1>5. \A i \in 1 .. n - BaseNum : b[i] = <<Len(seeds[p]), BaseNum + i>>
  <2>1. \A i \in 1 .. n - BaseNum : BaseNum + i \in 1 .. n
    BY <1>1
  <2>2. QED
    BY <1>2, <2>1
<1>6. b \in Seq(Corr) /\ Len(b) = n - BaseNum
  <2>1. ASSUME NEW i \in 1 .. n - BaseNum
        PROVE  b[i] \in Corr
    <3>1. b[i] = <<Len(seeds[p]), BaseNum + i>>
      BY <1>5
    <3> HIDE DEF b
    <3>2. BaseNum + i \in Nat
      BY <1>1
    <3>3. QED
      BY <1>1, <3>1, <3>2 DEF Corr
  <2>2. n - BaseNum \in Nat
    BY <1>1
  <2>3. QED
    BY <2>1, <2>2
<1> HIDE DEF b
<1>7. IsInjective(b) /\ \A x \in Range(b) : x[1] = Len(seeds[p])
  <2>1. \A i \in 1 .. Len(b) : b[i][1] = Len(seeds[p]) /\ b[i][2] = BaseNum + i
    BY <1>5, <1>6
  <2>2. \A i, j \in 1 .. Len(b) : b[i][2] = b[j][2] => i = j
    BY <1>1, <1>6, <2>1
  <2>3. QED
    BY <1>1, <1>6, <2>1, <2>2, PartOfBlock, ZenonT(40)
<1>8. QED
  BY <1>3, <1>4, <1>6, <1>7, PiecesNew

\* The setup.
LEMMA EndSetupOnce ==
  ASSUME IInv, NEW p \in Ends, OnceInv(p), EndSetup(p)
  PROVE  OnceInv(p)'
<1>1. /\ pc[p] = "in_setup" /\ pc'[p] = "loop"
      /\ buf'[p] = Overlay(buf[p], 0, Made(p, SetupNum))
      /\ used'[p] = BaseNum /\ upper'[p] = SetupNum
      /\ UNCHANGED <<out, offset, given, seeds>>
  BY DEF EndSetup, IInv, TypeOK
<1>2. SetupNum \in BaseNum .. VoleNum
  BY SizesAssumption
<1>3. QED
  BY <1>1, <1>2, RefillOnce DEF Inside

\* A Bootstrap.
LEMMA EndBootstrapOnce ==
  ASSUME IInv, NEW p \in Ends, OnceInv(p), EndBootstrap(p)
  PROVE  OnceInv(p)'
<1>1. /\ pc[p] \in {"in_boot1", "in_boot2"} /\ pc'[p] \in {"drain1", "drain2"}
      /\ buf'[p] = Overlay(buf[p], 0, Made(p, VoleNum))
      /\ used'[p] = BaseNum /\ upper'[p] = VoleNum
      /\ UNCHANGED <<out, offset, given, seeds>>
  BY DEF EndBootstrap, IInv, TypeOK
<1>2. VoleNum \in BaseNum .. VoleNum
  BY SizesAssumption
<1>3. QED
  BY <1>1, <1>2, RefillOnce DEF Inside

\* An in-place round: what it has made goes to the request, but for the
\* reserve, which lies past the cursor.
LEMMA EndInplaceOnce ==
  ASSUME IInv, NEW p \in Ends, OnceInv(p), EndInplace(p)
  PROVE  OnceInv(p)'
<1> DEFINE e == Len(seeds[p])
           m == VoleNum - BaseNum
           b == [i \in 1 .. m |-> <<e, i>>]
<1>1. /\ pc[p] = "in_loop" /\ pc'[p] = "loop"
      /\ out'[p] = Overlay(out[p], offset[p], Made(p, VoleNum))
      /\ offset'[p] = offset[p] + m
      /\ UNCHANGED <<buf, used, upper, given, seeds>>
  BY DEF EndInplace, IInv, TypeOK
<1>2. /\ out[p] \in Seq(Corr) /\ offset[p] \in Nat /\ need[p] \in Nat
      /\ offset[p] + need[p] = Len(out[p]) /\ need[p] >= VoleNum
      /\ m \in Nat /\ m <= VoleNum /\ VoleNum \in Nat /\ e \in Nat
  BY <1>1, EndFacts, SizesAssumption, SMTT(40) DEF PhaseInv, IInv, TypeOK
<1>3. offset[p] + VoleNum <= Len(out[p])
  BY <1>2
<1>4. /\ Span(p) \in Seq(Corr) /\ Len(Span(p)) = offset[p]
      /\ Span(p) = [i \in 1 .. offset[p] |-> out[p][i]]
  BY <1>1, PieceTypes DEF Span
<1>5. /\ b \in Seq(Corr) /\ Len(b) = m
      /\ \A i \in 1 .. m : b[i] = <<e, i>>
  <2> HIDE DEF e, m
  <2>1. \A i \in 1 .. m : <<e, i>> \in Corr
    BY <1>2 DEF Corr
  <2>2. QED
    BY <1>2, <2>1
<1> HIDE DEF b
<1>6. IsInjective(b) /\ \A x \in Range(b) : x[1] = Len(seeds[p])
  <2>1. \A i \in 1 .. Len(b) : b[i][1] = e /\ b[i][2] = i
    BY <1>5
  <2>2. \A i, j \in 1 .. Len(b) : b[i][2] = b[j][2] => i = j
    BY <2>1
  <2>3. e \in Nat /\ b \in Seq(Corr)
    BY <1>2, <1>5
  <2>4. IsInjective(b) /\ \A x \in Range(b) : x[1] = e
    <3> HIDE DEF e, m
    <3>1. DOMAIN b = 1 .. Len(b)
      BY <2>3
    <3>2. IsInjective(b)
      BY <2>2, <3>1 DEF IsInjective
    <3>3. QED
      BY <2>1, <3>1, <3>2 DEF Range
  <2>5. QED
    BY <2>4
<1>7. /\ Span(p) \o b \in Seq(Corr) /\ Len(Span(p) \o b) = offset[p] + m
      /\ \A i \in 1 .. offset[p] + m :
           (Span(p) \o b)[i] = IF i <= offset[p] THEN Span(p)[i] ELSE b[i - offset[p]]
  <2> HIDE DEF m
  <2>1. Span(p) \in Seq(Corr) /\ b \in Seq(Corr)
    BY <1>4, <1>5
  <2>2. /\ Span(p) \o b \in Seq(Corr) /\ Len(Span(p) \o b) = Len(Span(p)) + Len(b)
        /\ \A i \in 1 .. Len(Span(p)) + Len(b) :
             (Span(p) \o b)[i] = IF i <= Len(Span(p)) THEN Span(p)[i]
                                 ELSE b[i - Len(Span(p))]
    BY <2>1, ConcatProperties
  <2>3. QED
    BY <1>4, <1>5, <2>2
<1>8. ASSUME NEW i \in 1 .. offset[p] + m
      PROVE  out'[p][i] = (Span(p) \o b)[i]
  <2>1. /\ i \in DOMAIN out[p]
        /\ out'[p][i] = IF i - offset[p] \in 1 .. VoleNum
                          THEN Made(p, VoleNum)[i - offset[p]] ELSE out[p][i]
    <3>1. i \in DOMAIN out[p]
      BY <1>2, <1>3
    <3>2. DOMAIN Made(p, VoleNum) = 1 .. VoleNum
      BY DEF Made, Block
    <3>3. QED
      BY <1>1, <3>1, <3>2 DEF Overlay
  <2>2. CASE i <= offset[p]
    <3>1. ~(i - offset[p] \in 1 .. VoleNum) /\ i \in 1 .. offset[p]
      BY <1>2, <2>2
    <3>2. out'[p][i] = out[p][i]
      BY <2>1, <3>1
    <3>3. QED
      BY <1>4, <1>7, <2>2, <3>1, <3>2
  <2>3. CASE i > offset[p]
    <3>1. i - offset[p] \in 1 .. m /\ i - offset[p] \in 1 .. VoleNum
      BY <1>2, <2>3
    <3>2. Made(p, VoleNum)[i - offset[p]] = <<e, i - offset[p]>>
      BY <1>2, <3>1 DEF Made, Block
    <3>3. (Span(p) \o b)[i] = b[i - offset[p]]
      BY <1>2, <1>7, <2>3
    <3>4. QED
      BY <1>5, <2>1, <3>1, <3>2, <3>3
  <2>4. i <= offset[p] \/ i > offset[p]
    BY <1>2
  <2>5. QED
    BY <2>2, <2>3, <2>4, Zenon
<1>9. Span(p)' = Span(p) \o b
  <2>1. Span(p)' = [i \in 1 .. offset[p] + m |-> out'[p][i]]
    BY <1>1 DEF Span
  <2> DEFINE t == Span(p) \o b
             k == offset[p] + m
             l == [i \in 1 .. k |-> out'[p][i]]
  <2>2. t \in Seq(Corr) /\ Len(t) = k /\ k \in Nat /\ \A i \in 1 .. k : out'[p][i] = t[i]
    BY <1>2, <1>7, <1>8
  <2>3. l = t
    <3> HIDE DEF t, k
    <3>1. \A i \in 1 .. k : out'[p][i] \in Corr
      BY <2>2, ElementOfSeq
    <3>2. l \in Seq(Corr) /\ Len(l) = k /\ \A i \in 1 .. k : l[i] = t[i]
      BY <2>2, <3>1
    <3> HIDE DEF l
    <3>3. QED
      BY <2>2, <3>2, SeqEqual
  <2>4. QED
    BY <2>1, <2>3
<1>10. Rest(p)' = Rest(p)
  BY <1>1 DEF Rest
<1>11. QED
  BY <1>1, <1>5, <1>6, <1>9, <1>10, PiecesNew DEF Inside

\* A copy from the rest of the buffer, n correlations long: what they are.
LEMMA ServedPiece ==
  ASSUME IInv, NEW p \in Ends, pc[p] \notin {"boot2", "in_boot2"},
         NEW s \in [1 .. VoleNum -> Corr],
         \A i \in used[p] + 1 .. upper[p] : s[i] = buf[p][i],
         NEW n \in Nat, used[p] + n <= upper[p]
  PROVE  /\ n <= Len(Rest(p))
         /\ SubSeq(Rest(p), 1, n) = [k \in 1 .. n |-> s[used[p] + k]]
         /\ SubSeq(Rest(p), n + 1, Len(Rest(p)))
              = [k \in 1 .. upper[p] - (used[p] + n) |-> s[used[p] + n + k]]
<1> DEFINE m == upper[p] - used[p]
           r == Rest(p)
<1>1. /\ used[p] \in Nat /\ upper[p] \in Nat /\ upper[p] <= VoleNum /\ VoleNum \in Nat
      /\ m \in Nat /\ n <= m
  <2>1. /\ used[p] \in Nat /\ upper[p] \in Nat /\ isSetup[p] \in BOOLEAN
        /\ PhaseInv(p) /\ VoleNum \in Nat /\ BaseNum \in Nat
    BY EndFacts, SizesAssumption
  <2>2. used[p] <= upper[p] /\ upper[p] <= VoleNum
    BY <2>1 DEF PhaseInv
  <2>3. QED
    BY <2>1, <2>2
<1>2. r \in Seq(Corr) /\ Len(r) = m
  BY PieceTypes
<1>3. ASSUME NEW k \in 1 .. m
      PROVE  r[k] = s[used[p] + k] /\ used[p] + k \in 1 .. VoleNum
  <2>1. used[p] + k \in used[p] + 1 .. upper[p] /\ used[p] + k \in 1 .. VoleNum
    BY <1>1
  <2>2. r[k] = buf[p][used[p] + k]
    BY DEF Rest
  <2>3. QED
    BY <2>1, <2>2
<1> HIDE DEF r
<1>4. /\ SubSeq(r, 1, n) \in Seq(Corr) /\ SubSeq(r, n + 1, Len(r)) \in Seq(Corr)
      /\ Len(SubSeq(r, 1, n)) = n /\ Len(SubSeq(r, n + 1, Len(r))) = m - n
      /\ \A i \in 1 .. n : SubSeq(r, 1, n)[i] = r[i]
      /\ \A i \in 1 .. m - n : SubSeq(r, n + 1, Len(r))[i] = r[n + i]
  <2> HIDE DEF m
  <2>1. n <= Len(r)
    BY <1>1, <1>2
  <2>2. /\ SubSeq(r, 1, n) \in Seq(Corr) /\ SubSeq(r, n + 1, Len(r)) \in Seq(Corr)
        /\ Len(SubSeq(r, 1, n)) = n /\ Len(SubSeq(r, n + 1, Len(r))) = Len(r) - n
        /\ \A i \in 1 .. n : SubSeq(r, 1, n)[i] = r[i]
        /\ \A i \in 1 .. Len(r) - n : SubSeq(r, n + 1, Len(r))[i] = r[n + i]
    BY <1>2, <2>1, CutFacts
  <2>3. QED
    BY <1>2, <2>2
<1> DEFINE front == [k \in 1 .. n |-> s[used[p] + k]]
           left == m - n
           back == [k \in 1 .. left |-> s[used[p] + n + k]]
<1>5. SubSeq(r, 1, n) = front
  <2>1. \A k \in 1 .. n : front[k] = SubSeq(r, 1, n)[k] /\ s[used[p] + k] \in Corr
    BY <1>1, <1>3, <1>4
  <2>2. front \in Seq(Corr) /\ Len(front) = n
    BY <2>1
  <2> HIDE DEF front
  <2>3. QED
    BY <1>4, <2>1, <2>2, SeqEqual
<1>6. SubSeq(r, n + 1, Len(r)) = back
  <2>1. left \in Nat
    BY <1>1
  <2>2. ASSUME NEW k \in 1 .. left
        PROVE  /\ back[k] = SubSeq(r, n + 1, Len(r))[k]
               /\ s[used[p] + n + k] \in Corr
    <3>1. n + k \in 1 .. m /\ used[p] + (n + k) = used[p] + n + k
      BY <1>1
    <3>2. r[n + k] = s[used[p] + n + k] /\ used[p] + n + k \in 1 .. VoleNum
      BY <1>3, <3>1
    <3>3. QED
      BY <1>4, <3>2
  <2> HIDE DEF left
  <2>3. back \in Seq(Corr) /\ Len(back) = left
    BY <2>1, <2>2
  <2> HIDE DEF back
  <2>4. QED
    BY <1>4, <2>2, <2>3, SeqEqual DEF left
<1>7. left = upper[p] - (used[p] + n)
  BY <1>1
<1>8. QED
  BY <1>1, <1>2, <1>5, <1>6, <1>7 DEF r

\* Refreshing the reserve leaves what the buffer can serve alone.
LEMMA RefreshedRest ==
  ASSUME IInv, NEW p \in Ends, pc[p] = "loop"
  PROVE  \A i \in used[p] + 1 .. upper[p] : Refreshed(p)[i] = buf[p][i]
<1>1. CASE RefreshReserve
  BY <1>1, RefreshedElements
<1>2. CASE ~RefreshReserve
  BY <1>2 DEF Refreshed
<1>3. QED
  BY <1>1, <1>2

\* A copy that goes to the request, which returns or goes on.
LEMMA CopiedOnce ==
  ASSUME IInv, NEW p \in Ends, OnceInv(p), pc[p] \notin Inside \cup {"idle", "boot2"},
         NEW s \in [1 .. VoleNum -> Corr],
         \A i \in used[p] + 1 .. upper[p] : s[i] = buf[p][i],
         NEW n \in Nat, used[p] + n <= upper[p], n <= need[p],
         CopyOut(p, s, used[p], n), seeds'[p] = seeds[p],
         \/ pc'[p] \notin Inside \cup {"idle"} /\ given'[p] = given[p]
         \/ pc'[p] = "idle" /\ n = need[p] /\ Return(p),
         \/ pc'[p] # "boot2" /\ buf'[p] = s /\ used'[p] = used[p] + n /\ upper'[p] = upper[p]
         \/ pc'[p] = "boot2"
  PROVE  OnceInv(p)'
<1> DEFINE front == SubSeq(Rest(p), 1, n)
           back == SubSeq(Rest(p), n + 1, Len(Rest(p)))
           l == [i \in 1 .. offset'[p] |-> out'[p][i]]
<1>1. /\ n <= Len(Rest(p)) /\ front = [k \in 1 .. n |-> s[used[p] + k]]
      /\ back = [k \in 1 .. upper[p] - (used[p] + n) |-> s[used[p] + n + k]]
  <2>1. pc[p] \notin {"boot2", "in_boot2"}
    BY DEF Inside
  <2>2. QED
    BY <2>1, ServedPiece, Zenon
<1>2. /\ used[p] \in Nat /\ upper[p] \in Nat /\ upper[p] <= VoleNum
      /\ VoleNum \in Nat /\ need[p] \in Nat
  BY EndFacts, SizesAssumption DEF PhaseInv
<1>3. used[p] + n <= VoleNum
  BY <1>2
<1>4. l = Span(p) \o front
  <2>1. l = Span(p) \o [k \in 1 .. n |-> s[used[p] + k]]
    BY <1>2, <1>3, CopiedSpan, Zenon
  <2>2. QED
    BY <1>1, <2>1
<1>5. \/ given'[p] = given[p] /\ Span(p)' = l
      \/ given'[p] = given[p] \o l /\ Span(p)' = <<>>
  <2>1. CASE pc'[p] \notin Inside \cup {"idle"} /\ given'[p] = given[p]
    BY <2>1 DEF Span
  <2>2. CASE pc'[p] = "idle" /\ n = need[p] /\ Return(p)
    <3>1. /\ out'[p] \in Seq(Corr) /\ offset'[p] + need'[p] = Len(out'[p])
          /\ need'[p] = need[p] - n /\ offset'[p] = offset[p] + n
          /\ given'[p] = given[p] \o out'[p] /\ offset[p] \in Nat
      <4>1. /\ out' \in [Ends -> Seq(Corr)] /\ offset'[p] = offset[p] + n
            /\ need'[p] = need[p] - n /\ offset'[p] + need'[p] = Len(out'[p])
        BY <1>2, <1>3, CopyOutFacts
      <4>2. given'[p] = given[p] \o out'[p] /\ offset[p] \in Nat
        BY <2>2 DEF Return, IInv, TypeOK
      <4>3. QED
        BY <4>1, <4>2
    <3>2. offset'[p] = Len(out'[p])
      BY <1>2, <2>2, <3>1
    <3>3. l = out'[p]
      BY <3>1, <3>2
    <3>4. QED
      BY <2>2, <3>1, <3>3 DEF Span
  <2>3. QED
    BY <2>1, <2>2
<1>6. Rest(p)' = back \/ Rest(p)' = <<>>
  BY <1>1 DEF Rest, Inside
<1> HIDE DEF l, back
<1>7. pc[p] \notin Inside /\ pc'[p] \notin Inside
  BY DEF Inside
<1>8. QED
  BY <1>1, <1>4, <1>5, <1>6, <1>7, PiecesMoved DEF back

\* The first copy of a request.
LEMMA ServeFromBufferOnce ==
  ASSUME IInv, NEW p \in Ends, OnceInv(p), ServeFromBuffer(p)
  PROVE  OnceInv(p)'
<1> DEFINE n == Min2(upper[p] - used[p], need[p])
<1>1. /\ pc[p] = "loop" /\ pc'[p] \in {"boot1", "idle"}
      /\ pc'[p] = "idle" => ~(n < need[p]) /\ Return(p)
      /\ pc'[p] # "idle" => given'[p] = given[p]
      /\ buf'[p] = Refreshed(p) /\ used'[p] = used[p] + n
      /\ CopyOut(p, Refreshed(p), used[p], n)
      /\ UNCHANGED <<upper, seeds>>
  BY DEF ServeFromBuffer, IInv, TypeOK
<1>2. /\ used[p] \in Nat /\ upper[p] \in Nat /\ need[p] \in Nat /\ used[p] <= upper[p]
  BY EndFacts, SizesAssumption DEF PhaseInv
<1>3. n \in Nat /\ n <= need[p] /\ used[p] + n <= upper[p]
  BY <1>2 DEF Min2
<1>4. /\ Refreshed(p) \in [1 .. VoleNum -> Corr]
      /\ \A i \in used[p] + 1 .. upper[p] : Refreshed(p)[i] = buf[p][i]
  BY <1>1, RefreshedType, RefreshedRest
<1> HIDE DEF n
<1>5. pc'[p] = "idle" => n = need[p] /\ Return(p)
  BY <1>1, <1>2, <1>3
<1>6. /\ pc[p] \notin Inside \cup {"idle", "boot2"}
      /\ pc'[p] \notin Inside \cup {"boot2"}
  BY <1>1 DEF Inside
<1>7. seeds'[p] = seeds[p] /\ upper'[p] = upper[p]
  BY <1>1
<1>8. \/ pc'[p] \notin Inside \cup {"idle"} /\ given'[p] = given[p]
      \/ pc'[p] = "idle" /\ n = need[p] /\ Return(p)
  BY <1>1, <1>5, <1>6
<1>9. \/ pc'[p] # "boot2" /\ buf'[p] = Refreshed(p) /\ used'[p] = used[p] + n
           /\ upper'[p] = upper[p]
      \/ pc'[p] = "boot2"
  BY <1>1, <1>6, <1>7
<1>10. QED
  BY <1>1, <1>3, <1>4, <1>6, <1>7, <1>8, <1>9, CopiedOnce

\* The copy before the second Bootstrap.
LEMMA DrainWorstCaseOnce ==
  ASSUME IInv, NEW p \in Ends, OnceInv(p), DrainWorstCase(p)
  PROVE  OnceInv(p)'
<1> DEFINE n == upper[p] - BaseNum
<1>1. /\ pc[p] = "drain1" /\ pc'[p] = "boot2" /\ need[p] > n
      /\ CopyOut(p, buf[p], used[p], n)
      /\ UNCHANGED <<seeds, given>>
  BY DEF DrainWorstCase, IInv, TypeOK
<1>2. /\ used[p] = BaseNum /\ upper[p] = VoleNum /\ BaseNum \in Nat /\ VoleNum \in Nat
      /\ BaseNum <= VoleNum /\ need[p] \in Nat /\ buf[p] \in [1 .. VoleNum -> Corr]
  BY <1>1, EndFacts, SizesAssumption DEF PhaseInv
<1>3. n \in Nat /\ n <= need[p] /\ used[p] + n <= upper[p]
  BY <1>1, <1>2
<1> HIDE DEF n
<1>4. /\ pc[p] \notin Inside \cup {"idle", "boot2"} /\ pc'[p] \notin Inside \cup {"idle"}
      /\ seeds'[p] = seeds[p] /\ given'[p] = given[p]
  BY <1>1 DEF Inside
<1>5. QED
  BY <1>1, <1>2, <1>3, <1>4, CopiedOnce

\* The last copy.
LEMMA DrainRestOnce ==
  ASSUME IInv, NEW p \in Ends, OnceInv(p), DrainRest(p)
  PROVE  OnceInv(p)'
<1> DEFINE n == need[p]
<1>1. /\ pc[p] \in {"drain1", "drain2"} /\ pc'[p] = "idle"
      /\ CopyOut(p, buf[p], used[p], n) /\ Return(p)
      /\ used'[p] = used[p] + n /\ buf'[p] = buf[p] /\ upper'[p] = upper[p]
      /\ seeds'[p] = seeds[p]
      /\ pc[p] = "drain1" => n <= upper[p] - BaseNum
  BY DEF DrainRest, IInv, TypeOK
<1>2. /\ used[p] = BaseNum /\ upper[p] = VoleNum /\ BaseNum \in Nat /\ VoleNum \in Nat
      /\ BaseNum <= VoleNum /\ n \in Nat /\ buf[p] \in [1 .. VoleNum -> Corr]
      /\ pc[p] = "drain2" => n <= VoleNum - BaseNum
  BY <1>1, EndFacts, SizesAssumption DEF PhaseInv
<1>3. n \in Nat /\ n <= need[p] /\ used[p] + n <= upper[p] /\ n = need[p]
  BY <1>1, <1>2
<1> HIDE DEF n
<1>4. pc[p] \notin Inside \cup {"idle", "boot2"} /\ pc'[p] # "boot2"
  BY <1>1 DEF Inside
<1>5. QED
  BY <1>1, <1>2, <1>3, <1>4, CopiedOnce

\* A step or a call of either end.
Acts(p) == Step(p) \/ \E n \in 1 .. MaxRequest : Call(p, n)

\* Each action of an end keeps its pieces distinct.
LEMMA StepOnce ==
  ASSUME IInv, NEW p \in Ends, OnceInv(p), Acts(p)
  PROVE  OnceInv(p)'
BY CallOnce, BeginExtensionOnce, EndSetupOnce, EndInplaceOnce, ServeFromBufferOnce,
   EndBootstrapOnce, DrainWorstCaseOnce, DrainRestOnce DEF Acts, Step

\* A step of one end leaves the pieces of the other.
LEMMA PeerOnce ==
  ASSUME IInv, NEW p \in Ends, NEW q \in Ends, q # p, OnceInv(q), Acts(p)
  PROVE  OnceInv(q)'
<1>1. /\ pc'[q] = pc[q] /\ used'[q] = used[q] /\ upper'[q] = upper[q]
      /\ offset'[q] = offset[q] /\ out'[q] = out[q] /\ buf'[q] = buf[q]
      /\ given'[q] = given[q] /\ seeds'[q] = seeds[q]
  BY PeerFrame DEF Acts
<1>2. Span(q)' = Span(q) /\ Rest(q)' = Rest(q) /\ Finishing(q)' = Finishing(q)
  BY <1>1 DEF Span, Rest, Finishing
<1>3. QED
  BY <1>1, <1>2, PiecesKept DEF OnceInv

\* Nothing is made or handed out at the start.
LEMMA InitOnce == Init => \A p \in Ends : OnceInv(p)
<1> SUFFICES ASSUME Init, NEW p \in Ends
             PROVE  OnceInv(p)
  OBVIOUS
<1>1. /\ pc[p] = "idle" /\ given[p] = <<>> /\ used[p] = 0 /\ upper[p] = 0
  BY DEF Init
<1>2. Span(p) = <<>> /\ Rest(p) = <<>>
  BY <1>1 DEF Span, Rest
<1>3. IsInjective(<<>>) /\ Range(<<>>) = {}
  BY DEF IsInjective, Range
<1>4. QED
  BY <1>1, <1>2, <1>3 DEF OnceInv, Distinct, Inside

\* Every step keeps the pieces of both ends distinct.
LEMMA NextOnce ==
  ASSUME IInv, \A p \in Ends : OnceInv(p), [Next]_vars, NEW q \in Ends
  PROVE  OnceInv(q)'
<1>1. CASE UNCHANGED vars
  BY <1>1 DEF vars, OnceInv, Distinct, Span, Rest, Finishing, UpTo
<1>2. ASSUME NEW p \in Ends, Acts(p)
      PROVE  OnceInv(q)'
  BY <1>2, StepOnce, PeerOnce
<1>3. QED
  BY <1>1, <1>2 DEF Next, Finished, Acts

-----------------------------------------------------------------------------
\* What an end does next is determined by its state and by the requests,
\* never by its peer.

State(l, c, on, b, u, up, o, off, nd, rd, sd, gv) ==
  [pc |-> l, calls |-> c, isSetup |-> on, buf |-> b, used |-> u, upper |-> up,
   out |-> o, offset |-> off, need |-> nd, rounds |-> rd, seeds |-> sd, given |-> gv]

\* The state of end p.
View(p) ==
  State(pc[p], calls[p], isSetup[p], buf[p], used[p], upper[p], out[p],
        offset[p], need[p], rounds[p], seeds[p], given[p])

\* NextSeed, Refreshed and CopyOut, of the parts of a state they read.
SeedFrom(l, b, o, off, rd) ==
  IF l = "setup" THEN BaseVole
  ELSE IF l = "loop" /\ rd > 0 THEN SubSeq(o, off + 1, off + BaseNum)
  ELSE SubSeq(b, 1, BaseNum)

RefreshedFrom(b, o, off, rd) ==
  IF rd > 0 /\ RefreshReserve
    THEN Overlay(b, 0, SubSeq(o, off + 1, off + BaseNum)) ELSE b

CopiedTo(o, off, s, from, n) == Overlay(o, off, [i \in 1 .. n |-> s[from + i]])

AfterCall(v, n) ==
  State(IF v.isSetup THEN "loop" ELSE "setup", v.calls + 1, v.isSetup, v.buf,
        v.used, v.upper, [i \in 1 .. n |-> Empty], 0, n, 0, v.seeds, v.given)

AfterBegin(v) ==
  State(Extending[v.pc], v.calls, v.isSetup, v.buf, v.used, v.upper, v.out,
        v.offset, v.need, v.rounds,
        Append(v.seeds, SeedFrom(v.pc, v.buf, v.out, v.offset, v.rounds)), v.given)

AfterSetup(v) ==
  State("loop", v.calls, TRUE, Overlay(v.buf, 0, Block(Len(v.seeds), SetupNum)),
        BaseNum, SetupNum, v.out, v.offset, v.need, v.rounds, v.seeds, v.given)

AfterInplace(v) ==
  State("loop", v.calls, v.isSetup, v.buf, v.used, v.upper,
        Overlay(v.out, v.offset, Block(Len(v.seeds), VoleNum)),
        v.offset + (VoleNum - BaseNum), v.need - (VoleNum - BaseNum),
        v.rounds + 1, v.seeds, v.given)

AfterServe(v) ==
  LET n == Min2(v.upper - v.used, v.need)
      b == RefreshedFrom(v.buf, v.out, v.offset, v.rounds)
      o == CopiedTo(v.out, v.offset, b, v.used, n)
  IN State(IF n < v.need THEN "boot1" ELSE "idle", v.calls, v.isSetup, b,
           v.used + n, v.upper, o, v.offset + n, v.need - n, v.rounds, v.seeds,
           IF n < v.need THEN v.given ELSE v.given \o o)

AfterBootstrap(v) ==
  State(IF v.pc = "in_boot1" THEN "drain1" ELSE "drain2", v.calls, v.isSetup,
        Overlay(v.buf, 0, Block(Len(v.seeds), VoleNum)), BaseNum, VoleNum,
        v.out, v.offset, v.need, v.rounds, v.seeds, v.given)

AfterWorstCase(v) ==
  LET n == v.upper - BaseNum
  IN State("boot2", v.calls, v.isSetup, v.buf, v.used, v.upper,
           CopiedTo(v.out, v.offset, v.buf, v.used, n), v.offset + n,
           v.need - n, v.rounds, v.seeds, v.given)

AfterRest(v) ==
  LET o == CopiedTo(v.out, v.offset, v.buf, v.used, v.need)
  IN State("idle", v.calls, v.isSetup, v.buf, v.used + v.need, v.upper, o,
           v.offset + v.need, v.need - v.need, v.rounds, v.seeds, v.given \o o)

NextView(v, rs) ==
  IF v.pc = "idle" THEN AfterCall(v, rs[v.calls + 1])
  ELSE IF v.pc = "loop" /\ v.need < InplaceFrom THEN AfterServe(v)
  ELSE IF v.pc \in DOMAIN Extending THEN AfterBegin(v)
  ELSE IF v.pc = "in_setup" THEN AfterSetup(v)
  ELSE IF v.pc = "in_loop" THEN AfterInplace(v)
  ELSE IF v.pc \in {"in_boot1", "in_boot2"} THEN AfterBootstrap(v)
  ELSE IF v.pc = "drain1" /\ v.need > v.upper - BaseNum THEN AfterWorstCase(v)
  ELSE AfterRest(v)

\* A view holds the end's variables.
LEMMA ViewFields ==
  ASSUME NEW p \in Ends
  PROVE  /\ View(p).pc = pc[p] /\ View(p).calls = calls[p]
         /\ View(p).isSetup = isSetup[p] /\ View(p).buf = buf[p]
         /\ View(p).used = used[p] /\ View(p).upper = upper[p]
         /\ View(p).out = out[p] /\ View(p).offset = offset[p]
         /\ View(p).need = need[p] /\ View(p).rounds = rounds[p]
         /\ View(p).seeds = seeds[p] /\ View(p).given = given[p]
BY DEF View, State

\* The k-th calls of both ends ask for the same.
LEMMA ViewCall ==
  ASSUME IInv, NEW p \in Ends, NEW n \in 1 .. MaxRequest, Call(p, n),
         calls[p] <= Len(requests)
  PROVE  /\ View(p)' = NextView(View(p), requests')
         /\ calls[p] < Len(requests') /\ calls'[p] <= Len(requests')
         /\ Len(requests) <= Len(requests')
         /\ \A i \in 1 .. Len(requests) : requests'[i] = requests[i]
<1>1. /\ requests \in Seq(1 .. MaxRequest) /\ calls[p] \in Nat
  BY DEF IInv, TypeOK
<1>2. /\ n = requests'[calls[p] + 1] /\ calls[p] < Len(requests')
      /\ Len(requests) <= Len(requests')
      /\ \A i \in 1 .. Len(requests) : requests'[i] = requests[i]
  <2>1. CASE calls[p] < Len(requests)
    BY <1>1, <2>1 DEF Call
  <2>2. CASE ~(calls[p] < Len(requests))
    <3>1. requests' = Append(requests, n) /\ calls[p] = Len(requests)
      BY <1>1, <2>2 DEF Call
    <3>2. QED
      BY <1>1, <3>1
  <2>3. QED
    BY <2>1, <2>2
<1>3. /\ pc[p] = "idle" /\ calls'[p] = calls[p] + 1
      /\ out'[p] = [i \in 1 .. n |-> Empty] /\ offset'[p] = 0 /\ need'[p] = n
      /\ rounds'[p] = 0 /\ pc'[p] = IF isSetup[p] THEN "loop" ELSE "setup"
      /\ UNCHANGED <<isSetup, buf, used, upper, seeds, given>>
  BY DEF Call, IInv, TypeOK
<1>4. View(p)' = AfterCall(View(p), n)
  BY <1>3, ViewFields DEF AfterCall, View
<1>5. NextView(View(p), requests') = AfterCall(View(p), n)
  BY <1>2, <1>3, ViewFields DEF NextView
<1>6. QED
  BY <1>1, <1>2, <1>3, <1>4, <1>5

\* An extension begins.
LEMMA ViewBegin ==
  ASSUME IInv, NEW p \in Ends, NEW rs, BeginExtension(p)
  PROVE  View(p)' = NextView(View(p), rs)
<1>1. /\ pc[p] \in {"setup", "loop", "boot1", "boot2"}
      /\ pc[p] = "loop" => need[p] >= InplaceFrom
      /\ pc'[p] = Extending[pc[p]]
      /\ seeds'[p] = Append(seeds[p], NextSeed(p))
      /\ UNCHANGED <<calls, isSetup, buf, used, upper, out, offset, need, rounds, given>>
  BY DEF BeginExtension, Extending, IInv, TypeOK
<1>2. NextSeed(p) = SeedFrom(pc[p], buf[p], out[p], offset[p], rounds[p])
  BY DEF NextSeed, SeedFrom
<1>3. View(p)' = AfterBegin(View(p))
  BY <1>1, <1>2, ViewFields DEF AfterBegin, View
<1>4. ~(pc[p] = "loop" /\ need[p] < InplaceFrom)
  BY <1>1, EndFacts, SizesAssumption
<1>5. pc[p] \in DOMAIN Extending /\ pc[p] # "idle"
  BY <1>1 DEF Extending
<1>6. NextView(View(p), rs) = AfterBegin(View(p))
  BY <1>4, <1>5, ViewFields DEF NextView
<1>7. QED
  BY <1>3, <1>6

\* The end of the setup.
LEMMA ViewSetup ==
  ASSUME IInv, NEW p \in Ends, NEW rs, EndSetup(p)
  PROVE  View(p)' = NextView(View(p), rs)
<1>1. /\ pc[p] = "in_setup" /\ pc'[p] = "loop" /\ isSetup'[p] = TRUE
      /\ buf'[p] = Overlay(buf[p], 0, Block(Len(seeds[p]), SetupNum))
      /\ used'[p] = BaseNum /\ upper'[p] = SetupNum
      /\ UNCHANGED <<calls, out, offset, need, rounds, seeds, given>>
  BY DEF EndSetup, Made, IInv, TypeOK
<1>2. View(p)' = AfterSetup(View(p))
  BY <1>1, ViewFields DEF AfterSetup, View
<1>3. NextView(View(p), rs) = AfterSetup(View(p))
  BY <1>1, ViewFields DEF NextView, Extending
<1>4. QED
  BY <1>2, <1>3

\* The end of an in-place round.
LEMMA ViewInplace ==
  ASSUME IInv, NEW p \in Ends, NEW rs, EndInplace(p)
  PROVE  View(p)' = NextView(View(p), rs)
<1>1. /\ pc[p] = "in_loop" /\ pc'[p] = "loop"
      /\ out'[p] = Overlay(out[p], offset[p], Block(Len(seeds[p]), VoleNum))
      /\ offset'[p] = offset[p] + (VoleNum - BaseNum)
      /\ need'[p] = need[p] - (VoleNum - BaseNum) /\ rounds'[p] = rounds[p] + 1
      /\ UNCHANGED <<calls, isSetup, buf, used, upper, seeds, given>>
  BY DEF EndInplace, Made, IInv, TypeOK
<1>2. View(p)' = AfterInplace(View(p))
  BY <1>1, ViewFields DEF AfterInplace, View
<1>3. NextView(View(p), rs) = AfterInplace(View(p))
  BY <1>1, ViewFields DEF NextView, Extending
<1>4. QED
  BY <1>2, <1>3

\* The end of a Bootstrap.
LEMMA ViewBootstrap ==
  ASSUME IInv, NEW p \in Ends, NEW rs, EndBootstrap(p)
  PROVE  View(p)' = NextView(View(p), rs)
<1>1. /\ pc[p] \in {"in_boot1", "in_boot2"}
      /\ pc'[p] = IF pc[p] = "in_boot1" THEN "drain1" ELSE "drain2"
      /\ buf'[p] = Overlay(buf[p], 0, Block(Len(seeds[p]), VoleNum))
      /\ used'[p] = BaseNum /\ upper'[p] = VoleNum
      /\ UNCHANGED <<calls, isSetup, out, offset, need, rounds, seeds, given>>
  BY DEF EndBootstrap, Made, IInv, TypeOK
<1>2. View(p)' = AfterBootstrap(View(p))
  BY <1>1, ViewFields DEF AfterBootstrap, View
<1>3. NextView(View(p), rs) = AfterBootstrap(View(p))
  BY <1>1, ViewFields DEF NextView, Extending
<1>4. QED
  BY <1>2, <1>3

\* The caller's span after a copy.
LEMMA CopiedOut ==
  ASSUME IInv, NEW p \in Ends, NEW s, NEW from, NEW n, CopyOut(p, s, from, n)
  PROVE  /\ out'[p] = CopiedTo(out[p], offset[p], s, from, n)
         /\ offset'[p] = offset[p] + n /\ need'[p] = need[p] - n
BY DEF CopyOut, CopiedTo, IInv, TypeOK

\* The first copy of a request.
LEMMA ViewServe ==
  ASSUME IInv, NEW p \in Ends, NEW rs, ServeFromBuffer(p)
  PROVE  View(p)' = NextView(View(p), rs)
<1> DEFINE n == Min2(upper[p] - used[p], need[p])
           b == Refreshed(p)
           o == CopiedTo(out[p], offset[p], b, used[p], n)
<1>1. /\ pc[p] = "loop" /\ need[p] < InplaceFrom
      /\ buf'[p] = b /\ used'[p] = used[p] + n
      /\ CopyOut(p, b, used[p], n)
      /\ pc'[p] = IF n < need[p] THEN "boot1" ELSE "idle"
      /\ UNCHANGED <<calls, isSetup, upper, rounds, seeds>>
  BY DEF ServeFromBuffer, IInv, TypeOK
<1>2. given'[p] = IF n < need[p] THEN given[p] ELSE given[p] \o out'[p]
  BY DEF ServeFromBuffer, Return, IInv, TypeOK
<1>3. b = RefreshedFrom(buf[p], out[p], offset[p], rounds[p])
  BY DEF Refreshed, RefreshedFrom
<1> HIDE DEF b, n
<1>4. out'[p] = o /\ offset'[p] = offset[p] + n /\ need'[p] = need[p] - n
  BY <1>1, CopiedOut
<1> HIDE DEF o
<1>5. View(p)' = State(IF n < need[p] THEN "boot1" ELSE "idle", calls[p], isSetup[p],
                       b, used[p] + n, upper[p], o, offset[p] + n, need[p] - n,
                       rounds[p], seeds[p],
                       IF n < need[p] THEN given[p] ELSE given[p] \o o)
  BY <1>1, <1>2, <1>4 DEF View
<1>6. View(p)' = AfterServe(View(p))
  BY <1>3, <1>5, ViewFields DEF AfterServe, n, o
<1>7. NextView(View(p), rs) = AfterServe(View(p))
  BY <1>1, ViewFields DEF NextView
<1>8. QED
  BY <1>6, <1>7

\* The copy before the second Bootstrap.
LEMMA ViewWorstCase ==
  ASSUME IInv, NEW p \in Ends, NEW rs, DrainWorstCase(p)
  PROVE  View(p)' = NextView(View(p), rs)
<1> DEFINE n == upper[p] - BaseNum
<1>1. /\ pc[p] = "drain1" /\ need[p] > n /\ pc'[p] = "boot2"
      /\ CopyOut(p, buf[p], used[p], n)
      /\ UNCHANGED <<calls, isSetup, buf, used, upper, rounds, seeds, given>>
  BY DEF DrainWorstCase, IInv, TypeOK
<1>2. /\ out'[p] = CopiedTo(out[p], offset[p], buf[p], used[p], n)
      /\ offset'[p] = offset[p] + n /\ need'[p] = need[p] - n
  BY <1>1, CopiedOut
<1>3. View(p)' = AfterWorstCase(View(p))
  BY <1>1, <1>2, ViewFields DEF AfterWorstCase, View
<1>4. NextView(View(p), rs) = AfterWorstCase(View(p))
  BY <1>1, ViewFields DEF NextView, Extending
<1>5. QED
  BY <1>3, <1>4

\* The last copy.
LEMMA ViewRest ==
  ASSUME IInv, NEW p \in Ends, NEW rs, DrainRest(p)
  PROVE  View(p)' = NextView(View(p), rs)
<1>1. /\ pc[p] \in {"drain1", "drain2"} /\ pc'[p] = "idle"
      /\ pc[p] = "drain1" => need[p] <= upper[p] - BaseNum
      /\ CopyOut(p, buf[p], used[p], need[p])
      /\ used'[p] = used[p] + need[p] /\ given'[p] = given[p] \o out'[p]
      /\ UNCHANGED <<calls, isSetup, buf, upper, rounds, seeds>>
  BY DEF DrainRest, Return, IInv, TypeOK
<1>2. /\ out'[p] = CopiedTo(out[p], offset[p], buf[p], used[p], need[p])
      /\ offset'[p] = offset[p] + need[p] /\ need'[p] = need[p] - need[p]
  BY <1>1, CopiedOut
<1>3. View(p)' = AfterRest(View(p))
  BY <1>1, <1>2, ViewFields DEF AfterRest, View
<1>4. ~(pc[p] = "drain1" /\ need[p] > upper[p] - BaseNum)
  BY <1>1, EndFacts, SizesAssumption
<1>5. NextView(View(p), rs) = AfterRest(View(p))
  BY <1>1, <1>4, ViewFields DEF NextView, Extending
<1>6. QED
  BY <1>3, <1>5

-----------------------------------------------------------------------------
\* The ends are at places of one path, each as far as it has come.

Called == \A p \in Ends : calls[p] <= Len(requests)

Older(v, w) == IsPrefix(v.seeds, w.seeds) /\ IsPrefix(v.given, w.given)

Typed(v) ==
  v.calls \in Nat /\ v.seeds \in Seq(Seq(Corr)) /\ v.given \in Seq(Corr)

\* A path of n steps through the requests rs.
IsPath(n, path, rs) ==
  /\ \A k \in 0 .. n - 1 :
       /\ path[k + 1] = NextView(path[k], rs)
       /\ path[k].pc = "idle" => path[k].calls < Len(rs)
  /\ \A k \in 0 .. n : Typed(path[k])
  /\ \A j, k \in 0 .. n : j <= k => Older(path[j], path[k])

OnPath(n, path) == \A p \in Ends : \E k \in 0 .. n : path[k] = View(p)

PathInv == \E n \in Nat : \E path : IsPath(n, path, requests) /\ OnPath(n, path)

\* What a view holds is typed.
LEMMA ViewTyped ==
  ASSUME IInv, NEW p \in Ends
  PROVE  Typed(View(p))
BY BoundsAssumption, ViewFields DEF Typed, IInv, TypeOK

\* It is after every step too.
LEMMA ViewTypedNext == IInv' => (\A p \in Ends : Typed(View(p)))'
<1>1. IInv => \A p \in Ends : Typed(View(p))
  BY ViewTyped
<1>2. QED
  BY <1>1, PTL

\* Every step is the next one of its end, and the requests only grow.
LEMMA ActsView ==
  ASSUME IInv, Called, NEW p \in Ends, Acts(p)
  PROVE  /\ View(p)' = NextView(View(p), requests')
         /\ View(p).pc = "idle" => View(p).calls < Len(requests')
         /\ Len(requests) \in Nat /\ Len(requests') \in Nat
         /\ Len(requests) <= Len(requests') /\ calls'[p] <= Len(requests')
         /\ \A i \in 1 .. Len(requests) : requests'[i] = requests[i]
<1>1. Len(requests) \in Nat /\ Len(requests') \in Nat /\ calls[p] <= Len(requests)
  BY NextIInv DEF IInv, TypeOK, Called, Acts, Next
<1>2. ASSUME NEW n \in 1 .. MaxRequest, Call(p, n)
      PROVE  /\ View(p)' = NextView(View(p), requests')
             /\ View(p).calls < Len(requests')
             /\ Len(requests) <= Len(requests') /\ calls'[p] <= Len(requests')
             /\ \A i \in 1 .. Len(requests) : requests'[i] = requests[i]
  BY <1>1, <1>2, ViewCall, ViewFields
<1>3. ASSUME Step(p)
      PROVE  /\ View(p)' = NextView(View(p), requests') /\ View(p).pc # "idle"
             /\ requests' = requests /\ calls' = calls
  <2>1. pc[p] # "idle" /\ requests' = requests /\ calls' = calls
    BY <1>3 DEF Step, BeginExtension, Extending, EndSetup, EndInplace,
       ServeFromBuffer, EndBootstrap, DrainWorstCase, DrainRest
  <2>2. View(p)' = NextView(View(p), requests')
    BY <1>3, ViewBegin, ViewSetup, ViewInplace, ViewServe, ViewBootstrap,
       ViewWorstCase, ViewRest DEF Step
  <2>3. QED
    BY <2>1, <2>2, ViewFields
<1>4. QED
  BY <1>1, <1>2, <1>3 DEF Acts

\* A view knows all there is of an end.
LEMMA PeerView ==
  ASSUME IInv, NEW p \in Ends, NEW q \in Ends, q # p, Acts(p)
  PROVE  View(q)' = View(q) /\ calls'[q] = calls[q]
<1>1. calls'[q] = calls[q] /\ need'[q] = need[q]
  BY DEF Acts, Step, Call, BeginExtension, EndSetup, EndInplace, ServeFromBuffer,
     EndBootstrap, DrainWorstCase, DrainRest, CopyOut, IInv, TypeOK
<1>2. QED
  BY <1>1, PeerFrame DEF Acts, View

\* An end's histories only grow.
LEMMA ActsOlder ==
  ASSUME IInv, NEW p \in Ends, Acts(p)
  PROVE  Older(View(p), View(p)')
<1>1. seeds[p] \in Seq(Seq(Corr)) /\ given[p] \in Seq(Corr)
  BY DEF IInv, TypeOK
<1>2. IsPrefix(seeds[p], seeds'[p])
  <2>1. CASE BeginExtension(p)
    <3>1. seeds'[p] = Append(seeds[p], NextSeed(p)) /\ NextSeed(p) \in Seq(Corr)
      BY <2>1, NextSeedType DEF BeginExtension, IInv, TypeOK
    <3>2. QED
      BY <1>1, <3>1, PrefixAppend
  <2>2. CASE ~BeginExtension(p)
    <3>1. seeds' = seeds
      BY <2>2 DEF Acts, Step, Call, EndSetup, EndInplace, ServeFromBuffer,
         EndBootstrap, DrainWorstCase, DrainRest
    <3>2. QED
      BY <1>1, <3>1, PrefixReflexive
  <2>3. QED
    BY <2>1, <2>2
<1>3. IsPrefix(given[p], given'[p])
  <2>1. CASE Return(p)
    <3>1. given'[p] = given[p] \o out'[p]
      BY <2>1 DEF Return, IInv, TypeOK
    <3>2. out'[p] \in Seq(Corr)
      BY NextIInv DEF IInv, TypeOK, Acts, Next
    <3>3. QED
      BY <1>1, <3>1, <3>2, PrefixConcat
  <2>2. CASE ~Return(p)
    <3>1. given' = given
      BY <2>2 DEF Acts, Step, Call, BeginExtension, EndSetup, EndInplace,
         ServeFromBuffer, EndBootstrap, DrainWorstCase, DrainRest
    <3>2. QED
      BY <1>1, <3>1, PrefixReflexive
  <2>3. QED
    BY <2>1, <2>2
<1>4. View(p)'.seeds = seeds'[p] /\ View(p)'.given = given'[p]
  BY DEF View, State
<1>5. QED
  BY <1>2, <1>3, <1>4, ViewFields DEF Older

\* Requests that grow keep the paths through them.
LEMMA PathKept ==
  ASSUME IInv, Called, NEW p \in Ends, Acts(p), NEW n \in Nat, NEW path,
         IsPath(n, path, requests)
  PROVE  IsPath(n, path, requests')
<1>1. ASSUME NEW k \in 0 .. n - 1
      PROVE  /\ path[k + 1] = NextView(path[k], requests')
             /\ path[k].pc = "idle" => path[k].calls < Len(requests')
  <2>1. /\ path[k + 1] = NextView(path[k], requests) /\ path[k].calls \in Nat
        /\ path[k].pc = "idle" => path[k].calls < Len(requests)
    BY DEF IsPath, Typed
  <2>2. path[k].pc = "idle" =>
          /\ path[k].calls < Len(requests')
          /\ requests'[path[k].calls + 1] = requests[path[k].calls + 1]
    BY <2>1, ActsView
  <2>3. NextView(path[k], requests') = NextView(path[k], requests)
    BY <2>2 DEF NextView
  <2>4. QED
    BY <2>1, <2>2, <2>3
<1>2. QED
  BY <1>1 DEF IsPath

\* Being as far or farther is transitive.
LEMMA OlderTransitive ==
  ASSUME NEW u, NEW v, NEW w, Typed(u), Typed(v), Typed(w), Older(u, v), Older(v, w)
  PROVE  Older(u, w)
<1>1. IsPrefix(u.seeds, w.seeds)
  BY PrefixTransitive DEF Older, Typed
<1>2. IsPrefix(u.given, w.given)
  BY PrefixTransitive DEF Older, Typed
<1>3. QED
  BY <1>1, <1>2 DEF Older

\* And reflexive.
LEMMA OlderReflexive ==
  ASSUME NEW v, Typed(v)
  PROVE  Older(v, v)
BY PrefixReflexive DEF Older, Typed

\* A path goes on by one step of an end at its end.
LEMMA PathExtended ==
  ASSUME NEW n \in Nat, NEW path, NEW rs, NEW w, IsPath(n, path, rs),
         w = NextView(path[n], rs), path[n].pc = "idle" => path[n].calls < Len(rs),
         Typed(w), Older(path[n], w)
  PROVE  IsPath(n + 1, [k \in 0 .. n + 1 |-> IF k <= n THEN path[k] ELSE w], rs)
<1> DEFINE new == [k \in 0 .. n + 1 |-> IF k <= n THEN path[k] ELSE w]
<1>1. (\A k \in 0 .. n : new[k] = path[k]) /\ new[n + 1] = w
  OBVIOUS
<1> HIDE DEF new
<1>2. ASSUME NEW k \in 0 .. n
      PROVE  /\ new[k + 1] = NextView(new[k], rs)
             /\ new[k].pc = "idle" => new[k].calls < Len(rs)
  <2>1. CASE k = n
    BY <1>1, <2>1
  <2>2. CASE k # n
    <3>1. k \in 0 .. n - 1 /\ k + 1 \in 0 .. n
      BY <2>2
    <3>2. QED
      BY <1>1, <3>1 DEF IsPath
  <2>3. QED
    BY <2>1, <2>2
<1>3. ASSUME NEW k \in 0 .. n + 1
      PROVE  Typed(new[k])
  <2>1. CASE k = n + 1
    BY <1>1, <2>1
  <2>2. CASE k # n + 1
    <3>1. k \in 0 .. n
      BY <2>2
    <3>2. QED
      BY <1>1, <3>1 DEF IsPath
  <2>3. QED
    BY <2>1, <2>2
<1>4. ASSUME NEW j \in 0 .. n + 1, NEW k \in 0 .. n + 1, j <= k
      PROVE  Older(new[j], new[k])
  <2>1. CASE j = n + 1
    <3>1. k = n + 1
      BY <1>4, <2>1
    <3>2. QED
      BY <1>1, <2>1, <3>1, OlderReflexive
  <2>2. CASE j # n + 1 /\ k = n + 1
    <3>1. j \in 0 .. n /\ n \in 0 .. n /\ j <= n
      BY <2>2
    <3>2. Older(path[j], path[n]) /\ Typed(path[j]) /\ Typed(path[n])
      BY <3>1 DEF IsPath
    <3>3. Older(path[j], w)
      BY <3>2, OlderTransitive
    <3>4. QED
      BY <1>1, <2>2, <3>1, <3>3
  <2>3. CASE j # n + 1 /\ k # n + 1
    <3>1. j \in 0 .. n /\ k \in 0 .. n
      BY <2>3
    <3>2. QED
      BY <1>1, <1>4, <3>1 DEF IsPath
  <2>4. QED
    BY <2>1, <2>2, <2>3
<1>5. IsPath(n + 1, new, rs)
  <2>1. \A k \in 0 .. (n + 1) - 1 :
          /\ new[k + 1] = NextView(new[k], rs)
          /\ new[k].pc = "idle" => new[k].calls < Len(rs)
    BY <1>2
  <2>2. QED
    BY <1>3, <1>4, <2>1 DEF IsPath
<1>6. QED
  BY <1>5 DEF new

\* Both ends start at the beginning of a path without steps.
LEMMA InitPath == Init => PathInv
<1> SUFFICES ASSUME Init
             PROVE  PathInv
  OBVIOUS
<1>1. IInv
  BY InitIInv
<1>2. PICK v : v = View("sender")
  OBVIOUS
<1>3. \A p \in Ends : View(p) = v
  BY <1>2 DEF Init, View, Ends
<1>4. Typed(v) /\ Older(v, v)
  BY <1>1, <1>2, ViewTyped, OlderReflexive DEF Ends
<1> DEFINE path == [k \in {0} |-> v]
<1>5. path[0] = v
  OBVIOUS
<1> HIDE DEF path
<1>6. IsPath(0, path, requests)
  <2>1. 0 .. 0 - 1 = {} /\ \A k \in 0 .. 0 : k = 0
    OBVIOUS
  <2>2. QED
    BY <1>4, <1>5, <2>1 DEF IsPath
<1>7. OnPath(0, path)
  BY <1>3, <1>5 DEF OnPath
<1>8. QED
  BY <1>6, <1>7 DEF PathInv

\* An end inside the path follows it, an end at its last place prolongs it.
LEMMA ActsPath ==
  ASSUME IInv, IInv', Called, PathInv, NEW p \in Ends, Acts(p)
  PROVE  PathInv'
<1>1. PICK n \in Nat : \E path : IsPath(n, path, requests) /\ OnPath(n, path)
  BY DEF PathInv
<1>2. PICK path : IsPath(n, path, requests) /\ OnPath(n, path)
  BY <1>1
<1>3. PICK k \in 0 .. n : path[k] = View(p)
  BY <1>2 DEF OnPath
<1>4. PICK w : w = View(p)'
  OBVIOUS
<1>5. IsPath(n, path, requests')
  BY <1>2, PathKept
<1>6. /\ w = NextView(path[k], requests') /\ Older(path[k], w)
      /\ path[k].pc = "idle" => path[k].calls < Len(requests')
  BY <1>3, <1>4, ActsView, ActsOlder
<1>7. Typed(w)
  BY <1>4, ViewTypedNext
<1>8. ASSUME NEW q \in Ends \ {p}
      PROVE  \E j \in 0 .. n : path[j] = View(q)'
  BY <1>2, PeerView DEF OnPath
<1>9. CASE k < n
  <2>1. k \in 0 .. n - 1 /\ k + 1 \in 0 .. n
    BY <1>9
  <2>2. path[k + 1] = w
    BY <1>5, <1>6, <2>1 DEF IsPath
  <2>3. OnPath(n, path)'
    BY <1>4, <1>8, <2>1, <2>2 DEF OnPath
  <2>4. QED
    BY <1>5, <2>3 DEF PathInv
<1>10. CASE k = n
  <2> DEFINE new == [j \in 0 .. n + 1 |-> IF j <= n THEN path[j] ELSE w]
  <2>1. IsPath(n + 1, new, requests')
    BY <1>5, <1>6, <1>7, <1>10, PathExtended
  <2>2. /\ \A j \in 0 .. n : new[j] = path[j] /\ j \in 0 .. n + 1
        /\ new[n + 1] = w /\ n + 1 \in 0 .. n + 1
    OBVIOUS
  <2> HIDE DEF new
  <2>3. OnPath(n + 1, new)'
    BY <1>4, <1>8, <2>2 DEF OnPath
  <2>4. n + 1 \in Nat
    OBVIOUS
  <2>5. QED
    BY <2>1, <2>3, <2>4 DEF PathInv
<1>11. QED
  BY <1>9, <1>10

-----------------------------------------------------------------------------
\* Theorems.

BInv == IInv /\ (\A p \in Ends : OnceInv(p)) /\ Called /\ PathInv

\* All of it holds at the start.
LEMMA InitBInv == Init => BInv
<1>1. Init => Called
  BY DEF Init, Called
<1>2. QED
  BY <1>1, InitIInv, InitOnce, InitPath DEF BInv

\* Every step keeps all of it.
LEMMA NextBInv == BInv /\ [Next]_vars => BInv'
<1> SUFFICES ASSUME BInv, [Next]_vars
             PROVE  BInv'
  OBVIOUS
<1>1. IInv' /\ (\A p \in Ends : OnceInv(p)')
  BY NextIInv, NextOnce DEF BInv
<1>2. CASE UNCHANGED vars
  <2>1. requests' = requests /\ calls' = calls /\ \A p \in Ends : View(p)' = View(p)
    BY <1>2 DEF vars, View
  <2>2. \A n, path : OnPath(n, path)' <=> OnPath(n, path)
    BY <2>1 DEF OnPath
  <2>3. PathInv' /\ Called'
    BY <2>1, <2>2 DEF BInv, PathInv, Called
  <2>4. QED
    BY <1>1, <2>3 DEF BInv
<1>3. ASSUME NEW p \in Ends, Acts(p)
      PROVE  BInv'
  <2>1. PathInv'
    BY <1>1, <1>3, ActsPath DEF BInv
  <2>2. ASSUME NEW q \in Ends
        PROVE  calls'[q] <= Len(requests')
    <3>1. /\ calls'[p] <= Len(requests') /\ Len(requests) <= Len(requests')
          /\ Len(requests) \in Nat /\ Len(requests') \in Nat
      BY <1>3, ActsView DEF BInv
    <3>2. calls[q] <= Len(requests) /\ calls[q] \in Nat
      BY BoundsAssumption DEF BInv, Called, IInv, TypeOK
    <3>3. q # p => calls'[q] = calls[q]
      BY <1>3, PeerView DEF BInv
    <3>4. QED
      BY <3>1, <3>2, <3>3
  <2>3. QED
    BY <1>1, <2>1, <2>2 DEF BInv, Called
<1>4. QED
  BY <1>2, <1>3 DEF Next, Finished, Acts

\* So it always holds.
LEMMA AlwaysBInv == Spec => []BInv
BY InitBInv, NextBInv, PTL DEF Spec

\* One of the ends is as far as the other or behind it.
LEMMA OneIsOlder ==
  ASSUME PathInv, NEW p \in Ends, NEW q \in Ends
  PROVE  Older(View(p), View(q)) \/ Older(View(q), View(p))
<1>1. PICK n \in Nat : \E path : IsPath(n, path, requests) /\ OnPath(n, path)
  BY DEF PathInv
<1>2. PICK path : IsPath(n, path, requests) /\ OnPath(n, path)
  BY <1>1
<1>3. PICK j \in 0 .. n : path[j] = View(p)
  BY <1>2 DEF OnPath
<1>4. PICK k \in 0 .. n : path[k] = View(q)
  BY <1>2 DEF OnPath
<1>5. j <= k \/ k <= j
  OBVIOUS
<1>6. QED
  BY <1>2, <1>3, <1>4, <1>5 DEF IsPath

\* It is so after every step too.
LEMMA OneIsOlderNext ==
  PathInv' => (\A p, q \in Ends : Older(View(p), View(q)) \/ Older(View(q), View(p)))'
<1>1. PathInv => \A p, q \in Ends : Older(View(p), View(q)) \/ Older(View(q), View(p))
  BY OneIsOlder
<1>2. QED
  BY <1>1, PTL

\* The two ends run every extension from the same seed, however far one is
\* ahead of the other.
THEOREM SameSeeds == Spec => []SeedsPaired
<1>1. BInv => SeedsPaired
  <2> SUFFICES ASSUME BInv,
                      NEW e \in DOMAIN seeds["sender"] \cap DOMAIN seeds["receiver"]
               PROVE  seeds["sender"][e] = seeds["receiver"][e]
    BY DEF SeedsPaired
  <2> DEFINE s == seeds["sender"]
             r == seeds["receiver"]
  <2>1. s \in Seq(Seq(Corr)) /\ r \in Seq(Seq(Corr))
    BY DEF BInv, IInv, TypeOK, Ends
  <2>2. IsPrefix(s, r) \/ IsPrefix(r, s)
    BY OneIsOlder, ViewFields DEF BInv, Ends, Older
  <2>3. e \in 1 .. Len(s) /\ e \in 1 .. Len(r)
    BY <2>1
  <2> HIDE DEF s, r
  <2>4. s[e] = r[e]
    BY <2>1, <2>2, <2>3, PrefixElements
  <2>5. QED
    BY <2>4 DEF s, r
<1>2. QED
  BY <1>1, AlwaysBInv, PTL

\* Each end is handed a stream of correlations: none twice, no slot that was
\* never written, and its k-th belongs to the k-th of its peer.
THEOREM OneStream == Spec => StreamSpec
<1>1. Init => Stream!Init
  BY DEF Init, Stream!Init, Stream!Start
<1>2. BInv /\ BInv' /\ [Next]_vars => [Stream!Next]_given
  <2> SUFFICES ASSUME BInv, BInv', NEW p \in Ends, Acts(p), given' # given
               PROVE  Stream!Delivery(given, given', p)
    BY DEF Next, Finished, vars, Acts, Stream!Next, Stream!Deliver
  <2>1. /\ given \in [Ends -> Seq(Corr)] /\ given' \in [Ends -> Seq(Corr)]
        /\ \A q \in Ends \ {p} : given'[q] = given[q]
    BY PeerFrame DEF BInv, IInv, TypeOK, Acts
  <2>2. IsStrictPrefix(given[p], given'[p])
    <3>1. IsPrefix(given[p], given'[p])
      <4>1. View(p)'.given = given'[p]
        BY DEF View, State
      <4>2. QED
        BY <4>1, ActsOlder, ViewFields DEF BInv, Older
    <3>2. given'[p] # given[p]
      BY <2>1
    <3>3. QED
      BY <3>1, <3>2 DEF IsStrictPrefix
  <2>3. IsInjective(given'[p]) /\ Empty \notin Range(given'[p])
    <3>1. OnceInv(p)'
      BY DEF BInv
    <3>2. IsInjective(given'[p]) /\ Range(given'[p]) \subseteq UpTo(Finishing(p)')
      BY <3>1 DEF OnceInv, Distinct, IsInjective, Range, UpTo
    <3>3. \A x \in UpTo(Finishing(p)') : 0 < x[1]
      BY DEF UpTo
    <3>4. Empty[1] = 0
      BY DEF Empty
    <3>5. QED
      BY <3>2, <3>3, <3>4
  <2>4. ASSUME NEW q \in Ends \ {p}
        PROVE  given'[q] = given[q] /\ Stream!Agree(given'[p], given[q])
    <3>1. Older(View(p)', View(q)') \/ Older(View(q)', View(p)')
      BY OneIsOlderNext DEF BInv, Older
    <3>2. View(p)'.given = given'[p] /\ View(q)'.given = given'[q]
      BY DEF View, State
    <3>3. IsPrefix(given'[p], given'[q]) \/ IsPrefix(given'[q], given'[p])
      BY <3>1, <3>2 DEF Older
    <3>4. QED
      BY <2>1, <3>3 DEF Stream!Agree, Stream!IsPrefix, IsPrefix
  <2>5. QED
    BY <2>2, <2>3, <2>4 DEF Stream!Delivery, Stream!IsStrictPrefix,
       Stream!IsPrefix, Stream!IsInjective, Stream!Range, IsStrictPrefix,
       IsPrefix, IsInjective, Range
<1>3. QED
  BY <1>1, <1>2, AlwaysBInv, PTL DEF Spec, StreamSpec, Stream!Spec
=============================================================================
