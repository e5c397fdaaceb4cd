-------------------------- MODULE ExtensionBuffer --------------------------
(***************************************************************************)
(* The buffered correlation adapter of mosac/cr/utils/vole_adapter.cc      *)
(* (WolverineVoleAdapter), run by its two ends: rsend on the sender, rrecv *)
(* on the receiver.  Both ends keep a buffer of VoleNum correlations.  The *)
(* first BaseNum of them are the reserve: the seed of the next extension.  *)
(* A caller's request is served                                            *)
(*   - in place, by extensions that write straight into the caller's span, *)
(*     while the request is larger than one extension;                     *)
(*   - from what the buffer has left;                                      *)
(*   - from the buffer again after one Bootstrap, or two (worst case).     *)
(*                                                                         *)
(* A correlation is named by the extension that made it and its position   *)
(* there: <<e, i>> at the sender and <<e, i>> at the receiver are the two  *)
(* halves of one correlation provided the two ends ran extension e from    *)
(* the same seed.  The field elements themselves are abstracted away.      *)
(***************************************************************************)
EXTENDS Integers, Sequences, FiniteSets

CONSTANTS
  BaseNum,        \* base_vole_num_: size of the reserve, seed of an extension
  VoleNum,        \* vole_num_: outputs of an extension, size of the buffer
  SetupNum,       \* setup_param.vole_num_: outputs of the first extension
  InplaceFrom,    \* the smallest request that starts an in-place round
  RefreshReserve, \* whether in-place rounds leave a new reserve in the buffer
  MaxRequest,     \* bound: the largest request of a caller
  MaxCalls        \* bound: the number of requests

ASSUME SizesAssumption ==
  /\ BaseNum \in Nat \ {0}
  /\ VoleNum \in Nat /\ 2 * BaseNum <= VoleNum
  /\ SetupNum \in BaseNum .. VoleNum
  /\ InplaceFrom \in VoleNum .. VoleNum + 1
  /\ RefreshReserve \in BOOLEAN
ASSUME BoundsAssumption ==
  /\ MaxRequest \in Nat \ {0}
  /\ MaxCalls \in Nat

VARIABLES
  requests,   \* the sizes asked for so far: both ends run the same program
  pc,         \* where an end is inside rsend / rrecv
  calls,      \* how many of the requests an end has started
  isSetup,    \* is_setup_
  buf,        \* c_ at the sender, (a_, b_) at the receiver
  used,       \* buff_used_num_
  upper,      \* buff_upper_bound_
  out,        \* the caller's span
  offset,     \* data_offset
  need,       \* require_num
  rounds,     \* bootstrap_inplace_counter
  seeds,      \* history: the seed of every extension an end has begun
  given       \* history: what finished requests have handed to the caller

vars == <<requests, pc, calls, isSetup, buf, used, upper, out, offset, need,
          rounds, seeds, given>>

Ends == {"sender", "receiver"}
Peer(p) == IF p = "sender" THEN "receiver" ELSE "sender"

\* A correlation: the extension that made it, and its position there.
Corr == Nat \X Nat

\* A slot nothing has been written to yet (the buffers are created zeroed).
Empty == <<0, 0>>

\* The correlations extension e makes, n of them, in order.
Block(e, n) == [i \in 1 .. n |-> <<e, i>>]

\* The outputs of the base VOLE (OtHelper::BaseVoleSend / BaseVoleRecv).  The
\* code makes setup_param.base_vole_num_ of them, its own number: they are
\* spent at setup, and nothing depends on how many there were.
BaseVole == [i \in 1 .. BaseNum |-> <<0, i>>]

\* s with the elements of t copied over it from position at + 1 on (memcpy).
Overlay(s, at, t) ==
  [i \in DOMAIN s |-> IF i - at \in DOMAIN t THEN t[i - at] ELSE s[i]]

\* Variants named Wrong* are mistakes an edit of the adapter could make; each
\* is what some property below is there to reject, and no action uses them.

\* std::min forgotten: the buffer's rest is taken as it is.
WrongMin2(a, b) == a

Min2(a, b) == IF a <= b THEN a ELSE b

-----------------------------------------------------------------------------

Init ==
  /\ requests = <<>>
  /\ pc = [p \in Ends |-> "idle"]
  /\ calls = [p \in Ends |-> 0]
  /\ isSetup = [p \in Ends |-> FALSE]
  /\ buf = [p \in Ends |-> [i \in 1 .. VoleNum |-> Empty]]
  /\ used = [p \in Ends |-> 0]
  /\ upper = [p \in Ends |-> 0]
  /\ out = [p \in Ends |-> <<>>]
  /\ offset = [p \in Ends |-> 0]
  /\ need = [p \in Ends |-> 0]
  /\ rounds = [p \in Ends |-> 0]
  /\ seeds = [p \in Ends |-> <<>>]
  /\ given = [p \in Ends |-> <<>>]

\* A caller of end p asks for n correlations.  Both parties run the same
\* program, so the k-th requests of the two ends have the same size.
Call(p, n) ==
  /\ pc[p] = "idle"
  /\ calls[p] < MaxCalls
  /\ IF calls[p] < Len(requests)
       THEN n = requests[calls[p] + 1] /\ UNCHANGED requests
       ELSE requests' = Append(requests, n)
  /\ calls' = [calls EXCEPT ![p] = @ + 1]
  /\ out' = [out EXCEPT ![p] = [i \in 1 .. n |-> Empty]]
  /\ offset' = [offset EXCEPT ![p] = 0]
  /\ need' = [need EXCEPT ![p] = n]
  /\ rounds' = [rounds EXCEPT ![p] = 0]
  /\ pc' = [pc EXCEPT ![p] = IF isSetup[p] THEN "loop" ELSE "setup"]
  /\ UNCHANGED <<isSetup, buf, used, upper, seeds, given>>

\* The receiver does not move its span on between in-place rounds.
WrongNextSeed(p) ==
  IF pc[p] = "setup" THEN BaseVole
  ELSE IF pc[p] = "loop" /\ rounds[p] > 0 /\ p = "sender"
    THEN SubSeq(out[p], offset[p] + 1, offset[p] + BaseNum)
    ELSE SubSeq(buf[p], 1, BaseNum)

\* The correlations end p feeds to its next extension: the base VOLE at
\* setup, then the front of the buffer, and between in-place rounds the tail
\* of the previous round's output, which lies in the caller's span.
NextSeed(p) ==
  IF pc[p] = "setup" THEN BaseVole
  ELSE IF pc[p] = "loop" /\ rounds[p] > 0
    THEN SubSeq(out[p], offset[p] + 1, offset[p] + BaseNum)
    ELSE SubSeq(buf[p], 1, BaseNum)

\* End p begins an extension (WolverineVoleSend / WolverineVoleRecv): at
\* setup, for an in-place round, or in the first or second Bootstrap.
Extending == [setup |-> "in_setup", loop |-> "in_loop",
              boot1 |-> "in_boot1", boot2 |-> "in_boot2"]

BeginExtension(p) ==
  /\ pc[p] \in DOMAIN Extending
  /\ pc[p] = "loop" => need[p] >= InplaceFrom
  /\ seeds' = [seeds EXCEPT ![p] = Append(@, NextSeed(p))]
  /\ pc' = [pc EXCEPT ![p] = Extending[pc[p]]]
  /\ UNCHANGED <<requests, calls, isSetup, buf, used, upper, out, offset, need,
                 rounds, given>>

\* Each end waits until the peer is one extension ahead.
WrongPeerIsIn(p) == Len(seeds[Peer(p)]) > Len(seeds[p])

\* An extension is interactive: its last step is an exchange of seeds
\* (SyncSeed, where WolverineVoleSend and WolverineVoleRecv end), so no end
\* returns from extension e before the other has entered it.
PeerIsIn(p) == Len(seeds[Peer(p)]) >= Len(seeds[p])

Made(p, n) == Block(Len(seeds[p]), n)

\* OneTimeSetup starts to serve from the reserve.
WrongEndSetup(p) ==
  /\ pc[p] = "in_setup" /\ PeerIsIn(p)
  /\ buf' = [buf EXCEPT ![p] = Overlay(@, 0, Made(p, SetupNum))]
  /\ used' = [used EXCEPT ![p] = 0]
  /\ upper' = [upper EXCEPT ![p] = SetupNum]
  /\ isSetup' = [isSetup EXCEPT ![p] = TRUE]
  /\ pc' = [pc EXCEPT ![p] = "loop"]
  /\ UNCHANGED <<requests, calls, out, offset, need, rounds, seeds, given>>

\* OneTimeSetup returns: the buffer holds SetupNum correlations.
EndSetup(p) ==
  /\ pc[p] = "in_setup" /\ PeerIsIn(p)
  /\ buf' = [buf EXCEPT ![p] = Overlay(@, 0, Made(p, SetupNum))]
  /\ used' = [used EXCEPT ![p] = BaseNum]
  /\ upper' = [upper EXCEPT ![p] = SetupNum]
  /\ isSetup' = [isSetup EXCEPT ![p] = TRUE]
  /\ pc' = [pc EXCEPT ![p] = "loop"]
  /\ UNCHANGED <<requests, calls, out, offset, need, rounds, seeds, given>>

\* An in-place round returns: VoleNum correlations lie in the caller's span,
\* the last BaseNum of them are kept back for the next round.
EndInplace(p) ==
  /\ pc[p] = "in_loop" /\ PeerIsIn(p)
  /\ out' = [out EXCEPT ![p] = Overlay(@, offset[p], Made(p, VoleNum))]
  /\ offset' = [offset EXCEPT ![p] = @ + (VoleNum - BaseNum)]
  /\ need' = [need EXCEPT ![p] = @ - (VoleNum - BaseNum)]
  /\ rounds' = [rounds EXCEPT ![p] = @ + 1]
  /\ pc' = [pc EXCEPT ![p] = "loop"]
  /\ UNCHANGED <<requests, calls, isSetup, buf, used, upper, seeds, given>>

\* Copies n correlations from position from + 1 of s to the caller's span.
CopyOut(p, s, from, n) ==
  /\ out' = [out EXCEPT ![p] =
               Overlay(@, offset[p], [i \in 1 .. n |-> s[from + i]])]
  /\ offset' = [offset EXCEPT ![p] = @ + n]
  /\ need' = [need EXCEPT ![p] = @ - n]

\* The call returns when nothing is needed any more.
Return(p) == given' = [given EXCEPT ![p] = @ \o out'[p]]

\* The reserve is not refreshed after the in-place rounds.
WrongRefreshed(p) == buf[p]

\* The buffer after the in-place rounds: its reserve is replaced by the
\* correlations the last of them kept back.
Refreshed(p) ==
  IF rounds[p] > 0 /\ RefreshReserve
    THEN Overlay(buf[p], 0, SubSeq(out[p], offset[p] + 1, offset[p] + BaseNum))
    ELSE buf[p]

\* The in-place rounds are over: the request is served from what the buffer
\* has left.
ServeFromBuffer(p) ==
  LET n == Min2(upper[p] - used[p], need[p])
  IN /\ pc[p] = "loop" /\ need[p] < InplaceFrom
     /\ buf' = [buf EXCEPT ![p] = Refreshed(p)]
     /\ CopyOut(p, Refreshed(p), used[p], n)
     /\ used' = [used EXCEPT ![p] = @ + n]
     /\ IF n < need[p]
          THEN /\ pc' = [pc EXCEPT ![p] = "boot1"]
               /\ UNCHANGED given
          ELSE /\ pc' = [pc EXCEPT ![p] = "idle"]
               /\ Return(p)
     /\ UNCHANGED <<requests, calls, isSetup, upper, rounds, seeds>>

\* Bootstrap takes the reserve to be one correlation longer than it is.
WrongEndBootstrap(p) ==
  /\ pc[p] \in {"in_boot1", "in_boot2"} /\ PeerIsIn(p)
  /\ buf' = [buf EXCEPT ![p] = Overlay(@, 0, Made(p, VoleNum))]
  /\ used' = [used EXCEPT ![p] = BaseNum + 1]
  /\ upper' = [upper EXCEPT ![p] = VoleNum]
  /\ pc' = [pc EXCEPT ![p] = IF @ = "in_boot1" THEN "drain1" ELSE "drain2"]
  /\ UNCHANGED <<requests, calls, isSetup, out, offset, need, rounds, seeds,
                 given>>

\* Bootstrap returns: the buffer is full again.
EndBootstrap(p) ==
  /\ pc[p] \in {"in_boot1", "in_boot2"} /\ PeerIsIn(p)
  /\ buf' = [buf EXCEPT ![p] = Overlay(@, 0, Made(p, VoleNum))]
  /\ used' = [used EXCEPT ![p] = BaseNum]
  /\ upper' = [upper EXCEPT ![p] = VoleNum]
  /\ pc' = [pc EXCEPT ![p] = IF @ = "in_boot1" THEN "drain1" ELSE "drain2"]
  /\ UNCHANGED <<requests, calls, isSetup, out, offset, need, rounds, seeds,
                 given>>

\* Worst case: the request needs more than the whole buffer after the first
\* Bootstrap, which is emptied before a second one.
DrainWorstCase(p) ==
  /\ pc[p] = "drain1" /\ need[p] > upper[p] - BaseNum
  /\ CopyOut(p, buf[p], used[p], upper[p] - BaseNum)
  /\ pc' = [pc EXCEPT ![p] = "boot2"]
  /\ UNCHANGED <<requests, calls, isSetup, buf, used, upper, rounds, seeds,
                 given>>

\* The last copy does not move buff_used_num_.
WrongDrainRest(p) ==
  /\ \/ pc[p] = "drain1" /\ need[p] <= upper[p] - BaseNum
     \/ pc[p] = "drain2"
  /\ CopyOut(p, buf[p], used[p], need[p])
  /\ pc' = [pc EXCEPT ![p] = "idle"]
  /\ Return(p)
  /\ UNCHANGED <<requests, calls, isSetup, buf, used, upper, rounds, seeds>>

\* The rest of the request comes from the buffer, without a further check.
DrainRest(p) ==
  /\ \/ pc[p] = "drain1" /\ need[p] <= upper[p] - BaseNum
     \/ pc[p] = "drain2"
  /\ CopyOut(p, buf[p], used[p], need[p])
  /\ used' = [used EXCEPT ![p] = @ + need[p]]
  /\ pc' = [pc EXCEPT ![p] = "idle"]
  /\ Return(p)
  /\ UNCHANGED <<requests, calls, isSetup, buf, upper, rounds, seeds>>

Step(p) ==
  \/ BeginExtension(p)
  \/ EndSetup(p)
  \/ EndInplace(p)
  \/ ServeFromBuffer(p)
  \/ EndBootstrap(p)
  \/ DrainWorstCase(p)
  \/ DrainRest(p)

\* The program is over: the two ends have run all their requests.
Finished ==
  /\ \A p \in Ends : pc[p] = "idle" /\ calls[p] = MaxCalls
  /\ UNCHANGED vars

Next ==
  \/ Finished
  \/ \E p \in Ends, n \in 1 .. MaxRequest : Call(p, n)
  \/ \E p \in Ends : Step(p)

Spec == Init /\ [][Next]_vars

\* Both ends run to completion once called, and the second end does call.
Fairness ==
  \A p \in Ends :
    /\ WF_vars(Step(p))
    /\ WF_vars(calls[p] < Len(requests) /\ \E n \in 1 .. MaxRequest : Call(p, n))

FairSpec == Spec /\ Fairness

-----------------------------------------------------------------------------
\* Properties.

Elems(s) == {s[i] : i \in DOMAIN s}

TypeOK ==
  /\ requests \in Seq(1 .. MaxRequest) /\ Len(requests) <= MaxCalls
  /\ pc \in [Ends -> {"idle", "setup", "loop", "boot1", "boot2", "in_setup",
                      "in_loop", "in_boot1", "in_boot2", "drain1", "drain2"}]
  /\ calls \in [Ends -> 0 .. MaxCalls]
  /\ isSetup \in [Ends -> BOOLEAN]
  /\ used \in [Ends -> Nat]
  /\ upper \in [Ends -> Nat]
  /\ offset \in [Ends -> Nat]
  /\ need \in [Ends -> Nat]
  /\ rounds \in [Ends -> Nat]
  /\ buf \in [Ends -> [1 .. VoleNum -> Corr]]
  /\ out \in [Ends -> Seq(Corr)]
  /\ given \in [Ends -> Seq(Corr)]
  /\ seeds \in [Ends -> Seq(Seq(Corr))]

\* The cursors never leave the buffer and never enter the reserve, and what
\* a request still needs always fits what its span has left: no memcpy of
\* rsend / rrecv reads or writes outside its vector, also in the worst case
\* (vole_adapter.cc 62-195).
CursorsInBounds ==
  \A p \in Ends :
    /\ isSetup[p] => BaseNum <= used[p] /\ used[p] <= upper[p]
    /\ upper[p] <= VoleNum
    /\ offset[p] + need[p] = Len(out[p])
    /\ pc[p] = "drain2" => need[p] <= upper[p] - used[p]
    /\ pc[p] = "in_loop" => offset[p] + VoleNum <= Len(out[p])

\* A correlation is the seed of at most one extension, and one that seeds an
\* extension is never handed to a caller, before or after (the reserve of
\* vole_adapter.cc 57, 91-93, 231-234; ot_adapter.cc: "we will reserve the
\* some OT instances for boostrapping").
SeedsSpentOnce ==
  \A p \in Ends :
    /\ \A e, f \in DOMAIN seeds[p] :
         e # f => Elems(seeds[p][e]) \cap Elems(seeds[p][f]) = {}
    /\ \A e \in DOMAIN seeds[p] : Elems(seeds[p][e]) \cap Elems(given[p]) = {}

\* The two ends run every extension from the same seed, whatever their
\* relative speed: otherwise the correlations of that extension do not match.
SeedsPaired ==
  \A e \in DOMAIN seeds["sender"] \cap DOMAIN seeds["receiver"] :
    seeds["sender"][e] = seeds["receiver"][e]

\* Between calls every correlation made so far has gone to a caller, has
\* seeded an extension, or still lies in the buffer: none is overwritten
\* before it was used.
NothingLost ==
  \A p \in Ends : pc[p] = "idle" =>
    \A e \in DOMAIN seeds[p] :
      Elems(Block(e, IF e = 1 THEN SetupNum ELSE VoleNum)) \subseteq
        Elems(given[p]) \cup (UNION {Elems(seeds[p][f]) : f \in DOMAIN seeds[p]})
          \cup {buf[p][i] : i \in (1 .. BaseNum) \cup (used[p] + 1 .. upper[p])}

\* The adapter is a correlation stream: distinct, matching, never junk.
Stream == INSTANCE CorrelationStream WITH got <- given, Junk <- Empty
StreamSpec == Stream!Spec

\* Every call returns, and the end that lags catches up with its peer.
CallsReturn ==
  \A p \in Ends : \A k \in 1 .. MaxCalls :
    Len(requests) >= k ~> calls[p] >= k /\ (pc[p] = "idle" \/ calls[p] > k)
=============================================================================
