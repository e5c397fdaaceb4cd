-------------------------------- MODULE Wire --------------------------------
(***************************************************************************)
(* What a rank does, as a sequence of steps, and the Connection between    *)
(* the two ranks (mosac/context/state.cc).  A script is what a function of *)
(* the code does at one rank: its messages, its calls of other functions   *)
(* and its updates of the check buffers, in the order of the code.  A      *)
(* message is named for its purpose; its payload is its length.            *)
(***************************************************************************)
EXTENDS Naturals, Sequences, SequencesExt

Ranks == {0, 1}
Peer(p) == 1 - p

\* Each OT adapter has a connection of its own, spawned when the adapter is
\* made.  Connections meet by the order they are spawned in: rank 0 makes
\* the adapter it sends with first, rank 1 the one it receives with.
Spawned == <<"ot_first", "ot_second">>
WrongAdapters(p) == <<p, Peer(p)>>
Adapters(p) == IF p = 0 THEN <<p, Peer(p)>> ELSE <<Peer(p), p>>
OtChannel(p, s) == Spawned[CHOOSE i \in {1, 2} : Adapters(p)[i] = s]
Channels == {"main", Spawned[1], Spawned[2]}

Step(do, ch, tag, n) == [do |-> do, ch |-> ch, tag |-> tag, num |-> n]
Send(tag, n) == <<Step("send", "main", tag, n)>>
Recv(tag, n) == <<Step("recv", "main", tag, n)>>
Call(f, n) == <<Step("call", "main", f, n)>>
Local(do, buffer, n) == <<Step(do, "main", buffer, n)>>

Times(k, script) == FlattenSeq([i \in 1 .. k |-> script])

Exchange(p, tag, n) ==
  IF p = 0 THEN Send(tag, n) \o Recv(tag, n) ELSE Recv(tag, n) \o Send(tag, n)

ExchangeWithCommit(p, tag, n) ==
  Exchange(p, "commitment", 1) \o Exchange(p, tag, n)

SyncSeed(p) == ExchangeWithCommit(p, "seed", 1)

\* A call of the OT adapter whose sender is rank s: the receiver's choices
\* cross the sender's messages.
OtCall(p, s, n) ==
  LET choices == [tag |-> "choices", num |-> n]
      messages == [tag |-> "messages", num |-> n]
      send(m) == Step("send", OtChannel(p, s), m.tag, m.num)
      recv(m) == Step("recv", OtChannel(p, s), m.tag, m.num)
  IN IF p = s THEN <<recv(choices), send(messages)>>
              ELSE <<send(choices), recv(messages)>>
=============================================================================
