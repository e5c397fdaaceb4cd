------------------------- MODULE CachedCorrelation -------------------------
(***************************************************************************)
(* The Correlation interface and its CorrelationCache (mosac/cr/cr.h and   *)
(* cr.cc), run by the two ranks of a session.  Both ranks run the same     *)
(* program, at their own speed.  An event of the program is                *)
(*   - a dry run of a request, which only counts it (the *_cache calls);   *)
(*   - force_cache, which generates all that has been counted;             *)
(*   - a request proper, served from the cache when it holds enough, and   *)
(*     by generating the correlations on the spot when it does not.        *)
(* A request served from the cache needs no message, so one rank may be    *)
(* several events ahead; a generation takes both ranks.                    *)
(*                                                                         *)
(* Set and Get are two sides of one thing: when a rank calls RandomSet its *)
(* peer calls RandomGet.  A correlation is named by its number among those *)
(* an operation has made: k at one side belongs to k at the other.         *)
(***************************************************************************)
EXTENDS Integers, Sequences, SequencesExt, FiniteSetsExt

CONSTANTS
  Requests,   \* bound: the requests of programs, as rank 0 makes them
  MaxEvents   \* bound: the length of the program

Ranks == {0, 1}
Peer(p) == 1 - p

\* The operations, each with what the peer calls meanwhile.
Dual == [BeaverTriple |-> "BeaverTriple", NMul |-> "NMul",
         RandomSet |-> "RandomGet", RandomGet |-> "RandomSet",
         RandomVoleSet |-> "RandomVoleGet", RandomVoleGet |-> "RandomVoleSet",
         ShuffleSet |-> "ShuffleGet", ShuffleGet |-> "ShuffleSet",
         ASTSet |-> "ASTGet", ASTGet |-> "ASTSet",
         DoubleASTSet |-> "DoubleASTGet", DoubleASTGet |-> "DoubleASTSet"]
Ops == DOMAIN Dual

\* Their caches are vectors of single correlations ...
Counted == {"BeaverTriple", "RandomSet", "RandomGet", "RandomVoleSet",
            "RandomVoleGet"}
\* ... or, by shape, vectors of correlations of that shape.
Shaped == Ops \ Counted

\* The operations whose generation is served by the VOLE adapters' buffers:
\* a rank need not meet its peer there.
Buffered == {"RandomSet", "RandomGet", "RandomVoleSet", "RandomVoleGet"}

ASSUME RequestsAssumption ==
  Requests \subseteq [op : Ops \cup {"RandomAuth"}, num : Nat \ {0}]
ASSUME MaxEventsAssumption == MaxEvents \in Nat

Sizes == {r.num : r \in Requests}

\* The vectors of a CorrelationCache.
Slots == (Counted \X {0}) \cup (Shaped \X Sizes)
Slot(op, n) == <<op, IF op \in Shaped THEN n ELSE 0>>

\* How many elements of its vector a request for n takes.
Units(op, n) == IF op \in Shaped THEN 1 ELSE n

\* The operation rank p calls when rank 0 calls op.
At(p, op) == IF p = 0 \/ op = "RandomAuth" THEN op ELSE Dual[op]

\* RandomAuth adds a correlation of each direction, rank 0's Set first.
Parts(p, op) ==
  IF op # "RandomAuth" THEN <<op>>
  ELSE IF p = 0 THEN <<"RandomSet", "RandomGet">>
                ELSE <<"RandomGet", "RandomSet">>

VARIABLES
  prog,     \* the events of the program so far
  at,       \* how many of them a rank has begun
  cached,   \* cache_ != nullptr
  counts,   \* b_num_, r_s_num_, r_g_num_, vole_s_num_, vole_g_num_
  shapes,   \* s_s_shape_, s_g_shape_, ast_s_shape_, ..., n_mul_shape_
  pool,     \* *cache_
  tasks,    \* the generations the current event still has to do
  inside,   \* whether the first of them has begun
  begun,    \* history: the generations begun
  made,     \* history: how many correlations an operation has made
  got       \* history: the correlations handed to the program

vars == <<prog, at, cached, counts, shapes, pool, tasks, inside, begun, made,
          got>>

-----------------------------------------------------------------------------

NoCache == [s \in Slots |-> <<>>]

Init ==
  /\ prog = <<>>
  /\ at = [p \in Ranks |-> 0]
  /\ cached = [p \in Ranks |-> FALSE]
  /\ counts = [p \in Ranks |-> [op \in Counted |-> 0]]
  /\ shapes = [p \in Ranks |-> [op \in Shaped |-> <<>>]]
  /\ pool = [p \in Ranks |-> NoCache]
  /\ tasks = [p \in Ranks |-> <<>>]
  /\ inside = [p \in Ranks |-> FALSE]
  /\ begun = [p \in Ranks |-> <<>>]
  /\ made = [p \in Ranks |-> [op \in Ops |-> 0]]
  /\ got = [p \in Ranks |-> [op \in Ops |-> <<>>]]

\* Rank p goes on to event e of the program the ranks share.
Event(p, e) ==
  /\ tasks[p] = <<>>
  /\ at[p] < MaxEvents
  /\ IF at[p] < Len(prog)
       THEN e = prog[at[p] + 1] /\ UNCHANGED prog
       ELSE prog' = Append(prog, e)
  /\ at' = [at EXCEPT ![p] = @ + 1]

\* The dry run of a request counts it, part by part.
DryRun(p, r) ==
  LET parts == Range(Parts(p, At(p, r.op)))
  IN /\ Event(p, [do |-> "dry run", req |-> r])
     /\ counts' = [counts EXCEPT ![p] =
          [op \in Counted |-> IF op \in parts THEN @[op] + r.num ELSE @[op]]]
     /\ shapes' = [shapes EXCEPT ![p] =
          [op \in Shaped |->
             IF op \in parts THEN Append(@[op], r.num) ELSE @[op]]]
     /\ UNCHANGED <<cached, pool, tasks, inside, begun, made, got>>

Task(op, n, dest) == [op |-> op, num |-> n, dest |-> dest]
Fill(op, n) == Task(op, n, "cache")

\* For every pair of operations rank 0 sets and then gets, rank 1 gets and
\* then sets.
WrongInTurn(p, set, get) == set \o get
InTurn(p, set, get) == IF p = 0 THEN set \o get ELSE get \o set

\* What force_cache generates at rank p, in order.
Filling(p) ==
  LET single(op) == <<Fill(op, counts[p][op])>>
      each(op) == [i \in DOMAIN shapes[p][op] |-> Fill(op, shapes[p][op][i])]
  IN (IF counts[p].BeaverTriple # 0 THEN single("BeaverTriple") ELSE <<>>)
     \o InTurn(p, single("RandomSet"), single("RandomGet"))
     \o InTurn(p, single("RandomVoleSet"), single("RandomVoleGet"))
     \o InTurn(p, each("ShuffleSet"), each("ShuffleGet"))
     \o InTurn(p, each("ASTSet"), each("ASTGet"))
     \o InTurn(p, each("DoubleASTSet"), each("DoubleASTGet"))
     \o each("NMul")

\* A faulty force_cache that fills a cache it does not install.
WrongForceCache(p) ==
  /\ Event(p, [do |-> "force_cache"])
  /\ pool' = [pool EXCEPT ![p] = NoCache]
  /\ tasks' = [tasks EXCEPT ![p] = Filling(p)]
  /\ UNCHANGED <<cached, counts, shapes, inside, begun, made, got>>

\* force_cache starts a new cache: what the old one held is dropped.  The
\* counters keep their values.
ForceCache(p) ==
  /\ Event(p, [do |-> "force_cache"])
  /\ cached' = [cached EXCEPT ![p] = TRUE]
  /\ pool' = [pool EXCEPT ![p] = NoCache]
  /\ tasks' = [tasks EXCEPT ![p] = Filling(p)]
  /\ UNCHANGED <<counts, shapes, inside, begun, made, got>>

\* A request is taken from the end of its vector.
WrongTaken(op, s, n) ==
  IF op = "RandomGet" THEN SubSeq(s, 1, n) ELSE SubSeq(s, Len(s) - n + 1, Len(s))
Taken(op, s, n) == SubSeq(s, Len(s) - n + 1, Len(s))
Left(s, n) == SubSeq(s, 1, Len(s) - n)

WrongHolds(p, op, n) == Len(pool[p][Slot(op, n)]) > Units(op, n)
Holds(p, op, n) == Len(pool[p][Slot(op, n)]) >= Units(op, n)

\* The cache has enough for every part of the request.
Hit(p, op, n) ==
  cached[p] /\ \A part \in Range(Parts(p, op)) : Holds(p, part, n)

FromCache(p, r) ==
  LET op == At(p, r.op)
      parts == Range(Parts(p, op))
  IN /\ Event(p, [do |-> "request", req |-> r])
     /\ Hit(p, op, r.num)
     /\ got' = [got EXCEPT ![p] = [o \in Ops |->
          IF o \in parts
            THEN @[o] \o Taken(o, pool[p][Slot(o, r.num)], Units(o, r.num))
            ELSE @[o]]]
     /\ pool' = [pool EXCEPT ![p] = [s \in Slots |->
          IF \E o \in parts : s = Slot(o, r.num)
            THEN Left(@[s], Units(s[1], r.num)) ELSE @[s]]]
     /\ UNCHANGED <<cached, counts, shapes, tasks, inside, begun, made>>

\* Uncached: the request is generated, its parts in the order of the rank,
\* and what the cache holds stays there.
Uncached(p, r) ==
  LET op == At(p, r.op)
      parts == Parts(p, op)
  IN /\ Event(p, [do |-> "request", req |-> r])
     /\ ~Hit(p, op, r.num)
     /\ tasks' = [tasks EXCEPT ![p] =
          [i \in DOMAIN parts |-> Task(parts[i], r.num, "caller")]]
     /\ UNCHANGED <<cached, counts, shapes, pool, inside, begun, made, got>>

\* Rank p enters its next generation.
BeginGeneration(p) ==
  /\ tasks[p] # <<>> /\ ~inside[p]
  /\ inside' = [inside EXCEPT ![p] = TRUE]
  /\ begun' = [begun EXCEPT ![p] =
       Append(@, [op |-> Head(tasks[p]).op, num |-> Head(tasks[p]).num])]
  /\ UNCHANGED <<prog, at, cached, counts, shapes, pool, tasks, made, got>>

\* A generation returns.  One that exchanges messages takes both ranks.
EndGeneration(p) ==
  LET t == Head(tasks[p])
      new == [i \in 1 .. Units(t.op, t.num) |-> made[p][t.op] + i]
  IN /\ inside[p]
     /\ t.op \in Buffered \/ Len(begun[Peer(p)]) >= Len(begun[p])
     /\ made' = [made EXCEPT ![p][t.op] = @ + Len(new)]
     /\ IF t.dest = "cache"
          THEN /\ pool' = [pool EXCEPT ![p][Slot(t.op, t.num)] = @ \o new]
               /\ UNCHANGED got
          ELSE /\ got' = [got EXCEPT ![p][t.op] = @ \o new]
               /\ UNCHANGED pool
     /\ tasks' = [tasks EXCEPT ![p] = Tail(@)]
     /\ inside' = [inside EXCEPT ![p] = FALSE]
     /\ UNCHANGED <<prog, at, cached, counts, shapes, begun>>

Step(p) ==
  \/ \E r \in Requests : DryRun(p, r) \/ FromCache(p, r) \/ Uncached(p, r)
  \/ ForceCache(p)
  \/ BeginGeneration(p)
  \/ EndGeneration(p)

Finished ==
  /\ \A p \in Ranks : at[p] = MaxEvents /\ tasks[p] = <<>>
  /\ UNCHANGED vars

Next == Finished \/ \E p \in Ranks : Step(p)

Spec == Init /\ [][Next]_vars

-----------------------------------------------------------------------------
\* Properties.

TypeOK ==
  /\ at \in [Ranks -> 0 .. MaxEvents] /\ Len(prog) <= MaxEvents
  /\ cached \in [Ranks -> BOOLEAN]
  /\ counts \in [Ranks -> [Counted -> Nat]]
  /\ shapes \in [Ranks -> [Shaped -> Seq(Sizes)]]
  /\ pool \in [Ranks -> [Slots -> Seq(Nat \ {0})]]
  /\ \A p \in Ranks : ~cached[p] => pool[p] = NoCache
  /\ tasks \in [Ranks -> Seq([op : Ops, num : Nat, dest : {"cache", "caller"}])]
  /\ inside \in [Ranks -> BOOLEAN]
  /\ \A p \in Ranks : inside[p] => tasks[p] # <<>>
  /\ begun \in [Ranks -> Seq([op : Ops, num : Nat])]
  /\ made \in [Ranks -> [Ops -> Nat]]
  /\ got \in [Ranks -> [Ops -> Seq(Nat \ {0})]]

\* The ranks enter the same generations in the same order, one setting where
\* the other gets and for the same number: a request that is cached at one
\* rank is cached at the other, and the two orders of force_cache meet
\* (cr.cc 29, 64-65, 406-569).  Otherwise both wait for messages the other
\* does not send.
GenerationsMatch ==
  \A i \in DOMAIN begun[0] \cap DOMAIN begun[1] :
    /\ begun[1][i].op = Dual[begun[0][i].op]
    /\ begun[1][i].num = begun[0][i].num

\* For every operation the two ranks are handed one stream of correlations:
\* the k-th value of RandomSet belongs to the k-th value of the peer's
\* RandomGet, whether it was cached or not, and none is handed out twice
\* (cr.cc 573-691 takes from the end at both sides).
Handed(op) == [p \in Ranks |-> got[p][At(p, op)]]
Stream == INSTANCE CorrelationStream WITH Ends <- Ranks, Junk <- 0
Streams ==
  /\ \A op \in Ops : Stream!Start(Handed(op))
  /\ [][\A op \in Ops :
          \/ UNCHANGED Handed(op)
          \/ \E p \in Ranks : Stream!Delivery(Handed(op), Handed(op)', p)]_got

LastForce(p) ==
  Max({0} \cup {i \in 1 .. at[p] : prog[i].do = "force_cache"})

\* What the events i .. j of one kind take from a vector of rank p.
Demand(p, kind, i, j, s) ==
  MapThenSumSet(
    LAMBDA k : IF prog[k].do # kind THEN 0
               ELSE LET r == prog[k].req
                    IN IF \E o \in Range(Parts(p, At(p, r.op))) :
                            s = Slot(o, r.num)
                         THEN Units(s[1], r.num) ELSE 0,
    i .. j)

\* Offline randomness is enough: as long as the requests since force_cache
\* ask for no more than was counted before it, none of them generates
\* anything (the dry run and force_cache of README.md's "--cache 1").
OfflineIsEnough ==
  \A p \in Ranks :
    /\ tasks[p] # <<>> /\ Head(tasks[p]).dest = "caller"
    /\ LastForce(p) > 0
    => \E s \in Slots :
         Demand(p, "request", LastForce(p) + 1, at[p], s) >
           Demand(p, "dry run", 1, LastForce(p), s)
=============================================================================
