---------------------- MODULE CachedCorrelation_proofs ----------------------
(***************************************************************************)
(* The two ranks of CachedCorrelation, for all programs and requests.      *)
(***************************************************************************)
EXTENDS CachedCorrelation, DataLemmas

\* The events of a program, and the generations an event can lead to.
Events ==
  [do : {"dry run", "request"}, req : Requests] \cup {[do |-> "force_cache"]}
Tasks ==
  {t \in [op : Ops, num : Nat, dest : {"cache", "caller"}] :
     /\ t.op \in Shaped => t.num \in Sizes
     /\ t.dest = "caller" => t.num > 0}

\* A rank only fills a cache it has, and an event of force_cache installs it.
TaskInv(p) ==
  /\ tasks[p] \in Seq(Tasks)
  /\ \A i \in DOMAIN tasks[p] : tasks[p][i].dest = "cache" => cached[p]

ProgramInv ==
  /\ prog \in Seq(Events)
  /\ \A p \in Ranks : at[p] <= Len(prog)

IInv == TypeOK /\ ProgramInv /\ \A p \in Ranks : TaskInv(p)

\* The name rank 0 has for what rank p calls op, and the other way round.
Name(p, op) == IF p = 0 THEN op ELSE Dual[op]

-----------------------------------------------------------------------------
\* The operations and their vectors.

\* The operations.
LEMMA OpsAre ==
  Ops = {"BeaverTriple", "NMul", "RandomSet", "RandomGet", "RandomVoleSet",
         "RandomVoleGet", "ShuffleSet", "ShuffleGet", "ASTSet", "ASTGet",
         "DoubleASTSet", "DoubleASTGet"}
  BY DEF Ops, Dual

\* Those with a vector for each size.
LEMMA ShapedAre ==
  Shaped = {"NMul", "ShuffleSet", "ShuffleGet", "ASTSet", "ASTGet",
            "DoubleASTSet", "DoubleASTGet"}
  BY OpsAre DEF Shaped, Counted

\* Dual swaps operations of one kind.
LEMMA DualFacts ==
  ASSUME NEW op \in Ops
  PROVE  /\ Dual[op] \in Ops /\ Dual[Dual[op]] = op
         /\ op \in Shaped <=> Dual[op] \in Shaped
         /\ op \in Counted <=> Dual[op] \in Counted
         /\ op \in Buffered <=> Dual[op] \in Buffered
  BY OpsAre, ShapedAre DEF Dual, Counted, Buffered

\* A rank has its own name for an operation of the same kind.
LEMMA NameFacts ==
  ASSUME NEW p \in Ranks, NEW op \in Ops
  PROVE  /\ Name(p, op) \in Ops /\ Name(p, Name(p, op)) = op
         /\ op \in Shaped <=> Name(p, op) \in Shaped
         /\ op \in Counted <=> Name(p, op) \in Counted
         /\ At(p, op) = Name(p, op)
  BY DualFacts, OpsAre DEF Name, At

\* An operation is shaped or counted, never both.
LEMMA KindFacts ==
  ASSUME NEW op \in Ops
  PROVE  (op \in Shaped \/ op \in Counted) /\ ~(op \in Shaped /\ op \in Counted)
  BY DEF Shaped

\* A request is for some correlations, and of a shape there is a vector for.
LEMMA RequestFacts ==
  ASSUME NEW r \in Requests
  PROVE  /\ r.op \in Ops \cup {"RandomAuth"} /\ r.num \in Nat /\ r.num > 0
         /\ r.num \in Sizes /\ Sizes \subseteq Nat
  BY RequestsAssumption DEF Sizes

\* The slot and the number of correlations of a generation.
LEMMA SlotFacts ==
  ASSUME NEW op \in Ops, NEW n \in Nat, op \in Shaped => n \in Sizes
  PROVE  /\ Slot(op, n) \in Slots /\ Slot(op, n)[1] = op
         /\ Units(op, n) \in Nat /\ (n > 0 => Units(op, n) > 0)
  BY KindFacts DEF Slot, Slots, Units

\* Its parts are operations, none of them twice.
LEMMA PartsFacts ==
  ASSUME NEW p \in Ranks, NEW r \in Requests
  PROVE  LET parts == Parts(p, At(p, r.op))
         IN  /\ parts \in Seq(Ops) /\ parts # <<>> /\ IsInjective(parts)
             /\ Range(parts) \subseteq Ops
<1>1. ASSUME NEW a \in Ops, NEW b \in Ops, a # b
      PROVE  /\ <<a, b>> \in Seq(Ops) /\ <<a, b>> # <<>> /\ IsInjective(<<a, b>>)
             /\ Range(<<a, b>>) \subseteq Ops
  BY <1>1 DEF IsInjective, Range
<1>2. ASSUME NEW a \in Ops
      PROVE  /\ <<a>> \in Seq(Ops) /\ <<a>> # <<>> /\ IsInjective(<<a>>)
             /\ Range(<<a>>) \subseteq Ops
  BY DEF IsInjective, Range
<1>3. "RandomSet" \in Ops /\ "RandomGet" \in Ops
  BY OpsAre
<1>4. CASE r.op = "RandomAuth"
  <2>1. At(p, r.op) = "RandomAuth"
    BY <1>4 DEF At
  <2>2. \/ Parts(p, At(p, r.op)) = <<"RandomSet", "RandomGet">>
        \/ Parts(p, At(p, r.op)) = <<"RandomGet", "RandomSet">>
    BY <2>1 DEF Parts
  <2>3. QED
    BY <1>1, <1>3, <2>2
<1>5. CASE r.op # "RandomAuth"
  <2>1. At(p, r.op) \in Ops /\ At(p, r.op) # "RandomAuth"
    BY <1>5, RequestFacts, NameFacts, OpsAre
  <2>2. Parts(p, At(p, r.op)) = <<At(p, r.op)>>
    BY <2>1 DEF Parts
  <2>3. QED
    BY <1>2, <2>1, <2>2
<1>6. QED
  BY <1>4, <1>5

-----------------------------------------------------------------------------
\* Types.

\* An event: the program grows or is followed.
LEMMA EventType ==
  ASSUME IInv, NEW p \in Ranks, NEW e \in Events, Event(p, e)
  PROVE  /\ prog' \in Seq(Events) /\ Len(prog') <= MaxEvents
         /\ at' \in [Ranks -> 0 .. MaxEvents] /\ at'[p] = at[p] + 1
         /\ \A q \in Ranks : at'[q] <= Len(prog')
         /\ Len(prog) <= Len(prog') /\ \A i \in 1 .. Len(prog) : prog'[i] = prog[i]
         /\ prog'[at'[p]] = e /\ at'[p] \in 1 .. Len(prog')
         /\ tasks[p] = <<>> /\ \A q \in Ranks : q # p => at'[q] = at[q]
<1>1. /\ prog \in Seq(Events) /\ Len(prog) <= MaxEvents /\ Len(prog) \in Nat
      /\ at \in [Ranks -> 0 .. MaxEvents] /\ at[p] \in Nat /\ at[p] <= Len(prog)
      /\ \A q \in Ranks : at[q] \in Nat /\ at[q] <= Len(prog) /\ MaxEvents \in Nat
  BY MaxEventsAssumption DEF IInv, ProgramInv, TypeOK
<1>2. /\ tasks[p] = <<>> /\ at[p] < MaxEvents /\ at' = [at EXCEPT ![p] = @ + 1]
  BY DEF Event
<1>3. /\ at' \in [Ranks -> 0 .. MaxEvents] /\ at'[p] = at[p] + 1
      /\ \A q \in Ranks : q # p => at'[q] = at[q]
  BY <1>1, <1>2
<1>4. CASE at[p] < Len(prog)
  <2>1. prog' = prog /\ e = prog[at[p] + 1]
    BY <1>4 DEF Event
  <2>2. QED
    BY <1>1, <1>2, <1>3, <1>4, <2>1
<1>5. CASE ~(at[p] < Len(prog))
  <2>1. prog' = Append(prog, e) /\ at[p] = Len(prog)
    BY <1>1, <1>5 DEF Event
  <2>2. /\ prog' \in Seq(Events) /\ Len(prog') = Len(prog) + 1
        /\ \A i \in 1 .. Len(prog) : prog'[i] = prog[i]
        /\ prog'[Len(prog) + 1] = e
    BY <1>1, <2>1
  <2>3. QED
    BY <1>1, <1>2, <1>3, <2>1, <2>2
<1>6. QED
  BY <1>4, <1>5

\* Nothing is cached, asked for or made at the start.
LEMMA InitIInv == Init => IInv
<1> SUFFICES ASSUME Init
             PROVE  IInv
  OBVIOUS
<1>1. TypeOK
  BY MaxEventsAssumption DEF Init, TypeOK, NoCache
<1>2. ProgramInv
  BY DEF Init, ProgramInv
<1>3. \A p \in Ranks : TaskInv(p)
  BY DEF Init, TaskInv
<1>4. QED
  BY <1>1, <1>2, <1>3 DEF IInv

\* A dry run counts a request for each of its parts.
LEMMA DryRunType ==
  ASSUME IInv, NEW p \in Ranks, NEW r \in Requests, DryRun(p, r)
  PROVE  IInv'
<1> DEFINE parts == Range(Parts(p, At(p, r.op)))
           e == [do |-> "dry run", req |-> r]
<1>1. e \in Events /\ Event(p, e)
  BY DEF Events, DryRun
<1>2. /\ prog' \in Seq(Events) /\ Len(prog') <= MaxEvents
      /\ at' \in [Ranks -> 0 .. MaxEvents]
      /\ \A q \in Ranks : at'[q] <= Len(prog')
  BY <1>1, EventType
<1>3. UNCHANGED <<cached, pool, tasks, inside, begun, made, got>>
  BY DEF DryRun
<1>4. counts' \in [Ranks -> [Counted -> Nat]]
  <2>1. \A op \in Counted : counts[p][op] \in Nat /\ r.num \in Nat
    BY RequestFacts DEF IInv, TypeOK
  <2>2. [op \in Counted |-> IF op \in parts THEN counts[p][op] + r.num
                            ELSE counts[p][op]] \in [Counted -> Nat]
    BY <2>1
  <2>3. QED
    BY <2>2 DEF DryRun, IInv, TypeOK
<1>5. shapes' \in [Ranks -> [Shaped -> Seq(Sizes)]]
  <2>1. \A op \in Shaped : shapes[p][op] \in Seq(Sizes) /\ r.num \in Sizes
    BY RequestFacts DEF IInv, TypeOK
  <2>2. [op \in Shaped |-> IF op \in parts THEN Append(shapes[p][op], r.num)
                           ELSE shapes[p][op]] \in [Shaped -> Seq(Sizes)]
    BY <2>1
  <2>3. QED
    BY <2>2 DEF DryRun, IInv, TypeOK
<1>6. TypeOK'
  BY <1>2, <1>3, <1>4, <1>5 DEF IInv, TypeOK, NoCache
<1>7. QED
  BY <1>2, <1>3, <1>6 DEF IInv, ProgramInv, TaskInv

\* What force_cache generates is put into the cache.
Fills == {t \in Tasks : t.dest = "cache"}

\* What force_cache fills is a sequence of tasks that go to the cache.
LEMMA FillingType ==
  ASSUME IInv, NEW p \in Ranks
  PROVE  Filling(p) \in Seq(Fills)
<1> DEFINE single(op) == <<Fill(op, counts[p][op])>>
           each(op) == [i \in DOMAIN shapes[p][op] |-> Fill(op, shapes[p][op][i])]
<1>1. ASSUME NEW op \in Counted
      PROVE  single(op) \in Seq(Fills)
  <2>1. counts[p][op] \in Nat
    BY DEF IInv, TypeOK
  <2>2. op \in Ops /\ op \notin Shaped
    BY OpsAre, ShapedAre DEF Counted
  <2>3. QED
    BY <2>1, <2>2 DEF Fill, Task, Tasks, Fills
<1>2. ASSUME NEW op \in Shaped
      PROVE  each(op) \in Seq(Fills)
  <2>1. shapes[p][op] \in Seq(Sizes) /\ op \in Ops
    BY DEF IInv, TypeOK, Shaped
  <2>2. \A i \in DOMAIN shapes[p][op] : Fill(op, shapes[p][op][i]) \in Fills
    BY <2>1, RequestFacts DEF Fill, Task, Tasks, Fills, Sizes
  <2>3. QED
    BY <2>1, <2>2
<1>3. \A s, t \in Seq(Fills) : s \o t \in Seq(Fills) /\ InTurn(p, s, t) \in Seq(Fills)
  BY ConcatProperties DEF InTurn
<1>4. <<>> \in Seq(Fills)
  OBVIOUS
<1>5. /\ (IF counts[p].BeaverTriple # 0 THEN single("BeaverTriple") ELSE <<>>) \in Seq(Fills)
      /\ InTurn(p, single("RandomSet"), single("RandomGet")) \in Seq(Fills)
      /\ InTurn(p, single("RandomVoleSet"), single("RandomVoleGet")) \in Seq(Fills)
      /\ InTurn(p, each("ShuffleSet"), each("ShuffleGet")) \in Seq(Fills)
      /\ InTurn(p, each("ASTSet"), each("ASTGet")) \in Seq(Fills)
      /\ InTurn(p, each("DoubleASTSet"), each("DoubleASTGet")) \in Seq(Fills)
      /\ each("NMul") \in Seq(Fills)
  <2> HIDE DEF single, each
  <2>1. QED
    BY <1>1, <1>2, <1>3, <1>4, ShapedAre DEF Counted
<1> HIDE DEF single, each
<1>6. QED
  BY <1>3, <1>5 DEF Filling, single, each

\* force_cache empties the cache and leaves the tasks that fill it.
LEMMA ForceCacheType ==
  ASSUME IInv, NEW p \in Ranks, ForceCache(p)
  PROVE  IInv'
<1>1. [do |-> "force_cache"] \in Events /\ Event(p, [do |-> "force_cache"])
  BY DEF Events, ForceCache
<1>2. /\ prog' \in Seq(Events) /\ Len(prog') <= MaxEvents
      /\ at' \in [Ranks -> 0 .. MaxEvents]
      /\ \A q \in Ranks : at'[q] <= Len(prog')
  BY <1>1, EventType
<1>3. /\ cached' = [cached EXCEPT ![p] = TRUE]
      /\ pool' = [pool EXCEPT ![p] = NoCache]
      /\ tasks' = [tasks EXCEPT ![p] = Filling(p)]
      /\ UNCHANGED <<counts, shapes, inside, begun, made, got>>
  BY DEF ForceCache
<1>4. Filling(p) \in Seq(Fills) /\ tasks[p] = <<>>
  BY <1>1, FillingType, EventType
<1>5. NoCache \in [Slots -> Seq(Nat \ {0})]
  BY DEF NoCache
<1>6. /\ cached' \in [Ranks -> BOOLEAN] /\ pool' \in [Ranks -> [Slots -> Seq(Nat \ {0})]]
      /\ \A q \in Ranks : ~cached'[q] => pool'[q] = NoCache
  BY <1>3, <1>5 DEF IInv, TypeOK
<1>7. \A q \in Ranks : TaskInv(q)'
  <2>1. \A q \in Ranks : tasks'[q] = IF q = p THEN Filling(p) ELSE tasks[q]
    BY <1>3 DEF IInv, TypeOK
  <2>2. \A q \in Ranks : cached'[q] = (q = p \/ cached[q])
    BY <1>3 DEF IInv, TypeOK
  <2>3. Filling(p) \in Seq(Tasks) /\ \A i \in DOMAIN Filling(p) : Filling(p)[i].dest = "cache"
    BY <1>4 DEF Fills
  <2>4. QED
    BY <2>1, <2>2, <2>3 DEF IInv, TaskInv
<1>8. /\ tasks' \in [Ranks -> Seq([op : Ops, num : Nat, dest : {"cache", "caller"}])]
      /\ \A q \in Ranks : inside'[q] => tasks'[q] # <<>>
  <2>1. Filling(p) \in Seq([op : Ops, num : Nat, dest : {"cache", "caller"}])
    <3>1. Fills \subseteq [op : Ops, num : Nat, dest : {"cache", "caller"}]
      BY DEF Fills, Tasks
    <3>2. QED
      BY <1>4, <3>1, SeqMonotonic
  <2>2. ~inside[p]
    BY <1>4 DEF IInv, TypeOK
  <2>3. QED
    BY <1>3, <2>1, <2>2 DEF IInv, TypeOK
<1>9. TypeOK'
  BY <1>2, <1>3, <1>6, <1>8 DEF IInv, TypeOK, NoCache
<1>10. QED
  BY <1>2, <1>7, <1>9 DEF IInv, ProgramInv

\* What a request takes from its vector, and what it leaves there.
LEMMA TakenFacts ==
  ASSUME NEW S, NEW s \in Seq(S), NEW n \in Nat, n <= Len(s), NEW op
  PROVE  /\ Left(s, n) \in Seq(S) /\ Taken(op, s, n) \in Seq(S)
         /\ Len(Left(s, n)) = Len(s) - n /\ Len(Taken(op, s, n)) = n
         /\ Range(Left(s, n)) \subseteq Range(s)
         /\ Range(Taken(op, s, n)) \subseteq Range(s)
         /\ IsInjective(s) =>
              /\ IsInjective(Left(s, n)) /\ IsInjective(Taken(op, s, n))
              /\ Range(Left(s, n)) \cap Range(Taken(op, s, n)) = {}
<1>1. Len(s) - n \in Nat /\ Len(s) - n <= Len(s) /\ Len(s) \in Nat
  OBVIOUS
<1> DEFINE k == Len(s) - n
           front == SubSeq(s, 1, k)
           back == SubSeq(s, k + 1, Len(s))
<1>2. /\ front \in Seq(S) /\ back \in Seq(S)
      /\ Len(front) = k /\ Len(back) = Len(s) - k
      /\ Range(front) \subseteq Range(s) /\ Range(back) \subseteq Range(s)
      /\ IsInjective(s) => /\ IsInjective(front) /\ IsInjective(back)
                           /\ Range(front) \cap Range(back) = {}
  <2> HIDE DEF k
  <2>1. k \in Nat /\ k <= Len(s)
    BY <1>1 DEF k
  <2>2. QED
    BY <2>1, CutFacts
<1>3. Left(s, n) = front /\ Taken(op, s, n) = back
  BY DEF Left, Taken
<1> HIDE DEF front, back
<1>4. QED
  BY <1>1, <1>2, <1>3

\* A request served from the cache, operation by operation and vector by
\* vector.
LEMMA FromCacheFacts ==
  ASSUME IInv, NEW p \in Ranks, NEW r \in Requests, FromCache(p, r)
  PROVE  LET parts == Range(Parts(p, At(p, r.op)))
         IN  /\ cached[p] /\ parts \subseteq Ops
             /\ pool' \in [Ranks -> [Slots -> Seq(Nat \ {0})]]
             /\ got' \in [Ranks -> [Ops -> Seq(Nat \ {0})]]
             /\ \A q \in Ranks \ {p} : pool'[q] = pool[q] /\ got'[q] = got[q]
             /\ \A o \in Ops \ parts :
                  /\ got'[p][o] = got[p][o]
                  /\ \A s \in Slots : s[1] = o => pool'[p][s] = pool[p][s]
             /\ \A o \in parts :
                  LET s == Slot(o, r.num)
                      n == Units(o, r.num)
                  IN  /\ s \in Slots /\ n \in Nat /\ n <= Len(pool[p][s])
                      /\ got'[p][o] = got[p][o] \o Taken(o, pool[p][s], n)
                      /\ pool'[p][s] = Left(pool[p][s], n)
                      /\ \A u \in Slots \ {s} :
                           u[1] = o => pool'[p][u] = pool[p][u]
<1> DEFINE parts == Range(Parts(p, At(p, r.op)))
           newgot == [o \in Ops |->
             IF o \in parts
               THEN got[p][o] \o Taken(o, pool[p][Slot(o, r.num)], Units(o, r.num))
               ELSE got[p][o]]
           newpool == [s \in Slots |->
             IF \E o \in parts : s = Slot(o, r.num)
               THEN Left(pool[p][s], Units(s[1], r.num)) ELSE pool[p][s]]
<1>1. /\ cached[p] /\ \A o \in parts : Holds(p, o, r.num)
      /\ got' = [got EXCEPT ![p] = newgot]
      /\ pool' = [pool EXCEPT ![p] = newpool]
  BY DEF FromCache, Hit
<1>2. /\ parts \subseteq Ops /\ r.num \in Nat /\ r.num \in Sizes
  BY PartsFacts, RequestFacts
<1>3. /\ pool \in [Ranks -> [Slots -> Seq(Nat \ {0})]]
      /\ got \in [Ranks -> [Ops -> Seq(Nat \ {0})]]
  BY DEF IInv, TypeOK
<1> HIDE DEF parts
<1>4. ASSUME NEW o \in parts
      PROVE  /\ Slot(o, r.num) \in Slots /\ Slot(o, r.num)[1] = o
             /\ Units(o, r.num) \in Nat
             /\ pool[p][Slot(o, r.num)] \in Seq(Nat \ {0})
             /\ Units(o, r.num) <= Len(pool[p][Slot(o, r.num)])
             /\ Left(pool[p][Slot(o, r.num)], Units(o, r.num)) \in Seq(Nat \ {0})
             /\ Taken(o, pool[p][Slot(o, r.num)], Units(o, r.num)) \in Seq(Nat \ {0})
  <2>1. /\ Slot(o, r.num) \in Slots /\ Slot(o, r.num)[1] = o
        /\ Units(o, r.num) \in Nat
    BY <1>2, SlotFacts
  <2>2. Units(o, r.num) <= Len(pool[p][Slot(o, r.num)])
    BY <1>1, <1>3, <2>1 DEF Holds
  <2>3. pool[p][Slot(o, r.num)] \in Seq(Nat \ {0})
    BY <1>3, <2>1
  <2>4. QED
    BY <2>1, <2>2, <2>3, TakenFacts
<1>5. newgot \in [Ops -> Seq(Nat \ {0})]
  <2>1. ASSUME NEW o \in parts
        PROVE  newgot[o] \in Seq(Nat \ {0})
    BY <1>2, <1>3, <1>4, ConcatProperties
  <2>2. QED
    BY <1>3, <2>1
<1>6. newpool \in [Slots -> Seq(Nat \ {0})]
  BY <1>3, <1>4
<1>7. /\ got' \in [Ranks -> [Ops -> Seq(Nat \ {0})]] /\ got'[p] = newgot
      /\ pool' \in [Ranks -> [Slots -> Seq(Nat \ {0})]] /\ pool'[p] = newpool
      /\ \A q \in Ranks \ {p} : pool'[q] = pool[q] /\ got'[q] = got[q]
  <2> HIDE DEF newgot, newpool
  <2>1. QED
    BY <1>1, <1>3, <1>5, <1>6
<1>8. \A o \in Ops \ parts :
        /\ newgot[o] = got[p][o]
        /\ \A s \in Slots : s[1] = o => newpool[s] = pool[p][s]
  BY <1>4
<1>9. ASSUME NEW o \in parts
      PROVE  LET s == Slot(o, r.num)
                 n == Units(o, r.num)
             IN  /\ s \in Slots /\ n \in Nat /\ n <= Len(pool[p][s])
                 /\ newgot[o] = got[p][o] \o Taken(o, pool[p][s], n)
                 /\ newpool[s] = Left(pool[p][s], n)
                 /\ \A u \in Slots \ {s} : u[1] = o => newpool[u] = pool[p][u]
  BY <1>2, <1>4
<1> HIDE DEF newgot, newpool
<1>10. \A o \in Ops \ parts :
         /\ got'[p][o] = got[p][o]
         /\ \A s \in Slots : s[1] = o => pool'[p][s] = pool[p][s]
  BY <1>7, <1>8
<1>11. ASSUME NEW o \in parts
       PROVE  LET s == Slot(o, r.num)
                  n == Units(o, r.num)
              IN  /\ s \in Slots /\ n \in Nat /\ n <= Len(pool[p][s])
                  /\ got'[p][o] = got[p][o] \o Taken(o, pool[p][s], n)
                  /\ pool'[p][s] = Left(pool[p][s], n)
                  /\ \A u \in Slots \ {s} : u[1] = o => pool'[p][u] = pool[p][u]
  BY <1>7, <1>9
<1>12. /\ cached[p] /\ parts \subseteq Ops
       /\ got' \in [Ranks -> [Ops -> Seq(Nat \ {0})]]
       /\ pool' \in [Ranks -> [Slots -> Seq(Nat \ {0})]]
       /\ \A q \in Ranks \ {p} : pool'[q] = pool[q] /\ got'[q] = got[q]
  BY <1>1, <1>2, <1>7
<1>13. QED
  BY <1>10, <1>11, <1>12, Zenon DEF parts

\* A request served by the cache takes from it and gives to the caller.
LEMMA FromCacheType ==
  ASSUME IInv, NEW p \in Ranks, NEW r \in Requests, FromCache(p, r)
  PROVE  IInv'
<1> DEFINE e == [do |-> "request", req |-> r]
<1>1. e \in Events /\ Event(p, e)
  BY DEF Events, FromCache
<1>2. /\ prog' \in Seq(Events) /\ Len(prog') <= MaxEvents
      /\ at' \in [Ranks -> 0 .. MaxEvents]
      /\ \A q \in Ranks : at'[q] <= Len(prog')
  BY <1>1, EventType
<1>3. UNCHANGED <<cached, counts, shapes, tasks, inside, begun, made>>
  BY DEF FromCache
<1>4. /\ cached[p]
      /\ pool' \in [Ranks -> [Slots -> Seq(Nat \ {0})]]
      /\ got' \in [Ranks -> [Ops -> Seq(Nat \ {0})]]
      /\ \A q \in Ranks \ {p} : pool'[q] = pool[q]
  BY FromCacheFacts
<1>5. \A q \in Ranks : ~cached'[q] => pool'[q] = NoCache
  BY <1>3, <1>4 DEF IInv, TypeOK
<1>6. TypeOK'
  BY <1>2, <1>3, <1>4, <1>5 DEF IInv, TypeOK, NoCache
<1>7. QED
  BY <1>2, <1>3, <1>6 DEF IInv, ProgramInv, TaskInv

\* The generations of a request that the cache does not serve.
LEMMA UncachedFacts ==
  ASSUME NEW p \in Ranks, NEW r \in Requests
  PROVE  LET parts == Parts(p, At(p, r.op))
             ts == [i \in DOMAIN parts |-> Task(parts[i], r.num, "caller")]
         IN  /\ ts \in Seq(Tasks) /\ ts # <<>>
             /\ \A i \in DOMAIN ts : ts[i].dest # "cache"
<1> DEFINE parts == Parts(p, At(p, r.op))
           ts == [i \in DOMAIN parts |-> Task(parts[i], r.num, "caller")]
<1>1. /\ parts \in Seq(Ops) /\ parts # <<>>
      /\ r.num \in Nat /\ r.num > 0 /\ r.num \in Sizes
  BY PartsFacts, RequestFacts
<1> HIDE DEF parts
<1>2. \A o \in Ops : Task(o, r.num, "caller") \in Tasks
  BY <1>1 DEF Task, Tasks
<1>3. ts \in Seq(Tasks) /\ Len(ts) = Len(parts) /\ DOMAIN ts = DOMAIN parts
  BY <1>1, <1>2
<1>4. ts # <<>>
  BY <1>1, <1>3
<1>5. \A i \in DOMAIN ts : ts[i].dest # "cache"
  BY DEF Task
<1>6. QED
  BY <1>3, <1>4, <1>5 DEF parts

\* Any other request leaves a task for each of its parts.
LEMMA UncachedType ==
  ASSUME IInv, NEW p \in Ranks, NEW r \in Requests, Uncached(p, r)
  PROVE  IInv'
<1> DEFINE parts == Parts(p, At(p, r.op))
           ts == [i \in DOMAIN parts |-> Task(parts[i], r.num, "caller")]
<1>1. [do |-> "request", req |-> r] \in Events
  BY DEF Events
<1>2. /\ prog' \in Seq(Events) /\ Len(prog') <= MaxEvents
      /\ at' \in [Ranks -> 0 .. MaxEvents]
      /\ \A q \in Ranks : at'[q] <= Len(prog')
  BY <1>1, EventType DEF Uncached
<1>3. /\ tasks' = [tasks EXCEPT ![p] = ts]
      /\ UNCHANGED <<cached, counts, shapes, pool, inside, begun, made, got>>
  BY DEF Uncached
<1>4. ts \in Seq(Tasks) /\ ts # <<>> /\ \A i \in DOMAIN ts : ts[i].dest # "cache"
  BY UncachedFacts
<1> HIDE DEF ts
<1>5. tasks' \in [Ranks -> Seq([op : Ops, num : Nat, dest : {"cache", "caller"}])]
  <2>1. Tasks \subseteq [op : Ops, num : Nat, dest : {"cache", "caller"}]
    BY DEF Tasks
  <2>2. ts \in Seq([op : Ops, num : Nat, dest : {"cache", "caller"}])
    BY <1>4, <2>1, SeqMonotonic
  <2>3. QED
    BY <1>3, <2>2 DEF IInv, TypeOK
<1>6. \A q \in Ranks : tasks'[q] = IF q = p THEN ts ELSE tasks[q]
  BY <1>3 DEF IInv, TypeOK
<1>7. TypeOK'
  BY <1>2, <1>3, <1>4, <1>5, <1>6 DEF IInv, TypeOK, NoCache
<1>8. QED
  BY <1>2, <1>3, <1>4, <1>6, <1>7 DEF IInv, ProgramInv, TaskInv

\* A generation begins.
LEMMA BeginFacts ==
  ASSUME IInv, NEW p \in Ranks, BeginGeneration(p)
  PROVE  LET t == Head(tasks[p])
             b == [op |-> t.op, num |-> t.num]
         IN  /\ tasks[p] # <<>> /\ t \in Tasks /\ b \in [op : Ops, num : Nat]
             /\ inside' \in [Ranks -> BOOLEAN] /\ inside'[p]
             /\ begun' \in [Ranks -> Seq([op : Ops, num : Nat])]
             /\ begun'[p] = Append(begun[p], b)
             /\ \A q \in Ranks \ {p} : inside'[q] = inside[q] /\ begun'[q] = begun[q]
<1> DEFINE t == Head(tasks[p])
           b == [op |-> t.op, num |-> t.num]
<1>1. /\ tasks[p] # <<>> /\ tasks[p] \in Seq(Tasks)
  BY DEF BeginGeneration, IInv, TaskInv
<1>2. t \in Tasks
  BY <1>1, HeadTailProperties
<1>3. b \in [op : Ops, num : Nat]
  BY <1>2 DEF Tasks
<1>4. /\ inside' = [inside EXCEPT ![p] = TRUE]
      /\ begun' = [begun EXCEPT ![p] = Append(@, b)]
  BY DEF BeginGeneration
<1> HIDE DEF b, t
<1>5. /\ inside \in [Ranks -> BOOLEAN]
      /\ begun \in [Ranks -> Seq([op : Ops, num : Nat])]
  BY DEF IInv, TypeOK
<1>6. Append(begun[p], b) \in Seq([op : Ops, num : Nat])
  BY <1>3, <1>5, PrefixAppend
<1>7. /\ begun' \in [Ranks -> Seq([op : Ops, num : Nat])]
      /\ begun'[p] = Append(begun[p], b)
      /\ \A q \in Ranks \ {p} : begun'[q] = begun[q]
  BY <1>4, <1>5, <1>6
<1>8. /\ inside' \in [Ranks -> BOOLEAN] /\ inside'[p]
      /\ \A q \in Ranks \ {p} : inside'[q] = inside[q]
  BY <1>4, <1>5
<1>9. QED
  BY <1>1, <1>2, <1>3, <1>7, <1>8 DEF b, t

\* A generation begins for the first task.
LEMMA BeginType ==
  ASSUME IInv, NEW p \in Ranks, BeginGeneration(p)
  PROVE  IInv'
<1>1. UNCHANGED <<prog, at, cached, counts, shapes, pool, tasks, made, got>>
  BY DEF BeginGeneration
<1>2. TypeOK'
  BY <1>1, BeginFacts DEF IInv, TypeOK, NoCache
<1>3. QED
  BY <1>1, <1>2 DEF IInv, ProgramInv, TaskInv

\* A generation returns, its correlations to the cache or to the caller.
LEMMA EndFacts ==
  ASSUME IInv, NEW p \in Ranks, EndGeneration(p)
  PROVE  LET t == Head(tasks[p])
             n == Units(t.op, t.num)
             new == [i \in 1 .. n |-> made[p][t.op] + i]
             s == Slot(t.op, t.num)
         IN  /\ tasks[p] # <<>> /\ t \in Tasks /\ t.op \in Ops
             /\ n \in Nat /\ s \in Slots /\ s[1] = t.op
             /\ new \in Seq(Nat \ {0}) /\ Len(new) = n
             /\ made' \in [Ranks -> [Ops -> Nat]]
             /\ made'[p][t.op] = made[p][t.op] + n
             /\ \A o \in Ops \ {t.op} : made'[p][o] = made[p][o]
             /\ tasks'[p] = Tail(tasks[p]) /\ Tail(tasks[p]) \in Seq(Tasks)
             /\ inside' = [inside EXCEPT ![p] = FALSE]
             /\ pool' \in [Ranks -> [Slots -> Seq(Nat \ {0})]]
             /\ got' \in [Ranks -> [Ops -> Seq(Nat \ {0})]]
             /\ t.dest = "cache" =>
                  /\ cached[p] /\ got' = got
                  /\ pool'[p][s] = pool[p][s] \o new
                  /\ \A u \in Slots \ {s} : pool'[p][u] = pool[p][u]
             /\ t.dest # "cache" =>
                  /\ pool' = pool
                  /\ got'[p][t.op] = got[p][t.op] \o new
                  /\ \A o \in Ops \ {t.op} : got'[p][o] = got[p][o]
             /\ \A q \in Ranks \ {p} :
                  /\ made'[q] = made[q] /\ tasks'[q] = tasks[q]
                  /\ pool'[q] = pool[q] /\ got'[q] = got[q]
<1> DEFINE t == Head(tasks[p])
           n == Units(t.op, t.num)
           new == [i \in 1 .. n |-> made[p][t.op] + i]
           s == Slot(t.op, t.num)
<1>1. /\ tasks[p] # <<>> /\ tasks[p] \in Seq(Tasks)
      /\ tasks[p][1].dest = "cache" => cached[p]
  <2>1. tasks[p] # <<>>
    BY DEF EndGeneration, IInv, TypeOK
  <2>2. /\ tasks[p] \in Seq(Tasks)
        /\ \A i \in DOMAIN tasks[p] : tasks[p][i].dest = "cache" => cached[p]
    BY DEF IInv, TaskInv
  <2>3. 1 \in DOMAIN tasks[p]
    BY <2>1, <2>2
  <2>4. QED
    BY <2>1, <2>2, <2>3
<1>2. /\ t \in Tasks /\ Tail(tasks[p]) \in Seq(Tasks) /\ t = tasks[p][1]
  BY <1>1, HeadTailProperties
<1>3. /\ t.op \in Ops /\ t.num \in Nat
      /\ n \in Nat /\ s \in Slots /\ s[1] = t.op
  <2>1. t.op \in Ops /\ t.num \in Nat /\ (t.op \in Shaped => t.num \in Sizes)
    BY <1>2 DEF Tasks
  <2>2. QED
    BY <2>1, SlotFacts
<1>4. /\ made \in [Ranks -> [Ops -> Nat]] /\ tasks \in [Ranks -> Seq(Tasks)]
      /\ pool \in [Ranks -> [Slots -> Seq(Nat \ {0})]]
      /\ got \in [Ranks -> [Ops -> Seq(Nat \ {0})]]
  <2>1. \A q \in Ranks : tasks[q] \in Seq(Tasks)
    BY DEF IInv, TaskInv
  <2>2. QED
    BY <2>1 DEF IInv, TypeOK
<1>5. new \in Seq(Nat \ {0}) /\ Len(new) = n
  <2>1. made[p][t.op] \in Nat
    BY <1>3, <1>4
  <2> HIDE DEF n, t
  <2>2. QED
    BY <1>3, <2>1
<1>6. /\ made' = [made EXCEPT ![p][t.op] = @ + Len(new)]
      /\ tasks' = [tasks EXCEPT ![p] = Tail(@)]
      /\ inside' = [inside EXCEPT ![p] = FALSE]
      /\ t.dest = "cache" => /\ pool' = [pool EXCEPT ![p][s] = @ \o new]
                             /\ got' = got
      /\ t.dest # "cache" => /\ got' = [got EXCEPT ![p][t.op] = @ \o new]
                             /\ pool' = pool
  BY DEF EndGeneration
<1> HIDE DEF t, n, new, s
<1>7. /\ made' \in [Ranks -> [Ops -> Nat]]
      /\ made'[p][t.op] = made[p][t.op] + n
      /\ \A o \in Ops \ {t.op} : made'[p][o] = made[p][o]
      /\ \A q \in Ranks \ {p} : made'[q] = made[q]
  BY <1>3, <1>4, <1>5, <1>6
<1>8. /\ tasks'[p] = Tail(tasks[p])
      /\ \A q \in Ranks \ {p} : tasks'[q] = tasks[q]
  BY <1>4, <1>6
<1>9. ASSUME t.dest = "cache"
      PROVE  /\ pool' \in [Ranks -> [Slots -> Seq(Nat \ {0})]]
             /\ pool'[p][s] = pool[p][s] \o new
             /\ \A u \in Slots \ {s} : pool'[p][u] = pool[p][u]
             /\ \A q \in Ranks \ {p} : pool'[q] = pool[q]
  <2> DEFINE x == pool[p][s] \o new
             f == [pool[p] EXCEPT ![s] = x]
  <2>1. x \in Seq(Nat \ {0})
    BY <1>3, <1>4, <1>5, ConcatProperties
  <2>2. pool' = [pool EXCEPT ![p] = f]
    BY <1>4, <1>6, <1>9
  <2> HIDE DEF x
  <2>3. /\ f \in [Slots -> Seq(Nat \ {0})] /\ f[s] = x
        /\ \A u \in Slots \ {s} : f[u] = pool[p][u]
    BY <1>3, <1>4, <2>1
  <2> HIDE DEF f
  <2>4. QED
    BY <1>4, <2>2, <2>3 DEF x
<1>10. ASSUME t.dest # "cache"
       PROVE  /\ got' \in [Ranks -> [Ops -> Seq(Nat \ {0})]]
              /\ got'[p][t.op] = got[p][t.op] \o new
              /\ \A o \in Ops \ {t.op} : got'[p][o] = got[p][o]
              /\ \A q \in Ranks \ {p} : got'[q] = got[q]
  <2> DEFINE x == got[p][t.op] \o new
             f == [got[p] EXCEPT ![t.op] = x]
  <2>1. x \in Seq(Nat \ {0})
    BY <1>3, <1>4, <1>5, ConcatProperties
  <2>2. got' = [got EXCEPT ![p] = f]
    BY <1>4, <1>6, <1>10
  <2> HIDE DEF x
  <2>3. /\ f \in [Ops -> Seq(Nat \ {0})] /\ f[t.op] = x
        /\ \A u \in Ops \ {t.op} : f[u] = got[p][u]
    BY <1>3, <1>4, <2>1
  <2> HIDE DEF f
  <2>4. QED
    BY <1>4, <2>2, <2>3 DEF x
<1>11. /\ pool' \in [Ranks -> [Slots -> Seq(Nat \ {0})]]
       /\ got' \in [Ranks -> [Ops -> Seq(Nat \ {0})]]
       /\ \A q \in Ranks \ {p} : pool'[q] = pool[q] /\ got'[q] = got[q]
  BY <1>4, <1>6, <1>9, <1>10
<1>12. t.dest = "cache" =>
         /\ cached[p] /\ got' = got
         /\ pool'[p][s] = pool[p][s] \o new
         /\ \A u \in Slots \ {s} : pool'[p][u] = pool[p][u]
  BY <1>1, <1>2, <1>6, <1>9
<1>13. t.dest # "cache" =>
         /\ pool' = pool
         /\ got'[p][t.op] = got[p][t.op] \o new
         /\ \A o \in Ops \ {t.op} : got'[p][o] = got[p][o]
  BY <1>6, <1>10
<1>14. QED
  BY <1>1, <1>2, <1>3, <1>5, <1>6, <1>7, <1>8, <1>11, <1>12, <1>13, Zenon
     DEF t, n, new, s

\* A generation ends: its correlations go where its task says.
LEMMA EndType ==
  ASSUME IInv, NEW p \in Ranks, EndGeneration(p)
  PROVE  IInv'
<1> DEFINE t == Head(tasks[p])
<1>1. /\ UNCHANGED <<prog, at, cached, counts, shapes, begun>>
      /\ inside' = [inside EXCEPT ![p] = FALSE]
  BY DEF EndGeneration
<1>2. /\ made' \in [Ranks -> [Ops -> Nat]]
      /\ pool' \in [Ranks -> [Slots -> Seq(Nat \ {0})]]
      /\ got' \in [Ranks -> [Ops -> Seq(Nat \ {0})]]
      /\ tasks[p] # <<>> /\ tasks'[p] = Tail(tasks[p]) /\ Tail(tasks[p]) \in Seq(Tasks)
      /\ t.dest = "cache" => cached[p]
      /\ t.dest # "cache" => pool' = pool
      /\ \A q \in Ranks \ {p} : tasks'[q] = tasks[q] /\ pool'[q] = pool[q]
  BY EndFacts
<1>3. tasks' \in [Ranks -> Seq([op : Ops, num : Nat, dest : {"cache", "caller"}])]
  <2>1. Tasks \subseteq [op : Ops, num : Nat, dest : {"cache", "caller"}]
    BY DEF Tasks
  <2>2. Tail(tasks[p]) \in Seq([op : Ops, num : Nat, dest : {"cache", "caller"}])
    BY <1>2, <2>1, SeqMonotonic
  <2>3. tasks' = [tasks EXCEPT ![p] = Tail(@)]
    BY DEF EndGeneration
  <2>4. QED
    BY <2>2, <2>3 DEF IInv, TypeOK
<1>4. \A q \in Ranks : ~cached'[q] => pool'[q] = NoCache
  <2>1. CASE t.dest = "cache"
    BY <1>1, <1>2, <2>1 DEF IInv, TypeOK
  <2>2. CASE t.dest # "cache"
    BY <1>1, <1>2, <2>2 DEF IInv, TypeOK
  <2>3. QED
    BY <2>1, <2>2
<1>5. \A q \in Ranks : TaskInv(q)'
  <2>1. ASSUME NEW i \in DOMAIN Tail(tasks[p]), Tail(tasks[p])[i].dest = "cache"
        PROVE  cached[p]
    <3>1. tasks[p] \in Seq(Tasks)
      BY DEF IInv, TaskInv
    <3>2. i + 1 \in DOMAIN tasks[p] /\ Tail(tasks[p])[i] = tasks[p][i + 1]
      BY <1>2, <3>1, HeadTailProperties
    <3>3. QED
      BY <2>1, <3>2 DEF IInv, TaskInv
  <2>2. QED
    BY <1>1, <1>2, <2>1 DEF IInv, TaskInv
<1>6. /\ inside' \in [Ranks -> BOOLEAN]
      /\ \A q \in Ranks : inside'[q] => tasks'[q] # <<>>
  BY <1>1, <1>2 DEF IInv, TypeOK
<1>7. TypeOK'
  BY <1>1, <1>2, <1>3, <1>4, <1>6 DEF IInv, TypeOK, NoCache
<1>8. QED
  BY <1>1, <1>5, <1>7 DEF IInv, ProgramInv

\* Every step keeps the inductive invariant.
LEMMA NextIInv == IInv /\ [Next]_vars => IInv'
<1> SUFFICES ASSUME IInv, [Next]_vars
             PROVE  IInv'
  OBVIOUS
<1>1. ASSUME NEW p \in Ranks, NEW r \in Requests,
             DryRun(p, r) \/ FromCache(p, r) \/ Uncached(p, r)
      PROVE  IInv'
  BY <1>1, DryRunType, FromCacheType, UncachedType
<1>2. ASSUME NEW p \in Ranks,
             ForceCache(p) \/ BeginGeneration(p) \/ EndGeneration(p)
      PROVE  IInv'
  BY <1>2, ForceCacheType, BeginType, EndType
<1>3. ASSUME UNCHANGED vars
      PROVE  IInv'
  BY <1>3 DEF vars, IInv, TypeOK, ProgramInv, TaskInv
<1>4. QED
  BY <1>1, <1>2, <1>3 DEF Next, Step, Finished

\* The types of the variables, and the program's growth.
THEOREM CacheTypes == Spec => []TypeOK
<1>1. Spec => []IInv
  BY InitIInv, NextIInv, PTL DEF Spec
<1>2. IInv => TypeOK
  BY DEF IInv
<1>3. QED
  BY <1>1, <1>2, PTL

-----------------------------------------------------------------------------
\* What a rank has made lies in its cache or has gone to the program, once.

Mine(op) == {s \in Slots : s[1] = op}

Made(p, op) == 1 .. made[p][op]

FreshInv(p, op) ==
  /\ \A s \in Mine(op) :
       /\ IsInjective(pool[p][s]) /\ Range(pool[p][s]) \subseteq Made(p, op)
       /\ Range(pool[p][s]) \cap Range(got[p][op]) = {}
       /\ \A u \in Mine(op) \ {s} : Range(pool[p][s]) \cap Range(pool[p][u]) = {}
  /\ IsInjective(got[p][op]) /\ Range(got[p][op]) \subseteq Made(p, op)

Fresh == \A p \in Ranks : \A op \in Ops : FreshInv(p, op)

\* The empty sequence has no repetition and no element.
LEMMA EmptyFacts == IsInjective(<<>>) /\ Range(<<>>) = {}
  BY DEF IsInjective, Range

\* Nothing of an operation changes.
LEMMA FreshSame ==
  ASSUME NEW p \in Ranks, NEW op \in Ops, FreshInv(p, op),
         got'[p][op] = got[p][op], made'[p][op] = made[p][op],
         \A s \in Mine(op) : pool'[p][s] = pool[p][s]
  PROVE  FreshInv(p, op)'
  BY DEF FreshInv, Made, Mine

\* force_cache drops what was cached: nothing else moves.
LEMMA FreshForce ==
  ASSUME IInv, Fresh, NEW p \in Ranks, ForceCache(p)
  PROVE  Fresh'
<1>1. /\ pool' = [pool EXCEPT ![p] = NoCache] /\ UNCHANGED <<made, got>>
      /\ pool \in [Ranks -> [Slots -> Seq(Nat \ {0})]]
  BY DEF ForceCache, IInv, TypeOK
<1>2. ASSUME NEW op \in Ops
      PROVE  FreshInv(p, op)'
  <2>1. \A s \in Mine(op) : pool'[p][s] = <<>>
    BY <1>1 DEF NoCache, Mine
  <2>2. FreshInv(p, op)
    BY DEF Fresh
  <2>3. QED
    BY <1>1, <2>1, <2>2, EmptyFacts DEF FreshInv, Made, Mine
<1>3. ASSUME NEW q \in Ranks \ {p}, NEW op \in Ops
      PROVE  FreshInv(q, op)'
  BY <1>1, FreshSame DEF Fresh
<1>4. QED
  BY <1>2, <1>3 DEF Fresh

\* What a request takes from the cache was not handed out before.
LEMMA FreshFromCache ==
  ASSUME IInv, Fresh, NEW p \in Ranks, NEW r \in Requests, FromCache(p, r)
  PROVE  Fresh'
<1> DEFINE parts == Range(Parts(p, At(p, r.op)))
<1>1. /\ parts \subseteq Ops
      /\ \A q \in Ranks \ {p} : pool'[q] = pool[q] /\ got'[q] = got[q]
      /\ \A o \in Ops \ parts :
           /\ got'[p][o] = got[p][o]
           /\ \A s \in Slots : s[1] = o => pool'[p][s] = pool[p][s]
      /\ \A o \in parts :
           LET s == Slot(o, r.num)
               n == Units(o, r.num)
           IN  /\ s \in Slots /\ n \in Nat /\ n <= Len(pool[p][s])
               /\ got'[p][o] = got[p][o] \o Taken(o, pool[p][s], n)
               /\ pool'[p][s] = Left(pool[p][s], n)
               /\ \A u \in Slots \ {s} : u[1] = o => pool'[p][u] = pool[p][u]
  BY FromCacheFacts
<1>2. made' = made
  BY DEF FromCache
<1> HIDE DEF parts
<1>3. ASSUME NEW q \in Ranks, NEW o \in Ops, q # p \/ o \notin parts
      PROVE  FreshInv(q, o)'
  BY <1>1, <1>2, <1>3, FreshSame DEF Fresh, Mine
<1>4. ASSUME NEW o \in parts
      PROVE  FreshInv(p, o)'
  <2> DEFINE s == Slot(o, r.num)
             n == Units(o, r.num)
             kept == Left(pool[p][s], n)
             gone == Taken(o, pool[p][s], n)
  <2>1. /\ o \in Ops /\ s \in Mine(o) /\ n \in Nat /\ n <= Len(pool[p][s])
        /\ got'[p][o] = got[p][o] \o gone /\ pool'[p][s] = kept
        /\ \A u \in Mine(o) \ {s} : pool'[p][u] = pool[p][u]
    BY <1>1 DEF Mine, Slot
  <2>2. /\ pool[p][s] \in Seq(Nat \ {0}) /\ got[p][o] \in Seq(Nat \ {0})
    BY <2>1 DEF IInv, TypeOK, Mine
  <2> HIDE DEF s, n
  <2>3. /\ gone \in Seq(Nat \ {0})
        /\ Range(kept) \subseteq Range(pool[p][s])
        /\ Range(gone) \subseteq Range(pool[p][s])
        /\ IsInjective(pool[p][s]) =>
             /\ IsInjective(kept) /\ IsInjective(gone)
             /\ Range(kept) \cap Range(gone) = {}
    BY <2>1, <2>2, TakenFacts
  <2> HIDE DEF kept, gone
  <2>4. FreshInv(p, o)
    BY <2>1 DEF Fresh
  <2>5. /\ IsInjective(got'[p][o])
        /\ Range(got'[p][o]) = Range(got[p][o]) \cup Range(gone)
    BY <2>1, <2>2, <2>3, <2>4, ConcatInjective DEF FreshInv
  <2>6. Range(got'[p][o]) \subseteq Made(p, o)'
    BY <1>2, <2>1, <2>3, <2>4, <2>5 DEF FreshInv, Made
  <2>7. ASSUME NEW u \in Mine(o)
        PROVE  /\ IsInjective(pool'[p][u])
               /\ Range(pool'[p][u]) \subseteq Range(pool[p][u])
               /\ Range(pool'[p][u]) \cap Range(got'[p][o]) = {}
    <3>1. CASE u = s
      BY <2>1, <2>3, <2>4, <2>5, <3>1 DEF FreshInv
    <3>2. CASE u # s
      BY <2>1, <2>3, <2>4, <2>5, <3>2 DEF FreshInv
    <3>3. QED
      BY <3>1, <3>2
  <2>8. ASSUME NEW u \in Mine(o)
        PROVE  /\ Range(pool'[p][u]) \subseteq Made(p, o)'
               /\ \A v \in Mine(o) \ {u} :
                    Range(pool'[p][u]) \cap Range(pool'[p][v]) = {}
    BY <1>2, <2>4, <2>7 DEF FreshInv, Made
  <2>9. QED
    BY <2>5, <2>6, <2>7, <2>8 DEF FreshInv, Mine
<1>5. QED
  BY <1>3, <1>4 DEF Fresh

\* What a generation makes is new.
LEMMA FreshEnd ==
  ASSUME IInv, Fresh, NEW p \in Ranks, EndGeneration(p)
  PROVE  Fresh'
<1> DEFINE t == Head(tasks[p])
           n == Units(t.op, t.num)
           new == [i \in 1 .. n |-> made[p][t.op] + i]
           s == Slot(t.op, t.num)
<1>0. PICK o \in Ops : o = t.op
  BY EndFacts
<1>1. /\ o \in Ops /\ n \in Nat /\ s \in Mine(o)
      /\ new \in Seq(Nat \ {0}) /\ Len(new) = n
      /\ made'[p][o] = made[p][o] + n
      /\ \A u \in Ops \ {o} : made'[p][u] = made[p][u]
      /\ \A q \in Ranks \ {p} :
           made'[q] = made[q] /\ pool'[q] = pool[q] /\ got'[q] = got[q]
  BY <1>0, EndFacts DEF Mine
<1>2. t.dest = "cache" =>
        /\ got' = got /\ pool'[p][s] = pool[p][s] \o new
        /\ \A u \in Slots \ {s} : pool'[p][u] = pool[p][u]
  BY EndFacts
<1>3. t.dest # "cache" =>
        /\ pool' = pool /\ got'[p][o] = got[p][o] \o new
        /\ \A u \in Ops \ {o} : got'[p][u] = got[p][u]
  BY <1>0, EndFacts
<1>4. /\ made[p][o] \in Nat /\ pool[p][s] \in Seq(Nat \ {0})
      /\ got[p][o] \in Seq(Nat \ {0})
  BY <1>1 DEF IInv, TypeOK, Mine
<1>5. /\ IsInjective(new) /\ Range(new) \subseteq Made(p, o)'
      /\ Range(new) \cap Made(p, o) = {}
  <2>1. /\ DOMAIN new = 1 .. n
        /\ \A i \in 1 .. n : new[i] = made[p][o] + i
    BY <1>0
  <2> HIDE DEF new, n
  <2>2. IsInjective(new)
    BY <1>1, <1>4, <2>1 DEF IsInjective
  <2>3. \A x \in Range(new) : \E i \in 1 .. n : x = made[p][o] + i
    BY <2>1 DEF Range
  <2>4. \A x \in Range(new) : x \in 1 .. made'[p][o] /\ x \notin 1 .. made[p][o]
    BY <1>1, <1>4, <2>3
  <2>5. QED
    BY <2>2, <2>4 DEF Made
<1> HIDE DEF t, n, new, s
<1>6. Made(p, o) \subseteq Made(p, o)'
  BY <1>1, <1>4 DEF Made
<1>7. ASSUME NEW q \in Ranks, NEW u \in Ops, q # p \/ u # o
      PROVE  FreshInv(q, u)'
  <2>1. \A v \in Mine(u) : v \in Slots /\ (u # o => v # s)
    BY <1>1 DEF Mine
  <2>2. /\ got'[q][u] = got[q][u] /\ made'[q][u] = made[q][u]
        /\ \A v \in Mine(u) : pool'[q][v] = pool[q][v]
    BY <1>1, <1>2, <1>3, <1>7, <2>1
  <2>3. QED
    BY <2>2, FreshSame DEF Fresh
<1>8. FreshInv(p, o)
  BY <1>1 DEF Fresh
<1>9. CASE t.dest = "cache"
  <2>1. /\ IsInjective(pool'[p][s])
        /\ Range(pool'[p][s]) = Range(pool[p][s]) \cup Range(new)
    <3>1. /\ IsInjective(pool[p][s]) /\ Range(pool[p][s]) \cap Range(new) = {}
      BY <1>1, <1>5, <1>8 DEF FreshInv
    <3>2. pool[p][s] \in Seq(Nat \ {0}) /\ new \in Seq(Nat \ {0}) /\ IsInjective(new)
      BY <1>1, <1>4, <1>5
    <3>3. /\ IsInjective(pool[p][s] \o new)
          /\ Range(pool[p][s] \o new) = Range(pool[p][s]) \cup Range(new)
      BY <3>1, <3>2, ConcatInjective
    <3>4. pool'[p][s] = pool[p][s] \o new
      BY <1>2, <1>9
    <3>5. QED
      BY <3>3, <3>4
  <2>2. \A u \in Mine(o) \ {s} : pool'[p][u] = pool[p][u]
    BY <1>2, <1>9 DEF Mine
  <2>3. got' = got
    BY <1>2, <1>9
  <2>4. FreshInv(p, o)'
    <3>1. ASSUME NEW u \in Mine(o)
          PROVE  /\ IsInjective(pool'[p][u])
                 /\ Range(pool'[p][u]) \subseteq Made(p, o)'
                 /\ Range(pool'[p][u]) \cap Range(got'[p][o]) = {}
      <4>1. CASE u = s
        BY <1>5, <1>6, <1>8, <2>1, <2>3, <4>1 DEF FreshInv
      <4>2. CASE u # s
        BY <1>6, <1>8, <2>2, <2>3, <4>2 DEF FreshInv
      <4>3. QED
        BY <4>1, <4>2
    <3>2. ASSUME NEW u \in Mine(o), NEW v \in Mine(o) \ {u}
          PROVE  Range(pool'[p][u]) \cap Range(pool'[p][v]) = {}
      <4>1. CASE u = s
        BY <1>5, <1>8, <2>1, <2>2, <4>1 DEF FreshInv
      <4>2. CASE v = s
        BY <1>5, <1>8, <2>1, <2>2, <4>2 DEF FreshInv
      <4>3. CASE u # s /\ v # s
        BY <1>8, <2>2, <4>3 DEF FreshInv
      <4>4. QED
        BY <4>1, <4>2, <4>3
    <3>3. IsInjective(got'[p][o]) /\ Range(got'[p][o]) \subseteq Made(p, o)'
      BY <1>6, <1>8, <2>3 DEF FreshInv
    <3>4. QED
      BY <3>1, <3>2, <3>3 DEF FreshInv, Mine
  <2>5. QED
    BY <1>7, <2>4 DEF Fresh
<1>10. CASE t.dest # "cache"
  <2>1. /\ IsInjective(got'[p][o])
        /\ Range(got'[p][o]) = Range(got[p][o]) \cup Range(new)
    <3>1. /\ IsInjective(got[p][o]) /\ Range(got[p][o]) \cap Range(new) = {}
      BY <1>1, <1>5, <1>8 DEF FreshInv
    <3>2. got[p][o] \in Seq(Nat \ {0}) /\ new \in Seq(Nat \ {0}) /\ IsInjective(new)
      BY <1>1, <1>4, <1>5
    <3>3. /\ IsInjective(got[p][o] \o new)
          /\ Range(got[p][o] \o new) = Range(got[p][o]) \cup Range(new)
      BY <3>1, <3>2, ConcatInjective
    <3>4. got'[p][o] = got[p][o] \o new
      BY <1>3, <1>10
    <3>5. QED
      BY <3>3, <3>4
  <2>2. pool' = pool
    BY <1>3, <1>10
  <2>3. FreshInv(p, o)'
    BY <1>1, <1>5, <1>6, <1>8, <2>1, <2>2 DEF FreshInv, Mine
  <2>4. QED
    BY <1>7, <2>3 DEF Fresh
<1>11. QED
  BY <1>9, <1>10

\* Nothing is cached or handed out at the start.
LEMMA InitFresh == Init => Fresh
<1> SUFFICES ASSUME Init, NEW p \in Ranks, NEW op \in Ops
             PROVE  FreshInv(p, op)
  BY DEF Fresh
<1>1. got[p][op] = <<>> /\ \A s \in Slots : pool[p][s] = <<>>
  BY DEF Init, NoCache
<1>2. QED
  BY <1>1, EmptyFacts DEF FreshInv, Mine

\* Every step keeps what was made in one place.
LEMMA NextFresh == IInv /\ Fresh /\ [Next]_vars => Fresh'
<1> SUFFICES ASSUME IInv, Fresh, [Next]_vars
             PROVE  Fresh'
  OBVIOUS
<1>1. ASSUME UNCHANGED <<pool, made, got>>
      PROVE  Fresh'
  BY <1>1 DEF Fresh, FreshInv, Made
<1>2. ASSUME NEW p \in Ranks, NEW r \in Requests,
             DryRun(p, r) \/ FromCache(p, r) \/ Uncached(p, r)
      PROVE  Fresh'
  BY <1>1, <1>2, FreshFromCache DEF DryRun, Uncached
<1>3. ASSUME NEW p \in Ranks,
             ForceCache(p) \/ BeginGeneration(p) \/ EndGeneration(p)
      PROVE  Fresh'
  BY <1>1, <1>3, FreshForce, FreshEnd DEF BeginGeneration
<1>4. QED
  BY <1>1, <1>2, <1>3 DEF Next, Step, Finished, vars

-----------------------------------------------------------------------------
\* What the two ranks generate and are handed agrees.  Seen with rank 0's names,
\* both ranks walk one path, at their own speed: what a rank does next is
\* determined by where it is and by the program, never by its peer.

\* The state of one rank.
Rank(pos, on, cnt, shp, pl, ts, in, bg, mk, gt) ==
  [at |-> pos, cached |-> on, counts |-> cnt, shapes |-> shp, pool |-> pl,
   tasks |-> ts, inside |-> in, begun |-> bg, made |-> mk, got |-> gt]

\* Rank p's state with rank 0's names for the operations.
Renamed(p, ts) ==
  [i \in DOMAIN ts |-> Task(Name(p, ts[i].op), ts[i].num, ts[i].dest)]
CountsOf(p) == [op \in Counted |-> counts[p][Name(p, op)]]
ShapesOf(p) == [op \in Shaped |-> shapes[p][Name(p, op)]]
PoolOf(p) == [s \in Slots |-> pool[p][<<Name(p, s[1]), s[2]>>]]
BegunOf(p) == [i \in DOMAIN begun[p] |->
                 [op |-> Name(p, begun[p][i].op), num |-> begun[p][i].num]]
MadeOf(p) == [op \in Ops |-> made[p][Name(p, op)]]
GotOf(p) == [op \in Ops |-> got[p][Name(p, op)]]

View(p) ==
  Rank(at[p], cached[p], CountsOf(p), ShapesOf(p), PoolOf(p),
       Renamed(p, tasks[p]), inside[p], BegunOf(p), MadeOf(p), GotOf(p))

-----------------------------------------------------------------------------
\* What a rank in state v does next, in a program pr.

PartsOf(r) == Parts(0, r.op)

AfterDryRun(v, r) ==
  Rank(v.at + 1, v.cached,
       [op \in Counted |-> IF op \in Range(PartsOf(r)) THEN v.counts[op] + r.num
                           ELSE v.counts[op]],
       [op \in Shaped |-> IF op \in Range(PartsOf(r))
                            THEN Append(v.shapes[op], r.num) ELSE v.shapes[op]],
       v.pool, v.tasks, v.inside, v.begun, v.made, v.got)

FillingOf(v) ==
  LET single(op) == <<Fill(op, v.counts[op])>>
      each(op) == [i \in DOMAIN v.shapes[op] |-> Fill(op, v.shapes[op][i])]
  IN (IF v.counts["BeaverTriple"] # 0 THEN single("BeaverTriple") ELSE <<>>)
     \o InTurn(0, single("RandomSet"), single("RandomGet"))
     \o InTurn(0, single("RandomVoleSet"), single("RandomVoleGet"))
     \o InTurn(0, each("ShuffleSet"), each("ShuffleGet"))
     \o InTurn(0, each("ASTSet"), each("ASTGet"))
     \o InTurn(0, each("DoubleASTSet"), each("DoubleASTGet"))
     \o each("NMul")

AfterForce(v) ==
  Rank(v.at + 1, TRUE, v.counts, v.shapes, NoCache, FillingOf(v), v.inside,
       v.begun, v.made, v.got)

HitOf(v, r) ==
  /\ v.cached
  /\ \A o \in Range(PartsOf(r)) :
       Len(v.pool[Slot(o, r.num)]) >= Units(o, r.num)

AfterHit(v, r) ==
  Rank(v.at + 1, v.cached, v.counts, v.shapes,
       [s \in Slots |->
          IF \E o \in Range(PartsOf(r)) : s = Slot(o, r.num)
            THEN Left(v.pool[s], Units(s[1], r.num)) ELSE v.pool[s]],
       v.tasks, v.inside, v.begun, v.made,
       [o \in Ops |->
          IF o \in Range(PartsOf(r))
            THEN v.got[o] \o Taken(o, v.pool[Slot(o, r.num)], Units(o, r.num))
            ELSE v.got[o]])

AfterMiss(v, r) ==
  Rank(v.at + 1, v.cached, v.counts, v.shapes, v.pool,
       [i \in DOMAIN PartsOf(r) |-> Task(PartsOf(r)[i], r.num, "caller")],
       v.inside, v.begun, v.made, v.got)

AfterBegin(v) ==
  Rank(v.at, v.cached, v.counts, v.shapes, v.pool, v.tasks, TRUE,
       Append(v.begun, [op |-> Head(v.tasks).op, num |-> Head(v.tasks).num]),
       v.made, v.got)

AfterEnd(v) ==
  LET t == Head(v.tasks)
      n == Units(t.op, t.num)
      new == [i \in 1 .. n |-> v.made[t.op] + i]
      s == Slot(t.op, t.num)
  IN Rank(v.at, v.cached, v.counts, v.shapes,
          IF t.dest = "cache" THEN [v.pool EXCEPT ![s] = v.pool[s] \o new]
                              ELSE v.pool,
          Tail(v.tasks), FALSE, v.begun,
          [v.made EXCEPT ![t.op] = v.made[t.op] + n],
          IF t.dest = "cache" THEN v.got
                              ELSE [v.got EXCEPT ![t.op] = v.got[t.op] \o new])

AfterEvent(v, e) ==
  IF e.do = "dry run" THEN AfterDryRun(v, e.req)
  ELSE IF e.do = "force_cache" THEN AfterForce(v)
  ELSE IF HitOf(v, e.req) THEN AfterHit(v, e.req)
  ELSE AfterMiss(v, e.req)

NextView(v, pr) ==
  IF v.tasks = <<>> THEN AfterEvent(v, pr[v.at + 1])
  ELSE IF v.inside THEN AfterEnd(v)
  ELSE AfterBegin(v)

-----------------------------------------------------------------------------
\* Names and what they do to parts, vectors and tasks.

\* The fields of a view.
LEMMA ViewFields ==
  ASSUME NEW p \in Ranks
  PROVE  /\ View(p).at = at[p] /\ View(p).cached = cached[p]
         /\ View(p).counts = CountsOf(p) /\ View(p).shapes = ShapesOf(p)
         /\ View(p).pool = PoolOf(p) /\ View(p).tasks = Renamed(p, tasks[p])
         /\ View(p).inside = inside[p] /\ View(p).begun = BegunOf(p)
         /\ View(p).made = MadeOf(p) /\ View(p).got = GotOf(p)
  BY DEF View, Rank

\* Each rank makes the parts of a request in its own order and under its own
\* names; rank 0's names put them in one order.
LEMMA PartsRenamed ==
  ASSUME NEW p \in Ranks, NEW r \in Requests
  PROVE  LET mine == Parts(p, At(p, r.op))
         IN  /\ DOMAIN mine = DOMAIN PartsOf(r)
             /\ \A i \in DOMAIN mine : Name(p, mine[i]) = PartsOf(r)[i]
             /\ \A o \in Ops : Name(p, o) \in Range(mine) <=> o \in Range(PartsOf(r))
             /\ PartsOf(r) \in Seq(Ops) /\ Range(PartsOf(r)) \subseteq Ops
<1> DEFINE mine == Parts(p, At(p, r.op))
<1>1. PartsOf(r) \in Seq(Ops) /\ Range(PartsOf(r)) \subseteq Ops
  <2>1. At(0, r.op) = r.op /\ 0 \in Ranks
    BY DEF At, Ranks
  <2>2. QED
    BY <2>1, PartsFacts DEF PartsOf
<1>2. mine \in Seq(Ops) /\ Range(mine) \subseteq Ops
  BY PartsFacts
<1>3. /\ DOMAIN mine = DOMAIN PartsOf(r)
      /\ \A i \in DOMAIN mine : Name(p, mine[i]) = PartsOf(r)[i]
  <2>1. CASE r.op = "RandomAuth"
    <3>1. PartsOf(r) = <<"RandomSet", "RandomGet">>
      BY <2>1 DEF PartsOf, Parts
    <3>2. At(p, r.op) = "RandomAuth"
      BY <2>1 DEF At
    <3>3. mine = IF p = 0 THEN <<"RandomSet", "RandomGet">>
                          ELSE <<"RandomGet", "RandomSet">>
      BY <3>2 DEF Parts
    <3>4. Dual["RandomSet"] = "RandomGet" /\ Dual["RandomGet"] = "RandomSet"
      BY DEF Dual
    <3>5. QED
      BY <3>1, <3>3, <3>4 DEF Name
  <2>2. CASE r.op # "RandomAuth"
    <3>1. r.op \in Ops
      BY <2>2, RequestFacts
    <3>2. At(p, r.op) = Name(p, r.op) /\ Name(p, Name(p, r.op)) = r.op /\ Name(p, r.op) \in Ops
      BY <3>1, NameFacts
    <3>3. "RandomAuth" \notin Ops
      BY OpsAre
    <3>4. PartsOf(r) = <<r.op>> /\ mine = <<Name(p, r.op)>>
      BY <2>2, <3>2, <3>3 DEF PartsOf, Parts
    <3>5. QED
      BY <3>2, <3>4
  <2>3. QED
    BY <2>1, <2>2
<1> HIDE DEF mine
<1>4. ASSUME NEW o \in Ops, Name(p, o) \in Range(mine)
      PROVE  o \in Range(PartsOf(r))
  <2>1. PICK i \in DOMAIN mine : Name(p, o) = mine[i]
    BY <1>4 DEF Range
  <2>2. o = PartsOf(r)[i] /\ i \in DOMAIN PartsOf(r)
    BY <1>3, <2>1, NameFacts
  <2>3. QED
    BY <2>2 DEF Range
<1>5. ASSUME NEW o \in Ops, o \in Range(PartsOf(r))
      PROVE  Name(p, o) \in Range(mine)
  <2>1. PICK i \in DOMAIN PartsOf(r) : o = PartsOf(r)[i]
    BY <1>5 DEF Range
  <2>2. i \in DOMAIN mine /\ mine[i] \in Ops /\ o = Name(p, mine[i])
    BY <1>2, <1>3, <2>1
  <2>3. Name(p, o) = mine[i]
    BY <2>2, NameFacts
  <2>4. QED
    BY <2>2, <2>3 DEF Range
<1>6. QED
  BY <1>1, <1>3, <1>4, <1>5 DEF mine

\* A slot, under the other name of its operation.
LEMMA SlotRenamed ==
  ASSUME NEW p \in Ranks
  PROVE  /\ \A s \in Slots : s[1] \in Ops /\ <<Name(p, s[1]), s[2]>> \in Slots
         /\ \A op \in Ops, n \in Nat :
              /\ Slot(Name(p, op), n) = <<Name(p, op), Slot(op, n)[2]>>
              /\ Slot(op, n)[1] = op
              /\ Units(Name(p, op), n) = Units(op, n)
<1>1. ASSUME NEW s \in Slots
      PROVE  s[1] \in Ops /\ <<Name(p, s[1]), s[2]>> \in Slots
  <2>1. CASE s \in Counted \X {0}
    <3>1. s[1] \in Counted /\ s[2] = 0 /\ s[1] \in Ops
      BY <2>1, OpsAre DEF Counted
    <3>2. QED
      BY <3>1, NameFacts DEF Slots
  <2>2. CASE s \in Shaped \X Sizes
    <3>1. s[1] \in Shaped /\ s[2] \in Sizes /\ s[1] \in Ops
      BY <2>2 DEF Shaped
    <3>2. QED
      BY <3>1, NameFacts DEF Slots
  <2>3. QED
    BY <2>1, <2>2 DEF Slots
<1>2. ASSUME NEW op \in Ops, NEW n \in Nat
      PROVE  /\ Slot(Name(p, op), n) = <<Name(p, op), Slot(op, n)[2]>>
             /\ Slot(op, n)[1] = op
             /\ Units(Name(p, op), n) = Units(op, n)
  <2>1. op \in Shaped <=> Name(p, op) \in Shaped
    BY NameFacts
  <2>2. QED
    BY <2>1 DEF Slot, Units
<1>3. QED
  BY <1>1, <1>2

\* Renaming, task by task.
LEMMA RenamedTask ==
  ASSUME NEW p \in Ranks, NEW t \in Tasks
  PROVE  /\ Task(Name(p, t.op), t.num, t.dest) \in Tasks
         /\ t.op \in Ops /\ t.num \in Nat
<1>1. t.op \in Ops /\ t.num \in Nat /\ t.dest \in {"cache", "caller"}
  BY DEF Tasks
<1>2. Name(p, t.op) \in Ops /\ (Name(p, t.op) \in Shaped <=> t.op \in Shaped)
  BY <1>1, NameFacts
<1>3. QED
  BY <1>1, <1>2 DEF Task, Tasks

\* Renaming is task by task.
LEMMA RenamedSeq ==
  ASSUME NEW p \in Ranks, NEW s \in Seq(Tasks)
  PROVE  /\ Renamed(p, s) \in Seq(Tasks) /\ Len(Renamed(p, s)) = Len(s)
         /\ \A i \in 1 .. Len(s) :
              Renamed(p, s)[i] = Task(Name(p, s[i].op), s[i].num, s[i].dest)
<1>1. DOMAIN s = 1 .. Len(s) /\ Len(s) \in Nat /\ \A i \in 1 .. Len(s) : s[i] \in Tasks
  OBVIOUS
<1>2. \A i \in 1 .. Len(s) : Task(Name(p, s[i].op), s[i].num, s[i].dest) \in Tasks
  BY <1>1, RenamedTask
<1>3. QED
  BY <1>1, <1>2 DEF Renamed

\* Renaming tasks in a row renames both rows.
LEMMA RenamedConcat ==
  ASSUME NEW p \in Ranks, NEW s \in Seq(Tasks), NEW t \in Seq(Tasks)
  PROVE  s \o t \in Seq(Tasks) /\ Renamed(p, s \o t) = Renamed(p, s) \o Renamed(p, t)
<1>1. /\ s \o t \in Seq(Tasks) /\ Len(s \o t) = Len(s) + Len(t)
      /\ \A i \in 1 .. Len(s) + Len(t) :
           (s \o t)[i] = IF i <= Len(s) THEN s[i] ELSE t[i - Len(s)]
  BY ConcatProperties
<1>2. /\ Renamed(p, s) \in Seq(Tasks) /\ Len(Renamed(p, s)) = Len(s)
      /\ Renamed(p, t) \in Seq(Tasks) /\ Len(Renamed(p, t)) = Len(t)
      /\ Renamed(p, s \o t) \in Seq(Tasks) /\ Len(Renamed(p, s \o t)) = Len(s) + Len(t)
      /\ Len(s) \in Nat /\ Len(t) \in Nat
  <2>1. /\ Renamed(p, s) \in Seq(Tasks) /\ Len(Renamed(p, s)) = Len(s)
        /\ Renamed(p, t) \in Seq(Tasks) /\ Len(Renamed(p, t)) = Len(t)
    BY RenamedSeq
  <2>2. /\ Renamed(p, s \o t) \in Seq(Tasks)
        /\ Len(Renamed(p, s \o t)) = Len(s \o t)
    BY <1>1, RenamedSeq
  <2>3. QED
    BY <1>1, <2>1, <2>2
<1> DEFINE a == Renamed(p, s \o t)
           b == Renamed(p, s) \o Renamed(p, t)
<1>3. /\ b \in Seq(Tasks) /\ Len(b) = Len(s) + Len(t)
      /\ \A i \in 1 .. Len(s) + Len(t) :
           b[i] = IF i <= Len(s) THEN Renamed(p, s)[i] ELSE Renamed(p, t)[i - Len(s)]
  BY <1>2, ConcatProperties
<1>4. ASSUME NEW i \in 1 .. Len(s) + Len(t)
      PROVE  a[i] = b[i]
  <2>1. a[i] = Task(Name(p, (s \o t)[i].op), (s \o t)[i].num, (s \o t)[i].dest)
    BY <1>1, RenamedSeq
  <2>2. CASE i <= Len(s)
    <3>1. i \in 1 .. Len(s)
      BY <1>2, <2>2
    <3>2. b[i] = Task(Name(p, s[i].op), s[i].num, s[i].dest)
      BY <1>3, <2>2, <3>1, RenamedSeq
    <3>3. QED
      BY <1>1, <2>1, <2>2, <3>2
  <2>3. CASE ~(i <= Len(s))
    <3>1. i - Len(s) \in 1 .. Len(t)
      BY <1>2, <2>3
    <3>2. b[i] = Task(Name(p, t[i - Len(s)].op), t[i - Len(s)].num, t[i - Len(s)].dest)
      BY <1>3, <2>3, <3>1, RenamedSeq
    <3>3. QED
      BY <1>1, <2>1, <2>3, <3>2
  <2>4. QED
    BY <2>2, <2>3
<1> HIDE DEF a, b
<1>5. a = b
  <2>1. a \in Seq(Tasks) /\ b \in Seq(Tasks) /\ Len(a) = Len(s) + Len(t) /\ Len(b) = Len(a)
    BY <1>2, <1>3 DEF a
  <2>2. QED
    BY <1>4, <2>1, SeqEqual
<1>6. QED
  BY <1>1, <1>5 DEF a, b

\* Renaming keeps the first task first.
LEMMA RenamedHeadTail ==
  ASSUME NEW p \in Ranks, NEW s \in Seq(Tasks), s # <<>>
  PROVE  /\ Renamed(p, s) # <<>>
         /\ Head(Renamed(p, s)) = Task(Name(p, Head(s).op), Head(s).num, Head(s).dest)
         /\ Renamed(p, Tail(s)) = Tail(Renamed(p, s))
<1>1. Len(s) \in Nat \ {0} /\ Head(s) = s[1] /\ 1 \in 1 .. Len(s)
  BY EmptySeq
<1>2. /\ Tail(s) \in Seq(Tasks) /\ Len(Tail(s)) = Len(s) - 1
      /\ \A i \in 1 .. Len(s) - 1 : Tail(s)[i] = s[i + 1]
  BY HeadTailProperties
<1>3. /\ Renamed(p, s) \in Seq(Tasks) /\ Len(Renamed(p, s)) = Len(s)
      /\ Renamed(p, s)[1] = Task(Name(p, s[1].op), s[1].num, s[1].dest)
  BY <1>1, RenamedSeq
<1>4. Renamed(p, s) # <<>> /\ Head(Renamed(p, s)) = Renamed(p, s)[1]
  BY <1>1, <1>3
<1>5. /\ Tail(Renamed(p, s)) \in Seq(Tasks) /\ Len(Tail(Renamed(p, s))) = Len(s) - 1
      /\ \A i \in 1 .. Len(s) - 1 : Tail(Renamed(p, s))[i] = Renamed(p, s)[i + 1]
  BY <1>3, <1>4, HeadTailProperties
<1>6. Renamed(p, Tail(s)) \in Seq(Tasks) /\ Len(Renamed(p, Tail(s))) = Len(s) - 1
  BY <1>2, RenamedSeq
<1>7. ASSUME NEW i \in 1 .. Len(s) - 1
      PROVE  Renamed(p, Tail(s))[i] = Tail(Renamed(p, s))[i]
  <2>1. i + 1 \in 1 .. Len(s)
    BY <1>1
  <2>2. Renamed(p, Tail(s))[i] =
          Task(Name(p, Tail(s)[i].op), Tail(s)[i].num, Tail(s)[i].dest)
    <3>1. i \in 1 .. Len(Tail(s))
      BY <1>2
    <3>2. QED
      BY <1>2, <3>1, RenamedSeq
  <2>3. Renamed(p, s)[i + 1] = Task(Name(p, s[i + 1].op), s[i + 1].num, s[i + 1].dest)
    BY <2>1, RenamedSeq
  <2>4. QED
    BY <1>2, <1>5, <2>2, <2>3
<1>8. Renamed(p, Tail(s)) = Tail(Renamed(p, s))
  BY <1>5, <1>6, <1>7, SeqEqual
<1>9. QED
  BY <1>1, <1>3, <1>4, <1>8

\* A pair of fillings, set and get, in the order of either rank.
LEMMA TurnRenamed ==
  ASSUME NEW p \in Ranks, NEW s \in Seq(Tasks), NEW g \in Seq(Tasks),
         NEW s0, NEW g0,
         p = 0 => Renamed(p, s) = s0 /\ Renamed(p, g) = g0,
         p # 0 => Renamed(p, s) = g0 /\ Renamed(p, g) = s0
  PROVE  /\ InTurn(p, s, g) \in Seq(Tasks)
         /\ Renamed(p, InTurn(p, s, g)) = InTurn(0, s0, g0)
  BY RenamedConcat, ZenonT(40) DEF InTurn

\* force_cache fills the same, in one order.
LEMMA FillingRenamed ==
  ASSUME IInv, NEW p \in Ranks
  PROVE  Renamed(p, Filling(p)) = FillingOf(View(p))
<1> DEFINE single(op) == <<Fill(op, counts[p][op])>>
           each(op) == [i \in DOMAIN shapes[p][op] |-> Fill(op, shapes[p][op][i])]
           single0(op) == <<Fill(op, View(p).counts[op])>>
           each0(op) == [i \in DOMAIN View(p).shapes[op] |->
                           Fill(op, View(p).shapes[op][i])]
           triples == IF counts[p].BeaverTriple # 0 THEN single("BeaverTriple") ELSE <<>>
           triples0 == IF View(p).counts["BeaverTriple"] # 0
                         THEN single0("BeaverTriple") ELSE <<>>
<1>1. ASSUME NEW op \in Counted
      PROVE  single(op) \in Seq(Tasks) /\ Renamed(p, single(op)) = single0(Name(p, op))
  <2>1. op \in Ops /\ op \notin Shaped
    BY OpsAre, ShapedAre DEF Counted
  <2>2. Name(p, op) \in Counted /\ Name(p, Name(p, op)) = op
    BY <2>1, NameFacts
  <2>3. counts[p][op] \in Nat
    BY DEF IInv, TypeOK
  <2>4. Fill(op, counts[p][op]) \in Tasks
    BY <2>1, <2>3 DEF Fill, Task, Tasks
  <2>5. View(p).counts[Name(p, op)] = counts[p][op]
    <3>1. View(p).counts = CountsOf(p)
      BY ViewFields
    <3>2. QED
      BY <2>2, <3>1 DEF CountsOf
  <2>6. QED
    BY <2>4, <2>5 DEF Renamed, Fill, Task
<1>2. ASSUME NEW op \in Shaped
      PROVE  each(op) \in Seq(Tasks) /\ Renamed(p, each(op)) = each0(Name(p, op))
  <2>1. op \in Ops /\ Name(p, op) \in Shaped /\ Name(p, Name(p, op)) = op
    BY NameFacts DEF Shaped
  <2>2. shapes[p][op] \in Seq(Sizes)
    BY DEF IInv, TypeOK
  <2>3. \A n \in Sizes : Fill(op, n) \in Tasks
    BY <2>1, RequestFacts DEF Fill, Task, Tasks, Sizes
  <2>4. each(op) \in Seq(Tasks)
    BY <2>2, <2>3
  <2>5. View(p).shapes[Name(p, op)] = shapes[p][op]
    <3>1. View(p).shapes = ShapesOf(p)
      BY ViewFields
    <3>2. QED
      BY <2>1, <3>1 DEF ShapesOf
  <2>6. QED
    BY <2>4, <2>5 DEF Renamed, Fill, Task
<1>3. /\ Name(p, "BeaverTriple") = "BeaverTriple" /\ Name(p, "NMul") = "NMul"
      /\ "BeaverTriple" \in Counted /\ "NMul" \in Shaped
      /\ {"RandomSet", "RandomGet", "RandomVoleSet", "RandomVoleGet"} \subseteq Counted
      /\ {"ShuffleSet", "ShuffleGet", "ASTSet", "ASTGet", "DoubleASTSet",
          "DoubleASTGet"} \subseteq Shaped
  BY ShapedAre DEF Name, Dual, Counted
<1>4. /\ p = 0 => \A op : Name(p, op) = op
      /\ p # 0 => \A op \in Ops : Name(p, op) = Dual[op]
  BY DEF Name
<1>5. triples \in Seq(Tasks) /\ Renamed(p, triples) = triples0
  <2>1. View(p).counts["BeaverTriple"] = counts[p].BeaverTriple
    <3>1. View(p).counts = CountsOf(p)
      BY ViewFields
    <3>2. QED
      BY <1>3, <3>1 DEF CountsOf
  <2>2. <<>> \in Seq(Tasks) /\ Renamed(p, <<>>) = <<>>
    BY DEF Renamed
  <2> HIDE DEF single, single0
  <2>3. QED
    BY <1>1, <1>3, <2>1, <2>2
<1>6. Renamed(p, each("NMul")) = each0("NMul") /\ each("NMul") \in Seq(Tasks)
  <2> HIDE DEF each, each0
  <2>1. QED
    BY <1>2, <1>3
<1> HIDE DEF single, each, single0, each0, triples, triples0
<1>7. ASSUME NEW set \in Ops, NEW get \in Ops, Dual[set] = get, Dual[get] = set,
             set \in Counted /\ get \in Counted
      PROVE  /\ InTurn(p, single(set), single(get)) \in Seq(Tasks)
             /\ Renamed(p, InTurn(p, single(set), single(get))) =
                  InTurn(0, single0(set), single0(get))
  BY <1>1, <1>4, <1>7, TurnRenamed
<1>8. ASSUME NEW set \in Ops, NEW get \in Ops, Dual[set] = get, Dual[get] = set,
             set \in Shaped /\ get \in Shaped
      PROVE  /\ InTurn(p, each(set), each(get)) \in Seq(Tasks)
             /\ Renamed(p, InTurn(p, each(set), each(get))) =
                  InTurn(0, each0(set), each0(get))
  BY <1>2, <1>4, <1>8, TurnRenamed
<1>9. /\ Dual["RandomSet"] = "RandomGet" /\ Dual["RandomGet"] = "RandomSet"
      /\ Dual["RandomVoleSet"] = "RandomVoleGet" /\ Dual["RandomVoleGet"] = "RandomVoleSet"
      /\ Dual["ShuffleSet"] = "ShuffleGet" /\ Dual["ShuffleGet"] = "ShuffleSet"
      /\ Dual["ASTSet"] = "ASTGet" /\ Dual["ASTGet"] = "ASTSet"
      /\ Dual["DoubleASTSet"] = "DoubleASTGet" /\ Dual["DoubleASTGet"] = "DoubleASTSet"
  BY DEF Dual
<1> DEFINE rand == InTurn(p, single("RandomSet"), single("RandomGet"))
           vole == InTurn(p, single("RandomVoleSet"), single("RandomVoleGet"))
           shuf == InTurn(p, each("ShuffleSet"), each("ShuffleGet"))
           ast == InTurn(p, each("ASTSet"), each("ASTGet"))
           dast == InTurn(p, each("DoubleASTSet"), each("DoubleASTGet"))
           nmul == each("NMul")
<1>10. /\ rand \in Seq(Tasks)
       /\ Renamed(p, rand) = InTurn(0, single0("RandomSet"), single0("RandomGet"))
  BY <1>3, <1>7, <1>9, OpsAre
<1>11. /\ vole \in Seq(Tasks)
       /\ Renamed(p, vole) = InTurn(0, single0("RandomVoleSet"), single0("RandomVoleGet"))
  BY <1>3, <1>7, <1>9, OpsAre
<1>12. /\ shuf \in Seq(Tasks)
       /\ Renamed(p, shuf) = InTurn(0, each0("ShuffleSet"), each0("ShuffleGet"))
  BY <1>3, <1>8, <1>9, OpsAre
<1>13. /\ ast \in Seq(Tasks)
       /\ Renamed(p, ast) = InTurn(0, each0("ASTSet"), each0("ASTGet"))
  BY <1>3, <1>8, <1>9, OpsAre
<1>14. /\ dast \in Seq(Tasks)
       /\ Renamed(p, dast) = InTurn(0, each0("DoubleASTSet"), each0("DoubleASTGet"))
  BY <1>3, <1>8, <1>9, OpsAre
<1>15. nmul \in Seq(Tasks) /\ Renamed(p, nmul) = each0("NMul")
  BY <1>6
<1>16. Filling(p) = triples \o rand \o vole \o shuf \o ast \o dast \o nmul
  BY DEF Filling, triples, single, each
<1> HIDE DEF rand, vole, shuf, ast, dast, nmul
<1>17. Renamed(p, triples \o rand \o vole \o shuf \o ast \o dast \o nmul) =
         Renamed(p, triples) \o Renamed(p, rand) \o Renamed(p, vole)
         \o Renamed(p, shuf) \o Renamed(p, ast) \o Renamed(p, dast) \o Renamed(p, nmul)
  <2> DEFINE two == triples \o rand
             three == two \o vole
             four == three \o shuf
             five == four \o ast
             six == five \o dast
  <2>1. two \in Seq(Tasks) /\ Renamed(p, two) = Renamed(p, triples) \o Renamed(p, rand)
    BY <1>5, <1>10, RenamedConcat
  <2> HIDE DEF two
  <2>2. three \in Seq(Tasks) /\ Renamed(p, three) = Renamed(p, two) \o Renamed(p, vole)
    BY <2>1, <1>11, RenamedConcat
  <2> HIDE DEF three
  <2>3. four \in Seq(Tasks) /\ Renamed(p, four) = Renamed(p, three) \o Renamed(p, shuf)
    BY <2>2, <1>12, RenamedConcat
  <2> HIDE DEF four
  <2>4. five \in Seq(Tasks) /\ Renamed(p, five) = Renamed(p, four) \o Renamed(p, ast)
    BY <2>3, <1>13, RenamedConcat
  <2> HIDE DEF five
  <2>5. six \in Seq(Tasks) /\ Renamed(p, six) = Renamed(p, five) \o Renamed(p, dast)
    BY <2>4, <1>14, RenamedConcat
  <2> HIDE DEF six
  <2>6. Renamed(p, six \o nmul) = Renamed(p, six) \o Renamed(p, nmul)
    BY <2>5, <1>15, RenamedConcat
  <2>7. QED
    BY <2>1, <2>2, <2>3, <2>4, <2>5, <2>6 DEF two, three, four, five, six
<1>18. FillingOf(View(p)) =
         triples0 \o InTurn(0, single0("RandomSet"), single0("RandomGet"))
         \o InTurn(0, single0("RandomVoleSet"), single0("RandomVoleGet"))
         \o InTurn(0, each0("ShuffleSet"), each0("ShuffleGet"))
         \o InTurn(0, each0("ASTSet"), each0("ASTGet"))
         \o InTurn(0, each0("DoubleASTSet"), each0("DoubleASTGet"))
         \o each0("NMul")
  BY DEF FillingOf, triples0, single0, each0
<1>19. QED
  BY <1>5, <1>10, <1>11, <1>12, <1>13, <1>14, <1>15, <1>16, <1>17, <1>18

-----------------------------------------------------------------------------
\* Every action is the step of its rank, as rank 0 would name it.

\* A dry run.
LEMMA ViewDryRun ==
  ASSUME IInv, NEW p \in Ranks, NEW r \in Requests, DryRun(p, r)
  PROVE  View(p)' = AfterDryRun(View(p), r)
<1> DEFINE parts == Range(Parts(p, At(p, r.op)))
           parts0 == Range(PartsOf(r))
<1>1. /\ counts \in [Ranks -> [Counted -> Nat]]
      /\ shapes \in [Ranks -> [Shaped -> Seq(Sizes)]]
      /\ at \in [Ranks -> 0 .. MaxEvents]
  BY DEF IInv, TypeOK
<1>2. /\ at' = [at EXCEPT ![p] = @ + 1]
      /\ counts' = [counts EXCEPT ![p] =
           [op \in Counted |-> IF op \in parts THEN @[op] + r.num ELSE @[op]]]
      /\ shapes' = [shapes EXCEPT ![p] =
           [op \in Shaped |-> IF op \in parts THEN Append(@[op], r.num) ELSE @[op]]]
      /\ UNCHANGED <<cached, pool, tasks, inside, begun, made, got>>
  BY DEF DryRun, Event
<1>3. \A o \in Ops : Name(p, o) \in parts <=> o \in parts0
  BY PartsRenamed
<1> HIDE DEF parts, parts0
<1>4. CountsOf(p)' = [op \in Counted |->
        IF op \in parts0 THEN CountsOf(p)[op] + r.num ELSE CountsOf(p)[op]]
  <2>1. ASSUME NEW op \in Counted
        PROVE  counts'[p][Name(p, op)] =
                 IF op \in parts0 THEN CountsOf(p)[op] + r.num ELSE CountsOf(p)[op]
    <3>1. op \in Ops /\ Name(p, op) \in Counted
      BY OpsAre, NameFacts DEF Counted
    <3>2. QED
      BY <1>1, <1>2, <1>3, <3>1 DEF CountsOf
  <2>2. QED
    BY <2>1 DEF CountsOf
<1>5. ShapesOf(p)' = [op \in Shaped |->
        IF op \in parts0 THEN Append(ShapesOf(p)[op], r.num) ELSE ShapesOf(p)[op]]
  <2>1. ASSUME NEW op \in Shaped
        PROVE  shapes'[p][Name(p, op)] =
                 IF op \in parts0 THEN Append(ShapesOf(p)[op], r.num)
                 ELSE ShapesOf(p)[op]
    <3>1. op \in Ops /\ Name(p, op) \in Shaped
      BY NameFacts DEF Shaped
    <3>2. QED
      BY <1>1, <1>2, <1>3, <3>1 DEF ShapesOf
  <2>2. QED
    BY <2>1 DEF ShapesOf
<1>6. /\ at'[p] = at[p] + 1 /\ cached'[p] = cached[p] /\ PoolOf(p)' = PoolOf(p)
      /\ Renamed(p, tasks[p])' = Renamed(p, tasks[p]) /\ inside'[p] = inside[p]
      /\ BegunOf(p)' = BegunOf(p) /\ MadeOf(p)' = MadeOf(p) /\ GotOf(p)' = GotOf(p)
  BY <1>1, <1>2 DEF PoolOf, BegunOf, MadeOf, GotOf, Renamed
<1>7. QED
  BY <1>4, <1>5, <1>6, ViewFields DEF View, AfterDryRun, parts0

\* force_cache.
LEMMA ViewForce ==
  ASSUME IInv, NEW p \in Ranks, ForceCache(p)
  PROVE  View(p)' = AfterForce(View(p))
<1>1. /\ at \in [Ranks -> 0 .. MaxEvents] /\ cached \in [Ranks -> BOOLEAN]
      /\ pool \in [Ranks -> [Slots -> Seq(Nat \ {0})]]
      /\ tasks \in [Ranks -> Seq([op : Ops, num : Nat, dest : {"cache", "caller"}])]
  BY DEF IInv, TypeOK
<1>2. /\ at' = [at EXCEPT ![p] = @ + 1] /\ cached' = [cached EXCEPT ![p] = TRUE]
      /\ pool' = [pool EXCEPT ![p] = NoCache]
      /\ tasks' = [tasks EXCEPT ![p] = Filling(p)]
      /\ UNCHANGED <<counts, shapes, inside, begun, made, got>>
  BY DEF ForceCache, Event
<1>3. /\ at'[p] = at[p] + 1 /\ cached'[p] = TRUE /\ pool'[p] = NoCache
      /\ tasks'[p] = Filling(p)
  BY <1>1, <1>2
<1>4. PoolOf(p)' = NoCache
  BY <1>3, SlotRenamed DEF PoolOf, NoCache
<1>5. Renamed(p, tasks[p])' = FillingOf(View(p))
  <2>1. Renamed(p, tasks[p])' = Renamed(p, Filling(p))
    BY <1>3 DEF Renamed
  <2>2. QED
    BY <2>1, FillingRenamed
<1>6. /\ CountsOf(p)' = CountsOf(p) /\ ShapesOf(p)' = ShapesOf(p)
      /\ inside'[p] = inside[p] /\ BegunOf(p)' = BegunOf(p)
      /\ MadeOf(p)' = MadeOf(p) /\ GotOf(p)' = GotOf(p)
  BY <1>2 DEF CountsOf, ShapesOf, BegunOf, MadeOf, GotOf
<1>7. QED
  BY <1>3, <1>4, <1>5, <1>6, ViewFields DEF View, AfterForce

\* A request that is cached at one rank is cached at the other.
LEMMA HitRenamed ==
  ASSUME NEW p \in Ranks, NEW r \in Requests
  PROVE  Hit(p, At(p, r.op), r.num) <=> HitOf(View(p), r)
<1> DEFINE parts == Range(Parts(p, At(p, r.op)))
           parts0 == Range(PartsOf(r))
<1>1. /\ \A o \in Ops : Name(p, o) \in parts <=> o \in parts0
      /\ parts0 \subseteq Ops
  BY PartsRenamed
<1>2. parts \subseteq Ops /\ r.num \in Nat /\ r.num \in Sizes
  BY PartsFacts, RequestFacts
<1> HIDE DEF parts, parts0
<1>3. ASSUME NEW o \in Ops
      PROVE  Holds(p, Name(p, o), r.num) <=>
               Len(View(p).pool[Slot(o, r.num)]) >= Units(o, r.num)
  <2>1. Slot(o, r.num) \in Slots /\ Slot(o, r.num)[1] = o
    BY <1>2, SlotFacts
  <2>2. View(p).pool = PoolOf(p)
    BY ViewFields
  <2>3. View(p).pool[Slot(o, r.num)] = pool[p][<<Name(p, o), Slot(o, r.num)[2]>>]
    BY <2>1, <2>2 DEF PoolOf
  <2>4. /\ Slot(Name(p, o), r.num) = <<Name(p, o), Slot(o, r.num)[2]>>
        /\ Units(Name(p, o), r.num) = Units(o, r.num)
    BY <1>2, SlotRenamed
  <2>5. QED
    BY <2>3, <2>4 DEF Holds
<1>4. (\A o \in parts : Holds(p, o, r.num)) <=>
        (\A o \in parts0 : Len(View(p).pool[Slot(o, r.num)]) >= Units(o, r.num))
  <2>1. ASSUME \A o \in parts : Holds(p, o, r.num), NEW o \in parts0
        PROVE  Len(View(p).pool[Slot(o, r.num)]) >= Units(o, r.num)
    BY <1>1, <1>3, <2>1
  <2>2. ASSUME \A o \in parts0 : Len(View(p).pool[Slot(o, r.num)]) >= Units(o, r.num),
               NEW o \in parts
        PROVE  Holds(p, o, r.num)
    <3>1. Name(p, o) \in Ops /\ Name(p, Name(p, o)) = o
      BY <1>2, NameFacts
    <3>2. QED
      BY <1>1, <1>3, <2>2, <3>1
  <2>3. QED
    BY <2>1, <2>2
<1>5. View(p).cached = cached[p]
  BY ViewFields
<1>6. QED
  BY <1>4, <1>5 DEF Hit, HitOf, parts, parts0

\* A request served by the cache.
LEMMA ViewHit ==
  ASSUME IInv, NEW p \in Ranks, NEW r \in Requests, FromCache(p, r)
  PROVE  View(p)' = AfterHit(View(p), r)
<1> DEFINE parts == Range(Parts(p, At(p, r.op)))
           parts0 == Range(PartsOf(r))
           pool0 == PoolOf(p)
           got0 == GotOf(p)
<1>1. /\ at' = [at EXCEPT ![p] = @ + 1] /\ at \in [Ranks -> 0 .. MaxEvents]
      /\ UNCHANGED <<cached, counts, shapes, tasks, inside, begun, made>>
  BY DEF FromCache, Event, IInv, TypeOK
<1>2. /\ parts \subseteq Ops
      /\ \A o \in Ops \ parts :
           /\ got'[p][o] = got[p][o]
           /\ \A s \in Slots : s[1] = o => pool'[p][s] = pool[p][s]
      /\ \A o \in parts :
           LET s == Slot(o, r.num)
               n == Units(o, r.num)
           IN  /\ s \in Slots /\ n \in Nat /\ n <= Len(pool[p][s])
               /\ got'[p][o] = got[p][o] \o Taken(o, pool[p][s], n)
               /\ pool'[p][s] = Left(pool[p][s], n)
               /\ \A u \in Slots \ {s} : u[1] = o => pool'[p][u] = pool[p][u]
  BY FromCacheFacts
<1>3. (\A o \in Ops : Name(p, o) \in parts <=> o \in parts0) /\ parts0 \subseteq Ops
  BY PartsRenamed
<1>4. r.num \in Nat /\ r.num \in Sizes
  BY RequestFacts
<1> HIDE DEF parts, parts0
<1>5. ASSUME NEW o \in Ops
      PROVE  /\ Slot(o, r.num) \in Slots /\ Slot(o, r.num)[1] = o
             /\ Name(p, o) \in Ops
             /\ Slot(Name(p, o), r.num) = <<Name(p, o), Slot(o, r.num)[2]>>
             /\ Units(Name(p, o), r.num) = Units(o, r.num)
             /\ pool0[Slot(o, r.num)] = pool[p][Slot(Name(p, o), r.num)]
  BY <1>4, SlotFacts, SlotRenamed, NameFacts DEF PoolOf
<1>6. GotOf(p)' = [o \in Ops |->
        IF o \in parts0
          THEN got0[o] \o Taken(o, pool0[Slot(o, r.num)], Units(o, r.num))
          ELSE got0[o]]
  <2>1. ASSUME NEW o \in Ops
        PROVE  got'[p][Name(p, o)] =
                 IF o \in parts0
                   THEN got0[o] \o Taken(o, pool0[Slot(o, r.num)], Units(o, r.num))
                   ELSE got0[o]
    <3>1. got0[o] = got[p][Name(p, o)]
      BY DEF GotOf
    <3>2. CASE o \in parts0
      <4>1. Name(p, o) \in parts
        BY <1>3, <3>2
      <4>2. got'[p][Name(p, o)] =
              got[p][Name(p, o)] \o Taken(Name(p, o), pool[p][Slot(Name(p, o), r.num)],
                                          Units(Name(p, o), r.num))
        BY <1>2, <4>1
      <4>3. QED
        BY <1>5, <3>1, <3>2, <4>2 DEF Taken
    <3>3. CASE o \notin parts0
      <4>1. Name(p, o) \in Ops \ parts
        BY <1>3, <1>5, <3>3
      <4>2. QED
        BY <1>2, <3>1, <3>3, <4>1
    <3>4. QED
      BY <3>2, <3>3
  <2> HIDE DEF pool0, got0
  <2>2. QED
    BY <2>1 DEF GotOf
<1>7. PoolOf(p)' = [s \in Slots |->
        IF \E o \in parts0 : s = Slot(o, r.num)
          THEN Left(pool0[s], Units(s[1], r.num)) ELSE pool0[s]]
  <2>1. ASSUME NEW s \in Slots
        PROVE  pool'[p][<<Name(p, s[1]), s[2]>>] =
                 IF \E o \in parts0 : s = Slot(o, r.num)
                   THEN Left(pool0[s], Units(s[1], r.num)) ELSE pool0[s]
    <3> DEFINE u == <<Name(p, s[1]), s[2]>>
    <3>1. s[1] \in Ops /\ u \in Slots /\ pool0[s] = pool[p][u]
      BY SlotRenamed DEF PoolOf
    <3>2. CASE \E o \in parts0 : s = Slot(o, r.num)
      <4>1. PICK o \in parts0 : s = Slot(o, r.num)
        BY <3>2
      <4>2. o \in Ops /\ Name(p, o) \in parts /\ s[1] = o
        BY <1>3, <1>5, <4>1
      <4>3. u = Slot(Name(p, o), r.num)
        BY <1>5, <4>1, <4>2
      <4>4. pool'[p][u] = Left(pool[p][u], Units(Name(p, o), r.num))
        BY <1>2, <4>2, <4>3
      <4>5. QED
        BY <1>5, <3>1, <3>2, <4>2, <4>4
    <3>3. CASE ~ \E o \in parts0 : s = Slot(o, r.num)
      <4>1. u[1] = Name(p, s[1]) /\ u[1] \in Ops
        BY <3>1, NameFacts
      <4>2. CASE u[1] \notin parts
        BY <1>2, <3>1, <3>3, <4>1, <4>2
      <4>3. CASE u[1] \in parts
        <5>1. s[1] \in parts0
          BY <1>3, <3>1, <4>1, <4>3
        <5>2. s # Slot(s[1], r.num)
          BY <3>3, <5>1
        <5>3. s = <<s[1], s[2]>> /\ Slot(s[1], r.num) = <<s[1], Slot(s[1], r.num)[2]>>
          <6>1. s \in (Counted \X {0}) \cup (Shaped \X Sizes)
            BY DEF Slots
          <6>2. QED
            BY <6>1 DEF Slot
        <5>4. s[2] # Slot(s[1], r.num)[2]
          BY <5>2, <5>3
        <5>5. u # Slot(u[1], r.num)
          BY <1>5, <3>1, <4>1, <5>4
        <5>6. QED
          BY <1>2, <3>1, <3>3, <4>3, <5>5
      <4>4. QED
        BY <4>2, <4>3
    <3>4. QED
      BY <3>2, <3>3
  <2> HIDE DEF pool0
  <2>2. QED
    BY <2>1 DEF PoolOf
<1>8. /\ at'[p] = at[p] + 1 /\ cached'[p] = cached[p]
      /\ CountsOf(p)' = CountsOf(p) /\ ShapesOf(p)' = ShapesOf(p)
      /\ Renamed(p, tasks[p])' = Renamed(p, tasks[p]) /\ inside'[p] = inside[p]
      /\ BegunOf(p)' = BegunOf(p) /\ MadeOf(p)' = MadeOf(p)
  BY <1>1 DEF CountsOf, ShapesOf, BegunOf, MadeOf, Renamed
<1>9. QED
  BY <1>6, <1>7, <1>8, ViewFields DEF View, AfterHit, parts0

\* A request that is not.
LEMMA ViewMiss ==
  ASSUME IInv, NEW p \in Ranks, NEW r \in Requests, Uncached(p, r)
  PROVE  View(p)' = AfterMiss(View(p), r)
<1> DEFINE parts == Parts(p, At(p, r.op))
           ts == [i \in DOMAIN parts |-> Task(parts[i], r.num, "caller")]
<1>1. /\ at \in [Ranks -> 0 .. MaxEvents]
      /\ tasks \in [Ranks -> Seq([op : Ops, num : Nat, dest : {"cache", "caller"}])]
  BY DEF IInv, TypeOK
<1>2. /\ at' = [at EXCEPT ![p] = @ + 1] /\ tasks' = [tasks EXCEPT ![p] = ts]
      /\ UNCHANGED <<cached, counts, shapes, pool, inside, begun, made, got>>
  BY DEF Uncached, Event
<1>3. /\ DOMAIN parts = DOMAIN PartsOf(r)
      /\ \A i \in DOMAIN parts : Name(p, parts[i]) = PartsOf(r)[i]
  BY PartsRenamed
<1>4. Renamed(p, ts) =
        [i \in DOMAIN PartsOf(r) |-> Task(PartsOf(r)[i], r.num, "caller")]
  <2> HIDE DEF parts
  <2>1. DOMAIN ts = DOMAIN parts
    OBVIOUS
  <2>2. \A i \in DOMAIN parts : /\ ts[i].op = parts[i] /\ ts[i].num = r.num
                                /\ ts[i].dest = "caller"
    BY DEF Task
  <2> HIDE DEF ts
  <2>3. QED
    BY <1>3, <2>1, <2>2 DEF Renamed
<1> HIDE DEF ts
<1>5. at'[p] = at[p] + 1 /\ tasks'[p] = ts
  BY <1>1, <1>2
<1>6. Renamed(p, tasks[p])' = Renamed(p, ts)
  BY <1>5 DEF Renamed
<1>7. /\ cached'[p] = cached[p] /\ CountsOf(p)' = CountsOf(p)
      /\ ShapesOf(p)' = ShapesOf(p) /\ PoolOf(p)' = PoolOf(p)
      /\ inside'[p] = inside[p] /\ BegunOf(p)' = BegunOf(p)
      /\ MadeOf(p)' = MadeOf(p) /\ GotOf(p)' = GotOf(p)
  BY <1>2 DEF CountsOf, ShapesOf, PoolOf, BegunOf, MadeOf, GotOf
<1>8. QED
  BY <1>4, <1>5, <1>6, <1>7, ViewFields DEF View, AfterMiss

\* The beginning of a generation.
LEMMA ViewBegin ==
  ASSUME IInv, NEW p \in Ranks, BeginGeneration(p)
  PROVE  /\ View(p)' = AfterBegin(View(p))
         /\ View(p).tasks # <<>> /\ ~View(p).inside
<1> DEFINE t == Head(tasks[p])
           b == [op |-> t.op, num |-> t.num]
           b0 == [op |-> Name(p, t.op), num |-> t.num]
<1>1. /\ tasks[p] # <<>> /\ t \in Tasks /\ b \in [op : Ops, num : Nat]
      /\ inside'[p] = TRUE /\ begun'[p] = Append(begun[p], b)
      /\ tasks[p] \in Seq(Tasks) /\ begun[p] \in Seq([op : Ops, num : Nat])
  <2>1. inside' \in [Ranks -> BOOLEAN] /\ inside'[p]
    BY BeginFacts
  <2>2. tasks[p] \in Seq(Tasks) /\ begun[p] \in Seq([op : Ops, num : Nat])
    BY DEF IInv, TypeOK, TaskInv
  <2>3. QED
    BY <2>1, <2>2, BeginFacts
<1>2. UNCHANGED <<at, cached, counts, shapes, pool, tasks, made, got>> /\ ~inside[p]
  BY DEF BeginGeneration
<1>3. /\ Head(Renamed(p, tasks[p])).op = Name(p, t.op)
      /\ Head(Renamed(p, tasks[p])).num = t.num
      /\ Renamed(p, tasks[p]) # <<>>
  BY <1>1, RenamedHeadTail DEF Task
<1> HIDE DEF t
<1>4. BegunOf(p)' = Append(BegunOf(p), b0)
  <2> DEFINE s == begun[p]
             x == Append(s, b)
  <2>1. /\ Len(s) \in Nat /\ DOMAIN x = 1 .. Len(s) + 1 /\ x[Len(s) + 1] = b
        /\ \A i \in 1 .. Len(s) : x[i] = s[i]
    BY <1>1
  <2>2. b.op = t.op /\ b.num = t.num
    OBVIOUS
  <2>3. /\ DOMAIN BegunOf(p) = 1 .. Len(s)
        /\ \A i \in 1 .. Len(s) :
             BegunOf(p)[i] = [op |-> Name(p, s[i].op), num |-> s[i].num]
    BY <1>1 DEF BegunOf
  <2>4. BegunOf(p)' = [i \in 1 .. Len(s) + 1 |->
                         [op |-> Name(p, x[i].op), num |-> x[i].num]]
    BY <1>1, <2>1 DEF BegunOf
  <2>5. BegunOf(p) = [i \in 1 .. Len(s) |-> BegunOf(p)[i]]
    BY <2>3 DEF BegunOf
  <2>6. Append(BegunOf(p), b0) =
          [i \in 1 .. Len(s) + 1 |-> IF i <= Len(s) THEN BegunOf(p)[i] ELSE b0]
    <3>1. BegunOf(p) \in Seq([op : Ops, num : Nat])
      <4>1. ASSUME NEW i \in 1 .. Len(s)
            PROVE  s[i].op \in Ops /\ s[i].num \in Nat
        <5>1. s[i] \in [op : Ops, num : Nat]
          BY <1>1, ElementOfSeq
        <5>2. QED
          BY <5>1
      <4>2. ASSUME NEW i \in 1 .. Len(s)
            PROVE  BegunOf(p)[i] \in [op : Ops, num : Nat]
        <5>1. Name(p, s[i].op) \in Ops /\ s[i].num \in Nat
          BY <4>1, NameFacts
        <5>2. [op |-> Name(p, s[i].op), num |-> s[i].num] \in [op : Ops, num : Nat]
          BY <5>1
        <5>3. QED
          BY <2>3, <5>2
      <4> HIDE DEF s
      <4>3. QED
        BY <2>1, <2>5, <4>2
    <3>2. Len(BegunOf(p)) = Len(s)
      BY <2>1, <2>3, <3>1
    <3>3. QED
      BY <2>1, <3>1, <3>2
  <2> HIDE DEF s, x, b
  <2>7. \A i \in 1 .. Len(s) + 1 :
          [op |-> Name(p, x[i].op), num |-> x[i].num] =
            IF i <= Len(s) THEN BegunOf(p)[i] ELSE b0
    BY <2>1, <2>2, <2>3
  <2>8. QED
    BY <2>4, <2>6, <2>7
<1>5. /\ at'[p] = at[p] /\ cached'[p] = cached[p] /\ CountsOf(p)' = CountsOf(p)
      /\ ShapesOf(p)' = ShapesOf(p) /\ PoolOf(p)' = PoolOf(p)
      /\ Renamed(p, tasks[p])' = Renamed(p, tasks[p])
      /\ MadeOf(p)' = MadeOf(p) /\ GotOf(p)' = GotOf(p)
  BY <1>2 DEF CountsOf, ShapesOf, PoolOf, Renamed, MadeOf, GotOf
<1>6. QED
  BY <1>1, <1>2, <1>3, <1>4, <1>5, ViewFields, ZenonT(40) DEF View, AfterBegin

\* Its end.
LEMMA ViewEnd ==
  ASSUME IInv, NEW p \in Ranks, EndGeneration(p)
  PROVE  /\ View(p)' = AfterEnd(View(p))
         /\ View(p).tasks # <<>> /\ View(p).inside
<1> DEFINE t == Head(tasks[p])
           n == Units(t.op, t.num)
           new == [i \in 1 .. n |-> made[p][t.op] + i]
           s == Slot(t.op, t.num)
           o == Name(p, t.op)
           t0 == Task(o, t.num, t.dest)
           s0 == Slot(o, t.num)
<1>1. /\ tasks[p] # <<>> /\ t \in Tasks /\ t.op \in Ops /\ n \in Nat /\ s \in Slots
      /\ made'[p][t.op] = made[p][t.op] + n
      /\ \A u \in Ops \ {t.op} : made'[p][u] = made[p][u]
      /\ tasks'[p] = Tail(tasks[p])
      /\ t.dest = "cache" =>
           /\ got' = got /\ pool'[p][s] = pool[p][s] \o new
           /\ \A u \in Slots \ {s} : pool'[p][u] = pool[p][u]
      /\ t.dest # "cache" =>
           /\ pool' = pool /\ got'[p][t.op] = got[p][t.op] \o new
           /\ \A u \in Ops \ {t.op} : got'[p][u] = got[p][u]
  BY EndFacts
<1>2. /\ UNCHANGED <<prog, at, cached, counts, shapes, begun>>
      /\ inside' = [inside EXCEPT ![p] = FALSE] /\ inside[p]
      /\ inside \in [Ranks -> BOOLEAN]
  BY DEF EndGeneration, IInv, TypeOK
<1>3. tasks[p] \in Seq(Tasks)
  BY DEF IInv, TaskInv
<1>4. t.num \in Nat /\ (t.op \in Shaped => t.num \in Sizes)
  BY <1>1 DEF Tasks
<1>5. /\ o \in Ops /\ Name(p, o) = t.op /\ (o \in Shaped <=> t.op \in Shaped)
  BY <1>1, NameFacts
<1>6. /\ s0 \in Slots /\ s0[1] = o /\ Units(o, t.num) = n
      /\ <<Name(p, s0[1]), s0[2]>> = s
  <2> HIDE DEF t
  <2>1. s0 \in Slots /\ s0[1] = o
    BY <1>4, <1>5, SlotFacts
  <2>2. Units(Name(p, o), t.num) = Units(o, t.num)
    BY <1>4, <1>5, SlotRenamed
  <2>3. Slot(Name(p, o), t.num) = <<Name(p, o), Slot(o, t.num)[2]>>
    BY <1>4, <1>5, SlotRenamed
  <2>4. QED
    BY <1>5, <2>1, <2>2, <2>3
<1>7. /\ Renamed(p, tasks[p]) # <<>> /\ Head(Renamed(p, tasks[p])) = t0
      /\ Renamed(p, tasks[p])' = Tail(Renamed(p, tasks[p]))
  <2>1. /\ Renamed(p, tasks[p]) # <<>> /\ Head(Renamed(p, tasks[p])) = t0
        /\ Renamed(p, Tail(tasks[p])) = Tail(Renamed(p, tasks[p]))
    BY <1>1, <1>3, RenamedHeadTail
  <2>2. Renamed(p, tasks[p])' = Renamed(p, Tail(tasks[p]))
    BY <1>1 DEF Renamed
  <2>3. QED
    BY <2>1, <2>2
<1>8. t0.op = o /\ t0.num = t.num /\ t0.dest = t.dest
  BY DEF Task
<1>9. /\ MadeOf(p)[o] = made[p][t.op] /\ GotOf(p)[o] = got[p][t.op]
      /\ PoolOf(p)[s0] = pool[p][s]
  BY <1>5, <1>6 DEF MadeOf, GotOf, PoolOf
<1>10. [i \in 1 .. Units(o, t.num) |-> MadeOf(p)[o] + i] = new
  BY <1>6, <1>9
<1> HIDE DEF t, n, new, s, o, t0, s0
<1>11. \A u \in Ops \ {o} : Name(p, u) \in Ops \ {t.op}
  BY <1>5, NameFacts
<1>12. MadeOf(p)' = [MadeOf(p) EXCEPT ![o] = MadeOf(p)[o] + n]
  <2>1. MadeOf(p)' = [u \in Ops |-> made'[p][Name(p, u)]]
    BY DEF MadeOf
  <2>2. ASSUME NEW u \in Ops
        PROVE  made'[p][Name(p, u)] = IF u = o THEN MadeOf(p)[o] + n ELSE MadeOf(p)[u]
    <3>1. MadeOf(p)[u] = made[p][Name(p, u)]
      BY DEF MadeOf
    <3>2. QED
      BY <1>1, <1>5, <1>9, <1>11, <3>1
  <2>3. DOMAIN MadeOf(p) = Ops
    BY DEF MadeOf
  <2>4. QED
    BY <1>5, <2>1, <2>2, <2>3
<1>13. GotOf(p)' = IF t.dest = "cache" THEN GotOf(p)
                   ELSE [GotOf(p) EXCEPT ![o] = GotOf(p)[o] \o new]
  <2>1. CASE t.dest = "cache"
    BY <1>1, <2>1 DEF GotOf
  <2>2. CASE t.dest # "cache"
    <3>1. GotOf(p)' = [u \in Ops |-> got'[p][Name(p, u)]]
      BY DEF GotOf
    <3>2. ASSUME NEW u \in Ops
          PROVE  got'[p][Name(p, u)] = IF u = o THEN GotOf(p)[o] \o new ELSE GotOf(p)[u]
      <4>1. GotOf(p)[u] = got[p][Name(p, u)]
        BY DEF GotOf
      <4>2. QED
        BY <1>1, <1>5, <1>9, <1>11, <2>2, <4>1
    <3>3. DOMAIN GotOf(p) = Ops
      BY DEF GotOf
    <3>4. QED
      BY <1>5, <2>2, <3>1, <3>2, <3>3
  <2>3. QED
    BY <2>1, <2>2
<1>14. PoolOf(p)' = IF t.dest = "cache" THEN [PoolOf(p) EXCEPT ![s0] = PoolOf(p)[s0] \o new]
                    ELSE PoolOf(p)
  <2>1. CASE t.dest # "cache"
    BY <1>1, <2>1 DEF PoolOf
  <2>2. CASE t.dest = "cache"
    <3>1. PoolOf(p)' = [u \in Slots |-> pool'[p][<<Name(p, u[1]), u[2]>>]]
      BY DEF PoolOf
    <3>2. ASSUME NEW u \in Slots
          PROVE  pool'[p][<<Name(p, u[1]), u[2]>>] =
                   IF u = s0 THEN PoolOf(p)[s0] \o new ELSE PoolOf(p)[u]
      <4>1. PoolOf(p)[u] = pool[p][<<Name(p, u[1]), u[2]>>]
        BY DEF PoolOf
      <4>2. CASE u = s0
        BY <1>1, <1>6, <1>9, <2>2, <4>2
      <4>3. CASE u # s0
        <5>1. u[1] \in Ops /\ <<Name(p, u[1]), u[2]>> \in Slots
          BY SlotRenamed
        <5>2. u = <<u[1], u[2]>> /\ s0 = <<s0[1], s0[2]>>
          BY <1>6 DEF Slots
        <5>3. u[1] # s0[1] \/ u[2] # s0[2]
          BY <4>3, <5>2
        <5>4. u[1] # s0[1] => Name(p, u[1]) # Name(p, s0[1])
          BY <1>5, <1>6, <5>1, NameFacts
        <5>5. <<Name(p, u[1]), u[2]>> # s
          BY <1>6, <5>3, <5>4
        <5>6. QED
          BY <1>1, <2>2, <4>1, <4>3, <5>1, <5>5
      <4>4. QED
        BY <4>2, <4>3
    <3>3. DOMAIN PoolOf(p) = Slots
      BY DEF PoolOf
    <3>4. QED
      BY <1>6, <2>2, <3>1, <3>2, <3>3
  <2>3. QED
    BY <2>1, <2>2
<1>15. /\ at'[p] = at[p] /\ cached'[p] = cached[p] /\ inside'[p] = FALSE
       /\ CountsOf(p)' = CountsOf(p) /\ ShapesOf(p)' = ShapesOf(p)
       /\ BegunOf(p)' = BegunOf(p)
  BY <1>2 DEF CountsOf, ShapesOf, BegunOf
<1>16. Head(View(p).tasks) = t0 /\ Units(t0.op, t0.num) = n /\ Slot(t0.op, t0.num) = s0
  BY <1>6, <1>7, <1>8, ViewFields DEF s0
<1>17. [i \in 1 .. Units(t0.op, t0.num) |-> View(p).made[t0.op] + i] = new
  BY <1>8, <1>10, ViewFields
<1>18. View(p)' = AfterEnd(View(p))
  BY <1>7, <1>8, <1>12, <1>13, <1>14, <1>15, <1>16, <1>17, ViewFields
     DEF View, AfterEnd
<1>19. QED
  BY <1>2, <1>7, <1>18, ViewFields

-----------------------------------------------------------------------------
\* A step moves one rank, to its next state.

\* What is begun and handed out only grows.
Older(v, w) ==
  /\ IsPrefix(v.begun, w.begun)
  /\ \A op \in Ops : IsPrefix(v.got[op], w.got[op])

Generations == [op : Ops, num : Nat]
Histories == [Ops -> Seq(Nat \ {0})]

\* The types of what a view holds.
LEMMA ViewTypes ==
  ASSUME IInv, NEW p \in Ranks
  PROVE  /\ View(p).at \in Nat /\ View(p).begun \in Seq(Generations)
         /\ View(p).got \in Histories
         /\ (View(p).tasks = <<>> <=> tasks[p] = <<>>)
<1>1. at[p] \in Nat
  BY MaxEventsAssumption DEF IInv, TypeOK
<1>2. BegunOf(p) \in Seq(Generations)
  <2>1. begun[p] \in Seq(Generations)
    BY DEF IInv, TypeOK, Generations
  <2>2. ASSUME NEW i \in DOMAIN begun[p]
        PROVE  [op |-> Name(p, begun[p][i].op), num |-> begun[p][i].num] \in Generations
    <3>1. begun[p][i] \in Generations
      BY <2>1
    <3>2. begun[p][i].op \in Ops /\ begun[p][i].num \in Nat
      BY <3>1 DEF Generations
    <3>3. QED
      BY <3>2, NameFacts DEF Generations
  <2>3. DOMAIN begun[p] = 1 .. Len(begun[p]) /\ Len(begun[p]) \in Nat
    BY <2>1
  <2>4. QED
    BY <2>2, <2>3 DEF BegunOf
<1>3. GotOf(p) \in Histories
  <2>1. got \in [Ranks -> [Ops -> Seq(Nat \ {0})]]
    BY DEF IInv, TypeOK
  <2>2. QED
    BY <2>1, NameFacts DEF GotOf, Histories
<1>4. Renamed(p, tasks[p]) = <<>> <=> tasks[p] = <<>>
  <2>1. tasks[p] \in Seq(Tasks)
    BY DEF IInv, TaskInv
  <2>2. Renamed(p, tasks[p]) \in Seq(Tasks) /\ Len(Renamed(p, tasks[p])) = Len(tasks[p])
    BY <2>1, RenamedSeq
  <2>3. QED
    BY <2>1, <2>2
<1>5. QED
  BY <1>1, <1>2, <1>3, <1>4, ViewFields

\* They hold after every step too.
LEMMA ViewTypesNext ==
  IInv' => (\A p \in Ranks : /\ View(p).at \in Nat
                             /\ View(p).begun \in Seq(Generations)
                             /\ View(p).got \in Histories)'
<1>1. IInv => \A p \in Ranks : /\ View(p).at \in Nat
                               /\ View(p).begun \in Seq(Generations)
                               /\ View(p).got \in Histories
  BY ViewTypes
<1>2. QED
  BY <1>1, PTL

\* Streams of what is handed out grow at the end.
LEMMA GotGrows ==
  ASSUME IInv, NEW p \in Ranks, Step(p)
  PROVE  /\ \A op \in Ops : IsPrefix(got[p][op], got'[p][op])
         /\ \A q \in Ranks \ {p} : got'[q] = got[q]
<1>1. got \in [Ranks -> [Ops -> Seq(Nat \ {0})]]
  BY DEF IInv, TypeOK
<1>2. CASE UNCHANGED got
  BY <1>1, <1>2, PrefixReflexive
<1>3. ASSUME NEW r \in Requests, FromCache(p, r)
      PROVE  /\ \A op \in Ops : IsPrefix(got[p][op], got'[p][op])
             /\ \A q \in Ranks \ {p} : got'[q] = got[q]
  <2> DEFINE parts == Range(Parts(p, At(p, r.op)))
  <2>1. /\ \A q \in Ranks \ {p} : got'[q] = got[q]
        /\ \A o \in Ops \ parts : got'[p][o] = got[p][o]
        /\ \A o \in parts :
             LET s == Slot(o, r.num)
                 n == Units(o, r.num)
             IN  /\ s \in Slots /\ n \in Nat /\ n <= Len(pool[p][s])
                 /\ got'[p][o] = got[p][o] \o Taken(o, pool[p][s], n)
    <3>1. /\ cached[p] /\ parts \subseteq Ops
          /\ pool' \in [Ranks -> [Slots -> Seq(Nat \ {0})]]
          /\ got' \in [Ranks -> [Ops -> Seq(Nat \ {0})]]
          /\ \A q \in Ranks \ {p} : pool'[q] = pool[q] /\ got'[q] = got[q]
          /\ \A o \in Ops \ parts :
               /\ got'[p][o] = got[p][o]
               /\ \A s \in Slots : s[1] = o => pool'[p][s] = pool[p][s]
          /\ \A o \in parts :
               LET s == Slot(o, r.num)
                   n == Units(o, r.num)
               IN  /\ s \in Slots /\ n \in Nat /\ n <= Len(pool[p][s])
                   /\ got'[p][o] = got[p][o] \o Taken(o, pool[p][s], n)
                   /\ pool'[p][s] = Left(pool[p][s], n)
                   /\ \A u \in Slots \ {s} :
                        u[1] = o => pool'[p][u] = pool[p][u]
      BY <1>3, FromCacheFacts
    <3>2. QED
      BY <3>1
  <2> HIDE DEF parts
  <2>2. ASSUME NEW o \in Ops, o \in parts
        PROVE  IsPrefix(got[p][o], got'[p][o])
    <3> DEFINE s == Slot(o, r.num)
               n == Units(o, r.num)
    <3>1. /\ s \in Slots /\ n \in Nat /\ n <= Len(pool[p][s])
          /\ got'[p][o] = got[p][o] \o Taken(o, pool[p][s], n)
      BY <2>1, <2>2
    <3>2. pool[p][s] \in Seq(Nat \ {0}) /\ got[p][o] \in Seq(Nat \ {0})
      BY <1>1, <3>1 DEF IInv, TypeOK
    <3> HIDE DEF s, n
    <3>3. Taken(o, pool[p][s], n) \in Seq(Nat \ {0})
      BY <3>1, <3>2, TakenFacts
    <3>4. QED
      BY <3>1, <3>2, <3>3, PrefixConcat
  <2>3. \A o \in Ops \ parts : IsPrefix(got[p][o], got'[p][o])
    BY <1>1, <2>1, PrefixReflexive
  <2>4. QED
    BY <2>1, <2>2, <2>3
<1>4. ASSUME EndGeneration(p)
      PROVE  /\ \A op \in Ops : IsPrefix(got[p][op], got'[p][op])
             /\ \A q \in Ranks \ {p} : got'[q] = got[q]
  <2> DEFINE t == Head(tasks[p])
             new == [i \in 1 .. Units(t.op, t.num) |-> made[p][t.op] + i]
  <2>1. /\ t.op \in Ops /\ new \in Seq(Nat \ {0})
        /\ t.dest = "cache" => got' = got
        /\ t.dest # "cache" =>
             /\ got'[p][t.op] = got[p][t.op] \o new
             /\ \A o \in Ops \ {t.op} : got'[p][o] = got[p][o]
        /\ \A q \in Ranks \ {p} : got'[q] = got[q]
    BY <1>4, EndFacts
  <2> HIDE DEF t, new
  <2>2. CASE t.dest = "cache"
    BY <1>2, <2>1, <2>2
  <2>3. CASE t.dest # "cache"
    <3>1. IsPrefix(got[p][t.op], got'[p][t.op])
      <4>1. got[p][t.op] \in Seq(Nat \ {0}) /\ new \in Seq(Nat \ {0})
        BY <1>1, <2>1
      <4>2. IsPrefix(got[p][t.op], got[p][t.op] \o new)
        BY <4>1, PrefixConcat
      <4>3. QED
        BY <2>1, <2>3, <4>2
    <3>2. \A o \in Ops \ {t.op} : IsPrefix(got[p][o], got'[p][o])
      BY <1>1, <2>1, <2>3, PrefixReflexive
    <3>3. QED
      BY <2>1, <3>1, <3>2
  <2>4. QED
    BY <2>2, <2>3
<1>5. QED
  BY <1>2, <1>3, <1>4 DEF Step, DryRun, Uncached, ForceCache, BeginGeneration

\* A rank's histories only grow.
LEMMA StepOlder ==
  ASSUME IInv, NEW p \in Ranks, Step(p)
  PROVE  Older(View(p), View(p)')
<1>1. /\ View(p).begun = BegunOf(p) /\ View(p).got = GotOf(p)
      /\ BegunOf(p) \in Seq(Generations)
  BY ViewFields, ViewTypes
<1>2. /\ View(p)'.begun = BegunOf(p)' /\ View(p)'.got = GotOf(p)'
  BY DEF View, Rank
<1>3. \A op \in Ops : IsPrefix(GotOf(p)[op], GotOf(p)'[op])
  BY GotGrows, NameFacts DEF GotOf
<1>4. IsPrefix(BegunOf(p), BegunOf(p)')
  <2>1. CASE BeginGeneration(p)
    <3> DEFINE t == Head(View(p).tasks)
               b == [op |-> t.op, num |-> t.num]
    <3>1. BegunOf(p)' = Append(BegunOf(p), b)
      BY <1>1, <1>2, <2>1, ViewBegin DEF AfterBegin, Rank
    <3>2. b \in Generations
      <4>1. tasks[p] # <<>> /\ tasks[p] \in Seq(Tasks)
        BY <2>1 DEF BeginGeneration, IInv, TaskInv
      <4>2. Head(tasks[p]) \in Tasks
        BY <4>1, HeadTailProperties
      <4>3. t = Task(Name(p, Head(tasks[p]).op), Head(tasks[p]).num, Head(tasks[p]).dest)
        BY <4>1, RenamedHeadTail, ViewFields
      <4>4. t \in Tasks
        BY <4>2, <4>3, RenamedTask
      <4> HIDE DEF t
      <4>5. QED
        BY <4>4 DEF Tasks, Generations
    <3> HIDE DEF b
    <3>3. QED
      BY <1>1, <3>1, <3>2, PrefixAppend
  <2>2. CASE UNCHANGED begun
    <3>1. BegunOf(p)' = BegunOf(p)
      BY <2>2 DEF BegunOf
    <3>2. QED
      BY <1>1, <3>1, PrefixReflexive
  <2>3. QED
    BY <2>1, <2>2 DEF Step, DryRun, FromCache, Uncached, ForceCache, EndGeneration
<1>5. QED
  BY <1>1, <1>2, <1>3, <1>4 DEF Older

\* A step of one rank leaves the view of the other.
LEMMA OthersStay ==
  ASSUME IInv, NEW p \in Ranks, Step(p), NEW q \in Ranks \ {p}
  PROVE  View(q)' = View(q)
<1>1. /\ at \in [Ranks -> 0 .. MaxEvents] /\ cached \in [Ranks -> BOOLEAN]
      /\ counts \in [Ranks -> [Counted -> Nat]]
      /\ shapes \in [Ranks -> [Shaped -> Seq(Sizes)]]
      /\ pool \in [Ranks -> [Slots -> Seq(Nat \ {0})]]
      /\ tasks \in [Ranks -> Seq([op : Ops, num : Nat, dest : {"cache", "caller"}])]
      /\ inside \in [Ranks -> BOOLEAN] /\ begun \in [Ranks -> Seq([op : Ops, num : Nat])]
  BY DEF IInv, TypeOK
<1>2. /\ at'[q] = at[q] /\ cached'[q] = cached[q] /\ counts'[q] = counts[q]
      /\ shapes'[q] = shapes[q] /\ pool'[q] = pool[q] /\ tasks'[q] = tasks[q]
      /\ inside'[q] = inside[q] /\ begun'[q] = begun[q] /\ made'[q] = made[q]
      /\ got'[q] = got[q]
  <2>1. CASE \E r \in Requests : DryRun(p, r) \/ Uncached(p, r)
    BY <1>1, <2>1 DEF DryRun, Uncached, Event
  <2>2. CASE ForceCache(p) \/ BeginGeneration(p)
    BY <1>1, <2>2 DEF ForceCache, BeginGeneration, Event
  <2>3. CASE \E r \in Requests : FromCache(p, r)
    <3>1. PICK r \in Requests : FromCache(p, r)
      BY <2>3
    <3>2. pool'[q] = pool[q] /\ got'[q] = got[q]
      BY <3>1, FromCacheFacts
    <3>3. QED
      BY <1>1, <3>1, <3>2 DEF FromCache, Event
  <2>4. CASE EndGeneration(p)
    <3>1. /\ pool'[q] = pool[q] /\ got'[q] = got[q] /\ made'[q] = made[q]
          /\ tasks'[q] = tasks[q]
      BY <2>4, EndFacts
    <3>2. QED
      BY <1>1, <2>4, <3>1 DEF EndGeneration
  <2>5. QED
    BY <2>1, <2>2, <2>3, <2>4 DEF Step
<1>3. QED
  BY <1>2 DEF View, CountsOf, ShapesOf, PoolOf, Renamed, BegunOf, MadeOf, GotOf

\* The program only grows at its end.
LEMMA ProgramGrows ==
  ASSUME IInv, NEW p \in Ranks, Step(p)
  PROVE  /\ Len(prog) \in Nat /\ Len(prog') \in Nat /\ Len(prog) <= Len(prog')
         /\ \A i \in 1 .. Len(prog) : prog'[i] = prog[i]
<1>1. prog \in Seq(Events) /\ Len(prog) \in Nat
  BY DEF IInv, ProgramInv
<1>2. CASE UNCHANGED prog
  BY <1>1, <1>2
<1>3. ASSUME NEW e \in Events, Event(p, e)
      PROVE  /\ Len(prog') \in Nat /\ Len(prog) <= Len(prog')
             /\ \A i \in 1 .. Len(prog) : prog'[i] = prog[i]
  <2>1. prog' \in Seq(Events)
    BY <1>3, EventType
  <2>2. QED
    BY <1>3, <2>1, EventType
<1>4. /\ [do |-> "force_cache"] \in Events
      /\ \A r \in Requests : /\ [do |-> "dry run", req |-> r] \in Events
                             /\ [do |-> "request", req |-> r] \in Events
  BY DEF Events
<1>5. QED
  BY <1>1, <1>2, <1>3, <1>4
     DEF Step, DryRun, FromCache, Uncached, ForceCache, BeginGeneration, EndGeneration

\* What a rank does next is determined by its state and by the program.
LEMMA StepView ==
  ASSUME IInv, NEW p \in Ranks, Step(p)
  PROVE  /\ View(p)' = NextView(View(p), prog')
         /\ View(p).tasks = <<>> => View(p).at < Len(prog')
<1>1. View(p).at = at[p] /\ at[p] \in Nat /\ (View(p).tasks = <<>> <=> tasks[p] = <<>>)
  BY ViewFields, ViewTypes
<1>2. ASSUME NEW e \in Events, Event(p, e)
      PROVE  /\ prog'[View(p).at + 1] = e /\ View(p).at < Len(prog')
             /\ View(p).tasks = <<>>
  <2>1. /\ prog' \in Seq(Events) /\ at'[p] = at[p] + 1 /\ prog'[at'[p]] = e
        /\ at'[p] \in 1 .. Len(prog') /\ tasks[p] = <<>>
    BY <1>2, EventType
  <2>2. QED
    BY <1>1, <2>1
<1>3. ASSUME NEW r \in Requests, DryRun(p, r)
      PROVE  /\ View(p)' = NextView(View(p), prog')
             /\ View(p).tasks = <<>> => View(p).at < Len(prog')
  <2> DEFINE e == [do |-> "dry run", req |-> r]
  <2>1. e \in Events /\ e.do = "dry run" /\ e.req = r /\ Event(p, e)
    BY <1>3 DEF Events, DryRun
  <2> HIDE DEF e
  <2>2. NextView(View(p), prog') = AfterDryRun(View(p), r)
    BY <1>2, <2>1 DEF NextView, AfterEvent
  <2>3. QED
    BY <1>2, <1>3, <2>1, <2>2, ViewDryRun
<1>4. ASSUME ForceCache(p)
      PROVE  /\ View(p)' = NextView(View(p), prog')
             /\ View(p).tasks = <<>> => View(p).at < Len(prog')
  <2> DEFINE e == [do |-> "force_cache"]
  <2>1. e \in Events /\ e.do = "force_cache" /\ Event(p, e)
    BY <1>4 DEF Events, ForceCache
  <2> HIDE DEF e
  <2>2. NextView(View(p), prog') = AfterForce(View(p))
    BY <1>2, <2>1 DEF NextView, AfterEvent
  <2>3. QED
    BY <1>2, <1>4, <2>1, <2>2, ViewForce
<1>5. ASSUME NEW r \in Requests, FromCache(p, r)
      PROVE  /\ View(p)' = NextView(View(p), prog')
             /\ View(p).tasks = <<>> => View(p).at < Len(prog')
  <2> DEFINE e == [do |-> "request", req |-> r]
  <2>1. e \in Events /\ e.do = "request" /\ e.req = r /\ Event(p, e)
    BY <1>5 DEF Events, FromCache
  <2>2. HitOf(View(p), r)
    BY <1>5, HitRenamed DEF FromCache
  <2> HIDE DEF e
  <2>3. NextView(View(p), prog') = AfterHit(View(p), r)
    BY <1>2, <2>1, <2>2 DEF NextView, AfterEvent
  <2>4. QED
    BY <1>2, <1>5, <2>1, <2>3, ViewHit
<1>6. ASSUME NEW r \in Requests, Uncached(p, r)
      PROVE  /\ View(p)' = NextView(View(p), prog')
             /\ View(p).tasks = <<>> => View(p).at < Len(prog')
  <2> DEFINE e == [do |-> "request", req |-> r]
  <2>1. e \in Events /\ e.do = "request" /\ e.req = r /\ Event(p, e)
    BY <1>6 DEF Events, Uncached
  <2>2. ~HitOf(View(p), r)
    BY <1>6, HitRenamed DEF Uncached
  <2> HIDE DEF e
  <2>3. NextView(View(p), prog') = AfterMiss(View(p), r)
    BY <1>2, <2>1, <2>2 DEF NextView, AfterEvent
  <2>4. QED
    BY <1>2, <1>6, <2>1, <2>3, ViewMiss
<1>7. ASSUME BeginGeneration(p)
      PROVE  /\ View(p)' = NextView(View(p), prog')
             /\ View(p).tasks = <<>> => View(p).at < Len(prog')
  BY <1>7, ViewBegin DEF NextView
<1>8. ASSUME EndGeneration(p)
      PROVE  /\ View(p)' = NextView(View(p), prog')
             /\ View(p).tasks = <<>> => View(p).at < Len(prog')
  BY <1>8, ViewEnd DEF NextView
<1>9. QED
  BY <1>3, <1>4, <1>5, <1>6, <1>7, <1>8 DEF Step

-----------------------------------------------------------------------------
\* The ranks are at places of one path.

IsPath(n, path, pr) ==
  /\ \A k \in 0 .. n - 1 :
       /\ path[k + 1] = NextView(path[k], pr)
       /\ path[k].tasks = <<>> => path[k].at < Len(pr)
  /\ \A k \in 0 .. n :
       /\ path[k].at \in Nat /\ path[k].begun \in Seq(Generations)
       /\ path[k].got \in Histories
  /\ \A j, k \in 0 .. n : j <= k => Older(path[j], path[k])

OnPath(n, path) == \A p \in Ranks : \E k \in 0 .. n : path[k] = View(p)

PathInv == \E n \in Nat : \E path : IsPath(n, path, prog) /\ OnPath(n, path)

\* A program that grows keeps the paths it has.
LEMMA PathKept ==
  ASSUME IInv, NEW p \in Ranks, Step(p), NEW n \in Nat, NEW path,
         IsPath(n, path, prog)
  PROVE  IsPath(n, path, prog')
<1>1. ASSUME NEW k \in 0 .. n - 1
      PROVE  /\ path[k + 1] = NextView(path[k], prog')
             /\ path[k].tasks = <<>> => path[k].at < Len(prog')
  <2>1. /\ path[k + 1] = NextView(path[k], prog) /\ path[k].at \in Nat
        /\ path[k].tasks = <<>> => path[k].at < Len(prog)
    BY DEF IsPath
  <2>2. path[k].tasks = <<>> =>
          /\ path[k].at < Len(prog')
          /\ prog'[path[k].at + 1] = prog[path[k].at + 1]
    BY <2>1, ProgramGrows
  <2>3. NextView(path[k], prog') = NextView(path[k], prog)
    BY <2>2 DEF NextView
  <2>4. QED
    BY <2>1, <2>2, <2>3
<1>2. QED
  BY <1>1 DEF IsPath

\* Being as far or farther is transitive.
LEMMA OlderTransitive ==
  ASSUME NEW u, NEW v, NEW w, Older(u, v), Older(v, w),
         u.begun \in Seq(Generations), v.begun \in Seq(Generations),
         w.begun \in Seq(Generations),
         u.got \in Histories, v.got \in Histories, w.got \in Histories
  PROVE  Older(u, w)
<1>1. IsPrefix(u.begun, w.begun)
  BY PrefixTransitive DEF Older
<1>2. ASSUME NEW op \in Ops
      PROVE  IsPrefix(u.got[op], w.got[op])
  <2>1. /\ u.got[op] \in Seq(Nat \ {0}) /\ v.got[op] \in Seq(Nat \ {0})
        /\ w.got[op] \in Seq(Nat \ {0})
    BY DEF Histories
  <2>2. IsPrefix(u.got[op], v.got[op]) /\ IsPrefix(v.got[op], w.got[op])
    BY DEF Older
  <2>3. QED
    BY <2>1, <2>2, PrefixTransitive
<1>3. QED
  BY <1>1, <1>2 DEF Older

\* And reflexive.
LEMMA OlderReflexive ==
  ASSUME NEW v, v.begun \in Seq(Generations), v.got \in Histories
  PROVE  Older(v, v)
  BY PrefixReflexive DEF Older, Histories

\* A path goes on by one step of a rank at its end.
LEMMA PathExtended ==
  ASSUME NEW n \in Nat, NEW path, NEW pr, NEW w, IsPath(n, path, pr),
         w = NextView(path[n], pr), path[n].tasks = <<>> => path[n].at < Len(pr),
         w.at \in Nat, w.begun \in Seq(Generations), w.got \in Histories,
         Older(path[n], w)
  PROVE  IsPath(n + 1, [k \in 0 .. n + 1 |-> IF k <= n THEN path[k] ELSE w], pr)
<1> DEFINE new == [k \in 0 .. n + 1 |-> IF k <= n THEN path[k] ELSE w]
<1>1. (\A k \in 0 .. n : new[k] = path[k]) /\ new[n + 1] = w
  OBVIOUS
<1> HIDE DEF new
<1>2. ASSUME NEW k \in 0 .. n
      PROVE  /\ new[k + 1] = NextView(new[k], pr)
             /\ new[k].tasks = <<>> => new[k].at < Len(pr)
  <2>1. CASE k = n
    BY <1>1, <2>1
  <2>2. CASE k # n
    <3>1. k \in 0 .. n - 1 /\ k + 1 \in 0 .. n
      BY <2>2
    <3>2. QED
      BY <1>1, <3>1 DEF IsPath
  <2>3. QED
    BY <2>1, <2>2
<1>3. ASSUME NEW k \in 0 .. n + 1
      PROVE  /\ new[k].at \in Nat /\ new[k].begun \in Seq(Generations)
             /\ new[k].got \in Histories
  <2>1. CASE k = n + 1
    BY <1>1, <2>1
  <2>2. CASE k # n + 1
    <3>1. k \in 0 .. n
      BY <2>2
    <3>2. QED
      BY <1>1, <3>1 DEF IsPath
  <2>3. QED
    BY <2>1, <2>2
<1>4. ASSUME NEW j \in 0 .. n + 1, NEW k \in 0 .. n + 1, j <= k
      PROVE  Older(new[j], new[k])
  <2>1. CASE j = n + 1
    <3>1. k = n + 1
      BY <1>4, <2>1
    <3>2. QED
      BY <1>1, <2>1, <3>1, OlderReflexive
  <2>2. CASE j # n + 1 /\ k = n + 1
    <3>1. j \in 0 .. n /\ n \in 0 .. n /\ j <= n
      BY <2>2
    <3>2. Older(path[j], path[n])
      BY <3>1 DEF IsPath
    <3>3. /\ path[j].begun \in Seq(Generations) /\ path[j].got \in Histories
          /\ path[n].begun \in Seq(Generations) /\ path[n].got \in Histories
      BY <3>1 DEF IsPath
    <3>4. Older(path[j], w)
      BY <3>2, <3>3, OlderTransitive
    <3>5. QED
      BY <1>1, <2>2, <3>1, <3>4
  <2>3. CASE j # n + 1 /\ k # n + 1
    <3>1. j \in 0 .. n /\ k \in 0 .. n
      BY <2>3
    <3>2. QED
      BY <1>1, <1>4, <3>1 DEF IsPath
  <2>4. QED
    BY <2>1, <2>2, <2>3
<1>5. IsPath(n + 1, new, pr)
  <2>1. \A k \in 0 .. (n + 1) - 1 :
          /\ new[k + 1] = NextView(new[k], pr)
          /\ new[k].tasks = <<>> => new[k].at < Len(pr)
    BY <1>2
  <2>2. QED
    BY <1>3, <1>4, <2>1 DEF IsPath
<1>6. QED
  BY <1>5 DEF new

\* Both ranks start at the beginning of a path without steps.
LEMMA InitPath == Init => PathInv
<1> SUFFICES ASSUME Init
             PROVE  PathInv
  OBVIOUS
<1>1. IInv
  BY InitIInv
<1>2. View(1) = View(0)
  <2>1. /\ at[0] = at[1] /\ cached[0] = cached[1] /\ inside[0] = inside[1]
        /\ tasks[0] = <<>> /\ tasks[1] = <<>> /\ begun[0] = <<>> /\ begun[1] = <<>>
    BY DEF Init, Ranks
  <2>2. CountsOf(1) = CountsOf(0)
    <3>1. \A op \in Counted : op \in Ops /\ Name(1, op) \in Counted /\ Name(0, op) = op
      BY OpsAre, NameFacts DEF Counted, Ranks, Name
    <3>2. QED
      BY <3>1 DEF Init, CountsOf, Ranks
  <2>3. ShapesOf(1) = ShapesOf(0)
    <3>1. \A op \in Shaped : op \in Ops /\ Name(1, op) \in Shaped /\ Name(0, op) = op
      BY NameFacts DEF Shaped, Ranks, Name
    <3>2. QED
      BY <3>1 DEF Init, ShapesOf, Ranks
  <2>4. PoolOf(1) = PoolOf(0)
    <3>1. \A q \in Ranks : \A s \in Slots : <<Name(q, s[1]), s[2]>> \in Slots
      BY SlotRenamed
    <3>2. QED
      BY <3>1 DEF Init, PoolOf, Ranks, NoCache
  <2>5. MadeOf(1) = MadeOf(0) /\ GotOf(1) = GotOf(0)
    <3>1. \A op \in Ops : Name(1, op) \in Ops /\ Name(0, op) \in Ops
      BY NameFacts DEF Ranks
    <3>2. QED
      BY <3>1 DEF Init, MadeOf, GotOf, Ranks
  <2>6. Renamed(1, tasks[1]) = Renamed(0, tasks[0]) /\ BegunOf(1) = BegunOf(0)
    BY <2>1 DEF Renamed, BegunOf
  <2>7. QED
    BY <2>1, <2>2, <2>3, <2>4, <2>5, <2>6 DEF View
<1>3. /\ View(0).at \in Nat /\ View(0).begun \in Seq(Generations)
      /\ View(0).got \in Histories
  BY <1>1, ViewTypes DEF Ranks
<1> DEFINE path == [k \in {0} |-> View(0)]
<1>4. path[0] = View(0)
  OBVIOUS
<1> HIDE DEF path
<1>5. IsPath(0, path, prog)
  <2>1. 0 .. 0 - 1 = {} /\ \A k \in 0 .. 0 : k = 0
    OBVIOUS
  <2>2. Older(path[0], path[0])
    BY <1>3, <1>4, OlderReflexive
  <2>3. QED
    BY <1>3, <1>4, <2>1, <2>2 DEF IsPath
<1>6. OnPath(0, path)
  BY <1>2, <1>4 DEF OnPath, Ranks
<1>7. QED
  BY <1>5, <1>6 DEF PathInv

\* A rank inside the path follows it, a rank at its end prolongs it.
LEMMA StepPath ==
  ASSUME IInv, IInv', PathInv, NEW p \in Ranks, Step(p)
  PROVE  PathInv'
<1>1. PICK n \in Nat : \E path : IsPath(n, path, prog) /\ OnPath(n, path)
  BY DEF PathInv
<1>2. PICK path : IsPath(n, path, prog) /\ OnPath(n, path)
  BY <1>1
<1>3. PICK k \in 0 .. n : path[k] = View(p)
  BY <1>2 DEF OnPath
<1>4. PICK w : w = View(p)'
  OBVIOUS
<1>5. IsPath(n, path, prog')
  BY <1>2, PathKept
<1>6. /\ w = NextView(path[k], prog') /\ Older(path[k], w)
      /\ path[k].tasks = <<>> => path[k].at < Len(prog')
  BY <1>3, <1>4, StepView, StepOlder
<1>7. w.at \in Nat /\ w.begun \in Seq(Generations) /\ w.got \in Histories
  BY <1>4, ViewTypesNext
<1>8. ASSUME NEW q \in Ranks \ {p}
      PROVE  \E j \in 0 .. n : path[j] = View(q)'
  BY <1>2, OthersStay DEF OnPath
<1>9. CASE k < n
  <2>1. k \in 0 .. n - 1 /\ k + 1 \in 0 .. n
    BY <1>9
  <2>2. path[k + 1] = w
    BY <1>5, <1>6, <2>1 DEF IsPath
  <2>3. OnPath(n, path)'
    BY <1>4, <1>8, <2>1, <2>2 DEF OnPath
  <2>4. QED
    BY <1>5, <2>3 DEF PathInv
<1>10. CASE k = n
  <2> DEFINE new == [j \in 0 .. n + 1 |-> IF j <= n THEN path[j] ELSE w]
  <2>1. IsPath(n + 1, new, prog')
    BY <1>5, <1>6, <1>7, <1>10, PathExtended
  <2>2. /\ \A j \in 0 .. n : new[j] = path[j] /\ j \in 0 .. n + 1
        /\ new[n + 1] = w /\ n + 1 \in 0 .. n + 1
    OBVIOUS
  <2> HIDE DEF new
  <2>3. OnPath(n + 1, new)'
    BY <1>4, <1>8, <2>2 DEF OnPath
  <2>4. n + 1 \in Nat
    OBVIOUS
  <2>5. QED
    BY <2>1, <2>3, <2>4 DEF PathInv
<1>11. QED
  BY <1>9, <1>10

\* What the invariants say together: TLC checks its first two parts and the
\* consequences of the third.
AllInv == IInv /\ Fresh /\ PathInv

\* Every step keeps all of it.
LEMMA NextAllInv == AllInv /\ [Next]_vars => AllInv'
<1> SUFFICES ASSUME AllInv, [Next]_vars
             PROVE  AllInv'
  OBVIOUS
<1>1. IInv' /\ Fresh'
  BY NextIInv, NextFresh DEF AllInv
<1>2. CASE UNCHANGED vars
  <2>1. prog' = prog /\ \A p \in Ranks : View(p)' = View(p)
    BY <1>2 DEF vars, View, CountsOf, ShapesOf, PoolOf, Renamed, BegunOf, MadeOf, GotOf
  <2>2. \A n, path : OnPath(n, path)' <=> OnPath(n, path)
    BY <2>1 DEF OnPath
  <2>3. PathInv'
    BY <2>1, <2>2 DEF AllInv, PathInv
  <2>4. QED
    BY <1>1, <2>3 DEF AllInv
<1>3. ASSUME NEW p \in Ranks, Step(p)
      PROVE  AllInv'
  BY <1>1, <1>3, StepPath DEF AllInv
<1>4. QED
  BY <1>2, <1>3 DEF Next, Finished

\* So it always holds.
LEMMA AlwaysAllInv == Spec => []AllInv
<1>1. Init => AllInv
  BY InitIInv, InitFresh, InitPath DEF AllInv
<1>2. QED
  BY <1>1, NextAllInv, PTL DEF Spec

-----------------------------------------------------------------------------
\* Theorems.

\* One of the ranks is as far as the other or behind it.
LEMMA OneIsOlder ==
  ASSUME PathInv
  PROVE  Older(View(0), View(1)) \/ Older(View(1), View(0))
<1>1. PICK n \in Nat : \E path : IsPath(n, path, prog) /\ OnPath(n, path)
  BY DEF PathInv
<1>2. PICK path : IsPath(n, path, prog) /\ OnPath(n, path)
  BY <1>1
<1>3. PICK j \in 0 .. n : path[j] = View(0)
  BY <1>2 DEF OnPath, Ranks
<1>4. PICK k \in 0 .. n : path[k] = View(1)
  BY <1>2 DEF OnPath, Ranks
<1>5. j <= k \/ k <= j
  OBVIOUS
<1>6. QED
  BY <1>2, <1>3, <1>4, <1>5 DEF IsPath

\* It is so after every step too.
LEMMA OneIsOlderNext ==
  PathInv' => Older(View(0), View(1))' \/ Older(View(1), View(0))'
<1>1. PathInv => Older(View(0), View(1)) \/ Older(View(1), View(0))
  BY OneIsOlder
<1>2. QED
  BY <1>1, PTL

\* The ranks enter the same generations in the same order, for every program
\* and however far one rank is ahead.
THEOREM SameGenerations == Spec => []GenerationsMatch
<1>1. AllInv => GenerationsMatch
  <2> SUFFICES ASSUME AllInv, NEW i \in DOMAIN begun[0] \cap DOMAIN begun[1]
               PROVE  /\ begun[1][i].op = Dual[begun[0][i].op]
                      /\ begun[1][i].num = begun[0][i].num
    BY DEF GenerationsMatch
  <2>1. /\ begun[0] \in Seq(Generations) /\ begun[1] \in Seq(Generations)
        /\ begun[0][i] \in Generations /\ begun[1][i] \in Generations
    <3>1. begun[0] \in Seq(Generations) /\ begun[1] \in Seq(Generations)
      BY DEF AllInv, IInv, TypeOK, Ranks, Generations
    <3>2. QED
      BY <3>1
  <2>2. /\ BegunOf(0) \in Seq(Generations) /\ BegunOf(1) \in Seq(Generations)
        /\ View(0).begun = BegunOf(0) /\ View(1).begun = BegunOf(1)
    BY ViewTypes, ViewFields DEF AllInv, Ranks
  <2>3. /\ BegunOf(0)[i] = [op |-> begun[0][i].op, num |-> begun[0][i].num]
        /\ BegunOf(1)[i] = [op |-> Dual[begun[1][i].op], num |-> begun[1][i].num]
        /\ DOMAIN BegunOf(0) = DOMAIN begun[0] /\ DOMAIN BegunOf(1) = DOMAIN begun[1]
    BY DEF BegunOf, Name
  <2>4. IsPrefix(BegunOf(0), BegunOf(1)) \/ IsPrefix(BegunOf(1), BegunOf(0))
    BY <2>2, OneIsOlder DEF AllInv, Older
  <2>5. i \in 1 .. Len(BegunOf(0)) /\ i \in 1 .. Len(BegunOf(1))
    BY <2>2, <2>3
  <2>6. BegunOf(0)[i] = BegunOf(1)[i]
    BY <2>2, <2>4, <2>5, PrefixElements
  <2>7. begun[0][i].op = Dual[begun[1][i].op] /\ begun[0][i].num = begun[1][i].num
    BY <2>3, <2>6
  <2>8. begun[1][i].op \in Ops
    BY <2>1 DEF Generations
  <2>9. QED
    BY <2>7, <2>8, DualFacts
<1>2. QED
  BY <1>1, AlwaysAllInv, PTL

\* Every operation's correlations are one stream for the two ranks.
THEOREM OneStream == Spec => Streams
<1> DEFINE A == \A op \in Ops :
             \/ UNCHANGED Handed(op)
             \/ \E p \in Ranks : Stream!Delivery(Handed(op), Handed(op)', p)
<1>1. Init => \A op \in Ops : Stream!Start(Handed(op))
  BY NameFacts DEF Init, Handed, Stream!Start
<1>2. AllInv /\ AllInv' /\ [Next]_vars => [A]_got
  <2> SUFFICES ASSUME AllInv, AllInv', NEW p \in Ranks, Step(p), NEW op \in Ops,
                      Handed(op)' # Handed(op)
               PROVE  Stream!Delivery(Handed(op), Handed(op)', p)
    BY DEF Next, Finished, vars
  <2> DEFINE o == Name(p, op)
             g == Handed(op)
             h == Handed(op)'
  <2>1. /\ o \in Ops /\ At(p, op) = o
        /\ g = [q \in Ranks |-> got[q][Name(q, op)]]
        /\ h = [q \in Ranks |-> got'[q][Name(q, op)]]
    BY NameFacts DEF Handed
  <2> HIDE DEF g, h
  <2>2. IsPrefix(got[p][o], got'[p][o]) /\ \A q \in Ranks \ {p} : got'[q] = got[q]
    BY <2>1, GotGrows DEF AllInv
  <2> HIDE DEF o
  <2>3. /\ g[p] = got[p][o] /\ h[p] = got'[p][o]
        /\ \A q \in Ranks \ {p} : h[q] = g[q]
    BY <2>1, <2>2 DEF o
  <2>4. IsStrictPrefix(g[p], h[p])
    <3>1. h # g
      BY DEF g, h
    <3>2. h[p] # g[p]
      BY <2>1, <2>3, <3>1
    <3>3. QED
      BY <2>2, <2>3, <3>2 DEF IsStrictPrefix
  <2>5. IsInjective(h[p]) /\ 0 \notin Range(h[p])
    <3>1. FreshInv(p, o)'
      BY <2>1 DEF AllInv, Fresh, o
    <3>2. IsInjective(got'[p][o]) /\ Range(got'[p][o]) \subseteq 1 .. made'[p][o]
      BY <3>1 DEF FreshInv, Made, o
    <3>3. QED
      BY <2>3, <3>2
  <2>6. ASSUME NEW q \in Ranks \ {p}
        PROVE  h[q] = g[q] /\ Stream!Agree(h[p], g[q])
    <3>1. h[q] = g[q]
      BY <2>3
    <3>2. /\ View(0)'.got = GotOf(0)' /\ View(1)'.got = GotOf(1)'
      BY DEF View, Rank
    <3>3. GotOf(p)'[op] = h[p] /\ GotOf(q)'[op] = h[q]
      BY <2>1 DEF GotOf
    <3>4. Older(View(0), View(1))' \/ Older(View(1), View(0))'
      BY OneIsOlderNext DEF AllInv
    <3>5. IsPrefix(GotOf(0)'[op], GotOf(1)'[op]) \/ IsPrefix(GotOf(1)'[op], GotOf(0)'[op])
      BY <3>2, <3>4 DEF Older
    <3>6. (p = 0 /\ q = 1) \/ (p = 1 /\ q = 0)
      BY DEF Ranks
    <3>7. QED
      BY <3>1, <3>3, <3>5, <3>6 DEF Stream!Agree, Stream!IsPrefix, IsPrefix
  <2>7. QED
    BY <2>4, <2>5, <2>6 DEF Stream!Delivery, Stream!IsStrictPrefix,
       Stream!IsPrefix, Stream!IsInjective, Stream!Range, IsStrictPrefix,
       IsPrefix, IsInjective, Range, g, h
<1>3. QED
  BY <1>1, <1>2, AlwaysAllInv, PTL DEF Spec, Streams

-----------------------------------------------------------------------------
\* What the cache holds is enough for what the dry runs foresaw.

\* What event k of a program takes from a vector of rank p, as Demand counts
\* it, and what the events i .. j take.
Takes(P, p, kind, s, k) ==
  IF P[k].do # kind THEN 0
  ELSE LET r == P[k].req
       IN IF \E o \in Range(Parts(p, At(p, r.op))) : s = Slot(o, r.num)
            THEN Units(s[1], r.num) ELSE 0
Taking(P, p, kind, i, j, s) == [k \in i .. j |-> Takes(P, p, kind, s, k)]
Total(P, p, kind, i, j, s) ==
  MapThenSumSet(LAMBDA k : Takes(P, p, kind, s, k), i .. j)

\* A total is a sum of natural numbers.
Adds(P, p, kind, i, j, s) ==
  /\ IsFiniteSet(i .. j) /\ Taking(P, p, kind, i, j, s) \in [i .. j -> Nat]
  /\ \E g : /\ IsSum(g, Taking(P, p, kind, i, j, s), i .. j)
           /\ Total(P, p, kind, i, j, s) = g[i .. j]

\* Demand is the total of the program.
LEMMA DemandIs ==
  \A p, kind, i, j, s : Demand(p, kind, i, j, s) = Total(prog, p, kind, i, j, s)
  BY DEF Demand, Total, Takes, MapThenSumSet, MapThenFoldSet

Counting == {"dry run", "request"}

\* A total is a sum of what single events take.
LEMMA TakesType ==
  ASSUME NEW P \in Seq(Events), NEW p \in Ranks, NEW kind \in Counting, NEW s \in Slots
  PROVE  \A k \in 1 .. Len(P) : Takes(P, p, kind, s, k) \in Nat
<1> SUFFICES ASSUME NEW k \in 1 .. Len(P), P[k].do = kind
             PROVE  Takes(P, p, kind, s, k) \in Nat
  BY DEF Takes
<1>1. P[k] \in Events
  OBVIOUS
<1>2. P[k].req \in Requests
  <2>1. P[k] # [do |-> "force_cache"]
    <3>1. [do |-> "force_cache"].do = "force_cache" /\ P[k].do # "force_cache"
      BY DEF Counting
    <3>2. QED
      BY <3>1
  <2>2. P[k] \in [do : {"dry run", "request"}, req : Requests]
    BY <1>1, <2>1 DEF Events
  <2>3. QED
    BY <2>2
<1>3. P[k].req.num \in Nat /\ Units(s[1], P[k].req.num) \in Nat
  BY <1>2, RequestFacts DEF Units
<1>4. QED
  BY <1>3 DEF Takes

\* So it is a sum as MapThenSumSet defines it.
LEMMA TotalIs ==
  ASSUME NEW P \in Seq(Events), NEW p \in Ranks, NEW kind \in Counting, NEW s \in Slots,
         NEW i \in Nat \ {0}, NEW j \in Nat, j <= Len(P)
  PROVE  Adds(P, p, kind, i, j, s)
<1> DEFINE w == [k \in i .. j |-> Takes(P, p, kind, s, k)]
           S == i .. j
           IsIt(g) == g = [T \in SUBSET S |->
             IF T = {} THEN 0
             ELSE LET x == CHOOSE x \in T : TRUE
                  IN Takes(P, p, kind, s, x) + g[T \ {x}]]
<1>1. \A k \in i .. j : k \in 1 .. Len(P)
  OBVIOUS
<1>2. w \in [S -> Nat] /\ IsFiniteSet(S)
  <2>1. \A k \in S : Takes(P, p, kind, s, k) \in Nat
    BY <1>1, TakesType
  <2>2. IsFiniteSet(S)
    BY FS_Interval
  <2>3. QED
    BY <2>1, <2>2
<1>3. PICK g : IsSum(g, w, S)
  BY <1>2, SumExists
<1>4. \A h : IsIt(h) <=> IsSum(h, w, S)
  <2> SUFFICES ASSUME NEW h
               PROVE  IsIt(h) <=> IsSum(h, w, S)
    OBVIOUS
  <2>1. \A T \in SUBSET S : T # {} => (CHOOSE x \in T : TRUE) \in S
    OBVIOUS
  <2>2. \A T \in SUBSET S :
          (IF T = {} THEN 0
           ELSE LET x == CHOOSE x \in T : TRUE
                IN Takes(P, p, kind, s, x) + h[T \ {x}])
          = (IF T = {} THEN 0
             ELSE LET x == CHOOSE x \in T : TRUE IN w[x] + h[T \ {x}])
    BY <2>1
  <2> DEFINE a == [T \in SUBSET S |->
               IF T = {} THEN 0
               ELSE LET x == CHOOSE x \in T : TRUE
                    IN Takes(P, p, kind, s, x) + h[T \ {x}]]
             b == [T \in SUBSET S |->
               IF T = {} THEN 0
               ELSE LET x == CHOOSE x \in T : TRUE IN w[x] + h[T \ {x}]]
  <2>3. a = b
    BY <2>2
  <2>4. IsIt(h) <=> h = a
    OBVIOUS
  <2>5. IsSum(h, w, S) <=> h = b
    BY DEF IsSum
  <2> HIDE DEF a, b, IsIt, S, w
  <2>6. QED
    BY <2>3, <2>4, <2>5
<1> DEFINE total == CHOOSE h : IsIt(h)
<1>5. Total(P, p, kind, i, j, s) = total[S]
  BY DEF Total, MapThenSumSet, MapThenFoldSet
<1> HIDE DEF IsIt
<1>6. IsIt(total)
  BY <1>3, <1>4
<1>7. QED
  BY <1>2, <1>4, <1>5, <1>6 DEF Taking, Adds

\* No event takes nothing, and a total is that of all events but the last and
\* of the last.
LEMMA TotalFacts ==
  ASSUME NEW P \in Seq(Events), NEW p \in Ranks, NEW kind \in Counting, NEW s \in Slots,
         NEW i \in Nat \ {0}, NEW j \in Nat, j <= Len(P)
  PROVE  /\ Total(P, p, kind, i, j, s) \in Nat
         /\ j < i => Total(P, p, kind, i, j, s) = 0
         /\ j >= i => Total(P, p, kind, i, j, s)
                        = Total(P, p, kind, i, j - 1, s) + Takes(P, p, kind, s, j)
<1>1. PICK w, S : w = Taking(P, p, kind, i, j, s) /\ S = i .. j
  OBVIOUS
<1>2. /\ IsFiniteSet(S) /\ w \in [S -> Nat]
      /\ \E g : IsSum(g, w, S) /\ Total(P, p, kind, i, j, s) = g[S]
  <2>1. Adds(P, p, kind, i, j, s)
    BY TotalIs
  <2>2. QED
    BY <1>1, <2>1 DEF Adds
<1>3. PICK g : IsSum(g, w, S) /\ Total(P, p, kind, i, j, s) = g[S]
  BY <1>2
<1>4. \A T \in SUBSET S : g[T] \in Nat /\ \A x \in T : g[T] = w[x] + g[T \ {x}]
  BY <1>2, <1>3, SumElement
<1>5. g[S] \in Nat /\ \A x \in S : g[S] = w[x] + g[S \ {x}]
  BY <1>4
<1>6. ASSUME j < i
      PROVE  Total(P, p, kind, i, j, s) = 0
  <2>1. S = {} /\ S \in SUBSET S
    BY <1>1, <1>6
  <2>2. QED
    BY <1>3, <2>1, SumValue
<1>7. ASSUME j >= i
      PROVE  Total(P, p, kind, i, j, s)
               = Total(P, p, kind, i, j - 1, s) + Takes(P, p, kind, s, j)
  <2>1. PICK k \in Nat : k = j - 1 /\ k <= Len(P)
    BY <1>7
  <2>2. PICK v, U : v = Taking(P, p, kind, i, k, s) /\ U = i .. k
    OBVIOUS
  <2>3. /\ IsFiniteSet(U) /\ v \in [U -> Nat]
        /\ \E h : IsSum(h, v, U) /\ Total(P, p, kind, i, k, s) = h[U]
    <3>1. Adds(P, p, kind, i, k, s)
      BY <2>1, TotalIs
    <3>2. QED
      BY <2>2, <3>1 DEF Adds
  <2>4. PICK h : IsSum(h, v, U) /\ Total(P, p, kind, i, k, s) = h[U]
    BY <2>3
  <2>5. U \in SUBSET S /\ U \in SUBSET U /\ j \in S /\ S \ {j} = U
    BY <1>1, <1>7, <2>1, <2>2
  <2>6. w[j] = Takes(P, p, kind, s, j)
    BY <1>1, <2>5 DEF Taking
  <2>7. \A x \in U : w[x] = v[x]
    BY <1>1, <2>2, <2>5 DEF Taking
  <2>8. g[U] = h[U]
    BY <1>3, <2>3, <2>4, <2>5, <2>7, SumSame, SMTT(60)
  <2>9. h[U] \in Nat /\ w[j] \in Nat
    BY <1>2, <1>4, <2>5, <2>8
  <2>10. QED
    BY <1>3, <1>5, <2>1, <2>4, <2>5, <2>6, <2>8, <2>9
<1>8. QED
  BY <1>3, <1>5, <1>6, <1>7

\* The same, with a name for the number before.
LEMMA TotalStep ==
  ASSUME NEW P \in Seq(Events), NEW p \in Ranks, NEW kind \in Counting, NEW s \in Slots,
         NEW i \in Nat \ {0}, NEW h \in Nat, NEW j \in Nat, j = h + 1, j <= Len(P), i <= j
  PROVE  Total(P, p, kind, i, j, s)
           = Total(P, p, kind, i, h, s) + Takes(P, p, kind, s, j)
<1>1. j >= i /\ h = j - 1
  OBVIOUS
<1>2. j >= i => Total(P, p, kind, i, j, s)
                  = Total(P, p, kind, i, j - 1, s) + Takes(P, p, kind, s, j)
  BY TotalFacts
<1>3. Total(P, p, kind, i, j, s)
        = Total(P, p, kind, i, j - 1, s) + Takes(P, p, kind, s, j)
  BY <1>1, <1>2
<1>4. QED
  BY <1>1, <1>3

\* Programs that agree take the same.
LEMMA TotalSame ==
  ASSUME NEW P \in Seq(Events), NEW Q \in Seq(Events), NEW p \in Ranks,
         NEW kind \in Counting, NEW s \in Slots,
         NEW i \in Nat \ {0}, NEW j \in Nat, j <= Len(P), j <= Len(Q),
         \A k \in 1 .. j : P[k] = Q[k]
  PROVE  Total(P, p, kind, i, j, s) = Total(Q, p, kind, i, j, s)
<1>1. PICK w, v, S : /\ w = Taking(P, p, kind, i, j, s)
                     /\ v = Taking(Q, p, kind, i, j, s) /\ S = i .. j
  OBVIOUS
<1>2. /\ IsFiniteSet(S) /\ S \in SUBSET S
      /\ \E g : IsSum(g, w, S) /\ Total(P, p, kind, i, j, s) = g[S]
      /\ \E h : IsSum(h, v, S) /\ Total(Q, p, kind, i, j, s) = h[S]
  <2>1. Adds(P, p, kind, i, j, s)
    BY TotalIs
  <2>2. Adds(Q, p, kind, i, j, s)
    BY TotalIs
  <2>3. QED
    BY <1>1, <2>1, <2>2 DEF Adds
<1>3. PICK g : IsSum(g, w, S) /\ Total(P, p, kind, i, j, s) = g[S]
  BY <1>2
<1>4. PICK h : IsSum(h, v, S) /\ Total(Q, p, kind, i, j, s) = h[S]
  BY <1>2
<1>5. \A k \in S : w[k] = v[k]
  <2>1. \A k \in S : P[k] = Q[k]
    BY <1>1
  <2>2. \A k \in S : Takes(P, p, kind, s, k) = Takes(Q, p, kind, s, k)
    BY <2>1 DEF Takes
  <2>3. QED
    BY <1>1, <2>2 DEF Taking
<1>6. QED
  BY <1>2, <1>3, <1>4, <1>5, SumSame

\* What a generation brings into a vector of the cache.
Gain(t, s) ==
  IF t.dest = "cache" /\ Slot(t.op, t.num) = s THEN Units(t.op, t.num) ELSE 0

\* The generations ts bring at least n into it: c counts what those after the
\* i-th bring.
Supplies(ts, s, n) ==
  \E c \in [0 .. Len(ts) -> Nat] :
    /\ c[Len(ts)] = 0 /\ n <= c[0]
    /\ \A i \in 1 .. Len(ts) : c[i - 1] = Gain(ts[i], s) + c[i]

\* A generation brings a natural number.
LEMMA GainType ==
  \A t \in Tasks, s \in Slots : Gain(t, s) \in Nat
  BY DEF Gain, Tasks, Units

\* No generation brings nothing.
LEMMA SuppliesNone ==
  ASSUME NEW s \in Slots
  PROVE  Supplies(<<>>, s, 0)
<1> DEFINE c == [i \in 0 .. 0 |-> 0]
<1>1. /\ c \in [0 .. Len(<<>>) -> Nat] /\ c[Len(<<>>)] = 0 /\ 0 <= c[0]
      /\ \A i \in 1 .. Len(<<>>) : c[i - 1] = Gain(<<>>[i], s) + c[i]
  OBVIOUS
<1> HIDE DEF c
<1>2. QED
  BY <1>1 DEF Supplies

\* Two sequences of generations bring what each of them brings.
LEMMA SuppliesConcat ==
  ASSUME NEW a \in Seq(Tasks), NEW b \in Seq(Tasks), NEW s \in Slots,
         NEW m \in Nat, NEW n \in Nat, Supplies(a, s, m), Supplies(b, s, n)
  PROVE  a \o b \in Seq(Tasks) /\ Supplies(a \o b, s, m + n)
<1>1. PICK c \in [0 .. Len(a) -> Nat] :
        /\ c[Len(a)] = 0 /\ m <= c[0]
        /\ \A i \in 1 .. Len(a) : c[i - 1] = Gain(a[i], s) + c[i]
  BY DEF Supplies
<1>2. PICK d \in [0 .. Len(b) -> Nat] :
        /\ d[Len(b)] = 0 /\ n <= d[0]
        /\ \A i \in 1 .. Len(b) : d[i - 1] = Gain(b[i], s) + d[i]
  BY DEF Supplies
<1>3. PICK A, B : A = Len(a) /\ B = Len(b)
  OBVIOUS
<1>4. A \in Nat /\ B \in Nat
  BY <1>3
<1>5. PICK u : u = a \o b
  OBVIOUS
<1>6. /\ u \in Seq(Tasks) /\ Len(u) = A + B
      /\ \A i \in 1 .. A + B : u[i] = IF i <= A THEN a[i] ELSE b[i - A]
  BY <1>3, <1>5, ConcatProperties
<1> DEFINE e == [i \in 0 .. A + B |-> IF i <= A THEN c[i] + d[0] ELSE d[i - A]]
<1>7. /\ \A i \in 0 .. A : c[i] \in Nat
      /\ \A i \in 0 .. B : d[i] \in Nat
      /\ c[A] = 0 /\ m <= c[0] /\ d[B] = 0 /\ n <= d[0]
  BY <1>1, <1>2, <1>3
<1>8. e \in [0 .. A + B -> Nat]
  <2>1. ASSUME NEW i \in 0 .. A + B
        PROVE  (IF i <= A THEN c[i] + d[0] ELSE d[i - A]) \in Nat
    <3>1. CASE i <= A
      <4>1. c[i] \in Nat /\ d[0] \in Nat
        BY <1>4, <1>7, <3>1
      <4>2. QED
        BY <3>1, <4>1
    <3>2. CASE ~(i <= A)
      <4>1. i - A \in 0 .. B
        BY <1>4, <3>2
      <4>2. QED
        BY <1>7, <3>2, <4>1
    <3>3. QED
      BY <3>1, <3>2
  <2>2. QED
    BY <2>1
<1>9. e[A + B] = 0 /\ m + n <= e[0]
  <2>1. e[0] = c[0] + d[0] /\ c[0] \in Nat /\ d[0] \in Nat
    BY <1>4, <1>7
  <2>2. m + n <= e[0]
    BY <1>7, <2>1
  <2>3. CASE B = 0
    <3>1. A + B = A /\ A \in 0 .. A + B /\ d[0] = 0
      BY <1>4, <1>7, <2>3
    <3>2. e[A + B] = c[A] + d[0]
      BY <1>4, <3>1
    <3>3. QED
      BY <1>7, <2>2, <3>1, <3>2
  <2>4. CASE B # 0
    <3>1. ~(A + B <= A) /\ (A + B) - A = B /\ A + B \in 0 .. A + B
      BY <1>4, <2>4
    <3>2. e[A + B] = d[B]
      BY <3>1
    <3>3. QED
      BY <1>7, <2>2, <3>2
  <2>5. QED
    BY <2>2, <2>3, <2>4
<1>10. ASSUME NEW i \in 1 .. A + B
       PROVE  e[i - 1] = Gain(u[i], s) + e[i]
  <2>1. CASE i <= A
    <3>1. /\ i \in 1 .. A /\ i - 1 \in 0 .. A + B /\ i - 1 <= A /\ i \in 0 .. A + B
          /\ i \in 0 .. A /\ i - 1 \in 0 .. A
      BY <1>4, <2>1
    <3>2. /\ u[i] = a[i] /\ e[i] = c[i] + d[0] /\ e[i - 1] = c[i - 1] + d[0]
          /\ c[i - 1] = Gain(a[i], s) + c[i] /\ a[i] \in Tasks
      BY <1>1, <1>3, <1>6, <2>1, <3>1
    <3>3. c[i] \in Nat /\ c[i - 1] \in Nat /\ d[0] \in Nat /\ Gain(a[i], s) \in Nat
      BY <1>4, <1>7, <3>1, <3>2, GainType
    <3> HIDE DEF e
    <3>4. QED
      BY <3>2, <3>3
  <2>2. CASE i = A + 1
    <3>1. /\ i - A = 1 /\ 1 \in 1 .. B /\ ~(i <= A) /\ i - 1 = A /\ A \in 0 .. A + B
          /\ i \in 0 .. A + B
      BY <1>4, <2>2
    <3>2. /\ u[i] = b[1] /\ e[i] = d[1] /\ e[i - 1] = c[A] + d[0]
          /\ d[0] = Gain(b[1], s) + d[1] /\ c[A] = 0 /\ d[0] \in Nat
      <4>1. d[1 - 1] = Gain(b[1], s) + d[1] /\ 1 - 1 = 0
        BY <1>2, <1>3, <3>1
      <4>2. QED
        BY <1>4, <1>6, <1>7, <3>1, <4>1
    <3> HIDE DEF e
    <3>3. QED
      BY <3>2
  <2>3. CASE i > A + 1
    <3>1. /\ i - A \in 1 .. B /\ ~(i <= A) /\ ~(i - 1 <= A)
          /\ (i - 1) - A = (i - A) - 1 /\ i - 1 \in 0 .. A + B /\ i \in 0 .. A + B
      BY <1>4, <2>3
    <3>2. u[i] = b[i - A] /\ e[i] = d[i - A] /\ e[i - 1] = d[(i - A) - 1]
      BY <1>6, <3>1
    <3>3. d[(i - A) - 1] = Gain(b[i - A], s) + d[i - A]
      BY <1>2, <1>3, <3>1
    <3> HIDE DEF e
    <3>4. QED
      BY <3>2, <3>3
  <2>4. QED
    BY <1>4, <2>1, <2>2, <2>3
<1> HIDE DEF e
<1>11. /\ e \in [0 .. Len(u) -> Nat] /\ e[Len(u)] = 0 /\ m + n <= e[0]
       /\ \A i \in 1 .. Len(u) : e[i - 1] = Gain(u[i], s) + e[i]
  BY <1>6, <1>8, <1>9, <1>10
<1>12. Supplies(u, s, m + n)
  BY <1>11 DEF Supplies
<1>13. QED
  BY <1>5, <1>6, <1>12

\* One brings what it brings.
LEMMA SuppliesOne ==
  ASSUME NEW t \in Tasks, NEW s \in Slots
  PROVE  <<t>> \in Seq(Tasks) /\ Supplies(<<t>>, s, Gain(t, s))
<1>1. PICK n \in Nat : n = Gain(t, s)
  BY GainType
<1>2. PICK ts : ts = <<t>>
  OBVIOUS
<1>3. ts \in Seq(Tasks) /\ Len(ts) = 1 /\ ts[1] = t
  BY <1>2
<1> DEFINE c == [i \in 0 .. 1 |-> IF i = 0 THEN n ELSE 0]
<1>4. c \in [0 .. 1 -> Nat] /\ c[0] = n /\ c[1] = 0
  OBVIOUS
<1> HIDE DEF c
<1>5. \A i \in 1 .. 1 : c[i - 1] = Gain(ts[i], s) + c[i]
  <2>1. \A i \in 1 .. 1 : i = 1 /\ i - 1 = 0
    OBVIOUS
  <2>2. c[0] = Gain(ts[1], s) + c[1]
    BY <1>1, <1>3, <1>4
  <2>3. QED
    BY <2>1, <2>2
<1>6. Supplies(ts, s, n)
  BY <1>3, <1>4, <1>5 DEF Supplies
<1>7. QED
  BY <1>1, <1>2, <1>3, <1>6

\* What brings some brings less.
LEMMA SuppliesLess ==
  ASSUME NEW ts, NEW s, NEW m \in Nat, NEW n \in Nat, m <= n, Supplies(ts, s, n)
  PROVE  Supplies(ts, s, m)
<1>1. PICK c \in [0 .. Len(ts) -> Nat] :
        /\ c[Len(ts)] = 0 /\ n <= c[0]
        /\ \A i \in 1 .. Len(ts) : c[i - 1] = Gain(ts[i], s) + c[i]
  BY DEF Supplies
<1>2. QED
  BY <1>1 DEF Supplies

\* Every sequence of generations supplies something.
LEMMA SuppliesAny ==
  ASSUME NEW ts \in Seq(Tasks), NEW s \in Slots
  PROVE  Supplies(ts, s, 0)
<1> DEFINE N == {n \in Nat : \A b \in Seq(Tasks) : Len(b) = n => Supplies(b, s, 0)}
<1>1. 0 \in N
  <2>1. \A b \in Seq(Tasks) : Len(b) = 0 => b = <<>>
    OBVIOUS
  <2>2. QED
    BY <2>1, SuppliesNone
<1>2. ASSUME NEW n \in Nat, n \in N
      PROVE  n + 1 \in N
  <2> SUFFICES ASSUME NEW b \in Seq(Tasks), Len(b) = n + 1
               PROVE  Supplies(b, s, 0)
    OBVIOUS
  <2>1. PICK f : f = [i \in 1 .. n |-> b[i]]
    OBVIOUS
  <2>2. f \in Seq(Tasks) /\ Len(f) = n /\ b[n + 1] \in Tasks /\ b = Append(f, b[n + 1])
    BY <2>1, FrontAndLast
  <2>3. PICK t \in Tasks : t = b[n + 1]
    BY <2>2
  <2>4. b = f \o <<t>>
    BY <2>2, <2>3, AppendIsConcat
  <2>5. PICK one, g : one = <<t>> /\ g = Gain(t, s)
    OBVIOUS
  <2>6. one \in Seq(Tasks) /\ Supplies(one, s, g) /\ g \in Nat
    BY <2>5, SuppliesOne, GainType
  <2>7. Supplies(f, s, 0)
    BY <1>2, <2>2
  <2>8. Supplies(f \o one, s, 0 + g)
    BY <2>2, <2>6, <2>7, SuppliesConcat
  <2>9. 0 <= 0 + g
    BY <2>6
  <2>10. QED
    BY <2>4, <2>5, <2>6, <2>8, <2>9, SuppliesLess
<1> HIDE DEF N
<1>3. Nat \subseteq N
  BY <1>1, <1>2, NatSetInduction
<1>4. QED
  BY <1>3 DEF N

\* What the others bring once the first has.
LEMMA SuppliesTail ==
  ASSUME NEW ts \in Seq(Tasks), ts # <<>>, NEW s \in Slots, NEW n \in Nat,
         Supplies(ts, s, n)
  PROVE  \E m \in Nat : Supplies(Tail(ts), s, m) /\ n <= Gain(Head(ts), s) + m
<1>1. PICK c \in [0 .. Len(ts) -> Nat] :
        /\ c[Len(ts)] = 0 /\ n <= c[0]
        /\ \A i \in 1 .. Len(ts) : c[i - 1] = Gain(ts[i], s) + c[i]
  BY DEF Supplies
<1>2. /\ Len(ts) \in Nat /\ Len(ts) >= 1 /\ Len(Tail(ts)) = Len(ts) - 1
      /\ Head(ts) = ts[1] /\ \A j \in 1 .. Len(ts) - 1 : Tail(ts)[j] = ts[j + 1]
  BY HeadTailProperties
<1>3. PICK k, u : k = Len(ts) - 1 /\ u = Tail(ts)
  OBVIOUS
<1>4. k \in Nat /\ Len(ts) = k + 1 /\ Len(u) = k /\ \A j \in 1 .. k : u[j] = ts[j + 1]
  BY <1>2, <1>3
<1>5. \A i \in 0 .. k : c[i + 1] \in Nat /\ i + 1 \in 0 .. k + 1
  BY <1>4
<1> DEFINE d == [i \in 0 .. k |-> c[i + 1]]
<1>6. d \in [0 .. k -> Nat] /\ d[k] = 0 /\ d[0] = c[1]
  BY <1>1, <1>4, <1>5
<1>7. ASSUME NEW i \in 1 .. k
      PROVE  d[i - 1] = Gain(u[i], s) + d[i]
  <2>1. i + 1 \in 1 .. k + 1 /\ (i + 1) - 1 = i /\ (i - 1) + 1 = i /\ i - 1 \in 0 .. k
    BY <1>4
  <2>2. c[(i + 1) - 1] = Gain(ts[i + 1], s) + c[i + 1]
    BY <1>1, <1>4, <2>1
  <2>3. QED
    BY <1>4, <2>1, <2>2
<1>8. c[0] = Gain(ts[1], s) + c[1]
  <2>1. c[1 - 1] = Gain(ts[1], s) + c[1]
    BY <1>1, <1>2
  <2>2. QED
    BY <2>1
<1> HIDE DEF d
<1>9. d[0] \in Nat /\ Supplies(u, s, d[0])
  <2>1. /\ d \in [0 .. Len(u) -> Nat] /\ d[Len(u)] = 0 /\ 0 \in 0 .. k
        /\ \A i \in 1 .. Len(u) : d[i - 1] = Gain(u[i], s) + d[i]
    BY <1>4, <1>6, <1>7
  <2>2. d[0] \in Nat /\ d[0] <= d[0]
    BY <1>4, <1>6, <2>1
  <2>3. QED
    BY <2>1, <2>2 DEF Supplies
<1>10. n <= Gain(Head(ts), s) + d[0]
  BY <1>1, <1>2, <1>6, <1>8
<1>11. QED
  BY <1>3, <1>9, <1>10

\* The largest of some numbers up to n.
LEMMA MaxFacts ==
  ASSUME NEW n \in Nat, NEW S \in SUBSET (0 .. n), S # {}
  PROVE  Max(S) \in S /\ \A x \in S : x <= Max(S)
<1> DEFINE N == {k \in Nat : \A T \in SUBSET (0 .. k) :
                   T # {} => \E x \in T : \A y \in T : x >= y}
<1>1. 0 \in N
  <2>1. ASSUME NEW T \in SUBSET (0 .. 0), T # {}
        PROVE  \E x \in T : \A y \in T : x >= y
    <3>1. \A x \in T : x = 0
      BY <2>1
    <3>2. PICK x \in T : TRUE
      BY <2>1
    <3>3. \A y \in T : x >= y
      BY <3>1
    <3>4. QED
      BY <3>2, <3>3
  <2>2. QED
    BY <2>1
<1>2. ASSUME NEW k \in Nat, k \in N
      PROVE  k + 1 \in N
  <2> SUFFICES ASSUME NEW T \in SUBSET (0 .. k + 1), T # {}
               PROVE  \E x \in T : \A y \in T : x >= y
    OBVIOUS
  <2>1. CASE k + 1 \in T
    BY <2>1
  <2>2. CASE k + 1 \notin T
    <3>1. T \in SUBSET (0 .. k)
      BY <2>2
    <3>2. QED
      BY <1>2, <3>1
  <2>3. QED
    BY <2>1, <2>2
<1> HIDE DEF N
<1>3. n \in N
  BY <1>1, <1>2, NatSetInduction
<1>4. \E x \in S : \A y \in S : x >= y
  BY <1>3 DEF N
<1>5. Max(S) \in S /\ \A y \in S : Max(S) >= y
  BY <1>4 DEF Max
<1>6. QED
  BY <1>5

\* The last force_cache among the first n events.
LastAt(P, n) == Max({0} \cup {i \in 1 .. n : P[i].do = "force_cache"})

\* There is none at the start, and the next event is one or leaves it; programs
\* that agree have the same.
LEMMA LastFacts ==
  ASSUME NEW P, NEW n \in Nat
  PROVE  /\ LastAt(P, n) \in 0 .. n
         /\ LastAt(P, 0) = 0
         /\ P[n + 1].do = "force_cache" => LastAt(P, n + 1) = n + 1
         /\ P[n + 1].do # "force_cache" => LastAt(P, n + 1) = LastAt(P, n)
         /\ \A Q : (\A i \in 1 .. n : P[i] = Q[i]) => LastAt(Q, n) = LastAt(P, n)
<1> DEFINE Forced(Q, k) == {0} \cup {i \in 1 .. k : Q[i].do = "force_cache"}
<1>1. \A Q, k : LastAt(Q, k) = Max(Forced(Q, k))
  BY DEF LastAt
<1>2. ASSUME NEW Q, NEW k \in Nat
      PROVE  /\ Max(Forced(Q, k)) \in Forced(Q, k)
             /\ \A x \in Forced(Q, k) : x <= Max(Forced(Q, k))
  <2>1. Forced(Q, k) \in SUBSET (0 .. k) /\ Forced(Q, k) # {}
    OBVIOUS
  <2> HIDE DEF Forced
  <2>2. QED
    BY <2>1, MaxFacts
<1>3. LastAt(P, n) \in 0 .. n
  <2>1. Forced(P, n) \subseteq 0 .. n
    OBVIOUS
  <2> HIDE DEF Forced
  <2>2. Max(Forced(P, n)) \in Forced(P, n)
    BY <1>2
  <2>3. QED
    BY <1>1, <2>1, <2>2
<1>4. LastAt(P, 0) = 0
  <2>1. Max(Forced(P, 0)) \in Forced(P, 0)
    BY <1>2
  <2>2. Forced(P, 0) = {0}
    OBVIOUS
  <2> HIDE DEF Forced
  <2>3. QED
    BY <1>1, <2>1, <2>2
<1>5. ASSUME P[n + 1].do = "force_cache"
      PROVE  LastAt(P, n + 1) = n + 1
  <2>1. /\ n + 1 \in Forced(P, n + 1)
        /\ \A x \in Forced(P, n + 1) : x \in Nat /\ x <= n + 1
    BY <1>5
  <2> HIDE DEF Forced
  <2>2. PICK k \in Nat : k = n + 1
    OBVIOUS
  <2>3. /\ Max(Forced(P, k)) \in Forced(P, k)
        /\ \A x \in Forced(P, k) : x <= Max(Forced(P, k))
    BY <1>2
  <2>4. QED
    BY <1>1, <2>1, <2>2, <2>3
<1>6. ASSUME P[n + 1].do # "force_cache"
      PROVE  LastAt(P, n + 1) = LastAt(P, n)
  <2>1. Forced(P, n + 1) = Forced(P, n)
    BY <1>6
  <2> HIDE DEF Forced
  <2>2. QED
    BY <1>1, <2>1
<1>7. ASSUME NEW Q, \A i \in 1 .. n : P[i] = Q[i]
      PROVE  LastAt(Q, n) = LastAt(P, n)
  <2>1. Forced(P, n) = Forced(Q, n)
    BY <1>7
  <2> HIDE DEF Forced
  <2>2. QED
    BY <1>1, <2>1
<1> HIDE DEF Forced
<1>8. QED
  BY <1>3, <1>4, <1>5, <1>6, <1>7

-----------------------------------------------------------------------------
\* What the cache of a rank has, after n events of the program P.

\* A name for the kind of a dry run.
Dry == "dry run"

\* The two kinds of events that count, told apart.
LEMMA DryFacts ==
  /\ Dry \in Counting /\ "request" \in Counting
  /\ Dry # "request" /\ Dry # "force_cache"
  BY DEF Dry, Counting

\* What was counted before the last force_cache, and has been asked for since.
Foreseen(P, p, n, s) == Total(P, p, Dry, 1, LastAt(P, n), s)
Wanted(P, p, n, s) == Total(P, p, "request", LastAt(P, n) + 1, n, s)

Exceeded(P, p, n) == \E s \in Slots : Wanted(P, p, n, s) > Foreseen(P, p, n, s)

\* What the cache po holds and the generations ts bring is what is left.
Enough(P, p, n, ts, po) ==
  /\ \A i \in DOMAIN ts : ts[i].dest = "cache"
  /\ \A s \in Slots : \E m \in Nat :
       /\ Supplies(ts, s, m)
       /\ Foreseen(P, p, n, s) <= Len(po[s]) + m + Wanted(P, p, n, s)

StockOK(P, p, n, c, ts, po) ==
  LastAt(P, n) > 0 => c /\ (Exceeded(P, p, n) \/ Enough(P, p, n, ts, po))

\* What has been counted, and will be generated.
Each(op, shape) == [i \in DOMAIN shape |-> Fill(op, shape[i])]
CountsOK(P, p, n, count, shape) ==
  \A s \in Slots :
    /\ s[1] \in Counted => Total(P, p, Dry, 1, n, s) = count[s[1]]
    /\ s[1] \in Shaped =>
         Supplies(Each(s[1], shape[s[1]]), s, Total(P, p, Dry, 1, n, s))

\* These count events: naturals, and the same for programs that agree.
LEMMA ForeseenFacts ==
  ASSUME NEW P \in Seq(Events), NEW p \in Ranks, NEW s \in Slots, NEW n \in Nat,
         n <= Len(P)
  PROVE  /\ Foreseen(P, p, n, s) \in Nat /\ Wanted(P, p, n, s) \in Nat
         /\ LastAt(P, n) \in 0 .. n
         /\ \A Q \in Seq(Events) : n <= Len(Q) /\ (\A i \in 1 .. n : P[i] = Q[i]) =>
              /\ LastAt(Q, n) = LastAt(P, n)
              /\ Foreseen(Q, p, n, s) = Foreseen(P, p, n, s)
              /\ Wanted(Q, p, n, s) = Wanted(P, p, n, s)
<1>1. PICK L : L = LastAt(P, n)
  OBVIOUS
<1>2. /\ L \in Nat /\ L <= n /\ L <= Len(P)
      /\ Dry \in Counting /\ "request" \in Counting
  BY <1>1, LastFacts, DryFacts
<1>3. PICK a : a = 1
  OBVIOUS
<1>4. PICK b : b = L + 1
  OBVIOUS
<1>5. a \in Nat \ {0} /\ b \in Nat \ {0}
  BY <1>2, <1>3, <1>4
<1>6. /\ Total(P, p, Dry, a, L, s) \in Nat
      /\ Total(P, p, "request", b, n, s) \in Nat
  BY <1>2, <1>5, TotalFacts
<1>7. ASSUME NEW Q \in Seq(Events), n <= Len(Q), \A i \in 1 .. n : P[i] = Q[i]
      PROVE  /\ LastAt(Q, n) = L
             /\ Total(Q, p, Dry, a, L, s) = Total(P, p, Dry, a, L, s)
             /\ Total(Q, p, "request", b, n, s) = Total(P, p, "request", b, n, s)
  <2>1. LastAt(Q, n) = L
    BY <1>1, <1>7, LastFacts
  <2>2. L <= Len(Q) /\ \A i \in 1 .. L : P[i] = Q[i]
    <3>1. \A i \in 1 .. L : i \in 1 .. n
      BY <1>2
    <3>2. L <= Len(Q)
      BY <1>2, <1>7
    <3>3. QED
      BY <1>7, <3>1, <3>2
  <2>3. Total(P, p, Dry, a, L, s) = Total(Q, p, Dry, a, L, s)
    BY <1>2, <1>5, <2>2, TotalSame
  <2>4. Total(P, p, "request", b, n, s) = Total(Q, p, "request", b, n, s)
    BY <1>2, <1>7, <1>5, TotalSame
  <2>5. QED
    BY <2>1, <2>3, <2>4
<1>8. QED
  BY <1>1, <1>2, <1>6, <1>7, <1>3, <1>4 DEF Foreseen, Wanted

\* One more event: a dry run changes neither, a request what is wanted, and
\* force_cache starts again.
LEMMA ForeseenNext ==
  ASSUME NEW P \in Seq(Events), NEW p \in Ranks, NEW s \in Slots, NEW n \in Nat,
         n + 1 <= Len(P)
  PROVE  /\ P[n + 1].do # "force_cache" =>
              /\ LastAt(P, n + 1) = LastAt(P, n)
              /\ Foreseen(P, p, n + 1, s) = Foreseen(P, p, n, s)
              /\ Wanted(P, p, n + 1, s)
                   = Wanted(P, p, n, s) + Takes(P, p, "request", s, n + 1)
         /\ P[n + 1].do = "force_cache" =>
              /\ LastAt(P, n + 1) = n + 1 /\ Wanted(P, p, n + 1, s) = 0
              /\ Foreseen(P, p, n + 1, s) = Total(P, p, Dry, 1, n, s)
<1>1. PICK L : L = LastAt(P, n)
  OBVIOUS
<1>2. PICK k \in Nat : k = n + 1 /\ k - 1 = n /\ k <= Len(P)
  OBVIOUS
<1>3. /\ L \in Nat /\ L <= n
      /\ Dry \in Counting /\ "request" \in Counting
  BY <1>1, <1>2, LastFacts, DryFacts
<1>4. PICK a, b, c : a = 1 /\ b = L + 1 /\ c = k + 1
  OBVIOUS
<1>5. /\ a \in Nat \ {0} /\ b \in Nat \ {0} /\ c \in Nat \ {0}
      /\ b <= k /\ a <= k /\ k < c
  BY <1>2, <1>3, <1>4
<1>6. CASE P[n + 1].do # "force_cache"
  <2>1. LastAt(P, n + 1) = L
    BY <1>1, <1>6, LastFacts
  <2>2. Total(P, p, "request", b, k, s)
          = Total(P, p, "request", b, n, s) + Takes(P, p, "request", s, k)
    BY <1>2, <1>3, <1>5, TotalStep
  <2>3. QED
    BY <1>1, <1>2, <1>6, <1>4, <2>1, <2>2 DEF Foreseen, Wanted
<1>7. CASE P[n + 1].do = "force_cache"
  <2>1. LastAt(P, n + 1) = k
    BY <1>2, <1>7, LastFacts
  <2>2. Total(P, p, "request", c, k, s) = 0
    BY <1>2, <1>3, <1>5, TotalFacts
  <2>3. Total(P, p, Dry, a, k, s)
          = Total(P, p, Dry, a, n, s) + Takes(P, p, Dry, s, k)
    BY <1>2, <1>3, <1>5, TotalStep
  <2>4. Takes(P, p, Dry, s, k) = 0
    BY <1>2, <1>7, DryFacts DEF Takes
  <2>5. Total(P, p, Dry, a, n, s) \in Nat
    <3>1. n <= Len(P)
      OBVIOUS
    <3>2. QED
      BY <1>3, <1>5, <3>1, TotalFacts
  <2>6. QED
    BY <1>2, <1>7, <2>1, <2>2, <2>3, <2>4, <2>5, <1>4 DEF Foreseen, Wanted
<1>8. QED
  BY <1>6, <1>7

\* Programs that agree on n events have the same stock after them.
LEMMA StockSame ==
  ASSUME NEW P \in Seq(Events), NEW Q \in Seq(Events), NEW p \in Ranks, NEW n \in Nat,
         n <= Len(P), n <= Len(Q), \A i \in 1 .. n : P[i] = Q[i],
         NEW count, NEW shape, NEW c, NEW ts, NEW po
  PROVE  /\ CountsOK(P, p, n, count, shape) => CountsOK(Q, p, n, count, shape)
         /\ StockOK(P, p, n, c, ts, po) => StockOK(Q, p, n, c, ts, po)
<1>1. LastAt(P, n) = LastAt(Q, n)
  BY LastFacts
<1>2. \A s \in Slots : /\ Foreseen(P, p, n, s) = Foreseen(Q, p, n, s)
                       /\ Wanted(P, p, n, s) = Wanted(Q, p, n, s)
  BY ForeseenFacts
<1>3. \A s \in Slots : Total(P, p, Dry, 1, n, s) = Total(Q, p, Dry, 1, n, s)
  <2>1. PICK a : a = 1
    OBVIOUS
  <2>2. a \in Nat \ {0}
    BY <2>1
  <2>3. \A s \in Slots : Total(P, p, Dry, a, n, s) = Total(Q, p, Dry, a, n, s)
    BY <2>2, DryFacts, TotalSame
  <2>4. QED
    BY <2>1, <2>3
<1>4. CountsOK(P, p, n, count, shape) => CountsOK(Q, p, n, count, shape)
  BY <1>3 DEF CountsOK
<1>5. Exceeded(P, p, n) => Exceeded(Q, p, n)
  BY <1>2 DEF Exceeded
<1>6. Enough(P, p, n, ts, po) => Enough(Q, p, n, ts, po)
  BY <1>2 DEF Enough
<1>7. QED
  BY <1>1, <1>4, <1>5, <1>6 DEF StockOK

\* What an event takes from a vector of a rank: an event of another kind
\* nothing, a request the units of its parts.
LEMMA TakesFacts ==
  ASSUME NEW P, NEW p \in Ranks, NEW s \in Slots, NEW k, NEW r \in Requests,
         NEW kind \in Counting
  PROVE  /\ P[k].do # kind => Takes(P, p, kind, s, k) = 0
         /\ P[k] = [do |-> kind, req |-> r] =>
              /\ s[1] \notin Range(Parts(p, At(p, r.op)))
                   => Takes(P, p, kind, s, k) = 0
              /\ \A o \in Range(Parts(p, At(p, r.op))) : s[1] = o =>
                   Takes(P, p, kind, s, k) =
                     IF s = Slot(o, r.num) THEN Units(o, r.num) ELSE 0
<1>1. P[k].do # kind => Takes(P, p, kind, s, k) = 0
  BY DEF Takes
<1>2. ASSUME P[k] = [do |-> kind, req |-> r]
      PROVE  /\ s[1] \notin Range(Parts(p, At(p, r.op)))
                  => Takes(P, p, kind, s, k) = 0
             /\ \A o \in Range(Parts(p, At(p, r.op))) : s[1] = o =>
                  Takes(P, p, kind, s, k) =
                    IF s = Slot(o, r.num) THEN Units(o, r.num) ELSE 0
  <2>1. PICK parts : parts = Range(Parts(p, At(p, r.op)))
    OBVIOUS
  <2>2. P[k].do = kind /\ P[k].req = r
    BY <1>2
  <2>3. Takes(P, p, kind, s, k) =
          IF \E o \in parts : s = Slot(o, r.num) THEN Units(s[1], r.num) ELSE 0
    BY <2>1, <2>2 DEF Takes
  <2>4. \A o \in parts : Slot(o, r.num)[1] = o
    BY DEF Slot
  <2>5. QED
    BY <2>1, <2>3, <2>4
<1>3. QED
  BY <1>1, <1>2

\* The vectors there are.
LEMMA SlotsAre ==
  ASSUME NEW s \in Slots
  PROVE  /\ s[1] \in Ops
         /\ s[1] \in Counted => s = <<s[1], 0>> /\ \A n : Slot(s[1], n) = s
         /\ s[1] \in Shaped => \A n : Units(s[1], n) = 1
         /\ s[1] \in Counted => \A n : Units(s[1], n) = n
  BY OpsAre, ShapedAre DEF Slots, Slot, Units, Counted

-----------------------------------------------------------------------------
\* What is counted.

\* An event that is no dry run counts nothing.
LEMMA CountsOther ==
  ASSUME NEW P \in Seq(Events), NEW p \in Ranks, NEW n \in Nat, n + 1 <= Len(P),
         NEW count, NEW shape, CountsOK(P, p, n, count, shape), P[n + 1].do # Dry
  PROVE  CountsOK(P, p, n + 1, count, shape)
<1>1. PICK k \in Nat : k = n + 1
  OBVIOUS
<1>2. PICK a : a = 1
  OBVIOUS
<1>3. a \in Nat \ {0} /\ a <= k /\ k <= Len(P)
  BY <1>1, <1>2
<1>4. ASSUME NEW s \in Slots
      PROVE  Total(P, p, Dry, a, k, s) = Total(P, p, Dry, a, n, s)
  <2>1. Total(P, p, Dry, a, k, s) = Total(P, p, Dry, a, n, s) + Takes(P, p, Dry, s, k)
    BY <1>1, <1>3, DryFacts, TotalStep
  <2>2. Takes(P, p, Dry, s, k) = 0
    BY <1>1 DEF Takes
  <2>3. Total(P, p, Dry, a, n, s) \in Nat
    <3>1. n <= Len(P)
      BY <1>1, <1>3
    <3>2. QED
      BY <1>3, <3>1, DryFacts, TotalFacts
  <2>4. QED
    BY <2>1, <2>2, <2>3
<1>5. \A s \in Slots : Total(P, p, Dry, 1, n + 1, s) = Total(P, p, Dry, 1, n, s)
  BY <1>1, <1>2, <1>4
<1>6. QED
  BY <1>5 DEF CountsOK

\* A dry run counts the parts of its request.
LEMMA CountsDry ==
  ASSUME NEW P \in Seq(Events), NEW p \in Ranks, NEW n \in Nat, n + 1 <= Len(P),
         NEW r \in Requests, P[n + 1] = [do |-> Dry, req |-> r],
         NEW count \in [Counted -> Nat], NEW shape \in [Shaped -> Seq(Sizes)],
         NEW count2, NEW shape2, CountsOK(P, p, n, count, shape),
         count2 = [op \in Counted |-> IF op \in Range(Parts(p, At(p, r.op)))
                                        THEN count[op] + r.num ELSE count[op]],
         shape2 = [op \in Shaped |-> IF op \in Range(Parts(p, At(p, r.op)))
                                       THEN Append(shape[op], r.num) ELSE shape[op]]
  PROVE  CountsOK(P, p, n + 1, count2, shape2)
<1>1. PICK k \in Nat : k = n + 1
  OBVIOUS
<1>2. PICK a : a = 1
  OBVIOUS
<1>3. a \in Nat \ {0} /\ a <= k /\ k <= Len(P) /\ n <= Len(P)
  BY <1>1, <1>2
<1>4. PICK parts : parts = Range(Parts(p, At(p, r.op)))
  OBVIOUS
<1>5. parts \subseteq Ops /\ r.num \in Nat /\ r.num \in Sizes
  BY <1>4, PartsFacts, RequestFacts
<1>6. ASSUME NEW s \in Slots
      PROVE  /\ Total(P, p, Dry, a, n, s) \in Nat
             /\ Total(P, p, Dry, a, k, s)
                  = Total(P, p, Dry, a, n, s) + Takes(P, p, Dry, s, k)
             /\ s[1] \notin parts => Takes(P, p, Dry, s, k) = 0
             /\ s[1] \in parts => Takes(P, p, Dry, s, k) =
                  IF s = Slot(s[1], r.num) THEN Units(s[1], r.num) ELSE 0
  <2>1. Total(P, p, Dry, a, k, s) = Total(P, p, Dry, a, n, s) + Takes(P, p, Dry, s, k)
    BY <1>1, <1>3, DryFacts, TotalStep
  <2>2. Total(P, p, Dry, a, n, s) \in Nat
    BY <1>3, DryFacts, TotalFacts
  <2>3. P[k] = [do |-> Dry, req |-> r]
    BY <1>1
  <2>4. /\ s[1] \notin parts => Takes(P, p, Dry, s, k) = 0
        /\ \A o \in parts : s[1] = o => Takes(P, p, Dry, s, k) =
             IF s = Slot(o, r.num) THEN Units(o, r.num) ELSE 0
    BY <1>4, <2>3, DryFacts, TakesFacts
  <2>5. QED
    BY <2>1, <2>2, <2>4
<1>7. ASSUME NEW s \in Slots, s[1] \in Counted
      PROVE  Total(P, p, Dry, a, k, s) = count2[s[1]]
  <2>1. Total(P, p, Dry, a, n, s) = count[s[1]]
    BY <1>2, <1>7 DEF CountsOK
  <2>2. /\ s[1] \notin parts => Takes(P, p, Dry, s, k) = 0
        /\ s[1] \in parts => Takes(P, p, Dry, s, k) = r.num
    BY <1>6, <1>7, SlotsAre
  <2>3. count2[s[1]] = IF s[1] \in parts THEN count[s[1]] + r.num ELSE count[s[1]]
    BY <1>4, <1>7
  <2>4. Total(P, p, Dry, a, k, s)
          = Total(P, p, Dry, a, n, s) + Takes(P, p, Dry, s, k)
    BY <1>6
  <2>5. count[s[1]] \in Nat
    BY <1>7
  <2>6. QED
    BY <2>1, <2>2, <2>3, <2>4, <2>5
<1>8. ASSUME NEW s \in Slots, s[1] \in Shaped
      PROVE  Supplies(Each(s[1], shape2[s[1]]), s, Total(P, p, Dry, a, k, s))
  <2>1. PICK op, ns : op = s[1] /\ ns = shape[op]
    OBVIOUS
  <2>2. op \in Shaped /\ ns \in Seq(Sizes)
    BY <1>8, <2>1
  <2>3. PICK old, m : old = Each(op, ns) /\ m = Total(P, p, Dry, a, n, s)
    OBVIOUS
  <2>4. Supplies(old, s, m) /\ m \in Nat
    BY <1>2, <1>6, <1>8, <2>1, <2>3 DEF CountsOK
  <2>5. CASE op \notin parts
    <3>1. shape2[op] = ns /\ Takes(P, p, Dry, s, k) = 0
      BY <1>4, <1>6, <2>1, <2>2, <2>5
    <3>2. Total(P, p, Dry, a, k, s) = m
      <4>1. Total(P, p, Dry, a, k, s) = m + 0
        BY <1>6, <2>3, <3>1
      <4>2. QED
        BY <2>4, <4>1
    <3>3. QED
      BY <2>1, <2>3, <2>4, <3>1, <3>2
  <2>6. CASE op \in parts
    <3>1. PICK t, one, g : t = Fill(op, r.num) /\ one = <<t>> /\ g = Gain(t, s)
      OBVIOUS
    <3>2. t \in Tasks
      BY <1>5, <2>2, <3>1 DEF Fill, Task, Tasks, Shaped
    <3>3. one \in Seq(Tasks) /\ Supplies(one, s, g) /\ g \in Nat
      BY <3>1, <3>2, SuppliesOne, GainType
    <3>4. old \in Seq(Tasks)
      <4>1. \A i \in DOMAIN ns : Fill(op, ns[i]) \in Tasks
        <5>1. \A i \in DOMAIN ns : ns[i] \in Sizes /\ ns[i] \in Nat
          BY <2>2, RequestFacts
        <5>2. QED
          BY <2>2, <5>1 DEF Fill, Task, Tasks, Shaped
      <4>2. QED
        BY <2>2, <2>3, <4>1 DEF Each
    <3>5. Supplies(old \o one, s, m + g)
      BY <2>4, <3>3, <3>4, SuppliesConcat
    <3>6. Each(op, shape2[op]) = old \o one
      <4>1. shape2[op] = Append(ns, r.num)
        BY <1>4, <2>1, <2>2, <2>6
      <4>2. PICK z : z = shape2[op]
        OBVIOUS
      <4>3. PICK l : l = Len(ns)
        OBVIOUS
      <4>4. /\ l \in Nat /\ Len(z) = l + 1 /\ z[l + 1] = r.num /\ z \in Seq(Sizes)
            /\ \A i \in 1 .. l : z[i] = ns[i]
        BY <1>5, <2>2, <4>1, <4>2, <4>3
      <4>5. Each(op, z) = [i \in 1 .. l + 1 |-> Fill(op, z[i])]
        BY <4>4 DEF Each
      <4>6. PICK u : u = old \o one
        OBVIOUS
      <4>7. /\ u \in Seq(Tasks) /\ Len(u) = l + 1 /\ u[l + 1] = t
            /\ \A i \in 1 .. l : u[i] = Fill(op, ns[i])
        <5>1. old = [i \in 1 .. l |-> Fill(op, ns[i])]
          BY <2>2, <2>3, <4>3 DEF Each
        <5>2. Len(old) = l /\ Len(one) = 1 /\ one[1] = t /\ (l + 1) - l = 1
          BY <3>1, <3>4, <4>4, <5>1
        <5>3. /\ u \in Seq(Tasks) /\ Len(u) = l + 1
              /\ \A i \in 1 .. l + 1 : u[i] = IF i <= l THEN old[i] ELSE one[i - l]
          <6>1. PICK A, B : A = Len(old) /\ B = Len(one)
            OBVIOUS
          <6>2. /\ u \in Seq(Tasks) /\ Len(u) = A + B
                /\ \A i \in 1 .. A + B : u[i] = IF i <= A THEN old[i] ELSE one[i - A]
            BY <3>3, <3>4, <4>6, <6>1, ConcatProperties
          <6>3. QED
            BY <5>2, <6>1, <6>2
        <5>4. \A i \in 1 .. l : u[i] = Fill(op, ns[i])
          BY <4>4, <5>1, <5>3
        <5>5. u[l + 1] = t
          BY <4>4, <5>2, <5>3
        <5>6. QED
          BY <5>3, <5>4, <5>5
      <4>8. u = [i \in 1 .. l + 1 |-> u[i]]
        BY <4>4, <4>7
      <4>9. \A i \in 1 .. l + 1 : Fill(op, z[i]) = u[i]
        BY <3>1, <4>4, <4>7
      <4>10. QED
        BY <4>2, <4>5, <4>6, <4>8, <4>9
    <3>7. g = Takes(P, p, Dry, s, k)
      <4>1. t.dest = "cache" /\ t.op = op /\ t.num = r.num
        BY <3>1 DEF Fill, Task
      <4>2. g = IF s = Slot(op, r.num) THEN Units(op, r.num) ELSE 0
        BY <3>1, <4>1 DEF Gain
      <4>3. QED
        BY <1>6, <2>1, <2>6, <4>2
    <3>8. Total(P, p, Dry, a, k, s) = m + g
      BY <1>6, <2>3, <3>7
    <3>9. QED
      BY <2>1, <3>5, <3>6, <3>8
  <2>7. QED
    BY <2>5, <2>6
<1>9. QED
  BY <1>1, <1>2, <1>7, <1>8 DEF CountsOK

\* A request asks for naturals.
LEMMA RequestTakes ==
  ASSUME NEW P \in Seq(Events), NEW p \in Ranks, NEW s \in Slots, NEW n \in Nat,
         n + 1 <= Len(P)
  PROVE  Takes(P, p, "request", s, n + 1) \in Nat
<1>1. PICK k \in 1 .. Len(P) : k = n + 1
  OBVIOUS
<1>2. QED
  BY <1>1, DryFacts, TakesType

\* A vector asked for too much stays so until force_cache.
LEMMA ExceededStays ==
  ASSUME NEW P \in Seq(Events), NEW p \in Ranks, NEW n \in Nat, n + 1 <= Len(P),
         P[n + 1].do # "force_cache", Exceeded(P, p, n)
  PROVE  Exceeded(P, p, n + 1)
<1>1. PICK s \in Slots : Wanted(P, p, n, s) > Foreseen(P, p, n, s)
  BY DEF Exceeded
<1>2. PICK w, f, t : /\ w = Wanted(P, p, n, s) /\ f = Foreseen(P, p, n, s)
                     /\ t = Takes(P, p, "request", s, n + 1)
  OBVIOUS
<1>3. w \in Nat /\ f \in Nat /\ t \in Nat /\ w > f
  <2>1. n <= Len(P)
    OBVIOUS
  <2>2. QED
    BY <1>1, <1>2, <2>1, ForeseenFacts, RequestTakes
<1>4. Foreseen(P, p, n + 1, s) = f /\ Wanted(P, p, n + 1, s) = w + t
  BY <1>2, ForeseenNext
<1>5. Wanted(P, p, n + 1, s) > Foreseen(P, p, n + 1, s)
  BY <1>3, <1>4
<1>6. QED
  BY <1>5 DEF Exceeded

\* A dry run leaves the stock as it is.
LEMMA StockDry ==
  ASSUME NEW P \in Seq(Events), NEW p \in Ranks, NEW n \in Nat, n + 1 <= Len(P),
         P[n + 1].do = Dry, NEW c, NEW ts, NEW po, StockOK(P, p, n, c, ts, po)
  PROVE  StockOK(P, p, n + 1, c, ts, po)
<1>1. P[n + 1].do # "force_cache" /\ P[n + 1].do # "request"
  BY DryFacts
<1>2. LastAt(P, n + 1) = LastAt(P, n)
  BY <1>1, LastFacts
<1>3. ASSUME NEW s \in Slots
      PROVE  /\ Foreseen(P, p, n + 1, s) = Foreseen(P, p, n, s)
             /\ Wanted(P, p, n + 1, s) = Wanted(P, p, n, s)
  <2>1. Takes(P, p, "request", s, n + 1) = 0
    BY <1>1 DEF Takes
  <2>2. n <= Len(P)
    OBVIOUS
  <2>3. Wanted(P, p, n, s) \in Nat
    BY <2>2, ForeseenFacts
  <2>4. QED
    BY <1>1, <2>1, <2>3, ForeseenNext
<1>4. Exceeded(P, p, n) => Exceeded(P, p, n + 1)
  BY <1>3 DEF Exceeded
<1>5. Enough(P, p, n, ts, po) => Enough(P, p, n + 1, ts, po)
  BY <1>3 DEF Enough
<1>6. QED
  BY <1>2, <1>4, <1>5 DEF StockOK

\* A request leaves the stock enough when every vector loses no more than the
\* request takes from it.
LEMMA StockTake ==
  ASSUME NEW P \in Seq(Events), NEW p \in Ranks, NEW n \in Nat, n + 1 <= Len(P),
         P[n + 1].do = "request", NEW c, NEW ts,
         NEW po \in [Slots -> Seq(Nat \ {0})], NEW po2 \in [Slots -> Seq(Nat \ {0})],
         \A s \in Slots :
           Len(po[s]) <= Len(po2[s]) + Takes(P, p, "request", s, n + 1),
         StockOK(P, p, n, c, ts, po)
  PROVE  StockOK(P, p, n + 1, c, ts, po2)
<1>1. P[n + 1].do # "force_cache"
  OBVIOUS
<1>2. LastAt(P, n + 1) = LastAt(P, n)
  BY <1>1, LastFacts
<1>3. Exceeded(P, p, n) => Exceeded(P, p, n + 1)
  BY <1>1, ExceededStays
<1>4. ASSUME Enough(P, p, n, ts, po)
      PROVE  Enough(P, p, n + 1, ts, po2)
  <2>1. ASSUME NEW s \in Slots
        PROVE  \E m \in Nat :
                 /\ Supplies(ts, s, m)
                 /\ Foreseen(P, p, n + 1, s) <= Len(po2[s]) + m + Wanted(P, p, n + 1, s)
    <3>1. PICK m \in Nat : /\ Supplies(ts, s, m)
                           /\ Foreseen(P, p, n, s) <= Len(po[s]) + m + Wanted(P, p, n, s)
      BY <1>4 DEF Enough
    <3>2. PICK w, f, t : /\ w = Wanted(P, p, n, s) /\ f = Foreseen(P, p, n, s)
                         /\ t = Takes(P, p, "request", s, n + 1)
      OBVIOUS
    <3>3. PICK a, b : a = Len(po[s]) /\ b = Len(po2[s])
      OBVIOUS
    <3>4. w \in Nat /\ f \in Nat /\ t \in Nat
      <4>1. n <= Len(P)
        OBVIOUS
      <4>2. QED
        BY <3>2, <4>1, ForeseenFacts, RequestTakes
    <3>5. a \in Nat /\ b \in Nat /\ a <= b + t
      BY <3>2, <3>3
    <3>6. Foreseen(P, p, n + 1, s) = f /\ Wanted(P, p, n + 1, s) = w + t
      BY <1>1, <3>2, ForeseenNext
    <3>7. f <= a + m + w
      BY <3>1, <3>2, <3>3
    <3>8. f <= b + m + (w + t)
      BY <3>4, <3>5, <3>7
    <3>9. QED
      BY <3>1, <3>3, <3>6, <3>8
  <2>2. QED
    BY <1>4, <2>1 DEF Enough
<1>5. QED
  BY <1>2, <1>3, <1>4 DEF StockOK

\* A request the cache has too little for asks for more than was foreseen.
LEMMA StockMiss ==
  ASSUME NEW P \in Seq(Events), NEW p \in Ranks, NEW n \in Nat, n + 1 <= Len(P),
         NEW r \in Requests, P[n + 1] = [do |-> "request", req |-> r], NEW c,
         NEW po \in [Slots -> Seq(Nat \ {0})], StockOK(P, p, n, c, <<>>, po),
         c => \E o \in Range(Parts(p, At(p, r.op))) :
                ~(Len(po[Slot(o, r.num)]) >= Units(o, r.num)),
         LastAt(P, n) > 0
  PROVE  Exceeded(P, p, n + 1)
<1>1. P[n + 1].do # "force_cache" /\ P[n + 1].do = "request"
  OBVIOUS
<1>2. CASE Exceeded(P, p, n)
  BY <1>1, <1>2, ExceededStays
<1>3. CASE ~Exceeded(P, p, n)
  <2>1. c /\ Enough(P, p, n, <<>>, po)
    BY <1>3 DEF StockOK
  <2>2. PICK parts : parts = Range(Parts(p, At(p, r.op)))
    OBVIOUS
  <2>3. PICK o \in parts : ~(Len(po[Slot(o, r.num)]) >= Units(o, r.num))
    BY <2>1, <2>2
  <2>4. PICK s : s = Slot(o, r.num)
    OBVIOUS
  <2>5. s \in Slots /\ s[1] = o /\ Units(o, r.num) \in Nat
    <3>1. o \in Ops /\ r.num \in Nat /\ r.num \in Sizes
      BY <2>2, PartsFacts, RequestFacts
    <3>2. QED
      BY <2>4, <3>1, SlotFacts
  <2>6. PICK m \in Nat : /\ Supplies(<<>>, s, m)
                         /\ Foreseen(P, p, n, s) <= Len(po[s]) + m + Wanted(P, p, n, s)
    BY <2>1, <2>5 DEF Enough
  <2>7. m = 0
    <3>1. PICK g : g[Len(<<>>)] = 0 /\ m <= g[0]
      BY <2>6 DEF Supplies
    <3>2. QED
      BY <3>1
  <2>8. PICK w, f, t : /\ w = Wanted(P, p, n, s) /\ f = Foreseen(P, p, n, s)
                       /\ t = Takes(P, p, "request", s, n + 1)
    OBVIOUS
  <2>9. w \in Nat /\ f \in Nat /\ t \in Nat
    <3>1. n <= Len(P)
      OBVIOUS
    <3>2. QED
      BY <2>5, <2>8, <3>1, ForeseenFacts, RequestTakes
  <2>10. t = Units(o, r.num)
    <3>1. PICK k : k = n + 1
      OBVIOUS
    <3>2. P[k] = [do |-> "request", req |-> r]
      BY <3>1
    <3>3. \A q \in parts : s[1] = q => Takes(P, p, "request", s, k) =
            IF s = Slot(q, r.num) THEN Units(q, r.num) ELSE 0
      BY <2>2, <2>5, <3>2, DryFacts, TakesFacts
    <3>4. QED
      BY <2>4, <2>5, <2>8, <3>1, <3>3
  <2>11. Foreseen(P, p, n + 1, s) = f /\ Wanted(P, p, n + 1, s) = w + t
    BY <1>1, <2>5, <2>8, ForeseenNext
  <2>12. PICK a : a = Len(po[s])
    OBVIOUS
  <2>13. a \in Nat /\ a < t
    BY <2>3, <2>4, <2>5, <2>10, <2>12
  <2>14. f <= a + w
    BY <2>6, <2>7, <2>8, <2>9, <2>12, <2>13
  <2>15. Wanted(P, p, n + 1, s) > Foreseen(P, p, n + 1, s)
    BY <2>9, <2>11, <2>13, <2>14
  <2>16. QED
    BY <2>5, <2>15 DEF Exceeded
<1>4. QED
  BY <1>2, <1>3

\* A generation that returns moves what it brings into the cache.
LEMMA StockEnd ==
  ASSUME NEW P, NEW p, NEW n, NEW c, NEW ts \in Seq(Tasks), ts # <<>>,
         NEW po \in [Slots -> Seq(Nat \ {0})], NEW po2 \in [Slots -> Seq(Nat \ {0})],
         \A s \in Slots : Foreseen(P, p, n, s) \in Nat /\ Wanted(P, p, n, s) \in Nat,
         ts[1].dest = "cache" => \A s \in Slots :
           Len(po2[s]) = Len(po[s]) + Gain(ts[1], s),
         StockOK(P, p, n, c, ts, po)
  PROVE  StockOK(P, p, n, c, Tail(ts), po2)
<1>1. PICK t, u : t = ts[1] /\ u = Tail(ts)
  OBVIOUS
<1>2. /\ Len(ts) \in Nat /\ Len(ts) >= 1 /\ Len(u) = Len(ts) - 1
      /\ Head(ts) = t /\ \A j \in 1 .. Len(ts) - 1 : u[j] = ts[j + 1]
  BY <1>1, HeadTailProperties
<1>3. t \in Tasks /\ u \in Seq(Tasks)
  BY <1>1, <1>2
<1>4. ASSUME Enough(P, p, n, ts, po)
      PROVE  Enough(P, p, n, u, po2)
  <2>1. t.dest = "cache" /\ \A i \in DOMAIN u : u[i].dest = "cache"
    <3>1. \A i \in 1 .. Len(ts) : ts[i].dest = "cache"
      BY <1>4 DEF Enough
    <3>2. DOMAIN u = 1 .. Len(ts) - 1
      BY <1>2, <1>3
    <3>3. QED
      BY <1>1, <1>2, <3>1, <3>2
  <2>2. ASSUME NEW s \in Slots
        PROVE  \E m \in Nat :
                 /\ Supplies(u, s, m)
                 /\ Foreseen(P, p, n, s) <= Len(po2[s]) + m + Wanted(P, p, n, s)
    <3>1. PICK m \in Nat : /\ Supplies(ts, s, m)
                           /\ Foreseen(P, p, n, s) <= Len(po[s]) + m + Wanted(P, p, n, s)
      BY <1>4 DEF Enough
    <3>2. PICK l \in Nat : Supplies(u, s, l) /\ m <= Gain(t, s) + l
      BY <1>1, <1>2, <3>1, SuppliesTail
    <3>3. PICK w, f, g : /\ w = Wanted(P, p, n, s) /\ f = Foreseen(P, p, n, s)
                         /\ g = Gain(t, s)
      OBVIOUS
    <3>4. PICK a, b : a = Len(po[s]) /\ b = Len(po2[s])
      OBVIOUS
    <3>5. /\ w \in Nat /\ f \in Nat /\ g \in Nat /\ a \in Nat /\ b \in Nat
          /\ b = a + g /\ f <= a + m + w /\ m <= g + l
      BY <1>1, <1>3, <2>1, <3>1, <3>2, <3>3, <3>4, GainType
    <3>6. f <= b + l + w
      BY <3>5
    <3>7. QED
      BY <3>2, <3>3, <3>4, <3>6
  <2>3. QED
    BY <2>1, <2>2 DEF Enough
<1>5. QED
  BY <1>1, <1>4 DEF StockOK

\* Two sequences of generations, in the order of a rank.
LEMMA SuppliesTurn ==
  ASSUME NEW p, NEW a \in Seq(Tasks), NEW b \in Seq(Tasks), NEW s \in Slots,
         NEW m \in Nat, NEW n \in Nat, Supplies(a, s, m), Supplies(b, s, n)
  PROVE  InTurn(p, a, b) \in Seq(Tasks) /\ Supplies(InTurn(p, a, b), s, m + n)
<1>1. a \o b \in Seq(Tasks) /\ Supplies(a \o b, s, m + n)
  BY SuppliesConcat
<1>2. b \o a \in Seq(Tasks) /\ Supplies(b \o a, s, n + m)
  BY SuppliesConcat
<1>3. n + m = m + n
  OBVIOUS
<1>4. QED
  BY <1>1, <1>2, <1>3 DEF InTurn

\* What force_cache generates supplies what was counted.
LEMMA FillingSupplies ==
  ASSUME IInv, NEW p \in Ranks, NEW s \in Slots, NEW N \in Nat,
         s[1] \in Counted => N = counts[p][s[1]],
         s[1] \in Shaped => Supplies(Each(s[1], shapes[p][s[1]]), s, N)
  PROVE  Supplies(Filling(p), s, N)
<1> DEFINE single(op) == <<Fill(op, counts[p][op])>>
           each(op) == [i \in DOMAIN shapes[p][op] |-> Fill(op, shapes[p][op][i])]
           part(op) == IF s[1] = op THEN N ELSE 0
           triple == IF counts[p].BeaverTriple # 0 THEN single("BeaverTriple") ELSE <<>>
<1>1. ASSUME NEW op \in Counted
      PROVE  single(op) \in Seq(Tasks) /\ Supplies(single(op), s, part(op))
  <2>1. PICK t, one : t = Fill(op, counts[p][op]) /\ one = <<t>>
    OBVIOUS
  <2>2. counts[p][op] \in Nat /\ op \in Ops /\ op \notin Shaped
    BY OpsAre, ShapedAre DEF IInv, TypeOK, Counted
  <2>3. t \in Tasks /\ t.op = op /\ t.num = counts[p][op] /\ t.dest = "cache"
    BY <2>1, <2>2 DEF Fill, Task, Tasks
  <2>4. one \in Seq(Tasks) /\ Supplies(one, s, Gain(t, s))
    BY <2>1, <2>3, SuppliesOne
  <2>5. ASSUME s[1] = op
        PROVE  Gain(t, s) = N
    BY <2>3, <2>5, SlotsAre DEF Gain
  <2>6. Supplies(one, s, 0)
    BY <2>4, SuppliesAny
  <2>7. QED
    BY <2>1, <2>4, <2>5, <2>6
<1>2. ASSUME NEW op \in Shaped
      PROVE  each(op) \in Seq(Tasks) /\ Supplies(each(op), s, part(op))
  <2>1. PICK ts : ts = each(op)
    OBVIOUS
  <2>2. shapes[p][op] \in Seq(Sizes) /\ op \in Ops
    BY DEF IInv, TypeOK, Shaped
  <2>3. ts \in Seq(Tasks)
    <3>1. \A i \in DOMAIN shapes[p][op] : Fill(op, shapes[p][op][i]) \in Tasks
      BY <2>2, RequestFacts DEF Fill, Task, Tasks, Sizes
    <3>2. QED
      BY <2>1, <2>2, <3>1
  <2>4. s[1] = op => Supplies(ts, s, N)
    BY <2>1 DEF Each
  <2>5. Supplies(ts, s, 0)
    BY <2>3, SuppliesAny
  <2>6. QED
    BY <2>1, <2>3, <2>4, <2>5
<1>3. triple \in Seq(Tasks) /\ Supplies(triple, s, part("BeaverTriple"))
  <2>1. CASE counts[p].BeaverTriple # 0
    <3> HIDE DEF single, part
    <3>1. QED
      BY <1>1, <2>1 DEF Counted
  <2>2. CASE counts[p].BeaverTriple = 0
    <3>1. triple = <<>> /\ part("BeaverTriple") = 0
      BY <2>2 DEF Counted
    <3>2. <<>> \in Seq(Tasks) /\ Supplies(<<>>, s, 0)
      BY SuppliesNone
    <3>3. QED
      BY <3>1, <3>2
  <2>3. QED
    BY <2>1, <2>2
<1>4. \A op : part(op) \in Nat
  OBVIOUS
<1> DEFINE turn(f, g) == InTurn(p, f, g)
<1>5. /\ turn(single("RandomSet"), single("RandomGet")) \in Seq(Tasks)
      /\ Supplies(turn(single("RandomSet"), single("RandomGet")), s,
                  part("RandomSet") + part("RandomGet"))
      /\ turn(single("RandomVoleSet"), single("RandomVoleGet")) \in Seq(Tasks)
      /\ Supplies(turn(single("RandomVoleSet"), single("RandomVoleGet")), s,
                  part("RandomVoleSet") + part("RandomVoleGet"))
  <2>1. \A f, g \in Counted :
          /\ turn(single(f), single(g)) \in Seq(Tasks)
          /\ Supplies(turn(single(f), single(g)), s, part(f) + part(g))
    <3> HIDE DEF single, part
    <3>1. QED
      BY <1>1, <1>4, SuppliesTurn
  <2>2. {"RandomSet", "RandomGet", "RandomVoleSet", "RandomVoleGet"} \subseteq Counted
    BY DEF Counted
  <2> HIDE DEF turn, single, part
  <2>3. QED
    BY <2>1, <2>2
<1>6. /\ turn(each("ShuffleSet"), each("ShuffleGet")) \in Seq(Tasks)
      /\ Supplies(turn(each("ShuffleSet"), each("ShuffleGet")), s,
                  part("ShuffleSet") + part("ShuffleGet"))
      /\ turn(each("ASTSet"), each("ASTGet")) \in Seq(Tasks)
      /\ Supplies(turn(each("ASTSet"), each("ASTGet")), s,
                  part("ASTSet") + part("ASTGet"))
      /\ turn(each("DoubleASTSet"), each("DoubleASTGet")) \in Seq(Tasks)
      /\ Supplies(turn(each("DoubleASTSet"), each("DoubleASTGet")), s,
                  part("DoubleASTSet") + part("DoubleASTGet"))
      /\ each("NMul") \in Seq(Tasks) /\ Supplies(each("NMul"), s, part("NMul"))
  <2>1. \A f, g \in Shaped :
          /\ turn(each(f), each(g)) \in Seq(Tasks)
          /\ Supplies(turn(each(f), each(g)), s, part(f) + part(g))
    <3> HIDE DEF each, part
    <3>1. QED
      BY <1>2, <1>4, SuppliesTurn
  <2>2. {"ShuffleSet", "ShuffleGet", "ASTSet", "ASTGet", "DoubleASTSet",
         "DoubleASTGet", "NMul"} \subseteq Shaped
    BY ShapedAre
  <2>3. each("NMul") \in Seq(Tasks) /\ Supplies(each("NMul"), s, part("NMul"))
    <3> HIDE DEF each, part
    <3>1. QED
      BY <1>2, <2>2
  <2> HIDE DEF turn, each, part
  <2>4. QED
    BY <2>1, <2>2, <2>3
<1>7. PICK t1, t2, t3, t4, t5, t6, t7 :
        /\ t1 = triple
        /\ t2 = turn(single("RandomSet"), single("RandomGet"))
        /\ t3 = turn(single("RandomVoleSet"), single("RandomVoleGet"))
        /\ t4 = turn(each("ShuffleSet"), each("ShuffleGet"))
        /\ t5 = turn(each("ASTSet"), each("ASTGet"))
        /\ t6 = turn(each("DoubleASTSet"), each("DoubleASTGet"))
        /\ t7 = each("NMul")
  OBVIOUS
<1>8. Filling(p) = t1 \o t2 \o t3 \o t4 \o t5 \o t6 \o t7
  BY <1>7 DEF Filling
<1>9. PICK n1, n2, n3, n4, n5, n6, n7 :
        /\ n1 = part("BeaverTriple")
        /\ n2 = part("RandomSet") + part("RandomGet")
        /\ n3 = part("RandomVoleSet") + part("RandomVoleGet")
        /\ n4 = part("ShuffleSet") + part("ShuffleGet")
        /\ n5 = part("ASTSet") + part("ASTGet")
        /\ n6 = part("DoubleASTSet") + part("DoubleASTGet")
        /\ n7 = part("NMul")
  OBVIOUS
<1>10. /\ n1 \in Nat /\ n2 \in Nat /\ n3 \in Nat /\ n4 \in Nat /\ n5 \in Nat
       /\ n6 \in Nat /\ n7 \in Nat
  <2> HIDE DEF part
  <2>1. QED
    BY <1>4, <1>9
<1>11. n1 + n2 + n3 + n4 + n5 + n6 + n7 = N
  <2>1. PICK op : op = s[1]
    OBVIOUS
  <2>2. op \in Ops
    BY <2>1, SlotsAre
  <2>3. \A o : part(o) = IF op = o THEN N ELSE 0
    BY <2>1
  <2> HIDE DEF part
  <2>4. op \in {"BeaverTriple", "RandomSet", "RandomGet", "RandomVoleSet",
               "RandomVoleGet"} => n1 + n2 + n3 + n4 + n5 + n6 + n7 = N
    BY <1>9, <2>3
  <2>5. ASSUME op \in {"NMul", "ShuffleSet", "ShuffleGet", "ASTSet", "ASTGet",
                      "DoubleASTSet", "DoubleASTGet"}
        PROVE  n1 + n2 + n3 + n4 + n5 + n6 + n7 = N
    <3>1. CASE op = "NMul"
      BY <1>9, <2>3, <3>1
    <3>6. CASE op \in {"ShuffleSet", "ShuffleGet"}
      BY <1>9, <2>3, <3>6
    <3>2. CASE op = "ASTSet"
      <4>1. part("ASTSet") = N /\ \A o \in Ops \ {"ASTSet"} : part(o) = 0
        BY <2>3, <3>2
      <4>2. QED
        BY <1>9, <4>1, OpsAre
    <3>3. CASE op = "ASTGet"
      <4>1. part("ASTGet") = N /\ \A o \in Ops \ {"ASTGet"} : part(o) = 0
        BY <2>3, <3>3
      <4>2. QED
        BY <1>9, <4>1, OpsAre
    <3>4. CASE op = "DoubleASTSet"
      <4>1. part("DoubleASTSet") = N /\ \A o \in Ops \ {"DoubleASTSet"} : part(o) = 0
        BY <2>3, <3>4
      <4>2. QED
        BY <1>9, <4>1, OpsAre
    <3>5. CASE op = "DoubleASTGet"
      <4>1. part("DoubleASTGet") = N /\ \A o \in Ops \ {"DoubleASTGet"} : part(o) = 0
        BY <2>3, <3>5
      <4>2. QED
        BY <1>9, <4>1, OpsAre
    <3>7. QED
      BY <2>5, <3>1, <3>2, <3>3, <3>4, <3>5, <3>6
  <2>6. QED
    BY <2>2, <2>4, <2>5, OpsAre
<1>12. /\ t1 \in Seq(Tasks) /\ Supplies(t1, s, n1)
       /\ t2 \in Seq(Tasks) /\ Supplies(t2, s, n2)
       /\ t3 \in Seq(Tasks) /\ Supplies(t3, s, n3)
       /\ t4 \in Seq(Tasks) /\ Supplies(t4, s, n4)
       /\ t5 \in Seq(Tasks) /\ Supplies(t5, s, n5)
       /\ t6 \in Seq(Tasks) /\ Supplies(t6, s, n6)
       /\ t7 \in Seq(Tasks) /\ Supplies(t7, s, n7)
  <2> HIDE DEF triple, turn, each, single, part
  <2>1. QED
    BY <1>3, <1>5, <1>6, <1>7, <1>9
<1> HIDE DEF triple, turn, each, single, part
<1>13. t1 \o t2 \in Seq(Tasks) /\ Supplies(t1 \o t2, s, n1 + n2)
  BY <1>10, <1>12, SuppliesConcat
<1>14. PICK u2, m2 : u2 = t1 \o t2 /\ m2 = n1 + n2
  OBVIOUS
<1>15. u2 \o t3 \in Seq(Tasks) /\ Supplies(u2 \o t3, s, m2 + n3) /\ m2 \in Nat
  <2>1. u2 \in Seq(Tasks) /\ Supplies(u2, s, m2) /\ m2 \in Nat
    BY <1>10, <1>13, <1>14
  <2>2. QED
    BY <2>1, <1>10, <1>12, SuppliesConcat
<1>16. PICK u3, m3 : u3 = u2 \o t3 /\ m3 = m2 + n3
  OBVIOUS
<1>17. u3 \o t4 \in Seq(Tasks) /\ Supplies(u3 \o t4, s, m3 + n4) /\ m3 \in Nat
  <2>1. u3 \in Seq(Tasks) /\ Supplies(u3, s, m3) /\ m3 \in Nat
    BY <1>10, <1>15, <1>16
  <2>2. QED
    BY <2>1, <1>10, <1>12, SuppliesConcat
<1>18. PICK u4, m4 : u4 = u3 \o t4 /\ m4 = m3 + n4
  OBVIOUS
<1>19. u4 \o t5 \in Seq(Tasks) /\ Supplies(u4 \o t5, s, m4 + n5) /\ m4 \in Nat
  <2>1. u4 \in Seq(Tasks) /\ Supplies(u4, s, m4) /\ m4 \in Nat
    BY <1>10, <1>17, <1>18
  <2>2. QED
    BY <2>1, <1>10, <1>12, SuppliesConcat
<1>20. PICK u5, m5 : u5 = u4 \o t5 /\ m5 = m4 + n5
  OBVIOUS
<1>21. u5 \o t6 \in Seq(Tasks) /\ Supplies(u5 \o t6, s, m5 + n6) /\ m5 \in Nat
  <2>1. u5 \in Seq(Tasks) /\ Supplies(u5, s, m5) /\ m5 \in Nat
    BY <1>10, <1>19, <1>20
  <2>2. QED
    BY <2>1, <1>10, <1>12, SuppliesConcat
<1>22. PICK u6, m6 : u6 = u5 \o t6 /\ m6 = m5 + n6
  OBVIOUS
<1>23. Supplies(u6 \o t7, s, m6 + n7)
  <2>1. u6 \in Seq(Tasks) /\ Supplies(u6, s, m6) /\ m6 \in Nat
    BY <1>10, <1>21, <1>22
  <2>2. QED
    BY <2>1, <1>10, <1>12, SuppliesConcat
<1>24. m6 + n7 = N
  BY <1>10, <1>11, <1>14, <1>16, <1>18, <1>20, <1>22
<1>25. Filling(p) = u6 \o t7
  BY <1>8, <1>14, <1>16, <1>18, <1>20, <1>22
<1>26. QED
  BY <1>23, <1>24, <1>25

\* After force_cache the generations it leaves are enough.
LEMMA StockForce ==
  ASSUME IInv, NEW p \in Ranks, NEW P \in Seq(Events), NEW n \in Nat, n + 1 <= Len(P),
         P[n + 1].do = "force_cache", CountsOK(P, p, n, counts[p], shapes[p])
  PROVE  StockOK(P, p, n + 1, TRUE, Filling(p), NoCache)
<1>1. PICK a : a = 1
  OBVIOUS
<1>2. a \in Nat \ {0} /\ n <= Len(P)
  BY <1>1
<1>3. \A i \in DOMAIN Filling(p) : Filling(p)[i].dest = "cache"
  <2>1. Filling(p) \in Seq(Fills)
    BY FillingType
  <2>2. QED
    BY <2>1 DEF Fills
<1>4. ASSUME NEW s \in Slots
      PROVE  \E m \in Nat :
               /\ Supplies(Filling(p), s, m)
               /\ Foreseen(P, p, n + 1, s) <= Len(NoCache[s]) + m + Wanted(P, p, n + 1, s)
  <2>1. PICK N : N = Total(P, p, Dry, a, n, s)
    OBVIOUS
  <2>2. N \in Nat
    BY <1>2, <2>1, DryFacts, TotalFacts
  <2>3. /\ s[1] \in Counted => N = counts[p][s[1]]
        /\ s[1] \in Shaped => Supplies(Each(s[1], shapes[p][s[1]]), s, N)
    BY <1>1, <2>1 DEF CountsOK
  <2>4. Supplies(Filling(p), s, N)
    BY <2>2, <2>3, FillingSupplies
  <2>5. Foreseen(P, p, n + 1, s) = N /\ Wanted(P, p, n + 1, s) = 0
    BY <1>1, <2>1, ForeseenNext
  <2>6. Len(NoCache[s]) = 0
    BY DEF NoCache
  <2>7. QED
    BY <2>2, <2>4, <2>5, <2>6
<1>5. QED
  BY <1>3, <1>4 DEF StockOK, Enough

\* What a rank has counted is what its dry runs asked for, and what its cache
\* holds or will hold is enough for what they foresaw.
RankOK(p) ==
  /\ CountsOK(prog, p, at[p], counts[p], shapes[p])
  /\ StockOK(prog, p, at[p], cached[p], tasks[p], pool[p])
StockInv == \A p \in Ranks : RankOK(p)

\* The next event, and both ranks before it.
LEMMA EventStock ==
  ASSUME IInv, StockInv, NEW p \in Ranks, NEW e \in Events, Event(p, e)
  PROVE  /\ prog' \in Seq(Events) /\ at[p] \in Nat /\ at[p] + 1 <= Len(prog')
         /\ at'[p] = at[p] + 1 /\ prog'[at[p] + 1] = e /\ tasks[p] = <<>>
         /\ CountsOK(prog', p, at[p], counts[p], shapes[p])
         /\ StockOK(prog', p, at[p], cached[p], tasks[p], pool[p])
         /\ \A q \in Ranks \ {p} :
              /\ CountsOK(prog', q, at'[q], counts[q], shapes[q])
              /\ StockOK(prog', q, at'[q], cached[q], tasks[q], pool[q])
<1>1. /\ prog' \in Seq(Events) /\ at'[p] = at[p] + 1
      /\ Len(prog) <= Len(prog') /\ \A i \in 1 .. Len(prog) : prog'[i] = prog[i]
      /\ prog'[at'[p]] = e /\ at'[p] \in 1 .. Len(prog')
      /\ tasks[p] = <<>> /\ \A q \in Ranks : q # p => at'[q] = at[q]
  BY EventType
<1>2. /\ prog \in Seq(Events)
      /\ \A q \in Ranks : at[q] \in Nat /\ at[q] <= Len(prog)
  BY MaxEventsAssumption DEF IInv, TypeOK, ProgramInv
<1>3. ASSUME NEW q \in Ranks
      PROVE  /\ CountsOK(prog', q, at[q], counts[q], shapes[q])
             /\ StockOK(prog', q, at[q], cached[q], tasks[q], pool[q])
  <2>1. PICK n, P, Q : n = at[q] /\ P = prog /\ Q = prog'
    OBVIOUS
  <2>2. /\ P \in Seq(Events) /\ Q \in Seq(Events) /\ n \in Nat /\ n <= Len(P)
        /\ n <= Len(Q) /\ \A i \in 1 .. n : P[i] = Q[i]
    BY <1>1, <1>2, <2>1
  <2>3. /\ CountsOK(P, q, n, counts[q], shapes[q])
        /\ StockOK(P, q, n, cached[q], tasks[q], pool[q])
    BY <2>1 DEF StockInv, RankOK
  <2>4. /\ CountsOK(Q, q, n, counts[q], shapes[q])
        /\ StockOK(Q, q, n, cached[q], tasks[q], pool[q])
    BY <2>2, <2>3, StockSame
  <2>5. QED
    BY <2>1, <2>4
<1>4. at[p] \in Nat /\ at[p] + 1 <= Len(prog') /\ prog'[at[p] + 1] = e
  BY <1>1, <1>2
<1>5. \A q \in Ranks \ {p} : at'[q] = at[q]
  BY <1>1
<1>6. QED
  BY <1>1, <1>3, <1>4, <1>5

\* A rank whose next event leaves it with enough, the other as it was.
LEMMA StockNext ==
  ASSUME IInv, StockInv, NEW p \in Ranks, NEW e \in Events, Event(p, e),
         CountsOK(prog', p, at[p] + 1, counts'[p], shapes'[p]),
         StockOK(prog', p, at[p] + 1, cached'[p], tasks'[p], pool'[p]),
         \A q \in Ranks \ {p} :
           /\ counts'[q] = counts[q] /\ shapes'[q] = shapes[q]
           /\ cached'[q] = cached[q] /\ tasks'[q] = tasks[q] /\ pool'[q] = pool[q]
  PROVE  StockInv'
<1>1. at'[p] = at[p] + 1
  BY EventStock
<1>2. \A q \in Ranks \ {p} :
        /\ CountsOK(prog', q, at'[q], counts'[q], shapes'[q])
        /\ StockOK(prog', q, at'[q], cached'[q], tasks'[q], pool'[q])
  BY EventStock
<1>3. /\ CountsOK(prog', p, at'[p], counts'[p], shapes'[p])
      /\ StockOK(prog', p, at'[p], cached'[p], tasks'[p], pool'[p])
  BY <1>1
<1>4. QED
  BY <1>2, <1>3 DEF StockInv, RankOK

\* A dry run counts.
LEMMA DryRunStock ==
  ASSUME IInv, StockInv, NEW p \in Ranks, NEW r \in Requests, DryRun(p, r)
  PROVE  StockInv'
<1>1. PICK e : e = [do |-> "dry run", req |-> r]
  OBVIOUS
<1>2. e \in Events /\ Event(p, e) /\ e = [do |-> Dry, req |-> r]
  BY <1>1 DEF Events, DryRun, Dry
<1>3. PICK n, P : n = at[p] /\ P = prog'
  OBVIOUS
<1>4. /\ P \in Seq(Events) /\ n \in Nat /\ n + 1 <= Len(P) /\ P[n + 1] = e
      /\ CountsOK(P, p, n, counts[p], shapes[p])
      /\ StockOK(P, p, n, cached[p], tasks[p], pool[p])
  BY <1>2, <1>3, EventStock
<1>5. /\ counts[p] \in [Counted -> Nat] /\ shapes[p] \in [Shaped -> Seq(Sizes)]
      /\ counts'[p] = [op \in Counted |-> IF op \in Range(Parts(p, At(p, r.op)))
                         THEN counts[p][op] + r.num ELSE counts[p][op]]
      /\ shapes'[p] = [op \in Shaped |-> IF op \in Range(Parts(p, At(p, r.op)))
                         THEN Append(shapes[p][op], r.num) ELSE shapes[p][op]]
      /\ \A q \in Ranks \ {p} : counts'[q] = counts[q] /\ shapes'[q] = shapes[q]
      /\ cached' = cached /\ tasks' = tasks /\ pool' = pool
  BY DEF IInv, TypeOK, DryRun
<1>6. CountsOK(P, p, n + 1, counts'[p], shapes'[p])
  <2>1. P[n + 1] = [do |-> Dry, req |-> r]
    BY <1>2, <1>4
  <2>2. PICK a, b, a2, b2 : /\ a = counts[p] /\ b = shapes[p]
                            /\ a2 = counts'[p] /\ b2 = shapes'[p]
    OBVIOUS
  <2>3. /\ a \in [Counted -> Nat] /\ b \in [Shaped -> Seq(Sizes)]
        /\ CountsOK(P, p, n, a, b)
    BY <1>4, <1>5, <2>2
  <2>4. /\ a2 = [op \in Counted |-> IF op \in Range(Parts(p, At(p, r.op)))
                                     THEN a[op] + r.num ELSE a[op]]
        /\ b2 = [op \in Shaped |-> IF op \in Range(Parts(p, At(p, r.op)))
                                    THEN Append(b[op], r.num) ELSE b[op]]
    BY <1>5, <2>2
  <2>5. CountsOK(P, p, n + 1, a2, b2)
    BY <1>4, <2>1, <2>3, <2>4, CountsDry
  <2>6. QED
    BY <2>2, <2>5
<1>7. StockOK(P, p, n + 1, cached[p], tasks[p], pool[p])
  <2>1. P[n + 1].do = Dry
    BY <1>2, <1>4
  <2>2. QED
    BY <1>4, <2>1, StockDry
<1>8. QED
  <2>1. /\ CountsOK(prog', p, at[p] + 1, counts'[p], shapes'[p])
        /\ StockOK(prog', p, at[p] + 1, cached'[p], tasks'[p], pool'[p])
    BY <1>3, <1>5, <1>6, <1>7
  <2>2. QED
    BY <1>2, <1>5, <2>1, StockNext

\* force_cache generates what was counted.
LEMMA ForceStock ==
  ASSUME IInv, StockInv, NEW p \in Ranks, ForceCache(p)
  PROVE  StockInv'
<1>1. PICK e : e = [do |-> "force_cache"]
  OBVIOUS
<1>2. e \in Events /\ Event(p, e) /\ e.do = "force_cache"
  BY <1>1 DEF Events, ForceCache
<1>3. PICK n, P : n = at[p] /\ P = prog'
  OBVIOUS
<1>4. /\ P \in Seq(Events) /\ n \in Nat /\ n + 1 <= Len(P) /\ P[n + 1] = e
      /\ CountsOK(P, p, n, counts[p], shapes[p])
  BY <1>2, <1>3, EventStock
<1>5. /\ cached'[p] = TRUE /\ pool'[p] = NoCache /\ tasks'[p] = Filling(p)
      /\ counts' = counts /\ shapes' = shapes
      /\ \A q \in Ranks \ {p} : /\ cached'[q] = cached[q] /\ tasks'[q] = tasks[q]
                                /\ pool'[q] = pool[q]
  BY DEF ForceCache, IInv, TypeOK
<1>6. StockOK(P, p, n + 1, TRUE, Filling(p), NoCache)
  BY <1>2, <1>4, StockForce
<1>7. CountsOK(P, p, n + 1, counts[p], shapes[p])
  <2>1. P[n + 1].do # Dry
    BY <1>2, <1>4, DryFacts
  <2>2. QED
    BY <1>4, <2>1, CountsOther
<1>8. QED
  <2>1. /\ CountsOK(prog', p, at[p] + 1, counts'[p], shapes'[p])
        /\ StockOK(prog', p, at[p] + 1, cached'[p], tasks'[p], pool'[p])
    BY <1>3, <1>5, <1>6, <1>7
  <2>2. QED
    BY <1>2, <1>5, <2>1, StockNext

\* A request the cache serves takes what it asks for.
LEMMA FromCacheStock ==
  ASSUME IInv, StockInv, NEW p \in Ranks, NEW r \in Requests, FromCache(p, r)
  PROVE  StockInv'
<1>1. PICK e : e = [do |-> "request", req |-> r]
  OBVIOUS
<1>2. e \in Events /\ Event(p, e) /\ e.do = "request"
  BY <1>1 DEF Events, FromCache
<1>3. PICK n, P : n = at[p] /\ P = prog'
  OBVIOUS
<1>4. /\ P \in Seq(Events) /\ n \in Nat /\ n + 1 <= Len(P) /\ P[n + 1] = e
      /\ CountsOK(P, p, n, counts[p], shapes[p])
      /\ StockOK(P, p, n, cached[p], tasks[p], pool[p])
  BY <1>2, <1>3, EventStock
<1> DEFINE parts == Range(Parts(p, At(p, r.op)))
<1>6. /\ parts \subseteq Ops
      /\ pool' \in [Ranks -> [Slots -> Seq(Nat \ {0})]]
      /\ \A q \in Ranks \ {p} : pool'[q] = pool[q] /\ got'[q] = got[q]
      /\ \A o \in Ops \ parts :
           /\ got'[p][o] = got[p][o]
           /\ \A s \in Slots : s[1] = o => pool'[p][s] = pool[p][s]
      /\ \A o \in parts :
           LET s == Slot(o, r.num)
               m == Units(o, r.num)
           IN  /\ s \in Slots /\ m \in Nat /\ m <= Len(pool[p][s])
               /\ got'[p][o] = got[p][o] \o Taken(o, pool[p][s], m)
               /\ pool'[p][s] = Left(pool[p][s], m)
               /\ \A u \in Slots \ {s} : u[1] = o => pool'[p][u] = pool[p][u]
  BY FromCacheFacts
<1>5. parts = Range(Parts(p, At(p, r.op)))
  OBVIOUS
<1> HIDE DEF parts
<1>7. pool \in [Ranks -> [Slots -> Seq(Nat \ {0})]]
  BY DEF IInv, TypeOK
<1>8. ASSUME NEW s \in Slots
      PROVE  Len(pool[p][s]) <= Len(pool'[p][s]) + Takes(P, p, "request", s, n + 1)
  <2>1. PICK o : o = s[1]
    OBVIOUS
  <2>2. PICK k : k = n + 1
    OBVIOUS
  <2>3. P[k] = [do |-> "request", req |-> r]
    BY <1>1, <1>4, <2>2
  <2>4. /\ o \notin parts => Takes(P, p, "request", s, k) = 0
        /\ o \in parts => Takes(P, p, "request", s, k) =
             IF s = Slot(o, r.num) THEN Units(o, r.num) ELSE 0
    BY <1>5, <2>1, <2>3, DryFacts, TakesFacts
  <2>5. o \in Ops
    BY <2>1, SlotsAre
  <2>6. PICK a, b : a = pool[p][s] /\ b = pool'[p][s]
    OBVIOUS
  <2>7. a \in Seq(Nat \ {0}) /\ Len(a) \in Nat /\ Len(b) \in Nat
    BY <1>6, <1>7, <2>6
  <2>8. CASE o \in parts /\ s = Slot(o, r.num)
    <3>1. PICK m : m = Units(o, r.num)
      OBVIOUS
    <3>2. m \in Nat /\ m <= Len(a) /\ b = Left(a, m)
      BY <1>6, <2>6, <2>8, <3>1
    <3>3. Len(b) = Len(a) - m
      BY <2>7, <3>2, TakenFacts
    <3>4. Takes(P, p, "request", s, k) = m
      BY <2>4, <2>8, <3>1
    <3>5. QED
      BY <2>2, <2>6, <2>7, <3>2, <3>3, <3>4
  <2>9. CASE ~(o \in parts /\ s = Slot(o, r.num))
    <3>1. a = b /\ Takes(P, p, "request", s, k) = 0
      BY <1>6, <2>1, <2>4, <2>5, <2>6, <2>9
    <3>2. QED
      BY <2>2, <2>6, <2>7, <3>1
  <2>10. QED
    BY <2>8, <2>9
<1>9. /\ cached' = cached /\ counts' = counts /\ shapes' = shapes /\ tasks' = tasks
  BY DEF FromCache
<1>10. StockOK(P, p, n + 1, cached[p], tasks[p], pool'[p])
  <2>1. P[n + 1].do = "request"
    BY <1>2, <1>4
  <2>2. PICK a, b : a = pool[p] /\ b = pool'[p]
    OBVIOUS
  <2>3. a \in [Slots -> Seq(Nat \ {0})] /\ b \in [Slots -> Seq(Nat \ {0})]
    BY <1>6, <1>7, <2>2
  <2>4. \A s \in Slots : Len(a[s]) <= Len(b[s]) + Takes(P, p, "request", s, n + 1)
    BY <1>8, <2>2
  <2>5. StockOK(P, p, n + 1, cached[p], tasks[p], b)
    BY <1>4, <2>1, <2>2, <2>3, <2>4, StockTake
  <2>6. QED
    BY <2>2, <2>5
<1>11. CountsOK(P, p, n + 1, counts[p], shapes[p])
  <2>1. P[n + 1].do # Dry
    BY <1>2, <1>4, DryFacts
  <2>2. QED
    BY <1>4, <2>1, CountsOther
<1>12. QED
  <2>1. /\ CountsOK(prog', p, at[p] + 1, counts'[p], shapes'[p])
        /\ StockOK(prog', p, at[p] + 1, cached'[p], tasks'[p], pool'[p])
    BY <1>3, <1>9, <1>10, <1>11
  <2>2. QED
    BY <1>2, <1>6, <1>9, <2>1, StockNext

\* A request the cache does not serve asks for more than was foreseen.
LEMMA UncachedStock ==
  ASSUME IInv, StockInv, NEW p \in Ranks, NEW r \in Requests, Uncached(p, r)
  PROVE  StockInv'
<1>1. PICK e : e = [do |-> "request", req |-> r]
  OBVIOUS
<1>2. e \in Events /\ Event(p, e) /\ e.do = "request"
  BY <1>1 DEF Events, Uncached
<1>3. PICK n, P : n = at[p] /\ P = prog'
  OBVIOUS
<1>4. /\ P \in Seq(Events) /\ n \in Nat /\ n + 1 <= Len(P) /\ P[n + 1] = e
      /\ CountsOK(P, p, n, counts[p], shapes[p])
      /\ StockOK(P, p, n, cached[p], <<>>, pool[p])
  BY <1>2, <1>3, EventStock
<1>5. cached[p] => \E o \in Range(Parts(p, At(p, r.op))) :
        ~(Len(pool[p][Slot(o, r.num)]) >= Units(o, r.num))
  BY DEF Uncached, Hit, Holds
<1>6. /\ cached' = cached /\ counts' = counts /\ shapes' = shapes /\ pool' = pool
      /\ \A q \in Ranks \ {p} : tasks'[q] = tasks[q]
  BY DEF Uncached, IInv, TypeOK
<1>7. pool[p] \in [Slots -> Seq(Nat \ {0})]
  BY DEF IInv, TypeOK
<1>8. LastAt(P, n) > 0 => cached[p] /\ Exceeded(P, p, n + 1)
  <2>1. P[n + 1] = [do |-> "request", req |-> r]
    BY <1>1, <1>4
  <2>2. PICK a, c : a = pool[p] /\ c = cached[p]
    OBVIOUS
  <2>3. LastAt(P, n) > 0 => Exceeded(P, p, n + 1)
    BY <1>4, <1>5, <1>7, <2>1, <2>2, StockMiss
  <2>4. QED
    BY <1>4, <2>3 DEF StockOK
<1>9. LastAt(P, n + 1) = LastAt(P, n)
  <2>1. P[n + 1].do # "force_cache"
    BY <1>2, <1>4
  <2>2. QED
    BY <1>4, <2>1, LastFacts
<1>10. StockOK(P, p, n + 1, cached[p], tasks'[p], pool[p])
  BY <1>8, <1>9 DEF StockOK
<1>11. CountsOK(P, p, n + 1, counts[p], shapes[p])
  <2>1. P[n + 1].do # Dry
    BY <1>2, <1>4, DryFacts
  <2>2. QED
    BY <1>4, <2>1, CountsOther
<1>12. QED
  <2>1. /\ CountsOK(prog', p, at[p] + 1, counts'[p], shapes'[p])
        /\ StockOK(prog', p, at[p] + 1, cached'[p], tasks'[p], pool'[p])
    BY <1>3, <1>6, <1>10, <1>11
  <2>2. QED
    BY <1>2, <1>6, <2>1, StockNext

\* A generation that returns leaves what is left enough.
LEMMA EndStock ==
  ASSUME IInv, StockInv, NEW p \in Ranks, EndGeneration(p)
  PROVE  StockInv'
<1> DEFINE t == Head(tasks[p])
           s == Slot(t.op, t.num)
           m == Units(t.op, t.num)
           new == [i \in 1 .. m |-> made[p][t.op] + i]
<1>3. /\ tasks[p] # <<>> /\ t \in Tasks /\ m \in Nat /\ s \in Slots
      /\ new \in Seq(Nat \ {0}) /\ Len(new) = m
      /\ tasks'[p] = Tail(tasks[p]) /\ pool' \in [Ranks -> [Slots -> Seq(Nat \ {0})]]
      /\ t.dest = "cache" =>
           /\ pool'[p][s] = pool[p][s] \o new
           /\ \A u \in Slots \ {s} : pool'[p][u] = pool[p][u]
      /\ \A q \in Ranks \ {p} : tasks'[q] = tasks[q] /\ pool'[q] = pool[q]
  BY EndFacts
<1>1. t = Head(tasks[p]) /\ s = Slot(t.op, t.num) /\ m = Units(t.op, t.num)
  OBVIOUS
<1> HIDE DEF t, s, m, new
<1>4. /\ prog' = prog /\ at' = at /\ cached' = cached /\ counts' = counts
      /\ shapes' = shapes
  BY DEF EndGeneration
<1>5. PICK n, ts, po, po2 :
        n = at[p] /\ ts = tasks[p] /\ po = pool[p] /\ po2 = pool'[p]
  OBVIOUS
<1>6. /\ ts \in Seq(Tasks) /\ ts # <<>> /\ ts[1] = t
      /\ po \in [Slots -> Seq(Nat \ {0})] /\ po2 \in [Slots -> Seq(Nat \ {0})]
      /\ n \in Nat /\ n <= Len(prog) /\ prog \in Seq(Events)
  <2>1. ts \in Seq(Tasks) /\ ts # <<>> /\ n <= Len(prog) /\ prog \in Seq(Events)
    BY <1>3, <1>5 DEF IInv, TaskInv, ProgramInv
  <2>2. n \in Nat /\ po \in [Slots -> Seq(Nat \ {0})]
    BY <1>5, MaxEventsAssumption DEF IInv, TypeOK
  <2>3. ts[1] = t
    BY <1>1, <1>5, <2>1, HeadTailProperties
  <2>4. po2 \in [Slots -> Seq(Nat \ {0})]
    BY <1>3, <1>5
  <2>5. QED
    BY <2>1, <2>2, <2>3, <2>4
<1>7. ASSUME t.dest = "cache", NEW u \in Slots
      PROVE  Len(po2[u]) = Len(po[u]) + Gain(t, u)
  <2>1. Gain(t, u) = IF u = s THEN m ELSE 0
    BY <1>1, <1>7 DEF Gain
  <2>2. Len(po[u]) \in Nat
    BY <1>6
  <2>3. CASE u = s
    <3>1. PICK a, b : a = po[s] /\ b = po2[s]
      OBVIOUS
    <3>2. a \in Seq(Nat \ {0}) /\ b = a \o new
      BY <1>3, <1>5, <1>6, <1>7, <3>1
    <3>3. Len(b) = Len(a) + Len(new)
      BY <1>3, <3>2, ConcatProperties
    <3>4. QED
      BY <1>3, <2>1, <2>3, <3>1, <3>3
  <2>4. CASE u # s
    <3>1. po2[u] = po[u]
      BY <1>3, <1>5, <1>7, <2>4
    <3>2. QED
      BY <2>1, <2>2, <2>4, <3>1
  <2>5. QED
    BY <2>3, <2>4
<1>8. \A u \in Slots : Foreseen(prog, p, n, u) \in Nat /\ Wanted(prog, p, n, u) \in Nat
  BY <1>6, ForeseenFacts
<1>9. StockOK(prog, p, n, cached[p], ts, po)
  BY <1>5 DEF StockInv, RankOK
<1>10. StockOK(prog, p, n, cached[p], Tail(ts), po2)
  BY <1>6, <1>7, <1>8, <1>9, StockEnd
<1>11. RankOK(p)'
  <2>1. CountsOK(prog, p, at[p], counts[p], shapes[p])
    BY DEF StockInv, RankOK
  <2>2. StockOK(prog, p, at[p], cached[p], tasks'[p], pool'[p])
    BY <1>3, <1>5, <1>10
  <2>3. QED
    BY <1>4, <2>1, <2>2 DEF RankOK
<1>12. \A q \in Ranks \ {p} : RankOK(q)'
  BY <1>3, <1>4 DEF StockInv, RankOK
<1>13. QED
  BY <1>11, <1>12 DEF StockInv

\* The start.
LEMMA InitStock == Init => StockInv
<1> SUFFICES ASSUME Init, NEW p \in Ranks
             PROVE  RankOK(p)
  BY DEF StockInv
<1>1. /\ prog = <<>> /\ at[p] = 0 /\ counts[p] = [op \in Counted |-> 0]
      /\ shapes[p] = [op \in Shaped |-> <<>>]
  BY DEF Init
<1>2. PICK P, n : P = prog /\ n = at[p]
  OBVIOUS
<1>3. P \in Seq(Events) /\ n \in Nat /\ n = 0 /\ Len(P) = 0
  BY <1>1, <1>2
<1>4. StockOK(P, p, n, cached[p], tasks[p], pool[p])
  <2>1. LastAt(P, 0) = 0
    BY <1>3, LastFacts
  <2>2. QED
    BY <1>3, <2>1 DEF StockOK
<1>5. \A s \in Slots : Total(P, p, Dry, 1, n, s) = 0
  <2>1. PICK a : a = 1
    OBVIOUS
  <2>2. a \in Nat \ {0} /\ P \in Seq(Events) /\ n \in Nat /\ n < a /\ n <= Len(P)
    BY <1>3, <2>1
  <2>3. ASSUME NEW s \in Slots
        PROVE  Total(P, p, Dry, a, n, s) = 0
    BY <2>2, DryFacts, TotalFacts
  <2>4. QED
    BY <2>1, <2>3
<1>6. \A op : Each(op, <<>>) = <<>>
  BY DEF Each
<1>7. CountsOK(P, p, n, counts[p], shapes[p])
  <2>1. \A s \in Slots : s[1] \in Counted => counts[p][s[1]] = 0
    BY <1>1
  <2>2. \A s \in Slots : s[1] \in Shaped => Supplies(Each(s[1], shapes[p][s[1]]), s, 0)
    BY <1>1, <1>6, SuppliesNone
  <2>3. QED
    BY <1>5, <2>1, <2>2 DEF CountsOK
<1>8. QED
  BY <1>2, <1>4, <1>7 DEF RankOK

\* Every step keeps it.
LEMMA NextStock == IInv /\ StockInv /\ [Next]_vars => StockInv'
<1> SUFFICES ASSUME IInv, StockInv, [Next]_vars
             PROVE  StockInv'
  OBVIOUS
<1>1. ASSUME UNCHANGED <<prog, at, counts, shapes, cached, tasks, pool>>
      PROVE  StockInv'
  BY <1>1 DEF StockInv, RankOK
<1>2. ASSUME NEW p \in Ranks, NEW r \in Requests,
             DryRun(p, r) \/ FromCache(p, r) \/ Uncached(p, r)
      PROVE  StockInv'
  BY <1>2, DryRunStock, FromCacheStock, UncachedStock
<1>3. ASSUME NEW p \in Ranks, ForceCache(p) \/ EndGeneration(p)
      PROVE  StockInv'
  BY <1>3, ForceStock, EndStock
<1>4. ASSUME NEW p \in Ranks, BeginGeneration(p)
      PROVE  StockInv'
  BY <1>1, <1>4 DEF BeginGeneration
<1>5. QED
  BY <1>1, <1>2, <1>3, <1>4 DEF Next, Step, Finished, vars

\* Randomness made offline is enough, for every program and every request: as
\* long as the requests since force_cache ask for no more than was counted
\* before it, none of them generates anything (cr.cc 402-569 and 573-691).
THEOREM OfflineSuffices == Spec => []OfflineIsEnough
<1>1. IInv /\ StockInv => OfflineIsEnough
  <2> SUFFICES ASSUME IInv, StockInv, NEW p \in Ranks, tasks[p] # <<>>,
                      Head(tasks[p]).dest = "caller", LastForce(p) > 0
               PROVE  \E s \in Slots :
                        Demand(p, "request", LastForce(p) + 1, at[p], s) >
                          Demand(p, "dry run", 1, LastForce(p), s)
    BY DEF OfflineIsEnough
  <2>1. LastForce(p) = LastAt(prog, at[p])
    BY DEF LastForce, LastAt
  <2>2. tasks[p] \in Seq(Tasks) /\ 1 \in DOMAIN tasks[p] /\ tasks[p][1].dest = "caller"
    <3>1. tasks[p] \in Seq(Tasks)
      BY DEF IInv, TaskInv
    <3>2. QED
      BY <3>1
  <2>3. ~Enough(prog, p, at[p], tasks[p], pool[p])
    BY <2>2 DEF Enough
  <2>4. Exceeded(prog, p, at[p])
    BY <2>1, <2>3 DEF StockInv, RankOK, StockOK
  <2>5. PICK s \in Slots :
          Wanted(prog, p, at[p], s) > Foreseen(prog, p, at[p], s)
    BY <2>4 DEF Exceeded
  <2>6. /\ Wanted(prog, p, at[p], s) = Demand(p, "request", LastForce(p) + 1, at[p], s)
        /\ Foreseen(prog, p, at[p], s) = Demand(p, "dry run", 1, LastForce(p), s)
    BY <2>1, DemandIs, Zenon DEF Wanted, Foreseen, Dry
  <2>7. QED
    BY <2>5, <2>6
<1>2. Init => IInv /\ StockInv
  BY InitIInv, InitStock
<1>3. IInv /\ StockInv /\ [Next]_vars => (IInv /\ StockInv)'
  BY NextIInv, NextStock
<1>4. QED
  BY <1>1, <1>2, <1>3, PTL DEF Spec
=============================================================================
