# MOSAC verification

TLA+ models of MOSAC (`src/mosac`), the TLC runs that check them and the TLAPS
proofs about them. MOSAC is a two-party library for authenticated secret
sharing and secret-shared shuffles. Two ranks run the same C++ program over a
link; almost every function has a branch for each rank, or a `Set` and a `Get`
half, and is right only if the two halves fit. That fit is what this project is
about: between the buffers of the two ends of an adapter, between the caches of
the two ranks, between their messages and between their checks.

## The system

| Part | State it keeps | Operations | Talks to |
|---|---|---|---|
| `Connection` (`context/state.{h,cc}`) | in-order channels of the yacl link | `Exchange`, `ExchangeWithCommit`, `SyncSeed`, `SendAsync`, `Recv` | the peer |
| OT adapters (`cr/utils/ot_adapter`) | a spawned connection each; Ferret also a buffer with a reserve | `send_cot/recv_cot`, `send_rot/recv_rot`, `rcot` | yacl |
| VOLE adapter (`cr/utils/vole_adapter`) | buffer, `buff_used_num_`, `buff_upper_bound_`, a reserve at its front | `OneTimeSetup`, `rsend`, `rrecv`, `Bootstrap`, `BootstrapInplace*` | OT adapter, `vole.cc`, `mpfss.cc` |
| OT helper, shuffles (`cr/utils/ot_helper`, `shuffle`) | none | triple extension, SGRR shuffles, authenticated share translations | OT adapters, Connection |
| `TrueCorrelation` (`cr/true_cr`) | adapters, `delay_check_buff_`, `double_ast_check_buff_`, `val_`/`mac_delay_check_buff_` | the generations: `RandomSet/Get/Auth`, `BeaverTriple`, `ShuffleSet/Get`, `ASTSet/Get`, `DoubleAST*`, `NMul`, the `_2k` and `Batch` variants; `DelayCheck` | all of the above |
| `Correlation` (`cr/cr.{h,cc}`) | counters of the dry runs, the cache | `*_cache`, `force_cache`, requests served from the cache or generated | `TrueCorrelation` (virtual calls) |
| Share operations (`ss/ashare.cc`), `Protocol` (`ss/protocol`) | `check_buff_`, `ndss_val_`/`ndss_mac_buff_` | `A2P`, `A2P_delay`, `MulAA`, `InvA`, `NMulA`, `SetA/GetA`, `ShuffleA`, `ShuffleA_2k`, `SShuffleA`, `OptSShuffleA`, ...; `DelayCheck`, `NdssDelayCheck` | `Correlation`, Connection |
| `Context`, `SetupContext` (`context/`) | the states of a rank | setup in a fixed order | all |
| Public values, field, vectors (`ss/public`, `utils/`) | the shared `Prg` | local arithmetic | - |

A protocol operation requests correlations; a request is served by the cache or
generated at once (and then checked: `YACL_ENFORCE(DelayCheck())`); a
generation draws on the adapters, which extend when their buffers run out.
Openings enter a check buffer, and a later check compares the buffers of the two
ranks by a digest.

**What is hard here.** Nothing runs in parallel within a rank, but the ranks run
at their own speed and are coupled only by (a) messages with no checked tag,
(b) two copies of every buffer, cache and counter that must evolve alike without
ever being compared, and (c) thresholds that start a check or an extension in
the middle of another operation. A unit test runs one operation with one size
and fresh state; the hazards are in sequences, sizes at the boundaries, and
failures of one rank. `PROJECT.json` lists them one by one with the line at
which each bites.

**What makes each part correct.**

- *Adapter*: no copy leaves its buffer; a correlation is handed out once, in the
  same order at both ends; an extension is seeded by correlations nobody was
  given and no other extension used, and by matching ones at the two ends.
- *Cache*: the ranks enter the same generations in the same order; a request is
  served the same way at both; what was counted offline suffices online.
- *Session*: every message is read by the receive it was sent for; nothing is
  left over; both ranks always end.
- *Checks*: both ranks come to one verdict; no false alarm; a wrong mac is found
  by the end of the program.
- *Translations*: a shuffle made of many short ones translates by the permutation
  it reports; one wrong element of any of them is found; no mask is used twice.
- *Dry runs*: a twin counts what its operation asks for, no more and no less, and
  the ranks draw from the `Prg` they share for the same purposes.

## Modules

| Module | Models | Correspondence |
|---|---|---|
| `CorrelationStream` | what an adapter promises (abstract) | one sequence of outputs per end; the end's outputs agree position by position and no correlation occurs twice |
| `ExtensionBuffer` | `WolverineVoleAdapter`, both ends | `buf`, `used`, `upper`, `isSetup` are the members; `pc`, `offset`, `need`, `rounds` the locals of `rsend`/`rrecv`. `Call`, `BeginExtension`, `EndSetup`, `EndInplace`, `ServeFromBuffer`, `EndBootstrap`, `DrainWorstCase`, `DrainRest`, `Return` are the stretches of the function between two extensions |
| `FerretCot` | `YaclFerretOtAdapter::rcot` | the same buffer, with in-place rounds from `>=` one extension and a reserve it never refreshes |
| `ExtensionBuffer_proofs` | - | `ExtensionBuffer` for all sizes: types and bounds; on them `SeedsSpentOnce` and `NothingLost`; the two ends together: `SeedsPaired` and the refinement of `CorrelationStream` |
| `FerretCot_proofs` | - | the same of `FerretCot`, as an instance of the adapter with its constants |
| `CachedCorrelation`, `MCCachedCorrelation` | dry runs, `force_cache`, requests of `Correlation`, both ranks | counters, shapes and cache per rank; a generation has a begin and an end, so that the ranks' generations can be seen to meet |
| `CachedCorrelation_proofs` | - | types of the cache; the two ranks' caches together: `GenerationsMatch` and `Streams`; what the dry runs counted: `OfflineIsEnough`; for all programs |
| `DataLemmas` | - | sequences, prefixes, sums over finite sets and induction, for the proofs |
| `Wire` | `Connection` and the steps of a rank | a *script* is what a function does at one rank: its messages, calls and buffer updates in code order |
| `CorrelationScripts` | `TrueCorrelation`, OT helper, shuffles, VOLE extension | one script per function; one per side where the code has two |
| `TranslationScripts` | the generations in batches and in blocks (`BatchShuffle*`, `BatchAST*`, `DoubleAST*`, the `_2k` functions, `_DoubleAST*_2k`), silent VOLE, the setup of a VOLE adapter and of a new key | the same, over the previous module |
| `ShareScripts` | `ashare.cc`, the buffers of `Protocol`, `RandP` | the same, over the previous module |
| `ShareScripts_proofs` | - | the scripts of the two ranks fit step by step, function by function, for all sizes |
| `Session`, `MCSession` | two ranks running a program | `todo` is the rest of a rank's program with its call stack flattened; a call is replaced by its script when it is reached, because what it does (extend? check?) depends on the state then |
| `Session_proofs` | - | the two ranks together: types, messages, verdicts and checks of every program, for all sizes; on the same path: a wrong mac is found, and what a program may leave unchecked |
| `Translations`, `MCTranslations` | the values in the shuffles and translations of one call, both ends together | one step for each batch, round of a merge and layer of blocks; `pool` is what has been merged, `acc` what a merge or the layers have so far, `spent` the spans of VOLE elements used; `job.fault` is one wrong element |
| `Translations_proofs` | - | spans of VOLE elements, the numbers of the translations merged, the sums of a shuffle, and the values and permutations of every round and layer, for all sizes |
| `DryRuns`, `MCDryRuns` | the `*_cache` twins of `ashare.cc`, `force_cache`, the online program, the draws of `FakeCorrelation` and `RandP` from the shared `Prg` | a step is a whole call of one rank; `asked` are the counters, `stock` the cache, `tape` the draws in order |
| `DryRuns_proofs` | - | the four invariants of `DryRuns`, for all programs: every operation planned against its twin; both ranks on one path; sums along the program |

`ExtensionBuffer` refines `CorrelationStream` (`StreamSpec`, a refinement
mapping checked as a property). `Session` takes from `ExtensionBuffer` only what
a rank can see of an adapter: how many extensions a request lacks, each an
exchange of its own inside whatever called it (`ServeVole`). `Translations` has
the values of the code whose messages are in `TranslationScripts`. `DryRuns`
translates only the twins: what an operation itself asks for it takes from the
operation's script in `ShareScripts`, so that the two are compared and not
written down twice; `CachedCorrelation` has the cache alone, under any program.

### Abstractions

- Field elements, hashes and permutations are left out everywhere but in
  `Translations`. In `ExtensionBuffer` a
  correlation is the number of its extension and its place in it; in `Session`
  a share is right or wrong: at most once in a behaviour a rank enters a wrong
  mac into a check buffer. Checks compare digests of what was entered; they
  agree when everything entered fits, and that they agree by chance otherwise
  is left out.
- Where a check takes a random combination the model takes all coefficients to
  count. (`OpenAndDelayCheck`, true_cr.cc:1315-1320, and `A2P_delay`,
  ashare.cc:420-425, copy the zeroed `sync_seed` over the digest it was to be
  read from, so their coefficients are the same in every run; the model says
  nothing about the strength of that combination.)
- `YACL_ENFORCE`s on values that hold for honest ranks (commitments, the triple
  check, the consistency checks of the OTs, the opened zeros of `SShuffleASet` and
  `SShuffleAGet`, ashare.cc:981 and 1063, those of `FairA2P`, ashare.cc:1632 and
  1642) hold. The enforced verdicts of
  delayed checks and the product of one factor are modelled with both outcomes.
- `findB` is two bounds: `CallRounds` for all translations of a call (`ASTSet_2k`
  sizes its batches by it, true_cr.cc:1634) and `MergeRounds` for those of one
  batch (`ASTSet_batch_basic_2k`, true_cr.cc:2697), which is never smaller. Batches
  that fall in different rows of the table merge equally often in the model; the
  ranks look up the same sizes, so they agree in either case.
- A message is its tag and its length. The connection delivers in order and
  does not lose; `Recv` throws when the peer is gone. This is how the code uses
  the yacl link, which is external.
- `CachedCorrelation` ends an uncached request or a `force_cache` with its
  generation: the `YACL_ENFORCE(DelayCheck())` that follows is part of
  `Session`'s scripts, where a check has messages and a verdict.
- An OT call is one message each way on the adapter's own connection.
- `Translations` computes modulo a small prime, with random elements and
  permutations drawn by a fixed mixing of their index. The consistency check of
  the trees looks at one bit of each leaf, which a wrong leaf changes. At most
  one element is wrong: a leaf of a tree at *set*, a correction or a share of
  *get*, in the first column. `Unchecked` names what the code has no check for: a
  wrong value that brings a right mac, where no product binds it. `ASTSet` makes
  the translation of a round just before the round; the model makes all of a
  call's or a batch's at once, which changes no value.
- A step of `DryRuns` is a whole call, because nothing a rank draws or takes from
  its cache depends on the peer. Programs in which products or block shuffles get
  the single element a sum or product returns are left out (that they throw is
  finding 3 and a precondition of the block functions). `SumA_cache` returns as
  many elements as it is given and `NdssDelayCheck` has no twin: `Foreseen`
  excepts what follows either; the run `dry_runs_ndss` shows the second.
- OTs of one GGM tree are not counted (`Log2Ceil` factors): the lengths of
  messages are those of the arguments, up to constant factors.

## Runs

| Run | Question | Bounds and why they are enough |
|---|---|---|
| `wolverine` | Is the VOLE adapter's buffer right in every sequence of requests, the ends at any relative speed? Does every call return? | three requests of up to two extensions' size: enough for setup, serve, exact fit, in-place, worst case and refresh in every order |
| `ferret` | What still holds of the OT adapter? | as above |
| `ferret_reserve` (violated) | Is a reserve used once? | finding 1 |
| `cached` | Do the caches of the ranks stay paired? | four dry runs, `force_cache`s and requests in any order; two operations are enough for every pair of a hit and a miss |
| `session` | Do the scripts fit? Do the checks agree? | all programs of one or two of fourteen calls (one of each kind of correlation, opening and check, and a new mac key), sizes 1-4, with extensions of 8 values, so extensions fall everywhere inside the operations; a wrong mac at any append; `NdssMax` so small that two `ShuffleA_2k` check early |
| `session_shuffle` | The same for the long generations | up to two of `SShuffleA`, `OptSShuffleA`, `SetA`, and up to two of the functions over batches and blocks and `SetVoleKey`; sizes with a last batch that is not full (9 of 6); `LineMax` 14 and `DelayMax` 7, so that combining and early checks occur several times inside one translation |
| `session_crash` | Does a rank ever wait for a dead peer, or pass a check it failed? | one call of each kind; a crash at any step |
| `session_pending` (violated) | Is everything checked at the end? | finding 2; one translation of one element |
| `session_product` (violated) | Can every product be taken? | finding 3; `SShuffleA` of one element |
| `translations` | Do shuffles and translations of many short ones have the right values? Is one wrong element found? | each of the six functions, 3-8 elements in blocks of 2 or 4 (two layer widths), merges of 3 rounds, batches of 4, two seeds; a wrong element in any translation made, with a wrong value, a wrong mac or both |
| `dry_runs` | Do the twins count what is asked for? Do the ranks draw alike? | any two of nineteen operations, alone or after a `ShuffleA_2k`; 4 elements; `NdssMax` 40, so that two `ShuffleA_2k` have the buffer checked early and one has not |
| `dry_runs_ndss` (violated) | Is nothing generated online? | finding 4; the program of `NDSS_online_example.cc` |

The thresholds of the code are 2^24 elements, 2^19 combinations and extensions
of about 10^7 values; the bounds `LineMax`, `DelayMax`, `NdssMax`, `VoleNum`,
`Reserve`, `SetupLeft`, `BlockSize`, `BatchSize`, `BatchMax`, `BatchOts`, `FindB`,
`NoiseNum`, `TripleBatch`, `ASTRounds`, `DoubleRounds`, `MergeRounds`,
`CallRounds`, `WordBits`
replace them by small numbers so that their crossings happen. `Q` stands for the
field, `Elements` for the size of a program's input, `Seeds`, `Places` and `Errors`
for what is drawn and what goes wrong in `Translations`.
`Session` has no counter that grows without bound: programs are finite.

In `session` every buffer is empty at the end because its calls contain no
share translation; with one, `NothingPending` fails (finding 2), so
`session_shuffle` does not list it and its `WrongMacIsFound` excepts a wrong mac
that still waits in the line buffer.

Deadlock is checked in every run but `translations`: the only stuttering step is
the one when both ranks have come to their end. `Translations` is the course of
one call, which ends in a result or with a failed consistency check, and
`translations` does not check for deadlock.

**Fairness.** `WF` of each end (`ExtensionBuffer`, in `wolverine`) and of each rank
(`Session`, in `session_crash`):
a rank is one thread that the operating system schedules and that blocks only in
`Recv`. No fairness is assumed of a crash. That `Recv` throws when the peer is
gone is part of the model of the link, not of fairness.

## Proved

TLAPS proves thirty-three theorems that a reader should know of (`PROJECT.json` lists
them), each for every value of the constants that its module's assumptions allow.

### One end of an adapter

For every size of reserve, extension and setup, every sequence of requests and any
number of calls. The assumption is the one `VoleParam` satisfies: 0 < reserve,
twice the reserve fits in an extension, and the setup makes at least a reserve and
at most an extension (452001, 10485760 and 470016 in the code).

- `TypeCorrect` (`ExtensionBuffer_proofs`): `Spec => []TypeOK`.
- `CursorsSafe`: `Spec => []CursorsInBounds`: no `memcpy` of `rsend`/`rrecv` leaves
  the adapter's buffer or the caller's span. The property is not inductive: that
  the last copy fits in the buffer needs to know, at each stretch of the function,
  how much can still be lacking. The inductive invariant adds this for each `pc`:
  after the in-place rounds at most one extension is needed; after
  `ServeFromBuffer` the buffer is used up; after the first `Bootstrap` at most one
  further block is lacking, so the second `Bootstrap` always suffices (the "worst
  case" of the code is the last one). The proof has one lemma for each action.
- `ReserveSpentOnce`: `Spec => []SeedsSpentOnce`, if an
  in-place round leaves a new reserve (`RefreshReserve`). The in-place rounds of
  `rsend`/`rrecv` do; those of Ferret's `rcot` do not, and `ferret_reserve` shows
  what that costs (finding 1). The property compares every seed with every other
  and with all that was handed over, so the invariant `SInv` speaks of the whole
  history: the seed of extension e + 1 is taken from the block of extension e and
  from no other (`SeedsOfLast`), so two seeds never meet; what has been handed
  over, what is in the caller's span and what the buffer has still to give hold
  nothing that was spent (`HandedUnspent`); and what is kept for the next seed, in
  the buffer or, during in-place rounds, at the cursor of the span, is in nothing
  handed over (`KeptBack`).
- `NothingIsLost`: `Spec => []NothingLost`, under the same
  assumption. The property holds between calls; inside one, the invariant `LInv`
  keeps the account of every extension that has returned: each of its correlations
  is in what was handed over or is about to be, in a seed, in the reserve, or in
  the rest of the buffer (`AllAccounted`). The step that could lose some is a
  `Bootstrap` over a buffer that is not empty, so the invariant adds that the rest
  was copied out before it (`RestCopied`).

### Two ends

The two ends share nothing but the sequence of requests and are at different
places of it. That they agree is not an invariant of the two states alone: it needs
the states the end behind *will* be in. The proofs of `ExtensionBuffer_proofs`,
`CachedCorrelation_proofs`, `Session_proofs` and `DryRuns_proofs` state it as **both ends walk one
path** (`PathInv`; `Walks` in a session): there
is a finite sequence of states of one end, each leading to the next by a step that
depends on nothing but that state and the program, and each end is somewhere on it.
The end in front extends the path; the one behind has no choice but to follow it
(a step is a function of the state). What only grows along the path - seeds, what
was handed over, the generations begun - is then a prefix at one end of what it is
at the other. No recursion is needed: the path is a witness the invariant carries.

- `SameSeeds` (`ExtensionBuffer_proofs`): `Spec => []SeedsPaired`.
- `OneStream`: `Spec => StreamSpec`, the refinement of `CorrelationStream`. Besides
  the path it needs that one end is never handed a correlation twice. At every
  moment what an end has made and not lost lies in three pieces (`OnceInv`): what
  finished requests were given, what the request in hand has got so far, and what
  the buffer can still serve; no correlation is in two of them or twice in one.
  Neither theorem assumes `RefreshReserve`.
- `FerretCursorsSafe`, `FerretSameSeeds`, `FerretStream` (`FerretCot_proofs`): the
  same of the Ferret adapter. `FerretCot` is the adapter with other constants, so
  the theorems above are instantiated with them and nothing is proved again.

### The cache

For every set of requests and every program over them.

- `CacheTypes` (`CachedCorrelation_proofs`): `Spec => []TypeOK`. Its invariant adds
  that no rank is ahead of the program, and that a rank fills only a cache it has.
- `SameGenerations`: `Spec => []GenerationsMatch`.
- `OneStream`: `Spec => Streams`. Besides the path it needs that one rank
  is never handed a correlation twice: the invariant `Fresh` keeps what was handed
  over and each vector of the cache apart, each without repetition and among the
  correlations made so far.
- `OfflineSuffices`: `Spec => []OfflineIsEnough`: a request is generated on the spot
  after a `force_cache` only when some vector has been asked for more than the dry
  runs before it counted. The property compares sums over two stretches of the
  program; the state has neither. The invariant `StockInv` says, for each rank and
  vector, what they are in the state: `counts` and `shapes` are the dry-run totals
  since the program began (`CountsOK`), so that the generations `force_cache` lists
  bring exactly that much; and from then on what the dry runs foresaw is at most what
  the cache holds, what the generations still to be done bring (`Supplies`), and what
  requests have taken since, unless they have taken more than foreseen (`StockOK`). A
  request that misses is then one for which the sum is exceeded. The sums are those
  of `MapThenSumSet`, which is a recursive function over the subsets of a set:
  `DataLemmas` proves that it exists and that its value does not depend on the order
  the elements are taken in (`SumExists`, `SumElement`).

The ranks' operations are dual to each other and not equal (one sets where the
other gets), so the path is one of states under rank 0's names (`View`).

### The session

For every program over `Calls`, all numbers of elements, extensions and thresholds,
any relative speed of the ranks, at most one wrong mac, and crashes if the
configuration has them. `SessionAssumption` says what the code's sizes satisfy: the
reserve is smaller than an extension, and a setup leaves at most what an extension
leaves; `TranslationScriptsAssumption` that a block has at least two elements, a batch of
OTs at least eight, and that no other batch is empty.

*The scripts fit.* `ShareScripts_proofs` compares what a function does at one rank
with what its twin does at the other. Two steps fit (`StepsFit`) when one sends what
the other receives, by channel, tag and length, when they call the same function or
the two halves of one, or when they do the same locally. `WholeFits` says so of every
function both ranks call, `HalvesFit` of every pair of a set and a get half, each for
every number of elements. A script calls functions by name, so each is proved by
itself and no induction over calls is needed; loops are `FlattenSeq` of scripts that
fit one by one.

*The ranks walk one path.* What a rank does next depends on what it has done and
never on what it has received, but for a verdict, which can only end it. The control
of a rank is its steps to do, what is left in its VOLE buffers, and the openings in
its check buffers and in its digest, without the macs; the path is of pairs of
controls (`Walks`). The ranks' steps fit at each of its positions, as does what they
are replaced by (`GrownFits`, `AfterPaired`): that an extension or an early check
falls at the same place at both ranks is the part a test hardly reaches. The inductive invariant `IInv` says moreover that

  - the rank behind is not to send, or its peer would not have gone on (`Behind`);
  - the messages on their way to a rank are those its peer has sent since the position
    the rank is at, in order (`Listed`);
  - what a rank's digest, its count of passed comparisons and its failure were at each
    position is on record (`Logged`), and the digest last received is its peer's
    (`Received`);
  - wherever both ranks have been, they have passed the same comparisons (`Agreed`);
  - while no wrong mac is entered, no entry is of one and no check has failed
    (`Clean`).

`Walked` is `Spec => []IInv`. From it:

- `Typed`: `Spec => []TypeOK`.
- `RightMessages`: `Spec => []RightMessage`: the step a rank receives at fits the step
  its peer sent at, and the first message `Listed` is that step's.
- `AllRead`: `Spec => []NothingUnread`: ranks that have both returned are at one
  position, and no message is between them.
- `SameVerdicts`: `Spec => []VerdictsAgree`.
- `ChecksOfFittingPass`: `Spec => []NoFalseAlarm`: digests of the same openings with
  no wrong mac are equal, however often full buffers were checked early.

*A wrong mac is found* (second half of `Session_proofs`). What a rank checks passes from its check
buffers to its digest, and from there into a comparison, and a full buffer may do so
early, in the middle of any function. `MacsInv` (`MacsKept`) adds to `IInv`

  - that every comparison a rank has still to do stands behind the digest it is of,
    with nothing but their messages between them, and that while one is under way the
    digest is what its buffer holds (`OpenTo`): what is cleared has been compared;
  - that every buffer but the line buffer has a check still to come, after which no
    step of the rank adds to it (`Covered`), or is empty;
  - that a rank's buffers and digests hold no other rank's wrong mac (`Owned`), and the
    wrong mac once entered is in one of them until a comparison fails (`Kept`).

- `WrongMacsFound`: `Spec => []WrongMacIsFound`. When both ranks have returned the
  digests are used up and all buffers but the line buffer are empty; the wrong mac is
  in the line buffer, or its rank has failed, and with it its peer, at
  the same comparison.
- `NothingElsePending`: when both have returned nothing waits for a check but what is
  in the line buffer. `NothingPending` itself is not true of every program (finding 2).

`Calls` leaves out `OptSShuffleA` of less than two elements: its double translation
then has no OTs, and both halves divide by their number (shuffle.cc:2288 and 2383).

### The translations

For every size of calls, blocks and batches, any number of merge rounds, every field
and all seeds, with at most one wrong element. `TranslationsAssumption` and
`BlocksAssumption` say what the calls of the code satisfy: a block is not longer than
its call and has at least two elements (`compose_vec_2k` divides by the bits of its
length). `LayersAssumption` says that the functions named `_2k` are called with powers
of two, which they enforce (true_cr.cc:1603). The random choices are constants of the model, `Draw` and `GenPerm`; where a
theorem needs that they are elements of the field and permutations it says so
(`Draws`, `Permutes`).

- `MasksOnce` (`Translations_proofs`): `Spec => []MasksSpentOnce`. The property
  compares every two spans used; the invariant `SpentInv` says instead what is *not*
  used yet at each stage: of a batch's VOLEs the elements from this round's offset on
  (`UnspentRounds`), and all VOLEs of batches still to come, which are told apart by
  the length of the pool (`UnspentBatches`). A round's six spans are apart and lie in
  its part of the VOLE, which the number of rounds times four sizes holds
  (`RoundMasks`, `NextPart`); the layers do the same in a pair of VOLEs of their own.
- `TranslationsOnce`: `Permutes => (Spec => []EachTranslationOnce)`. The invariant
  `IdsInv` follows the numbers of the translations: the pool holds those up to
  `MergeRounds` times its length (`PoolIds`); those of the batch follow, in the order
  of the common shuffle, and the p-th merged one holds the numbers at p, p + num,
  p + 2 * num ... of as many rounds as have been merged (`BatchIds`), which after the
  last round are all of them (`AllRounds`); n layers hold the first n * `T_num` of the
  pool (`LayerIds`).
- `DeltasAlwaysFit`: `Permutes /\ Draws => (Spec => []DeltasFit)`. Set lacks one leaf
  of each tree; under a permutation it is one leaf of each row and of each column, and
  what it lacks in both sums is the same leaf, which cancels (`FitsAt`). That no other
  leaf is wrong is what the check over the bits shows: a wrong one changes the parity
  of its row, and of no column that the row is compared with (`NoWrongLeaf`). The sums
  are those of `MapThenSumSet` over functions that differ at one place (`SumsDiffer`).

- `HonestCallsPass`: `Permutes /\ Draws => (Spec => []ChecksPass)`. A translation is
  right (`Good`) when its permutation is one, every element of a has its mac, and that
  of b at its place opens to the same; the invariant `RightCall` says that the pool,
  the batch, what is merged so far and the layers so far are right and nothing has
  been found. A translation just made is right because r_sub_b hides the sums that
  cancel (`PermIs`, `GoodTranslation`). A round keeps that (`RoundIsRight`): what is
  opened has macs, the new b is y's b plus what was opened, which is x's b less y's a,
  and the products by R and T are multiples that agree (`ColumnRound`,
  `ColumnProducts`). All of it is a calculation with congruences modulo the field
  (`Cong`); rests are taken away first, since the solver does not know them. Side by
  side and laid out for a layer (`Laid`, `GoodLaid`) are one argument: every place of
  the result is the place of one element of one block. For a layer that is arithmetic
  of `Offset`, a recursive function: block q * s + i starts at q * T * s + i, where s
  is the step of the layer (`OffsetIs`, by induction over a set), and steps divide the
  blocks because both sizes are powers of two (`StepFacts`, `LayerCells`; what `2 ^ k`
  is, is counted as the number of subsets of k elements, `PowerFacts`).
- `ComposesPermutations`: `Permutes => (Spec => []TypeOK)`. The same lemmas for no
  columns at all: whatever is wrong with the values, permutations compose and lay out
  to permutations (`PermsInv`).

### The dry runs

For every set of programs over the nineteen operations (`Operations`), any number of
elements and any size of the buffer of `NdssBufferAppend`.

Everything rests on one statement about each operation (`OperationPlanned`), between
its scripts at the two ranks and what the twins count there:
`Planned(a, b, r, u)` says that rank 1 asks for what rank 0 asks for, each under its
own name (`Renamed`: where one sets the other gets); that the twins count alike; and
that each script takes out of every slot of the cache exactly what its twin has
counted for it (`Covers`). It holds of single steps, of one script after another and
of repetitions, and so of each operation as its script is composed: one lemma for
each, from `PlannedRandA` to `PlannedOptSShuffleA`. The block sizes of `ShuffleA_2k`
and the rounds of the two shuffles stay parameters. `SumA` and `NdssDelayCheck`, which
have no script or no twin, are dealt with by themselves.

- `TypesHold` (`DryRuns_proofs`): `Spec => []TypeOK`. That no stock falls below zero
  is `ServedFacts`: a request is served only if the cache has it all.
- `DryRunsCover`: `Spec => []OfflineCovers`. The inductive invariant (`Planning`)
  relates three sums over the calls of the program, for each slot: while a rank is
  dry what it has counted is what the calls so far will take; in the program proper
  what the cache holds and what the calls so far have taken is what all of them take,
  and nothing has been generated. A call takes what its twin counted, provided both
  are called with as many elements: hence the condition that nothing follows a
  `SumA`. The call never finds less than it takes, since sums only grow (`CumFacts`).
- `NothingLeftOver`: `Spec => []NothingWasted`, from the same invariant: at the end
  the calls have taken everything.
- `TapesHold`: `Spec => []TapesAgree`, without any condition on the program: requests
  that miss the cache and checks of the shuffles are drawn alike too. `View` is what a
  rank has, as rank 0 names it; `NextView` says that the view after a step follows
  from the view before it, be it a twin, `force_cache` with its two orders
  (`OrderTurned`), or a call with its hits, misses and early checks
  (`CarriedOnAlike`). So both ranks walk one path of views (`PathInv`), along which
  the tape only grows.

`DataLemmas` has what these proofs share: induction over the natural numbers in a
form that speaks of a set instead of an operator (`NatSetInduction`), and facts
about prefixes, concatenations and sequences without repetition.

### Only model-checked

- `NothingPending`, of programs without a share translation: it is not true of every
  program (finding 2); `NothingElsePending` is what is.
- Of `Translations`: that a fault is found (`FaultsAreFound`: it depends on the random
  elements drawn, and some draws hide one), and that three layers of blocks of two
  reach all permutations of four elements (`EveryPermutation`, a count).
- All liveness: fairness and `ENABLED` are out of the prover's reach, as is what a
  recursively defined value is for every input (the products' tree is unfolded one
  call at a time instead).

## Findings

1. `ferret_reserve` (ot_adapter.cc:228): `bootstrap_inplace_counter` is never
   incremented, so after in-place rounds the reserve is not refreshed and seeds
   two extensions. The adapter is not the one `TrueCorrelation` sets up today.
2. `session_pending` (true_cr.cc:1343): `DelayCheck` never looks at the line
   buffer; below 2^24 elements what `ASTSet`/`ASTGet` entered stays unchecked.
3. `session_product` (true_cr.cc:1457): the product of one factor throws.
4. `dry_runs_ndss` (protocol.cc:365): `NdssDelayCheck` asks for a random element no
   dry run has counted, so a program that separates the phases still generates
   correlations online, against what README.md:90 says of `--cache 1`.

## Not modelled, and why

- *Field and vector arithmetic* (`field.h`, `uint256.*`, `vec_op.*`): stateless and
  at its real width out of TLC's reach.
- *Values of shares, triples and products.* The batching of `Mul` is where they
  would matter: its offset is `i * small_batch_num` (true_cr.cc:1412) where
  `BeaverTriple` has `i * batch_size`. Read from the code, with more than one
  batch the triples overlap and leave a gap at the end; the products stay right,
  with zeros for the missing triples. No run shows it.
- *`FakeCorrelation`'s values* and its `_2k` and `Batch` generations; what its cached
  generations draw is in `DryRuns`.
- *Linear codes, the inside of the Ferret extension, KOS OTs, the GYWZ variants of
  the trees, yacl*: data, unused, a variant of what is modelled, or external.
- *`MpParam::require_ot_num_`* (mpfss.h:51): the number of OTs is not counted.
- *Setup before the first key*: the states that programs start in. The setup of a
  later key (`SetKey`, `SetVoleKey`) is in `session` and `session_shuffle`.
- *Examples' command lines and timers.*
