# Retusche in TLA+

Retusche is a self-hosted photo editing service that sits beside a photo library:
callers hand in an image, a mask and an operation, the job waits in a queue, an
engine runs it on a device it shares with other programs, and the weights an engine
needs are fetched into a store of their own. At this commit the tree holds the parts
and not yet the process that joins them. This directory models the parts that keep
state or decide something, checks them with TLC on small instances and proves what
matters most with TLAPS.

Contents: 1 inventory, 2 modules and code, 3 runs, 4 fairness, 5 proofs, 6 findings,
7 what is left out, 8 plan.

## 1. Inventory

| Component | State it keeps | Operations | Module |
|---|---|---|---|
| Job state machine (`queue/states.py`) | none | `check_transition` | `JobStates` |
| Durable job store (`queue/store.py`) | one SQLite file | `accept`, `move`, `recover_after_restart`, `read`, `in_state`, open and close | `JobStore` over `JobRows`; promises `JobLedger` |
| Device memory budget (`queue/budget.py`) | none | `fits` | `DeviceBudget` |
| Device lane (`queue/lane.py`) | the jobs on the device, sleeping threads | `serve` (`admit`, prepare, `occupied_by`, the engine call) | `DeviceLane` |
| Ordering (`queue/ordering.py`) | none; its caller keeps a counter and the waiting set | `order`, `next_to_start`, `interactive_run_after`, `position_of` | `Ordering` |
| Model store (`models/storage.py`) | a directory tree | `room_for`, `used_bytes`, `remove`, `installed` | `ArtefactFetch` |
| Artefact fetch (`models/fetch.py`) | the file being written | `fetch_artefact` | `ArtefactFetch` |
| Model registry (`models/registry.py`) | none | `load_registry`, `pinned_revision` | `ModelRegistry` |
| Configuration (`config/`) | the parsed settings | `load`, the accessors, `effective_lines` | `Configuration` |
| Engine contract (`retusche_contracts/engine.py`) | none | `estimate_device_memory`, `run` | `EngineContract` |
| Fake engine (`testing/fake_engine.py`) | a script, one event | the same two | `EngineRun` |
| Masking (`masking/geometry.py`, `mask.py`) | none | `rasterise`, `MaskReading`, `read_mask_for_image` | `RasterMask` |
| Logging (`logging/`) | a threshold | `level_from_name`, `record`, `Log.emit` | `LogLines` |
| API description (`api/`), generated references | none | tables and text | not modelled |
| Repository scripts (`.github/scripts/`) | none | link and gate checks of the build | not modelled |
| Entry point, dispatcher, worker | not in the tree | | not modelled |

How they meet. A dispatcher would accept a job into the store, put it among the
waiting, ask `order` and `next_to_start` who is next, and give it to the lane; `serve`
asks the engine for its estimate and `budget.fits` for the comparison, prepares the
request, takes a seat and calls `engine.run`, which reports progress through a callback
and watches a cancellation token another thread sets. The store and the lane keep
separate records and neither calls the other. Model entries come from the registry; a
fetch asks the store whether there is room and then writes beside whoever else does.
What is shared at run time is therefore: the database file (between connections and
across restarts), the lane's condition variable (between threads), the directory tree
(between fetches, removals and the operator), and the token and the event of a run. An
identifier goes from a registry file to a directory name of the store, and `log_level`
from the settings to the threshold of the log, which checks it on its own.

What is hard, component by component, and what makes it correct:

- *Job store.* Writes are several SQL statements; other connections, signals, storage
  errors and the end of the process fall between any two. Correct means: the file
  changes by whole legal moves only, no answer is taken back, no two callers win one
  transition, recovery is all or nothing, and an ending is final.
- *Lane.* Threads arrive, sleep, wake and fail in any order around one condition.
  Correct means: never more engine calls than seats, a seat for each call and for
  nothing else, no sleeper beside a free seat, and every call ends.
- *Ordering.* Stateless functions whose guarantee, the starvation bound, only shows
  over many turns of a loop, with jobs that cannot start in between. A position read off
  one order must say how long the wait can get while the loop goes on.
- *Fetch and model store.* Names are shared and files are not: creation, cleanup and
  rename work by name while another process does the same. Correct means: an artefact's
  name leads to a whole verified file, nobody's file is taken away, what is refused is
  removed and what else stays is accounted for, the ceiling holds, and each model has a
  directory that is its own.
- *Engine.* A token may be set inside a step, while a step is held, or after the last
  one. Correct means the contract of `engine.py`, honest progress, an estimate that
  foretells refusals, untouched pixels where the mask is zero, and an end to every run.
- *Masking.* Index arithmetic over clipping, half-open bounds and rings, and bytes that
  may not be as many as their shape says.
- *Declarations.* Whatever is refused is refused whole, all mistakes are named, the most
  specific source wins, and what a log may say does not depend on its threshold.

The 40 hazards listed in `PROJECT.json` go through this line by line, each with the
properties that would catch it, or a note where none does.

## 2. Modules and how they follow the code

Every definition that stands for code is listed under `map` in `PROJECT.json` with its
lines. The conventions: one action per step that other actors can fall between, the
source's names where TLA+ allows them, exceptions as outcomes named after their classes,
messages and wording left out.

- `JobStates`, `JobRows`: the transition table, the reasons a terminal state carries, and
  what a row of the table can hold, hand-edited rows included (`FileRow`).
- `JobLedger`: the abstract store. A table that changes by `Accept`, `Move` or `Settle`.
- `JobStore`: each `Connection` goes idle, begun, writing, committed and back. `Begin` is
  `BEGIN IMMEDIATE`, `Select` the read inside the transaction, `Write` one statement,
  `Commit`, and `Return` the record reaching the caller; `Refuse`, `StorageFails`,
  `InterruptCall` and `InterruptBegin` are the ways out. `Crash` closes every
  connection and keeps the file. SQLite is external and modelled from the pragmas the
  store sets (write-ahead log, synchronous FULL).
- `DeviceBudget`: an operator; an equal figure fits.
- `DeviceLane`: a `Dispatch` is one thread in `serve`. A block under the condition's lock
  is one step; `Wait` ends it and the woken thread decides again later. The answer
  of admission is dropped, as `serve` does.
- `Ordering`: the pure functions as operators, and the loop of
  `tests/test_queue_ordering.py` around them (`Accept`, `Start`), with the identifier as
  tie-break. `position_of` is read off the order of a turn; `PositionForetells` compares
  what it says with what the loop then does. `streak`, `background_streak`, `passed` and
  `ahead` are history; which background jobs count as `ahead` is said by `Older` and not by
  the sort key, so that a tie broken the wrong way is seen.
- `ArtefactFetch`: names lead to files (`tree`); a fetch holds a `handle` that survives
  the deletion of its name. `fetch_artefact` returns at once for what is installed, refuses
  a source that may not be opened (`refuses_source`), then asks `room_for`, whose walk
  lists names and then measures them (`Measure`), so a name may be gone in between. An
  identifier is a sequence of characters, because `refuses_as_directory` tells them apart.
  `CleanUp`, `Refuse` and `Install` each may be refused by the filesystem, and `Interrupt`
  is an interrupt outside the try block or an error of a step without a cleanup; either way
  the call is over and its file stays (`Abandon`). `left` is history: the files that were
  left so, as `orphans` are those of killed fetches.
  `LiveDeletion` says whether names may be deleted under a running fetch.
- `EngineContract`: the abstract run. `EngineRun`: the fake's step loop; the token is read
  in `Check`, the step is done in `Work`, `Hold` and `TimeOut` are the scripted block, and
  `ProgressRaises` is the caller's callback failing.
- `RasterMask`: the covering loop shape by shape, the feather ring by ring, and the
  reading of that mask or of one handed in, whose bytes may not fit its shape. Coordinates
  are doubled so that centres are integers. A polygon without points is `Pointless`.
- `Configuration`: `load` as five steps over the declared settings (`SETTINGS`, or others
  a caller passes) and three sources, then the accessors. A written value is its TOML type
  and what it says.
- `ModelRegistry`: the loop of `load_registry`; `checks` lists the refusals of one entry
  in the order the code makes them. `RaiseUnread` and `RaiseMalformed` are the ways out of
  the load that are no refusals: a file that cannot be read or decoded, a number too long
  for `int()`, and a source that `urlsplit` raises on.
- `LogLines`: one log. `record` builds a record or refuses the call with everything that
  is wrong with it (`ProblemsOf`); `emit` compares levels by `SEVERITY` and hands the line
  to a sink that may raise. A value is its type and what the checks tell apart in it.
- `Declarations` puts the configuration, the registry and the log beside each other: one
  of them runs and what the other two read stays where it starts. The settings are any
  declared ones, or the tree's own (`SETTINGS`) with what may be written for them.
- `MC*` modules give the constants; `*Proofs` modules hold the theorems,
  `DeclarationsProofs` those of the configuration, the log and the registry.
  `CountingLemmas` has what four of them share: in a finite set under a strict total
  order, taking the element with i - 1 before it as the i-th lists each element once and in
  order, which is how two models write `sorted`; a set of numbers has a least one;
  induction over an interval and over the subsets of a finite set, each for one set of the
  numbers or subsets that are good, because a theorem that takes a predicate as its
  parameter cannot be used; and sums over finite sets, by that induction.

## 3. Runs

| Run | Instance | States | What it shows |
|---|---|---|---|
| `store` | 2 connections, 2 jobs, both interruptible, 4 moves, rows left by an earlier process and a row edited by hand | 82 295 | the seven properties of the store, with crash and restart at every point |
| `lane_seats` | 5 dispatches, 4 jobs, 2 seats, two budgets | 14 706 | seats, wake-ups, and that every call ends |
| `lane_second_dispatch` | the same lane, nothing resident | violation | a wake-up can be used up by a refusal (finding 1) |
| `ordering` | 6 jobs, bound 2, one of them as large as the budget, nothing resident | 262 267 | the bound, one promotion at a time, a turn for each background job, and positions that foretell |
| `ordering_tight` | the same, with weights that take half of the budget | violation | the bound fails when the oldest background job cannot start (finding 2) |
| `fetch` | 2 callers, 5 entries under 4 identifiers, 4 files, ceiling 2 | 29 603 | the fetch properties, with kills, interrupts, removals, broken sources, a filesystem that refuses and identifiers that are no directory of their own |
| `fetch_budget` | the same | violation | two fetches exceed the ceiling together (finding 3) |
| `fetch_deleted` | the same, names deleted under a fetch, 6 files | violation | a growing file under an artefact's name (finding 4) |
| `fetch_left` | the same as `fetch` | violation | a file left although nothing was killed (finding 5) |
| `engine` | 2 runs, 11 scripts, 5 requests | 100 828 | the contract is implemented, callbacks that raise included; estimate, failures, pixels, and an end |
| `raster_mask` | 1 661 requests, on canvases up to 5 by 3 and masks handed in | 6 588 | coverage, the ramp as a distance, empty shapes, the reading |
| `declarations` | 16 460 initial states: configurations, registries and logs | 337 827 | what is in force, what is named, what is hidden, whole registries, and lines of declared fields only |

Why the bounds are enough to be worth running:

- *Two connections* are all it takes for one writer to stand between another's read and
  its write, and two jobs for a recovery to be interrupted between two updates. The
  theorems of section 5 lift both bounds.
- *Five dispatches over two seats* leave three to sleep: one woken, one behind it, and a
  newcomer at the door, with two calls for one job and a job no budget can hold.
- *Six jobs and a bound of two* let the bound be met twice, with a second background job
  behind the first. Identifiers are not in the order of arrival, so ties are decided by
  them.
- *Two callers and five entries* give two fetches of one entry, two of different entries
  in one directory, an entry whose source is never opened (plain http to another host),
  an identifier that differs from another in case only, and one that is two dots. Sizes
  of 1 and 2 chunks leave a moment when a file is half written. Four files are one for
  each caller and two left behind.
- *Up to three steps* put a block, a failure and a token on the first, a middle and the
  last boundary.
- *Canvases up to five by three* have inner pixels, all four edges and corners; the
  shapes hang off each side, touch, cross themselves or cover nothing. Masks handed in have
  too few bytes, too many, or the shape of none or of another image.
- *Two settings*: one of every kind with every sort of default, and a secret, each
  written in any subset of the three sources; and the settings of the tree themselves.
  *Three files* put the one at fault first, in the middle and last.
- *Two records* (`MaxRecords`) under each of four thresholds and one that is no level put a
  line that is passed over, or lost to the sink, before one that is written.

`fetch` tells states apart by a view: the bytes of a file nothing leads to any more, how
such a file was left, and how a call ended that has ended are not part of it. No step
reads them and the safety properties speak of them only as types (of an outcome TLC sees
one representative; the theorem `TypeCorrect` has no such limit). `AloneWithinBudget` and
the others read files through names and handles, which the view keeps.

Symmetry is used in `store` (jobs, connections) and in the fetch runs (callers), for
safety properties only. Unbounded counters do not occur: arrivals, starts and steps end
with the jobs, and a session of the store is bounded by its finite state.
`declarations` alone switches the deadlock check off: a load ends. In the others,
what may stop says so with a stuttering action (`AllEnded`, `Drained`).

Each property is also run against a version of the model with one plausible mistake
(the definitions called mutants), which must break it.

## 4. Fairness

- `DeviceLane!FairSpec`: weak fairness of `Serve(d)` for each dispatch. Each is a thread
  of its own that the operating system schedules, the condition's lock is held for short
  blocks, and an engine call and a preparation end. The last is an assumption about the
  engine; `EngineRun` is where it is checked for the one engine there is. No strong
  fairness is needed: who sleeps is moved by `LeaveSeat` of another, and a thread that
  overtakes at the door does so only once.
- `EngineRun!FairSpec`: weak fairness of each run's thread. It covers `TimeOut`, because
  the code waits with a timeout. Nobody is obliged to cancel or to release.

Nothing is assumed of the store (a writer may be locked out for ever, and the code says
so with an error), of a fetch (the source is opened without a timeout), or of the order
loop.

## 5. What is proved

A theorem holds for every value of the constants that the named assumptions of its
module allow; TLC evaluates those assumptions in every run. Where a theorem asks for more,
it says so in its ASSUME.

`JobStoreProofs`, for any sets of jobs, connections, requests and file rows:

- `TypeCorrect`, `DecisionsAlwaysStand`, `FinishedIsForever`, `RecoveryIsAlwaysWhole`,
  `StoreImplementsLedger`. They rest on one inductive invariant, `IInv`. None of its parts
  is inductive alone: the rows a transaction decided follow from the file (`DraftsDecided`)
  only because what it read is still the file (`ReadIsCurrent`), which needs the
  lock to be held by whoever is inside (`OneWriter`); a recovery settles everyone because
  what it has written and what it has yet to write are together the running jobs
  (`RecoversTheRunning`). A commit then maps to one step of the ledger and every other
  step to a stutter. `InterruptBegin` leaves the lock with an idle connection, so
  `OneWriter` says who may be inside, and not that the lock's holder is.
- `AnswersAlwaysHold` and `AtMostOneWinner`, from `AInv`. The answer of a caller is
  promised at the commit and given at the return, so the invariant speaks of what is
  *owed*: the answer given, or the one a committed call is about to give.

`DeviceLaneProofs`, for any number of dispatches, jobs, seats and budgets:

- `TypeCorrect`; `LaneIsNeverOverOccupied` and `SeatsAreAlwaysHeld` from `SeatInv`, which
  adds that the seats counted are the engine calls counted.
- `SleepersAreAccountedFor` from `WakeInv`: while somebody sleeps, seats taken, wake-ups
  under way and refused second dispatches make up the limit. It is the strongest form of
  "nobody sleeps beside a free seat" that the code satisfies.
- `NobodyIsStranded`: with one seat, or with one dispatch per job, the unweakened
  `NoStrandedWaiter` holds. So the refusal in finding 1 is the only cause of a stranded
  waiter. The run that checks `NoStrandedWaiter` is outside those conditions on purpose.

`OrderingProofs`, for any jobs, any bound and any budgets:

- The lemmas say what the functions return: `ranking` lists the waiting jobs, each once
  and in the order of the sort key (through `SortedLists`), `promote` moves one of them to
  the front, and the first that can start is found.
- `PromotionsAreSingle` (`OneBackgroundAtATime`) from `StreakInv`: a promotion resets the
  counter of interactive starts, so the next turn promotes nobody.
- `StarvationIsBounded` and `EveryJobHasItsTurn`, where every job fits every budget
  (`RoomForAll`). Without that they are false, which is finding 2. `StarvationInv` ties the
  streak that callers see to the counter they pass back. `TurnInv` is the accounting
  behind a turn: the interactive jobs that have passed a background job are at most the
  bound for each background job that was ahead and has started, and the present run.
- `PositionsComeTrue` (`PositionForetells`), whatever fits. It speaks of the loop played on
  to its end, so there is no step to induct over but the turns of that play: `PlayExists`
  shows there is one, `UnattendedIsPlayed` that it is the one the property looks at, and
  `EachHasATurn` that each waiting job is started at some turn. `Progress` says what t turns
  have done for a job that still waits. A background job has t jobs fewer before it. An
  interactive one may have stood still, at promotions only, and each of those followed
  Bound turns that moved it up or what the run had already counted; hence one promotion
  for every Bound jobs ahead and one more. `OrderPlaces` and `PositionIs` say that a
  position is the number of jobs with a smaller key, and one more behind a promotion.

`ArtefactFetchProofs`, for any number of callers, entries, files and identifiers:

- `TypeCorrect` and `DirectoriesAreOwn`, with and without deletions under a running fetch.
  The second only needs what `refuses_as_directory` lets through: a directory is one step
  below the root whatever a registry names.
- `IncomingIsAccountedFor` (`LeftoversAreAccountedFor`): a source that breaks off, a disk
  that fills, a callback that raises and a digest that differs leave nothing under the
  incoming name; what is there belongs to a running fetch, a killed one, or a call that ended
  where no cleanup ran or could. `Rests` in the invariant is those two kinds of remains. That
  only a killed fetch leaves a file (`NothingLeftBehind`) is what the module text says, and
  is finding 5.
- `ArtefactsAreWhole`, `NamesAreOwn` and `IncomingIsAccountedFor`, where deletions spare
  what is being fetched (`LiveDeletion = FALSE`; the other case is finding 4). None of the
  three is inductive alone: a rename installs a verified file because the name still leads
  to the handle (`NameIsOwn`), which holds because creation is exclusive, no two names lead
  to one file (`OneNameEach`), no two fetches write to one (`HandleInv`) and a removal takes
  only names of a model nobody is fetching (`RemovalInv`).
- `OneFetchStaysWithinBudget` (`AloneWithinBudget`), with deletions under the fetch and
  without. The bytes present are a sum that other steps than the fetch's own change, so
  `BudgetInv` keeps a promise: while fetches have not overlapped, what the store holds and
  what the one fetch may still write (`RoomFor`: its entry's size less what its file has, or
  all of it before there is a file) are within the ceiling, and no file has two names. A
  chunk moves bytes from the second part to the first, a name less or a crash only
  lowers the sum, and what `room_for` measures is all there is, because nobody else creates
  a name in between. Sizes and numbers of files are unbounded: `SumWithOneMore` is the step.

`EngineRunProofs`, for any number of runs, any scripts and any requests:

- `TypeCorrect`, `TokensAreHeeded`, `FailuresAreScripted` from `IInv`, whose `LoopInv` ties
  `step` to `completed` at each place of the loop and whose `TokenInv` says of a token that
  is set how far the run may still get from where it is.
- `RefusalsAreForetold`, unless a script itself fails a step with `UnsupportedRequest`,
  and `UnmaskedPixelsArePreserved`, for canvases, borders and masks of any size.
- `EngineImplementsContract`: the step that ends a run maps to the contract's answer, and
  every other step of the loop to progress or a stutter, unless a script itself fails a
  step with `Cancelled`: that is an answer the contract keeps for a token.

`RasterMaskProofs`, for any shapes, canvases of any size and any bytes handed in:

- `DistanceDecidesTheValue` (`RampIsDistance`) and `MasksAreReadAsDrawn` (`ReadAsDrawn`)
  from `MaskInv`. The property speaks of distances and the code of neighbours, so the
  invariant says what the two sets it keeps are: `reached` is what lies within `distance`
  steps of a covered pixel, `frontier` what lies no nearer. `NextRing` is the step: what
  touches the frontier and was not reached is exactly one step farther, because a pixel
  some steps away has a neighbour on the canvas one step nearer (`OneStepNearer`) and an
  index neither wraps round a row nor leaves the canvas (`NeighboursAreOneStep`). That the
  ramp is neither nothing nor everything on any ring (`RampIsPartial`) holds for feathers
  up to 254, the limit the code sets, and not beyond.
- `ShapesAreCovered` (`CoversItsShapes`) and `TheFirstEmptyShapeIsRefused` from `ShapesInv`.
  What they rest on is `CoversItsRegion`: bounds cut no shape short, and what hangs off the
  canvas is clipped. For an ellipse the centres inside it lie between the sides of its box
  (`EllipseInItsBox`); for an outline, a circle of points changes sides of a row an even
  number of times (`ChangesOfSideAreEven`, by the least number of points at which it would
  not), so that the crossings to the left and to the right of a centre are both odd or both
  even, and a row or a column beyond the bounds has none or all of them on one side.

`DeclarationsProofs`, for the configuration, the log and the registry:

- `ConfigurationTypeCorrect`, `MistakesAreAlwaysNamed`, `TheMostSpecificWins` from `LoadInv`,
  for any declared settings under different names and any sources. It says at each of the
  five stages of a load what has been merged (the last source that names a setting), what
  has been complained of (the unknown names of the sources looked at, the values of the
  settings looked at) and what has been parsed. `SecretsAreNeverShown` adds `SecretsInv`,
  about the lines and the answers given. `OwnSettingsAreSound` shows that the six settings
  of the tree satisfy the assumption.
- `LinesHoldWhatIsDeclared` from `LinesInv`: what is built had no problem, and what is
  written is the rendering of something built; `CallChecks` shows that the problems of a
  call are those of the fields that may not stand in its line. What may stand there is what
  the code checks, text without blanks or a number from zero. That a state is one of its
  enumeration is not claimed: the code does not see to it (section 6).
- `TheThresholdAloneDecides` from `VerbosityInv`: the i-th line is the i-th record that was
  due and not lost, for any number of records.
- `TheRegistryIsWholeOrNothing` from `RegistryInv`: the files before the one in hand are
  without fault and the entries are theirs, one each under its own identifier. Its two
  lemmas carry the content: the sixteen checks of an entry refuse it exactly where it is
  not complete (`ChecksAskForAll`), and a source exactly where the first revision in it can
  move (`MovableIsRefused`).
- `ReadersAreTyped` (`DeclarationsTypeOK`) and `EachReaderAsIfAlone`, for the three beside
  each other (`Declarations`). The invariants are about what a load reads and not about
  which constant it came from, so they hold of the tree's own settings and of the readers
  that have nothing to read.

Only model-checked: liveness (`EveryDispatchEnds`, `EveryRunEnds`). Fairness speaks of
ENABLED, which the prover does not reach. Every other property of a passing run is a
theorem above. Some are theorems under a hypothesis: `StarvationBound` and `EachHasItsTurn`
where every job fits (`RoomForAll`, see finding 2), three of the fetch where deletions spare
what is being fetched (see finding 4), and the two of the engine whose scripts could fail a
step with the very exception the property is about.

`ordering` and `raster_mask` check no type invariant: what their few variables hold is
what their four properties are about.

## 6. Findings

1. *A wake-up lost to a refusal* (`lane.py:231`). With two seats or more, a woken
   dispatch that finds its own job on the device raises and passes no wake-up on;
   another sleeps beside a free seat until a running job ends.
2. *The starvation bound is not tight* (`ordering.py:192`). Only the oldest background job
   is promoted. While it cannot start, younger ones that could are passed over
   without a bound.
3. *The ceiling is asked, not reserved* (`storage.py:276`). Two fetches that ask before
   either has written exceed it together. One at a time it holds
   (`AloneWithinBudget`).
4. *The rename takes whatever the name leads to* (`fetch.py:263`). After a live deletion
   of the incoming name, which the documents call safe, a first fetch may install a
   second one's unfinished file.
5. *A failure may leave a file* (`fetch.py:263`). The rename, the digest's refusal with its
   unlink, and the line between the creation and the try block are outside any cleanup, and
   an unlink may fail like any other call. A rename that is refused (another program holds
   the file, a directory has the artefact's name), a failing unlink or an interrupt there
   leaves the `.incoming` file with the process alive. `fetch.py:20` says "Nothing", and
   `fetch.py:29` that only what runs no code leaves one. The next fetch of the entry is
   refused until somebody deletes the file.

Smaller disagreements, seen while modelling and not given a run:

- `lane.py:33-35` says that a job that fits the budget and not the room free right now
  waits, while `serve` drops the answer of admission and lets it run (`lane.py:262`).
- `fields.py:81-83` says of a state that it is "never free text" and that its enumeration
  fixes what it can be "rather than whoever wrote the call", and `fields.py:99` and
  `docs/logging.md:60` and 92 say the same of states and error reasons, while `record`
  asks of them only what it asks of any text, so that `job_state="IMG_2019-anna.jpg"`
  reaches a line (`records.py:224`).
- `loading.py:22-24` says every value is parsed, while a malformed value that a later
  source overrides is never looked at.
- A number of more digits than `int()` reads leaves `load` as a `ValueError`
  (`loading.py:302`).
- A registry file that cannot be opened or is not UTF-8 (`registry.py:271`), a number in
  it of more digits than `int()` reads, and a source `urlsplit` cannot take apart
  (`registry.py:304`) leave `load_registry` as an `OSError` or a `ValueError`, not as a
  refusal that names the file.
- The patterns of `registry.py:89-97` end in `$` and so let a final newline through.
- `fetch.py:237-238` says the ceiling is asked before the scheme, and the code refuses the
  scheme first.
- The fake's estimate does not look at the step count its run may refuse
  (`fake_engine.py:205`).
- A token set after the last boundary leaves the run its image, where `engine.py:31-33`
  speaks of no result.
- `remove` answers 0 for the empty directory a failed fetch left, and `installed` lists
  it, where `NotInstalledError` is "raised rather than answered with zero".
- `room_for` asks nothing of an entry that is installed because "nothing would be
  fetched", and a fetch that found it missing a moment earlier goes on to fetch it.
- `_bytes_under` says a store removed under it counts as nothing, and a name that vanishes
  between its listing and its measuring ends the question in FileNotFoundError.
- A polygon without points leaves `rasterise` as a `ValueError`.
- The fields of a frozen `Record` are a dict that whoever holds the record may still
  change, where the class calls itself evidence that the declaration was consulted.

## 7. Abstractions and what is not modelled

- Pixel data is a model value per pixel; what the fake derives from its hash is one value.
- Sizes are chunks, memory is small units; the comparisons are exact. The masking code
  compares in floating point and the model in integers: for shapes about the size of a
  canvas they decide alike, for coordinates far beyond one the code may round.
- An ellipse is judged by its own inequality, so `CoversItsShapes` checks its bounds and
  its clipping; rectangles and polygons are judged by a definition of their own.
- The volume's free space may answer either way at any time.
- The lane compares each job with the budget, as the code does, never the sum of those
  that run.
- The mask's reading counts pixels; the fractions and the sentence made of the counts are
  left out. A log line is a function from names to values; its JSON text is left out, and
  with it the quoting of what a value holds.
- The bytes `remove` says it freed are not kept. Letter case is the only way two
  identifiers name one directory in the model; the names some systems reserve are not.
- An interrupt in `_transaction` falls before the try block (`InterruptBegin`), in the body,
  which is rolled back, or after the COMMIT (`InterruptCall`), and nowhere between the body
  and the COMMIT. The interpreter runs signal handlers after calls, at jumps backward and
  when a function is entered or a generator resumed: the resumption after the yield is inside
  the try block, and from there to the call that commits there is no such point. An
  interrupt on entering the context manager's `__exit__` ends the generator when the
  exception is dropped, and its `except` rolls back then; the model does both at once.
- Not modelled: `KeyboardInterrupt` inside a wait; two processes that create the database
  at one moment; duplicate names among the declared settings; a second log.
- The API tables and the generated references are text without state. The scripts under
  `.github/` check the repository on a build server (that links answer, that a gate ran)
  and are no part of the service; what they do depends on pages of other hosts.
- There is no dispatcher in the tree, so no module composes the store, the ordering and
  the lane: it would be a design and not a model of this code.

## 8. Plan

What was planned is modelled, checked and proved. What is left needs code that is not in
the tree, or tools that are not at hand:

1. A dispatcher, once there is one: a module that composes `JobStore`, `Ordering` and
   `DeviceLane`, and shows that a job accepted is a job ended.
2. Liveness of the lane and of a run as theorems, when the prover handles ENABLED. The
   safety half is there: `SleepersAreAccountedFor` and `NobodyIsStranded` say that nobody
   sleeps without a call under way that will wake them.
3. `StarvationIsBounded` with jobs that do not fit: only after finding 2 is decided.
