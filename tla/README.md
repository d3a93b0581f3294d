# A verification of osvpy

osvpy scans container images for vulnerable and badly licensed packages. A
Python coroutine (`src/osvpy/scanner.py`) hands a batch of images to a native
library written in Go (`go/`), which scans them concurrently with osv-scanner,
merges the findings into one immutable report, and leaves that report behind a
handle that Python views read (`src/osvpy/_native.pyx`).

This directory models what osvpy itself is responsible for: the concurrency of
a batch and of its cancellation, the ownership of native handles, and the
algorithms that turn scan results into a report. What osv-scanner, the registry
client and the Python executor do is external and is modelled only by the
outcomes that the code here can see.

## Inventory

| Component | State | Operations | What makes it hard, and correct |
| --- | --- | --- | --- |
| Batch operation, `go/operation.go` | context, `done`, `status`, `report`, `started`, `finished`; in `run` two bounded channels, `admitted`, `merged`, `pending` | `start`, `run` and its workers, `wait`, `finish`, `release` | Results in any order, panics in workers and in the coordinator, cancellation at any point. The report is whole, in input order and handed over once, or there is none; nothing runs once it is over; nobody blocks for ever |
| Handle layer, `go/abi.go` | cgo handles, `liveResults` | `osv_batch_*`, `osv_result_release`, `osv_result_get` | Handles are used from two threads and deleted by one of them |
| Scan call, `scanner.py`, `_native.pyx` 542-621 | task, executor job, `CancellationController` | `scan`, `cancel`, `publish`, `detach` | Cancellation during every phase, repeated cancellation, exceptions between two native calls. No lost cancellation, no dead handle, no leaked report |
| Alias groups, `go/store.go` 53-90, 290-343 | `names`, `parent`; `counts`, `roots`, `offsets`, `members` in `finishAliases` | `internAlias`, `root`, `union`, `finishAliases` | A union-find that compresses paths while it walks them; counts that become cursors; the groups must not depend on the order of requests |
| Projection and builder, `go/store.go` 91-289, `go/report.go` 99-145 | the report's tables, the memory of advisories by address, pending images | `projectImage`, `add`, `merge`, `occurrence`, `finding`, `finish`; `unique`, `projectAdvisory` | Results that came early take another route than those in turn; the report must not show it, nor the order of lists |
| Payload store, `go/payload.go` | texts, word store, chains of entries by fingerprint | `stringID`, the packers of fields, `packWords`, `internWords` | Colliding fingerprints, a full store, nil against empty lists, missing against empty values |
| Segmented storage, `go/slabs.go` | chunks and a length | `At`, `Append`, `Resize`, `Truncate` | A pointer to a row stays good while the table grows, and truncated cells come back as zero: what an array of rows promises, whether or not a caller needs it today |
| Indexes, `go/indexes.go` | offsets and members of sixteen indexes | `indexBuildOrder`, `buildIndexes`, `makeIndex` | In-place compaction, 32-bit counts, the order of construction |
| Views, `go/abi.go` 103-437, `_native.pyx` 28-540 | an owner with the handle, and coordinates | properties, `IndexedSequence`, `read`, `osv_result_get` | Kinds, fields, slots and widths agreed on between three files; a second read without the GIL while references are dropped |
| Fix evidence, `go/report.go` 156-250 | locals of `packageFixes` | `packageFixes`, `versionKnown` | Orderings that are not known; fixes neither lost nor invented |
| Acquisition, `go/bridge.go` | none | `executeContext` | External calls in sequence, whose outcomes feed the operation; a filter of packages that has to agree with the projection's |
| The rest | none | language tables, models, exceptions, measurement scripts, build | Not modelled, see below |

Calls go down: coroutine, executor job, handle layer, operation, workers. The
only call that crosses threads is `cancel`. Data go up once: responses over the
results channel, the finished report through `finish`. Python reads an
immutable report afterwards.

## Modules

```
Reading ......... reads of the report that a call returned
ScanCall ........ a call of scan: coroutine, job, controller, handles
   |  uses each operation as its owner, under the contract of
Batch ........... what an operation promises its owner          (abstract)
   ^  implemented by
Operation ....... coordinator, workers, channels
   |  merges responses with
Report .......... licence filter, projection and builder
   |                                          <- ReportViews: all views of it
   |-- AliasGroups    its union-find          -> AliasPartition  (abstract)
   |-- Payload        its texts and lists
   |-- FixEvidence    its fixes
   |-- FrozenIndex    one index; IndexPlan: the order of all of them
   '-- Slabs          its storage             -> Rows            (abstract)

MCReport, MCPayload, MCFixEvidence, MCReading ... instances for TLC

OperationProofs, ScanCallProofs, AliasGroupsProofs, PayloadProofs, SlabsProofs,
ReadingProofs ........ theorems about the module of that name
FrozenIndexProofs .... theorems about FrozenIndex and IndexPlan
ReportProofs ......... theorems about Report, ReportViews and FixEvidence
```

Every module has one action per step of the code that another actor can come
between, and names its definitions as the code does. `IndexPlan` and `FixEvidence`
have names of their own for what every specification has (`PlanInit`, `FixInit`...),
so that a module of theorems can extend them together with their caller. Operators
called `Mutant...` are plausible bugs of the definition they stand beside;
`PROJECT.json` says which property notices each of them. No definition of the models
uses them.

**Operation** (`go/operation.go`). `cpc` is where `run` is, `wpc` where each
worker is. `Enter` is lines 59-105, `AdmitCheck` and `AdmitSend` the closure
`admit`, `SelectCanceled` and `SelectResult` the two ready cases of the select,
`AddOrMerge` and `Project` the two ways of a result, `DrainTake` and `DrainEnd`
the inner loop, `BuildFinish` and `LastCheck` the end; `Unwind`, `Join`,
`Recover` and `CloseDone` are the deferred functions in the order in which they
run. Each `checkContext` is a branch of the action it belongs to, or a step of
its own where the code does something else first. `BuildFails` is a panic
inside the builder. The first `checkContext` (line 59) comes before the deferred
join and goes straight to `Recover`. A worker takes a job (`WorkerTake`), checks
the context (`WorkerBegin`), scans (`ScanReturns`) and sends or drops its result
(`WorkerSend`, `WorkerDrop`). A select with two ready cases is a choice. A scan
may return a report, a failure, or, once its context is done, a failure that is
the cancellation in disguise (`acquisitionError` turns it into an ordinary
response); it may panic, and it may hang until its context is done. The owner's
`finish` is two steps, since a cancellation may come between its wait and its
lock. A report is the sequence of its images, each with its index and outcome.

**Batch** is the same operation as its owner sees it: it settles at most once,
whole or with nothing, and one `finish` gets the report. `Operation` implements
it with `status` and `report` hidden until `done` is closed.

**ScanCall** (`scanner.py` 31-89, `_native.pyx` 542-621, `go/abi.go` 33-101).
`task` is the coroutine: awaiting, in `controller.cancel` before and inside the
native call, draining. `job` is the executor's job, with one value for each
native call and each part of the two `finally` blocks. `cancel` keeps the lock
during its native call, so it has a `held` state; the other users of the lock
take it for a moment and are single steps. `Interrupt` is an exception on the
way back from a native call, as the comment at `_native.pyx` 604 expects. The
operation below is what `Batch` promises; `osv_batch_finish` is two steps here, too
(`Finish`, `Transfer`), and `Contract(c)` maps the variables of a call to those of
`Batch`: while the job is between the two, its operation is `granted`.

**AliasGroups** and **AliasPartition** (`go/store.go`). A turn of `root`'s loop
is an action, and so is a turn of the three loops of the counting sort in
`finishAliases`: `Flattened` counts an id and lists its root, `SumCount` turns a count
into the place where its group begins, and `Put` uses the counts as cursors
(`MutantPutInPlace` does not move them). The last loop is one action (`Layout`): it
reads tables that do not change any more. Places are counted from 0 as in the code,
and stand one higher in `members`; the tables begin with the zero value of the code,
the first id and the first vulnerability. `asked` is a history variable with the
pairs that `union` was asked to join.

**Report** (`go/bridge.go` 111-139, `go/store.go`, `go/report.go` 99-145).
`Response` is what `executeContext` does to a result after the scan. `Calls` is
`projectImage`: the sequence of calls that it makes of its sink, with the rows of
packages, contexts, licences, advisories, fixes and assessments; `ImageRow` has its
diagnostics. `Add` lets the builder take the calls as they come; `Merge` replays
them from a pending image, unions first. A text is a number that stands for its
place in the order of strings, so that sorted lists can be told from others. `Scan`
and the sets it is made of say what osv-scanner answers with; the loops over its
lists are `Keep` (a filter), `Firsts` (what interning leaves) and concatenations. The
diagnostics of the whole response and of each source (`store.go` 110, 116) are given as
one sequence, `unsupported`, before those of the packages, where the code has those of
a source before its own packages: what is abstracted is their place in the order.

**ReportViews** (`go/indexes.go` 187-253, `go/abi.go` 103-420, `_native.pyx`
142-177 and 219-540). `Edges` has the sixteen indexes by slot. `Value` answers a
view, known by the number of its kind, field by field: with one or many, of which
type, and with which views. `Class` is the class that Python makes of a kind, and
`Properties` what its properties declare. Fields are numbered as in the code. A
contiguous index answers with the rows between two counts of edges, as its offsets
give them; the others with the sorted values of the key, as `FrozenIndex` builds them.

**Reading** (`_native.pyx` 32-40, 71-138, 179-217, `go/abi.go` 422-437). A step
is what happens between two releases of the GIL. `Get` is the first call of
`osv_result_get` with the buffer on the stack, `GetAgain` the second one without
the GIL; an iteration is suspended at every `yield`. `refs` counts the references
to the owner: those of the program and one of each call in progress.

**Payload** (`go/payload.go`, `go/abi.go` 109-151). A value is one field of a row.
`PackNow` packs what has no texts; `PackTexts` begins with the texts of the others,
which `Intern` takes one by one. `TextPacked` ends with the id of a text, `PackWords`
goes on with the words of a list and the head of its chain; `Skip`, `Found` and
`Store` are the turns and the end of the loop. `TextOverflow` and `Overflow` are the
panics of `checked` when an id or a position would not fit. `Unpacked` is what a
view answers for what the row holds.

**Slabs** (`go/slabs.go`). The heap keeps every chunk that was ever allocated, so
that a pointer that somebody still holds leads to the cell it always led to.
**Rows** is the array that the other modules take for granted. `Write` stands for
the writes through `At`'s result in `go/indexes.go`. The contract is wider than its
use: `makeIndex` is the only one that truncates, at its end, and nobody keeps a
pointer across the growth of a table. A held pointer and a `Resize` after a
`Truncate` are there because the container allows them.

**FrozenIndex** and **IndexPlan** (`go/indexes.go`) and **FixEvidence**
(`go/report.go` 156-250) model the loops of those algorithms turn by turn, with the
limits of 32-bit numbers as a constant. `sort.Sort` is taken by its contract, any
arrangement of the window in which no member is less than the one before it. Both
visits of the edges in `makeIndex` run the same closure over tables that nobody
changes, and so read the same `edges`.
`IndexPlan` chooses, among the `Orders` of the slots, the one that `slices.SortFunc`
leaves them in: its comparison ends in the slot, so there is one. In
`AliasGroups`, where the keys are all different, sorting has one outcome
(`InOrder`).

## Runs

| Run | Shows | Bounds |
| --- | --- | --- |
| `operation_safety` | `ExactlyOnce`, `NeverBlocks`, `Window`, `InputOrder`, `JoinedBeforeDone`, `NoAbortedImage`, `TransferOnce`, and that Operation implements Batch | 4 inputs, 3 workers: the window has to slide, two results can wait out of order, one worker can stay behind |
| `operation_liveness` | A cancelled, released or panicking operation ends although scans hang; with scans that end, every started one does | 3 inputs, 2 workers: the window still slides, and a sibling hangs |
| `scan_call_two_threads` | `CancelFindsHandle`, `EndedIsClean`, `NoLostCancel`, `ResultsAccounted`, that each call uses its operation as `Batch` allows (`OwnsContract`), `CancelEnds` | 2 calls, a thread each: calls share only `liveResults` and the pool |
| `scan_call_one_thread` | `CallEnds`: a call that waits for the one thread, cancelled or not, ends | 2 calls, 1 thread |
| `alias_groups` | `ParentPreferred`, `GroupsMatchRequests`, `ReportIsCanonical`, refinement of AliasPartition, `UnionReturns` | 2 requests of up to 3 of 5 names, 2 of them CVEs: chains of three, both preferences, and merges of groups of several names |
| `frozen_index` | `ReadsAheadOfWrites`, `IndexIsExact` with no wrapped count | every sequence of up to 5 edges of 3 keys and 3 values, 4 counts fit, checks every 2 turns |
| `index_plan` | `PeakIsMinimal` against every order of construction | 3 indexes, contiguous or not, of up to 4 edges, of which 3 fit; slabs of 2 cells |
| `payload` | `RowsDecode`, `SpansCanonical`, `ChainsDescend` | 4 fields out of 24 values of eight kinds, 5 texts, 2 fingerprints, numbers up to 4: chains of several entries, records of three widths, ids of texts that run out within a value and a store that fills up within a list |
| `report` | `ReportIsDetermined`, `FiltersAgree`, `ViewsResolve`, `ViewsAgree` | 3 images out of 6 responses, each added or merged, both scopes, no, an empty and another allowlist; packages come back in one and in several images, advisories share names, ids or all but the order of their lists |
| `fix_evidence` | `EvidenceIsExact` | 2 known versions between 2 odd ones, 2 packages, 5 entries, any number of entries, ranges and events |
| `slabs` | Slabs implements Rows | chunks of 2 rows, 4 chunks ever, 5 rows at most, 2 pointers held: a chunk leaves and comes back, a truncation ends within a chunk and at its end |
| `reading` | `ReadsAreExact`, `ReportReleased` | 2 threads, 3 elements of which 2 are equal and one is longer than the buffer, 2 references: one thread may drop the last one while the other is in its second read |

Every number of the models that could grow without bound in the code is bounded
by a constant marked "bound" in the module that declares it. Only `Operation`,
`ScanCall` and `Reading` have actors that interleave; the others are sequential programs,
whose nondeterminism is their input and the cancellation. The constants of
`operation_safety` are the smallest at which a worker can hold the oldest index
while the window is full and two later results wait in pending.

Deadlock is checked in every run. Each specification ends in an explicit
stuttering step that is enabled only where the code may stop for good:
`Terminated` (the handle is released; all calls have ended) and `Stopped`.

### Fairness

* `Operation`: weak fairness of `run` and of each worker, which is what the Go
  scheduler gives goroutines. A scan returns only once its context is done
  (`FairSpec`), since registries may hang; that scans end by themselves is the
  assumption `FiniteScans` of `StartedSettles` alone. Weak fairness is enough,
  because no action that is needed for progress is disabled again and again: the
  channels are never full (`NeverBlocks`). Nobody has to cancel or release.
* `ScanCall`: weak fairness of the event loop for each task, of the executor's
  threads, and of operations that have been cancelled (`CancelSettles` of
  Operation). `FiniteSpec` adds that every operation settles. Nobody has to
  cancel, interrupt or drop a report.
* `AliasGroups`: weak fairness of the loops inside `union` and `finishAliases`.
* `Reading`: weak fairness of the steps of a call that has begun, as the GIL goes
  round. Nothing makes the program drop a reference or go on with an iteration:
  `ReportReleased` speaks of programs that do.

### The properties that need a word

* `NoAbortedImage`. A scan that was cut short by a cancellation can look like a
  failed image. It is merged if the coordinator receives it before it sees the
  cancellation, and kept from the owner by the `checkContext` after the merge and
  by `wait`, which looks at the context again. The property says that this is
  enough. It depends on a failed scan not cancelling the others: the mutant that
  does so violates it.
* `ExactlyOnce` counts the copies of an index in five places (jobs, workers,
  results, pending, the coordinator's hands).
* `NoLostCancel` says that after `cancel` the operation is cancelled, or will not
  be started.
* `GroupsMatchRequests` says that the forest and the requests have the same
  closed sets of ids, in every state, also in the middle of a walk.
* `OwnsContract` states for every call that its steps are steps of `Batch`, as an
  initial condition and an action property, since the calls step one at a time. It
  catches a `finish` that looks at the operation's status but not at its context.
* `ReportIsDetermined` compares the tables with what the projections give in
  input order, diagnostics included, and says which advisories share a row.
* `FiltersAgree` compares the condition by which `executeContext` deletes packages
  with the one by which `projectImage` passes them over. They are written
  differently and differ without a licence policy; the property says that they
  agree wherever the first one applies.
* `ViewsResolve` says of the set of all views, of rows and of elements of their
  lists, that it is closed under properties. The batch is in it, so no path of
  properties, however long, ends in an invalid index or an invalid property.
* `SpansCanonical` is what lets `table.intern` compare packed rows instead of
  values.
* `ReadsAreExact` compares every call with Python's own sequences, and treats a
  dead handle, an untouched buffer and an invalid native index as answers that no
  Python sequence gives.
* `ImplementsArray` is the container's contract. It needs `Truncate` to clear the
  rest of the last chunk, or a `Resize` that followed would show dropped rows. In the
  code of today none does.
* `ReportIsCanonical` speaks of the report alone. That the counting sort puts every id
  in the slice of its root is part of its proof (`Counted`).
* `PeakIsMinimal` is the claim of the comment at `go/indexes.go` 177-180: for
  indexes that keep what was estimated no order has a lower peak, and keeping
  less never raises it. `KeptBy` counts the cells that a set of indexes keeps as a
  set of cells, so that the peak of an order is a maximum over its prefixes.

## Proofs

The theorems hold for every value of the constants; TLAPS checks their proofs to
the last leaf. They rest on the assumptions that the modules name, and no others:

| Assumption | Says | Why the code justifies it |
| --- | --- | --- |
| `OperationAssumption` | a natural number of inputs, at least one worker | `go/abi.go` 41 |
| `ScanCallAssumption` | finitely many calls, at least one thread | a program makes finitely many; an executor has a thread |
| `AliasAssumption` | names are numbers | a number is the name's place in the order of strings |
| `SlabsAssumption` | a chunk has a row, the zero value is a value | `go/slabs.go` 5 |
| `ReportAssumption` | a natural number of images, results are failures or what `Scan` says, names are numbers | `go/store.go` 91-213 takes nothing else of a response |
| `IndexAssumption` | the context is checked every so many turns | a constant of `go/indexes.go` |
| `PlanAssumption` | finitely many slots, natural sizes, a slab has a cell | `go/indexes.go` 104-134, `go/slabs.go` 5 |
| `FixAssumption` | versions are numbers, and an ecosystem is its three parts | `FixEvidence` compares ecosystems as records, as Go does |
| `ReadingAssumption` | finitely many threads; a sequence of at least one element; elements are texts with a length | the program that reads |
| `PayloadAssumption` | values are of the kinds that the packers take, "missing" is no text, `MaxUint` is not 0 | `go/payload.go` 167-237 |

The bounds (`MaxRequests`, `MaxPacks`, `MaxEdges`...) are arbitrary numbers in the
theorems.

`OperationProofs` proves type correctness (`TypeCorrect`) and then, each from the
ones before:

* `NothingRunsOnceDone`. The inductive invariant `Joined` ties `cpc` to the
  workers: unborn before the launch, all exited from the join on, and nothing but
  `Enter` leaves the unborn state.
* `ReportsInInputOrder` and `ReportTransferredOnce`. `Settled` says what `status`,
  `report` and `panicValue` can be in each phase of the unwinding, and what the
  owner may hold; `Ordered` that the builder has the first `merged` inputs and that
  the result in the coordinator's hands is the next one when it is to be merged.
* `NoAbortedImageReported`. `Untainted` says that an aborted outcome, wherever it
  is, implies a cancelled context or an unwinding `run`, which never merges again.
* `OperationImplementsBatch`: every step is a step of `Batch` or a stutter. Two more
  facts are needed: a cancelled status is never made up, although workers say
  "canceled" also when `run` itself has cancelled them (`Honest`), and what `run`
  settles with is a failure without a report or a report that passed the last
  check (`Whole`).
* `WindowBounded` and `ChannelsNeverBlock`. `Flow`: the indices held by workers, the
  results channel, pending and the coordinator are pairwise different and lie
  between `merged` and the number taken from the jobs channel, and the jobs channel
  holds the rest of the window. A full results channel together with a worker that
  wants to send would be an injection of `Count + 1` indices into a window of `Count`.
* `EveryInputOnce`. `Flow` gives at most one copy of an index. `Accounted` gives at
  least one as long as nothing is cancelled and `run` does not unwind: an index that
  has been taken and is not merged is in one of four places.

`ScanCallProofs` proves `NativeCancelIsSafe`, `CancellationIsNotLost`, `EndsClean`,
`ReportsAccounted` and `CallsKeepContract`. All but the count of reports concern one
call: `CallInv(c)` says what the operation, the controller and the report of a call
can be where its coroutine and its job are, and a step of another call does not
touch them. For `ReportsAccounted` the counter is the cardinality of the set of the
calls that hold a report, which a step changes by one call.

`AliasGroupsProofs` proves, for any set of names and any number of requests:

* `TypeCorrect`, by one lemma for interning a name and one for a new parent.
* `ParentsPreferred`. An assignment in `root`'s loop keeps the order because the
  grandparent is preferred to the parent and the parent to the node; flattening
  because the root is preferred to where the walk began. That fact about the walk
  (`Ascending`) is what makes `ParentPreferred` inductive.
* `GroupsCorrect` (`GroupsMatchRequests`). The invariant speaks of one set of ids at
  a time: `Groups(S)` says that no edge of the forest leaves `S` if and only if no
  request does, and what the walk in progress may rely on. Its last part is there
  for flattening: when the edge of an id is overwritten, the old edge must be
  recovered from the others, which the path of the walk, halved or not, allows
  because it never comes back to the id (`Ascending` again).
* `GroupsImplementPartition`: the trees are the groups of `AliasPartition`. The
  refinement mapping climbs to the root of an id by a recursive function. The root
  is characterised without climbing, as the one root that no closed set of ids tells
  apart from the id (`RootJoined`), and that climbing gets there is shown by the
  least id for which it would not.
* `ReportsAreCanonical`. `Flat` says that the ids which flattening has passed hang
  right below their roots. `Counted` says what the loops of the counting sort have
  left in the tables: a count is the number of ids of the group that were passed, then
  the place where the group begins, then the place of its next id. Halving does not
  disturb it, since it does not move an id that hangs below a root. The slices lie side
  by side (`Slices`), every id has a place in its own slice and every place an id
  (`Places`, by counting: an injection into a set of the same size is onto), so that
  a slice is a group (`CountingSort`). In a flat forest a group is a component of
  the requests and its root the best of it (`FlatGroups`), and the same counting
  shows that what is sorted by name is in the order of the names (`KeysInOrder`).

`SlabsProofs` proves `SlabsImplementRows`. The invariant: the directory has as many
different chunks of the heap as the rows need (`Directory`), the cells behind the
last row are zero (`Zeroed`), and each held pointer is what `At` would give now
(`PointersGood`).

`FrozenIndexProofs` proves `CompactionIsSafe` and `FrozenIndexIsExact` for any edges.
The invariant has a part for each loop: the counts are numbers of edges, the sums
are where the windows of the keys begin, a cursor stays in the window of its key,
and the compaction has written no more than it has read, keeps what is ahead as
sorting left it, and has kept every value of the current window once.

It also proves `NoOrderHasALowerPeak` of `IndexPlan`, which it extends, too. The
invariant `PlanInv` says how the peak so far came about (`Reached`): a set of slots
was built of which the last one needed no more temporary cells than each of the
others. In any order whatsoever, take the member of that set that is built last: all
the others have been built before it, and it needs at least as many temporary cells
as the one in the set that needs the least. What an index allocates is what it keeps
and what it needs temporarily, so that order's peak is at least as high. No induction
over exchanges of neighbours is needed.

`ReportProofs` proves `ReportDetermined`, `FiltersAlwaysAgree`, `ViewsAlwaysResolve`
and `ViewsAlwaysAgree`, for any responses, allowlists and names and any number of
images:

* The first lemmas say what `Sorted`, `Keep`, `Firsts`, `Interned`, `RowOf` and
  `FlattenSeq` do: `Sorted` is the one sequence with the members of a set in order,
  an element more at the end of a sequence is an element more at the end of what is
  kept of it, interning a value extends the first occurrences by it or not at all,
  and a sequence of sequences with one more is flattened to the rest and the one.
* `ReportDetermined`. The invariant `ReportInv` says that there is a history of facts
  that the tables show, and that this history followed by the calls that are left is
  what all results call for (`Shown`). It does not mention how a result came in: the
  recording of an image, unions first, has the same occurrences and findings in the
  same order as its projection. `Remembered` says that an address leads to the row of
  its advisory, and `ReadyCalls` that each finding that is left has an occurrence
  before it and an advisory whose names have been joined or will be before it; with
  `Listed`, that every advisory of the report has been joined, this gives `Grouped`,
  the vulnerability of each advisory, when `Finish` looks for it.
* `ViewsAlwaysResolve`. `RowOrder` says that the rows refer to rows and that images
  come in order along the occurrences, and occurrences along the findings. So an
  index answers with rows of the table of its kind; the fields of each kind are then
  compared with the properties of its class, one by one.
* `ViewsAlwaysAgree`. Because of `RowOrder`, the rows of a key in a contiguous index
  are an interval, and the counts of the edges below and of the key are its bounds.
  So every index answers with the values of its edges, and the converses follow from
  the definitions of the slots.

It also proves `FixesAreEvidence` of `FixEvidence`: each local of `packageFixes` is
what the entries, ranges and events visited so far make of it.

`ReadingProofs` proves `ReadsAnswerExactly` from two invariants: every call in
progress has a reference, so the report is live while one reads (`Ownership`), and
what an operation has read and has still to read make up the positions that it
began with (`Progress`).

`PayloadProofs` proves `ChainsLeadBack`, `RowsKeepTheirValues` and
`EqualRowsAreShared`, for any fingerprint. `Linked`: an entry leads to the last one
before it with the same fingerprint; `Walking`: the entries that a walk has passed
do not have the words it seeks. So a walk that comes to its end has seen every
entry that could have them, and no list is stored twice (`Distinct`). What was
packed stays readable since texts, words and entries are only appended (`Rows`).

Model-checked only is liveness: `CancelSettles`, `ReleaseReturns`, `PanicSettles` and
`StartedSettles` of `Operation`, `CancelEnds` and `CallEnds` of `ScanCall`,
`UnionReturns` of `AliasGroups` and `ReportReleased` of `Reading`. Weak fairness is
defined with ENABLED, which this prover does not reason about. Every invariant and
every action property that a run checks is stated by a theorem.

## Not modelled

* `executeContext` beyond its outcomes and its licence filter: a sequence of calls
  into osv-scanner, the image library and the registry. A panic of
  `SetupClientFactories` or its cleanup lies outside the recovering function; whether
  it can happen is not ours to know.
* The formatting of timestamps and the lookup of extension strings
  (`go/report.go` 120-129, 147-155). An invalid timestamp panics in the projection;
  it is one of the causes of `BuildFails`.
* The row packers of `go/payload.go` 158-237: each lists the fields of a row, and
  `Payload` packs one field at a time. The licence policy of a row is the same for
  the whole batch and left out of `LicenseRow`.
* The order of versions itself: `FixEvidence` knows which versions an ordering
  knows and compares those as numbers.
* Hashing, equality and pickling of views, and the properties `complete` and
  `errors`, which are Python expressions over others.
* The wire format of requests, and the checks of their fields in `scanner.py`.
* `FrozenIndex` and `Payload` treat their slabs as arrays; `Slabs` says why they may.
* Language tables, models, exceptions, type stubs, measurement scripts, build files
  and the patches of upstream modules.
* Memory: `IndexPlan` counts cells; the garbage collector is not modelled.

## Plan

The hazards of `PROJECT.json` without a property both lie where the code leaves the
modelled parts: a panic of the client factories, outside the recovering function, and
timestamps that the projection cannot format. Three things would extend the project:

1. The attributes of rows that are opaque texts here, with the formatting of
   timestamps, so that what an invalid one does to a batch can be stated.
2. A composition of `Operation` and `Report`, so that the order in which the
   coordinator merges is the order in which the builder is called; today `Report`
   takes from `InputOrder` that images come in input order.
3. Hashing and equality of views, across the views of two reports.
