# TLA+ verification of client-go's work queue, GCP token cache and strategic merge patch

This directory holds TLA+ models of the parts of this repository that a model
checker can reach, the TLC configurations that check them, and TLAPS proofs.
The sources are under `src/`. Line numbers below refer to those files.

## 1. Inventory

| Component | Source | State | Operations | Status |
|---|---|---|---|---|
| Priority work queue (`PriorityType`) | `src/util/workqueue/priority_queue.go` | `priorityQueue` (map level -> FIFO slice), `dirty`, `processing`, `shuttingDown`, `drain`, one mutex and one `sync.Cond` | `Add`, `Get`, `Done`, `ShutDown`, `ShutDownWithDrain` (with `isProcessing`, `shouldDrain`, `waitForProcessing`, `setDrain`, `shutdown`), `Len`, `ShuttingDown`, the `updateUnfinishedWorkLoop` goroutine | modelled: `PriorityQueue` |
| Queue metrics sink | implementations outside `src/` | counters | `add/get/done/updateUnfinishedWork` | partly: whether the update goroutine runs and when it stops |
| Strategic merge patch engine | `src/unnamed/part_007` lines 41-1260 | none (pure functions over JSON maps; `mergeMap` mutates its input) | `CreateTwoWayMergeMapPatch`, `CreateThreeWayMergePatch`, `StrategicMergeMapPatch`, `diffMaps`, `diffLists*`, `mergeMap`, `mergeSlice`, `deleteFromSlice`, `MergingMapsHaveConflicts`, sorting and uniqify helpers | modelled: `StrategicMergePatch`, composed in `PatchApply` (section 8) |
| Patch metadata provider | `LookupPatchMetadata` (outside `src/`), `getTagStructType` | constant schema | lookup of `(elemType, patchStrategy, mergeKey)` | partly: the constant `Schema` of `StrategicMergePatch` |
| GCP cached token source | `src/plugin/pkg/client/auth/gcp/gcp.go` 119-185 | `accessToken`, `expiry` under `lk`; the persisted config | `Token`, `cachedToken`, `update`, `Persist` | `CachedTokenSource` |
| GCP command token source | same file, 187-274 | none | run a command, parse its output with JSONPath | modelled in `CachedTokenSource` by the outcomes of the output (section 6) |
| Generated clients, fakes, examples | `src/kubernetes/...`, `src/examples/...`, `part_002`, `part_008`, tail of `part_007` | none | forward to REST | not modelled: scaffolding |

**How the queue's parts interact.** Producers call `Add`; consumers loop on `Get`
and `Done`; a controller calls `ShutDown` or `ShutDownWithDrain`. Every operation
takes the one mutex. Two operations block on the one condition variable:
`Get` waits while the queue is empty and not shutting down, and
`waitForProcessing` waits while items are processing. `Add` and `Done`
wake one waiter with `Signal`, and `shutdown` wakes them all with `Broadcast`.
`ShutDownWithDrain` is a loop over three separate critical sections, so other
threads run between its checks and its wait. `Done` recomputes the item's
priority with the user's function and, unlike `Add`, does not clip it.

**What is hard.**
- The interleavings of many producers and consumers.
- Lost wake-ups on a condition variable that is shared by two kinds of waiter.
- Races between the drain loop's separate critical sections and a concurrent
  `Done` or `ShutDown`.
- A priority function that changes between `Add` and `Done`.
- A priority value outside `0..maxPriority`.

**What makes the queue correct.**
- Every queued entry is dirty, not processing, and unique (the comment at
  lines 81-83).
- An item is never processed by two consumers at once.
- A dirty item that is not processing can always be reached by `Get`.
- No consumer sleeps while an item is queued.
- `ShutDownWithDrain` returns once all work is `Done`, and at once after a
  `ShutDown`.
- Blocked `Get` calls return after shutdown.
- No item becomes dirty or processing after `ShutDown`.

The hazards PROJECT.json lists are these, each at its line.

## 2. Plan and state

1. **`PriorityQueue`** (done): the queue, every critical section
   as an action, condition variable as a wait set.
   - `MCPriorityQueue` holds the small instances.
   - `PriorityQueueProofs` holds the TLAPS proofs of its safety, and
     `PriorityQueueWakeup` the proofs that no wake-up is lost and that a
     single drainer never sleeps once nothing is processing.
2. **`WorkQueueAbstract`** (done): the per-item lifecycle
   absent/queued/processing/processing-dirty plus a shut-down flag, with
   strict priority order on `Get`. `PriorityQueue` refines it through
   `Abs == INSTANCE WorkQueueAbstract WITH ...`. TLC checks the refinement
   (`queue_safety`), and `PriorityQueueRefinement` proves it (section 7).
3. **`CachedTokenSource`** (`gcp.go`, done): the cache, the command source and
   a process restart; see section 6. Only type correctness is proved of it,
   and one violation run shows the test's claim fails for a changing source.
4. **`StrategicMergePatch`** and **`PatchApply`** (done): the merge patch
   engine as operators, and the apply cycle that uses it; see section 8.
5. **Next**:
   - The merge patch laws are only model-checked. The engine is recursive,
     and TLAPS cannot reach a module with RECURSIVE operators.
   - Bigger merge documents (depth 3, two merge lists at once) need a faster
     encoding than TLC's evaluation of the recursive operators.

## 3. The queue model: `PriorityQueue.tla`

**Constants.**
- `Workers`, `Stoppers` and `Items`: sets of model values.
- `MaxPriority`: the queue's `maxPriority`; `MinPriority` is the code's 0.
- `PrioValues`: every value the user's `GetPriorityFunc` may return. Each call
  picks one of them, because the function may depend on time (spec 9).
- `UseMetrics`: FALSE models the `noMetrics` case.

**Variables.**
- `priorityQueue`: `[Keys -> Seq(Items)]`. The keys are the levels plus any
  unclipped value `Done` may use.
- `dirty` and `processing`: the code's two sets.
- `shuttingDown` and `drain`: the code's two flags.
- `waitSet`: the threads blocked in `cond.Wait`.
- `pc`: where each thread is.
- `held`: the items a worker got and has not yet passed to `Done`.
- `ticker`: the `updateUnfinishedWorkLoop` goroutine.

**Actions.** There is one action per critical section:
- `Add`, `Get` and `Done`.
- `SetDrainFalse` and `shutdown` make up `ShutDown`.
- `SetDrainTrue`, `shutdown`, `isProcessing`, `shouldDrain` and
  `waitForProcessing` make up `ShutDownWithDrain`.
- `updateUnfinishedWorkLoop` is the ticker.

`Get` is one pass of its loop. A woken thread keeps `pc = "get"` and runs the
pass again. An early return that changes nothing (`Add` while shutting down or
already dirty) is a stutter. Signal removes *any* waiter, because Go promises
no order. Workers only call `Done` on items they got, as the contract says.

**Fairness** (`FairSpec`). Fairness is weak and applies only to what the code
and its contract guarantee:
- a runnable goroutine inside `Get` or a shutdown call makes progress;
- each worker eventually calls `Done` on what it holds (the contract stated
  in `ShutDownWithDrain`'s comment).

No fairness is put on the ticker. That its goroutine exits after shutdown
would follow from fairness on its exit step alone, so it is not checked.

New calls of `Add`, `Get` and the shutdown functions are the user's choice
and are not fair. `ForceSpec` drops the `Done` fairness. That is the case a
forcing `ShutDown` is for.

### Runs

| Run | Instance | Checks | Result |
|---|---|---|---|
| `queue_safety` | 2 workers, 2 stoppers, 3 items, levels 0..1 | `TypeOK`, `BucketsHoldPending`, `ExclusiveProcessing`, `DirtyItemsReachable`, `NoLostWakeup`, `ImplementsAbstract` (section 7) | pass, 206,920 states |
| `queue_liveness` | 2 workers, 1 stopper, 2 items, priorities 0..2 (2 is out of range) | `DrainReturns`, `GetReleasedOnShutdown` under `FairSpec`; `NoNewWorkAfterShutdown`, `DrainWaitsOnWork` | pass, 3,546 states |
| `queue_two_drainers` | 2 stoppers | `DrainReturns` | **violated** |
| `queue_force_shutdown` | 2 stoppers, `ForceSpec` | `ForcedShutdownReturns` | **violated** |
| `queue_done_unclipped` | priorities {0, 2}, max 1 | `DirtyItemsReachable` | **violated** |
| `queue_requeue_after_shutdown` | 2 workers, 1 stopper, levels 0..1 | `NoBucketInsertAfterShutdown` | **violated** |

**Why the bounds are enough.**
- Two workers are enough for every race between two holders of the same item
  and between a consumer and a producer.
- Three items let one item be processing while two are queued at different
  levels.
- Two levels exercise the downward scan.
- Two stoppers let `ShutDown` race `ShutDownWithDrain`. The passing liveness
  run uses one stopper, because two drainers do not terminate
  (`queue_two_drainers`).
- `queue_safety` uses a priority function that stays inside `0..maxPriority`,
  like the test's `getPriority`. An out-of-range function strands items
  (`queue_done_unclipped`). `queue_liveness` lets the function return
  `maxPriority + 1` as well: the liveness properties and
  `NoNewWorkAfterShutdown` hold for it too.

Each property of a passing run has a mutant in PROJECT.json: a plausible bug in
the mapped code that TLC finds. The mutants are:
- `Add` that ignores `processing`, that does not `Signal`, or that forgets
  its `shuttingDown` check;
- `Done` that keeps the item in `processing`, or that never re-queues;
- a pop that does not reslice;
- `Done` without its `Signal` when `processing` becomes empty;
- `isProcessing` that also counts queued items;
- `Get` that goes round its loop again after shutdown instead of returning;
- `Get` scanning the levels from the lowest up (caught by `ImplementsAbstract`).

### What the violations show

1. **`Done` does not clip the priority** (line 204). `Add` clips, but `Done`
   does not. Take a priority function that returns more than `maxPriority`
   when `Done` runs, for an item re-added during processing. The item goes
   into `priorityQueue[p]` with `p > maxPriority`:
   - `lenNoLock` and `Get` never read that bucket;
   - the item stays in `dirty`, so every later `Add` of it is ignored.

   The item is lost for good.
2. **Two drainers** (line 207). When `processing` becomes empty, `Done` wakes
   one waiter with `Signal`. The spec says it broadcasts. With two concurrent
   `ShutDownWithDrain` calls, one of them never returns.
3. **A forcing `ShutDown` can be missed** (lines 231-232). The drainer reads
   `shouldDrain() = true`. Then `ShutDown` runs `setDrain(false)` and
   `shutdown()`, whose broadcast finds nobody waiting. Only then does the
   drainer enter `waitForProcessing` and wait. If the workers never call
   `Done`, it waits forever. This contradicts the comment on
   `ShutDownWithDrain` and spec 4.1.
4. **A bucket insertion after `ShutDown`** (lines 203-206). Spec section 3
   says that after `ShutDown` no new bucket insertions occur. An item re-added
   while a worker processes it is dirty, and that worker's `Done` appends it
   to its bucket whenever it comes, after `ShutDown` too. The trace: `Add(a)`,
   `Get` takes `a`, `Add(a)` marks it dirty, `ShutDown`, then `Done(a)`
   re-queues it. The spec's own item lifecycle and section 4.1 describe this
   re-queue without exception, so the code follows those sections; only the
   sentence of section 3 is too strong. `NoNewWorkAfterShutdown` states what
   does hold: no item joins `dirty` or `processing` after shutdown.

## 4. What is proved (`PriorityQueueProofs.tla`, `PriorityQueueWakeup.tla`)

The theorems hold for every value of the constants. The assumptions are
`QueueAssumption`:
- `Workers` and `Stoppers` are disjoint;
- `MaxPriority` is a natural number;
- `PrioValues` is a non-empty set of integers, which may lie outside the
  levels;

and, for `NoLostWakeup` only, `WorkersFinite`: a program starts finitely many
worker goroutines.

- `TypeCorrect: Spec => []TypeOK`.
- `BucketsHoldPendingHolds: Spec => []BucketsHoldPending`.
- `ExclusiveProcessingHolds: Spec => []ExclusiveProcessing`.
- `NoNewWorkAfterShutdownHolds: Spec => NoNewWorkAfterShutdown`, the action
  property `[][shuttingDown => dirty' \cup processing' \subseteq dirty \cup processing]_vars`:
  after `ShutDown` the work owed never grows. `Add` returns early, `Done`
  only removes from `processing`, and `Get` moves an item from `dirty` to
  `processing`. That last step keeps the union only because the head it pops
  is dirty, which `BucketsHoldPending` gives; so the step lemma
  `NoNewWorkStep` assumes `IInv`, and the theorem combines `[]IInv` with it by
  PTL. It holds for every priority function. Spec section 3 says more: no
  bucket insertion after `ShutDown` at all. The code does not do that: `Done`
  re-queues an item that was re-added before `ShutDown` (the behaviour section
  3's own item lifecycle describes). The property states what the code
  guarantees instead. `queue_liveness` checks it with a priority function
  that may leave the levels, where `ImplementsAbstract` (which implies it in
  range) does not hold.

The last two rest on the inductive invariant
`IInv == TypeOK /\ BucketsHoldPending /\ ExclusiveProcessing`. Neither property
is inductive alone:
- `Get` keeps the workers' holdings disjoint only because the head it pops is
  not processing, which `BucketsHoldPending` gives;
- `Done` keeps the entries unique only because the item it re-queues is in no
  bucket, which `ExclusiveProcessing` gives: the item is processing, and
  queued entries never are.

The step proof has one case per action. It uses these lemmas about a bucket
map whose entries are unique (`Unique`):
- `AppendUnique`: appending an item that is in no bucket keeps the entries
  unique;
- `TailUnique`: popping a head keeps the rest unique and drops exactly that
  item;
- `UniqueWiden`: the set the entries lie in may be enlarged.

`Get`'s choice of level is written with `\E p \in Levels : isCurrentPriority(p)`
rather than with a `CHOOSE`. The level is unique, so the two forms are
equivalent. With `\E`, the safety proofs do not need the existence of a
largest non-empty level, a least-number argument that TLAPS's backends cannot
instantiate.

**No lost wake-up (`PriorityQueueWakeup`).**
`NoLostWakeupHolds: Spec => []NoLostWakeup`: while an item is queued and a
worker is blocked in `Get`'s `cond.Wait`, some other worker in `Get` is awake.
`Add` and `Done` wake only one waiter with `Signal`, and the waiter may be a
stopper in `waitForProcessing` rather than a worker, so this is not obvious.
The property is far from inductive. The proof strengthens `IInv` with
`WakeupInv`, a counting argument:
- every blocked worker is in `Get`, and every waiting stopper is at the top
  of its drain loop;
- a stopper is inside its drain loop only after `shuttingDown` is set, and
  once it is set no worker is blocked (the `Broadcast` in `shutdown` woke them,
  and `Get` no longer waits);
- while some worker is blocked, the number of queued items is at most the
  number of awake workers in `Get`.
Before shutdown no stopper waits, so each `Signal` wakes a blocked worker
whenever one exists. Then `Add`, which queues one item, also adds one awake
worker. `Get` takes one item as its caller leaves `Get`, and it waits only
when nothing is queued. The count needs finite sets, hence `WorkersFinite`.
The lemmas `CountAddBoth`, `CountTakeOne` and `CountSame` are the three
cardinality steps. `QueuedAppend` and `QueuedTake` say how a bucket step
changes the set of queued items, using the uniqueness from
`BucketsHoldPending`. `SignalWakesWorker` says which waiter a `Signal` picks.
TLC checked `WakeupInv` as an invariant first: of `queue_safety`'s instance,
of one with out-of-range priorities, and of one with 3 workers. It holds for
every priority function, so unlike section 7 the theorem needs no in-range
condition.

**The drainer never sleeps on no work (`PriorityQueueWakeup`).**
`DrainWaitsOnWorkHolds: OneStopper => (Spec => []DrainWaitsOnWork)`, where
`DrainWaitsOnWork` says a stopper in the wait set implies `processing # {}`.
It is the safety half of `DrainReturns`: `Done` wakes a drainer with
`Signal` (lines 207-208), not `Broadcast`, so it matters who else is waiting.
The proof reuses `WakeupInv`. A waiting stopper is in the drain loop, so the
queue is shutting down and no worker is blocked. With one stopper, that
stopper is then the only waiter (`StopperWaitsAlone`), and the `Signal` of
the `Done` that empties `processing` must wake it. The hypothesis
`OneStopper` (one goroutine calls `ShutDown`/`ShutDownWithDrain`) is needed:
with two drainers both can wait and one `Signal` wakes only one of them,
which `queue_two_drainers` shows as a hang. `queue_liveness` (one stopper)
checks the invariant.

**Only model-checked:**
- the liveness properties (`DrainReturns`, `GetReleasedOnShutdown`),
  because fairness and ENABLED are beyond TLAPS.
  `DirtyItemsReachable` is proved in `PriorityQueueRefinement` under in-range
  priorities (section 7).

## 5. Not modelled

- Counter values of the metrics (no queue state depends on them).
- Memory retention by slice backing arrays (line 182; covered by
  `TestGarbageCollectionForPriorityQueue`).
- `Len` and `ShuttingDown`, which only read state.
- For the command token source: the text of the command, its argument
  splitting and the JSONPath evaluation. The model keeps only the outcomes
  they lead to.
- For the merge patch engine: the byte-level wrappers
  (`CreateTwoWayMergePatch`, `StrategicMergePatch`, `sortMergeListsByName`)
  only add JSON (un)marshalling; `getTagStructType` only resolves a Go type;
  the preconditions `fns` are caller-supplied predicates.
- The generated clients, fakes and examples, for the reasons in the table.

## 6. The token cache model: `CachedTokenSource.tla`

`cachedTokenSource` (`gcp.go` 119-185) wraps an oauth2 token source.
Several goroutines call `Token()` at once, for example every request of one
`oauth2.Transport`. The cache (`accessToken`, `expiry`) is read and written
under `lk`. The fetch from the underlying source and the `Persist` of the
config both happen outside the lock.

**State.**
- `accessToken`: the cache, one `[id, exp]` record.
  - `id` -1 is the empty access token and `id` 0 the kubeconfig's.
  - `exp` 0 is the zero time, which is also what an unparsable expiry
    becomes (lines 129-132).
- `now`: an abstract clock that `Tick` advances.
- `issued`: how many tokens a fresh-issuing source has handed out.
- `pc`, `local`, `out`: per caller, its place in `Token()`, the token it read
  or fetched, and the map `update` returned.
- `persisted`: the last config written, as its key set plus the token it
  carries.

**Actions.**
- `cachedToken`: lines 146-149 and 163-171. A valid token with a non-zero
  expiry (oauth2's `Valid`, with its early `expiryDelta`) is returned;
  anything else goes to the fetch.
- `sourceToken`: lines 150-153. The source either fails, and `Token()`
  returns the error, or returns a new token expiring `TTL` after `now`, at most
  `MaxFetches` of them.
- `update`: lines 154 and 173-185. It writes the cache and builds the copy
  of `t.cache` with the two token keys.
- `Persist`: lines 155-160. Without a persister (`HasPersister` FALSE) the
  call returns right after `update`. A `Persist` error is only logged, so it
  changes nothing the model tracks.

**Property.** `PersistedMatchesCache`: once every call has returned, the
persisted config is the original keys plus the token keys, and it carries the
cached token. This is what `TestCachedTokenSource` asserts after its ten
concurrent calls.

**The command source and restarts.** With `CmdPath = "set"` the source is
`commandTokenSource` (lines 187-274). `cmdToken(o)` is its `Token` on one
output `o` of the command:
- it fails when the command exits non-zero, when the output is not JSON, or
  when the token key or the expiry key is missing;
- an empty token gives the empty access token;
- an expiry that does not parse with `time-fmt` (RFC3339Nano by default)
  becomes the zero time.

`Restart` builds the provider again from the persisted config, as a new
process does: `newCachedTokenSource` parses the expiry that `update` wrote
with `FormatTime`. A blank cmd-path fails `newGCPAuthProvider`, and the model
then never restarts.

**Run.** `token_fresh_source` uses three callers, a clock of 3, `TTL` 2,
`expiryDelta` 1 and a source that issues a new token per call, up to 3.
Every initial token (none, or the kubeconfig's with each expiry) is an
initial state. `PersistedMatchesCache` is violated.

The violation takes two callers, A and B, both finding the cache empty:
1. A fetches token 1 and updates the cache.
2. B fetches token 2 and updates the cache.
3. B persists token 2.
4. A persists token 1.

Both calls have now returned. The cache holds token 2 and the kubeconfig
token 1. The test's claim holds only because its fake source returns the
same token on every call; with such a source the property says no more than
what `update` writes, so no passing run checks it. The token on disk is an older but valid one, so the harm is an
extra refresh after a restart.

**Proved** (`CachedTokenSourceProofs.tla`):
- `TokenTypeCorrect: TokenAssumption => (Spec => []TypeOK)`. `TokenAssumption`
  gives the ranges of the constants: a positive clock bound and fetch bound,
  natural TTL, delta and restart bound, and a command output set and
  `time-fmt` of the modelled kinds. It is a hypothesis of the theorem rather
  than an `ASSUME`, because no passing run instantiates this module. `TypeOK`
  is inductive as it stands. The one step that needs a lemma is the command
  source, whose parsed expiry must stay within the clock (`CmdTokenTyped`).

**Not checked.**
- The cache can move to an older token. Two refreshes update in either
  order; no comment or test says it must not.
- A zero-expiry token is never served from the cache, so every call
  refetches (line 147). The model takes this path, but no property is stated
  about how often the source is called.

## 7. The queue refines its abstract specification

`WorkQueueAbstract.tla` states what the queue promises, item by item:
- an `Add` queues an absent item at some level, and marks a processing item
  dirty;
- `Get` takes a queued item of the highest level and gives it to exactly one
  consumer;
- `Done` makes a processing item absent, and re-queues a dirty one;
- an `Add` after shutdown changes nothing.

FIFO order within a level, blocking and the drain are not part of it.

`PriorityQueue.tla` maps onto it with
`Abs == INSTANCE WorkQueueAbstract WITH ...`:
- an item's state comes from `dirty` and `processing`;
- its level is the bucket it sits in;
- `holding` is `held`, and `down` is `shuttingDown`.

`ImplementsAbstract == Abs!Spec` is checked by `queue_safety` and proved
in `PriorityQueueRefinement.tla`:
- `QueueImplementsAbstract: InRange => (Spec => ImplementsAbstract)`.
  `InRange` says every priority the function returns is a level. Without it
  the refinement is false: `queue_done_unclipped` strands an item that the
  abstract queue would serve. The proof maps each concrete action to its
  abstract action, or to a stutter (the drain steps and the ticker).
- `DirtyItemsReachableHolds: InRange => (Spec => []DirtyItemsReachable)`.

Both rest on `RInv`, which is `IInv` of section 4 plus `DirtyQueued`: every
dirty item that is not processing is in some bucket. `DirtyQueued` holds for
any priority function. `InRange` then places that bucket among the levels
`Get` scans. The `Get` step needs the fact that the popped head comes from
the highest non-empty level, so no queued item of the abstract state has a
higher level.

## 8. The strategic merge patch model: `StrategicMergePatch.tla`, `PatchApply.tla`

**Values.** A JSON value is a record `[k, s, c]`:
- `k` is its kind: `"null"`, `"str"`, `"num"`, `"obj"` or `"list"`.
- `s` is its `%v` text. This is what the code compares when it sorts
  (`sort.StringsAreSorted` on `fmt.Sprintf("%v")`) and when it pairs merge
  keys.
- `c` is the content: a function from keys for an object, a sequence for a
  list.

The kinds `"err"` and `"panic"` are the two ways a function can fail: a
returned error, and a Go runtime panic (a nil type's `Kind()`, or an index
out of range). Texts are ordered by the constant sequence `StrOrder`. The
schema `Schema[type][field]` gives the field's type, patch strategy and
merge key. It stands for `LookupPatchMetadata`, which is not under `src/`.

**Operators.** Each function of `part_007` is an operator, with loops as
recursive walks over the same indices:
- `diffMaps`, with `diffKey` as the body of its loop.
- `diffLists`, and `diffListsOfScalars`, whose walk is `scalarWalk`.
- `diffListsOfMaps`, whose walk is `mapsWalk`; it keeps the `break` out of
  `loopB` and the tail loops.
- `mergeMap`, with `mergeKey` as the body of its loop.
- `mergeSlice`, `deleteFromSlice` and `findMapInSliceBasedOnKeyValue`.
- The conflict functions.
- `CreateTwoWayMergeMapPatch`, `CreateThreeWayMergePatch` and
  `StrategicMergeMapPatch`.

Where a Go function stops on the error of a call and then goes on with its
result, the model passes that result as an argument to a small operator for
the rest of the function. Examples are `objectEntry`, `listEntries`,
`mapPatch`, `mapsStep`/`mapsContinue`, `walkSorted`, `sortedFields`,
`sortedElements` and `threeWay`/`threeWayMerged`/`threeWayVerdict`. With
this layout every recursive call appears once in the text. TLC's profiler
expands a definition at each place it is used, so a result named by LET and
used three times would multiply that work at every level of the recursion.

Go's `sort.Sort` on fewer than 13 elements is an insertion sort. With the
code's `Less` (`<=`), equal elements end up reversed; `insertionSort`
reproduces that. `uniqifyScalars` is the code's swap-with-last loop.

**Map iteration order.** Go iterates maps in random order. Where the order
can change a result, the model keeps it as a choice. In `mergeMap`, a field
and its `$deleteFromPrimitiveList/` key can be visited in either order: the
`delFirst` argument picks one, and the properties quantify over both. Where
only the first failure matters, in diffing and in conflict checks, the model
takes a panic before an error before success. That is the worst order.

**The apply cycle** (`PatchApply.tla`, from spec 4.2.6). There are three
variables: the `live` object, the `applied` configuration and the user's
`config`.
- `Edit`: the user changes `config`.
- `Drift`: another writer changes `live`.
- `Apply`: sends `CreateThreeWayMergePatch(applied, config, live, Overwrite)`
  and applies it with `StrategicMergeMapPatch` in either order. An error
  changes nothing.

The documents come from the small sets of `MCPatchApply`. The schema has:
- a scalar field;
- a merge list of objects keyed by `name`;
- a merge list of scalars;
- an atomic list of scalars;
- a replace-strategy object.

**Runs.**

| Run | Documents | Checks | Result |
|---|---|---|---|
| `smp_apply` | merge lists of objects and scalars (adds, removals, reorders), a scalar and an atomic list, a replace-strategy object; without overwrite | `TypeOK`, `RoundTrip`, `ApplyEstablishesConfig`, `NoSilentOverwrite` | pass, 16,758 states |
| `smp_apply_deleted` | the merge-list documents of `smp_apply`, with overwrite | `ApplyRemovesDeleted` | **violated** |
| `smp_conflict_duplicates` | atomic lists with a repeated scalar | `ConflictSymmetry` | **violated** |
| `smp_mixed_key_kinds` | merge keys `1` and `"1"` | `RoundTrip` | **violated** |

`RoundTrip` is the law of spec section 8, for well-formed documents
(`IsDocument`): the fields are declared, there are no directives, the lists
hold one kind, and every element has its merge key. The law compares up to
the order of merge lists, as the code's tests do.

`ApplyEstablishesConfig` says the live object holds everything the
configuration sets after every apply, whatever other writers did.

`NoSilentOverwrite` says that without overwrite, an atomic field changed by
both sides to different values is never replaced.

The mutants are:
- a scalar diff that does not sort `modified`;
- a three-way patch whose additions come from `original` instead of
  `current`;
- a conflict check that ignores deletions in `current`;
- `mergeMap` skipping a null only when the key was there to delete, which
  stores the null when both sides removed the field.

**What the violations show.**
1. **Directives leak into the live object** (line 574). Suppose another
   writer removed a merge list, and the user removed an element of it. The
   three-way patch then carries `{name: a, $patch: delete}`. `mergeMap`
   copies a key the original lacks verbatim, so the live object stores the
   directive as an element. For a list of scalars, the deletion list can
   become the field's value, depending on map order.
2. **Conflict detection is not symmetric** (lines 1124-1137). The length
   check runs before `uniqifyAndSortScalars`. So `[1,1]` against `[1,2]` is
   "no conflict", while `[1,2]` against `[1,1]` indexes past the end and
   panics.
3. **Merge keys of two kinds with one text** (lines 384 and 773). The diff
   pairs them by `%v`, but the merge matches them with `==`, so the merge
   appends a second element.

TLC also showed three disagreements while the model was built. They are not
kept as runs:
- **Replace-strategy maps are always in the two-way patch** (line 172). So
  the patch of a document to itself is not empty, against the idempotence
  law of spec section 8.
- **A list whose first element is null panics** (line 987).
  `sliceElementType` calls `Kind()` on a nil type; spec section 7 says
  errors are returned.
- **Duplicate merge keys do not round-trip** (line 386). The spec leaves
  them open (section 9).

**Bounds.** The documents have depth at most 2, lists of at most 2
elements, and two merge-key values. These are the smallest that contain
every case the walks distinguish:
- equal, smaller and larger keys;
- one list running out first;
- a deletion and an addition in one list;
- two orders of one list.

`StrOrder` ranks every text that occurs.

**Only model-checked.** Every merge patch property. The operators are
RECURSIVE, and TLAPS cannot use a module that declares them.

`mergeMap` mutating its input (spec section 5) is not modelled. The model is
functional, and no caller in `src/` reuses an input after the call.
