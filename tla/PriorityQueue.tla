---------------------------- MODULE PriorityQueue ----------------------------
(***************************************************************************)
(* The priority work queue of util/workqueue/priority_queue.go            *)
(* (PriorityType).  One mutex and one condition variable guard all state. *)
(* Every critical section of the code (one Lock/Unlock pair, or the part  *)
(* of it between two cond.Wait calls) is one atomic action here.  The     *)
(* condition variable is a set of waiting threads: Wait adds the caller,  *)
(* Signal removes one waiter (any one: the Go documentation promises no   *)
(* order), Broadcast removes them all.  A thread in the wait set is       *)
(* blocked; once removed it re-runs the loop condition that surrounds its *)
(* Wait.                                                                   *)
(*                                                                         *)
(* Workers call Add, Get and Done; Stoppers call ShutDown or              *)
(* ShutDownWithDrain (once each).  The user's priority function is any    *)
(* function of the item and of time, so each call returns some value of   *)
(* PrioValues.                                                            *)
(***************************************************************************)
EXTENDS Integers, Sequences, FiniteSets

CONSTANTS
  Workers,      \* threads that call Add, Get and Done
  Stoppers,     \* threads that call ShutDown or ShutDownWithDrain
  Items,        \* the items (keys) that are enqueued
  MaxPriority,  \* maxPriority given to NewNamedPriority
  PrioValues,   \* the values the GetPriorityFunc may return
  UseMetrics    \* FALSE when the queue is built with noMetrics

ASSUME QueueAssumption ==
  /\ Workers \cap Stoppers = {}
  /\ MaxPriority \in Nat
  /\ PrioValues \subseteq Int
  /\ PrioValues # {}
  /\ UseMetrics \in BOOLEAN

\* A program runs finitely many worker goroutines.
ASSUME WorkersFinite == IsFiniteSet(Workers)

\* defaultMinPriority: the queue's minPriority is always 0.
MinPriority == 0

\* The priority levels lenNoLock and Get look at.
Levels == MinPriority..MaxPriority

\* The keys of the priorityQueue map: the levels, and any value Done may
\* use as a key without clipping it.
Keys == Levels \cup PrioValues

Threads == Workers \cup Stoppers

\* Program counters of a Stopper inside ShutDown / ShutDownWithDrain.
StopperPCs == {"idle", "sd_shutdown", "sdw_shutdown", "sdw_loop",
               "sdw_shouldDrain", "sdw_wait", "done"}

VARIABLES
  priorityQueue, \* [Keys -> Seq(Items)]: the buckets
  dirty,         \* items that need processing
  processing,    \* items between Get and Done
  shuttingDown,
  drain,
  waitSet,       \* threads blocked in cond.Wait
  pc,            \* where each thread is
  held,          \* items a worker got and has not yet passed to Done
  ticker         \* the updateUnfinishedWorkLoop goroutine

vars == <<priorityQueue, dirty, processing, shuttingDown, drain, waitSet,
          pc, held, ticker>>

-----------------------------------------------------------------------------
(* Helpers.                                                                *)

\* The items of a bucket.
Entries(s) == {s[i] : i \in DOMAIN s}

\* clipInt(v, min, max)
clipInt(v, lo, hi) == IF v < lo THEN lo ELSE IF v > hi THEN hi ELSE v

\* lenNoLock() = 0: only the levels minPriority..maxPriority are counted.
lenNoLockIsZero == \A p \in Levels : priorityQueue[p] = <<>>

\* Mutant of isCurrentPriority: scans up from minPriority.
isCurrentPriorityLowestFirst(p) ==
  /\ priorityQueue[p] # <<>>
  /\ \A q \in Levels : q < p => priorityQueue[q] = <<>>

\* p is currentPriority: the first non-empty level scanning down from
\* maxPriority.
isCurrentPriority(p) ==
  /\ priorityQueue[p] # <<>>
  /\ \A q \in Levels : q > p => priorityQueue[q] = <<>>

\* Mutant of popHead: sets the slot to nil but forgets to reslice.
popHeadKeepsSlot(s) == [s EXCEPT ![1] = "nil"]

\* Take the head of a bucket: item = q[0]; q[0] = nil; q = q[1:].
popHead(s) == Tail(s)

\* cond.Signal(): wake one waiter, if there is one.
Signal ==
  \/ waitSet = {} /\ UNCHANGED waitSet
  \/ \E t \in waitSet : waitSet' = waitSet \ {t}

\* cond.Broadcast()
Broadcast == waitSet' = {}

-----------------------------------------------------------------------------
(* Mutants: plausible bugs in the code, each of which a property catches. *)

\* Add that queues the item even when a worker is processing it.
AddIgnoringProcessing(t, x) ==
  /\ pc[t] = "idle" /\ ~shuttingDown /\ x \notin dirty
  /\ dirty' = dirty \cup {x}
  /\ \E v \in PrioValues :
       LET p == clipInt(v, MinPriority, MaxPriority)
       IN  priorityQueue' = [priorityQueue EXCEPT ![p] = Append(@, x)]
  /\ Signal
  /\ UNCHANGED <<processing, shuttingDown, drain, pc, held, ticker>>

\* Add that forgets its shuttingDown check.
AddAfterShutdown(t, x) ==
  /\ pc[t] = "idle"
  /\ x \notin dirty
  /\ dirty' = dirty \cup {x}
  /\ \/ /\ x \in processing
        /\ UNCHANGED <<priorityQueue, waitSet>>
     \/ /\ x \notin processing
        /\ \E v \in PrioValues :
             LET p == clipInt(v, MinPriority, MaxPriority)
             IN  priorityQueue' = [priorityQueue EXCEPT ![p] = Append(@, x)]
        /\ Signal
  /\ UNCHANGED <<processing, shuttingDown, drain, pc, held, ticker>>

\* Add that queues the item without cond.Signal().
AddWithoutSignal(t, x) ==
  /\ pc[t] = "idle" /\ ~shuttingDown /\ x \notin dirty
  /\ dirty' = dirty \cup {x}
  /\ \/ x \in processing /\ UNCHANGED priorityQueue
     \/ /\ x \notin processing
        /\ \E v \in PrioValues :
             LET p == clipInt(v, MinPriority, MaxPriority)
             IN  priorityQueue' = [priorityQueue EXCEPT ![p] = Append(@, x)]
  /\ UNCHANGED <<processing, shuttingDown, drain, waitSet, pc, held, ticker>>

\* Done that forgets processing.delete(item).
DoneKeepsProcessing(t, x) ==
  /\ pc[t] = "idle" /\ x \in held[t]
  /\ held' = [held EXCEPT ![t] = @ \ {x}]
  /\ \/ /\ x \in dirty
        /\ \E p \in PrioValues :
             priorityQueue' = [priorityQueue EXCEPT ![p] = Append(@, x)]
        /\ Signal
     \/ x \notin dirty /\ UNCHANGED <<priorityQueue, waitSet>>
  /\ UNCHANGED <<processing, dirty, shuttingDown, drain, pc, ticker>>

\* Done without its cond.Signal() when processing becomes empty.
DoneWithoutIdleSignal(t, x) ==
  /\ pc[t] = "idle"
  /\ x \in held[t]
  /\ held' = [held EXCEPT ![t] = @ \ {x}]
  /\ processing' = processing \ {x}
  /\ \/ /\ x \in dirty
        /\ \E p \in PrioValues :
             priorityQueue' = [priorityQueue EXCEPT ![p] = Append(@, x)]
        /\ Signal
     \/ /\ x \notin dirty
        /\ UNCHANGED <<priorityQueue, waitSet>>
  /\ UNCHANGED <<dirty, shuttingDown, drain, pc, ticker>>

\* Done that never re-queues an item re-added while it was processed.
DoneWithoutRequeue(t, x) ==
  /\ pc[t] = "idle" /\ x \in held[t]
  /\ held' = [held EXCEPT ![t] = @ \ {x}]
  /\ processing' = processing \ {x}
  /\ IF processing' = {} THEN Signal ELSE UNCHANGED waitSet
  /\ UNCHANGED <<priorityQueue, dirty, shuttingDown, drain, pc, ticker>>

\* Get that, once shutting down with nothing queued, goes round its loop
\* again instead of returning (nil, true).
GetRetriesOnShutdown(t) ==
  /\ \/ pc[t] = "idle"
     \/ pc[t] = "get" /\ t \notin waitSet
  /\ \/ /\ lenNoLockIsZero /\ ~shuttingDown
        /\ waitSet' = waitSet \cup {t}
        /\ pc' = [pc EXCEPT ![t] = "get"]
        /\ UNCHANGED <<priorityQueue, dirty, processing, held>>
     \/ /\ lenNoLockIsZero /\ shuttingDown
        /\ pc' = [pc EXCEPT ![t] = "get"]
        /\ UNCHANGED <<priorityQueue, dirty, processing, waitSet, held>>
     \/ /\ ~lenNoLockIsZero
        /\ \E p \in Levels :
             /\ isCurrentPriority(p)
             /\ LET x == Head(priorityQueue[p])
                IN  /\ priorityQueue' = [priorityQueue EXCEPT ![p] = popHead(@)]
                    /\ processing' = processing \cup {x}
                    /\ dirty' = dirty \ {x}
                    /\ held' = [held EXCEPT ![t] = @ \cup {x}]
        /\ pc' = [pc EXCEPT ![t] = "idle"]
        /\ UNCHANGED waitSet
  /\ UNCHANGED <<shuttingDown, drain, ticker>>

\* isProcessing() that also counts the items still queued.
isProcessingCountsQueued(t) ==
  /\ pc[t] = "sdw_loop"
  /\ t \notin waitSet
  /\ pc' = [pc EXCEPT ![t] = IF processing # {} \/ ~lenNoLockIsZero
                             THEN "sdw_shouldDrain" ELSE "done"]
  /\ UNCHANGED <<priorityQueue, dirty, processing, shuttingDown, drain,
                 waitSet, held, ticker>>

-----------------------------------------------------------------------------
Init ==
  /\ priorityQueue = [p \in Keys |-> <<>>]
  /\ dirty = {}
  /\ processing = {}
  /\ shuttingDown = FALSE
  /\ drain = FALSE
  /\ waitSet = {}
  /\ pc = [t \in Threads |-> "idle"]
  /\ held = [w \in Workers |-> {}]
  \* newPriorityQueue starts the loop unless metrics is noMetrics.
  /\ ticker = IF UseMetrics THEN "running" ELSE "absent"

(* Add(item): a call that returns early (shutting down, or already dirty) *)
(* changes nothing and is a stutter.                                       *)
Add(t, x) ==
  /\ pc[t] = "idle"
  /\ ~shuttingDown
  /\ x \notin dirty
  /\ dirty' = dirty \cup {x}
  /\ \/ /\ x \in processing
        /\ UNCHANGED <<priorityQueue, waitSet>>
     \/ /\ x \notin processing
        /\ \E v \in PrioValues :
             LET p == clipInt(v, MinPriority, MaxPriority)
             IN  priorityQueue' = [priorityQueue EXCEPT ![p] = Append(@, x)]
        /\ Signal
  /\ UNCHANGED <<processing, shuttingDown, drain, pc, held, ticker>>

(* Get(): one pass of the critical section, from the call or from the     *)
(* wake-up of its cond.Wait.                                               *)
Get(t) ==
  /\ \/ pc[t] = "idle"
     \/ pc[t] = "get" /\ t \notin waitSet
  /\ \/ /\ lenNoLockIsZero /\ ~shuttingDown
        /\ waitSet' = waitSet \cup {t}
        /\ pc' = [pc EXCEPT ![t] = "get"]
        /\ UNCHANGED <<priorityQueue, dirty, processing, held>>
     \/ /\ lenNoLockIsZero /\ shuttingDown
        /\ pc' = [pc EXCEPT ![t] = "idle"]
        /\ UNCHANGED <<priorityQueue, dirty, processing, waitSet, held>>
     \/ /\ ~lenNoLockIsZero
        /\ \E p \in Levels :
             /\ isCurrentPriority(p)
             /\ LET x == Head(priorityQueue[p])
                IN  /\ priorityQueue' = [priorityQueue EXCEPT ![p] = popHead(@)]
                    /\ processing' = processing \cup {x}
                    /\ dirty' = dirty \ {x}
                    /\ held' = [held EXCEPT ![t] = @ \cup {x}]
        /\ pc' = [pc EXCEPT ![t] = "idle"]
        /\ UNCHANGED waitSet
  /\ UNCHANGED <<shuttingDown, drain, ticker>>

(* Done(item), called by the worker that got the item.  The priority is   *)
(* not clipped here.                                                       *)
Done(t, x) ==
  /\ pc[t] = "idle"
  /\ x \in held[t]
  /\ held' = [held EXCEPT ![t] = @ \ {x}]
  /\ processing' = processing \ {x}
  /\ \/ /\ x \in dirty
        /\ \E p \in PrioValues :
             priorityQueue' = [priorityQueue EXCEPT ![p] = Append(@, x)]
        /\ Signal
     \/ /\ x \notin dirty
        /\ UNCHANGED priorityQueue
        /\ IF processing' = {} THEN Signal ELSE UNCHANGED waitSet
  /\ UNCHANGED <<dirty, shuttingDown, drain, pc, ticker>>

-----------------------------------------------------------------------------
(* ShutDown() = setDrain(false); shutdown(): two critical sections.        *)
SetDrainFalse(t) ==
  /\ pc[t] = "idle"
  /\ drain' = FALSE
  /\ pc' = [pc EXCEPT ![t] = "sd_shutdown"]
  /\ UNCHANGED <<priorityQueue, dirty, processing, shuttingDown, waitSet,
                 held, ticker>>

(* ShutDownWithDrain() begins with setDrain(true).                         *)
SetDrainTrue(t) ==
  /\ pc[t] = "idle"
  /\ drain' = TRUE
  /\ pc' = [pc EXCEPT ![t] = "sdw_shutdown"]
  /\ UNCHANGED <<priorityQueue, dirty, processing, shuttingDown, waitSet,
                 held, ticker>>

(* shutdown(), from either caller.                                         *)
shutdown(t) ==
  /\ pc[t] \in {"sd_shutdown", "sdw_shutdown"}
  /\ shuttingDown' = TRUE
  /\ Broadcast
  /\ pc' = [pc EXCEPT ![t] = IF pc[t] = "sd_shutdown" THEN "done"
                                                      ELSE "sdw_loop"]
  /\ UNCHANGED <<priorityQueue, dirty, processing, drain, held, ticker>>

(* isProcessing(), the first half of the drain loop's condition; also the *)
(* return from waitForProcessing once woken.                              *)
isProcessing(t) ==
  /\ pc[t] = "sdw_loop"
  /\ t \notin waitSet
  /\ pc' = [pc EXCEPT ![t] = IF processing # {} THEN "sdw_shouldDrain"
                                                ELSE "done"]
  /\ UNCHANGED <<priorityQueue, dirty, processing, shuttingDown, drain,
                 waitSet, held, ticker>>

(* shouldDrain(), the second half of the loop condition.                   *)
shouldDrain(t) ==
  /\ pc[t] = "sdw_shouldDrain"
  /\ pc' = [pc EXCEPT ![t] = IF drain THEN "sdw_wait" ELSE "done"]
  /\ UNCHANGED <<priorityQueue, dirty, processing, shuttingDown, drain,
                 waitSet, held, ticker>>

(* waitForProcessing(): return at once if nothing is processing, else Wait.*)
waitForProcessing(t) ==
  /\ pc[t] = "sdw_wait"
  /\ pc' = [pc EXCEPT ![t] = "sdw_loop"]
  /\ \/ processing = {} /\ UNCHANGED waitSet
     \/ processing # {} /\ waitSet' = waitSet \cup {t}
  /\ UNCHANGED <<priorityQueue, dirty, processing, shuttingDown, drain,
                 held, ticker>>

(* One tick of updateUnfinishedWorkLoop: the loop exits once it sees      *)
(* shuttingDown; updateUnfinishedWork itself changes no queue state.      *)
updateUnfinishedWorkLoop ==
  /\ ticker = "running"
  /\ shuttingDown
  /\ ticker' = "stopped"
  /\ UNCHANGED <<priorityQueue, dirty, processing, shuttingDown, drain,
                 waitSet, pc, held>>

-----------------------------------------------------------------------------
WorkerNext(w) ==
  \/ \E x \in Items : Add(w, x)
  \/ Get(w)
  \/ \E x \in Items : Done(w, x)

StopperNext(s) ==
  \/ SetDrainFalse(s)
  \/ SetDrainTrue(s)
  \/ shutdown(s)
  \/ isProcessing(s)
  \/ shouldDrain(s)
  \/ waitForProcessing(s)

Next ==
  \/ \E w \in Workers : WorkerNext(w)
  \/ \E s \in Stoppers : StopperNext(s)
  \/ updateUnfinishedWorkLoop

Spec == Init /\ [][Next]_vars

(***************************************************************************)
(* Fairness.  A thread that has entered Get, ShutDown or ShutDownWithDrain *)
(* keeps running once it is runnable (the Go scheduler runs every runnable *)
(* goroutine).  A worker calls Done on every item it got: the contract     *)
(* ShutDownWithDrain's comment states.  Calls of Add and Get are the     *)
(* user's choice and are not fair.                                         *)
(***************************************************************************)
StopperSteps(s) ==
  shutdown(s) \/ isProcessing(s) \/ shouldDrain(s) \/ waitForProcessing(s)

Fairness ==
  /\ \A w \in Workers : WF_vars(pc[w] = "get" /\ Get(w))
  /\ \A s \in Stoppers : WF_vars(StopperSteps(s))

DoneFairness == \A w \in Workers : WF_vars(\E x \in Items : Done(w, x))

FairSpec == Spec /\ Fairness /\ DoneFairness

\* Workers that may never call Done (the case ShutDown is meant to force).
ForceSpec == Spec /\ Fairness

-----------------------------------------------------------------------------
(* Properties.                                                             *)

TypeOK ==
  /\ priorityQueue \in [Keys -> Seq(Items)]
  /\ dirty \subseteq Items
  /\ processing \subseteq Items
  /\ shuttingDown \in BOOLEAN
  /\ drain \in BOOLEAN
  /\ waitSet \subseteq Threads
  /\ pc \in [Threads -> StopperPCs \cup {"get"}]
  /\ held \in [Workers -> SUBSET Items]
  /\ ticker \in {"running", "stopped", "absent"}

\* The code's comment on priorityQueue (lines 81-83): every queued entry is
\* dirty and not processing, and no item is queued twice.  Broken by an Add
\* that queues an item a worker holds, or a Done that re-queues twice.
BucketsHoldPending ==
  \A p \in Keys : \A i \in DOMAIN priorityQueue[p] :
    LET x == priorityQueue[p][i]
    IN  /\ x \in dirty \ processing
        /\ \A q \in Keys : \A j \in DOMAIN priorityQueue[q] :
             priorityQueue[q][j] = x => q = p /\ j = i

\* An item is processed by at most one worker at a time, and the processing
\* set is exactly what the workers hold between Get and Done.
ExclusiveProcessing ==
  /\ processing = UNION {held[w] : w \in Workers}
  /\ \A v, w \in Workers : v # w => held[v] \cap held[w] = {}

\* An item that is dirty and not being processed sits in a bucket Get can
\* see.  Otherwise it is lost: Add ignores it (it is dirty) and Get never
\* returns it.
DirtyItemsReachable ==
  \A x \in dirty \ processing : \E p \in Levels : x \in Entries(priorityQueue[p])

\* No lost wake-up in Get: while an item is queued and some worker is
\* blocked in Get's cond.Wait, some worker in Get is runnable and will take
\* it.  Add and Done must Signal after queueing an item.
NoLostWakeup ==
  (~lenNoLockIsZero /\ \E w \in Workers : pc[w] = "get" /\ w \in waitSet)
    => \E w \in Workers : pc[w] = "get" /\ w \notin waitSet

\* After ShutDown the work still owed, the items that are dirty or being
\* processed, never grows: Add drops new items, Get moves a queued (dirty)
\* item to processing, and Done either retires an item or re-queues one that
\* was dirty already.  Section 3 of the spec says more, that no bucket
\* insertion happens after ShutDown at all; Done's re-queue of an item
\* re-added before ShutDown is such an insertion, and it is allowed here.
NoNewWorkAfterShutdown ==
  [][shuttingDown => dirty' \cup processing' \subseteq dirty \cup processing]_vars

\* A stopper sleeps in waitForProcessing only while some item is still
\* processing: the Done that empties processing Signals, and with a single
\* drainer nobody else is waiting then.  Otherwise the drain sleeps with
\* nothing left to wait for (two drainers: see queue_two_drainers).
DrainWaitsOnWork == \A s \in Stoppers \cap waitSet : processing # {}

\* Spec section 3: "After ShutDown, no new bucket insertions occur": once
\* shutting down, every entry of every bucket was already in that bucket.
\* Done (lines 203-206) appends an item re-added while it was processing,
\* whenever that Done comes.
NoBucketInsertAfterShutdown ==
  [][shuttingDown =>
       \A p \in Keys : Entries(priorityQueue'[p]) \subseteq Entries(priorityQueue[p])]_vars

\* The states of a Stopper inside ShutDownWithDrain.
DrainPCs == {"sdw_shutdown", "sdw_loop", "sdw_shouldDrain", "sdw_wait"}

\* ShutDownWithDrain returns once the workers have called Done on every item
\* they got (its comment: "As soon as the worker goroutines have drained").
DrainReturns == \A s \in Stoppers : pc[s] \in DrainPCs ~> pc[s] = "done"

\* Once ShutDown has cleared drain, a pending ShutDownWithDrain returns
\* without waiting for Done ("It is, however, safe to call ShutDown after
\* having called ShutDownWithDrain, as to force the queue shut down to
\* terminate immediately").
ForcedShutdownReturns ==
  \A s \in Stoppers : (pc[s] \in DrainPCs /\ shuttingDown /\ ~drain)
                        ~> pc[s] = "done"

\* After shutdown every worker blocked in Get returns.
GetReleasedOnShutdown ==
  \A w \in Workers : (shuttingDown /\ pc[w] = "get") ~> pc[w] = "idle"

-----------------------------------------------------------------------------
(* Refinement mapping onto WorkQueueAbstract: an item's state follows     *)
(* from dirty and processing (the state machine of the code's comments),  *)
(* a queued item's level is the bucket it sits in, and the priorities are *)
(* the levels minPriority..maxPriority the queue serves.                  *)

itemState(x) ==
  IF x \in processing THEN IF x \in dirty THEN "processingDirty" ELSE "processing"
                      ELSE IF x \in dirty THEN "queued" ELSE "absent"

levelOf(x) == CHOOSE k \in Keys : x \in Entries(priorityQueue[k])

Abs == INSTANCE WorkQueueAbstract
         WITH Prios <- Levels,
              st <- [x \in Items |-> itemState(x)],
              lvl <- [x \in dirty \ processing |-> levelOf(x)],
              holding <- held,
              down <- shuttingDown

\* The queue implements the per-item contract: every step of Add, Get, Done
\* and the shutdown paths is a step of WorkQueueAbstract or leaves the
\* item states unchanged.  In particular Get always returns a queued item of
\* the highest level (strict priority), and Done re-queues a dirty item at a
\* level the queue serves.
ImplementsAbstract == Abs!Spec

=============================================================================
