------------------------- MODULE PriorityQueueWakeup -------------------------
(***************************************************************************)
(* Proof that Get never loses a wake-up (NoLostWakeup).  Add and Done     *)
(* queue an item and call cond.Signal, which wakes one waiter; Get takes  *)
(* one item per runnable caller.  The invariant behind it counts: while   *)
(* a worker is blocked in Get, there are at most as many queued items as  *)
(* workers that are in Get and runnable.  It rests on three facts about   *)
(* who can be in the wait set: only workers inside Get, a stopper only    *)
(* after shutdown (inside ShutDownWithDrain), and no worker after         *)
(* shutdown, so that a Signal while a worker is blocked wakes a worker.   *)
(***************************************************************************)
EXTENDS PriorityQueueProofs, FiniteSetTheorems

USE QueueAssumption, WorkersFinite

\* The items Get can see: those in the buckets minPriority..maxPriority.
queuedItems == {x \in Items : \E p \in Levels : x \in Entries(priorityQueue[p])}

\* The workers inside Get that are not blocked in cond.Wait.
runnableGetters == {w \in Workers : pc[w] = "get" /\ w \notin waitSet}

\* The workers blocked in cond.Wait.
blockedWorkers == Workers \cap waitSet

\* The ShutDownWithDrain states after its call of shutdown().
DrainLoopPCs == {"sdw_loop", "sdw_shouldDrain", "sdw_wait"}

(* The strengthening of NoLostWakeup: a blocked worker is inside Get; a  *)
(* stopper is in the drain loop, or waiting in it, only after shutdown;   *)
(* no worker is blocked after shutdown (shutdown broadcasts and Get no    *)
(* longer waits); and while a worker is blocked, the queued items Get can *)
(* see are no more than the workers in Get that are runnable.             *)
WakeupInv ==
  /\ \A w \in blockedWorkers : pc[w] = "get"
  /\ \A s \in Stoppers : pc[s] \in DrainLoopPCs => shuttingDown
  /\ \A s \in Stoppers \cap waitSet : pc[s] = "sdw_loop"
  /\ shuttingDown => blockedWorkers = {}
  /\ blockedWorkers # {} => Cardinality(queuedItems) <= Cardinality(runnableGetters)

-----------------------------------------------------------------------------
(* Finiteness of the two counted sets.                                     *)

LEMMA EntriesFinite ==
  ASSUME NEW S, NEW s \in Seq(S)
  PROVE  IsFiniteSet(Entries(s))
<1>1. s \in Surjection(1..Len(s), Entries(s))
  BY DEF Surjection, Entries
<1>2. IsFiniteSet(1..Len(s))
  BY FS_Interval
<1>3. QED BY <1>1, <1>2, FS_Surjection

LEMMA QueuedFinite ==
  ASSUME TypeOK
  PROVE  IsFiniteSet(queuedItems)
<1> DEFINE E == {Entries(priorityQueue[p]) : p \in Levels}
           f == [p \in Levels |-> Entries(priorityQueue[p])]
<1>1. IsFiniteSet(Levels)
  BY FS_Interval DEF Levels, MinPriority
<1>2. f \in Surjection(Levels, E)
  BY DEF Surjection
<1>3. IsFiniteSet(E)
  BY <1>1, <1>2, FS_Surjection
<1>4. \A T \in E : IsFiniteSet(T)
  <2>1. \A p \in Levels : priorityQueue[p] \in Seq(Items)
    BY DEF TypeOK, Keys
  <2>2. QED BY <2>1, EntriesFinite
<1>5. IsFiniteSet(UNION E)
  BY <1>3, <1>4, FS_UNION
<1>6. queuedItems \subseteq UNION E
  BY DEF queuedItems
<1>7. QED BY <1>5, <1>6, FS_Subset

LEMMA RunnableFinite == IsFiniteSet(runnableGetters)
BY FS_Subset DEF runnableGetters

LEMMA RunnableFinitePrimed == IsFiniteSet(runnableGetters')
BY FS_Subset DEF runnableGetters

-----------------------------------------------------------------------------
(* The counting steps.  An item queued together with a woken worker, an   *)
(* item taken by a worker that leaves Get, and a step that queues nothing *)
(* and blocks no one each keep the count of items within the count of     *)
(* runnable workers.                                                       *)

LEMMA CountAddBoth ==
  ASSUME NEW Q, NEW Q2, NEW R, NEW x, NEW t,
         IsFiniteSet(Q), IsFiniteSet(R), Cardinality(Q) <= Cardinality(R),
         Q2 \subseteq Q \cup {x}, t \notin R
  PROVE  Cardinality(Q2) <= Cardinality(R \cup {t})
<1>1. /\ IsFiniteSet(Q \cup {x})
      /\ Cardinality(Q \cup {x}) = IF x \in Q THEN Cardinality(Q) ELSE Cardinality(Q) + 1
  BY FS_AddElement
<1>2. Cardinality(Q2) <= Cardinality(Q \cup {x})
  <2>1. Q2 \in SUBSET (Q \cup {x}) OBVIOUS
  <2>2. QED BY <1>1, <2>1, FS_Subset
<1>3. Cardinality(R \cup {t}) = Cardinality(R) + 1
  BY FS_AddElement
<1>4. Cardinality(Q) \in Nat /\ Cardinality(R) \in Nat
  BY FS_CardinalityType
<1>5. Cardinality(Q2) \in Nat
  <2>1. Q2 \in SUBSET (Q \cup {x}) OBVIOUS
  <2>2. IsFiniteSet(Q2) BY <1>1, <2>1, FS_Subset
  <2>3. QED BY <2>2, FS_CardinalityType
<1>6. QED BY <1>1, <1>2, <1>3, <1>4, <1>5

LEMMA CountTakeOne ==
  ASSUME NEW Q, NEW Q2, NEW R, NEW R2, NEW x, NEW w,
         IsFiniteSet(Q), IsFiniteSet(R2), Cardinality(Q) <= Cardinality(R),
         x \in Q, Q2 \subseteq Q \ {x}, R \ {w} \subseteq R2, R \subseteq R2 \cup {w}
  PROVE  Cardinality(Q2) <= Cardinality(R2)
<1>1. IsFiniteSet(R2 \cup {w})
  BY FS_AddElement
<1>2. IsFiniteSet(R)
  <2>1. R \in SUBSET (R2 \cup {w}) OBVIOUS
  <2>2. QED BY <1>1, <2>1, FS_Subset
<1>3. /\ IsFiniteSet(R \ {w})
      /\ Cardinality(R \ {w}) = IF w \in R THEN Cardinality(R) - 1 ELSE Cardinality(R)
  BY <1>2, FS_RemoveElement
<1>4. Cardinality(R \ {w}) <= Cardinality(R2)
  <2>1. R \ {w} \in SUBSET R2 OBVIOUS
  <2>2. QED BY <2>1, FS_Subset
<1>5. /\ IsFiniteSet(Q \ {x})
      /\ Cardinality(Q \ {x}) = Cardinality(Q) - 1
  BY FS_RemoveElement
<1>6. /\ IsFiniteSet(Q2)
      /\ Cardinality(Q2) <= Cardinality(Q \ {x})
  <2>1. Q2 \in SUBSET (Q \ {x}) OBVIOUS
  <2>2. QED BY <1>5, <2>1, FS_Subset
<1>7. /\ Cardinality(Q2) \in Nat
      /\ Cardinality(R) \in Nat
      /\ Cardinality(Q) \in Nat
      /\ Cardinality(R2) \in Nat
  BY <1>2, <1>6, FS_CardinalityType
<1>8. QED BY <1>3, <1>4, <1>5, <1>6, <1>7

LEMMA CountSame ==
  ASSUME NEW Q, NEW Q2, NEW R, NEW R2,
         IsFiniteSet(Q), IsFiniteSet(R2), Cardinality(Q) <= Cardinality(R),
         Q2 \subseteq Q, R \subseteq R2
  PROVE  Cardinality(Q2) <= Cardinality(R2)
<1>1. IsFiniteSet(Q2) /\ Cardinality(Q2) <= Cardinality(Q)
  <2>1. Q2 \in SUBSET Q OBVIOUS
  <2>2. QED BY <2>1, FS_Subset
<1>2. IsFiniteSet(R) /\ Cardinality(R) <= Cardinality(R2)
  <2>1. R \in SUBSET R2 OBVIOUS
  <2>2. QED BY <2>1, FS_Subset
<1>3. QED BY <1>1, <1>2, FS_CardinalityType

-----------------------------------------------------------------------------
(* What Signal and the bucket updates do to the counted sets.             *)

(* A Signal never blocks anyone: runnable workers stay runnable and the   *)
(* blocked ones are a subset of those before.                              *)
LEMMA SignalKeeps ==
  ASSUME Signal, pc' = pc
  PROVE  /\ runnableGetters \subseteq runnableGetters'
         /\ blockedWorkers' \subseteq blockedWorkers
BY DEF Signal, runnableGetters, blockedWorkers

(* Before shutdown only workers wait, so a Signal while a worker is      *)
(* blocked wakes a worker inside Get.                                      *)
LEMMA SignalWakesWorker ==
  ASSUME TypeOK, WakeupInv, ~shuttingDown, blockedWorkers # {}, Signal, pc' = pc
  PROVE  \E t \in Workers : /\ t \notin runnableGetters
                            /\ runnableGetters' = runnableGetters \cup {t}
<1>1. PICK t \in waitSet : waitSet' = waitSet \ {t}
  BY DEF Signal, blockedWorkers
<1>2. t \notin Stoppers
  BY <1>1 DEF WakeupInv, DrainLoopPCs
<1>3. t \in Workers /\ pc[t] = "get"
  BY <1>1, <1>2 DEF TypeOK, Threads, WakeupInv, blockedWorkers
<1>4. QED BY <1>1, <1>3 DEF runnableGetters

(* Appending x to a bucket queues at most x more.                         *)
LEMMA QueuedAppend ==
  ASSUME TypeOK, NEW p \in Keys, NEW x \in Items,
         priorityQueue' = [priorityQueue EXCEPT ![p] = Append(@, x)]
  PROVE  queuedItems' \subseteq queuedItems \cup {x}
<1>1. \A k \in Levels : Entries(priorityQueue'[k]) \subseteq Entries(priorityQueue[k]) \cup {x}
  <2> SUFFICES ASSUME NEW k \in Levels, NEW i \in DOMAIN priorityQueue'[k]
               PROVE  priorityQueue'[k][i] \in Entries(priorityQueue[k]) \cup {x}
    BY DEF Entries
  <2>1. k \in Keys /\ priorityQueue[k] \in Seq(Items)
    BY DEF Keys, TypeOK
  <2>2. QED BY <2>1 DEF Entries
<1>2. QED BY <1>1 DEF queuedItems

(* Taking the head of a bucket removes that item from the queued ones and *)
(* adds none: entries are unique (BucketsHoldPending).                    *)
LEMMA QueuedTake ==
  ASSUME TypeOK, BucketsHoldPending, NEW p \in Levels, priorityQueue[p] # <<>>,
         priorityQueue' = [priorityQueue EXCEPT ![p] = Tail(@)]
  PROVE  /\ Head(priorityQueue[p]) \in queuedItems
         /\ queuedItems' \subseteq queuedItems \ {Head(priorityQueue[p])}
<1>1. /\ p \in Keys
      /\ priorityQueue \in [Keys -> Seq(Items)]
      /\ priorityQueue[p] \in Seq(Items)
  BY DEF Keys, TypeOK
<1>2. Head(priorityQueue[p]) \in queuedItems
  BY <1>1 DEF queuedItems, Entries
<1>3. ASSUME NEW k \in Levels, NEW i \in DOMAIN priorityQueue'[k]
      PROVE  /\ priorityQueue'[k][i] \in Entries(priorityQueue[k])
             /\ priorityQueue'[k][i] # Head(priorityQueue[p])
  <2>1. k \in Keys /\ priorityQueue[k] \in Seq(Items)
    BY DEF Keys, TypeOK
  <2>2. CASE k = p
    <3>a. priorityQueue'[k] = Tail(priorityQueue[p])
      BY <1>1, <2>2
    <3>0. i \in 1..(Len(priorityQueue[p]) - 1)
      BY <1>1, <3>a
    <3>1. /\ i + 1 \in DOMAIN priorityQueue[p]
          /\ 1 \in DOMAIN priorityQueue[p]
          /\ i + 1 # 1
          /\ priorityQueue'[k][i] = priorityQueue[p][i + 1]
      BY <1>1, <2>2, <3>0
    <3>2. priorityQueue[p][i + 1] # priorityQueue[p][1]
      <4>1. priorityQueue[p][1] = priorityQueue[p][i + 1] => p = p /\ 1 = i + 1
        BY <1>1, <3>1 DEF BucketsHoldPending
      <4>2. QED BY <3>1, <4>1
    <3>3. QED BY <1>1, <2>2, <3>1, <3>2 DEF Entries
  <2>3. CASE k # p
    <3>1. i \in DOMAIN priorityQueue[k] /\ priorityQueue'[k][i] = priorityQueue[k][i]
      BY <2>1, <2>3
    <3>2. priorityQueue[k][i] # priorityQueue[p][1]
      BY <1>1, <2>1, <2>3, <3>1 DEF BucketsHoldPending
    <3>3. QED BY <1>1, <3>1, <3>2 DEF Entries
  <2>4. QED BY <2>2, <2>3
<1>4. QED BY <1>2, <1>3 DEF queuedItems, Entries

(* A stopper step that moves only its own pc, while the stopper is not   *)
(* waiting, into a drain-loop state only after shutdown.                  *)
LEMMA StopperMoves ==
  ASSUME TypeOK, WakeupInv, NEW s \in Stoppers, NEW v, s \notin waitSet,
         UNCHANGED <<priorityQueue, waitSet, shuttingDown>>,
         pc' = [pc EXCEPT ![s] = v],
         v \in DrainLoopPCs => shuttingDown
  PROVE  WakeupInv'
<1>1. s \notin Workers
  BY DEF QueueAssumption
<1>2. \A t \in Threads \ {s} : pc'[t] = pc[t]
  BY DEF TypeOK, Threads
<1>3. /\ queuedItems' = queuedItems
      /\ runnableGetters' = runnableGetters
      /\ blockedWorkers' = blockedWorkers
  BY <1>1, <1>2 DEF queuedItems, runnableGetters, blockedWorkers, Threads
<1>4. \A w \in blockedWorkers' : pc'[w] = "get"
  BY <1>1, <1>2, <1>3 DEF WakeupInv, blockedWorkers, Threads
<1>5. \A s2 \in Stoppers : pc'[s2] \in DrainLoopPCs => shuttingDown'
  <2>1. pc'[s] = v
    BY DEF TypeOK, Threads
  <2>2. QED BY <1>2, <2>1 DEF WakeupInv, Threads
<1>6. \A s2 \in Stoppers \cap waitSet' : pc'[s2] = "sdw_loop"
  BY <1>2 DEF WakeupInv, Threads
<1>7. QED BY <1>3, <1>4, <1>5, <1>6 DEF WakeupInv

-----------------------------------------------------------------------------
LEMMA WakeupInit == Init => WakeupInv
BY DEF Init, WakeupInv, blockedWorkers, DrainLoopPCs, Threads

LEMMA WakeupStep == IInv /\ WakeupInv /\ [Next]_vars => WakeupInv'
<1> SUFFICES ASSUME IInv, WakeupInv, [Next]_vars PROVE WakeupInv'
  OBVIOUS
<1>0. /\ TypeOK
      /\ BucketsHoldPending
      /\ IsFiniteSet(queuedItems)
      /\ IsFiniteSet(runnableGetters')
  BY QueuedFinite, RunnableFinitePrimed DEF IInv
<1>1. ASSUME NEW w \in Workers, NEW x \in Items, Add(w, x) PROVE WakeupInv'
  <2>1. /\ pc' = pc /\ shuttingDown' = shuttingDown /\ ~shuttingDown
        /\ Signal \/ UNCHANGED waitSet
    BY <1>1 DEF Add
  <2>2. /\ runnableGetters \subseteq runnableGetters'
        /\ blockedWorkers' \subseteq blockedWorkers
        /\ waitSet' \subseteq waitSet
    BY <2>1, SignalKeeps DEF Signal, runnableGetters, blockedWorkers
  <2>3. /\ \A w2 \in blockedWorkers' : pc'[w2] = "get"
        /\ \A s \in Stoppers : pc'[s] \in DrainLoopPCs => shuttingDown'
        /\ \A s \in Stoppers \cap waitSet' : pc'[s] = "sdw_loop"
        /\ shuttingDown' => blockedWorkers' = {}
    BY <2>1, <2>2 DEF WakeupInv
  <2>4. ASSUME blockedWorkers' # {}
        PROVE  Cardinality(queuedItems') <= Cardinality(runnableGetters')
    <3>1. blockedWorkers # {} /\ Cardinality(queuedItems) <= Cardinality(runnableGetters)
      BY <2>2, <2>4 DEF WakeupInv
    <3>2. CASE x \in processing
      <4>1. queuedItems' = queuedItems
        BY <1>1, <3>2 DEF Add, queuedItems
      <4>2. QED BY <1>0, <2>2, <3>1, <4>1, CountSame
    <3>3. CASE x \notin processing
      <4>1. PICK v \in PrioValues :
              /\ priorityQueue' =
                   [priorityQueue EXCEPT ![clipInt(v, MinPriority, MaxPriority)] = Append(@, x)]
              /\ Signal
        BY <1>1, <3>3 DEF Add
      <4>2. clipInt(v, MinPriority, MaxPriority) \in Keys
        BY ClipIntInRange DEF MinPriority, Keys, Levels
      <4>3. queuedItems' \subseteq queuedItems \cup {x}
        BY <1>0, <4>1, <4>2, QueuedAppend
      <4>4. PICK t \in Workers : /\ t \notin runnableGetters
                                 /\ runnableGetters' = runnableGetters \cup {t}
        BY <1>0, <2>1, <3>1, <4>1, SignalWakesWorker
      <4>5. QED BY <1>0, <3>1, <4>3, <4>4, RunnableFinite, CountAddBoth
    <3>4. QED BY <3>2, <3>3
  <2>5. QED BY <2>3, <2>4 DEF WakeupInv
<1>2. ASSUME NEW w \in Workers, Get(w) PROVE WakeupInv'
  <2>0. /\ w \notin Stoppers
        /\ w \notin blockedWorkers
        /\ shuttingDown' = shuttingDown
        /\ \A t \in Threads \ {w} : pc'[t] = pc[t]
    <3>1. pc[w] = "idle" \/ (pc[w] = "get" /\ w \notin waitSet)
      BY <1>2 DEF Get
    <3>2. QED BY <1>0, <1>2, <3>1 DEF Get, WakeupInv, blockedWorkers, TypeOK
  <2>1. CASE lenNoLockIsZero /\ ~shuttingDown
    <3>1. /\ waitSet' = waitSet \cup {w}
          /\ pc' = [pc EXCEPT ![w] = "get"]
          /\ priorityQueue' = priorityQueue
      BY <1>2, <2>1 DEF Get
    <3>2. queuedItems' = {}
      BY <2>1, <3>1 DEF lenNoLockIsZero, queuedItems, Entries
    <3>3. Cardinality(queuedItems') <= Cardinality(runnableGetters')
      BY <1>0, <3>2, FS_EmptySet, FS_CardinalityType
    <3>4. pc'[w] = "get"
      BY <1>0, <3>1 DEF TypeOK, Threads
    <3>5. QED BY <2>0, <2>1, <3>1, <3>3, <3>4 DEF WakeupInv, blockedWorkers, Threads
  <2>2. CASE lenNoLockIsZero /\ shuttingDown
    <3>1. waitSet' = waitSet /\ pc' = [pc EXCEPT ![w] = "idle"]
      BY <1>2, <2>2 DEF Get
    <3>2. blockedWorkers = {} /\ blockedWorkers' = {}
      BY <2>2, <3>1 DEF WakeupInv, blockedWorkers
    <3>3. QED BY <2>0, <3>1, <3>2 DEF WakeupInv, Threads
  <2>3. CASE ~lenNoLockIsZero
    <3>1. PICK p \in Levels :
               /\ isCurrentPriority(p)
               /\ priorityQueue' = [priorityQueue EXCEPT ![p] = popHead(@)]
      BY <1>2, <2>3 DEF Get
    <3>2. waitSet' = waitSet /\ pc' = [pc EXCEPT ![w] = "idle"]
      BY <1>2, <2>3 DEF Get
    <3>3. /\ Head(priorityQueue[p]) \in queuedItems
          /\ queuedItems' \subseteq queuedItems \ {Head(priorityQueue[p])}
      BY <1>0, <3>1, QueuedTake DEF isCurrentPriority, popHead
    <3>4. /\ runnableGetters \ {w} \subseteq runnableGetters'
          /\ runnableGetters \subseteq runnableGetters' \cup {w}
          /\ blockedWorkers' = blockedWorkers
      BY <2>0, <3>2 DEF runnableGetters, blockedWorkers, Threads
    <3>5. blockedWorkers' # {} => Cardinality(queuedItems') <= Cardinality(runnableGetters')
      BY <1>0, <3>3, <3>4, CountTakeOne DEF WakeupInv
    <3>6. QED BY <2>0, <3>2, <3>4, <3>5 DEF WakeupInv, Threads
  <2>4. QED BY <2>1, <2>2, <2>3
<1>3. ASSUME NEW w \in Workers, NEW x \in Items, Done(w, x) PROVE WakeupInv'
  <2>1. /\ pc' = pc /\ shuttingDown' = shuttingDown
        /\ Signal \/ UNCHANGED waitSet
    BY <1>3 DEF Done
  <2>2. /\ runnableGetters \subseteq runnableGetters'
        /\ blockedWorkers' \subseteq blockedWorkers
        /\ waitSet' \subseteq waitSet
    BY <2>1, SignalKeeps DEF Signal, runnableGetters, blockedWorkers
  <2>3. /\ \A w2 \in blockedWorkers' : pc'[w2] = "get"
        /\ \A s \in Stoppers : pc'[s] \in DrainLoopPCs => shuttingDown'
        /\ \A s \in Stoppers \cap waitSet' : pc'[s] = "sdw_loop"
        /\ shuttingDown' => blockedWorkers' = {}
    BY <2>1, <2>2 DEF WakeupInv
  <2>4. ASSUME blockedWorkers' # {}
        PROVE  Cardinality(queuedItems') <= Cardinality(runnableGetters')
    <3>1. /\ blockedWorkers # {}
          /\ ~shuttingDown
          /\ Cardinality(queuedItems) <= Cardinality(runnableGetters)
      BY <2>2, <2>4 DEF WakeupInv
    <3>2. CASE x \notin dirty
      <4>1. queuedItems' = queuedItems
        BY <1>3, <3>2 DEF Done, queuedItems
      <4>2. QED BY <1>0, <2>2, <3>1, <4>1, CountSame
    <3>3. CASE x \in dirty
      <4>1. PICK p \in PrioValues :
              /\ priorityQueue' = [priorityQueue EXCEPT ![p] = Append(@, x)]
              /\ Signal
        BY <1>3, <3>3 DEF Done
      <4>2. p \in Keys
        BY DEF Keys
      <4>3. queuedItems' \subseteq queuedItems \cup {x}
        BY <1>0, <4>1, <4>2, QueuedAppend
      <4>4. PICK t \in Workers : /\ t \notin runnableGetters
                                 /\ runnableGetters' = runnableGetters \cup {t}
        BY <1>0, <2>1, <3>1, <4>1, SignalWakesWorker
      <4>5. QED BY <1>0, <3>1, <4>3, <4>4, RunnableFinite, CountAddBoth
    <3>4. QED BY <3>2, <3>3
  <2>5. QED BY <2>3, <2>4 DEF WakeupInv
<1>4. ASSUME NEW s \in Stoppers, StopperNext(s) PROVE WakeupInv'
  <2>0. s \notin Workers
    BY DEF QueueAssumption
  <2>1. CASE shutdown(s)
    <3>1. waitSet' = {} /\ shuttingDown' = TRUE
      BY <2>1 DEF shutdown, Broadcast
    <3>2. QED BY <3>1 DEF WakeupInv, blockedWorkers
  <2>2. CASE SetDrainFalse(s)
    BY <1>0, <2>2, StopperMoves DEF SetDrainFalse, WakeupInv, DrainLoopPCs
  <2>3. CASE SetDrainTrue(s)
    BY <1>0, <2>3, StopperMoves DEF SetDrainTrue, WakeupInv, DrainLoopPCs
  <2>4. CASE isProcessing(s)
    BY <1>0, <2>4, StopperMoves DEF isProcessing, WakeupInv, DrainLoopPCs
  <2>5. CASE shouldDrain(s)
    BY <1>0, <2>5, StopperMoves DEF shouldDrain, WakeupInv, DrainLoopPCs
  <2>6. CASE waitForProcessing(s)
    <3>1. /\ UNCHANGED <<priorityQueue, shuttingDown>>
          /\ pc' = [pc EXCEPT ![s] = "sdw_loop"]
          /\ waitSet' \subseteq waitSet \cup {s}
          /\ waitSet \subseteq waitSet'
          /\ pc[s] = "sdw_wait"
      BY <2>6 DEF waitForProcessing
    <3>2. shuttingDown
      BY <3>1 DEF WakeupInv, DrainLoopPCs
    <3>3. /\ queuedItems' = queuedItems
          /\ runnableGetters' = runnableGetters
          /\ blockedWorkers' = blockedWorkers
      BY <2>0, <3>1 DEF queuedItems, runnableGetters, blockedWorkers
    <3>4. \A t \in Threads \ {s} : pc'[t] = pc[t]
      BY <1>0, <3>1 DEF TypeOK, Threads
    <3>5. \A w2 \in blockedWorkers' : pc'[w2] = "get"
      BY <2>0, <3>3, <3>4 DEF WakeupInv, blockedWorkers, Threads
    <3>6. \A s2 \in Stoppers : pc'[s2] \in DrainLoopPCs => shuttingDown'
      BY <3>1, <3>2, <3>4 DEF WakeupInv, Threads
    <3>7. \A s2 \in Stoppers \cap waitSet' : pc'[s2] = "sdw_loop"
      BY <1>0, <3>1, <3>4 DEF WakeupInv, Threads, TypeOK
    <3>8. QED BY <3>1, <3>2, <3>3, <3>5, <3>6, <3>7 DEF WakeupInv
  <2>7. QED BY <1>4, <2>1, <2>2, <2>3, <2>4, <2>5, <2>6, Zenon DEF StopperNext
<1>5. CASE updateUnfinishedWorkLoop
  BY <1>5 DEF updateUnfinishedWorkLoop, WakeupInv, blockedWorkers, queuedItems,
     runnableGetters
<1>6. CASE UNCHANGED vars
  BY <1>6 DEF vars, WakeupInv, blockedWorkers, queuedItems, runnableGetters
<1>7. QED BY <1>1, <1>2, <1>3, <1>4, <1>5, <1>6 DEF Next, WorkerNext
(* The invariant gives NoLostWakeup: a queued item is counted, so while a *)
(* worker is blocked the count of runnable workers in Get is at least one.*)
LEMMA WakeupImpliesNoLostWakeup == TypeOK /\ WakeupInv => NoLostWakeup
<1> SUFFICES ASSUME TypeOK, WakeupInv, ~lenNoLockIsZero,
                    \E w \in Workers : pc[w] = "get" /\ w \in waitSet
             PROVE  \E w \in Workers : pc[w] = "get" /\ w \notin waitSet
  BY DEF NoLostWakeup
<1>1. PICK p \in Levels : priorityQueue[p] # <<>>
  BY DEF lenNoLockIsZero
<1>2. priorityQueue[p][1] \in queuedItems
  <2>1. p \in Keys /\ priorityQueue[p] \in Seq(Items)
    BY DEF Keys, TypeOK
  <2>2. QED BY <1>1, <2>1 DEF queuedItems, Entries
<1>3. Cardinality(queuedItems) # 0 /\ Cardinality(queuedItems) \in Nat
  BY <1>2, QueuedFinite, FS_EmptySet, FS_CardinalityType
<1>4. Cardinality(queuedItems) <= Cardinality(runnableGetters)
  BY DEF WakeupInv, blockedWorkers
<1>5. runnableGetters # {}
  BY <1>3, <1>4, FS_EmptySet
<1>6. QED BY <1>5 DEF runnableGetters

(***************************************************************************)
(* No lost wake-up in Get, for every number of workers, stoppers, items   *)
(* and priority levels and every priority function: while an item is     *)
(* queued at a level Get scans and a worker is blocked in Get's           *)
(* cond.Wait, some worker inside Get is runnable, because Add and Done    *)
(* call cond.Signal after every item they queue.                          *)
(***************************************************************************)
THEOREM NoLostWakeupHolds == Spec => []NoLostWakeup
<1>1. Init => IInv /\ WakeupInv
  BY IInvInit, WakeupInit
<1>2. IInv /\ WakeupInv /\ [Next]_vars => (IInv /\ WakeupInv)'
  BY IInvStep, WakeupStep
<1>3. IInv /\ WakeupInv => NoLostWakeup
  BY WakeupImpliesNoLostWakeup DEF IInv
<1>4. QED BY <1>1, <1>2, <1>3, PTL DEF Spec


-----------------------------------------------------------------------------
(***************************************************************************)
(* The drainer sleeps only while work is processing (DrainWaitsOnWork),  *)
(* for a program with one goroutine that shuts the queue down.  A waiting *)
(* stopper is inside ShutDownWithDrain, so the queue is shutting down and *)
(* no worker is blocked (WakeupInv): the stopper is the only waiter, and  *)
(* the Signal of the Done that empties processing wakes it.  With two     *)
(* drainers that Signal wakes only one (queue_two_drainers).              *)
(***************************************************************************)
OneStopper == \A s, t \in Stoppers : s = t

(* While a stopper waits, it is the only thread in the wait set.          *)
LEMMA StopperWaitsAlone ==
  ASSUME OneStopper, TypeOK, WakeupInv, NEW s \in Stoppers \cap waitSet
  PROVE  waitSet = {s}
<1>1. shuttingDown
  BY DEF WakeupInv, DrainLoopPCs
<1>2. blockedWorkers = {}
  BY <1>1 DEF WakeupInv
<1>3. \A t \in waitSet : t \in Stoppers
  BY <1>2 DEF TypeOK, Threads, blockedWorkers
<1>4. QED BY <1>3 DEF OneStopper

LEMMA DrainStep ==
  OneStopper /\ IInv /\ WakeupInv /\ DrainWaitsOnWork /\ [Next]_vars
    => DrainWaitsOnWork'
<1> SUFFICES ASSUME OneStopper, IInv, WakeupInv, DrainWaitsOnWork, [Next]_vars,
                    NEW s \in Stoppers, s \in waitSet'
             PROVE  processing' # {}
  BY DEF DrainWaitsOnWork
<1> USE DEF IInv
<1>0. s \notin Workers
  BY QueueAssumption
<1>1. ASSUME NEW w \in Workers, NEW x \in Items, Add(w, x) PROVE processing' # {}
  <2>1. waitSet' \subseteq waitSet
    BY <1>1, SignalShrinks DEF Add
  <2>2. QED BY <1>1, <2>1 DEF Add, DrainWaitsOnWork
<1>2. ASSUME NEW w \in Workers, Get(w) PROVE processing' # {}
  BY <1>0, <1>2 DEF Get, DrainWaitsOnWork
<1>3. ASSUME NEW w \in Workers, NEW x \in Items, Done(w, x) PROVE processing' # {}
  <2> SUFFICES ASSUME processing' = {} PROVE FALSE
    OBVIOUS
  <2>1. Signal
    BY <1>3 DEF Done
  <2>2. s \in waitSet
    BY <2>1, SignalShrinks
  <2>3. waitSet = {s}
    BY <2>2, StopperWaitsAlone
  <2>4. waitSet' = {}
    BY <2>1, <2>3 DEF Signal
  <2>5. QED BY <2>4
<1>4. ASSUME NEW t \in Stoppers, StopperNext(t) PROVE processing' # {}
  BY <1>4 DEF StopperNext, SetDrainFalse, SetDrainTrue, shutdown, Broadcast,
     isProcessing, shouldDrain, waitForProcessing, DrainWaitsOnWork
<1>5. CASE updateUnfinishedWorkLoop
  BY <1>5 DEF updateUnfinishedWorkLoop, DrainWaitsOnWork
<1>6. CASE UNCHANGED vars
  BY <1>6 DEF vars, DrainWaitsOnWork
<1>7. QED BY <1>1, <1>2, <1>3, <1>4, <1>5, <1>6 DEF Next, WorkerNext

(***************************************************************************)
(* With one goroutine calling ShutDown or ShutDownWithDrain, for every    *)
(* number of workers, items and levels and every priority function,       *)
(* ShutDownWithDrain sleeps in waitForProcessing only while some item is  *)
(* still processing: Done's Signal on the last item always wakes it.      *)
(***************************************************************************)
THEOREM DrainWaitsOnWorkHolds == OneStopper => (Spec => []DrainWaitsOnWork)
<1> SUFFICES ASSUME OneStopper PROVE Spec => []DrainWaitsOnWork
  OBVIOUS
<1>1. Init => IInv /\ WakeupInv /\ DrainWaitsOnWork
  BY IInvInit, WakeupInit DEF Init, DrainWaitsOnWork
<1>2. IInv /\ WakeupInv /\ DrainWaitsOnWork /\ [Next]_vars
        => (IInv /\ WakeupInv /\ DrainWaitsOnWork)'
  BY IInvStep, WakeupStep, DrainStep
<1>3. QED BY <1>1, <1>2, PTL DEF Spec

=============================================================================
