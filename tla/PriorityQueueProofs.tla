------------------------- MODULE PriorityQueueProofs -------------------------
(***************************************************************************)
(* Proofs about PriorityQueue, for every value of its constants.          *)
(***************************************************************************)
EXTENDS PriorityQueue, TLAPS

USE QueueAssumption

(***************************************************************************)
(* clipInt returns a value of the interval it clips to.                   *)
(***************************************************************************)
LEMMA ClipIntInRange ==
  ASSUME NEW v \in Int, NEW lo \in Int, NEW hi \in Int, lo <= hi
  PROVE  clipInt(v, lo, hi) \in lo..hi
BY DEF clipInt

(***************************************************************************)
(* Signal and Broadcast only ever remove threads from the wait set.       *)
(***************************************************************************)
LEMMA SignalShrinks ==
  ASSUME NEW S, waitSet \subseteq S, Signal
  PROVE  waitSet' \subseteq S
BY DEF Signal

(***************************************************************************)
(* Unique(q, K, D): every entry of the buckets q[k], k \in K, lies in D    *)
(* and sits at one position only.  BucketsHoldPending is Unique for       *)
(* D = dirty \ processing.                                                 *)
(***************************************************************************)
Unique(q, K, D) ==
  \A k \in K : \A i \in DOMAIN q[k] :
    /\ q[k][i] \in D
    /\ \A k2 \in K : \A j \in DOMAIN q[k2] : q[k2][j] = q[k][i] => k2 = k /\ j = i

LEMMA UniqueWiden ==
  ASSUME NEW K, NEW D, NEW D2, NEW q, Unique(q, K, D), D \subseteq D2
  PROVE  Unique(q, K, D2)
BY DEF Unique

(* Appending an item that is in no bucket keeps the entries unique.      *)
LEMMA AppendUnique ==
  ASSUME NEW K, NEW S, NEW D, NEW q \in [K -> Seq(S)], NEW p \in K,
         NEW x \in S, x \in D, Unique(q, K, D),
         \A k \in K : \A i \in DOMAIN q[k] : q[k][i] # x
  PROVE  Unique([q EXCEPT ![p] = Append(q[p], x)], K, D)
<1> DEFINE r == [q EXCEPT ![p] = Append(q[p], x)]
<1>1. \A k \in K : \A i \in DOMAIN r[k] :
        \/ i \in DOMAIN q[k] /\ r[k][i] = q[k][i]
        \/ k = p /\ i = Len(q[p]) + 1 /\ r[k][i] = x
  OBVIOUS
<1>2. QED BY <1>1 DEF Unique

(* Popping the head of a bucket keeps the other entries unique, and none *)
(* of them is the popped item.                                             *)
LEMMA TailUnique ==
  ASSUME NEW K, NEW S, NEW D, NEW q \in [K -> Seq(S)], NEW p \in K,
         q[p] # <<>>, Unique(q, K, D)
  PROVE  Unique([q EXCEPT ![p] = Tail(q[p])], K, D \ {Head(q[p])})
<1> DEFINE r == [q EXCEPT ![p] = Tail(q[p])]
<1>1. \A k \in K : \A i \in DOMAIN r[k] :
        \/ k # p /\ i \in DOMAIN q[k] /\ r[k][i] = q[k][i]
        \/ k = p /\ i + 1 \in DOMAIN q[p] /\ i + 1 # 1 /\ r[k][i] = q[p][i + 1]
  OBVIOUS
<1>2. 1 \in DOMAIN q[p] /\ Head(q[p]) = q[p][1]
  OBVIOUS
<1>3. QED BY <1>1, <1>2 DEF Unique

(***************************************************************************)
(* Type correctness: every reachable state satisfies TypeOK.              *)
(***************************************************************************)
LEMMA TypeOKInit == Init => TypeOK
<1> SUFFICES ASSUME Init PROVE TypeOK
  OBVIOUS
<1>1. priorityQueue \in [Keys -> Seq(Items)]
  BY DEF Init
<1>2. pc \in [Threads -> StopperPCs \cup {"get"}]
  BY DEF Init, StopperPCs
<1>3. ticker \in {"running", "stopped", "absent"}
  BY DEF Init
<1>4. QED BY <1>1, <1>2, <1>3 DEF Init, TypeOK

LEMMA TypeOKStep == TypeOK /\ [Next]_vars => TypeOK'
<1> SUFFICES ASSUME TypeOK, [Next]_vars PROVE TypeOK'
  OBVIOUS
<1>1. ASSUME NEW w \in Workers, NEW x \in Items, Add(w, x) PROVE TypeOK'
  <2>1. \A v \in PrioValues : clipInt(v, MinPriority, MaxPriority) \in Keys
    BY ClipIntInRange DEF MinPriority, Keys, Levels
  <2>2. waitSet' \subseteq Threads
    BY <1>1, SignalShrinks DEF Add, TypeOK
  <2>3. priorityQueue' \in [Keys -> Seq(Items)]
    <3>1. CASE x \in processing
      BY <1>1, <3>1 DEF Add, TypeOK
    <3>2. CASE x \notin processing
      <4>1. PICK v \in PrioValues :
              priorityQueue' =
                [priorityQueue EXCEPT ![clipInt(v, MinPriority, MaxPriority)]
                                        = Append(@, x)]
        BY <1>1, <3>2 DEF Add
      <4>2. clipInt(v, MinPriority, MaxPriority) \in Keys
        BY <2>1
      <4>3. QED BY <4>1, <4>2 DEF TypeOK
    <3>3. QED BY <3>1, <3>2
  <2>4. QED BY <1>1, <2>2, <2>3 DEF Add, TypeOK
<1>2. ASSUME NEW w \in Workers, Get(w) PROVE TypeOK'
  <2>1. Levels \subseteq Keys BY DEF Keys
  <2>2. w \in Threads BY DEF Threads
  <2>3. CASE lenNoLockIsZero /\ ~shuttingDown
    BY <1>2, <2>2, <2>3 DEF Get, TypeOK, StopperPCs
  <2>4. CASE lenNoLockIsZero /\ shuttingDown
    BY <1>2, <2>2, <2>4 DEF Get, TypeOK, StopperPCs
  <2>5. CASE ~lenNoLockIsZero
    <3>1. PICK p \in Levels :
               /\ isCurrentPriority(p)
               /\ LET x == Head(priorityQueue[p])
                  IN  /\ priorityQueue' =
                           [priorityQueue EXCEPT ![p] = popHead(@)]
                      /\ processing' = processing \cup {x}
                      /\ dirty' = dirty \ {x}
                      /\ held' = [held EXCEPT ![w] = @ \cup {x}]
      BY <1>2, <2>5 DEF Get
    <3>2. priorityQueue[p] \in Seq(Items) /\ priorityQueue[p] # <<>>
      BY <2>1, <3>1 DEF TypeOK, isCurrentPriority
    <3>3. Head(priorityQueue[p]) \in Items /\ popHead(priorityQueue[p]) \in Seq(Items)
      BY <3>2 DEF popHead
    <3>4. QED BY <1>2, <2>2, <2>5, <3>1, <3>3 DEF Get, TypeOK, StopperPCs
  <2>6. QED BY <1>2, <2>3, <2>4, <2>5 DEF Get
<1>3. ASSUME NEW w \in Workers, NEW x \in Items, Done(w, x) PROVE TypeOK'
  <2>1. PrioValues \subseteq Keys BY DEF Keys
  <2>2. waitSet' \subseteq Threads
    BY <1>3, SignalShrinks DEF Done, TypeOK
  <2>3. priorityQueue' \in [Keys -> Seq(Items)]
    <3>1. CASE x \in dirty
      BY <1>3, <2>1, <3>1 DEF Done, TypeOK
    <3>2. CASE x \notin dirty
      BY <1>3, <3>2 DEF Done, TypeOK
    <3>3. QED BY <3>1, <3>2
  <2>4. held' \in [Workers -> SUBSET Items]
    BY <1>3 DEF Done, TypeOK
  <2>5. QED BY <1>3, <2>2, <2>3, <2>4 DEF Done, TypeOK
<1>4. ASSUME NEW s \in Stoppers, StopperNext(s) PROVE TypeOK'
  <2>1. s \in Threads BY DEF Threads
  <2>2. QED BY <1>4, <2>1 DEF StopperNext, SetDrainFalse, SetDrainTrue,
             shutdown, Broadcast, isProcessing, shouldDrain,
             waitForProcessing, TypeOK, StopperPCs
<1>5. CASE updateUnfinishedWorkLoop
  BY <1>5 DEF updateUnfinishedWorkLoop, TypeOK
<1>6. CASE UNCHANGED vars
  BY <1>6 DEF vars, TypeOK
<1>7. QED BY <1>1, <1>2, <1>3, <1>4, <1>5, <1>6 DEF Next, WorkerNext

THEOREM TypeCorrect == Spec => []TypeOK
BY TypeOKInit, TypeOKStep, PTL DEF Spec

(***************************************************************************)
(* The inductive invariant behind BucketsHoldPending and                  *)
(* ExclusiveProcessing.  Neither holds inductively alone: Get needs the   *)
(* popped head to be outside processing (from BucketsHoldPending) to keep *)
(* the workers' holdings disjoint, and Done needs the finished item to be *)
(* in no bucket (it is processing) to keep the entries unique.            *)
(***************************************************************************)
IInv == TypeOK /\ BucketsHoldPending /\ ExclusiveProcessing

LEMMA BucketsUnique == BucketsHoldPending <=> Unique(priorityQueue, Keys, dirty \ processing)
BY DEF BucketsHoldPending, Unique

LEMMA BucketsUniquePrimed ==
  BucketsHoldPending' <=> Unique(priorityQueue', Keys, dirty' \ processing')
BY DEF BucketsHoldPending, Unique

LEMMA IInvInit == Init => IInv
<1> SUFFICES ASSUME Init PROVE IInv
  OBVIOUS
<1>1. BucketsHoldPending BY DEF Init, BucketsHoldPending
<1>2. ExclusiveProcessing BY DEF Init, ExclusiveProcessing
<1>3. QED BY <1>1, <1>2, TypeOKInit DEF IInv

LEMMA IInvStep == IInv /\ [Next]_vars => IInv'
<1> SUFFICES ASSUME IInv, [Next]_vars PROVE IInv'
  OBVIOUS
<1> USE DEF IInv
<1>0. TypeOK' BY TypeOKStep
<1>1. ASSUME NEW w \in Workers, NEW x \in Items, Add(w, x) PROVE IInv'
  <2>1. \A k \in Keys : \A i \in DOMAIN priorityQueue[k] : priorityQueue[k][i] # x
    BY <1>1 DEF Add, BucketsHoldPending
  <2>2. Unique(priorityQueue, Keys, dirty' \ processing')
    BY <1>1, BucketsUnique, UniqueWiden DEF Add
  <2>3. CASE x \in processing
    BY <1>0, <1>1, <2>2, <2>3, BucketsUnique, BucketsUniquePrimed DEF Add, ExclusiveProcessing
  <2>4. CASE x \notin processing
    <3>1. PICK v \in PrioValues :
            priorityQueue' =
              [priorityQueue EXCEPT ![clipInt(v, MinPriority, MaxPriority)]
                                      = Append(@, x)]
      BY <1>1, <2>4 DEF Add
    <3>2. clipInt(v, MinPriority, MaxPriority) \in Keys
      BY ClipIntInRange DEF MinPriority, Keys, Levels
    <3>3. x \in dirty' \ processing'
      BY <1>1, <2>4 DEF Add
    <3>4. BucketsHoldPending'
      BY <2>1, <2>2, <3>1, <3>2, <3>3, AppendUnique, BucketsUnique, BucketsUniquePrimed DEF TypeOK
    <3>5. QED BY <1>0, <1>1, <3>4 DEF Add, ExclusiveProcessing
  <2>5. QED BY <2>3, <2>4
<1>2. ASSUME NEW w \in Workers, Get(w) PROVE IInv'
  <2>1. CASE lenNoLockIsZero
    BY <1>0, <1>2, <2>1 DEF Get, BucketsHoldPending, ExclusiveProcessing
  <2>2. CASE ~lenNoLockIsZero
    <3>1. PICK p \in Levels :
               /\ isCurrentPriority(p)
               /\ LET x == Head(priorityQueue[p])
                  IN  /\ priorityQueue' =
                           [priorityQueue EXCEPT ![p] = popHead(@)]
                      /\ processing' = processing \cup {x}
                      /\ dirty' = dirty \ {x}
                      /\ held' = [held EXCEPT ![w] = @ \cup {x}]
      BY <1>2, <2>2 DEF Get
    <3> DEFINE x == Head(priorityQueue[p])
    <3>2. p \in Keys /\ priorityQueue[p] # <<>>
      BY <3>1 DEF Keys, isCurrentPriority
    <3>3. x \in dirty \ processing
      BY <3>2 DEF BucketsHoldPending, TypeOK
    <3>4. BucketsHoldPending'
      <4>1. Unique(priorityQueue', Keys, (dirty \ processing) \ {x})
        BY <3>1, <3>2, TailUnique, BucketsUnique, BucketsUniquePrimed DEF popHead, TypeOK
      <4>2. (dirty \ processing) \ {x} = dirty' \ processing'
        BY <3>1
      <4>3. QED BY <4>1, <4>2, BucketsUniquePrimed
    <3>5. ExclusiveProcessing'
      BY <3>1, <3>3 DEF ExclusiveProcessing, TypeOK
    <3>6. QED BY <1>0, <3>4, <3>5
  <2>3. QED BY <2>1, <2>2
<1>3. ASSUME NEW w \in Workers, NEW x \in Items, Done(w, x) PROVE IInv'
  <2>1. x \in processing
    BY <1>3 DEF Done, ExclusiveProcessing
  <2>2. \A k \in Keys : \A i \in DOMAIN priorityQueue[k] : priorityQueue[k][i] # x
    BY <2>1 DEF BucketsHoldPending
  <2>3. ExclusiveProcessing'
    BY <1>3 DEF Done, ExclusiveProcessing, TypeOK
  <2>4. CASE x \in dirty
    <3>1. PICK p \in PrioValues :
            priorityQueue' = [priorityQueue EXCEPT ![p] = Append(@, x)]
      BY <1>3, <2>4 DEF Done
    <3>2. p \in Keys BY DEF Keys
    <3>3. Unique(priorityQueue, Keys, dirty' \ processing')
      BY <1>3, BucketsUnique, UniqueWiden DEF Done
    <3>4. x \in dirty' \ processing'
      BY <1>3, <2>4 DEF Done
    <3>5. BucketsHoldPending'
      BY <2>2, <3>1, <3>2, <3>3, <3>4, AppendUnique, BucketsUnique, BucketsUniquePrimed DEF TypeOK
    <3>6. QED BY <1>0, <2>3, <3>5
  <2>5. CASE x \notin dirty
    <3>1. BucketsHoldPending'
      BY <1>3, <2>5, BucketsUnique, BucketsUniquePrimed, UniqueWiden DEF Done
    <3>2. QED BY <1>0, <2>3, <3>1
  <2>6. QED BY <2>4, <2>5
<1>4. ASSUME NEW s \in Stoppers, StopperNext(s) PROVE IInv'
  BY <1>0, <1>4 DEF StopperNext, SetDrainFalse, SetDrainTrue, shutdown,
     isProcessing, shouldDrain, waitForProcessing, BucketsHoldPending,
     ExclusiveProcessing
<1>5. CASE updateUnfinishedWorkLoop
  BY <1>0, <1>5 DEF updateUnfinishedWorkLoop, BucketsHoldPending,
     ExclusiveProcessing
<1>6. CASE UNCHANGED vars
  BY <1>0, <1>6 DEF vars, BucketsHoldPending, ExclusiveProcessing
<1>7. QED BY <1>1, <1>2, <1>3, <1>4, <1>5, <1>6 DEF Next, WorkerNext

(***************************************************************************)
(* Queued entries are dirty, not processing and unique (the invariant the *)
(* comment on priorityQueue states), for every number of workers, items   *)
(* and priority levels.                                                   *)
(***************************************************************************)
THEOREM BucketsHoldPendingHolds == Spec => []BucketsHoldPending
<1>1. IInv => BucketsHoldPending BY DEF IInv
<1>2. QED BY <1>1, IInvInit, IInvStep, PTL DEF Spec

(***************************************************************************)
(* No item is processed by two workers at once, and processing is exactly *)
(* what the workers hold between Get and Done.                            *)
(***************************************************************************)
THEOREM ExclusiveProcessingHolds == Spec => []ExclusiveProcessing
<1>1. IInv => ExclusiveProcessing BY DEF IInv
<1>2. QED BY <1>1, IInvInit, IInvStep, PTL DEF Spec


(***************************************************************************)
(* One step never adds work after ShutDown: Add is disabled, Get moves a  *)
(* queued item, which BucketsHoldPending says is dirty, to processing,    *)
(* and Done only removes an item from processing.                         *)
(***************************************************************************)
LEMMA NoNewWorkStep ==
  IInv /\ [Next]_vars =>
    (shuttingDown => dirty' \cup processing' \subseteq dirty \cup processing)
<1> SUFFICES ASSUME IInv, [Next]_vars, shuttingDown
             PROVE  dirty' \cup processing' \subseteq dirty \cup processing
  OBVIOUS
<1>1. ASSUME NEW w \in Workers, NEW x \in Items, Add(w, x) PROVE FALSE
  BY <1>1 DEF Add
<1>2. ASSUME NEW w \in Workers, Get(w)
      PROVE  dirty' \cup processing' \subseteq dirty \cup processing
  <2>1. CASE lenNoLockIsZero
    BY <1>2, <2>1 DEF Get
  <2>2. CASE ~lenNoLockIsZero
    <3>1. PICK p \in Levels :
               /\ isCurrentPriority(p)
               /\ processing' = processing \cup {Head(priorityQueue[p])}
               /\ dirty' = dirty \ {Head(priorityQueue[p])}
      BY <1>2, <2>2 DEF Get
    <3>2. p \in Keys /\ priorityQueue[p] # <<>>
      BY <3>1 DEF Keys, isCurrentPriority
    <3>3. Head(priorityQueue[p]) \in dirty
      BY <3>2 DEF IInv, BucketsHoldPending, TypeOK
    <3>4. QED BY <3>1, <3>3
  <2>3. QED BY <2>1, <2>2
<1>3. ASSUME NEW w \in Workers, NEW x \in Items, Done(w, x)
      PROVE  dirty' \cup processing' \subseteq dirty \cup processing
  BY <1>3 DEF Done
<1>4. ASSUME NEW s \in Stoppers, StopperNext(s)
      PROVE  dirty' \cup processing' \subseteq dirty \cup processing
  BY <1>4 DEF StopperNext, SetDrainFalse, SetDrainTrue, shutdown,
     isProcessing, shouldDrain, waitForProcessing
<1>5. QED BY <1>1, <1>2, <1>3, <1>4 DEF Next, WorkerNext, updateUnfinishedWorkLoop, vars

(***************************************************************************)
(* After ShutDown the items owed (dirty or processing) never grow, for    *)
(* every number of workers, stoppers, items and every priority function:  *)
(* Add's early return, and Get serving only dirty items, make the queue   *)
(* wind down.                                                              *)
(***************************************************************************)
THEOREM NoNewWorkAfterShutdownHolds == Spec => NoNewWorkAfterShutdown
<1>1. Spec => []IInv BY IInvInit, IInvStep, PTL DEF Spec
<1>2. QED BY <1>1, NoNewWorkStep, PTL DEF Spec, NoNewWorkAfterShutdown

=============================================================================
