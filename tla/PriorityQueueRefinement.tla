------------------------ MODULE PriorityQueueRefinement ------------------------
(***************************************************************************)
(* The priority queue implements WorkQueueAbstract when every priority the *)
(* priority function returns is a level the queue serves: proved for every *)
(* number of workers, stoppers, items and levels.                         *)
(***************************************************************************)
EXTENDS PriorityQueueProofs

USE QueueAssumption

(***************************************************************************)
(* Facts about the entries of a bucket.                                   *)
(***************************************************************************)
LEMMA AppendEntries ==
  ASSUME NEW S, NEW s \in Seq(S), NEW x
  PROVE  Entries(Append(s, x)) = Entries(s) \cup {x}
<1>1. DOMAIN Append(s, x) = 1..(Len(s) + 1) /\ Append(s, x)[Len(s) + 1] = x
  OBVIOUS
<1>2. \A i \in 1..Len(s) : Append(s, x)[i] = s[i]
  OBVIOUS
<1>3. DOMAIN s = 1..Len(s)
  OBVIOUS
<1>4. QED BY <1>1, <1>2, <1>3 DEF Entries

LEMMA TailEntries ==
  ASSUME NEW S, NEW s \in Seq(S), s # <<>>, NEW y, y \in Entries(s), y # Head(s)
  PROVE  y \in Entries(Tail(s))
<1>1. PICK i \in DOMAIN s : s[i] = y
  BY DEF Entries
<1>2. i # 1 /\ i - 1 \in DOMAIN Tail(s) /\ Tail(s)[i - 1] = y
  BY <1>1
<1>3. QED BY <1>2 DEF Entries

(* When entries are unique, the bucket CHOOSE finds is the one that holds *)
(* the item.                                                               *)
LEMMA ChooseBucket ==
  ASSUME NEW q, NEW K, NEW D, Unique(q, K, D), NEW k \in K, NEW x,
         x \in Entries(q[k])
  PROVE  (CHOOSE j \in K : x \in Entries(q[j])) = k
<1>1. \A j \in K : x \in Entries(q[j]) => j = k
  BY DEF Unique, Entries
<1>2. QED BY <1>1

(***************************************************************************)
(* Every dirty item that is not processing sits in some bucket.  It holds *)
(* for any priority function: Add and Done append the item they mark      *)
(* pending, and Get removes from dirty the head it pops.                  *)
(***************************************************************************)
DirtyQueued ==
  \A x \in dirty \ processing : \E k \in Keys : x \in Entries(priorityQueue[k])

RInv == IInv /\ DirtyQueued

LEMMA RInvInit == Init => RInv
BY IInvInit DEF Init, RInv, DirtyQueued

(* Appending x to one bucket keeps every entry, and adds x.               *)
LEMMA AppendKeeps ==
  ASSUME TypeOK, NEW p \in Keys, NEW x \in Items,
         priorityQueue' = [priorityQueue EXCEPT ![p] = Append(@, x)]
  PROVE  /\ x \in Entries(priorityQueue'[p])
         /\ \A y : \A k \in Keys : y \in Entries(priorityQueue[k])
                                 => y \in Entries(priorityQueue'[k])
<1>1. \A k \in Keys : priorityQueue[k] \in Seq(Items)
  BY DEF TypeOK
<1>2. \A k \in Keys : priorityQueue'[k] = IF k = p THEN Append(priorityQueue[p], x)
                                                   ELSE priorityQueue[k]
  BY DEF TypeOK
<1>3. Entries(priorityQueue'[p]) = Entries(priorityQueue[p]) \cup {x}
  BY <1>1, <1>2, AppendEntries
<1>4. ASSUME NEW y, NEW k \in Keys, y \in Entries(priorityQueue[k])
      PROVE  y \in Entries(priorityQueue'[k])
  <2>1. CASE k = p BY <1>3, <1>4, <2>1
  <2>2. CASE k # p BY <1>2, <1>4, <2>2
  <2>3. QED BY <2>1, <2>2
<1>5. QED BY <1>3, <1>4

LEMMA DirtyQueuedStep == RInv /\ [Next]_vars => DirtyQueued'
<1> SUFFICES ASSUME RInv, [Next]_vars PROVE DirtyQueued'
  OBVIOUS
<1> USE DEF RInv, IInv
<1>1. ASSUME NEW w \in Workers, NEW x \in Items, Add(w, x) PROVE DirtyQueued'
  <2>1. CASE x \in processing
    BY <1>1, <2>1 DEF Add, DirtyQueued
  <2>2. CASE x \notin processing
    <3>1. PICK v \in PrioValues :
            priorityQueue' =
              [priorityQueue EXCEPT ![clipInt(v, MinPriority, MaxPriority)]
                                      = Append(@, x)]
      BY <1>1, <2>2 DEF Add
    <3>2. clipInt(v, MinPriority, MaxPriority) \in Keys
      BY ClipIntInRange DEF MinPriority, Keys, Levels
    <3>3. dirty' \ processing' = (dirty \ processing) \cup {x}
      BY <1>1, <2>2 DEF Add
    <3>4. QED BY <3>1, <3>2, <3>3, AppendKeeps DEF DirtyQueued
  <2>3. QED BY <2>1, <2>2
<1>2. ASSUME NEW w \in Workers, Get(w) PROVE DirtyQueued'
  <2>1. CASE lenNoLockIsZero
    BY <1>2, <2>1 DEF Get, DirtyQueued
  <2>2. CASE ~lenNoLockIsZero
    <3>1. PICK p \in Levels :
               /\ isCurrentPriority(p)
               /\ LET x == Head(priorityQueue[p])
                  IN  /\ priorityQueue' =
                           [priorityQueue EXCEPT ![p] = popHead(@)]
                      /\ processing' = processing \cup {x}
                      /\ dirty' = dirty \ {x}
                      /\ held' = [held EXCEPT ![w] = @ \cup {x}]
      BY <1>2, <2>2 DEF Get
    <3> DEFINE x == Head(priorityQueue[p])
    <3>2. p \in Keys /\ priorityQueue[p] \in Seq(Items) /\ priorityQueue[p] # <<>>
      BY <3>1 DEF Keys, isCurrentPriority, TypeOK
    <3>3. SUFFICES ASSUME NEW y \in dirty' \ processing'
                   PROVE  \E k \in Keys : y \in Entries(priorityQueue'[k])
      BY DEF DirtyQueued
    <3>4. y \in dirty \ processing /\ y # x
      BY <3>1
    <3>5. PICK k \in Keys : y \in Entries(priorityQueue[k])
      BY <3>4 DEF DirtyQueued
    <3>6. CASE k = p
      <4>1. y \in Entries(Tail(priorityQueue[p]))
        BY <3>2, <3>4, <3>5, <3>6, TailEntries
      <4>2. priorityQueue'[p] = Tail(priorityQueue[p])
        BY <3>1, <3>2 DEF popHead, TypeOK
      <4>3. QED BY <3>2, <4>1, <4>2
    <3>7. CASE k # p
      <4>1. priorityQueue'[k] = priorityQueue[k]
        BY <3>1, <3>7 DEF TypeOK
      <4>2. QED BY <3>5, <4>1
    <3>8. QED BY <3>6, <3>7
  <2>3. QED BY <2>1, <2>2
<1>3. ASSUME NEW w \in Workers, NEW x \in Items, Done(w, x) PROVE DirtyQueued'
  <2>1. CASE x \in dirty
    <3>1. PICK p \in PrioValues :
            priorityQueue' = [priorityQueue EXCEPT ![p] = Append(@, x)]
      BY <1>3, <2>1 DEF Done
    <3>2. p \in Keys BY DEF Keys
    <3>3. dirty' \ processing' = (dirty \ processing) \cup {x}
      BY <1>3, <2>1 DEF Done
    <3>4. QED BY <3>1, <3>2, <3>3, AppendKeeps DEF DirtyQueued
  <2>2. CASE x \notin dirty
    <3>1. dirty' \ processing' = dirty \ processing
      BY <1>3, <2>2 DEF Done
    <3>2. priorityQueue' = priorityQueue
      BY <1>3, <2>2 DEF Done
    <3>3. QED BY <3>1, <3>2 DEF DirtyQueued
  <2>3. QED BY <2>1, <2>2
<1>4. ASSUME NEW s \in Stoppers, StopperNext(s) PROVE DirtyQueued'
  BY <1>4 DEF StopperNext, SetDrainFalse, SetDrainTrue, shutdown,
     isProcessing, shouldDrain, waitForProcessing, DirtyQueued
<1>5. CASE updateUnfinishedWorkLoop
  BY <1>5 DEF updateUnfinishedWorkLoop, DirtyQueued
<1>6. CASE UNCHANGED vars
  BY <1>6 DEF vars, DirtyQueued
<1>7. QED BY <1>1, <1>2, <1>3, <1>4, <1>5, <1>6 DEF Next, WorkerNext

LEMMA RInvStep == RInv /\ [Next]_vars => RInv'
BY IInvStep, DirtyQueuedStep DEF RInv

(***************************************************************************)
(* The refinement mapping, and what it needs of the buckets.              *)
(***************************************************************************)
absSt == [x \in Items |-> itemState(x)]
absLvl == [x \in dirty \ processing |-> levelOf(x)]

\* Every value the priority function returns is a level the queue serves.
InRange == PrioValues \subseteq Levels

LEMMA LevelOfBucket ==
  ASSUME IInv, NEW x, NEW k \in Keys, x \in Entries(priorityQueue[k])
  PROVE  levelOf(x) = k
BY ChooseBucket, BucketsUnique DEF levelOf, IInv

LEMMA LevelOfBucketPrimed ==
  ASSUME IInv', NEW x, NEW k \in Keys, x \in Entries(priorityQueue'[k])
  PROVE  levelOf(x)' = k
BY ChooseBucket, BucketsUniquePrimed DEF levelOf, IInv

(* An item that keeps its bucket across a step keeps its level.           *)
LEMMA LevelKept ==
  ASSUME RInv, IInv', NEW y \in dirty \ processing,
         \A k \in Keys : y \in Entries(priorityQueue[k])
                           => y \in Entries(priorityQueue'[k])
  PROVE  levelOf(y)' = levelOf(y)
<1>1. PICK k \in Keys : y \in Entries(priorityQueue[k])
  BY DEF RInv, DirtyQueued
<1>2. levelOf(y) = k
  BY <1>1, LevelOfBucket DEF RInv
<1>3. levelOf(y)' = k
  BY <1>1, LevelOfBucketPrimed
<1>4. QED BY <1>2, <1>3

(* Appending x at level p: the level map gains x at p.                    *)
LEMMA LevelsAfterAppend ==
  ASSUME RInv, IInv', NEW p \in Keys, NEW x \in Items,
         priorityQueue' = [priorityQueue EXCEPT ![p] = Append(@, x)],
         dirty' \ processing' = (dirty \ processing) \cup {x}
  PROVE  absLvl' = [y \in DOMAIN absLvl \cup {x} |->
                      IF y = x THEN p ELSE absLvl[y]]
<1>1. TypeOK BY DEF RInv, IInv
<1>2. x \in Entries(priorityQueue'[p])
  BY <1>1, AppendKeeps
<1>3. levelOf(x)' = p
  BY <1>2, LevelOfBucketPrimed
<1>4. ASSUME NEW y \in dirty \ processing, y # x PROVE levelOf(y)' = levelOf(y)
  BY <1>1, AppendKeeps, LevelKept
<1>5. DOMAIN absLvl = dirty \ processing
  BY DEF absLvl
<1>6. QED BY <1>3, <1>4, <1>5 DEF absLvl

(* Popping the head x of a bucket: the level map loses x.                 *)
LEMMA LevelsAfterPop ==
  ASSUME RInv, IInv', NEW p \in Keys, priorityQueue[p] # <<>>,
         priorityQueue' = [priorityQueue EXCEPT ![p] = Tail(@)],
         dirty' \ processing' = (dirty \ processing) \ {Head(priorityQueue[p])}
  PROVE  absLvl' = [y \in DOMAIN absLvl \ {Head(priorityQueue[p])} |-> absLvl[y]]
<1> DEFINE x == Head(priorityQueue[p])
<1>1. priorityQueue[p] \in Seq(Items) BY DEF RInv, IInv, TypeOK
<1>2. ASSUME NEW y \in dirty \ processing, y # x,
             NEW k \in Keys, y \in Entries(priorityQueue[k])
      PROVE  y \in Entries(priorityQueue'[k])
  <2>1. CASE k = p
    BY <1>1, <1>2, <2>1, TailEntries DEF RInv, IInv, TypeOK
  <2>2. CASE k # p
    BY <1>2, <2>2 DEF RInv, IInv, TypeOK
  <2>3. QED BY <2>1, <2>2
<1>3. ASSUME NEW y \in dirty \ processing, y # x PROVE levelOf(y)' = levelOf(y)
  BY <1>2, <1>3, LevelKept
<1>4. QED BY <1>3 DEF absLvl

(***************************************************************************)
(* Each step of the queue is a step of WorkQueueAbstract or a stutter.    *)
(***************************************************************************)
LEMMA AddRefines ==
  ASSUME RInv, RInv', NEW w \in Workers, NEW x \in Items, Add(w, x)
  PROVE  Abs!Add(x)
<1>1. TypeOK /\ IInv' BY DEF RInv, IInv
<1>2. /\ x \notin dirty /\ ~shuttingDown /\ UNCHANGED <<held, shuttingDown>>
      /\ dirty' = dirty \cup {x} /\ processing' = processing
  BY DEF Add
<1>0. \A y \in Items \ {x} : itemState(y)' = itemState(y)
  BY <1>2 DEF itemState
<1>3. CASE x \in processing
  <2>1. absSt[x] = "processing" BY <1>2, <1>3 DEF absSt, itemState
  <2>2. itemState(x)' = "processingDirty"
    <3>1. x \in processing' /\ x \in dirty' BY <1>2, <1>3
    <3>2. QED BY <3>1 DEF itemState
  <2>3. absSt' = [absSt EXCEPT ![x] = "processingDirty"]
    BY <1>0, <2>2 DEF absSt
  <2>4. priorityQueue' = priorityQueue BY <1>3 DEF Add
  <2>5. absLvl' = absLvl
    BY <1>2, <1>3, <2>4 DEF absLvl, levelOf
  <2>6. QED BY <1>2, <2>1, <2>3, <2>5 DEF Abs!Add, absSt, absLvl
<1>4. CASE x \notin processing
  <2>1. PICK v \in PrioValues :
          priorityQueue' =
            [priorityQueue EXCEPT ![clipInt(v, MinPriority, MaxPriority)]
                                    = Append(@, x)]
    BY <1>4 DEF Add
  <2> DEFINE p == clipInt(v, MinPriority, MaxPriority)
  <2>2. p \in Levels /\ p \in Keys
    <3>1. v \in Int /\ MaxPriority \in Int /\ 0 <= MaxPriority
      OBVIOUS
    <3>2. p \in 0..MaxPriority
      BY <3>1 DEF clipInt, MinPriority, p
    <3>3. QED BY <3>2 DEF Keys, Levels, MinPriority
  <2>3. dirty' \ processing' = (dirty \ processing) \cup {x}
    BY <1>2, <1>4
  <2>4. absLvl' = [y \in DOMAIN absLvl \cup {x} |-> IF y = x THEN p ELSE absLvl[y]]
    BY <1>1, <2>1, <2>2, <2>3, LevelsAfterAppend
  <2>5. absSt[x] = "absent" BY <1>2, <1>4 DEF absSt, itemState
  <2>6. itemState(x)' = "queued" BY <1>2, <1>4 DEF itemState
  <2>7. absSt' = [absSt EXCEPT ![x] = "queued"]
    BY <1>0, <2>6 DEF absSt
  <2>8. QED BY <1>2, <2>2, <2>4, <2>5, <2>7 DEF Abs!Add, Abs!withLevel, absSt, absLvl
<1>5. QED BY <1>3, <1>4

(* A step that leaves the buckets, dirty and processing alone leaves the  *)
(* item states and levels alone.                                           *)
LEMMA QueueUnchanged ==
  ASSUME UNCHANGED <<priorityQueue, dirty, processing>>
  PROVE  absSt' = absSt /\ absLvl' = absLvl
BY DEF absSt, absLvl, itemState, levelOf

(* Get takes the head of the current level: a queued item of the highest  *)
(* level among the queued items.                                           *)
LEMMA GetRefines ==
  ASSUME InRange, RInv, RInv', NEW w \in Workers, Get(w), ~lenNoLockIsZero
  PROVE  \E x \in Items : Abs!Get(w, x)
<1>1. TypeOK /\ IInv /\ IInv' BY DEF RInv, IInv
<1>2. PICK p \in Levels :
           /\ isCurrentPriority(p)
           /\ LET x == Head(priorityQueue[p])
              IN  /\ priorityQueue' = [priorityQueue EXCEPT ![p] = popHead(@)]
                  /\ processing' = processing \cup {x}
                  /\ dirty' = dirty \ {x}
                  /\ held' = [held EXCEPT ![w] = @ \cup {x}]
  BY DEF Get
<1>3. p \in Keys /\ priorityQueue[p] \in Seq(Items) /\ priorityQueue[p] # <<>>
  BY <1>1, <1>2 DEF Keys, isCurrentPriority, TypeOK
<1>0. PICK x \in Items : x = Head(priorityQueue[p])
  BY <1>3
<1>4. x \in Items /\ x \in Entries(priorityQueue[p])
  BY <1>0, <1>3 DEF Entries
<1>5. x \in dirty \ processing
  BY <1>0, <1>1, <1>3 DEF IInv, BucketsHoldPending
<1>6. levelOf(x) = p
  BY <1>1, <1>3, <1>4, LevelOfBucket
<1>7. absSt[x] = "queued" /\ absLvl[x] = p
  BY <1>4, <1>5, <1>6 DEF absSt, absLvl, itemState
<1>8. ASSUME NEW y \in Items, absSt[y] = "queued" PROVE absLvl[y] <= absLvl[x]
  <2>1. y \in dirty \ processing
    BY <1>8 DEF absSt, itemState
  <2>2. PICK k \in Keys : y \in Entries(priorityQueue[k])
    BY <2>1 DEF RInv, DirtyQueued
  <2>3. k \in Levels
    BY DEF InRange, Keys
  <2>4. ~(k > p)
    BY <1>2, <2>2, <2>3 DEF isCurrentPriority, Entries
  <2>5. absLvl[y] = k
    BY <1>1, <2>1, <2>2, LevelOfBucket DEF absLvl
  <2>6. QED BY <1>7, <2>3, <2>4, <2>5 DEF Levels, MinPriority
<1>9. processing' = processing \cup {x} /\ dirty' = dirty \ {x}
      /\ held' = [held EXCEPT ![w] = @ \cup {x}]
  BY <1>0, <1>2
<1>10. absSt' = [absSt EXCEPT ![x] = "processing"]
  <2>1. itemState(x)' = "processing" BY <1>9 DEF itemState
  <2>2. \A y \in Items \ {x} : itemState(y)' = itemState(y) BY <1>9 DEF itemState
  <2>3. QED BY <2>1, <2>2 DEF absSt
<1>11. absLvl' = [y \in DOMAIN absLvl \ {x} |-> absLvl[y]]
  <2>1. priorityQueue' = [priorityQueue EXCEPT ![p] = Tail(@)]
    BY <1>2 DEF popHead
  <2>2. dirty' \ processing' = (dirty \ processing) \ {Head(priorityQueue[p])}
    BY <1>0, <1>9
  <2>3. QED BY <1>0, <1>1, <1>3, <2>1, <2>2, LevelsAfterPop
<1>12. UNCHANGED shuttingDown BY DEF Get
<1>13. QED BY <1>4, <1>7, <1>8, <1>9, <1>10, <1>11, <1>12
       DEF Abs!Get, Abs!Queued, Abs!withoutLevel, absSt, absLvl

(* Done gives the item back; a dirty one is queued again at a served      *)
(* level.                                                                   *)
LEMMA DoneRefines ==
  ASSUME InRange, RInv, RInv', NEW w \in Workers, NEW x \in Items, Done(w, x)
  PROVE  Abs!Done(w, x)
<1>1. TypeOK /\ IInv' BY DEF RInv, IInv
<1>2. x \in processing
  BY DEF Done, RInv, IInv, ExclusiveProcessing
<1>3. /\ x \in held[w] /\ held' = [held EXCEPT ![w] = @ \ {x}]
      /\ processing' = processing \ {x} /\ dirty' = dirty
      /\ UNCHANGED shuttingDown
  BY DEF Done
<1>4. \A y \in Items \ {x} : itemState(y)' = itemState(y)
  BY <1>3 DEF itemState
<1>5. CASE x \in dirty
  <2>1. PICK p \in PrioValues :
          priorityQueue' = [priorityQueue EXCEPT ![p] = Append(@, x)]
    BY <1>5 DEF Done
  <2>2. p \in Levels /\ p \in Keys BY DEF InRange, Keys
  <2>3. dirty' \ processing' = (dirty \ processing) \cup {x}
    BY <1>2, <1>3, <1>5
  <2>4. absLvl' = [y \in DOMAIN absLvl \cup {x} |-> IF y = x THEN p ELSE absLvl[y]]
    BY <1>1, <2>1, <2>2, <2>3, LevelsAfterAppend
  <2>5. absSt[x] = "processingDirty" BY <1>2, <1>5 DEF absSt, itemState
  <2>6. itemState(x)' = "queued" BY <1>3, <1>5 DEF itemState
  <2>7. absSt' = [absSt EXCEPT ![x] = "queued"]
    BY <1>4, <2>6 DEF absSt
  <2>8. QED BY <1>3, <2>2, <2>4, <2>5, <2>7 DEF Abs!Done, Abs!withLevel, absSt, absLvl
<1>6. CASE x \notin dirty
  <2>1. priorityQueue' = priorityQueue BY <1>6 DEF Done
  <2>2. dirty' \ processing' = dirty \ processing BY <1>3, <1>6
  <2>3. absLvl' = absLvl BY <2>1, <2>2 DEF absLvl, levelOf
  <2>4. absSt[x] = "processing" BY <1>2, <1>6 DEF absSt, itemState
  <2>5. itemState(x)' = "absent" BY <1>3, <1>6 DEF itemState
  <2>6. absSt' = [absSt EXCEPT ![x] = "absent"]
    BY <1>4, <2>5 DEF absSt
  <2>7. QED BY <1>3, <2>3, <2>4, <2>6 DEF Abs!Done, absSt, absLvl
<1>7. QED BY <1>5, <1>6

LEMMA AbsInit == Init => Abs!Init
<1> SUFFICES ASSUME Init PROVE Abs!Init
  OBVIOUS
<1>1. absSt = [x \in Items |-> "absent"] BY DEF Init, absSt, itemState
<1>2. absLvl = [x \in {} |-> 0] BY DEF Init, absLvl
<1>3. QED BY <1>1, <1>2 DEF Init, Abs!Init, absSt, absLvl

LEMMA AbsStep ==
  ASSUME InRange, RInv, RInv', [Next]_vars
  PROVE  [Abs!Next]_Abs!avars
<1>1. ASSUME NEW w \in Workers, NEW x \in Items, Add(w, x) PROVE Abs!Next
  BY <1>1, AddRefines DEF Abs!Next
<1>2. ASSUME NEW w \in Workers, Get(w) PROVE [Abs!Next]_Abs!avars
  <2>1. CASE ~lenNoLockIsZero
    BY <1>2, <2>1, GetRefines DEF Abs!Next
  <2>2. CASE lenNoLockIsZero
    <3>1. UNCHANGED <<priorityQueue, dirty, processing, held, shuttingDown>>
      BY <1>2, <2>2 DEF Get
    <3>2. QED BY <3>1, QueueUnchanged DEF Abs!avars, absSt, absLvl
  <2>3. QED BY <2>1, <2>2
<1>3. ASSUME NEW w \in Workers, NEW x \in Items, Done(w, x) PROVE Abs!Next
  BY <1>3, DoneRefines DEF Abs!Next
<1>4. ASSUME NEW s \in Stoppers, StopperNext(s) PROVE [Abs!Next]_Abs!avars
  <2>1. UNCHANGED <<priorityQueue, dirty, processing, held>>
    BY <1>4 DEF StopperNext, SetDrainFalse, SetDrainTrue, shutdown,
       isProcessing, shouldDrain, waitForProcessing
  <2>2. absSt' = absSt /\ absLvl' = absLvl BY <2>1, QueueUnchanged
  <2>3. CASE shutdown(s)
    BY <2>1, <2>2, <2>3 DEF shutdown, Abs!Next, Abs!ShutDown, absSt, absLvl
  <2>4. CASE ~shutdown(s)
    <3>1. UNCHANGED shuttingDown
      BY <1>4, <2>4 DEF StopperNext, SetDrainFalse, SetDrainTrue,
         isProcessing, shouldDrain, waitForProcessing
    <3>2. QED BY <2>1, <2>2, <3>1 DEF Abs!avars, absSt, absLvl
  <2>5. QED BY <2>3, <2>4
<1>5. ASSUME updateUnfinishedWorkLoop \/ UNCHANGED vars PROVE UNCHANGED Abs!avars
  <2>1. UNCHANGED <<priorityQueue, dirty, processing, held, shuttingDown>>
    BY <1>5 DEF updateUnfinishedWorkLoop, vars
  <2>2. QED BY <2>1, QueueUnchanged DEF Abs!avars, absSt, absLvl
<1>6. QED BY <1>1, <1>2, <1>3, <1>4, <1>5 DEF Next, WorkerNext

(***************************************************************************)
(* When every priority the function returns is a level the queue serves,  *)
(* the queue implements WorkQueueAbstract: Get always returns a queued    *)
(* item of the highest level, Add and Done move an item along the         *)
(* absent/queued/processing/processing-dirty state machine, and shutdown  *)
(* only stops Add.  The run queue_safety checks the same property.       *)
(***************************************************************************)
THEOREM QueueImplementsAbstract == InRange => (Spec => ImplementsAbstract)
<1> SUFFICES ASSUME InRange PROVE Spec => Abs!Spec
  BY DEF ImplementsAbstract
<1>1. Spec => []RInv
  BY RInvInit, RInvStep, PTL DEF Spec
<1>2. RInv /\ RInv' /\ [Next]_vars => [Abs!Next]_Abs!avars
  BY AbsStep
<1>3. QED BY <1>1, <1>2, AbsInit, PTL DEF Spec, Abs!Spec

(***************************************************************************)
(* Under the same condition no dirty item is lost: each one that is not   *)
(* being processed sits in a bucket that Get scans (Done puts a re-added  *)
(* item at an unclipped priority, so this needs every priority in range). *)
(***************************************************************************)
THEOREM DirtyItemsReachableHolds == InRange => (Spec => []DirtyItemsReachable)
<1> SUFFICES ASSUME InRange PROVE Spec => []DirtyItemsReachable
  OBVIOUS
<1>1. Keys = Levels BY DEF InRange, Keys
<1>2. RInv => DirtyItemsReachable
  BY <1>1 DEF RInv, DirtyQueued, DirtyItemsReachable
<1>3. QED BY <1>2, RInvInit, RInvStep, PTL DEF Spec

=============================================================================
