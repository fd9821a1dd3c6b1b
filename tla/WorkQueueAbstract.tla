--------------------------- MODULE WorkQueueAbstract ---------------------------
(***************************************************************************)
(* What the priority work queue promises, per item: the state machine of  *)
(*                                                                         *)
(*   absent --Add--> queued --Get--> processing --Add--> processing-dirty  *)
(*   processing --Done--> absent, processing-dirty --Done--> queued        *)
(*                                                                         *)
(* with strict priority (Get takes a queued item of the highest level),    *)
(* each processing item held by exactly the consumer that got it, and Add  *)
(* dropped once shutting down.  FIFO order within a level, the blocking of *)
(* Get and the drain are not part of this specification.                   *)
(***************************************************************************)
EXTENDS Integers

CONSTANTS Items, Workers, Prios

VARIABLES
  st,       \* item -> "absent", "queued", "processing" or "processingDirty"
  lvl,      \* the level of each queued item (a function on the queued items)
  holding,  \* consumer -> the items it got and has not Done
  down      \* shutting down

avars == <<st, lvl, holding, down>>

Queued == {x \in Items : st[x] = "queued"}

\* lvl extended with, or restricted without, one item.
withLevel(x, p) == [y \in DOMAIN lvl \cup {x} |-> IF y = x THEN p ELSE lvl[y]]
withoutLevel(x) == [y \in DOMAIN lvl \ {x} |-> lvl[y]]

Init ==
  /\ st = [x \in Items |-> "absent"]
  /\ lvl = [x \in {} |-> 0]
  /\ holding = [w \in Workers |-> {}]
  /\ down = FALSE

\* Add: an absent item is queued at some level; a processing one becomes
\* dirty; anything else, or any Add after shutdown, changes nothing.
Add(x) ==
  /\ ~down
  /\ \/ /\ st[x] = "absent"
        /\ \E p \in Prios : lvl' = withLevel(x, p)
        /\ st' = [st EXCEPT ![x] = "queued"]
     \/ /\ st[x] = "processing"
        /\ st' = [st EXCEPT ![x] = "processingDirty"]
        /\ UNCHANGED lvl
  /\ UNCHANGED <<holding, down>>

\* Get: a consumer takes a queued item of the highest level.
Get(w, x) ==
  /\ x \in Queued
  /\ \A y \in Queued : lvl[y] <= lvl[x]
  /\ st' = [st EXCEPT ![x] = "processing"]
  /\ lvl' = withoutLevel(x)
  /\ holding' = [holding EXCEPT ![w] = @ \cup {x}]
  /\ UNCHANGED down

\* Done: the consumer gives the item back; a dirty one is queued again, at
\* the level its priority has now.
Done(w, x) ==
  /\ x \in holding[w]
  /\ holding' = [holding EXCEPT ![w] = @ \ {x}]
  /\ \/ /\ st[x] = "processing"
        /\ st' = [st EXCEPT ![x] = "absent"]
        /\ UNCHANGED lvl
     \/ /\ st[x] = "processingDirty"
        /\ \E p \in Prios : lvl' = withLevel(x, p)
        /\ st' = [st EXCEPT ![x] = "queued"]
  /\ UNCHANGED down

ShutDown ==
  /\ down' = TRUE
  /\ UNCHANGED <<st, lvl, holding>>

Next ==
  \/ \E x \in Items : Add(x)
  \/ \E w \in Workers, x \in Items : Get(w, x) \/ Done(w, x)
  \/ ShutDown

Spec == Init /\ [][Next]_avars
=============================================================================
