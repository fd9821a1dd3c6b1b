--------------------------- MODULE MCPriorityQueue ---------------------------
(* Small instances of PriorityQueue for TLC.                              *)
EXTENDS PriorityQueue

MCWorkers == {"w1", "w2"}
MCOneStopper == {"s1"}
MCTwoStoppers == {"s1", "s2"}
MCItems == {"a", "b", "c"}
MCFewItems == {"a", "b"}

\* A priority function that stays within 0..maxPriority.
MCInRangePrio == {0, 1}
\* A priority function that returns maxPriority + 1 for some items.
MCOutOfRangePrio == {0, 2}
\* A priority function that may return any of 0..maxPriority + 1.
MCAnyPrio == {0, 1, 2}
=============================================================================
