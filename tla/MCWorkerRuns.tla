---------------------------- MODULE MCWorkerRuns ----------------------------
(* A worker's account and a shared one, of two units each.                  *)
EXTENDS WorkerRuns, TLC

MCAllocated == [a \in Accounts |-> 2]
MCMonthly   == [a \in Accounts |-> 0]
MCPerTask   == [a \in Accounts |-> 2]
MCHardLimit == [a \in Accounts |-> 0]
MCSymmetry  == Permutations(Sessions) \cup Permutations(Keys)
                 \cup Permutations(RunKeys) \cup Permutations(RunIds)
                 \cup Permutations(ReservationIds)
=============================================================================
