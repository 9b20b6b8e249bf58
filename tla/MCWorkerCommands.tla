-------------------------- MODULE MCWorkerCommands --------------------------
(* A worker's account of two units.                                         *)
EXTENDS WorkerCommands, TLC

MCAllocated == [a \in Accounts |-> 2]
MCMonthly   == [a \in Accounts |-> 0]
MCPerTask   == [a \in Accounts |-> 2]
MCHardLimit == [a \in Accounts |-> 0]
=============================================================================
