---------------------------- MODULE MCAiGateway -----------------------------
(* Two calls of one key beside a direct client.  The account takes 67 % of    *)
(* the smaller of four allocated and three monthly units, that is two: holds  *)
(* of one unit each, or one hold of two, fill it.                             *)
EXTENDS AiGateway, TLC

CONSTANTS q1, rq1, cq1

MCReserveKey == [q \in AiKeys |-> rq1]
MCChargeKey  == [q \in AiKeys |-> cq1]
MCAiAccount  == [q \in AiKeys |-> CHOOSE a \in Accounts : TRUE]
MCAiUnits    == [q \in AiKeys |-> 1]
MCAllocated  == [a \in Accounts |-> 4]
MCMonthly    == [a \in Accounts |-> 3]
MCPerTask    == [a \in Accounts |-> 2]
MCHardLimit  == [a \in Accounts |-> 67]
MCSymmetry   == Permutations(Callers) \cup Permutations(ReservationIds)
                  \cup Permutations(InferenceIds)
=============================================================================
