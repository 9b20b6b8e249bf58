-------------------------- MODULE MCAdapterLedger ---------------------------
(* Intents whose request claims a send, or not, and whose data names the     *)
(* workflow run, or not.                                                     *)
EXTENDS AdapterLedger

MCPayloads ==
  {[k \in Kinds |-> [flagged |-> f, tracked |-> TRUE]] : f \in BOOLEAN}
    \cup {[k \in Kinds |-> [flagged |-> FALSE, tracked |-> k = "run"]]}
=============================================================================
