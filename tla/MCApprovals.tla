----------------------------- MODULE MCApprovals -----------------------------
(* One run of a definition that asks for approval, one step that asks too,  *)
(* one task, and two operator sessions. As in the definitions of seed.ts,    *)
(* some states are on no path from the start: nothing leads to "rejected",   *)
(* which a decision may ask for, and "revision_requested" is no state of it. *)
EXTENDS Approvals, TLC

CONSTANTS ask, r1, t1

MCOwnerOf     == [e \in Executors |-> "workflow-executor:ops"]
MCOwners      == {"workflow-executor:ops"}
MCRunOf       == [st \in Steps |-> r1]
MCStates      == {"draft", "approval", "approved", "closed", "rejected"}
MCTransitions == {<<"draft", "approval">>, <<"draft", "closed">>,
                  <<"approval", "approved">>, <<"approval", "draft">>,
                  <<"rejected", "draft">>}
MCFromState   == [st \in Steps |-> NoState]
MCToState     == [st \in Steps |-> "approval"]
MCAsking      == {"approval"}
MCTaskOf      == [st \in ApprovalSteps |-> t1]
MCSymmetry    == Permutations(Sessions) \cup Permutations(Keys)
                   \cup Permutations(ApprovalIds)
=============================================================================
