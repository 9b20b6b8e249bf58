--------------------------- MODULE MCWorkflowSteps ---------------------------
(* Two executors that lease under the same default name, and one run with   *)
(* three steps: a worker command to "review", a step that expects "review", *)
(* and a rival that only fits "draft".                                      *)
EXTENDS WorkflowSteps, TLC

CONSTANTS s1, s2, s3, r1

MCOwnerOf     == [e \in Executors |-> "workflow-executor:ops"]
MCOwners      == {"workflow-executor:ops"}
MCRunOf       == [st \in Steps |-> r1]
MCStates      == {"draft", "review", "closed"}
MCTransitions == {<<"draft", "review">>, <<"review", "closed">>,
                  <<"draft", "closed">>}
MCFromState   == [st \in Steps |->
                   CASE st = s1 -> NoState [] st = s2 -> "review"
                     [] OTHER -> "draft"]
MCToState     == [st \in Steps |-> IF st = s1 THEN "review" ELSE "closed"]
MCCommands    == {s1}
=============================================================================
