------------------------- MODULE WorkflowStepsProofs -------------------------
(***************************************************************************)
(* Proofs about WorkflowSteps, for any number of executors, steps, runs,   *)
(* attempts and states, and any definition.                                *)
(***************************************************************************)
EXTENDS WorkflowSteps, TLAPS

\* Why the attempt fences stale executors off: a queued step has no claim,
\* a claim is never ahead of the ledger, and no two claims of a step have the
\* same attempt. A command that was run is recorded as run.
ClaimInv ==
  /\ \A e \in Executors : claim[e] # NoClaim =>
       /\ step[claim[e].step].state # "queued"
       /\ claim[e].attempt <= step[claim[e].step].attempt
       /\ claim[e].phase = "commanded" => claim[e].step \in commanded
  /\ \A e, f \in Executors :
       /\ claim[e] # NoClaim /\ claim[f] # NoClaim
       /\ claim[e].step = claim[f].step
       /\ claim[e].attempt = claim[f].attempt
       => e = f

StepInv == StepTypeOK /\ ClaimInv /\ ExecutedOnce

\* A claim in a phase of its own is a full claim.
LEMMA ClaimKinds ==
  ASSUME StepTypeOK, NEW e \in Executors
  PROVE  /\ claim[e] # NoClaim => claim[e] \in Claims
         /\ claim[e].phase \in {"claimed", "commanded"} => claim[e] # NoClaim
         /\ Holds(e) => claim[e] \in Claims
  BY DEF StepTypeOK, NoClaim, Claims, Holds

\* Steps that only change the waiting or the lease of a row.
LEMMA TimeStep ==
  ASSUME StepInv, NEW st \in Steps,
         LeaseExpires(st) \/ WaitEnds(st)
  PROVE  StepInv'
<1>1. step[st] \in StepRow
  BY DEF StepInv, StepTypeOK
<1>2. step' \in [Steps -> StepRow]
  <2>1. CASE LeaseExpires(st)
    <3>1. step' = [step EXCEPT ![st].lease = "expired"]
      BY <2>1 DEF LeaseExpires
    <3>. QED
      BY <1>1, <3>1 DEF StepInv, StepTypeOK, StepRow
  <2>2. CASE WaitEnds(st)
    <3>1. step' = [step EXCEPT ![st].waiting = FALSE]
      BY <2>2 DEF WaitEnds
    <3>. QED
      BY <1>1, <3>1 DEF StepInv, StepTypeOK, StepRow
  <2>. QED
    BY <2>1, <2>2
<1>3. \A t \in Steps : step'[t].state = step[t].state
                         /\ step'[t].attempt = step[t].attempt
  BY <1>1 DEF StepInv, StepTypeOK, StepRow, LeaseExpires, WaitEnds
<1>4. UNCHANGED <<run, executed, commanded, claim>>
  BY DEF LeaseExpires, WaitEnds
<1>5. StepTypeOK'
  BY <1>2, <1>4 DEF StepInv, StepTypeOK
<1>6. ClaimInv'
  BY <1>3, <1>4, ClaimKinds DEF StepInv, StepTypeOK, ClaimInv, Claims
<1>7. ExecutedOnce'
  BY <1>3, <1>4 DEF StepInv, ExecutedOnce
<1>. QED
  BY <1>5, <1>6, <1>7 DEF StepInv

\* A claim is a new attempt of its step.
LEMMA ClaimStep ==
  ASSUME StepInv, NEW e \in Executors, NEW st \in Steps, Claim(e, st)
  PROVE  StepInv'
<1> DEFINE attempt == IF step[st].state = "queued" THEN step[st].attempt
                                                   ELSE step[st].attempt + 1
<1>1. step[st] \in StepRow
  BY DEF StepInv, StepTypeOK
<1>2. attempt \in 1 .. MaxAttempts /\ attempt >= step[st].attempt
  BY <1>1, StepsAssumption DEF Claim, Claimable, StepRow
<1>3. OwnerOf[e] \in Owners
  BY StepsAssumption
<1>4. step' = [step EXCEPT ![st] =
         [@ EXCEPT !.state = "running", !.attempt = attempt,
                   !.owner = OwnerOf[e], !.lease = "live"]]
  BY DEF Claim
<1>5. claim' = [claim EXCEPT ![e] =
         [step |-> st, attempt |-> attempt, phase |-> "claimed"]]
  BY DEF Claim
<1>6. UNCHANGED <<run, executed, commanded>>
  BY DEF Claim
<1>7. claim[e] = NoClaim /\ step[st].state \in {"queued", "failed", "running"}
        /\ (step[st].state # "queued" => attempt = step[st].attempt + 1)
  BY DEF Claim, Claimable
<1>. HIDE DEF attempt
<1>8. /\ \A t \in Steps \ {st} : step'[t] = step[t]
      /\ step'[st].state = "running" /\ step'[st].attempt = attempt
      /\ step'[st] \in StepRow
  BY <1>1, <1>2, <1>3, <1>4 DEF StepInv, StepTypeOK, StepRow
<1>9. /\ \A f \in Executors \ {e} : claim'[f] = claim[f]
      /\ claim'[e].step = st /\ claim'[e].attempt = attempt
      /\ claim'[e].phase = "claimed" /\ claim'[e] \in Claims
  BY <1>2, <1>5 DEF StepInv, StepTypeOK, Claims
<1>10. StepTypeOK'
  <2>1. step' \in [Steps -> StepRow]
    BY <1>4, <1>8 DEF StepInv, StepTypeOK
  <2>2. claim' \in [Executors -> Claims \cup {NoClaim}]
    BY <1>5, <1>9 DEF StepInv, StepTypeOK
  <2>. QED
    BY <1>6, <2>1, <2>2 DEF StepInv, StepTypeOK
<1>11. \A f \in Executors \ {e} :
         claim[f] # NoClaim /\ claim[f].step = st => claim[f].attempt < attempt
  <2> SUFFICES ASSUME NEW f \in Executors \ {e}, claim[f] # NoClaim,
                      claim[f].step = st
               PROVE  claim[f].attempt < attempt
    OBVIOUS
  <2>1. step[st].state # "queued" /\ claim[f].attempt <= step[st].attempt
    BY DEF StepInv, ClaimInv
  <2>2. claim[f].attempt \in Nat /\ step[st].attempt \in Nat
    BY <1>1, ClaimKinds DEF StepInv, Claims, StepRow
  <2>. QED
    BY <1>7, <2>1, <2>2
<1>12. ClaimInv'
  <2>1. ASSUME NEW f \in Executors, claim'[f] # NoClaim
        PROVE  /\ step'[claim'[f].step].state # "queued"
               /\ claim'[f].attempt <= step'[claim'[f].step].attempt
               /\ claim'[f].phase = "commanded" => claim'[f].step \in commanded'
    <3>1. CASE f = e
      BY <1>2, <1>8, <1>9, <3>1
    <3>2. CASE f # e
      <4>1. claim'[f] = claim[f] /\ claim[f] \in Claims
        BY <1>9, <2>1, <3>2, ClaimKinds DEF StepInv
      <4>2. /\ step[claim[f].step].state # "queued"
            /\ claim[f].attempt <= step[claim[f].step].attempt
            /\ claim[f].phase = "commanded" => claim[f].step \in commanded
        BY <2>1, <4>1 DEF StepInv, ClaimInv
      <4>3. CASE claim[f].step = st
        <5>1. claim[f].attempt < attempt
          BY <1>11, <2>1, <3>2, <4>1, <4>3
        <5>. QED
          BY <1>2, <1>6, <1>8, <4>1, <4>2, <4>3, <5>1 DEF Claims
      <4>4. CASE claim[f].step # st
        BY <1>6, <1>8, <4>1, <4>2, <4>4 DEF Claims
      <4>. QED
        BY <4>3, <4>4
    <3>. QED
      BY <3>1, <3>2
  <2>2. ASSUME NEW f \in Executors, NEW g \in Executors,
               claim'[f] # NoClaim, claim'[g] # NoClaim,
               claim'[f].step = claim'[g].step,
               claim'[f].attempt = claim'[g].attempt
        PROVE  f = g
    <3>1. CASE f # e /\ g # e
      BY <1>9, <2>2, <3>1 DEF StepInv, ClaimInv
    <3>2. ASSUME NEW h \in Executors \ {e}, claim'[h] # NoClaim, claim'[h].step = st
          PROVE  claim'[h].attempt # attempt
      <4>1. claim'[h] = claim[h] /\ claim[h] \in Claims
        BY <1>9, <3>2, ClaimKinds DEF StepInv
      <4>2. claim[h].attempt < attempt
        BY <1>11, <3>2, <4>1
      <4>. QED
        BY <1>2, <4>1, <4>2 DEF Claims
    <3>. QED
      BY <1>9, <2>2, <3>1, <3>2
  <2>. QED
    BY <2>1, <2>2 DEF ClaimInv
<1>13. ExecutedOnce'
  BY <1>6, <1>7, <1>8 DEF StepInv, ExecutedOnce
<1>. QED
  BY <1>10, <1>12, <1>13 DEF StepInv

\* A completion makes its step done, and its event the step's only one.
LEMMA CompleteStep ==
  ASSUME StepInv, NEW e \in Executors, Complete(e)
  PROVE  StepInv'
<1> DEFINE st == claim[e].step
           x == [step |-> st, attempt |-> claim[e].attempt]
<1>1. claim[e] \in Claims /\ claim[e] # NoClaim /\ step[st].state = "running"
  BY ClaimKinds DEF StepInv, Complete, Holds
<1>2. st \in Steps /\ claim[e].attempt \in 1 .. MaxAttempts
  BY <1>1 DEF Claims
<1>3. step[st] \in StepRow
  BY <1>2 DEF StepInv, StepTypeOK
<1>4. step' = [step EXCEPT ![st] =
         [@ EXCEPT !.state = "done", !.owner = NoOwner,
                   !.lease = "none", !.waiting = FALSE]]
  BY DEF Complete
<1>5. /\ run' = [run EXCEPT ![RunOf[st]] = ToState[st]]
      /\ executed' = executed \cup {x}
      /\ claim' = [claim EXCEPT ![e] = NoClaim]
      /\ commanded' = commanded
      /\ st \in CommandSteps => claim[e].phase = "commanded"
  BY DEF Complete
<1>6. /\ \A t \in Steps \ {st} : step'[t] = step[t]
      /\ step'[st].state = "done" /\ step'[st].attempt = step[st].attempt
      /\ step'[st] \in StepRow
  BY <1>2, <1>3, <1>4 DEF StepInv, StepTypeOK, StepRow
<1>7. x.step = st /\ x \in [step : Steps, attempt : 1 .. MaxAttempts]
  BY <1>2
<1>8. (\A f \in Executors \ {e} : claim'[f] = claim[f]) /\ claim'[e] = NoClaim
  BY <1>5 DEF StepInv, StepTypeOK
<1>. HIDE DEF x, st
<1>9. StepTypeOK'
  <2>1. step' \in [Steps -> StepRow]
    BY <1>4, <1>6 DEF StepInv, StepTypeOK
  <2>2. run' \in [Runs -> States]
    BY <1>2, <1>5, StepsAssumption DEF StepInv, StepTypeOK
  <2>3. claim' \in [Executors -> Claims \cup {NoClaim}]
    BY <1>5 DEF StepInv, StepTypeOK
  <2>. QED
    BY <1>5, <1>7, <2>1, <2>2, <2>3 DEF StepInv, StepTypeOK
<1>10. ClaimInv'
  <2>1. \A f \in Executors : claim'[f] # NoClaim => claim[f] # NoClaim
           /\ claim'[f] = claim[f] /\ claim[f] \in Claims
    BY <1>8, ClaimKinds DEF StepInv
  <2>2. \A t \in Steps : step'[t].attempt = step[t].attempt
           /\ (step[t].state # "queued" => step'[t].state # "queued")
    BY <1>6
  <2>. QED
    BY <1>5, <2>1, <2>2 DEF StepInv, ClaimInv, Claims
<1>11. ExecutedOnce'
  <2>1. \A y \in executed : y.step # st
    BY <1>1, <1>2 DEF StepInv, ExecutedOnce
  <2>2. st \in CommandSteps => st \in commanded
    BY <1>1, <1>5 DEF StepInv, ClaimInv, st
  <2>3. \A y, z \in executed' : y.step = z.step => y = z
    BY <1>5, <1>7, <2>1 DEF StepInv, ExecutedOnce
  <2>4. \A t \in Steps : (\E y \in executed' : y.step = t)
                           <=> t = st \/ \E y \in executed : y.step = t
    BY <1>5, <1>7
  <2>. QED
    BY <1>2, <1>5, <1>6, <2>2, <2>3, <2>4 DEF StepInv, ExecutedOnce
<1>. QED
  BY <1>9, <1>10, <1>11 DEF StepInv

\* A failed attempt is neither executed nor queued again.
LEMMA FailStep ==
  ASSUME StepInv, NEW e \in Executors, Fail(e)
  PROVE  StepInv'
<1>1. claim' = [claim EXCEPT ![e] = NoClaim] /\ UNCHANGED <<run, executed, commanded>>
  BY DEF Fail
<1>2. (\A f \in Executors \ {e} : claim'[f] = claim[f]) /\ claim'[e] = NoClaim
  BY <1>1 DEF StepInv, StepTypeOK
<1>3. /\ step' \in [Steps -> StepRow]
      /\ \A t \in Steps : /\ step'[t].attempt = step[t].attempt
                          /\ step[t].state # "queued" => step'[t].state # "queued"
                          /\ step'[t].state = "done" <=> step[t].state = "done"
  <2>1. CASE ~Holds(e)
    BY <2>1 DEF Fail, StepInv, StepTypeOK
  <2>2. CASE Holds(e)
    <3> DEFINE st == claim[e].step
    <3>1. st \in Steps /\ step[st].state = "running" /\ step[st] \in StepRow
      BY <2>2, ClaimKinds DEF Holds, StepInv, StepTypeOK, Claims
    <3>2. step' = [step EXCEPT ![st] =
             [@ EXCEPT !.state = "failed", !.owner = NoOwner, !.lease = "none",
                       !.waiting = claim[e].attempt < MaxAttempts]]
      BY <2>2 DEF Fail
    <3> DEFINE b == claim[e].attempt < MaxAttempts
    <3>3. b \in BOOLEAN
      OBVIOUS
    <3>. HIDE DEF b, st
    <3>. QED
      BY <3>1, <3>2, <3>3 DEF StepInv, StepTypeOK, StepRow, b
  <2>. QED
    BY <2>1, <2>2
<1>4. StepTypeOK'
  BY <1>1, <1>3 DEF StepInv, StepTypeOK
<1>5. ClaimInv'
  <2>1. \A f \in Executors : claim'[f] # NoClaim => claim[f] # NoClaim
           /\ claim'[f] = claim[f] /\ claim[f] \in Claims
    BY <1>2, ClaimKinds DEF StepInv
  <2>. QED
    BY <1>1, <1>3, <2>1 DEF StepInv, ClaimInv, Claims
<1>6. ExecutedOnce'
  BY <1>1, <1>3 DEF StepInv, ExecutedOnce
<1>. QED
  BY <1>4, <1>5, <1>6 DEF StepInv

\* Running the command, and dying, leave the ledger's rows alone.
LEMMA CommandStep ==
  ASSUME StepInv, NEW e \in Executors, RunCommand(e) \/ Crash(e)
  PROVE  StepInv'
<1>1. UNCHANGED <<step, run, executed>>
  BY DEF RunCommand, Crash
<1>2. commanded \subseteq commanded' /\ commanded' \subseteq CommandSteps
  BY DEF RunCommand, Crash, StepInv, StepTypeOK
<1>3. CASE RunCommand(e)
  <2>1. claim[e] \in Claims /\ claim[e] # NoClaim
    BY <1>3, ClaimKinds DEF RunCommand, StepInv
  <2>2. /\ \A f \in Executors \ {e} : claim'[f] = claim[f]
        /\ claim'[e] = [claim[e] EXCEPT !.phase = "commanded"]
    BY <1>3 DEF RunCommand, StepInv, StepTypeOK
  <2>3. /\ claim'[e] \in Claims /\ claim'[e].step = claim[e].step
        /\ claim'[e].attempt = claim[e].attempt
    BY <2>1, <2>2 DEF Claims
  <2>4. claim[e].step \in commanded'
    BY <1>3 DEF RunCommand
  <2>5. StepTypeOK'
    <3>1. claim' \in [Executors -> Claims \cup {NoClaim}]
      BY <1>3, <2>2, <2>3 DEF RunCommand, StepInv, StepTypeOK
    <3>. QED
      BY <1>1, <1>2, <3>1 DEF StepInv, StepTypeOK
  <2>6. \A f \in Executors : claim'[f] # NoClaim =>
           /\ claim[f] # NoClaim /\ claim'[f].step = claim[f].step
           /\ claim'[f].attempt = claim[f].attempt
    BY <2>1, <2>2, <2>3
  <2>7. ClaimInv'
    BY <1>1, <1>2, <2>2, <2>3, <2>4, <2>6 DEF StepInv, ClaimInv
  <2>8. ExecutedOnce'
    BY <1>1, <1>2 DEF StepInv, ExecutedOnce
  <2>. QED
    BY <2>5, <2>7, <2>8 DEF StepInv
<1>4. CASE Crash(e)
  <2>1. claim' = [claim EXCEPT ![e] = NoClaim]
    BY <1>4 DEF Crash
  <2>2. (\A f \in Executors \ {e} : claim'[f] = claim[f]) /\ claim'[e] = NoClaim
    BY <2>1 DEF StepInv, StepTypeOK
  <2>3. StepTypeOK'
    BY <1>1, <1>2, <2>1 DEF StepInv, StepTypeOK
  <2>4. ClaimInv'
    BY <1>1, <1>2, <2>2 DEF StepInv, ClaimInv
  <2>5. ExecutedOnce'
    BY <1>1, <1>2 DEF StepInv, ExecutedOnce
  <2>. QED
    BY <2>3, <2>4, <2>5 DEF StepInv
<1>. QED
  BY <1>3, <1>4

\* The queued ledger satisfies the invariant, and each step keeps it.
LEMMA StepInvStarts == StepInit => StepInv
<1> SUFFICES ASSUME StepInit PROVE StepInv
  OBVIOUS
<1>1. \A st \in Steps : step[st] \in StepRow /\ step[st].state = "queued"
  BY StepsAssumption DEF StepInit, StepRow
<1>2. StepTypeOK
  BY <1>1 DEF StepInit, StepTypeOK
<1>3. ClaimInv /\ ExecutedOnce
  BY <1>1 DEF StepInit, ClaimInv, ExecutedOnce
<1>. QED
  BY <1>2, <1>3 DEF StepInv

LEMMA StepInvKept ==
  ASSUME StepInv, StepNext
  PROVE  StepInv'
  BY TimeStep, ClaimStep, CompleteStep, FailStep, CommandStep DEF StepNext

\* The invariant of the ledger, its claims and its events.
LEMMA StepInvariant == StepSpec => []StepInv
<1>1. StepInv /\ UNCHANGED stepVars => StepInv'
  BY DEF stepVars, StepInv, StepTypeOK, ClaimInv, ExecutedOnce
<1>2. StepInv /\ [StepNext]_stepVars => StepInv'
  BY <1>1, StepInvKept
<1>. QED
  BY <1>2, StepInvStarts, PTL DEF StepSpec

\* Every row the executor writes has the type its table declares.
THEOREM StepTypesCorrect == StepSpec => []StepTypeOK
<1>1. StepInv => StepTypeOK
  BY DEF StepInv
<1>. QED
  BY <1>1, StepInvariant, PTL

\* Mutual exclusion of the executors of a step, however many leases expired
\* under however many slow executors, and even if all lease under one name.
THEOREM LeaseIsExclusive == StepSpec => []OneHolder
<1>1. StepInv => OneHolder
  BY DEF StepInv, ClaimInv, OneHolder, Holds
<1>. QED
  BY <1>1, StepInvariant, PTL

\* No retry executes a step a second time.
THEOREM StepsExecuteOnce == StepSpec => []ExecutedOnce
<1>1. StepInv => ExecutedOnce
  BY DEF StepInv
<1>. QED
  BY <1>1, StepInvariant, PTL

\* The executor implements the contract of the ledger: a completion is one
\* step taking effect, everything else is invisible to the run.
THEOREM LedgerImplementsContract == StepSpec => ImplementsContract
<1> DEFINE finished == {st \in Steps : step[st].state = "done"}
<1>1. StepInit => Contract!Init
  BY DEF StepInit, Contract!Init
<1>2. StepInv /\ [StepNext]_stepVars
        => [\E st \in Steps : Contract!Finish(st)]_<<run, finished>>
  <2> SUFFICES ASSUME StepInv, [StepNext]_stepVars
               PROVE  \/ \E st \in Steps : Contract!Finish(st)
                      \/ run' = run /\ finished' = finished
    OBVIOUS
  <2>1. ASSUME UNCHANGED run,
               \A st \in Steps : step'[st].state = "done" <=> step[st].state = "done"
        PROVE  run' = run /\ finished' = finished
    BY <2>1
  <2>2. ASSUME NEW e \in Executors, Complete(e)
        PROVE  \E st \in Steps : Contract!Finish(st)
    <3> DEFINE st == claim[e].step
    <3>1. st \in Steps /\ step[st].state = "running" /\ step[st] \in StepRow
      BY <2>2, ClaimKinds DEF Complete, Holds, StepInv, StepTypeOK, Claims
    <3>2. /\ \A t \in Steps \ {st} : step'[t] = step[t]
          /\ step'[st].state = "done"
      BY <2>2, <3>1 DEF Complete, StepInv, StepTypeOK, StepRow
    <3>3. st \notin finished /\ finished' = finished \cup {st}
      BY <3>1, <3>2
    <3>4. Contract!Fits(st, run[RunOf[st]])
             /\ run' = [run EXCEPT ![RunOf[st]] = ToState[st]]
      BY <2>2 DEF Complete, CanMove, Contract!Fits
    <3>. QED
      BY <3>1, <3>3, <3>4 DEF Contract!Finish
  <2>3. ASSUME NEW e \in Executors, NEW st \in Steps, Claim(e, st)
        PROVE  run' = run /\ finished' = finished
    BY <2>1, <2>3 DEF Claim, Claimable, StepInv, StepTypeOK, StepRow
  <2>4. ASSUME NEW e \in Executors, Fail(e)
        PROVE  run' = run /\ finished' = finished
    <3>1. CASE ~Holds(e)
      BY <2>1, <2>4, <3>1 DEF Fail
    <3>2. CASE Holds(e)
      <4>1. claim[e].step \in Steps /\ step[claim[e].step].state = "running"
              /\ step[claim[e].step] \in StepRow
        BY <3>2, ClaimKinds DEF Holds, StepInv, StepTypeOK, Claims
      <4>2. /\ \A t \in Steps \ {claim[e].step} : step'[t] = step[t]
            /\ step'[claim[e].step].state = "failed"
        BY <2>4, <3>2, <4>1 DEF Fail, StepInv, StepTypeOK, StepRow
      <4>. QED
        BY <2>1, <2>4, <4>1, <4>2 DEF Fail
    <3>. QED
      BY <3>1, <3>2
  <2>5. ASSUME NEW e \in Executors, RunCommand(e) \/ Crash(e)
        PROVE  run' = run /\ finished' = finished
    BY <2>1, <2>5 DEF RunCommand, Crash
  <2>6. ASSUME NEW st \in Steps, LeaseExpires(st) \/ WaitEnds(st)
        PROVE  run' = run /\ finished' = finished
    BY <2>1, <2>6 DEF LeaseExpires, WaitEnds, StepInv, StepTypeOK, StepRow
  <2>7. CASE UNCHANGED stepVars
    BY <2>1, <2>7 DEF stepVars
  <2>. HIDE DEF finished
  <2>. QED
    BY <2>2, <2>3, <2>4, <2>5, <2>6, <2>7 DEF StepNext
<1>. QED
  BY <1>1, <1>2, StepInvariant, PTL DEF StepSpec, ImplementsContract, Contract!Spec

\* Only a running step has a live lease, and only one to be tried waits.
RestInv ==
  \A st \in Steps :
    /\ step[st].lease = "live" => step[st].state = "running"
    /\ step[st].waiting =>
         \/ step[st].state = "queued"
         \/ step[st].state = "failed" /\ step[st].attempt < MaxAttempts

LEMMA RestInvariant == StepSpec => []RestInv
<1>1. StepInit => RestInv
  <2> SUFFICES ASSUME StepInit PROVE RestInv
    OBVIOUS
  <2>1. \A st \in Steps : step[st].state = "queued" /\ step[st].lease = "none"
    BY DEF StepInit
  <2>. QED
    BY <2>1 DEF RestInv
<1>2. StepInv /\ RestInv /\ [StepNext]_stepVars => RestInv'
  <2> SUFFICES ASSUME StepInv, RestInv, [StepNext]_stepVars PROVE RestInv'
    OBVIOUS
  <2>1. \A st \in Steps : step[st] \in StepRow
    BY DEF StepInv, StepTypeOK
  <2>2. ASSUME NEW e \in Executors, NEW st \in Steps, Claim(e, st)
        PROVE  RestInv'
    <3>1. /\ \A t \in Steps \ {st} : step'[t] = step[t]
          /\ step'[st].state = "running" /\ step'[st].waiting = step[st].waiting
      BY <2>1, <2>2 DEF Claim, StepInv, StepTypeOK, StepRow
    <3>2. step[st].waiting = FALSE
      BY <2>1, <2>2 DEF Claim, Claimable, StepRow
    <3>. QED
      BY <3>1, <3>2 DEF RestInv
  <2>3. ASSUME NEW e \in Executors, Complete(e)
        PROVE  RestInv'
    <3>1. claim[e].step \in Steps
      BY <2>3, ClaimKinds DEF Complete, StepInv, Claims
    <3>2. /\ \A t \in Steps \ {claim[e].step} : step'[t] = step[t]
          /\ step'[claim[e].step].lease = "none"
          /\ step'[claim[e].step].waiting = FALSE
      BY <2>1, <2>3, <3>1 DEF Complete, StepInv, StepTypeOK, StepRow
    <3>. QED
      BY <3>1, <3>2 DEF RestInv
  <2>4. ASSUME NEW e \in Executors, Fail(e), Holds(e)
        PROVE  RestInv'
    <3> DEFINE st == claim[e].step
               again == claim[e].attempt < MaxAttempts
    <3>1. st \in Steps /\ claim[e].attempt = step[st].attempt
      BY <2>4, ClaimKinds DEF Holds, StepInv, Claims
    <3>2. step' = [step EXCEPT ![st] =
             [@ EXCEPT !.state = "failed", !.owner = NoOwner, !.lease = "none",
                       !.waiting = again]]
      BY <2>4 DEF Fail
    <3>3. again => step[st].attempt < MaxAttempts
      BY <3>1
    <3>. HIDE DEF again, st
    <3>4. /\ \A t \in Steps \ {st} : step'[t] = step[t]
          /\ step'[st].lease = "none" /\ step'[st].state = "failed"
          /\ step'[st].waiting = again
          /\ step'[st].attempt = step[st].attempt
      BY <2>1, <3>1, <3>2 DEF StepInv, StepTypeOK, StepRow
    <3>. QED
      BY <3>1, <3>3, <3>4 DEF RestInv
  <2>5. ASSUME NEW st \in Steps, LeaseExpires(st)
        PROVE  RestInv'
    <3>1. /\ \A t \in Steps \ {st} : step'[t] = step[t]
          /\ step'[st] = [step[st] EXCEPT !.lease = "expired"]
      BY <2>5 DEF LeaseExpires, StepInv, StepTypeOK
    <3>2. /\ step'[st].lease = "expired" /\ step'[st].state = step[st].state
          /\ step'[st].waiting = step[st].waiting
          /\ step'[st].attempt = step[st].attempt
      BY <2>1, <3>1 DEF StepRow
    <3>. QED
      BY <3>1, <3>2 DEF RestInv
  <2>6. ASSUME NEW st \in Steps, WaitEnds(st)
        PROVE  RestInv'
    <3>1. /\ \A t \in Steps \ {st} : step'[t] = step[t]
          /\ step'[st] = [step[st] EXCEPT !.waiting = FALSE]
      BY <2>6 DEF WaitEnds, StepInv, StepTypeOK
    <3>2. /\ step'[st].lease = step[st].lease /\ step'[st].state = step[st].state
          /\ ~step'[st].waiting
      BY <2>1, <3>1 DEF StepRow
    <3>3. \A t \in Steps : t # st => step'[t] = step[t]
      BY <3>1
    <3>. QED
      BY <3>2, <3>3 DEF RestInv
  <2>7. ASSUME UNCHANGED step PROVE RestInv'
    BY <2>7 DEF RestInv
  <2>. QED
    BY <2>2, <2>3, <2>4, <2>5, <2>6, <2>7
       DEF StepNext, RunCommand, Crash, Fail, stepVars
<1>. QED
  BY <1>1, <1>2, StepInvariant, PTL DEF StepSpec

\* Attempts are only used up, and what is done or finally failed stays so.
THEOREM AttemptsAreMonotone == StepSpec => AttemptsOnlyGrow
<1> DEFINE Grow(st) ==
      /\ step'[st].attempt >= step[st].attempt
      /\ step[st].state = "done" => step'[st] = step[st]
      /\ step[st].state = "failed" /\ step[st].attempt = MaxAttempts =>
           step'[st] = step[st]
<1>1. StepInv /\ RestInv /\ [StepNext]_stepVars => [\A st \in Steps : Grow(st)]_stepVars
  <2> SUFFICES ASSUME StepInv, RestInv, StepNext PROVE \A st \in Steps : Grow(st)
    OBVIOUS
  <2>1. \A st \in Steps : step[st] \in StepRow /\ step[st].attempt \in Nat
    BY DEF StepInv, StepTypeOK, StepRow
  <2>2. ASSUME NEW st \in Steps, step'[st] = step[st] PROVE Grow(st)
    BY <2>1, <2>2
  <2>3. ASSUME NEW e \in Executors, NEW st \in Steps, Claim(e, st)
        PROVE  \A t \in Steps : Grow(t)
    <3>1. /\ \A t \in Steps \ {st} : step'[t] = step[t]
          /\ step'[st].attempt >= step[st].attempt
      BY <2>1, <2>3 DEF Claim, StepInv, StepTypeOK, StepRow
    <3>2. step[st].state # "done" /\
            ~(step[st].state = "failed" /\ step[st].attempt = MaxAttempts)
      BY <2>1, <2>3, StepsAssumption DEF Claim, Claimable, StepRow
    <3>. QED
      BY <2>2, <3>1, <3>2
  <2>4. ASSUME NEW e \in Executors, Complete(e) \/ (Fail(e) /\ Holds(e))
        PROVE  \A t \in Steps : Grow(t)
    <3> DEFINE st == claim[e].step
    <3>1. st \in Steps /\ step[st].state = "running"
      BY <2>4, ClaimKinds DEF Complete, Holds, StepInv, Claims
    <3>2. /\ \A t \in Steps \ {st} : step'[t] = step[t]
          /\ step'[st].attempt = step[st].attempt
      <4>1. CASE Complete(e)
        BY <2>1, <3>1, <4>1 DEF Complete, StepInv, StepTypeOK, StepRow
      <4>2. CASE Fail(e) /\ Holds(e)
        BY <2>1, <3>1, <4>2 DEF Fail, StepInv, StepTypeOK, StepRow
      <4>. QED
        BY <2>4, <4>1, <4>2
    <3>. HIDE DEF st
    <3>. QED
      BY <2>1, <2>2, <3>1, <3>2
  <2>5. ASSUME NEW st \in Steps, LeaseExpires(st) \/ WaitEnds(st)
        PROVE  \A t \in Steps : Grow(t)
    <3>1. /\ \A t \in Steps \ {st} : step'[t] = step[t]
          /\ step'[st].attempt = step[st].attempt
      BY <2>1, <2>5 DEF LeaseExpires, WaitEnds, StepInv, StepTypeOK, StepRow
    <3>2. /\ step[st].state # "done"
          /\ ~(step[st].state = "failed" /\ step[st].attempt = MaxAttempts)
      BY <2>1, <2>5, StepsAssumption DEF RestInv, LeaseExpires, WaitEnds, StepRow
    <3>. QED
      BY <2>1, <2>2, <3>1, <3>2
  <2>6. ASSUME UNCHANGED step PROVE \A t \in Steps : Grow(t)
    BY <2>2, <2>6
  <2>. HIDE DEF Grow
  <2>. QED
    BY <2>3, <2>4, <2>5, <2>6 DEF StepNext, RunCommand, Crash, Fail
<1>. QED
  BY <1>1, StepInvariant, RestInvariant, PTL DEF StepSpec, AttemptsOnlyGrow
=============================================================================
