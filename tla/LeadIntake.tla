----------------------------- MODULE LeadIntake -----------------------------
(* The scheduler's lead polls (src/worker/scheduler.ts) over the Revenue     *)
(* Worker's lead.read (src/worker/revenue.ts): a cycle lists the connections *)
(* that are due, reads each under the key of its polling window and posts a  *)
(* `run` for every selector the read returned.  An operator edits the same   *)
(* connection with connection.upsert meanwhile.                              *)
(*                                                                           *)
(* One active connection in buffer mode.  Records are numbered in the order  *)
(* in which the operator buffers them.  The windows of the clock are a ring: *)
(* a number is used again when no call holds its key.  The schedulers share  *)
(* the default lease owner, so a key's requests are equal.  The budget and   *)
(* the completion of the read's run are those of WorkerCommands.             *)
EXTENDS Integers, Sequences, FiniteSets, FiniteSetsExt, SequencesExt

CONSTANTS Schedulers,    \* scheduler processes of the tenant
          MaxRecords,    \* bound on the records an operator buffers
          Batch,         \* records of one read (25 in the code)
          Windows        \* polling windows in the ring

ASSUME IntakeAssumption ==
  /\ MaxRecords \in Nat \ {0}
  /\ Batch \in Nat \ {0}
  /\ Windows \in Nat \ {0, 1}

VARIABLES conn,    \* the connections row: buffer, cursor, last read
          window,  \* the polling window now falls into
          reads,   \* the worker run of each window's key
          leads,   \* records with their object and lead.received event
          runs,    \* records whose revenue run was started
          calls,   \* what each scheduler holds
          sent     \* records the operator has buffered so far

vars == <<conn, window, reads, leads, runs, calls, sent>>

Records   == 1..MaxRecords
NoCursor  == 0
Rings     == 0..(Windows - 1)
Sequenced == {q \in UNION {[1..n -> Records] : n \in 0..MaxRecords} :
                \A i, j \in DOMAIN q : i < j => q[i] < q[j]}

\* fresh: the last read was in the window that is open now.
Connection == [records : Sequenced, cursor : Records \cup {NoCursor},
               fresh : BOOLEAN]

\* An empty input is a key without a run, an empty output a run without one.
ReadRun == [input : Sequenced, output : Sequenced]
NoRun   == [input |-> <<>>, output |-> <<>>]

Stages == {"idle", "listed", "unread", "resolved", "started", "posting"}
Call   == [stage : Stages, key : Rings, from : Connection, batch : Sequenced,
           todo : Sequenced, ran : SUBSET Records, failed : SUBSET Records]

NeverRead == [records |-> <<>>, cursor |-> NoCursor, fresh |-> FALSE]
Idle == [stage |-> "idle", key |-> 0, from |-> NeverRead, batch |-> <<>>,
         todo |-> <<>>, ran |-> {}, failed |-> {}]

LeadTypeOK ==
  /\ conn \in Connection
  /\ window \in Rings
  /\ reads \in [Rings -> ReadRun]
  /\ leads \subseteq Records
  /\ runs \subseteq leads
  /\ calls \in [Schedulers -> Call]
  /\ sent \in 0..MaxRecords

At(s, stage) == calls[s].stage = stage
Reported(s)  == At(s, "posting") /\ calls[s].todo = <<>>
RunOf(s)     == reads[calls[s].key]
Move(s, rec) == calls' = [calls EXCEPT ![s] = rec]
Goes(s, stage) == Move(s, [calls[s] EXCEPT !.stage = stage])

-----------------------------------------------------------------------------
(* What a read takes from a connection, and leaves in it.                    *)

\* Mutant: a cursor that no record of the buffer has leaves nothing to read.
UnreadMutant(c) ==
  LET behind == {i \in DOMAIN c.records : c.records[i] = c.cursor}
      first  == IF c.cursor = NoCursor THEN 1
                ELSE Min(behind \cup {Len(c.records)}) + 1
  IN  SubSeq(c.records, first, Min({Len(c.records), first + Batch - 1}))

\* unreadConnectionRecords: what follows the cursor's record, everything when
\* no record of the buffer has the cursor; at most one batch of it.
Unread(c) ==
  LET behind == {i \in DOMAIN c.records : c.records[i] = c.cursor}
      first  == IF behind = {} THEN 1 ELSE Min(behind) + 1
  IN  SubSeq(c.records, first, Min({Len(c.records), first + Batch - 1}))

\* Mutant: the cursor is taken from the row as it is by now.
AfterReadMutant(c, batch) ==
  [c EXCEPT !.cursor = Last(conn.records), !.fresh = TRUE]

\* The row the read writes back: the config it read, with its own lastLeadRead.
AfterRead(c, batch) == [c EXCEPT !.cursor = Last(batch), !.fresh = TRUE]

-----------------------------------------------------------------------------
(* One poll of a scheduler.                                                  *)

\* Mutant: the key is that of the next window, which may not exist yet.
PollMutant(s) ==
  /\ At(s, "idle")
  /\ ~conn.fresh
  /\ Move(s, [Idle EXCEPT !.stage = "listed", !.key = window + 1])
  /\ UNCHANGED <<conn, window, reads, leads, runs, sent>>

\* listLeadPollCommands: the connection is due and its key names the window.
\* It is not due in the window of its last read, since windows are as long as
\* the interval; later it is, at the latest when the next one has passed.
Poll(s) ==
  /\ At(s, "idle")
  /\ ~conn.fresh
  /\ Move(s, [Idle EXCEPT !.stage = "listed", !.key = window])
  /\ UNCHANGED <<conn, window, reads, leads, runs, sent>>

\* readRevenueLeads finds the key's run with an output: its selectors again.
ReplayRead(s) ==
  /\ At(s, "listed")
  /\ RunOf(s).output # <<>>
  /\ Move(s, [calls[s] EXCEPT !.stage = "posting", !.batch = RunOf(s).output,
                              !.todo = RunOf(s).output])
  /\ UNCHANGED <<conn, window, reads, leads, runs, sent>>

NoReplay(s) ==
  /\ At(s, "listed")
  /\ RunOf(s).output = <<>>
  /\ Goes(s, "unread")
  /\ UNCHANGED <<conn, window, reads, leads, runs, sent>>

\* resolveLeadSourceConnection: the connection as it is now, without a lock.
ResolveConnection(s) ==
  /\ At(s, "unread")
  /\ Unread(conn) # <<>>
  /\ Move(s, [calls[s] EXCEPT !.stage = "resolved", !.from = conn,
                              !.batch = Unread(conn)])
  /\ UNCHANGED <<conn, window, reads, leads, runs, sent>>

\* Nothing after the cursor: the command is refused and the poll failed.
Exhausted(s) ==
  /\ At(s, "unread")
  /\ Unread(conn) = <<>>
  /\ Move(s, Idle)
  /\ UNCHANGED <<conn, window, reads, leads, runs, sent>>

\* Mutant: a used key is replayed whatever its input was.
AcceptsMutant(run, batch) == TRUE

\* worker.run.start takes a key that is new, or was used with the same input.
Accepts(run, batch) == run.input \in {<<>>, batch}

StartRead(s) ==
  /\ At(s, "resolved")
  /\ Accepts(RunOf(s), calls[s].batch)
  /\ reads' = IF RunOf(s).input = <<>>
              THEN [reads EXCEPT ![calls[s].key].input = calls[s].batch]
              ELSE reads
  /\ Goes(s, "started")
  /\ UNCHANGED <<conn, window, leads, runs, sent>>

Conflict(s) ==
  /\ At(s, "resolved")
  /\ ~Accepts(RunOf(s), calls[s].batch)
  /\ Move(s, Idle)
  /\ UNCHANGED <<conn, window, reads, leads, runs, sent>>

\* The transaction of the read, under its key's lock: object, version, event
\* and evidence of each record, the connection's row, the output of the run.
\* Its completion settles the budget and returns the selectors; when it fails
\* the call is cut off.
CommitRead(s) ==
  /\ At(s, "started")
  /\ RunOf(s).output = <<>>
  /\ leads' = leads \cup ToSet(calls[s].batch)
  /\ conn' = AfterRead(calls[s].from, calls[s].batch)
  /\ reads' = [reads EXCEPT ![calls[s].key].output = calls[s].batch]
  /\ Move(s, [calls[s] EXCEPT !.stage = "posting", !.from = NeverRead,
                              !.todo = calls[s].batch])
  /\ UNCHANGED <<window, runs, sent>>

\* The same key was read between the start and the lock.
ReadBefore(s) ==
  /\ At(s, "started")
  /\ RunOf(s).output # <<>>
  /\ Move(s, [calls[s] EXCEPT !.stage = "posting", !.from = NeverRead,
                              !.batch = RunOf(s).output,
                              !.todo = RunOf(s).output])
  /\ UNCHANGED <<conn, window, reads, leads, runs, sent>>

\* lookupLeadIntakeBySource: the selector names a stored lead.
IntakeResolves(r) == r \in leads

\* The loop over the selectors.  A `run` starts, or replays, when its intake
\* resolves.
PostRun(s) ==
  /\ At(s, "posting")
  /\ calls[s].todo # <<>>
  /\ LET r == Head(calls[s].todo) IN
       /\ IntakeResolves(r)
       /\ runs' = runs \cup {r}
       /\ Move(s, [calls[s] EXCEPT !.todo = Tail(@), !.ran = @ \cup {r}])
  /\ UNCHANGED <<conn, window, reads, leads, sent>>

\* Mutant: the first failed post ends the loop.
PostFailsMutant(s) ==
  /\ At(s, "posting")
  /\ calls[s].todo # <<>>
  /\ Move(s, [calls[s] EXCEPT !.todo = <<>>,
                              !.failed = @ \cup {Head(calls[s].todo)}])
  /\ UNCHANGED <<conn, window, reads, leads, runs, sent>>

\* A `run` that is refused or lost is counted, and the next selector posted.
PostFails(s) ==
  /\ At(s, "posting")
  /\ calls[s].todo # <<>>
  /\ Move(s, [calls[s] EXCEPT !.todo = Tail(@),
                              !.failed = @ \cup {Head(calls[s].todo)}])
  /\ UNCHANGED <<conn, window, reads, leads, runs, sent>>

\* The command's entry of the cycle's result; runScheduler logs it and sleeps.
EndCycle(s) ==
  /\ Reported(s)
  /\ Move(s, Idle)
  /\ UNCHANGED <<conn, window, reads, leads, runs, sent>>

\* The read throws, its answer is lost or the scheduler stops: what committed
\* stays, and nothing is posted for it.
CutOff(s) ==
  /\ ~At(s, "idle")
  /\ ~Reported(s)
  /\ Move(s, Idle)
  /\ UNCHANGED <<conn, window, reads, leads, runs, sent>>

-----------------------------------------------------------------------------
(* The operator, and the clock.                                              *)

\* connection.upsert overwrites the config with the one it is sent: the buffer
\* as it stands with a new record at its end, lastLeadRead sent back or left
\* out, or that record alone and lastLeadRead.  Left out, lastSyncAt still says
\* when the last read was.
Upsert ==
  /\ sent < MaxRecords
  /\ sent' = sent + 1
  /\ \/ \E cursor \in {conn.cursor, NoCursor} :
          conn' = [conn EXCEPT !.records = Append(@, sent + 1),
                               !.cursor = cursor]
     \/ conn' = [conn EXCEPT !.records = <<sent + 1>>]
  /\ UNCHANGED <<window, reads, leads, runs, calls>>

\* The next polling window begins.
NextWindow ==
  LET next == (window + 1) % Windows IN
    /\ \A s \in Schedulers : At(s, "idle") \/ calls[s].key # next
    /\ window' = next
    /\ reads' = [reads EXCEPT ![next] = NoRun]
    /\ conn' = [conn EXCEPT !.fresh = FALSE]
    /\ UNCHANGED <<leads, runs, calls, sent>>

-----------------------------------------------------------------------------

LeadInit ==
  /\ conn = NeverRead
  /\ window = 0
  /\ reads = [w \in Rings |-> NoRun]
  /\ leads = {}
  /\ runs = {}
  /\ calls = [s \in Schedulers |-> Idle]
  /\ sent = 0

\* A step of a call that is under way, its failures left out.
Proceed(s) ==
  \/ ReplayRead(s) \/ NoReplay(s) \/ ResolveConnection(s) \/ Exhausted(s)
  \/ StartRead(s) \/ Conflict(s) \/ CommitRead(s) \/ ReadBefore(s)
  \/ PostRun(s) \/ EndCycle(s)

LeadNext ==
  \/ \E s \in Schedulers :
       Poll(s) \/ Proceed(s) \/ PostFails(s) \/ CutOff(s)
  \/ Upsert
  \/ NextWindow

\* Schedulers keep cycling, requests are answered, time passes, and reads are
\* cut off only finitely often.
LeadFairness ==
  /\ \A s \in Schedulers : WF_vars(Poll(s) \/ Proceed(s))
  /\ WF_vars(NextWindow)
  /\ <>[][\A s \in Schedulers : CutOff(s) => Exhausted(s) \/ Conflict(s)]_vars

LeadSpec == LeadInit /\ [][LeadNext]_vars /\ LeadFairness

-----------------------------------------------------------------------------
(* Properties.                                                               *)

\* No record is skipped: whatever the buffer holds up to the cursor's record
\* has become a lead, although reads write back rows they read long before and
\* the operator edits the row meanwhile.
CursorCoversLeads ==
  \A i, j \in DOMAIN conn.records :
    i <= j /\ conn.records[j] = conn.cursor => conn.records[i] \in leads

\* One read per window: the records a window's run was started with are those
\* it stored and returned, to every scheduler that used its key.
OneReadPerWindow ==
  /\ \A w \in Rings : reads[w].output \in {<<>>, reads[w].input}
  /\ \A s \in Schedulers :
       At(s, "posting") => RunOf(s).output = calls[s].batch

\* What a cycle reports is true and complete: one entry for each selector of
\* the read its key names, whatever failed before it, and each that succeeded
\* has its revenue run and the lead it runs on.
ReportIsWhole ==
  \A s \in Schedulers :
    Reported(s) =>
      /\ calls[s].ran \cup calls[s].failed = ToSet(RunOf(s).output)
      /\ calls[s].ran \subseteq runs \cap leads

\* A record in the buffer becomes a lead, unless a write of the row drops it:
\* no conflict of a window's key, overlap of two schedulers or cursor written
\* back late stops the polls for good.
BufferedRecordsRead ==
  \A r \in Records :
    r \in ToSet(conn.records) ~> r \in leads \/ r \notin ToSet(conn.records)
=============================================================================
