-------------------------- MODULE LeadIntakeProofs --------------------------
(***************************************************************************)
(* Proofs about LeadIntake, for any number of schedulers, records and      *)
(* polling windows, and reads of any size.                                 *)
(***************************************************************************)
EXTENDS LeadIntake, SequenceTheorems, TLAPS

-----------------------------------------------------------------------------
(* Facts about buffers: sequences of records in the order they were sent.  *)

LEMMA SequencedFacts ==
  ASSUME NEW q \in Sequenced
  PROVE  /\ q \in Seq(Records) /\ Len(q) \in Nat /\ Len(q) <= MaxRecords
         /\ DOMAIN q = 1..Len(q)
         /\ \A i \in 1..Len(q) : q[i] \in Records /\ q[i] \in Int
         /\ \A i, j \in 1..Len(q) : i < j => q[i] < q[j]
<1>1. PICK n \in 0..MaxRecords : q \in [1..n -> Records]
  BY DEF Sequenced
<1>2. n \in Nat
  BY <1>1, IntakeAssumption
<1>3. q \in Seq(Records) /\ Len(q) = n
  BY <1>1, <1>2, IsASeq
<1>4. \A i \in 1..n : q[i] \in Records /\ q[i] \in Int
  BY <1>1, IntakeAssumption DEF Records
<1> QED  BY <1>1, <1>2, <1>3, <1>4 DEF Sequenced

LEMMA IsSequenced ==
  ASSUME NEW q \in Seq(Records), Len(q) <= MaxRecords,
         \A i, j \in 1..Len(q) : i < j => q[i] < q[j]
  PROVE  q \in Sequenced
<1>1. Len(q) \in 0..MaxRecords /\ q \in [1..Len(q) -> Records]
  BY IntakeAssumption, LenProperties
<1>2. q \in UNION {[1..n -> Records] : n \in 0..MaxRecords}
  BY <1>1
<1>3. DOMAIN q = 1..Len(q)
  BY LenProperties
<1> QED  BY <1>2, <1>3 DEF Sequenced

LEMMA EmptySequenced == <<>> \in Sequenced /\ ToSet(<<>>) = {}
<1>1. <<>> \in Seq(Records) /\ Len(<<>>) = 0
  OBVIOUS
<1>2. <<>> \in Sequenced
  <2> DEFINE q == <<>>
  <2>1. Len(q) <= MaxRecords /\ \A i, j \in 1..Len(q) : i < j => q[i] < q[j]
    BY <1>1, IntakeAssumption
  <2>2. q \in Seq(Records)
    BY <1>1
  <2> HIDE DEF q
  <2>3. q \in Sequenced
    BY <2>1, <2>2, IsSequenced
  <2> QED  BY <2>3 DEF q
<1>3. DOMAIN <<>> = {}
  BY <1>1, LenProperties
<1> QED  BY <1>2, <1>3 DEF ToSet

LEMMA TailFacts ==
  ASSUME NEW q \in Sequenced, q # <<>>
  PROVE  /\ Head(q) \in Records /\ Tail(q) \in Sequenced
         /\ ToSet(q) = {Head(q)} \cup ToSet(Tail(q))
<1>1. /\ q \in Seq(Records) /\ Len(q) \in Nat /\ Len(q) <= MaxRecords
      /\ DOMAIN q = 1..Len(q)
      /\ \A i, j \in 1..Len(q) : i < j => q[i] < q[j]
  BY SequencedFacts
<1>2. /\ Head(q) \in Records /\ Tail(q) \in Seq(Records)
      /\ Len(Tail(q)) = Len(q) - 1
      /\ \A i \in 1..Len(Tail(q)) : Tail(q)[i] = q[i + 1]
  BY <1>1, HeadTailProperties
<1>3. Len(q) >= 1 /\ Head(q) = q[1]
  BY <1>1, EmptySeq
<1>4. DOMAIN Tail(q) = 1..(Len(q) - 1)
  BY <1>2, LenProperties
<1>5. Tail(q) \in Sequenced
  <2>1. \A i, j \in 1..Len(Tail(q)) : i < j => Tail(q)[i] < Tail(q)[j]
    BY <1>1, <1>2
  <2>2. Len(Tail(q)) <= MaxRecords
    BY <1>1, <1>2, IntakeAssumption
  <2> QED  BY <1>2, <2>1, <2>2, IsSequenced
<1>6. ToSet(q) = {Head(q)} \cup ToSet(Tail(q))
  <2>1. ASSUME NEW i \in DOMAIN q
        PROVE  q[i] \in {Head(q)} \cup ToSet(Tail(q))
    <3>1. CASE i = 1
      BY <1>3, <3>1
    <3>2. CASE i # 1
      <4>1. i - 1 \in DOMAIN Tail(q) /\ Tail(q)[i - 1] = q[i]
        BY <1>1, <1>2, <1>4, <2>1, <3>2
      <4> QED  BY <4>1 DEF ToSet
    <3> QED  BY <3>1, <3>2
  <2>2. ASSUME NEW i \in DOMAIN Tail(q)
        PROVE  Tail(q)[i] \in ToSet(q)
    <3>1. i + 1 \in DOMAIN q /\ Tail(q)[i] = q[i + 1]
      BY <1>1, <1>2, <1>4
    <3> QED  BY <3>1 DEF ToSet
  <2>3. Head(q) \in ToSet(q)
    BY <1>1, <1>3 DEF ToSet
  <2> QED  BY <2>1, <2>2, <2>3 DEF ToSet
<1> QED  BY <1>2, <1>5, <1>6

\* The smaller of two numbers, and of one.
LEMMA SmallestOf ==
  ASSUME NEW m \in Int, NEW n \in Int
  PROVE  /\ Min({m}) = m
         /\ Min({m, n}) = IF m <= n THEN m ELSE n
<1>1. ASSUME NEW S, NEW x \in S, S \subseteq Int, \A y \in S : x <= y
      PROVE  Min(S) = x
  <2> DEFINE Least(z) == z \in S /\ \A y \in S : z <= y
  <2>1. Least(x)
    BY <1>1
  <2>2. Min(S) = CHOOSE z : Least(z)
    BY DEF Min
  <2>3. Least(Min(S))
    <3> HIDE DEF Least
    <3> QED  BY <2>1, <2>2
  <2>4. Min(S) \in Int /\ x \in Int /\ Min(S) <= x /\ x <= Min(S)
    BY <1>1, <2>1, <2>3
  <2> QED  BY <2>4
<1>2. Min({m}) = m
  BY <1>1
<1>3. CASE m <= n
  BY <1>1, <1>2, <1>3
<1>4. CASE ~(m <= n)
  <2>1. Min({m, n}) = n
    BY <1>1, <1>4
  <2> QED  BY <1>2, <1>4, <2>1
<1> QED  BY <1>3, <1>4, <1>2

\* What a read takes is a part of the buffer; before its last record the
\* buffer has records it takes too, and records up to the cursor's.
LEMMA UnreadFacts ==
  ASSUME NEW c \in Connection
  PROVE  /\ Unread(c) \in Sequenced
         /\ Unread(c) # <<>> =>
              \E m \in DOMAIN c.records :
                /\ Last(Unread(c)) = c.records[m]
                /\ \A i \in 1..m :
                     \/ c.records[i] \in ToSet(Unread(c))
                     \/ \E j \in DOMAIN c.records :
                          i <= j /\ c.records[j] = c.cursor
<1> DEFINE q == c.records
           n == Len(q)
           behind == {i \in DOMAIN q : q[i] = c.cursor}
           first == IF behind = {} THEN 1 ELSE Min(behind) + 1
           last == Min({n, first + Batch - 1})
           U == SubSeq(q, first, last)
<1>1. /\ q \in Seq(Records) /\ n \in Nat /\ n <= MaxRecords
      /\ DOMAIN q = 1..n /\ \A i \in 1..n : q[i] \in Records /\ q[i] \in Int
      /\ \A i, j \in 1..n : i < j => q[i] < q[j]
  BY SequencedFacts DEF Connection
<1>2. Unread(c) = U
  BY DEF Unread
<1>3. behind = {} \/ \E b \in 1..n : behind = {b}
  <2>1. ASSUME NEW i \in behind, NEW j \in behind
        PROVE  i = j
    <3>1. i \in 1..n /\ j \in 1..n /\ q[i] = q[j] /\ q[i] \in Int
      BY <1>1
    <3>2. ~(i < j) /\ ~(j < i)
      BY <1>1, <3>1
    <3> QED  BY <3>1, <3>2
  <2> QED  BY <1>1, <2>1
<1>4. \/ behind = {} /\ first = 1
      \/ \E b \in 1..n : q[b] = c.cursor /\ first = b + 1
  <2>1. CASE behind = {}
    BY <2>1
  <2>2. ASSUME NEW b \in 1..n, behind = {b}
        PROVE  q[b] = c.cursor /\ first = b + 1
    <3>1. Min(behind) = b
      BY <2>2, SmallestOf
    <3>2. b \in behind
      BY <2>2
    <3> QED  BY <3>1, <3>2
  <2> QED  BY <1>3, <2>1, <2>2
<1>5. first \in 1..(n + 1)
  BY <1>1, <1>4
<1> HIDE DEF first, behind
<1>6. last \in Int /\ last <= n
  <2>1. last = IF n <= first + Batch - 1 THEN n ELSE first + Batch - 1
    <3> DEFINE m == first + Batch - 1
    <3>1. m \in Int /\ n \in Int
      BY <1>1, <1>5, IntakeAssumption
    <3> HIDE DEF m
    <3>2. Min({n, m}) = IF n <= m THEN n ELSE m
      BY <3>1, SmallestOf
    <3> QED  BY <3>2 DEF m
  <2> QED  BY <1>1, <1>5, <2>1, IntakeAssumption
<1> HIDE DEF last
<1>7. \A i \in first..last : q[i] \in Records
  BY <1>1, <1>5, <1>6
<1>8. /\ U \in Seq(Records)
      /\ Len(U) = IF first <= last THEN last - first + 1 ELSE 0
      /\ \A i \in 1..(last - first + 1) : U[i] = q[first + i - 1]
  BY <1>5, <1>6, <1>7, SubSeqProperties
<1> HIDE DEF U
<1>9. U \in Sequenced
  <2>1. ASSUME NEW i \in 1..Len(U), NEW j \in 1..Len(U), i < j
        PROVE  U[i] < U[j]
    <3>1. first <= last
      BY <1>5, <1>6, <1>8, <2>1
    <3>2. U[i] = q[first + i - 1] /\ U[j] = q[first + j - 1]
      BY <1>8, <2>1, <3>1
    <3>3. /\ first + i - 1 \in 1..n /\ first + j - 1 \in 1..n
          /\ first + i - 1 < first + j - 1
      BY <1>1, <1>5, <1>6, <1>8, <2>1, <3>1
    <3> QED  BY <1>1, <3>2, <3>3
  <2>2. Len(U) <= MaxRecords
    BY <1>1, <1>5, <1>6, <1>8, IntakeAssumption
  <2> QED  BY <1>8, <2>1, <2>2, IsSequenced
<1>10. ASSUME U # <<>>
       PROVE  \E m \in DOMAIN c.records :
                /\ Last(U) = c.records[m]
                /\ \A i \in 1..m :
                     \/ c.records[i] \in ToSet(U)
                     \/ \E j \in DOMAIN c.records :
                          i <= j /\ c.records[j] = c.cursor
  <2>1. first <= last /\ Len(U) = last - first + 1
    BY <1>5, <1>6, <1>8, <1>10, EmptySeq
  <2>2. last \in DOMAIN q /\ Last(U) = q[last]
    BY <1>1, <1>5, <1>6, <1>8, <2>1 DEF Last
  <2>3. ASSUME NEW i \in 1..last
        PROVE  q[i] \in ToSet(U) \/ \E j \in DOMAIN q : i <= j /\ q[j] = c.cursor
    <3>1. CASE i >= first
      <4> DEFINE o == i - first + 1
      <4>1. o \in 1..(last - first + 1) /\ first + o - 1 = i
        BY <1>5, <1>6, <2>3, <3>1
      <4>2. U[o] = q[i] /\ o \in 1..Len(U)
        BY <1>8, <2>1, <4>1
      <4>3. o \in DOMAIN U
        BY <1>8, <4>2, LenProperties
      <4> QED  BY <4>2, <4>3 DEF ToSet
    <3>2. CASE i < first
      <4>1. first # 1
        BY <1>5, <2>3, <3>2
      <4>2. PICK b \in 1..n : q[b] = c.cursor /\ first = b + 1
        BY <1>4, <4>1
      <4>3. i <= b /\ b \in DOMAIN q
        BY <1>1, <2>3, <3>2, <4>2
      <4> QED  BY <4>2, <4>3
    <3> QED  BY <1>5, <2>3, <3>1, <3>2
  <2> QED  BY <2>2, <2>3
<1> QED  BY <1>2, <1>9, <1>10

-----------------------------------------------------------------------------
(* The invariant.                                                          *)

\* A row holds only what was sent by now, and no more of it.
Within(c) ==
  /\ Len(c.records) <= sent
  /\ \A i \in DOMAIN c.records : c.records[i] <= sent
  /\ c.cursor <= sent

\* CursorCoversLeads of a row, whether it is the one stored or one read before.
Covers(c) ==
  \A i, j \in DOMAIN c.records :
    i <= j /\ c.records[j] = c.cursor => c.records[i] \in leads

\* What a scheduler holds, from the row it read to the posts it made.
HoldsOK(c) ==
  /\ c.stage \in {"resolved", "started"} =>
       /\ Within(c.from) /\ Covers(c.from)
       /\ c.batch = Unread(c.from) /\ c.batch # <<>>
  /\ c.stage = "started" => reads[c.key].input = c.batch
  /\ c.stage = "posting" =>
       /\ reads[c.key].output = c.batch /\ c.batch # <<>>
       /\ c.ran \cup c.failed \cup ToSet(c.todo) = ToSet(c.batch)
       /\ c.ran \subseteq runs \cap leads
  /\ c.stage # "posting" => c.ran = {} /\ c.failed = {}

ReadsOK == \A w \in Rings : reads[w].output \in {<<>>, reads[w].input}

LeadInv ==
  /\ LeadTypeOK
  /\ Within(conn) /\ Covers(conn)
  /\ \A s \in Schedulers : HoldsOK(calls[s])
  /\ ReadsOK

-----------------------------------------------------------------------------
(* The steps.                                                              *)

LEMMA IdleFacts ==
  /\ NeverRead \in Connection /\ Idle \in Call
  /\ Idle.stage = "idle" /\ Idle.ran = {} /\ Idle.failed = {}
<1>1. NeverRead \in Connection
  BY EmptySequenced DEF NeverRead, Connection
<1>2. 0 \in Rings
  BY IntakeAssumption DEF Rings
<1> QED  BY <1>1, <1>2, EmptySequenced DEF Idle, Call, Stages

LEMMA IdleHolds == HoldsOK(Idle)
BY IdleFacts DEF HoldsOK

\* A step that only moves the call of one scheduler, and may start revenue
\* runs of leads.
LEMMA MoveStep ==
  ASSUME LeadInv, NEW s \in Schedulers, NEW c \in Call, Move(s, c),
         UNCHANGED <<conn, window, reads, leads, sent>>,
         runs \subseteq runs', runs' \subseteq leads, HoldsOK(c)'
  PROVE  LeadInv'
<1>1. calls \in [Schedulers -> Call]
  BY DEF LeadInv, LeadTypeOK
<1>2. calls' = [calls EXCEPT ![s] = c]
  BY DEF Move
<1>3. LeadTypeOK'
  BY <1>1, <1>2 DEF LeadInv, LeadTypeOK
<1>4. /\ Within(conn)' /\ Covers(conn)' /\ ReadsOK'
  BY DEF LeadInv, Within, Covers, ReadsOK
<1>5. ASSUME NEW t \in Schedulers
      PROVE  HoldsOK(calls[t])'
  <2>1. CASE t = s
    <3>1. calls'[t] = c
      BY <1>1, <1>2, <2>1
    <3> QED  BY <3>1 DEF HoldsOK, Within, Covers
  <2>2. CASE t # s
    <3>1. calls'[t] = calls[t] /\ HoldsOK(calls[t])
      BY <1>1, <1>2, <2>2 DEF LeadInv
    <3> QED  BY <3>1 DEF HoldsOK, Within, Covers
  <2> QED  BY <2>1, <2>2
<1> QED  BY <1>3, <1>4, <1>5 DEF LeadInv

LEMMA PollStep ==
  ASSUME LeadInv, NEW s \in Schedulers, Poll(s)
  PROVE  LeadInv'
<1>1. window \in Rings
  BY DEF LeadInv, LeadTypeOK
<1>2. PICK c \in Call : c = [Idle EXCEPT !.stage = "listed", !.key = window]
  BY <1>1, IdleFacts DEF Call, Stages
<1>3. Move(s, c) /\ UNCHANGED <<conn, window, reads, leads, runs, sent>>
  BY <1>2 DEF Poll
<1>4. c.stage = "listed" /\ c.ran = {} /\ c.failed = {}
  BY <1>2, IdleFacts DEF Call
<1>5. HoldsOK(c)'
  BY <1>4 DEF HoldsOK
<1> QED  BY <1>3, <1>5, MoveStep DEF LeadInv, LeadTypeOK

\* A call that ends, whatever it held.
LEMMA EndStep ==
  ASSUME LeadInv, NEW s \in Schedulers, Move(s, Idle),
         UNCHANGED <<conn, window, reads, leads, runs, sent>>
  PROVE  LeadInv'
<1>1. PICK c \in Call : c = Idle
  BY IdleFacts
<1>2. HoldsOK(c)'
  BY <1>1, IdleFacts DEF HoldsOK
<1> QED  BY <1>1, <1>2, MoveStep DEF LeadInv, LeadTypeOK

\* A call takes over the output a run of its key has stored.
LEMMA TakeOverStep ==
  ASSUME LeadInv, NEW s \in Schedulers, RunOf(s).output # <<>>,
         calls[s].stage # "posting", NEW c \in Call, Move(s, c),
         c.stage = "posting", c.key = calls[s].key,
         c.batch = RunOf(s).output, c.todo = RunOf(s).output,
         c.ran = calls[s].ran, c.failed = calls[s].failed,
         UNCHANGED <<conn, window, reads, leads, runs, sent>>
  PROVE  LeadInv'
<1>1. c.ran = {} /\ c.failed = {}
  BY DEF LeadInv, HoldsOK
<1>2. reads[c.key].output = c.batch /\ c.batch # <<>> /\ c.todo = c.batch
  BY DEF RunOf
<1>3. HoldsOK(c)'
  BY <1>1, <1>2 DEF HoldsOK
<1> QED  BY <1>3, MoveStep DEF LeadInv, LeadTypeOK

LEMMA ReplayReadStep ==
  ASSUME LeadInv, NEW s \in Schedulers, ReplayRead(s)
  PROVE  LeadInv'
<1>1. calls[s] \in Call /\ RunOf(s).output \in Sequenced
  BY DEF LeadInv, LeadTypeOK, RunOf, ReadRun, Call
<1>2. PICK c \in Call :
        c = [calls[s] EXCEPT !.stage = "posting", !.batch = RunOf(s).output,
                             !.todo = RunOf(s).output]
  BY <1>1 DEF Call, Stages
<1>3. /\ c.stage = "posting" /\ c.key = calls[s].key
      /\ c.batch = RunOf(s).output /\ c.todo = RunOf(s).output
      /\ c.ran = calls[s].ran /\ c.failed = calls[s].failed
  BY <1>1, <1>2 DEF Call
<1>4. /\ Move(s, c) /\ UNCHANGED <<conn, window, reads, leads, runs, sent>>
      /\ RunOf(s).output # <<>> /\ calls[s].stage # "posting"
  BY <1>2 DEF ReplayRead, At
<1> QED  BY <1>3, <1>4, TakeOverStep

LEMMA ReadBeforeStep ==
  ASSUME LeadInv, NEW s \in Schedulers, ReadBefore(s)
  PROVE  LeadInv'
<1>1. calls[s] \in Call /\ RunOf(s).output \in Sequenced
  BY DEF LeadInv, LeadTypeOK, RunOf, ReadRun, Call
<1>2. PICK c \in Call :
        c = [calls[s] EXCEPT !.stage = "posting", !.from = NeverRead,
                             !.batch = RunOf(s).output, !.todo = RunOf(s).output]
  BY <1>1, IdleFacts DEF Call, Stages
<1>3. /\ c.stage = "posting" /\ c.key = calls[s].key
      /\ c.batch = RunOf(s).output /\ c.todo = RunOf(s).output
      /\ c.ran = calls[s].ran /\ c.failed = calls[s].failed
  BY <1>1, <1>2 DEF Call
<1>4. /\ Move(s, c) /\ UNCHANGED <<conn, window, reads, leads, runs, sent>>
      /\ RunOf(s).output # <<>> /\ calls[s].stage # "posting"
  BY <1>2 DEF ReadBefore, At
<1> QED  BY <1>3, <1>4, TakeOverStep

LEMMA NoReplayStep ==
  ASSUME LeadInv, NEW s \in Schedulers, NoReplay(s)
  PROVE  LeadInv'
<1>1. calls[s] \in Call /\ HoldsOK(calls[s]) /\ calls[s].stage = "listed"
  BY DEF LeadInv, LeadTypeOK, NoReplay, At
<1>2. PICK c \in Call : c = [calls[s] EXCEPT !.stage = "unread"]
  BY <1>1 DEF Call, Stages
<1>3. c.stage = "unread" /\ c.ran = {} /\ c.failed = {}
  BY <1>1, <1>2 DEF Call, HoldsOK
<1>4. HoldsOK(c)'
  BY <1>3 DEF HoldsOK
<1>5. Move(s, c) /\ UNCHANGED <<conn, window, reads, leads, runs, sent>>
  BY <1>2 DEF NoReplay, Goes
<1> QED  BY <1>4, <1>5, MoveStep DEF LeadInv, LeadTypeOK

LEMMA ResolveStep ==
  ASSUME LeadInv, NEW s \in Schedulers, ResolveConnection(s)
  PROVE  LeadInv'
<1>1. /\ calls[s] \in Call /\ HoldsOK(calls[s]) /\ calls[s].stage = "unread"
      /\ conn \in Connection
  BY DEF LeadInv, LeadTypeOK, ResolveConnection, At
<1>2. PICK f \in Connection, b \in Sequenced : f = conn /\ b = Unread(conn)
  BY <1>1, UnreadFacts
<1>3. PICK c \in Call :
        c = [calls[s] EXCEPT !.stage = "resolved", !.from = f, !.batch = b]
  BY <1>1 DEF Call, Stages
<1>4. /\ c.stage = "resolved" /\ c.ran = {} /\ c.failed = {}
      /\ c.from = f /\ c.batch = b
  BY <1>1, <1>3 DEF Call, HoldsOK
<1>5. /\ Move(s, c) /\ UNCHANGED <<conn, window, reads, leads, runs, sent>>
      /\ b # <<>>
  BY <1>2, <1>3 DEF ResolveConnection
<1>6. Within(f) /\ Covers(f) /\ b = Unread(f)
  BY <1>2 DEF LeadInv
<1>7. Within(f)' /\ Covers(f)'
  BY <1>5, <1>6 DEF Within, Covers
<1>8. HoldsOK(c)'
  BY <1>4, <1>5, <1>6, <1>7 DEF HoldsOK
<1> QED  BY <1>5, <1>8, MoveStep DEF LeadInv, LeadTypeOK

\* What a scheduler holds stays right while others read and post, records are
\* sent and the run of its key keeps its input and output.
LEMMA HoldsKept ==
  ASSUME NEW c \in Call, HoldsOK(c), sent \in Nat, sent' \in Nat, sent <= sent',
         leads \subseteq leads', runs \subseteq runs',
         c.stage # "idle" =>
           /\ reads[c.key].input = <<>> \/ reads'[c.key].input = reads[c.key].input
           /\ reads[c.key].output = <<>> \/ reads'[c.key].output = reads[c.key].output
  PROVE  HoldsOK(c)'
<1> DEFINE q == c.from.records
<1>1. /\ Len(q) \in Nat /\ c.from.cursor \in Nat
      /\ \A i \in DOMAIN q : q[i] \in Int
  BY SequencedFacts, IntakeAssumption DEF Call, Connection, Records, NoCursor
<1>2. Within(c.from) => Within(c.from)'
  BY <1>1 DEF Within
<1>3. Covers(c.from) => Covers(c.from)'
  BY DEF Covers
<1> QED  BY <1>2, <1>3 DEF HoldsOK

LEMMA StartReadStep ==
  ASSUME LeadInv, NEW s \in Schedulers, StartRead(s)
  PROVE  LeadInv'
<1>1. /\ calls[s] \in Call /\ HoldsOK(calls[s]) /\ calls[s].stage = "resolved"
      /\ calls \in [Schedulers -> Call] /\ reads \in [Rings -> ReadRun]
  BY DEF LeadInv, LeadTypeOK, StartRead, At
<1>2. PICK k \in Rings, b \in Sequenced : k = calls[s].key /\ b = calls[s].batch
  BY <1>1 DEF Call
<1>3. PICK c \in Call : c = [calls[s] EXCEPT !.stage = "started"]
  BY <1>1 DEF Call, Stages
<1>4. /\ c.stage = "started" /\ c.key = k /\ c.batch = b /\ c.from = calls[s].from
      /\ c.ran = calls[s].ran /\ c.failed = calls[s].failed
  BY <1>1, <1>2, <1>3 DEF Call
<1>5. /\ calls' = [calls EXCEPT ![s] = c]
      /\ UNCHANGED <<conn, window, leads, runs, sent>>
      /\ reads[k].input \in {<<>>, b}
      /\ reads' = IF reads[k].input = <<>>
                  THEN [reads EXCEPT ![k].input = b] ELSE reads
  BY <1>2, <1>3 DEF StartRead, Goes, Move, Accepts, RunOf
<1>6. b # <<>>
  BY <1>1, <1>2 DEF HoldsOK
\* The key has the batch as its input now; no other run changed.
<1>7. /\ reads' \in [Rings -> ReadRun] /\ reads'[k].input = b
      /\ \A w \in Rings :
           /\ reads[w].input = <<>> \/ reads'[w].input = reads[w].input
           /\ reads'[w].output = reads[w].output
  BY <1>1, <1>5 DEF ReadRun
<1>8. ReadsOK'
  <2>1. ASSUME NEW w \in Rings
        PROVE  reads'[w].output \in {<<>>, reads'[w].input}
    BY <1>7 DEF LeadInv, ReadsOK
  <2> QED  BY <2>1 DEF ReadsOK
<1>9. LeadTypeOK'
  BY <1>1, <1>5, <1>7 DEF LeadInv, LeadTypeOK
<1>10. Within(conn)' /\ Covers(conn)'
  BY <1>5 DEF LeadInv, Within, Covers
<1>11. ASSUME NEW t \in Schedulers
       PROVE  HoldsOK(calls[t])'
  <2>1. CASE t = s
    <3>1. calls'[t] = c
      BY <1>1, <1>5, <2>1
    <3>2. Within(c.from)' /\ Covers(c.from)' /\ c.batch = Unread(c.from)
      BY <1>1, <1>2, <1>4, <1>5 DEF HoldsOK, Within, Covers
    <3>3. c.ran = {} /\ c.failed = {}
      BY <1>1, <1>4 DEF HoldsOK
    <3>4. HoldsOK(c)'
      BY <1>4, <1>6, <1>7, <3>2, <3>3 DEF HoldsOK
    <3> QED  BY <3>1, <3>4 DEF HoldsOK, Within, Covers
  <2>2. CASE t # s
    <3>1. PICK d \in Call : d = calls[t]
      BY <1>1
    <3>2. calls'[t] = d /\ HoldsOK(d) /\ d.key \in Rings
      BY <1>1, <1>5, <2>2, <3>1 DEF LeadInv, Call
    <3>3. sent \in Nat /\ sent' = sent /\ leads' = leads /\ runs' = runs
      BY <1>5, IntakeAssumption DEF LeadInv, LeadTypeOK
    <3>4. HoldsOK(d)'
      BY <1>7, <3>2, <3>3, HoldsKept
    <3> QED  BY <3>2, <3>4 DEF HoldsOK, Within, Covers
  <2> QED  BY <2>1, <2>2
<1> QED  BY <1>8, <1>9, <1>10, <1>11 DEF LeadInv

\* The write of a read covers: what is not in the batch before its last record
\* was covered by the cursor the read started from.
LEMMA AfterReadCovers ==
  ASSUME LeadTypeOK, NEW f \in Connection, Within(f), Covers(f),
         NEW b \in Sequenced, b = Unread(f), b # <<>>,
         leads' = leads \cup ToSet(b), sent' = sent
  PROVE  /\ AfterRead(f, b) \in Connection
         /\ Within(AfterRead(f, b))'
         /\ Covers(AfterRead(f, b))'
<1> DEFINE q == f.records
<1>1. PICK m \in DOMAIN q :
        /\ Last(b) = q[m]
        /\ \A i \in 1..m : q[i] \in ToSet(b)
                           \/ \E j \in DOMAIN q : i <= j /\ q[j] = f.cursor
  BY UnreadFacts
<1>2. /\ q \in Sequenced /\ Len(q) \in Nat /\ DOMAIN q = 1..Len(q)
      /\ \A i \in 1..Len(q) : q[i] \in Records /\ q[i] \in Int
      /\ \A i, j \in 1..Len(q) : i < j => q[i] < q[j]
  BY SequencedFacts DEF Connection
<1>3. PICK g \in Connection : g = AfterRead(f, b)
  BY <1>1, <1>2 DEF AfterRead, Connection
<1>4. g.records = q /\ g.cursor = q[m]
  BY <1>1, <1>3 DEF AfterRead, Connection
<1>5. Within(g)'
  BY <1>4 DEF Within
<1>6. Covers(g)'
  <2>1. ASSUME NEW i \in DOMAIN q, NEW j \in DOMAIN q, i <= j, q[j] = q[m]
        PROVE  q[i] \in leads'
    <3>1. j = m
      BY <1>2, <2>1
    <3>2. i \in 1..m
      BY <1>2, <2>1, <3>1
    <3> QED  BY <1>1, <2>1, <3>2 DEF Covers
  <2> QED  BY <1>4, <2>1 DEF Covers
<1> QED  BY <1>3, <1>5, <1>6

LEMMA CommitReadStep ==
  ASSUME LeadInv, NEW s \in Schedulers, CommitRead(s)
  PROVE  LeadInv'
<1>1. /\ calls[s] \in Call /\ HoldsOK(calls[s]) /\ calls[s].stage = "started"
      /\ calls \in [Schedulers -> Call] /\ reads \in [Rings -> ReadRun]
      /\ leads \subseteq Records /\ runs \subseteq leads /\ LeadTypeOK
  BY DEF LeadInv, LeadTypeOK, CommitRead, At
<1>2. PICK k \in Rings, f \in Connection, b \in Sequenced :
        k = calls[s].key /\ f = calls[s].from /\ b = calls[s].batch
  BY <1>1 DEF Call
<1>3. PICK c \in Call :
        c = [calls[s] EXCEPT !.stage = "posting", !.from = NeverRead, !.todo = b]
  BY <1>1, IdleFacts DEF Call, Stages
<1>4. /\ c.stage = "posting" /\ c.key = k /\ c.batch = b /\ c.todo = b
      /\ c.ran = {} /\ c.failed = {}
  BY <1>1, <1>2, <1>3 DEF Call, HoldsOK
<1>5. /\ Within(f) /\ Covers(f) /\ b = Unread(f) /\ b # <<>>
      /\ reads[k].input = b
  BY <1>1, <1>2 DEF HoldsOK
<1>6. /\ reads[k].output = <<>> /\ leads' = leads \cup ToSet(b)
      /\ conn' = AfterRead(f, b) /\ reads' = [reads EXCEPT ![k].output = b]
      /\ calls' = [calls EXCEPT ![s] = c]
      /\ UNCHANGED <<window, runs, sent>>
  BY <1>2, <1>3 DEF CommitRead, RunOf, Move
<1>7. ToSet(b) \subseteq Records
  BY SequencedFacts DEF ToSet
<1>8. /\ AfterRead(f, b) \in Connection
      /\ Within(AfterRead(f, b))' /\ Covers(AfterRead(f, b))'
  BY <1>1, <1>5, <1>6, AfterReadCovers
<1>9. PICK g \in Connection : g = AfterRead(f, b)
  BY <1>8
<1>10. conn' = g /\ Within(conn)' /\ Covers(conn)'
  BY <1>6, <1>8, <1>9 DEF Within, Covers
<1>11. /\ reads' \in [Rings -> ReadRun] /\ reads'[k].output = b
       /\ \A w \in Rings :
            /\ reads'[w].input = reads[w].input
            /\ reads[w].output = <<>> \/ reads'[w].output = reads[w].output
            /\ w # k => reads'[w].output = reads[w].output
  BY <1>1, <1>6 DEF ReadRun
<1>12. ReadsOK'
  <2>1. ASSUME NEW w \in Rings
        PROVE  reads'[w].output \in {<<>>, reads'[w].input}
    BY <1>5, <1>11 DEF LeadInv, ReadsOK
  <2> QED  BY <2>1 DEF ReadsOK
<1>13. LeadTypeOK'
  BY <1>1, <1>6, <1>7, <1>9, <1>10, <1>11 DEF LeadTypeOK
<1>14. ASSUME NEW t \in Schedulers
       PROVE  HoldsOK(calls[t])'
  <2>1. CASE t = s
    <3>1. calls'[t] = c
      BY <1>1, <1>6, <2>1
    <3>2. HoldsOK(c)'
      BY <1>4, <1>5, <1>11 DEF HoldsOK
    <3> QED  BY <3>1, <3>2 DEF HoldsOK, Within, Covers
  <2>2. CASE t # s
    <3>1. PICK d \in Call : d = calls[t]
      BY <1>1
    <3>2. calls'[t] = d /\ HoldsOK(d) /\ d.key \in Rings
      BY <1>1, <1>6, <2>2, <3>1 DEF LeadInv, Call
    <3>3. /\ sent \in Nat /\ sent' = sent /\ runs' = runs
          /\ leads \subseteq leads'
      BY <1>1, <1>6, IntakeAssumption DEF LeadTypeOK
    <3>4. HoldsOK(d)'
      BY <1>11, <3>2, <3>3, HoldsKept
    <3> QED  BY <3>2, <3>4 DEF HoldsOK, Within, Covers
  <2> QED  BY <2>1, <2>2
<1> QED  BY <1>10, <1>12, <1>13, <1>14 DEF LeadInv

\* One selector is posted: it moves from those to come to those that ran or
\* failed.
LEMMA PostStep ==
  ASSUME LeadInv, NEW s \in Schedulers, calls[s].stage = "posting",
         calls[s].todo # <<>>, NEW r, r = Head(calls[s].todo),
         NEW c \in Call, Move(s, c), c.stage = "posting", c.key = calls[s].key,
         c.batch = calls[s].batch, c.todo = Tail(calls[s].todo),
         c.ran \cup c.failed = calls[s].ran \cup calls[s].failed \cup {r},
         c.ran \subseteq runs' \cap leads,
         UNCHANGED <<conn, window, reads, leads, sent>>,
         runs \subseteq runs', runs' \subseteq leads
  PROVE  LeadInv'
<1>1. calls[s] \in Call /\ HoldsOK(calls[s])
  BY DEF LeadInv, LeadTypeOK
<1>2. ToSet(calls[s].todo) = {r} \cup ToSet(c.todo)
  BY <1>1, TailFacts DEF Call
<1>3. /\ reads[c.key].output = c.batch /\ c.batch # <<>>
      /\ c.ran \cup c.failed \cup ToSet(c.todo) = ToSet(c.batch)
  BY <1>1, <1>2 DEF HoldsOK
<1>4. HoldsOK(c)'
  BY <1>3 DEF HoldsOK
<1> QED  BY <1>4, MoveStep

LEMMA PostRunStep ==
  ASSUME LeadInv, NEW s \in Schedulers, PostRun(s)
  PROVE  LeadInv'
<1>1. /\ calls[s] \in Call /\ HoldsOK(calls[s]) /\ calls[s].stage = "posting"
      /\ calls[s].todo # <<>> /\ runs \subseteq leads
  BY DEF LeadInv, LeadTypeOK, PostRun, At
<1>2. PICK r \in Records : r = Head(calls[s].todo)
  BY <1>1, TailFacts DEF Call
<1>3. Tail(calls[s].todo) \in Sequenced
  BY <1>1, TailFacts DEF Call
<1>4. PICK c \in Call :
        c = [calls[s] EXCEPT !.todo = Tail(@), !.ran = @ \cup {r}]
  <2>1. calls[s].ran \cup {r} \in SUBSET Records
    BY <1>1, <1>2 DEF Call
  <2> QED  BY <1>1, <1>3, <2>1 DEF Call
<1>5. /\ c.stage = "posting" /\ c.key = calls[s].key /\ c.batch = calls[s].batch
      /\ c.todo = Tail(calls[s].todo) /\ c.ran = calls[s].ran \cup {r}
      /\ c.failed = calls[s].failed
  BY <1>1, <1>4 DEF Call
<1>6. /\ r \in leads /\ runs' = runs \cup {r} /\ Move(s, c)
      /\ UNCHANGED <<conn, window, reads, leads, sent>>
  BY <1>2, <1>4 DEF PostRun, IntakeResolves
<1>7. c.ran \subseteq runs' \cap leads
  BY <1>1, <1>5, <1>6 DEF HoldsOK
<1>8. /\ c.ran \cup c.failed = calls[s].ran \cup calls[s].failed \cup {r}
      /\ runs \subseteq runs' /\ runs' \subseteq leads
  BY <1>1, <1>5, <1>6
<1> QED  BY <1>1, <1>2, <1>5, <1>6, <1>7, <1>8, PostStep

LEMMA PostFailsStep ==
  ASSUME LeadInv, NEW s \in Schedulers, PostFails(s)
  PROVE  LeadInv'
<1>1. /\ calls[s] \in Call /\ HoldsOK(calls[s]) /\ calls[s].stage = "posting"
      /\ calls[s].todo # <<>> /\ runs \subseteq leads
  BY DEF LeadInv, LeadTypeOK, PostFails, At
<1>2. PICK r \in Records : r = Head(calls[s].todo)
  BY <1>1, TailFacts DEF Call
<1>3. Tail(calls[s].todo) \in Sequenced
  BY <1>1, TailFacts DEF Call
<1>4. PICK c \in Call :
        c = [calls[s] EXCEPT !.todo = Tail(@), !.failed = @ \cup {r}]
  <2>1. calls[s].failed \cup {r} \in SUBSET Records
    BY <1>1, <1>2 DEF Call
  <2> QED  BY <1>1, <1>3, <2>1 DEF Call
<1>5. /\ c.stage = "posting" /\ c.key = calls[s].key /\ c.batch = calls[s].batch
      /\ c.todo = Tail(calls[s].todo) /\ c.ran = calls[s].ran
      /\ c.failed = calls[s].failed \cup {r}
  BY <1>1, <1>4 DEF Call
<1>6. Move(s, c) /\ UNCHANGED <<conn, window, reads, leads, runs, sent>>
  BY <1>2, <1>4 DEF PostFails
<1>7. c.ran \subseteq runs' \cap leads
  BY <1>1, <1>5, <1>6 DEF HoldsOK
<1>8. /\ c.ran \cup c.failed = calls[s].ran \cup calls[s].failed \cup {r}
      /\ runs \subseteq runs' /\ runs' \subseteq leads
  BY <1>1, <1>5, <1>6
<1> QED  BY <1>1, <1>2, <1>5, <1>6, <1>7, <1>8, PostStep

\* The row after the operator buffers one more record.
LEMMA UpsertRow ==
  ASSUME LeadInv, Upsert
  PROVE  conn' \in Connection /\ Within(conn)' /\ Covers(conn)'
<1> DEFINE q == conn.records
<1>1. /\ conn \in Connection /\ Within(conn) /\ Covers(conn)
      /\ sent \in Nat /\ sent' = sent + 1 /\ sent + 1 \in Records
      /\ sent < MaxRecords /\ leads' = leads
  BY IntakeAssumption DEF LeadInv, LeadTypeOK, Upsert, Records
<1>2. /\ q \in Seq(Records) /\ Len(q) \in Nat /\ DOMAIN q = 1..Len(q)
      /\ \A i \in 1..Len(q) : q[i] \in Records /\ q[i] \in Int
      /\ \A i, j \in 1..Len(q) : i < j => q[i] < q[j]
  BY <1>1, SequencedFacts DEF Connection
<1>3. /\ Len(q) <= sent /\ conn.cursor <= sent /\ conn.cursor \in Nat
      /\ \A i \in 1..Len(q) : q[i] <= sent
  BY <1>1, <1>2, IntakeAssumption DEF Within, Connection, Records, NoCursor
<1>4. PICK n \in Records : n = sent + 1
  BY <1>1
<1>5. ASSUME NEW r \in Sequenced, NEW p \in {conn.cursor, NoCursor},
             conn' = [conn EXCEPT !.records = r, !.cursor = p],
             Len(r) <= sent + 1,
             \A i \in DOMAIN r : r[i] <= sent + 1,
             \A i, j \in DOMAIN r :
               i <= j /\ r[j] = p => \E l, m \in DOMAIN q :
                                       l <= m /\ q[l] = r[i] /\ q[m] = conn.cursor
      PROVE  conn' \in Connection /\ Within(conn)' /\ Covers(conn)'
  <2>1. conn'.records = r /\ conn'.cursor = p /\ conn' \in Connection
    BY <1>1, <1>5 DEF Connection
  <2>2. p <= sent + 1
    BY <1>1, <1>3, <1>5 DEF NoCursor
  <2>3. Within(conn)'
    BY <1>1, <1>5, <2>1, <2>2 DEF Within
  <2>4. Covers(conn)'
    BY <1>1, <1>5, <2>1 DEF Covers
  <2> QED  BY <2>1, <2>3, <2>4
<1>6. ASSUME NEW p \in {conn.cursor, NoCursor},
             conn' = [conn EXCEPT !.records = Append(@, n), !.cursor = p]
      PROVE  conn' \in Connection /\ Within(conn)' /\ Covers(conn)'
  <2> DEFINE r == Append(q, n)
  <2>1. /\ r \in Seq(Records) /\ Len(r) = Len(q) + 1 /\ DOMAIN r = 1..Len(r)
        /\ \A i \in 1..Len(q) : r[i] = q[i]
        /\ r[Len(q) + 1] = n
    BY <1>2, AppendProperties, LenProperties
  <2>2. conn' = [conn EXCEPT !.records = r, !.cursor = p]
    BY <1>6
  <2> HIDE DEF r
  <2>3. ASSUME NEW i \in 1..Len(r), NEW j \in 1..Len(r), i < j
        PROVE  r[i] < r[j]
    <3>1. i \in 1..Len(q)
      BY <1>2, <2>1, <2>3
    <3>2. CASE j \in 1..Len(q)
      BY <1>2, <2>1, <2>3, <3>1, <3>2
    <3>3. CASE j = Len(q) + 1
      BY <1>1, <1>2, <1>3, <1>4, <2>1, <3>1, <3>3
    <3> QED  BY <1>2, <2>1, <3>2, <3>3
  <2>4. Len(r) <= MaxRecords /\ Len(r) <= sent + 1
    BY <1>1, <1>2, <1>3, <2>1, IntakeAssumption
  <2>5. r \in Sequenced
    BY <2>1, <2>3, <2>4, IsSequenced
  <2>6. ASSUME NEW i \in DOMAIN r
        PROVE  \/ i \in 1..Len(q) /\ r[i] = q[i]
               \/ i = Len(q) + 1 /\ r[i] = sent + 1
    BY <1>2, <1>4, <2>1
  <2>7. \A i \in DOMAIN r : r[i] <= sent + 1
    BY <1>1, <1>2, <1>3, <2>6
  <2>8. ASSUME NEW i \in DOMAIN r, NEW j \in DOMAIN r, i <= j, r[j] = p
        PROVE  \E l, m \in DOMAIN q :
                 l <= m /\ q[l] = r[i] /\ q[m] = conn.cursor
    <3>1. j \in 1..Len(q) /\ r[j] = q[j]
      BY <1>1, <1>3, <1>6, <2>6, <2>8 DEF NoCursor
    <3>2. p = conn.cursor
      BY <1>2, <1>6, <2>8, <3>1, IntakeAssumption DEF Records, NoCursor
    <3>3. i \in 1..Len(q) /\ r[i] = q[i]
      BY <1>2, <2>1, <2>8, <3>1
    <3> QED  BY <1>2, <2>8, <3>1, <3>2, <3>3
  <2> QED  BY <1>5, <2>2, <2>4, <2>5, <2>7, <2>8
<1>7. ASSUME conn' = [conn EXCEPT !.records = <<n>>]
      PROVE  conn' \in Connection /\ Within(conn)' /\ Covers(conn)'
  <2> DEFINE r == <<n>>
  <2>1. r \in Seq(Records) /\ Len(r) = 1 /\ DOMAIN r = {1} /\ r[1] = n
    OBVIOUS
  <2> HIDE DEF r
  <2>2. r \in Sequenced
    BY <2>1, IntakeAssumption, IsSequenced
  <2>3. conn' = [conn EXCEPT !.records = r, !.cursor = conn.cursor]
    BY <1>1, <1>7 DEF Connection, r
  <2>4. conn.cursor # n
    BY <1>1, <1>3, <1>4
  <2>5. Len(r) <= sent + 1 /\ \A i \in DOMAIN r : r[i] <= sent + 1
    BY <1>1, <1>4, <2>1
  <2> QED  BY <1>5, <2>1, <2>2, <2>3, <2>4, <2>5
<1>8. \/ \E p \in {conn.cursor, NoCursor} :
           conn' = [conn EXCEPT !.records = Append(@, n), !.cursor = p]
      \/ conn' = [conn EXCEPT !.records = <<n>>]
  BY <1>4 DEF Upsert
<1> QED  BY <1>6, <1>7, <1>8

LEMMA UpsertStep ==
  ASSUME LeadInv, Upsert
  PROVE  LeadInv'
<1>1. conn' \in Connection /\ Within(conn)' /\ Covers(conn)'
  BY UpsertRow
<1>2. /\ UNCHANGED <<window, reads, leads, runs, calls>>
      /\ sent \in 0..MaxRecords /\ sent < MaxRecords /\ sent' = sent + 1
  BY DEF LeadInv, LeadTypeOK, Upsert
<1>3. LeadTypeOK'
  <2>1. sent' \in 0..MaxRecords
    BY <1>2, IntakeAssumption
  <2> QED  BY <1>1, <1>2, <2>1 DEF LeadInv, LeadTypeOK
<1>4. ReadsOK'
  BY <1>2 DEF LeadInv, ReadsOK
<1>5. ASSUME NEW t \in Schedulers
      PROVE  HoldsOK(calls[t])'
  <2>1. PICK d \in Call : d = calls[t]
    BY DEF LeadInv, LeadTypeOK
  <2>2. HoldsOK(d) /\ calls'[t] = d
    BY <1>2, <2>1 DEF LeadInv
  <2>3. sent \in Nat /\ sent' \in Nat /\ sent <= sent'
    BY <1>2, IntakeAssumption
  <2>4. HoldsOK(d)'
    BY <1>2, <2>2, <2>3, HoldsKept
  <2> QED  BY <2>2, <2>4 DEF HoldsOK, Within, Covers
<1> QED  BY <1>1, <1>3, <1>4, <1>5 DEF LeadInv

\* The number of a window is used again only when no call holds its key.
LEMMA NextWindowStep ==
  ASSUME LeadInv, NextWindow
  PROVE  LeadInv'
<1>1. /\ window \in Rings /\ conn \in Connection /\ reads \in [Rings -> ReadRun]
      /\ calls \in [Schedulers -> Call] /\ sent \in Nat
  BY IntakeAssumption DEF LeadInv, LeadTypeOK
<1>2. (window + 1) % Windows \in Rings
  BY <1>1, IntakeAssumption DEF Rings
<1>3. PICK next \in Rings : next = (window + 1) % Windows
  BY <1>2
<1>4. /\ \A s \in Schedulers : calls[s].stage = "idle" \/ calls[s].key # next
      /\ window' = next /\ reads' = [reads EXCEPT ![next] = NoRun]
      /\ conn' = [conn EXCEPT !.fresh = FALSE]
      /\ UNCHANGED <<leads, runs, calls, sent>>
  BY <1>3 DEF NextWindow, At
<1>5. NoRun \in ReadRun /\ NoRun.output = <<>>
  BY EmptySequenced DEF NoRun, ReadRun
<1>6. /\ reads' \in [Rings -> ReadRun] /\ reads'[next] = NoRun
      /\ \A w \in Rings : w # next => reads'[w] = reads[w]
  BY <1>1, <1>4, <1>5
<1>7. /\ conn' \in Connection /\ conn'.records = conn.records
      /\ conn'.cursor = conn.cursor
  BY <1>1, <1>4 DEF Connection
<1>8. Within(conn)' /\ Covers(conn)'
  BY <1>4, <1>7 DEF LeadInv, Within, Covers
<1>9. LeadTypeOK'
  BY <1>4, <1>6, <1>7 DEF LeadInv, LeadTypeOK
<1>10. ReadsOK'
  <2>1. ASSUME NEW w \in Rings
        PROVE  reads'[w].output \in {<<>>, reads'[w].input}
    BY <1>5, <1>6 DEF LeadInv, ReadsOK
  <2> QED  BY <2>1 DEF ReadsOK
<1>11. ASSUME NEW t \in Schedulers
       PROVE  HoldsOK(calls[t])'
  <2>1. PICK d \in Call : d = calls[t]
    BY <1>1
  <2>2. HoldsOK(d) /\ calls'[t] = d /\ d.key \in Rings
    BY <1>4, <2>1 DEF LeadInv, Call
  <2>3. d.stage # "idle" => reads'[d.key] = reads[d.key]
    BY <1>4, <1>6, <2>1, <2>2
  <2>4. HoldsOK(d)'
    BY <1>1, <1>4, <2>2, <2>3, HoldsKept
  <2> QED  BY <2>2, <2>4 DEF HoldsOK, Within, Covers
<1> QED  BY <1>8, <1>9, <1>10, <1>11 DEF LeadInv

LEMMA LeadInitial == LeadInit => LeadInv
<1>1. SUFFICES ASSUME LeadInit PROVE LeadInv
  OBVIOUS
<1>2. NoRun \in ReadRun /\ NoRun.output = <<>>
  BY EmptySequenced DEF NoRun, ReadRun
<1>3. LeadTypeOK
  BY <1>1, <1>2, IdleFacts, IntakeAssumption DEF LeadInit, LeadTypeOK, Rings
<1>4. Within(conn) /\ Covers(conn)
  BY <1>1 DEF LeadInit, NeverRead, NoCursor, Within, Covers
<1>5. ReadsOK
  BY <1>1, <1>2 DEF LeadInit, ReadsOK
<1>6. \A s \in Schedulers : HoldsOK(calls[s])
  BY <1>1, IdleHolds DEF LeadInit
<1> QED  BY <1>3, <1>4, <1>5, <1>6 DEF LeadInv

LEMMA LeadNextStep == LeadInv /\ [LeadNext]_vars => LeadInv'
<1>1. SUFFICES ASSUME LeadInv, [LeadNext]_vars PROVE LeadInv'
  OBVIOUS
<1>2. CASE UNCHANGED vars
  BY <1>1, <1>2
  DEF vars, LeadInv, LeadTypeOK, Within, Covers, HoldsOK, ReadsOK
<1>3. ASSUME NEW s \in Schedulers,
             Exhausted(s) \/ Conflict(s) \/ EndCycle(s) \/ CutOff(s)
      PROVE  LeadInv'
  BY <1>1, <1>3, EndStep DEF Exhausted, Conflict, EndCycle, CutOff
<1>4. ASSUME NEW s \in Schedulers,
             Poll(s) \/ Proceed(s) \/ PostFails(s) \/ CutOff(s)
      PROVE  LeadInv'
  BY <1>1, <1>3, <1>4, PollStep, ReplayReadStep, NoReplayStep, ResolveStep,
     StartReadStep, CommitReadStep, ReadBeforeStep, PostRunStep, PostFailsStep
  DEF Proceed
<1> QED  BY <1>1, <1>2, <1>4, UpsertStep, NextWindowStep DEF LeadNext

-----------------------------------------------------------------------------
(* The theorems.                                                           *)

\* The invariant above holds in every reachable state: the rows and batches
\* that schedulers hold while the stored row moves on, the runs of the windows'
\* keys and the counts of the loop over the selectors agree.
THEOREM LeadInvariant == LeadSpec => []LeadInv
BY LeadInitial, LeadNextStep, PTL DEF LeadSpec

\* Every value the polls keep has its type: buffers stay in the order in which
\* their records were sent, whatever is appended, read or written back late,
\* and a revenue run has its lead.
THEOREM LeadTypesCorrect == LeadSpec => []LeadTypeOK
<1>1. LeadInv => LeadTypeOK
  BY DEF LeadInv
<1> QED  BY <1>1, LeadInvariant, PTL

\* No record is skipped: a cursor, however old the row it was computed from,
\* stands only behind records that are leads.
THEOREM NoRecordIsSkipped == LeadSpec => []CursorCoversLeads
<1>1. LeadInv => CursorCoversLeads
  BY DEF LeadInv, Covers, CursorCoversLeads
<1> QED  BY <1>1, LeadInvariant, PTL

\* The key of a polling window stands for one read: schedulers that replay it
\* or come second get the records it stored, and those it was started with.
THEOREM WindowsAreReadOnce == LeadSpec => []OneReadPerWindow
<1>1. LeadInv => OneReadPerWindow
  BY DEF LeadInv, ReadsOK, HoldsOK, OneReadPerWindow, At, RunOf
<1> QED  BY <1>1, LeadInvariant, PTL

\* The result of a cycle accounts for every selector of its read, whatever
\* failed, and reports a run only where there is one, on a lead.
THEOREM ReportsAreWhole == LeadSpec => []ReportIsWhole
<1>1. ASSUME LeadInv, NEW s \in Schedulers, Reported(s)
      PROVE  /\ calls[s].ran \cup calls[s].failed = ToSet(RunOf(s).output)
             /\ calls[s].ran \subseteq runs \cap leads
  <2>1. calls[s].stage = "posting" /\ calls[s].todo = <<>> /\ HoldsOK(calls[s])
    BY <1>1 DEF Reported, At, LeadInv
  <2>2. ToSet(calls[s].todo) = {}
    BY <2>1, EmptySequenced
  <2> QED  BY <2>1, <2>2 DEF HoldsOK, RunOf
<1>2. LeadInv => ReportIsWhole
  BY <1>1 DEF ReportIsWhole
<1> QED  BY <1>2, LeadInvariant, PTL
=============================================================================
