------------------------ MODULE BatchProcessor_proofs ------------------------
(***************************************************************************)
(* For any number of batches, items, crashes and failed writes: no item is  *)
(* handed to the provider twice, no batch gets a second worker, and a       *)
(* recorded answer stays.  The checkpoint of an item tells whether it was    *)
(* sent, and the worker of a batch knows its checkpoint while it is delayed  *)
(* or waits; that is the inductive invariant.                               *)
(***************************************************************************)
EXTENDS BatchProcessor, FiniteSetTheorems, WellFoundedInduction, TLAPS

(* A worker only runs for a batch that was started and has no other verdict    *)
(* than that it was cancelled.                                                 *)
RunsStarted(b) ==
    /\ ~Idle(b) => row[b].status \in {"in_progress", "finalizing", "cancelling",
                                      "cancelled", "deleted"}
    /\ Closing(b) => row[b].status = "finalizing"

(* What a worker knows of the item it has in hand.                            *)
InHand(b) ==
    /\ worker[b].pc \in {"throttled", "waiting"} => worker[b].next \in Lines(b)
    /\ worker[b].pc = "throttled" /\ Exists(b) => Current(b) \in Unsent
    /\ worker[b].pc = "waiting" /\ Exists(b) => Current(b) = "processing"

(* What the checkpoints know of the provider.                                 *)
SentOnce(b) ==
    \A i \in Lines(b) :
        /\ sent[b][i] <= 1
        /\ row[b].status # "deleted" /\ checkpoint[b][i] \in Unsent => sent[b][i] = 0

BatchInv(b) == RunsStarted(b) /\ InHand(b) /\ SentOnce(b)

IInv == TypeOK /\ \A b \in Batches : BatchInv(b)

-----------------------------------------------------------------------------
(* The log and the counts.                                                    *)

LEMMA LoggedFinite ==
    ASSUME NEW log \in Seq(EntryType), NEW outcomes
    PROVE  Cardinality(Logged(log, outcomes)) \in Nat
<1>1. IsFiniteSet(1..Len(log))
  BY FS_Interval
<1>2. Logged(log, outcomes) \subseteq 1..Len(log)
  BY DEF Logged
<1> QED
  BY <1>1, <1>2, FS_Subset, FS_CardinalityType

LEMMA CountedType ==
    ASSUME NEW r \in RowType, NEW log \in Seq(EntryType)
    PROVE  Counted(r, log) \in RowType /\ Counted(r, log).status = r.status
BY LoggedFinite DEF Counted, RowType

LEMMA LinesOfType ==
    ASSUME NEW log \in Seq(EntryType), NEW outcomes
    PROVE  LinesOf(log, outcomes) \in SUBSET Nat
<1> SUFFICES ASSUME NEW i \in Logged(log, outcomes) PROVE log[i].line \in Nat
  BY DEF LinesOf
<1>1. i \in 1..Len(log)
  BY DEF Logged
<1>2. log[i] \in EntryType
  BY <1>1
<1> QED
  BY <1>2 DEF EntryType

(* What a step leaves alone of a batch keeps its part of the invariant.       *)
LEMMA Frame ==
    ASSUME NEW b \in Batches, BatchInv(b),
           row'[b].status = row[b].status, worker'[b] = worker[b],
           checkpoint'[b] = checkpoint[b], sent'[b] = sent[b]
    PROVE  BatchInv(b)'
BY DEF BatchInv, RunsStarted, Closing, InHand, SentOnce, Idle, Exists, Current, Lines

(* The end of a worker disturbs nothing.                                      *)
LEMMA WorkerEnds ==
    ASSUME NEW b \in Batches, BatchInv(b), worker'[b] = NoWorker,
           row'[b].status = "deleted" <=> row[b].status = "deleted",
           checkpoint'[b] = checkpoint[b], sent'[b] = sent[b]
    PROVE  BatchInv(b)'
BY DEF BatchInv, RunsStarted, Closing, InHand, SentOnce, Idle, Exists, Current, Lines, NoWorker

-----------------------------------------------------------------------------
LEMMA InitIInv == Init => IInv
<1> SUFFICES ASSUME Init PROVE IInv
  OBVIOUS
<1>1. \A b \in Batches : Size[b] \in Nat
  BY BatchesAssumption
<1>2. NewRow \in RowType /\ \A n \in Nat :
        [NewRow EXCEPT !.status = "in_progress", !.total = n] \in RowType
  BY DEF NewRow, RowType, Statuses, Pending
<1>3. row \in [Batches -> RowType]
  BY <1>1, <1>2 DEF Init
<1>4. worker \in [Batches -> WorkerType]
  <2>1. <<>> \in Seq(EntryType)
    OBVIOUS
  <2>2. NoWorker \in WorkerType
    BY <2>1 DEF NoWorker, WorkerType
  <2> QED
    BY <2>2 DEF Init
<1>5. TypeOK
  <2>1. DOMAIN checkpoint = Batches /\ DOMAIN sent = Batches
    BY DEF Init
  <2>2. ASSUME NEW b \in Batches
        PROVE  checkpoint[b] \in [Lines(b) -> Checkpoints] /\ sent[b] \in [Lines(b) -> Nat]
    BY DEF Init, Checkpoints, Unsent
  <2>3. input \in [Batches -> {"valid", "invalid", "gone"}]
    BY DEF Init
  <2>4. age \in [Batches -> {"new", "late", "old"}] /\ overrun \in [Batches -> Nat]
    BY DEF Init
  <2>5. crashes \in 0..MaxCrashes /\ faults \in 0..MaxFaults
    <3>1. crashes = 0 /\ faults = 0
      BY Zenon DEF Init
    <3> QED
      BY <3>1, LimitsAssumption
  <2> QED
    BY <1>3, <1>4, <2>1, <2>2, <2>3, <2>4, <2>5 DEF TypeOK
<1>6. ASSUME NEW b \in Batches PROVE BatchInv(b)
  <2>1. worker[b] = NoWorker
    BY DEF Init
  <2>2. sent[b] = [i \in Lines(b) |-> 0]
    BY DEF Init
  <2> QED
    BY <2>1, <2>2 DEF BatchInv, RunsStarted, Closing, InHand, SentOnce, Idle, NoWorker
<1> QED
  BY <1>5, <1>6 DEF IInv

(* The routes and the clock touch no worker, and delete only what has ended.  *)
LEMMA RouteKeeps ==
    ASSUME IInv, NEW b \in Batches, Route(b) \/ Pass(b) PROVE IInv'
<1>1. row[b] \in RowType /\ row \in [Batches -> RowType]
  BY DEF IInv, TypeOK
<1>2. CASE Create(b)
  <2>1. row' \in [Batches -> RowType]
    BY <1>1, <1>2 DEF Create, RowType, Statuses, Pending
  <2>2. TypeOK'
    BY <1>2, <2>1 DEF Create, IInv, TypeOK, history, Lines
  <2>3. ASSUME NEW c \in Batches PROVE BatchInv(c)'
    <3>1. BatchInv(c)
      BY DEF IInv
    <3>2. CASE c # b
      BY <1>1, <1>2, <3>1, <3>2, Frame DEF Create, history
    <3>3. CASE c = b
      <4>1. row[b].status = "absent" /\ Idle(b)
        BY <1>2, <3>1, <3>3 DEF Create, BatchInv, RunsStarted
      <4>2. row'[b].status = "validating"
        BY <1>1, <1>2 DEF Create, RowType
      <4> QED
        BY <1>2, <3>1, <3>3, <4>1, <4>2
        DEF Create, BatchInv, RunsStarted, Closing, InHand, SentOnce, Idle, Lines, history
    <3> QED
      BY <3>2, <3>3
  <2> QED
    BY <2>2, <2>3 DEF IInv
<1>3. CASE Cancel(b)
  <2>1. row' \in [Batches -> RowType]
    BY <1>1, <1>3 DEF Cancel, RowType, Statuses, Pending
  <2>2. TypeOK'
    BY <1>3, <2>1 DEF Cancel, IInv, TypeOK, history, Lines
  <2>3. ASSUME NEW c \in Batches PROVE BatchInv(c)'
    <3>1. BatchInv(c)
      BY DEF IInv
    <3>2. CASE c # b
      BY <1>1, <1>3, <3>1, <3>2, Frame DEF Cancel, history
    <3>3. CASE c = b
      <4>1. row[b].status \in Pending
        BY <1>3 DEF Cancel
      <4>2. row'[b].status = "cancelling"
        BY <1>1, <1>3 DEF Cancel, RowType
      <4> QED
        BY <1>3, <3>1, <3>3, <4>1, <4>2
        DEF Cancel, BatchInv, RunsStarted, Closing, InHand, SentOnce, Idle, Lines, Exists, Current,
            history, Pending
    <3> QED
      BY <3>2, <3>3
  <2> QED
    BY <2>2, <2>3 DEF IInv
<1>4. CASE Delete(b)
  <2>1. row' \in [Batches -> RowType] /\ row'[b].status = "deleted"
    BY <1>1, <1>4 DEF Delete, NewRow, RowType, Statuses
  <2>2. TypeOK'
    BY <1>4, <2>1 DEF Delete, IInv, TypeOK, history, Lines, Checkpoints, Unsent
  <2>3. ASSUME NEW c \in Batches PROVE BatchInv(c)'
    <3>1. BatchInv(c)
      BY DEF IInv
    <3>2. CASE c # b
      BY <1>1, <1>4, <3>1, <3>2, Frame DEF Delete, history, IInv, TypeOK
    <3>3. CASE c = b
      BY <1>4, <2>1, <3>1, <3>3
      DEF Delete, BatchInv, RunsStarted, Closing, InHand, SentOnce, Idle, Lines, Exists, history,
          Terminal
    <3> QED
      BY <3>2, <3>3
  <2> QED
    BY <2>2, <2>3 DEF IInv
<1>5. CASE LoseInput(b) \/ Pass(b)
  <2>1. TypeOK'
    BY <1>5 DEF LoseInput, Pass, IInv, TypeOK, tables, history, Lines
  <2>2. ASSUME NEW c \in Batches PROVE BatchInv(c)'
    BY <1>5, Frame DEF LoseInput, Pass, IInv, tables, history
  <2> QED
    BY <2>1, <2>2 DEF IInv
<1> QED
  BY <1>2, <1>3, <1>4, <1>5 DEF Route

-----------------------------------------------------------------------------
(* The poll.                                                                  *)

LEMMA RecoveredFacts ==
    ASSUME TypeOK, NEW b \in Batches
    PROVE  /\ Recovered(b) \in RowType
           /\ ~Idle(b) => Recovered(b) = row[b]
           /\ Recovered(b).status \in {row[b].status, "failed", "validating"}
           /\ Recovered(b).status # row[b].status =>
                row[b].status \in {"in_progress", "finalizing"}
<1>1. row[b] \in RowType
  BY DEF TypeOK
<1> QED
  BY <1>1 DEF Recovered, Stale, RowType, Statuses, Pending, Terminal

LEMMA PolledFacts ==
    ASSUME TypeOK, NEW b \in Batches
    PROVE  /\ Polled(b) \in RowType
           /\ Starts(b) => /\ Polled(b).status = "in_progress"
                           /\ Recovered(b).status = "validating"
           /\ ~Starts(b) => Polled(b).status \in
                {Recovered(b).status, "failed", "cancelled", "expired"}
           /\ Polled(b).status # Recovered(b).status =>
                \/ Recovered(b).status = "validating"
                \/ Recovered(b).status = "cancelling" /\ Polled(b).status = "cancelled"
<1>1. Recovered(b) \in RowType
  BY RecoveredFacts
<1>2. Size[b] \in Nat
  BY BatchesAssumption
<1>3. b \in Chosen => b \in Validating /\ Recovered(b).status = "validating"
  BY DEF Chosen, Validating
<1>4. Begun(b) \in RowType /\ Begun(b).status \in {"failed", "in_progress"}
      /\ (Begun(b).status = "in_progress" <=> input[b] \notin {"gone", "invalid"})
  BY <1>1, <1>2 DEF Begun, RowType, Statuses, Pending, Terminal
<1>5. b \in Chosen => Polled(b) = Begun(b)
  BY DEF Polled
<1>6. b \notin Chosen =>
        /\ Polled(b) \in RowType
        /\ Polled(b).status \in {Recovered(b).status, "cancelled", "expired"}
        /\ Polled(b).status # Recovered(b).status =>
             \/ Recovered(b).status = "validating"
             \/ Recovered(b).status = "cancelling" /\ Polled(b).status = "cancelled"
  BY <1>1 DEF Polled, Validating, RowType, Statuses, Pending, Terminal
<1>7. input[b] \in {"valid", "invalid", "gone"}
  BY DEF TypeOK
<1> QED
  BY <1>3, <1>4, <1>5, <1>6, <1>7 DEF Starts

LEMMA PollKeeps == ASSUME IInv, Poll PROVE IInv'
<1>1. TypeOK
  BY DEF IInv
<1>2. TypeOK'
  <2>1. row' \in [Batches -> RowType]
    BY <1>1, PolledFacts DEF Poll
  <2>2. DOMAIN checkpoint' = Batches
    BY DEF Poll
  <2>3. ASSUME NEW b \in Batches PROVE checkpoint'[b] \in [Lines(b) -> Checkpoints]
    <3>1. checkpoint[b] \in [Lines(b) -> Checkpoints]
      BY <1>1 DEF TypeOK
    <3>2. \A i \in Lines(b) : Ensured(b, i) \in Checkpoints
      BY <3>1 DEF Ensured, Checkpoints, Unsent
    <3>3. checkpoint'[b] = [i \in Lines(b) |-> Ensured(b, i)]
      BY DEF Poll
    <3> QED
      BY <3>2, <3>3
  <2>4. input' \in [Batches -> {"valid", "invalid", "gone"}]
    <3>1. \A b \in Batches : input[b] \in {"valid", "invalid", "gone"}
      BY <1>1 DEF TypeOK
    <3> QED
      BY <3>1 DEF Poll
  <2>5. worker' \in [Batches -> WorkerType]
    <3>1. \A b \in Batches : worker[b] \in WorkerType
      BY <1>1 DEF TypeOK
    <3>2. <<>> \in Seq(EntryType)
      OBVIOUS
    <3>3. [NoWorker EXCEPT !.pc = "starting"] = [pc |-> "starting", next |-> 1, log |-> <<>>]
      BY DEF NoWorker
    <3>4. [pc |-> "starting", next |-> 1, log |-> <<>>] \in WorkerType
      BY <3>2 DEF WorkerType
    <3> QED
      BY <3>1, <3>3, <3>4 DEF Poll
  <2>6. UNCHANGED <<age, sent, overrun, crashes, faults>>
    BY DEF Poll, history
  <2> QED
    BY <1>1, <2>1, <2>2, <2>3, <2>4, <2>5, <2>6 DEF TypeOK, Lines
<1>3. ASSUME NEW b \in Batches PROVE BatchInv(b)'
  <2>1. BatchInv(b) /\ checkpoint[b] \in [Lines(b) -> Checkpoints]
    BY DEF IInv, TypeOK
  <2>2. row'[b] = Polled(b) /\ sent'[b] = sent[b]
    BY DEF Poll, history
  <2>3. checkpoint'[b] = [i \in Lines(b) |-> Ensured(b, i)]
    BY DEF Poll
  <2>4. CASE Starts(b)
    <3>1. worker'[b] = [NoWorker EXCEPT !.pc = "starting"]
      BY <2>4 DEF Poll
    <3>2. worker'[b].pc = "starting" /\ row'[b].status = "in_progress"
      BY <1>1, <2>2, <2>4, <3>1, PolledFacts DEF NoWorker
    <3>3. row[b].status # "deleted"
      BY <1>1, <2>4, PolledFacts, RecoveredFacts
    <3>4. \A i \in Lines(b) : checkpoint'[b][i] \in Unsent => checkpoint[b][i] \in Unsent
      BY <2>3 DEF Ensured, Unsent
    <3> QED
      BY <2>1, <2>2, <3>2, <3>3, <3>4
      DEF BatchInv, RunsStarted, Closing, InHand, SentOnce, Idle, Lines
  <2>5. CASE ~Starts(b)
    <3>1. worker'[b] = worker[b] /\ checkpoint'[b] = checkpoint[b]
      BY <2>1, <2>3, <2>5 DEF Poll, Ensured
    <3>2. CASE Idle(b)
      <4>1. row[b].status = "deleted" => row'[b].status = "deleted"
        BY <1>1, <2>2, <2>5, PolledFacts, RecoveredFacts
      <4>2. worker'[b].pc = "off"
        BY <3>1, <3>2 DEF Idle
      <4>3. RunsStarted(b)' /\ InHand(b)'
        BY <4>2 DEF RunsStarted, Closing, InHand, Idle
      <4>4. SentOnce(b)'
        BY <2>1, <2>2, <3>1, <4>1 DEF BatchInv, SentOnce, Lines
      <4> QED
        BY <4>3, <4>4 DEF BatchInv
    <3>3. CASE ~Idle(b)
      <4>1. row[b].status \in {"in_progress", "finalizing", "cancelling", "cancelled", "deleted"}
        BY <2>1, <3>3 DEF BatchInv, RunsStarted
      <4>2. Recovered(b) = row[b]
        BY <1>1, <3>3, RecoveredFacts
      <4>3. \/ row'[b].status = row[b].status
            \/ row[b].status = "cancelling" /\ row'[b].status = "cancelled"
        BY <1>1, <2>2, <4>1, <4>2, PolledFacts
      <4> QED
        BY <2>1, <2>2, <3>1, <4>1, <4>3
        DEF BatchInv, RunsStarted, Closing, InHand, SentOnce, Idle, Lines, Exists, Current
    <3> QED
      BY <3>2, <3>3
  <2> QED
    BY <2>4, <2>5
<1> QED
  BY <1>2, <1>3 DEF IInv

-----------------------------------------------------------------------------
(* The worker.                                                                *)

(* A worker that looks at an item.                                            *)
LEMMA AtItemFacts ==
    ASSUME IInv, NEW b \in Batches, AtItem(b)
    PROVE  ~Idle(b) /\ ~Closing(b) /\ Exists(b) /\ worker[b].next \in Lines(b)
           /\ Current(b) \in Checkpoints
<1>1. worker[b] \in WorkerType /\ checkpoint[b] \in [Lines(b) -> Checkpoints] /\ BatchInv(b)
  BY DEF IInv, TypeOK
<1>2. worker[b].next \in Lines(b)
  BY <1>1, BatchesAssumption DEF AtItem, Lines, WorkerType
<1> QED
  BY <1>1, <1>2
  DEF AtItem, Cancelled, BatchInv, RunsStarted, Idle, Closing, Exists, Current

LEMMA RecordKeeps ==
    ASSUME IInv, NEW b \in Batches, NEW outcome \in Settled, Record(b, outcome),
           ~Idle(b), ~Closing(b), worker[b].next \in Lines(b),
           UNCHANGED <<input, age, history, crashes>>, faults' \in 0..MaxFaults
    PROVE  IInv'
<1> DEFINE log == Append(worker[b].log, [line |-> worker[b].next, outcome |-> outcome])
<1>1. row \in [Batches -> RowType] /\ worker \in [Batches -> WorkerType] /\ row[b] \in RowType
      /\ worker[b] \in WorkerType
  BY DEF IInv, TypeOK
<1>2. worker[b].next \in Nat /\ worker[b].next + 1 \in Nat \ {0} /\ worker[b].log \in Seq(EntryType)
  BY <1>1 DEF WorkerType
<1>3. log \in Seq(EntryType)
  <2>1. [line |-> worker[b].next, outcome |-> outcome] \in EntryType
    BY <1>2 DEF EntryType
  <2> QED
    BY <1>2, <2>1
<1>4. Counted(row[b], log) \in RowType /\ Counted(row[b], log).status = row[b].status
  BY <1>1, <1>3, CountedType
<1> HIDE DEF log
<1>5. /\ worker' = [worker EXCEPT ![b] = [pc |-> "loop", next |-> worker[b].next + 1, log |-> log]]
      /\ row' = IF Exists(b) THEN [row EXCEPT ![b] = Counted(row[b], log)] ELSE row
      /\ checkpoint' = IF Exists(b)
                       THEN [checkpoint EXCEPT ![b][worker[b].next] = outcome] ELSE checkpoint
  BY <1>1 DEF Record, log
<1>6. TypeOK'
  <2>1. row' \in [Batches -> RowType]
    BY <1>1, <1>4, <1>5
  <2>2. worker' \in [Batches -> WorkerType]
    <3>1. [pc |-> "loop", next |-> worker[b].next + 1, log |-> log] \in WorkerType
      BY <1>2, <1>3 DEF WorkerType
    <3> QED
      BY <1>1, <1>5, <3>1
  <2>3. DOMAIN checkpoint' = Batches
    BY <1>5 DEF IInv, TypeOK
  <2>4. ASSUME NEW c \in Batches PROVE checkpoint'[c] \in [Lines(c) -> Checkpoints]
    BY <1>5 DEF IInv, TypeOK, Checkpoints
  <2> QED
    BY <2>1, <2>2, <2>3, <2>4 DEF IInv, TypeOK, history, Lines
<1>7. ASSUME NEW c \in Batches PROVE BatchInv(c)'
  <2>1. BatchInv(c) /\ checkpoint[c] \in [Lines(c) -> Checkpoints]
    BY DEF IInv, TypeOK
  <2>2. DOMAIN checkpoint = Batches
    BY DEF IInv, TypeOK
  <2>3. CASE c # b
    BY <1>1, <1>5, <2>1, <2>2, <2>3, Frame DEF history
  <2>4. CASE c = b
    <3>1. worker'[b].pc = "loop" /\ row'[b].status = row[b].status /\ sent' = sent
      BY <1>1, <1>4, <1>5 DEF history
    <3>2. RunsStarted(b)' /\ InHand(b)'
      BY <2>1, <2>4, <3>1 DEF BatchInv, RunsStarted, InHand, Idle, Closing
    <3>3. \A i \in Lines(b) :
            checkpoint'[b][i] \in Unsent => checkpoint[b][i] \in Unsent
      BY <1>1, <1>5, <2>1, <2>2, <2>4 DEF Settled, Answers, Unsent
    <3>4. SentOnce(b)'
      BY <2>1, <2>4, <3>1, <3>3 DEF BatchInv, SentOnce, Lines
    <3> QED
      BY <2>4, <3>2, <3>4 DEF BatchInv
  <2> QED
    BY <2>3, <2>4
<1> QED
  BY <1>6, <1>7 DEF IInv

(* An item that waits for its answer is marked as being processed.            *)
LEMMA WaitingFacts ==
    ASSUME IInv, NEW b \in Batches, worker[b].pc = "waiting"
    PROVE  /\ ~Idle(b) /\ ~Closing(b) /\ worker[b].next \in Lines(b)
           /\ Exists(b) => Current(b) = "processing"
BY DEF IInv, BatchInv, InHand, Idle, Closing

LEMMA RecoverKeeps == ASSUME IInv, NEW b \in Batches, Recover(b) PROVE IInv'
<1>1. AtItem(b) /\ Current(b) \notin Unsent
  BY DEF Recover
<1>2. ~Idle(b) /\ ~Closing(b) /\ worker[b].next \in Lines(b) /\ Current(b) \in Checkpoints
  BY <1>1, AtItemFacts
<1>3. (IF Current(b) = "processing" THEN "errored" ELSE Current(b)) \in Settled
  BY <1>1, <1>2 DEF Checkpoints, Settled
<1>4. faults' \in 0..MaxFaults /\ UNCHANGED <<input, age, history, crashes>>
  BY DEF Recover, IInv, TypeOK
<1> QED
  BY <1>2, <1>3, <1>4, RecordKeeps DEF Recover

LEMMA AnswerKeeps ==
    ASSUME IInv, NEW b \in Batches, Answer(b) \/ AnswerUnwritten(b) PROVE IInv'
<1>1. worker[b].pc = "waiting"
  BY DEF Answer, AnswerUnwritten
<1>2. ~Idle(b) /\ ~Closing(b) /\ worker[b].next \in Lines(b)
  BY <1>1, WaitingFacts
<1>3. faults \in 0..MaxFaults
  BY DEF IInv, TypeOK
<1>4. CASE Answer(b)
  <2>1. PICK outcome \in Outcomes[b] : Record(b, outcome)
    BY <1>4 DEF Answer
  <2>2. outcome \in Settled
    BY <2>1, BatchesAssumption DEF Settled, Answers
  <2>3. UNCHANGED <<input, age, history, crashes, faults>>
    BY <1>4 DEF Answer
  <2> QED
    BY <1>2, <1>3, <2>1, <2>2, <2>3, RecordKeeps
<1>5. CASE AnswerUnwritten(b)
  <2>1. Record(b, "errored") /\ UNCHANGED <<input, age, history, crashes>>
    BY <1>5 DEF AnswerUnwritten
  <2>2. faults' \in 0..MaxFaults
    BY <1>3, <1>5, LimitsAssumption DEF AnswerUnwritten
  <2> QED
    BY <1>2, <2>1, <2>2, RecordKeeps DEF Settled
<1> QED
  BY <1>4, <1>5

(* Steps that move the worker on and leave row and tables alone.               *)
LEMMA MovesKeep ==
    ASSUME IInv, NEW b \in Batches, NEW pc \in {"loop", "throttled"},
           worker' = [worker EXCEPT ![b].pc = pc], ~Idle(b), ~Closing(b),
           pc = "throttled" => worker[b].next \in Lines(b) /\ Current(b) \in Unsent,
           UNCHANGED <<tables, age, history, crashes, faults>>
    PROVE  IInv'
<1>1. worker \in [Batches -> WorkerType] /\ worker[b] \in WorkerType
  BY DEF IInv, TypeOK
<1>2. worker' \in [Batches -> WorkerType] /\ worker'[b].pc = pc
      /\ worker'[b].next = worker[b].next
  BY <1>1 DEF WorkerType
<1>3. TypeOK'
  BY <1>2 DEF IInv, TypeOK, tables, history, Lines
<1>4. ASSUME NEW c \in Batches PROVE BatchInv(c)'
  <2>1. BatchInv(c)
    BY DEF IInv
  <2>2. CASE c # b
    BY <1>1, <2>1, <2>2, Frame DEF tables, history
  <2>3. CASE c = b
    <3>1. RunsStarted(b)'
      BY <1>2, <2>1, <2>3 DEF BatchInv, RunsStarted, Idle, Closing, tables
    <3>2. InHand(b)'
      BY <1>2 DEF InHand, Current, Lines, tables
    <3>3. SentOnce(b)'
      BY <2>1, <2>3 DEF BatchInv, SentOnce, Lines, tables, history
    <3> QED
      BY <2>3, <3>1, <3>2, <3>3 DEF BatchInv
  <2> QED
    BY <2>2, <2>3
<1> QED
  BY <1>3, <1>4 DEF IInv

LEMMA KeyAndThrottleKeep ==
    ASSUME IInv, NEW b \in Batches, KeyResolved(b) \/ Throttle(b) PROVE IInv'
<1>1. CASE KeyResolved(b)
  <2>1. ~Idle(b) /\ ~Closing(b)
    BY <1>1 DEF KeyResolved, Idle, Closing
  <2> QED
    BY <1>1, <2>1, MovesKeep DEF KeyResolved
<1>2. CASE Throttle(b)
  <2>1. AtItem(b) /\ Current(b) \in Unsent
    BY <1>2 DEF Throttle
  <2>2. ~Idle(b) /\ ~Closing(b) /\ worker[b].next \in Lines(b)
    BY <2>1, AtItemFacts
  <2> QED
    BY <1>2, <2>1, <2>2, MovesKeep DEF Throttle
<1> QED
  BY <1>1, <1>2

(* Whoever may send has an item in hand that was never sent.                  *)
LEMMA MaySendFacts ==
    ASSUME IInv, NEW b \in Batches, MaySend(b)
    PROVE  /\ ~Idle(b) /\ ~Closing(b) /\ worker[b].next \in Lines(b) /\ Exists(b)
           /\ Current(b) \in Unsent /\ sent[b][worker[b].next] = 0
<1>1. BatchInv(b)
  BY DEF IInv
<1>2. /\ ~Idle(b) /\ ~Closing(b) /\ worker[b].next \in Lines(b) /\ Exists(b)
      /\ Current(b) \in Unsent
  <2>1. CASE AtItem(b) /\ Current(b) \in Unsent
    BY <2>1, AtItemFacts
  <2>2. CASE worker[b].pc = "throttled" /\ Exists(b)
    BY <1>1, <2>2 DEF BatchInv, InHand, Idle, Closing
  <2> QED
    BY <2>1, <2>2 DEF MaySend
<1> QED
  BY <1>1, <1>2 DEF BatchInv, SentOnce, Exists, Current

LEMMA SendKeeps == ASSUME IInv, NEW b \in Batches, Send(b) PROVE IInv'
<1> DEFINE i == worker[b].next
<1>1. /\ ~Idle(b) /\ ~Closing(b) /\ i \in Lines(b) /\ Exists(b) /\ sent[b][i] = 0
  BY MaySendFacts DEF Send
<1>2. /\ worker' = [worker EXCEPT ![b].pc = "waiting"]
      /\ checkpoint' = [checkpoint EXCEPT ![b][i] = "processing"]
      /\ sent' = [sent EXCEPT ![b][i] = @ + 1]
      /\ overrun' = IF Cancelled(b) THEN [overrun EXCEPT ![b] = @ + 1] ELSE overrun
      /\ UNCHANGED <<row, input, age, crashes, faults>>
  BY DEF Send
<1>3. worker \in [Batches -> WorkerType] /\ worker[b] \in WorkerType
  BY DEF IInv, TypeOK
<1>4. worker' \in [Batches -> WorkerType] /\ worker'[b].pc = "waiting" /\ worker'[b].next = i
  BY <1>2, <1>3 DEF WorkerType
<1> HIDE DEF i
<1>5. /\ DOMAIN checkpoint = Batches /\ DOMAIN sent = Batches
      /\ \A c \in Batches : /\ checkpoint[c] \in [Lines(c) -> Checkpoints]
                            /\ sent[c] \in [Lines(c) -> Nat]
  BY DEF IInv, TypeOK
<1>6. TypeOK'
  <2>1. DOMAIN checkpoint' = Batches /\ DOMAIN sent' = Batches
    BY <1>2, <1>5
  <2>2. ASSUME NEW c \in Batches
        PROVE  checkpoint'[c] \in [Lines(c) -> Checkpoints] /\ sent'[c] \in [Lines(c) -> Nat]
    <3>1. CASE c # b
      BY <1>2, <1>5, <3>1
    <3>2. CASE c = b
      <4>1. checkpoint'[b] = [checkpoint[b] EXCEPT ![i] = "processing"]
            /\ sent'[b] = [sent[b] EXCEPT ![i] = sent[b][i] + 1]
        BY <1>2, <1>5
      <4>2. "processing" \in Checkpoints /\ sent[b][i] + 1 \in Nat
        BY <1>1 DEF Checkpoints
      <4>3. checkpoint'[b] \in [Lines(b) -> Checkpoints]
        BY <1>5, <4>1, <4>2
      <4>4. sent'[b] \in [Lines(b) -> Nat]
        BY <1>5, <4>1, <4>2
      <4> QED
        BY <3>2, <4>3, <4>4
    <3> QED
      BY <3>1, <3>2
  <2>3. overrun' \in [Batches -> Nat]
    BY <1>2 DEF IInv, TypeOK
  <2> QED
    BY <1>2, <1>4, <2>1, <2>2, <2>3 DEF IInv, TypeOK, Lines
<1>7. ASSUME NEW c \in Batches PROVE BatchInv(c)'
  <2>1. BatchInv(c)
    BY DEF IInv
  <2>2. CASE c # b
    BY <1>2, <1>3, <1>5, <2>1, <2>2, Frame
  <2>3. CASE c = b
    <3>1. RunsStarted(b)'
      BY <1>1, <1>2, <1>4, <2>1, <2>3 DEF BatchInv, RunsStarted, Idle, Closing
    <3>2. checkpoint'[b] = [checkpoint[b] EXCEPT ![i] = "processing"]
          /\ sent'[b] = [sent[b] EXCEPT ![i] = sent[b][i] + 1]
      BY <1>2, <1>5
    <3>3. InHand(b)'
      BY <1>1, <1>2, <1>4, <1>5, <3>2 DEF InHand, Current, Lines
    <3>4. SentOnce(b)'
      BY <1>1, <1>2, <1>5, <2>1, <2>3, <3>2 DEF BatchInv, SentOnce, Lines, Unsent
    <3> QED
      BY <2>3, <3>1, <3>3, <3>4 DEF BatchInv
  <2> QED
    BY <2>2, <2>3
<1> QED
  BY <1>6, <1>7 DEF IInv

(* The end of a worker, with or without a verdict.                            *)
LEMMA EndKeeps ==
    ASSUME IInv, NEW b \in Batches, worker' = [worker EXCEPT ![b] = NoWorker],
           NEW status \in Statuses \ {"deleted"},
           \/ UNCHANGED row
           \/ row[b].status # "deleted" /\ row' = [row EXCEPT ![b].status = status],
           UNCHANGED <<checkpoint, input, age, history, crashes>>,
           faults' \in 0..MaxFaults
    PROVE  IInv'
<1>1. /\ worker \in [Batches -> WorkerType]
      /\ row \in [Batches -> RowType] /\ row[b] \in RowType
  BY DEF IInv, TypeOK
<1>2. <<>> \in Seq(EntryType)
  OBVIOUS
<1>3. NoWorker \in WorkerType
  BY <1>2 DEF NoWorker, WorkerType
<1>4. row' \in [Batches -> RowType]
  BY <1>1 DEF RowType
<1>5. TypeOK'
  BY <1>1, <1>3, <1>4 DEF IInv, TypeOK, history, Lines
<1>6. ASSUME NEW c \in Batches PROVE BatchInv(c)'
  <2>1. BatchInv(c)
    BY DEF IInv
  <2>2. CASE c # b
    BY <1>1, <2>1, <2>2, Frame DEF history
  <2>3. CASE c = b
    <3>1. row'[b].status = "deleted" <=> row[b].status = "deleted"
      BY <1>1 DEF RowType
    <3>2. worker'[b] = NoWorker /\ checkpoint'[b] = checkpoint[b] /\ sent'[b] = sent[b]
      BY <1>1 DEF history
    <3> QED
      BY <2>1, <2>3, <3>1, <3>2, WorkerEnds
  <2> QED
    BY <2>2, <2>3
<1> QED
  BY <1>5, <1>6 DEF IInv

(* finalizeBatch begins, or writes its counts.                                *)
LEMMA ClosingKeeps ==
    ASSUME IInv, NEW b \in Batches, NEW pc \in {"counting", "filing"},
           worker' = [worker EXCEPT ![b].pc = pc], ~Idle(b), row[b].status # "deleted",
           row' \in [Batches -> RowType], row'[b].status = "finalizing",
           \A c \in Batches \ {b} : row'[c] = row[c],
           UNCHANGED <<checkpoint, input, age, history, crashes>>,
           faults' \in 0..MaxFaults
    PROVE  IInv'
<1>1. worker \in [Batches -> WorkerType] /\ worker[b] \in WorkerType
  BY DEF IInv, TypeOK
<1>2. worker' \in [Batches -> WorkerType] /\ worker'[b].pc = pc
  BY <1>1 DEF WorkerType
<1>3. TypeOK'
  BY <1>2 DEF IInv, TypeOK, history, Lines
<1>4. ASSUME NEW c \in Batches PROVE BatchInv(c)'
  <2>1. BatchInv(c)
    BY DEF IInv
  <2>2. CASE c # b
    BY <1>1, <2>1, <2>2, Frame DEF history
  <2>3. CASE c = b
    <3>1. RunsStarted(b)' /\ InHand(b)'
      BY <1>2 DEF RunsStarted, InHand, Idle, Closing
    <3>2. SentOnce(b)'
      BY <2>1, <2>3 DEF BatchInv, SentOnce, Lines, history
    <3> QED
      BY <2>3, <3>1, <3>2 DEF BatchInv
  <2> QED
    BY <2>2, <2>3
<1> QED
  BY <1>3, <1>4 DEF IInv

LEMMA LeaveKeeps == ASSUME IInv, NEW b \in Batches, Leave(b) PROVE IInv'
<1>1. row \in [Batches -> RowType] /\ row[b] \in RowType /\ faults \in 0..MaxFaults
  BY DEF IInv, TypeOK
<1>2. UNCHANGED <<checkpoint, input, age, history, crashes, faults>> /\ ~Idle(b)
  BY DEF Leave, Idle
<1>3. CASE Cancelled(b)
  <2>1. worker' = [worker EXCEPT ![b] = NoWorker]
    BY <1>3 DEF Leave
  <2>2. \/ UNCHANGED row
        \/ row[b].status # "deleted" /\ row' = [row EXCEPT ![b].status = "cancelled"]
    BY <1>3 DEF Leave
  <2>3. "cancelled" \in Statuses \ {"deleted"}
    BY DEF Statuses, Terminal
  <2> QED
    BY <1>1, <1>2, <2>1, <2>2, <2>3, EndKeeps
<1>4. CASE ~Cancelled(b)
  <2>1. row' = [row EXCEPT ![b].status = "finalizing"]
        /\ worker' = [worker EXCEPT ![b].pc = "counting"] /\ row[b].status # "deleted"
    BY <1>4 DEF Leave, Cancelled
  <2>2. row' \in [Batches -> RowType] /\ row'[b].status = "finalizing"
        /\ \A c \in Batches \ {b} : row'[c] = row[c]
    BY <1>1, <2>1 DEF RowType, Statuses, Pending
  <2> QED
    BY <1>1, <1>2, <2>1, <2>2, ClosingKeeps
<1> QED
  BY <1>3, <1>4

LEMMA PersistCountsKeeps == ASSUME IInv, NEW b \in Batches, PersistCounts(b) PROVE IInv'
<1> DEFINE final == Counted(row[b], worker[b].log)
<1>1. /\ row \in [Batches -> RowType] /\ row[b] \in RowType /\ faults \in 0..MaxFaults
      /\ worker[b].log \in Seq(EntryType)
  BY DEF IInv, TypeOK, WorkerType
<1>2. worker[b].pc = "counting" /\ worker' = [worker EXCEPT ![b].pc = "filing"]
      /\ UNCHANGED <<checkpoint, input, age, history, crashes>>
  BY DEF PersistCounts
<1>3. ~Idle(b) /\ row[b].status = "finalizing"
  BY <1>2 DEF IInv, BatchInv, RunsStarted, Idle, Closing
<1>4. final \in RowType /\ final.status = "finalizing"
  BY <1>1, <1>3, CountedType
<1>5. [final EXCEPT !.total = IF @ > 0 THEN @ ELSE final.completed + final.failed] \in RowType
      /\ [final EXCEPT !.total = IF @ > 0 THEN @ ELSE final.completed + final.failed].status
            = "finalizing"
  BY <1>4 DEF RowType
<1>6. /\ row' \in [Batches -> RowType] /\ row'[b].status = "finalizing"
      /\ \A c \in Batches \ {b} : row'[c] = row[c]
      /\ faults' \in 0..MaxFaults
  <2>1. CASE UNCHANGED row
    BY <1>1, <1>3, <2>1, LimitsAssumption DEF PersistCounts
  <2>2. CASE row' = [row EXCEPT ![b] =
                [final EXCEPT !.total = IF @ > 0 THEN @ ELSE final.completed + final.failed]]
             /\ UNCHANGED faults
    BY <1>1, <1>5, <2>2
  <2> QED
    BY <2>1, <2>2 DEF PersistCounts
<1> QED
  BY <1>2, <1>3, <1>6, ClosingKeeps

LEMMA CompleteKeeps == ASSUME IInv, NEW b \in Batches, Complete(b) PROVE IInv'
<1>1. /\ row \in [Batches -> RowType] /\ row[b] \in RowType
      /\ worker[b].log \in Seq(EntryType) /\ worker \in [Batches -> WorkerType]
  BY DEF IInv, TypeOK, WorkerType
<1>2. worker[b].pc = "filing" /\ worker' = [worker EXCEPT ![b] = NoWorker]
      /\ UNCHANGED <<checkpoint, input, age, history, crashes, faults>>
  BY DEF Complete
<1>3. row[b].status = "finalizing"
  BY <1>2 DEF IInv, BatchInv, RunsStarted, Closing
<1>4. row' \in [Batches -> RowType] /\ row'[b].status = "completed"
      /\ \A c \in Batches \ {b} : row'[c] = row[c]
  <2>1. LinesOf(worker[b].log, {"ok"}) \in SUBSET Nat
        /\ LinesOf(worker[b].log, {"bad", "errored"}) \in SUBSET Nat
    BY <1>1, LinesOfType
  <2> QED
    BY <1>1, <2>1 DEF Complete, RowType, Statuses, Terminal
<1>5. TypeOK'
  <2>1. <<>> \in Seq(EntryType)
    OBVIOUS
  <2>2. NoWorker \in WorkerType
    BY <2>1 DEF NoWorker, WorkerType
  <2>3. worker' \in [Batches -> WorkerType]
    BY <1>1, <1>2, <2>2
  <2> QED
    BY <1>2, <1>4, <2>3 DEF IInv, TypeOK, history, Lines
<1>6. ASSUME NEW c \in Batches PROVE BatchInv(c)'
  <2>1. BatchInv(c)
    BY DEF IInv
  <2>2. CASE c # b
    BY <1>1, <1>2, <1>4, <2>1, <2>2, Frame DEF history
  <2>3. CASE c = b
    BY <1>1, <1>2, <1>3, <1>4, <2>1, <2>3, WorkerEnds DEF history
  <2> QED
    BY <2>2, <2>3
<1> QED
  BY <1>5, <1>6 DEF IInv

LEMMA StopsKeep ==
    ASSUME IInv, NEW b \in Batches, Vanished(b) \/ Throw(b) PROVE IInv'
<1>1. faults \in 0..MaxFaults
  BY DEF IInv, TypeOK
<1>2. "failed" \in Statuses \ {"deleted"}
  BY DEF Statuses, Terminal
<1>3. CASE Vanished(b)
  BY <1>1, <1>2, <1>3, EndKeeps DEF Vanished, tables
<1>4. CASE Throw(b)
  <2>1. faults' \in 0..MaxFaults /\ row[b].status # "deleted"
    BY <1>1, <1>4, LimitsAssumption DEF Throw, Exists
  <2> QED
    BY <1>2, <1>4, <2>1, EndKeeps DEF Throw
<1> QED
  BY <1>3, <1>4

LEMMA RestartKeeps == ASSUME IInv, Restart PROVE IInv'
<1>1. <<>> \in Seq(EntryType)
  OBVIOUS
<1>2. NoWorker \in WorkerType
  BY <1>1 DEF NoWorker, WorkerType
<1>3. crashes' \in 0..MaxCrashes
  BY LimitsAssumption DEF IInv, TypeOK, Restart
<1>4. TypeOK'
  BY <1>2, <1>3 DEF IInv, TypeOK, Restart, tables, history, Lines
<1>5. ASSUME NEW c \in Batches PROVE BatchInv(c)'
  BY WorkerEnds DEF IInv, Restart, tables, history
<1> QED
  BY <1>4, <1>5 DEF IInv

LEMMA NextIInv == IInv /\ [Next]_vars => IInv'
<1> SUFFICES ASSUME IInv, [Next]_vars PROVE IInv'
  OBVIOUS
<1>1. ASSUME NEW b \in Batches, Work(b) PROVE IInv'
  BY <1>1, KeyAndThrottleKeep, RecoverKeeps, SendKeeps, AnswerKeeps, LeaveKeeps,
     PersistCountsKeeps, CompleteKeeps, StopsKeep DEF Work
<1>2. ASSUME NEW b \in Batches, Fault(b) PROVE IInv'
  BY <1>2, AnswerKeeps, StopsKeep DEF Fault
<1>3. ASSUME NEW b \in Batches, Route(b) \/ Pass(b) PROVE IInv'
  BY <1>3, RouteKeeps
<1>4. CASE Poll \/ Restart
  BY <1>4, PollKeeps, RestartKeeps
<1>5. CASE UNCHANGED vars
  <2>1. TypeOK'
    BY <1>5 DEF vars, tables, history, IInv, TypeOK, Lines
  <2>2. ASSUME NEW b \in Batches PROVE BatchInv(b)'
    BY <1>5, Frame DEF vars, tables, history, IInv
  <2> QED
    BY <2>1, <2>2 DEF IInv
<1> QED
  BY <1>1, <1>2, <1>3, <1>4, <1>5 DEF Next

LEMMA AlwaysIInv == Spec => []IInv
BY InitIInv, NextIInv, PTL DEF Spec

-----------------------------------------------------------------------------
(* Every variable keeps its type, for any number of batches and items.        *)
THEOREM BatchTypes == Spec => []TypeOK
<1>1. IInv => TypeOK
  BY DEF IInv
<1> QED
  BY AlwaysIInv, <1>1, PTL

(* Whatever crashes, failed writes, cancellations and deletions come between, *)
(* no item of a batch is handed to the provider twice.                        *)
THEOREM NoReplay == Spec => []NothingIsReplayed
<1>1. IInv => NothingIsReplayed
  BY DEF IInv, BatchInv, SentOnce, NothingIsReplayed
<1> QED
  BY AlwaysIInv, <1>1, PTL

-----------------------------------------------------------------------------
(* The two promises about a step.                                             *)

(* An item whose result is recorded was not settled before, or keeps it.      *)
LEMMA RecordAnswers ==
    ASSUME IInv, NEW b \in Batches, NEW outcome, Record(b, outcome),
           worker[b].next \in Lines(b),
           Exists(b) /\ Current(b) \in Settled => outcome = Current(b),
           NEW c \in Batches, NEW i \in Lines(c), checkpoint[c][i] \in Settled
    PROVE  checkpoint'[c][i] = checkpoint[c][i]
<1>1. DOMAIN checkpoint = Batches /\ checkpoint[b] \in [Lines(b) -> Checkpoints]
  BY DEF IInv, TypeOK
<1>2. CASE ~Exists(b)
  BY <1>2 DEF Record
<1>3. CASE Exists(b)
  <2>1. checkpoint' = [checkpoint EXCEPT ![b][worker[b].next] = outcome]
    BY <1>3 DEF Record
  <2>2. CASE c # b
    BY <1>1, <2>1, <2>2
  <2>3. CASE c = b /\ i # worker[b].next
    BY <1>1, <2>1, <2>3
  <2>4. CASE c = b /\ i = worker[b].next
    BY <1>1, <1>3, <2>1, <2>4 DEF Current
  <2> QED
    BY <2>2, <2>3, <2>4
<1> QED
  BY <1>2, <1>3

LEMMA AnswersStep ==
    ASSUME IInv, Next, NEW c \in Batches, NEW i \in Lines(c), checkpoint[c][i] \in Settled
    PROVE  checkpoint'[c][i] = checkpoint[c][i] \/ row'[c].status = "deleted"
<1>1. DOMAIN checkpoint = Batches /\ checkpoint[c] \in [Lines(c) -> Checkpoints]
      /\ row \in [Batches -> RowType]
  BY DEF IInv, TypeOK
<1>2. checkpoint[c][i] \notin Unsent /\ checkpoint[c][i] # "processing"
  BY DEF Settled, Answers, Unsent
<1>3. ASSUME NEW b \in Batches, Recover(b) PROVE checkpoint'[c][i] = checkpoint[c][i]
  <2>1. worker[b].next \in Lines(b)
    BY <1>3, AtItemFacts DEF Recover
  <2>2. Current(b) \in Settled => Current(b) # "processing"
    BY DEF Settled, Answers
  <2> QED
    BY <1>3, <2>1, <2>2, RecordAnswers DEF Recover
<1>4. ASSUME NEW b \in Batches, Answer(b) \/ AnswerUnwritten(b)
      PROVE  checkpoint'[c][i] = checkpoint[c][i]
  <2>1. worker[b].pc = "waiting"
    BY <1>4 DEF Answer, AnswerUnwritten
  <2>2. worker[b].next \in Lines(b) /\ (Exists(b) => Current(b) = "processing")
    BY <2>1, WaitingFacts
  <2>3. Exists(b) => Current(b) \notin Settled
    BY <2>2 DEF Settled, Answers
  <2>4. PICK outcome : Record(b, outcome)
    BY <1>4 DEF Answer, AnswerUnwritten
  <2> QED
    BY <2>2, <2>3, <2>4, RecordAnswers
<1>5. ASSUME NEW b \in Batches, Send(b) PROVE checkpoint'[c][i] = checkpoint[c][i]
  <2>1. MaySend(b) /\ checkpoint' = [checkpoint EXCEPT ![b][worker[b].next] = "processing"]
    BY <1>5 DEF Send
  <2>2. worker[b].next \in Lines(b) /\ Current(b) \in Unsent
    BY <2>1, MaySendFacts
  <2>3. c # b \/ i # worker[b].next
    BY <1>2, <2>2 DEF Current
  <2> QED
    BY <1>1, <2>1, <2>3
<1>6. CASE Poll
  <2>1. Ensured(c, i) = checkpoint[c][i]
    BY <1>2 DEF Ensured, Unsent
  <2> QED
    BY <1>6, <2>1 DEF Poll
<1>7. ASSUME NEW b \in Batches, Delete(b)
      PROVE  checkpoint'[c][i] = checkpoint[c][i] \/ row'[c].status = "deleted"
  <2>1. CASE b = c
    BY <1>1, <1>7, <2>1 DEF Delete, NewRow
  <2>2. CASE b # c
    BY <1>1, <1>7, <2>2 DEF Delete
  <2> QED
    BY <2>1, <2>2
<1>8. ASSUME NEW b \in Batches,
             KeyResolved(b) \/ Throttle(b) \/ Vanished(b) \/ Leave(b) \/ PersistCounts(b)
             \/ Complete(b) \/ Throw(b) \/ Create(b) \/ Cancel(b) \/ LoseInput(b) \/ Pass(b)
             \/ Restart
      PROVE  checkpoint' = checkpoint
  BY <1>8 DEF KeyResolved, Throttle, Vanished, Leave, PersistCounts, Complete, Throw, Create,
              Cancel, LoseInput, Pass, Restart, tables
<1> QED
  BY <1>3, <1>4, <1>5, <1>6, <1>7, <1>8 DEF Next, Work, Fault, Route

(* An answer that was checkpointed is never lost, overwritten or taken back,  *)
(* whatever is recovered, replayed or cancelled: it goes with its batch only. *)
THEOREM AnswersSurvive == Spec => AnswersAreKept
<1>1. ASSUME IInv, [Next]_vars
      PROVE  [\A b \in Batches : \A i \in Lines(b) :
                 checkpoint[b][i] \in Settled =>
                     checkpoint'[b][i] = checkpoint[b][i] \/ row'[b].status = "deleted"]_vars
  BY <1>1, AnswersStep
<1> QED
  BY AlwaysIInv, <1>1, PTL DEF Spec, AnswersAreKept

LEMMA VerdictsStep ==
    ASSUME IInv, Next, NEW c \in Batches, row[c].status \in Terminal \cup {"cancelling"}
    PROVE  \/ row'[c].status \in {row[c].status, "deleted"}
           \/ row[c].status = "cancelling" /\ row'[c].status = "cancelled"
           \/ row[c].status \in {"cancelling", "cancelled"} /\ row'[c].status = "failed"
              /\ faults' > faults
<1>1. row \in [Batches -> RowType] /\ \A b \in Batches : row[b] \in RowType
  BY DEF IInv, TypeOK
<1>2. \A b \in Batches : worker[b] \in WorkerType /\ BatchInv(b)
  BY DEF IInv, TypeOK
<1>3. row[c].status \notin {"absent", "validating", "in_progress", "finalizing", "deleted"}
  BY DEF Terminal
<1>4. ASSUME NEW b \in Batches, NEW outcome \in Settled, Record(b, outcome),
             worker[b].next \in Lines(b)
      PROVE  row'[c].status = row[c].status
  <2>1. Append(worker[b].log, [line |-> worker[b].next, outcome |-> outcome]) \in Seq(EntryType)
    <3>1. worker[b].log \in Seq(EntryType) /\ worker[b].next \in Nat
      BY <1>2 DEF WorkerType
    <3>2. [line |-> worker[b].next, outcome |-> outcome] \in EntryType
      BY <3>1 DEF EntryType
    <3> QED
      BY <3>1, <3>2
  <2>2. Counted(row[b], Append(worker[b].log,
            [line |-> worker[b].next, outcome |-> outcome])).status = row[b].status
    BY <1>1, <2>1, CountedType
  <2> QED
    BY <1>1, <1>4, <2>2 DEF Record
<1>5. ASSUME NEW b \in Batches, Recover(b) PROVE row'[c].status = row[c].status
  <2>1. AtItem(b) /\ Current(b) \notin Unsent
    BY <1>5 DEF Recover
  <2>2. worker[b].next \in Lines(b) /\ Current(b) \in Checkpoints
    BY <2>1, AtItemFacts
  <2>3. (IF Current(b) = "processing" THEN "errored" ELSE Current(b)) \in Settled
    BY <2>1, <2>2 DEF Checkpoints, Settled
  <2> QED
    BY <1>4, <1>5, <2>2, <2>3 DEF Recover
<1>6. ASSUME NEW b \in Batches, Answer(b) \/ AnswerUnwritten(b)
      PROVE  row'[c].status = row[c].status
  <2>1. worker[b].next \in Lines(b)
    BY <1>6, WaitingFacts DEF Answer, AnswerUnwritten
  <2>2. Outcomes[b] \subseteq Settled
    BY BatchesAssumption DEF Settled, Answers
  <2>3. PICK outcome \in Settled : Record(b, outcome)
    <3>1. CASE Answer(b)
      BY <2>2, <3>1 DEF Answer
    <3>2. CASE AnswerUnwritten(b)
      BY <3>2 DEF AnswerUnwritten, Settled
    <3> QED
      BY <1>6, <3>1, <3>2
  <2> QED
    BY <1>4, <2>1, <2>3
<1>7. CASE Poll
  <2>1. row'[c] = Polled(c)
    BY <1>7 DEF Poll
  <2>2. Recovered(c).status = row[c].status
    BY <1>3, RecoveredFacts DEF IInv
  <2>3. \/ Polled(c).status = row[c].status
        \/ row[c].status = "cancelling" /\ Polled(c).status = "cancelled"
    BY <1>3, <2>2, PolledFacts DEF IInv
  <2> QED
    BY <2>1, <2>3
<1>8. ASSUME NEW b \in Batches, Create(b) \/ Cancel(b)
      PROVE  row'[c].status = row[c].status
  BY <1>1, <1>3, <1>8 DEF Create, Cancel, Pending, Terminal
<1>9. ASSUME NEW b \in Batches, Delete(b)
      PROVE  row'[c].status \in {row[c].status, "deleted"}
  BY <1>1, <1>9 DEF Delete, NewRow
<1>10. ASSUME NEW b \in Batches, Leave(b)
       PROVE  \/ row'[c].status = row[c].status
              \/ row[c].status = "cancelling" /\ row'[c].status = "cancelled"
  <2>1. CASE Cancelled(b)
    <3>1. row[b] \in RowType
      BY <1>1
    <3>2. [row[b] EXCEPT !.status = "cancelled"].status = "cancelled"
      BY <3>1 DEF RowType
    <3>3. \/ row' = row
          \/ row[b].status = "cancelling"
             /\ row' = [row EXCEPT ![b] = [row[b] EXCEPT !.status = "cancelled"]]
      BY <1>10, <2>1 DEF Leave
    <3> QED
      BY <1>1, <3>2, <3>3
  <2>2. CASE ~Cancelled(b)
    <3>1. row[b].status \in {"in_progress", "finalizing"}
      BY <1>2, <1>10, <2>2 DEF Leave, BatchInv, RunsStarted, Idle, Cancelled
    <3>2. c # b
      BY <1>3, <3>1
    <3> QED
      BY <1>1, <1>10, <2>2, <3>2 DEF Leave
  <2> QED
    BY <2>1, <2>2
<1>11. ASSUME NEW b \in Batches, PersistCounts(b) \/ Complete(b)
       PROVE  row'[c].status = row[c].status
  <2>1. row[b].status = "finalizing"
    BY <1>2, <1>11 DEF PersistCounts, Complete, BatchInv, RunsStarted, Closing
  <2>2. c # b
    BY <1>3, <2>1
  <2> QED
    BY <1>1, <1>11, <2>2 DEF PersistCounts, Complete
<1>12. ASSUME NEW b \in Batches, Throw(b)
       PROVE  \/ row'[c].status = row[c].status
              \/ row[c].status \in {"cancelling", "cancelled"} /\ row'[c].status = "failed"
                 /\ faults' > faults
  <2>1. faults' > faults
    BY <1>12 DEF Throw, IInv, TypeOK
  <2>2. c = b => row[c].status \in {"cancelling", "cancelled"}
    BY <1>2, <1>3, <1>12 DEF Throw, BatchInv, RunsStarted
  <2>3. row[b] \in RowType
    BY <1>1
  <2>4. [row[b] EXCEPT !.status = "failed"].status = "failed"
    BY <2>3 DEF RowType
  <2>5. row' = row \/ row' = [row EXCEPT ![b] = [row[b] EXCEPT !.status = "failed"]]
    BY <1>12 DEF Throw
  <2>6. c # b => row'[c] = row[c]
    BY <1>1, <2>5
  <2> QED
    BY <1>1, <2>1, <2>2, <2>4, <2>5, <2>6
<1>13. ASSUME NEW b \in Batches,
              KeyResolved(b) \/ Throttle(b) \/ Send(b) \/ Vanished(b) \/ LoseInput(b) \/ Pass(b)
              \/ Restart
       PROVE  row' = row
  BY <1>13 DEF KeyResolved, Throttle, Send, Vanished, LoseInput, Pass, Restart, tables
<1> QED
  BY <1>5, <1>6, <1>7, <1>8, <1>9, <1>10, <1>11, <1>12, <1>13 DEF Next, Work, Fault, Route

(* A batch that was cancelled, or that ended, keeps its verdict, whatever its *)
(* worker, the poll or a recovery do later; a failed write may turn a         *)
(* cancelled batch into a failed one.                                         *)
THEOREM VerdictsHold == Spec => VerdictsStand
<1>1. ASSUME IInv, [Next]_vars
      PROVE  [\A b \in Batches :
                LET was == row[b].status
                    is  == row'[b].status
                IN  was \in Terminal \cup {"cancelling"} =>
                        \/ is \in {was, "deleted"}
                        \/ was = "cancelling" /\ is = "cancelled"
                        \/ was \in {"cancelling", "cancelled"} /\ is = "failed"
                           /\ faults' > faults]_vars
  BY <1>1, VerdictsStep
<1> QED
  BY AlwaysIInv, <1>1, PTL DEF Spec, VerdictsStand

-----------------------------------------------------------------------------
(* Cancellation: the worker of a cancelled batch only sends the item it was   *)
(* already delaying, and it does not delay another.                           *)

Over == Terminal \cup {"cancelling", "deleted"}

StopsAfter(b) ==
    /\ overrun[b] <= 1
    /\ overrun[b] = 1 => row[b].status \in Over /\ worker[b].pc # "throttled"

LEMMA DeletedStays ==
    ASSUME IInv, Next, NEW c \in Batches, row[c].status = "deleted"
    PROVE  row'[c].status = "deleted"
<1>1. /\ row \in [Batches -> RowType] /\ TypeOK
      /\ \A b \in Batches : BatchInv(b)
  BY DEF IInv, TypeOK
<1>2. CASE Poll
  <2>1. row'[c] = Polled(c)
    BY <1>2 DEF Poll
  <2> QED
    BY <1>1, <2>1, RecoveredFacts, PolledFacts
<1>3. ASSUME NEW b \in Batches, NEW outcome, Record(b, outcome)
      PROVE  row'[c] = row[c]
  BY <1>1, <1>3 DEF Record, Exists
<1>4. ASSUME NEW b \in Batches, Recover(b) \/ Answer(b) \/ AnswerUnwritten(b)
      PROVE  row'[c] = row[c]
  BY <1>3, <1>4 DEF Recover, Answer, AnswerUnwritten
<1>5. ASSUME NEW b \in Batches, PersistCounts(b) \/ Complete(b) PROVE row'[c] = row[c]
  <2>1. row[b].status = "finalizing"
    BY <1>1, <1>5 DEF PersistCounts, Complete, BatchInv, RunsStarted, Closing
  <2>2. c # b
    BY <2>1
  <2> QED
    BY <1>1, <1>5, <2>2 DEF PersistCounts, Complete
<1>6. ASSUME NEW b \in Batches, Leave(b) \/ Throw(b) PROVE row'[c] = row[c]
  BY <1>1, <1>6 DEF Leave, Throw, Cancelled, Exists
<1>7. ASSUME NEW b \in Batches, Create(b) \/ Cancel(b) PROVE row'[c] = row[c]
  BY <1>1, <1>7 DEF Create, Cancel, Pending
<1>8. ASSUME NEW b \in Batches, Delete(b) PROVE row'[c].status = "deleted"
  BY <1>1, <1>8 DEF Delete, NewRow
<1>9. ASSUME NEW b \in Batches,
             KeyResolved(b) \/ Throttle(b) \/ Send(b) \/ Vanished(b) \/ LoseInput(b) \/ Pass(b)
             \/ Restart
      PROVE  row' = row
  BY <1>9 DEF KeyResolved, Throttle, Send, Vanished, LoseInput, Pass, Restart, tables
<1> QED
  BY <1>2, <1>4, <1>5, <1>6, <1>7, <1>8, <1>9 DEF Next, Work, Fault, Route

LEMMA OverStays ==
    ASSUME IInv, Next, NEW c \in Batches, row[c].status \in Over
    PROVE  row'[c].status \in Over
<1>1. CASE row[c].status = "deleted"
  BY <1>1, DeletedStays DEF Over
<1>2. CASE row[c].status # "deleted"
  BY <1>2, VerdictsStep DEF Over, Terminal
<1> QED
  BY <1>1, <1>2

(* Delays begin only for batches that are not over.                           *)
LEMMA NoDelay ==
    ASSUME IInv, Next, NEW c \in Batches, row[c].status \in Over, worker[c].pc # "throttled"
    PROVE  worker'[c].pc # "throttled"
<1>1. worker \in [Batches -> WorkerType] /\ BatchInv(c)
  BY DEF IInv, TypeOK
<1>2. ASSUME NEW b \in Batches, NEW w, worker' = [worker EXCEPT ![b] = w],
             w.pc # "throttled"
      PROVE  worker'[c].pc # "throttled"
  BY <1>1, <1>2
<1>3. ASSUME NEW b \in Batches, Throttle(b) PROVE worker'[c].pc # "throttled"
  <2>1. ~Idle(b) /\ ~Cancelled(b)
    BY <1>3 DEF Throttle, AtItem, Idle
  <2>2. b # c
    BY <1>1, <2>1 DEF BatchInv, RunsStarted, Over, Terminal, Cancelled
  <2> QED
    BY <1>1, <1>3, <2>2 DEF Throttle
<1>4. ASSUME NEW b \in Batches, NEW pc \in {"loop", "waiting", "counting", "filing"},
             worker' = [worker EXCEPT ![b].pc = pc]
      PROVE  worker'[c].pc # "throttled"
  BY <1>1, <1>4 DEF WorkerType
<1>5. ASSUME NEW b \in Batches, KeyResolved(b) \/ Send(b) \/ PersistCounts(b)
      PROVE  worker'[c].pc # "throttled"
  BY <1>4, <1>5 DEF KeyResolved, Send, PersistCounts
<1>6. ASSUME NEW b \in Batches, Recover(b) \/ Answer(b) \/ AnswerUnwritten(b)
      PROVE  worker'[c].pc # "throttled"
  <2>1. PICK outcome : Record(b, outcome)
    BY <1>6 DEF Recover, Answer, AnswerUnwritten
  <2> QED
    BY <1>1, <2>1 DEF Record
<1>7. ASSUME NEW b \in Batches, Complete(b) \/ Vanished(b) \/ Throw(b)
      PROVE  worker'[c].pc # "throttled"
  BY <1>2, <1>7 DEF Complete, Vanished, Throw, NoWorker
<1>8. ASSUME NEW b \in Batches, Leave(b) PROVE worker'[c].pc # "throttled"
  <2>1. CASE Cancelled(b)
    BY <1>2, <1>8, <2>1 DEF Leave, NoWorker
  <2>2. CASE ~Cancelled(b)
    BY <1>4, <1>8, <2>2 DEF Leave
  <2> QED
    BY <2>1, <2>2
<1>9. CASE Poll \/ Restart
  BY <1>9 DEF Poll, Restart, NoWorker
<1>10. ASSUME NEW b \in Batches, Route(b) \/ Pass(b) PROVE worker' = worker
  BY <1>10 DEF Route, Pass, Create, Cancel, Delete, LoseInput
<1> QED
  BY <1>3, <1>5, <1>6, <1>7, <1>8, <1>9, <1>10 DEF Next, Work, Fault

LEMMA SendOverruns ==
    ASSUME IInv, NEW b \in Batches, Send(b), \A c \in Batches : StopsAfter(c),
           NEW c \in Batches
    PROVE  StopsAfter(c)'
<1>1. worker \in [Batches -> WorkerType] /\ overrun \in [Batches -> Nat] /\ BatchInv(b)
  BY DEF IInv, TypeOK
<1>2. worker'[b].pc = "waiting" /\ UNCHANGED row
      /\ overrun' = IF Cancelled(b) THEN [overrun EXCEPT ![b] = @ + 1] ELSE overrun
  BY <1>1 DEF Send, WorkerType
<1>3. CASE c # b
  <2>1. worker'[c] = worker[c] /\ overrun'[c] = overrun[c] /\ row'[c] = row[c]
    BY <1>1, <1>2, <1>3 DEF Send
  <2> QED
    BY <2>1 DEF StopsAfter
<1>4. CASE c = b /\ Cancelled(b)
  <2>1. worker[b].pc = "throttled"
    BY <1>4 DEF Send, MaySend, AtItem
  <2>2. overrun[b] = 0
    BY <1>1, <2>1 DEF StopsAfter
  <2>3. overrun'[b] = 1 /\ row'[b].status \in Over
    BY <1>1, <1>2, <1>4, <2>2 DEF Cancelled, Over, Terminal
  <2> QED
    BY <1>2, <1>4, <2>3 DEF StopsAfter
<1>5. CASE c = b /\ ~Cancelled(b)
  BY <1>2, <1>5 DEF StopsAfter
<1> QED
  BY <1>3, <1>4, <1>5

(* At most one item is sent after a cancellation, for any number of items,    *)
(* crashes and failed writes.                                                 *)
THEOREM CancelStops == Spec => []CancelStopsSending
<1> DEFINE CInv == \A c \in Batches : StopsAfter(c)
<1>1. Init => CInv
  <2> SUFFICES ASSUME Init, NEW c \in Batches PROVE StopsAfter(c)
    OBVIOUS
  <2>1. overrun = [b \in Batches |-> 0]
    BY Zenon DEF Init
  <2>2. overrun[c] = 0
    BY <2>1
  <2> QED
    BY <2>2 DEF StopsAfter
<1>2. IInv /\ CInv /\ [Next]_vars => CInv'
  <2> SUFFICES ASSUME IInv, CInv, [Next]_vars, NEW c \in Batches PROVE StopsAfter(c)'
    OBVIOUS
  <2>1. ASSUME NEW b \in Batches, Send(b) PROVE StopsAfter(c)'
    BY <2>1, SendOverruns
  <2>2. CASE Next /\ ~(\E b \in Batches : Send(b))
    <3>1. overrun' = overrun
      BY <2>2
      DEF Next, Work, Fault, Route, KeyResolved, Recover, Throttle, Answer, AnswerUnwritten,
          Vanished, Leave, PersistCounts, Complete, Throw, Create, Cancel, Delete, LoseInput,
          Pass, Poll, Restart, history
    <3> QED
      BY <2>2, <3>1, OverStays, NoDelay DEF StopsAfter
  <2>3. CASE UNCHANGED vars
    BY <2>3 DEF vars, tables, history, StopsAfter
  <2> QED
    BY <2>1, <2>2, <2>3
<1>3. CInv => CancelStopsSending
  BY DEF StopsAfter, CancelStopsSending
<1> QED
  BY AlwaysIInv, <1>1, <1>2, <1>3, PTL DEF Spec

-----------------------------------------------------------------------------
(* BATCH_MAX_CONCURRENT.  The poll counts, for each batch, the ready ones     *)
(* before it; the bound follows from the last batch that is chosen.           *)

LEMMA LeastNumber ==
    ASSUME NEW T, T \subseteq Nat, T # {}
    PROVE  \E x \in T : \A y \in T : x <= y
<1>1. PICK x \in T : \A y \in T : ~ (<<y, x>> \in OpToRel(<, Nat))
  BY NatLessThanWellFounded, WFMin
<1>2. ASSUME NEW y \in T PROVE ~ (y < x)
  <2>1. y < x => <<y, x>> \in OpToRel(<, Nat)
    BY DEF OpToRel
  <2> QED
    BY <1>1, <2>1
<1> QED
  BY <1>2

Before(b) == {a \in Validating : a < b}

LEMMA BeforeFinite ==
    ASSUME NEW b PROVE IsFiniteSet(Before(b)) /\ Cardinality(Before(b)) \in Nat
<1>1. Before(b) \subseteq Batches
  BY DEF Before, Validating
<1> QED
  BY <1>1, BatchesAssumption, FS_Subset, FS_CardinalityType

(* Of the chosen batches one has the fewest places left, and no other is later. *)
LEMMA LastChosen ==
    ASSUME Chosen # {}, Cardinality(Active) \in Nat
    PROVE  \E m \in Chosen : Chosen \subseteq Before(m) \cup {m}
<1> DEFINE Left(b) == MaxConcurrent - Cardinality(Before(b))
           T == {Left(b) : b \in Chosen}
<1>1. Chosen \subseteq Validating /\ Validating \subseteq Nat
  BY BatchesAssumption DEF Chosen, Validating
<1>2. \A b \in Chosen : Cardinality(Before(b)) + Cardinality(Active) < MaxConcurrent
  BY DEF Chosen, Before
<1>3. \A b \in Chosen : Left(b) \in Nat
  BY <1>2, BeforeFinite, LimitsAssumption
<1>4. T \subseteq Nat /\ T # {}
  BY <1>3
<1>5. PICK n \in T : \A k \in T : n <= k
  BY <1>4, LeastNumber
<1>6. PICK m \in Chosen : n = Left(m)
  BY DEF T
<1>7. \A b \in Chosen : Left(m) <= Left(b)
  BY <1>5, <1>6
<1> HIDE DEF T
<1>8. ASSUME NEW b \in Chosen, b \notin Before(m) \cup {m} PROVE FALSE
  <2>1. m < b
    BY <1>1, <1>8 DEF Before
  <2>2. Before(m) \cup {m} \subseteq Before(b)
    <3>1. m \in Nat /\ b \in Nat /\ m \in Validating /\ \A a \in Validating : a \in Nat
      BY <1>1
    <3>2. ASSUME NEW a \in Validating, a < m PROVE a < b
      BY <2>1, <3>1, <3>2
    <3> QED
      BY <2>1, <3>1, <3>2 DEF Before
  <2>3. m \notin Before(m)
    BY <1>1 DEF Before
  <2>4. Cardinality(Before(m) \cup {m}) = Cardinality(Before(m)) + 1
    BY <2>3, BeforeFinite, FS_AddElement
  <2>5. Cardinality(Before(m) \cup {m}) <= Cardinality(Before(b))
    BY <2>2, BeforeFinite, FS_Subset
  <2> QED
    BY <1>7, <2>4, <2>5, BeforeFinite, LimitsAssumption
<1> QED
  BY <1>8

LEMMA ActiveFinite == IsFiniteSet(Active) /\ Cardinality(Active) \in Nat
<1>1. Active \subseteq Batches
  BY DEF Active
<1> QED
  BY <1>1, BatchesAssumption, FS_Subset, FS_CardinalityType

Limited == Cardinality(Active) <= MaxConcurrent

LEMMA PollLimited == ASSUME Limited, Poll PROVE Limited'
<1>1. Active' \subseteq Active \cup Chosen
  BY DEF Active, Idle, Poll, Starts
<1>2. CASE Chosen = {}
  <2>1. Active' \in SUBSET Active
    BY <1>1, <1>2
  <2> QED
    BY <2>1, ActiveFinite, FS_Subset, FS_CardinalityType, LimitsAssumption DEF Limited
<1>3. CASE Chosen # {}
  <2>1. PICK m \in Chosen : Chosen \subseteq Before(m) \cup {m}
    BY <1>3, ActiveFinite, LastChosen
  <2>2. Cardinality(Before(m)) + Cardinality(Active) < MaxConcurrent
    BY DEF Chosen, Before
  <2>3. IsFiniteSet(Before(m) \cup {m})
        /\ Cardinality(Before(m) \cup {m}) <= Cardinality(Before(m)) + 1
        /\ Cardinality(Before(m) \cup {m}) \in Nat
    <3>1. IsFiniteSet(Before(m)) /\ Cardinality(Before(m)) \in Nat
      BY BeforeFinite
    <3>2. IsFiniteSet(Before(m) \cup {m})
          /\ Cardinality(Before(m) \cup {m}) = IF m \in Before(m) THEN Cardinality(Before(m))
                                               ELSE Cardinality(Before(m)) + 1
      BY <3>1, FS_AddElement
    <3> QED
      BY <3>1, <3>2
  <2> DEFINE both == Active \cup (Before(m) \cup {m})
  <2>4. IsFiniteSet(both) /\ Cardinality(both) \in Nat
        /\ Cardinality(both) <= Cardinality(Active) + Cardinality(Before(m) \cup {m})
    <3>1. IsFiniteSet(Active \cap (Before(m) \cup {m}))
      BY ActiveFinite, FS_Subset
    <3>2. Cardinality(Active \cap (Before(m) \cup {m})) \in Nat
      BY <3>1, FS_CardinalityType
    <3>3. IsFiniteSet(both) /\ Cardinality(both) = Cardinality(Active)
            + Cardinality(Before(m) \cup {m}) - Cardinality(Active \cap (Before(m) \cup {m}))
      BY <2>3, ActiveFinite, FS_Union
    <3>4. Cardinality(both) \in Nat
      BY <3>3, FS_CardinalityType
    <3> QED
      BY <2>3, <3>2, <3>3, <3>4, ActiveFinite
  <2>5. Active' \in SUBSET both
    BY <1>1, <2>1
  <2> HIDE DEF both
  <2>6. Cardinality(Active') <= Cardinality(both) /\ Cardinality(Active') \in Nat
    BY <2>4, <2>5, FS_Subset, FS_CardinalityType
  <2> QED
    BY <2>2, <2>3, <2>4, <2>6, ActiveFinite, BeforeFinite, LimitsAssumption DEF Limited
<1> QED
  BY <1>2, <1>3

(* No other step starts a worker.                                             *)
LEMMA OthersStartNone == ASSUME IInv, [Next]_vars, ~Poll PROVE Active' \in SUBSET Active
<1> SUFFICES ASSUME NEW c \in Batches, worker[c].pc = "off" PROVE worker'[c].pc = "off"
  BY DEF Active, Idle
<1>1. worker \in [Batches -> WorkerType]
  BY DEF IInv, TypeOK
<1>2. ASSUME NEW b \in Batches, NEW w, worker' = [worker EXCEPT ![b] = w],
             worker[b].pc # "off" \/ w = NoWorker
      PROVE  worker'[c].pc = "off"
  BY <1>1, <1>2 DEF NoWorker
<1>3. ASSUME NEW b \in Batches, KeyResolved(b) \/ Throttle(b) \/ Send(b)
      PROVE  worker[b].pc # "off" /\ \E w : worker' = [worker EXCEPT ![b] = w]
  <2>1. worker[b].pc # "off"
    BY <1>3 DEF KeyResolved, Throttle, Send, MaySend, AtItem
  <2> QED
    BY <1>3, <2>1 DEF KeyResolved, Throttle, Send
<1>4. ASSUME NEW b \in Batches, Recover(b) \/ Answer(b) \/ AnswerUnwritten(b)
      PROVE  worker[b].pc # "off" /\ \E w : worker' = [worker EXCEPT ![b] = w]
  BY <1>4 DEF Recover, AtItem, Answer, AnswerUnwritten, Record
<1>5. ASSUME NEW b \in Batches,
             Leave(b) \/ PersistCounts(b) \/ Complete(b) \/ Vanished(b) \/ Throw(b)
      PROVE  worker[b].pc # "off" /\ \E w : worker' = [worker EXCEPT ![b] = w]
  BY <1>5 DEF Leave, PersistCounts, Complete, Vanished, Throw, Idle
<1>6. ASSUME NEW b \in Batches, Route(b) \/ Pass(b) PROVE worker' = worker
  BY <1>6 DEF Route, Pass, Create, Cancel, Delete, LoseInput
<1>7. CASE Restart
  BY <1>7 DEF Restart, NoWorker
<1>8. CASE UNCHANGED vars
  BY <1>8 DEF vars
<1> QED
  BY <1>2, <1>3, <1>4, <1>5, <1>6, <1>7, <1>8 DEF Next, Work, Fault

(* No batch gets a second worker, and there are never more workers than       *)
(* BATCH_MAX_CONCURRENT, for any number of batches.                           *)
THEOREM OneWorker == Spec => []OneWorkerPerBatch
<1>1. Init => Limited
  <2> SUFFICES ASSUME Init PROVE Limited
    OBVIOUS
  <2>1. Active = {}
    BY DEF Init, Active, Idle, NoWorker
  <2> QED
    BY <2>1, FS_EmptySet, LimitsAssumption DEF Limited
<1>2. IInv /\ Limited /\ [Next]_vars => Limited'
  <2> SUFFICES ASSUME IInv, Limited, [Next]_vars PROVE Limited'
    OBVIOUS
  <2>1. CASE Poll
    BY <2>1, PollLimited
  <2>2. CASE ~Poll
    <3>1. Cardinality(Active') <= Cardinality(Active) /\ Cardinality(Active') \in Nat
      BY <2>2, OthersStartNone, ActiveFinite, FS_Subset, FS_CardinalityType
    <3> QED
      BY <3>1, ActiveFinite, LimitsAssumption DEF Limited
  <2> QED
    BY <2>1, <2>2
<1>3. IInv /\ Limited => OneWorkerPerBatch
  BY DEF IInv, BatchInv, RunsStarted, Active, Limited, OneWorkerPerBatch
<1> QED
  BY AlwaysIInv, <1>1, <1>2, <1>3, PTL DEF Spec

-----------------------------------------------------------------------------
(* What a batch that is completed accounts for.                               *)

(* The log of a worker has one entry per line it has passed, in their order,  *)
(* with the outcome the checkpoint of that line has.                          *)
Written(b) ==
    LET log == worker[b].log IN
    /\ worker[b].next = Len(log) + 1 /\ Len(log) <= Size[b]
    /\ \A k \in 1..Len(log) : log[k].line = k
    /\ Exists(b) => \A k \in 1..Len(log) : checkpoint[b][k] = log[k].outcome
    /\ Closing(b) => Len(log) = Size[b]
    /\ Idle(b) => Len(log) = 0

(* A started batch has its total, and its final counts are those of the log.  *)
Totals(b) ==
    /\ ~Idle(b) /\ Exists(b) => row[b].total = Size[b]
    /\ worker[b].pc = "filing" /\ faults = 0 =>
         /\ row[b].completed = Cardinality(Logged(worker[b].log, {"ok"}))
         /\ row[b].failed = Cardinality(Logged(worker[b].log, {"bad", "errored"}))

Whole(b) ==
    row[b].status = "completed" /\ age[b] # "old" =>
        /\ row[b].output = {i \in Lines(b) : checkpoint[b][i] = "ok"}
        /\ row[b].errors = Lines(b) \ row[b].output
        /\ faults = 0 => /\ row[b].completed = Cardinality(row[b].output)
                         /\ row[b].failed = Cardinality(row[b].errors)
                         /\ row[b].total = Size[b]

WholeInv(b) == Written(b) /\ Totals(b) /\ Whole(b)

(* Time and faults only grow.                                                 *)
Grows(b) == (age'[b] # "old" => age[b] # "old") /\ (faults' = 0 => faults = 0)

LEMMA WholeFrame ==
    ASSUME NEW b \in Batches, WholeInv(b), Grows(b),
           row'[b] = row[b], worker'[b] = worker[b], checkpoint'[b] = checkpoint[b]
    PROVE  WholeInv(b)'
<1>1. Written(b)'
  BY DEF WholeInv, Written, Exists, Closing, Idle
<1>2. Totals(b)'
  BY DEF WholeInv, Totals, Exists, Idle, Grows
<1>3. Whole(b)'
  BY DEF WholeInv, Whole, Lines, Grows
<1> QED
  BY <1>1, <1>2, <1>3 DEF WholeInv

(* A worker that is gone has nothing in hand.                                 *)
LEMMA NoWorkerFacts ==
    ASSUME NEW b \in Batches, worker'[b] = NoWorker
    PROVE  Written(b)' /\ Totals(b)'
<1>1. Size[b] \in Nat
  BY BatchesAssumption
<1>2. worker'[b].pc = "off" /\ worker'[b].next = 1 /\ Len(worker'[b].log) = 0
  BY DEF NoWorker
<1> QED
  BY <1>1, <1>2 DEF Written, Totals, Closing, Idle

LEMMA WholeWorkerEnds ==
    ASSUME NEW b \in Batches, WholeInv(b), Grows(b), worker'[b] = NoWorker,
           checkpoint'[b] = checkpoint[b], row'[b] = row[b] \/ row'[b].status # "completed"
    PROVE  WholeInv(b)'
<1>1. Whole(b)'
  BY DEF WholeInv, Whole, Lines, Grows
<1> QED
  BY <1>1, NoWorkerFacts DEF WholeInv

(* The row changes, but neither its total nor its counts, and no worker logs. *)
LEMMA WholeRow ==
    ASSUME NEW b \in Batches, WholeInv(b), Grows(b),
           worker'[b] = worker[b], row'[b].status # "completed",
           Idle(b) \/ ~Exists(b)' \/
             /\ Exists(b) /\ checkpoint'[b] = checkpoint[b]
             /\ row'[b].total = row[b].total,
           ~Closing(b) \/ /\ row'[b].completed = row[b].completed
                          /\ row'[b].failed = row[b].failed
    PROVE  WholeInv(b)'
<1>1. Written(b)'
  <2>1. CASE Idle(b)
    BY <2>1 DEF WholeInv, Written, Idle, Closing
  <2>2. CASE ~Idle(b)
    BY <2>2 DEF WholeInv, Written, Idle, Closing
  <2> QED
    BY <2>1, <2>2
<1>2. Totals(b)'
  BY DEF WholeInv, Totals, Idle, Closing, Grows
<1>3. Whole(b)'
  BY DEF Whole
<1> QED
  BY <1>1, <1>2, <1>3 DEF WholeInv

(* In a log that has line k at place k, places and lines are the same.        *)
LEMMA LinesArePlaces ==
    ASSUME NEW log, \A k \in 1..Len(log) : log[k].line = k, DOMAIN log = 1..Len(log),
           NEW outcomes
    PROVE  LinesOf(log, outcomes) = Logged(log, outcomes)
BY DEF LinesOf, Logged

-----------------------------------------------------------------------------
(* The steps of the worker.                                                   *)

LEMMA RecordIsWhole ==
    ASSUME IInv, NEW b \in Batches, WholeInv(b), NEW outcome \in Settled, Record(b, outcome),
           ~Idle(b), ~Closing(b), worker[b].next \in Lines(b),
           UNCHANGED <<age>>, faults' = 0 => faults = 0
    PROVE  WholeInv(b)'
<1> DEFINE e == [line |-> worker[b].next, outcome |-> outcome]
           log == worker[b].log
           new == Append(log, e)
           n == Len(log)
<1>1. /\ row \in [Batches -> RowType] /\ worker \in [Batches -> WorkerType] /\ row[b] \in RowType
      /\ worker[b] \in WorkerType /\ DOMAIN checkpoint = Batches
      /\ checkpoint[b] \in [Lines(b) -> Checkpoints] /\ RunsStarted(b)
  BY DEF IInv, TypeOK, BatchInv
<1>2. log \in Seq(EntryType) /\ n \in Nat /\ worker[b].next = n + 1 /\ n + 1 <= Size[b]
      /\ Size[b] \in Nat
  BY <1>1, BatchesAssumption DEF WholeInv, Written, WorkerType, Lines
<1>3. e \in EntryType
  BY <1>2 DEF EntryType
<1>4. new \in Seq(EntryType) /\ Len(new) = n + 1 /\ new[n + 1] = e
      /\ \A k \in 1..n : new[k] = log[k]
  BY <1>2, <1>3
<1>5. \A k \in 1..(n + 1) : k \in 1..n \/ k = n + 1
  BY <1>2
<1>6. e.line = n + 1 /\ e.outcome = outcome
  BY <1>2
<1> HIDE DEF e, new
<1>7. worker'[b] = [pc |-> "loop", next |-> n + 1 + 1, log |-> new]
  BY <1>1, <1>2 DEF Record, new, e
<1>8. Counted(row[b], new) \in RowType /\ Counted(row[b], new).status = row[b].status
      /\ Counted(row[b], new).total = row[b].total
  BY <1>1, <1>4, CountedType DEF Counted, RowType
<1>9. row'[b] = IF Exists(b) THEN Counted(row[b], new) ELSE row[b]
  BY <1>1 DEF Record, new, e
<1>10. row'[b].status = row[b].status /\ row'[b].total = row[b].total
       /\ row[b].status # "completed"
  BY <1>1, <1>8, <1>9 DEF RunsStarted
<1>11. Exists(b) => checkpoint'[b] = [checkpoint[b] EXCEPT ![n + 1] = outcome]
  BY <1>1, <1>2 DEF Record
<1>12. Written(b)'
  <2>1. worker'[b].next = Len(new) + 1 /\ Len(new) <= Size[b] /\ ~Closing(b)' /\ ~Idle(b)'
    BY <1>2, <1>4, <1>7 DEF Closing, Idle
  <2>2. ASSUME NEW k \in 1..Len(new) PROVE new[k].line = k
    BY <1>2, <1>4, <1>5, <1>6 DEF WholeInv, Written
  <2>3. ASSUME Exists(b)', NEW k \in 1..Len(new) PROVE checkpoint'[b][k] = new[k].outcome
    <3>1. Exists(b)
      BY <1>10, <2>3 DEF Exists
    <3>2. n + 1 \in Lines(b) /\ \A i \in 1..n : i \in Lines(b) /\ i # n + 1
      BY <1>2 DEF Lines
    <3>3. CASE k = n + 1
      BY <1>1, <1>4, <1>6, <1>11, <3>1, <3>2, <3>3
    <3>4. CASE k \in 1..n
      BY <1>1, <1>4, <1>11, <3>1, <3>2, <3>4 DEF WholeInv, Written
    <3> QED
      BY <1>4, <1>5, <3>3, <3>4
  <2> QED
    BY <1>7, <2>1, <2>2, <2>3 DEF Written
<1>13. Totals(b)'
  BY <1>7, <1>10 DEF WholeInv, Totals, Idle, Exists
<1>14. Whole(b)'
  BY <1>10 DEF Whole
<1> QED
  BY <1>12, <1>13, <1>14 DEF WholeInv

LEMMA RecoverIsWhole ==
    ASSUME IInv, NEW b \in Batches, WholeInv(b), Recover(b) PROVE WholeInv(b)'
<1>1. AtItem(b) /\ Current(b) \notin Unsent
  BY DEF Recover
<1>2. ~Idle(b) /\ ~Closing(b) /\ worker[b].next \in Lines(b) /\ Current(b) \in Checkpoints
  BY <1>1, AtItemFacts
<1>3. (IF Current(b) = "processing" THEN "errored" ELSE Current(b)) \in Settled
  BY <1>1, <1>2 DEF Checkpoints, Settled
<1> QED
  BY <1>2, <1>3, RecordIsWhole DEF Recover

LEMMA AnswerIsWhole ==
    ASSUME IInv, NEW b \in Batches, WholeInv(b), Answer(b) \/ AnswerUnwritten(b)
    PROVE  WholeInv(b)'
<1>1. worker[b].pc = "waiting"
  BY DEF Answer, AnswerUnwritten
<1>2. ~Idle(b) /\ ~Closing(b) /\ worker[b].next \in Lines(b)
  BY <1>1, WaitingFacts
<1>3. faults \in 0..MaxFaults
  BY DEF IInv, TypeOK
<1>4. UNCHANGED age /\ (faults' = 0 => faults = 0)
  BY <1>3, LimitsAssumption DEF Answer, AnswerUnwritten
<1>5. Outcomes[b] \subseteq Settled
  BY BatchesAssumption DEF Settled, Answers
<1>6. PICK outcome \in Settled : Record(b, outcome)
  BY <1>5 DEF Answer, AnswerUnwritten, Settled
<1> QED
  BY <1>2, <1>4, <1>6, RecordIsWhole

(* The worker waits, or writes that an item beyond its log is under way.      *)
LEMMA MovesAreWhole ==
    ASSUME IInv, NEW b \in Batches, WholeInv(b),
           KeyResolved(b) \/ Throttle(b) \/ Send(b)
    PROVE  WholeInv(b)'
<1>1. /\ worker \in [Batches -> WorkerType] /\ worker[b] \in WorkerType
      /\ DOMAIN checkpoint = Batches /\ checkpoint[b] \in [Lines(b) -> Checkpoints]
      /\ RunsStarted(b)
  BY DEF IInv, TypeOK, BatchInv
<1>2. PICK pc \in {"loop", "throttled", "waiting"} : worker' = [worker EXCEPT ![b].pc = pc]
  BY DEF KeyResolved, Throttle, Send
<1>3. worker'[b].pc = pc /\ worker'[b].next = worker[b].next /\ worker'[b].log = worker[b].log
  BY <1>1, <1>2 DEF WorkerType
<1>4. row' = row /\ age' = age /\ faults' = faults
  BY DEF KeyResolved, Throttle, Send, tables
<1>5. ~Idle(b)
  BY DEF KeyResolved, Throttle, Send, MaySend, AtItem, Idle
<1>6. row[b].status # "completed"
  BY <1>1, <1>5 DEF RunsStarted
<1>7. worker[b].log \in Seq(EntryType) /\ worker[b].next = Len(worker[b].log) + 1
  BY <1>1 DEF WholeInv, Written, WorkerType
<1>8. \A k \in 1..Len(worker[b].log) : checkpoint'[b][k] = checkpoint[b][k]
  <2>1. CASE checkpoint' = checkpoint
    BY <2>1
  <2>2. CASE checkpoint' = [checkpoint EXCEPT ![b][worker[b].next] = "processing"]
    <3>1. \A k \in 1..Len(worker[b].log) : k # worker[b].next
      BY <1>7
    <3> QED
      BY <1>1, <2>2, <3>1
  <2> QED
    BY <2>1, <2>2 DEF KeyResolved, Throttle, Send, tables
<1>9. Written(b)'
  BY <1>3, <1>4, <1>8 DEF WholeInv, Written, Exists, Closing, Idle
<1>10. Totals(b)'
  BY <1>3, <1>4, <1>5 DEF WholeInv, Totals, Exists, Idle
<1>11. Whole(b)'
  BY <1>4, <1>6 DEF Whole
<1> QED
  BY <1>9, <1>10, <1>11 DEF WholeInv

LEMMA LeaveIsWhole ==
    ASSUME IInv, NEW b \in Batches, WholeInv(b), Leave(b) PROVE WholeInv(b)'
<1>1. /\ row \in [Batches -> RowType] /\ row[b] \in RowType
      /\ worker \in [Batches -> WorkerType] /\ worker[b] \in WorkerType /\ BatchInv(b)
  BY DEF IInv, TypeOK
<1>2. Grows(b) /\ checkpoint' = checkpoint /\ age' = age /\ faults' = faults
  BY DEF Leave, Grows
<1>3. CASE Cancelled(b)
  <2>1. worker'[b] = NoWorker
    BY <1>1, <1>3 DEF Leave
  <2>2. row'[b] = row[b] \/ row'[b].status # "completed"
    BY <1>1, <1>3 DEF Leave, RowType
  <2> QED
    BY <1>2, <2>1, <2>2, WholeWorkerEnds
<1>4. CASE ~Cancelled(b)
  <2>1. row' = [row EXCEPT ![b].status = "finalizing"]
        /\ worker' = [worker EXCEPT ![b].pc = "counting"]
    BY <1>4 DEF Leave
  <2>2. row'[b].status = "finalizing" /\ row'[b].total = row[b].total
    BY <1>1, <2>1 DEF RowType
  <2>3. worker'[b].pc = "counting" /\ worker'[b].next = worker[b].next
        /\ worker'[b].log = worker[b].log
    BY <1>1, <2>1 DEF WorkerType
  <2>4. Exists(b) /\ ~Idle(b)
    <3>1. ~Idle(b)
      BY DEF Leave, Idle
    <3> QED
      BY <1>1, <1>4, <3>1 DEF BatchInv, RunsStarted, Cancelled, Exists
  <2>5. Len(worker[b].log) = Size[b]
    <3>1. ~(worker[b].next <= Size[b])
      BY <1>4 DEF Leave, AtItem
    <3>2. worker[b].log \in Seq(EntryType) /\ Size[b] \in Nat
      BY <1>1, BatchesAssumption DEF WorkerType
    <3>3. Len(worker[b].log) \in Nat
      BY <3>2
    <3> QED
      BY <3>1, <3>2, <3>3 DEF WholeInv, Written
  <2>6. Written(b)'
    BY <1>2, <2>3, <2>4, <2>5 DEF WholeInv, Written, Closing, Idle
  <2>7. Totals(b)'
    BY <2>2, <2>3, <2>4 DEF WholeInv, Totals
  <2>8. Whole(b)'
    BY <2>2 DEF Whole
  <2> QED
    BY <2>6, <2>7, <2>8 DEF WholeInv
<1> QED
  BY <1>3, <1>4

LEMMA PersistCountsIsWhole ==
    ASSUME IInv, NEW b \in Batches, WholeInv(b), PersistCounts(b) PROVE WholeInv(b)'
<1> DEFINE log == worker[b].log
           final == Counted(row[b], log)
<1>1. /\ row \in [Batches -> RowType] /\ row[b] \in RowType
      /\ worker \in [Batches -> WorkerType] /\ worker[b] \in WorkerType /\ BatchInv(b)
      /\ log \in Seq(EntryType)
  BY DEF IInv, TypeOK, WorkerType
<1>2. /\ worker[b].pc = "counting" /\ worker' = [worker EXCEPT ![b].pc = "filing"]
      /\ checkpoint' = checkpoint /\ age' = age /\ faults \in 0..MaxFaults
  BY DEF PersistCounts, IInv, TypeOK
<1>3. worker'[b].pc = "filing" /\ worker'[b].next = worker[b].next /\ worker'[b].log = log
  BY <1>1, <1>2 DEF WorkerType
<1>4. row[b].status = "finalizing" /\ Exists(b) /\ ~Idle(b) /\ Closing(b)
  BY <1>1, <1>2 DEF BatchInv, RunsStarted, Closing, Idle, Exists
<1>5. row[b].total = Size[b] /\ Len(log) = Size[b] /\ Size[b] \in Nat
  BY <1>4, BatchesAssumption DEF WholeInv, Totals, Written
<1>6. /\ final \in RowType /\ final.status = "finalizing" /\ final.total = Size[b]
      /\ final.completed = Cardinality(Logged(log, {"ok"}))
      /\ final.failed = Cardinality(Logged(log, {"bad", "errored"}))
  BY <1>1, <1>4, <1>5, CountedType DEF Counted, RowType
<1>7. Size[b] = 0 => final.completed = 0 /\ final.failed = 0
  <2> SUFFICES ASSUME Size[b] = 0 PROVE final.completed = 0 /\ final.failed = 0
    OBVIOUS
  <2>1. DOMAIN log = {}
    BY <1>1, <1>5
  <2>2. Logged(log, {"ok"}) = {} /\ Logged(log, {"bad", "errored"}) = {}
    BY <2>1 DEF Logged
  <2> QED
    BY <1>6, <2>2, FS_EmptySet
<1> HIDE DEF final
<1>8. /\ row'[b].status = "finalizing" /\ row'[b].total = Size[b]
      /\ faults' = 0 => /\ row'[b].completed = Cardinality(Logged(log, {"ok"}))
                        /\ row'[b].failed = Cardinality(Logged(log, {"bad", "errored"}))
  <2>1. CASE faults' = faults + 1 /\ UNCHANGED row
    BY <1>2, <1>4, <1>5, <2>1, LimitsAssumption
  <2>2. CASE row' = [row EXCEPT ![b] =
                [final EXCEPT !.total = IF @ > 0 THEN @ ELSE final.completed + final.failed]]
    <3>1. row'[b] = [final EXCEPT !.total =
                       IF final.total > 0 THEN final.total ELSE final.completed + final.failed]
      BY <1>1, <2>2
    <3>2. (IF final.total > 0 THEN final.total ELSE final.completed + final.failed) = Size[b]
      BY <1>5, <1>6, <1>7
    <3> QED
      BY <1>6, <3>1, <3>2 DEF RowType
  <2> QED
    BY <2>1, <2>2 DEF PersistCounts, final
<1>9. Written(b)'
  BY <1>2, <1>3, <1>4, <1>5 DEF WholeInv, Written, Closing, Idle
<1>10. Totals(b)'
  BY <1>3, <1>8 DEF Totals
<1>11. Whole(b)'
  BY <1>8 DEF Whole
<1> QED
  BY <1>9, <1>10, <1>11 DEF WholeInv

LEMMA CompleteIsWhole ==
    ASSUME IInv, NEW b \in Batches, WholeInv(b), Complete(b) PROVE WholeInv(b)'
<1> DEFINE log == worker[b].log
<1>1. /\ row \in [Batches -> RowType] /\ row[b] \in RowType
      /\ worker \in [Batches -> WorkerType] /\ BatchInv(b) /\ worker[b].pc = "filing"
      /\ log \in Seq(EntryType)
  BY DEF IInv, TypeOK, WorkerType, Complete
<1>2. worker'[b] = NoWorker /\ checkpoint' = checkpoint /\ age' = age /\ faults' = faults
  BY <1>1 DEF Complete
<1>3. Exists(b) /\ ~Idle(b) /\ Closing(b)
  BY <1>1 DEF BatchInv, RunsStarted, Closing, Idle, Exists
<1>4. DOMAIN log = 1..Len(log) /\ Len(log) = Size[b] /\ DOMAIN log = Lines(b)
  BY <1>1, <1>3 DEF WholeInv, Written, Lines
<1>5. \A k \in Lines(b) : log[k].line = k /\ checkpoint[b][k] = log[k].outcome
  BY <1>3, <1>4 DEF WholeInv, Written, Lines
<1>6. \A k \in Lines(b) : log[k].outcome \in {"ok", "bad", "errored"}
  <2>1. \A k \in Lines(b) : log[k] \in EntryType
    BY <1>1, <1>4
  <2> QED
    BY <2>1 DEF EntryType, Settled, Answers
<1>7. LinesOf(log, {"ok"}) = Logged(log, {"ok"})
      /\ LinesOf(log, {"bad", "errored"}) = Logged(log, {"bad", "errored"})
  BY <1>4, <1>5, LinesArePlaces DEF Lines
<1>8. Logged(log, {"ok"}) = {i \in Lines(b) : checkpoint[b][i] = "ok"}
      /\ Logged(log, {"bad", "errored"}) = Lines(b) \ Logged(log, {"ok"})
  BY <1>4, <1>5, <1>6 DEF Logged
<1>9. /\ row'[b].output = LinesOf(log, {"ok"})
      /\ row'[b].errors = LinesOf(log, {"bad", "errored"})
      /\ row'[b].completed = row[b].completed /\ row'[b].failed = row[b].failed
      /\ row'[b].total = row[b].total
  BY <1>1 DEF Complete, RowType
<1>10. Whole(b)'
  <2>1. faults = 0 => /\ row[b].completed = Cardinality(Logged(log, {"ok"}))
                      /\ row[b].failed = Cardinality(Logged(log, {"bad", "errored"}))
                      /\ row[b].total = Size[b]
    BY <1>1, <1>3 DEF WholeInv, Totals
  <2> QED
    BY <1>2, <1>7, <1>8, <1>9, <2>1 DEF Whole, Lines
<1> QED
  BY <1>2, <1>10, NoWorkerFacts DEF WholeInv

-----------------------------------------------------------------------------
(* The poll, the routes and the clock.                                        *)

LEMMA PollIsWhole ==
    ASSUME IInv, Poll, NEW b \in Batches, WholeInv(b) PROVE WholeInv(b)'
<1>1. /\ TypeOK /\ BatchInv(b) /\ row[b] \in RowType
      /\ checkpoint[b] \in [Lines(b) -> Checkpoints] /\ Size[b] \in Nat
  BY BatchesAssumption DEF IInv, TypeOK
<1>2. row'[b] = Polled(b) /\ age' = age /\ faults' = faults /\ Grows(b)
  BY DEF Poll, Grows
<1>3. CASE Starts(b)
  <2>1. worker'[b] = [NoWorker EXCEPT !.pc = "starting"]
    BY <1>3 DEF Poll
  <2>2. worker'[b].pc = "starting" /\ worker'[b].next = 1 /\ Len(worker'[b].log) = 0
    BY <2>1 DEF NoWorker
  <2>3. row'[b].status = "in_progress" /\ row'[b].total = Size[b]
    <3>1. Polled(b) = [Recovered(b) EXCEPT !.status = "in_progress", !.total = Size[b]]
      BY <1>3 DEF Polled, Begun, Starts
    <3>2. Recovered(b) \in RowType
      BY <1>1, RecoveredFacts
    <3> QED
      BY <1>2, <3>1, <3>2 DEF RowType
  <2>4. Written(b)'
    BY <1>1, <2>2 DEF Written, Closing, Idle
  <2>5. Totals(b)' /\ Whole(b)'
    BY <2>2, <2>3 DEF Totals, Whole
  <2> QED
    BY <2>4, <2>5 DEF WholeInv
<1>4. CASE ~Starts(b)
  <2>1. worker'[b] = worker[b] /\ checkpoint'[b] = checkpoint[b]
    BY <1>1, <1>4 DEF Poll, Ensured
  <2>2. CASE ~Idle(b)
    <3>1. row[b].status \in {"in_progress", "finalizing", "cancelling", "cancelled", "deleted"}
      BY <1>1, <2>2 DEF BatchInv, RunsStarted
    <3>2. Recovered(b) = row[b] /\ b \notin Chosen /\ b \notin Validating
      BY <1>1, <2>2, <3>1, RecoveredFacts DEF Chosen, Validating
    <3>3. /\ row'[b].status \in {row[b].status, "cancelled"}
          /\ row[b].status = "deleted" => row'[b].status = "deleted"
          /\ row'[b].total = row[b].total /\ row'[b].completed = row[b].completed
          /\ row'[b].failed = row[b].failed
      BY <1>1, <1>2, <3>2 DEF Polled, RowType, Terminal
    <3>4. row'[b].status # "completed" /\ (Exists(b) \/ ~Exists(b)')
      BY <3>1, <3>3 DEF Exists
    <3> QED
      BY <1>2, <2>1, <3>3, <3>4, WholeRow
  <2>3. CASE Idle(b) /\ row'[b].status # "completed"
    BY <1>2, <2>1, <2>3, WholeRow DEF Idle, Closing
  <2>4. CASE Idle(b) /\ row'[b].status = "completed"
    <3>1. row[b].status = "completed"
      <4>1. Recovered(b).status = "completed"
        BY <1>1, <1>2, <1>4, <2>4, PolledFacts
      <4> QED
        BY <1>1, <4>1, RecoveredFacts
    <3>2. Recovered(b) = row[b] /\ b \notin Chosen /\ b \notin Validating
      BY <3>1 DEF Recovered, Stale, Chosen, Validating
    <3>3. age[b] # "old" => row'[b] = row[b]
      BY <1>2, <3>1, <3>2 DEF Polled
    <3>4. CASE age[b] # "old"
      BY <1>2, <2>1, <3>3, <3>4, WholeFrame
    <3>5. CASE age[b] = "old"
      <4>1. Whole(b)'
        BY <1>2, <3>5 DEF Whole
      <4>2. Written(b)' /\ Totals(b)'
        BY <2>1, <2>4 DEF WholeInv, Written, Totals, Idle, Closing
      <4> QED
        BY <4>1, <4>2 DEF WholeInv
    <3> QED
      BY <3>4, <3>5
  <2> QED
    BY <2>2, <2>3, <2>4
<1> QED
  BY <1>3, <1>4

LEMMA RouteIsWhole ==
    ASSUME IInv, NEW b \in Batches, WholeInv(b), Route(b) \/ Pass(b) PROVE WholeInv(b)'
<1>1. /\ row \in [Batches -> RowType] /\ row[b] \in RowType /\ BatchInv(b)
      /\ age \in [Batches -> {"new", "late", "old"}]
  BY DEF IInv, TypeOK
<1>2. CASE Create(b)
  <2>1. Idle(b) /\ ~Closing(b)
    BY <1>1, <1>2 DEF Create, BatchInv, RunsStarted, Idle, Closing
  <2>2. row'[b].status # "completed" /\ worker' = worker /\ Grows(b)
    BY <1>1, <1>2 DEF Create, RowType, Grows
  <2> QED
    BY <2>1, <2>2, WholeRow
<1>3. CASE Cancel(b)
  <2>1. Exists(b) /\ ~Closing(b)
    BY <1>3 DEF Cancel, Exists, Pending
  <2>2. /\ row'[b].status = "cancelling" /\ row'[b].total = row[b].total
        /\ worker' = worker /\ checkpoint' = checkpoint /\ Grows(b)
    BY <1>1, <1>3 DEF Cancel, RowType, Grows
  <2> QED
    BY <2>1, <2>2, WholeRow
<1>4. CASE Delete(b)
  <2>1. row'[b].status = "deleted" /\ worker' = worker /\ Grows(b)
    BY <1>1, <1>4 DEF Delete, NewRow, Grows
  <2>2. ~Exists(b)' /\ ~Closing(b)
    BY <1>1, <1>4, <2>1 DEF Exists, BatchInv, RunsStarted, Delete, Terminal
  <2> QED
    BY <2>1, <2>2, WholeRow
<1>5. CASE LoseInput(b) \/ Pass(b)
  <2>1. row' = row /\ worker' = worker /\ checkpoint' = checkpoint /\ faults' = faults
    BY <1>5 DEF LoseInput, Pass, tables
  <2>2. age'[b] # "old" => age[b] # "old"
    BY <1>1, <1>5 DEF LoseInput, Pass
  <2> QED
    BY <2>1, <2>2, WholeFrame DEF Grows
<1> QED
  BY <1>2, <1>3, <1>4, <1>5 DEF Route

(* A step of one batch leaves the others alone.                               *)
LEMMA OthersKeepWhole ==
    ASSUME IInv, NEW b \in Batches, Work(b) \/ Fault(b) \/ Route(b) \/ Pass(b),
           NEW c \in Batches, c # b, WholeInv(c)
    PROVE  WholeInv(c)'
<1>1. /\ row \in [Batches -> RowType] /\ worker \in [Batches -> WorkerType]
      /\ DOMAIN checkpoint = Batches /\ age \in [Batches -> {"new", "late", "old"}]
      /\ faults \in 0..MaxFaults
  BY DEF IInv, TypeOK
<1>2. row'[c] = row[c] /\ worker'[c] = worker[c] /\ checkpoint'[c] = checkpoint[c]
  <2>1. CASE Work(b)
    BY <1>1, <2>1 DEF Work, KeyResolved, Recover, Throttle, Send, Answer, Vanished, Leave,
       PersistCounts, Complete, Record, tables
  <2>2. CASE Fault(b)
    BY <1>1, <2>2 DEF Fault, AnswerUnwritten, Throw, Record
  <2>3. CASE Route(b) \/ Pass(b)
    BY <1>1, <2>3 DEF Route, Create, Cancel, Delete, LoseInput, Pass, tables
  <2> QED
    BY <2>1, <2>2, <2>3
<1>3. age'[c] = age[c]
  BY <1>1 DEF Work, Fault, Route, KeyResolved, Recover, Throttle, Send, Answer, Vanished, Leave,
     PersistCounts, Complete, AnswerUnwritten, Throw, Create, Cancel, Delete, LoseInput, Pass
<1>4. faults' = faults \/ faults' = faults + 1
  BY DEF Work, Fault, Route, KeyResolved, Recover, Throttle, Send, Answer, Vanished, Leave,
     PersistCounts, Complete, AnswerUnwritten, Throw, Create, Cancel, Delete, LoseInput, Pass
<1>5. Grows(c)
  BY <1>1, <1>3, <1>4, LimitsAssumption DEF Grows
<1> QED
  BY <1>2, <1>5, WholeFrame

LEMMA WholeStep ==
    ASSUME IInv, [Next]_vars, NEW c \in Batches, WholeInv(c)
    PROVE  WholeInv(c)'
<1>1. ASSUME Work(c) PROVE WholeInv(c)'
  <2>1. CASE Vanished(c)
    <3>1. worker'[c] = NoWorker /\ row' = row /\ checkpoint' = checkpoint /\ Grows(c)
      BY <2>1 DEF Vanished, tables, Grows, IInv, TypeOK
    <3> QED
      BY <3>1, WholeWorkerEnds
  <2> QED
    BY <1>1, <2>1, MovesAreWhole, RecoverIsWhole, AnswerIsWhole, LeaveIsWhole,
       PersistCountsIsWhole, CompleteIsWhole DEF Work
<1>2. ASSUME Fault(c) PROVE WholeInv(c)'
  <2>1. CASE Throw(c)
    <3>1. worker'[c] = NoWorker /\ checkpoint' = checkpoint /\ Grows(c)
      BY <2>1, LimitsAssumption DEF Throw, Grows, IInv, TypeOK
    <3>2. row'[c] = row[c] \/ row'[c].status # "completed"
      BY <2>1 DEF Throw, IInv, TypeOK, RowType
    <3> QED
      BY <3>1, <3>2, WholeWorkerEnds
  <2> QED
    BY <1>2, <2>1, AnswerIsWhole DEF Fault
<1>3. ASSUME Route(c) \/ Pass(c) PROVE WholeInv(c)'
  BY <1>3, RouteIsWhole
<1>4. ASSUME NEW b \in Batches, Work(b) \/ Fault(b) \/ Route(b) \/ Pass(b)
      PROVE  WholeInv(c)'
  BY <1>1, <1>2, <1>3, <1>4, OthersKeepWhole
<1>5. CASE Poll
  BY <1>5, PollIsWhole
<1>6. CASE Restart
  BY <1>6, WholeWorkerEnds DEF Restart, tables, Grows
<1>7. CASE UNCHANGED vars
  BY <1>7, WholeFrame DEF vars, tables, Grows
<1> QED
  BY <1>4, <1>5, <1>6, <1>7 DEF Next

(* However often a batch is interrupted, recovered and resumed, and whichever *)
(* writes fail: a completed batch accounts for each item exactly once.        *)
THEOREM CompletedAccounts == Spec => []CompletedIsWhole
<1> DEFINE AllWhole == \A b \in Batches : WholeInv(b)
<1>1. Init => AllWhole
  <2> SUFFICES ASSUME Init, NEW b \in Batches PROVE WholeInv(b)
    OBVIOUS
  <2>1. worker[b] = NoWorker /\ Size[b] \in Nat
    BY BatchesAssumption DEF Init
  <2>2. worker[b].pc = "off" /\ worker[b].next = 1 /\ Len(worker[b].log) = 0
    BY <2>1 DEF NoWorker
  <2>3. row[b].status # "completed"
    <3>1. NewRow.status = "absent"
          /\ [NewRow EXCEPT !.status = "in_progress", !.total = Size[b]].status = "in_progress"
      BY DEF NewRow
    <3>2. PICK legacy \in {0} \cup Batches :
            row = [a \in Batches |->
                     IF a <= legacy
                     THEN [NewRow EXCEPT !.status = "in_progress", !.total = Size[a]]
                     ELSE NewRow]
      BY DEF Init
    <3>3. row[b] = IF b <= legacy
                   THEN [NewRow EXCEPT !.status = "in_progress", !.total = Size[b]]
                   ELSE NewRow
      BY <3>2
    <3> QED
      BY <3>1, <3>3
  <2>4. Written(b)
    BY <2>1, <2>2 DEF Written, Closing, Idle
  <2> QED
    BY <2>2, <2>3, <2>4 DEF WholeInv, Totals, Whole, Idle
<1>2. IInv /\ AllWhole /\ [Next]_vars => AllWhole'
  BY WholeStep
<1>3. AllWhole => CompletedIsWhole
  BY DEF WholeInv, Whole, CompletedIsWhole
<1> HIDE DEF AllWhole
<1> QED
  BY <1>1, <1>2, <1>3, AlwaysIInv, PTL DEF Spec
=============================================================================
