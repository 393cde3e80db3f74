--------------------------- MODULE BatchProcessor ---------------------------
(***************************************************************************)
(* The batch processor (open-sse/services/batchProcessor.ts) on its tables   *)
(* (src/lib/db/batches.ts) and the routes that create, cancel and delete     *)
(* batches.  A poll every 10 s recovers, starts, cancels and expires         *)
(* batches; a worker per started batch sends its items one by one and        *)
(* checkpoints each.  The process may crash at any time: only the tables     *)
(* survive.  Answers are kept as their outcome; batches are numbered in the  *)
(* order of their creation, items by their line.                             *)
(***************************************************************************)
EXTENDS Naturals, Sequences, FiniteSets

CONSTANTS
    Batches,        \* ids in the order of creation
    Size,           \* number of items of each batch
    Outcomes,       \* how the provider may answer the items of each batch
    MaxConcurrent,  \* BATCH_MAX_CONCURRENT
    MaxCrashes,     \* bound: crashes of the process
    MaxFaults       \* bound: writes to the database that fail

ASSUME BatchesAssumption ==
    /\ Batches \subseteq Nat \ {0} /\ IsFiniteSet(Batches)
    /\ Size \in [Batches -> Nat]
    /\ Outcomes \in [Batches -> SUBSET {"ok", "bad", "errored"}]
ASSUME LimitsAssumption == MaxConcurrent \in Nat \ {0} /\ MaxCrashes \in Nat /\ MaxFaults \in Nat

VARIABLES
    row,         \* batches: status, counts and the lines of the two result files
    checkpoint,  \* batch_item_checkpoints: state of each line
    input,       \* content of the input file: "valid", "invalid" or "gone"
    age,         \* time: past the completion window, past the retention
    worker,      \* processBatchItems of a batch, "off" if it does not run
    sent,        \* history: times an item was handed to the provider
    overrun,     \* history: items sent although the batch was cancelled
    crashes, faults

tables == <<row, checkpoint, input>>
history == <<sent, overrun>>
vars == <<row, checkpoint, input, age, worker, sent, overrun, crashes, faults>>

Lines(b) == 1..Size[b]

Terminal == {"completed", "failed", "expired", "cancelled"}
Pending  == {"validating", "in_progress", "finalizing", "cancelling"}
Statuses == {"absent", "deleted"} \cup Pending \cup Terminal

Answers  == {"ok", "bad"}            \* checkpoint completed, by status code
Settled  == Answers \cup {"errored"}
\* Mutant: an interrupted item counts as not sent.
Unsent_Interrupted == {"none", "pending", "processing"}
Unsent   == {"none", "pending"}      \* "none": there is no row

NoWorker == [pc |-> "off", next |-> 1, log |-> <<>>]
Idle(b)  == worker[b].pc = "off"
Active   == {b \in Batches : ~Idle(b)}          \* activeBatches

NewRow == [status |-> "absent", total |-> 0, completed |-> 0, failed |-> 0,
           output |-> {}, errors |-> {}]

(* A process that starts for the first time after checkpoints were added may  *)
(* find batches an older one left in_progress.                                *)
Init ==
    /\ \E legacy \in {0} \cup Batches :
        row = [b \in Batches |->
                 IF b <= legacy
                 THEN [NewRow EXCEPT !.status = "in_progress", !.total = Size[b]]
                 ELSE NewRow]
    /\ checkpoint = [b \in Batches |-> [i \in Lines(b) |-> "none"]]
    /\ input \in [Batches -> {"valid", "invalid"}]
    /\ age = [b \in Batches |-> "new"]
    /\ worker = [b \in Batches |-> NoWorker]
    /\ sent = [b \in Batches |-> [i \in Lines(b) |-> 0]]
    /\ overrun = [b \in Batches |-> 0]
    /\ crashes = 0 /\ faults = 0

-----------------------------------------------------------------------------
(* The routes.                                                               *)

Create(b) ==
    /\ row[b].status = "absent"
    /\ \A a \in Batches : a < b => row[a].status # "absent"
    /\ row' = [row EXCEPT ![b].status = "validating"]
    /\ UNCHANGED <<checkpoint, input, age, worker, history, crashes, faults>>

(* finalizeBatch never awaits: no route runs inside it.                       *)
Closing(b) == worker[b].pc \in {"counting", "filing"}

Cancel(b) ==
    /\ row[b].status \in Pending \ {"cancelling"} /\ ~Closing(b)
    /\ row' = [row EXCEPT ![b].status = "cancelling"]
    /\ UNCHANGED <<checkpoint, input, age, worker, history, crashes, faults>>

Delete(b) ==
    /\ row[b].status \in Terminal
    /\ row' = [row EXCEPT ![b] = [NewRow EXCEPT !.status = "deleted"]]
    /\ checkpoint' = [checkpoint EXCEPT ![b] = [i \in Lines(b) |-> "none"]]
    /\ input' = [input EXCEPT ![b] = "gone"]
    /\ UNCHANGED <<age, worker, history, crashes, faults>>

(* The input file goes by itself: deleted by its owner, together with another *)
(* batch that names it, or as a file older than 30 days.  It matters while    *)
(* the batch may still be started.                                            *)
LoseInput(b) ==
    /\ input[b] # "gone" /\ row[b].status \in Pending \ {"cancelling"}
    /\ input' = [input EXCEPT ![b] = "gone"]
    /\ UNCHANGED <<row, checkpoint, age, worker, history, crashes, faults>>

(* The completion window passes, and later the retention of the files, which  *)
(* only a completed batch has.                                                *)
Pass(b) ==
    /\ \/ row[b].status = "validating" /\ age[b] = "new" /\ age' = [age EXCEPT ![b] = "late"]
       \/ row[b].status = "completed" /\ age[b] # "old" /\ age' = [age EXCEPT ![b] = "old"]
    /\ UNCHANGED <<tables, worker, history, crashes, faults>>

-----------------------------------------------------------------------------
(* processPendingBatches: one synchronous pass over the pending batches.      *)

\* Mutant: the batches this process works on are stale, too.
Stale_Active(b) == row[b].status \in {"in_progress", "finalizing"}

\* Mutant: a batch that was interrupted while finalizing is forgotten.
Stale_NotFinalizing(b) == row[b].status = "in_progress" /\ Idle(b)

(* recoverStaleBatch, for a batch an earlier life, or a worker that could not *)
(* write its failure, left behind.                                            *)
Stale(b) == row[b].status \in {"in_progress", "finalizing"} /\ Idle(b)

Uncheckpointed(b) == \A i \in Lines(b) : checkpoint[b][i] = "none"

HasEffects(b) ==
    \/ row[b].total > 0 \/ row[b].completed > 0 \/ row[b].failed > 0
    \/ row[b].status = "finalizing"

Recovered(b) ==
    IF ~Stale(b) THEN row[b]
    ELSE IF Uncheckpointed(b) /\ HasEffects(b)
    THEN [row[b] EXCEPT !.status = "failed"]
    ELSE IF Uncheckpointed(b)
    THEN [row[b] EXCEPT !.status = "validating", !.output = {}, !.errors = {},
                        !.completed = 0, !.failed = 0]
    ELSE [row[b] EXCEPT !.status = "validating", !.output = {}, !.errors = {}]

(* startBatch, for the first validating batches the limit leaves room for.    *)
Validating == {b \in Batches : Recovered(b).status = "validating"}

Chosen ==
    {b \in Validating :
        Cardinality({a \in Validating : a < b}) + Cardinality(Active) < MaxConcurrent}

Starts(b) == b \in Chosen /\ input[b] = "valid"

Begun(b) ==
    IF input[b] = "gone" THEN [Recovered(b) EXCEPT !.status = "failed"]
    ELSE IF input[b] = "invalid"
    THEN [Recovered(b) EXCEPT !.status = "failed", !.total = Size[b], !.failed = Size[b]]
    ELSE [Recovered(b) EXCEPT !.status = "in_progress", !.total = Size[b]]

(* cancelBatch, the expiry of batches that never got a slot, and the          *)
(* retention of the files of terminal ones.                                   *)
Polled(b) ==
    IF b \in Chosen THEN Begun(b)
    ELSE IF Recovered(b).status = "cancelling"
    THEN [Recovered(b) EXCEPT !.status = "cancelled"]
    ELSE IF b \in Validating /\ age[b] # "new"
    THEN [Recovered(b) EXCEPT !.status = "expired"]
    ELSE IF Recovered(b).status \in Terminal /\ age[b] = "old"
    THEN [Recovered(b) EXCEPT !.output = {}, !.errors = {}]
    ELSE Recovered(b)

\* Mutant: INSERT OR REPLACE.
Ensured_Replace(b, i) == IF Starts(b) THEN "pending" ELSE checkpoint[b][i]

(* ensureBatchItemCheckpoints: INSERT OR IGNORE.                              *)
Ensured(b, i) ==
    IF Starts(b) /\ checkpoint[b][i] = "none" THEN "pending" ELSE checkpoint[b][i]

Poll ==
    /\ row' = [b \in Batches |-> Polled(b)]
    /\ checkpoint' = [b \in Batches |-> [i \in Lines(b) |-> Ensured(b, i)]]
    /\ input' = [b \in Batches |->
            IF Polled(b).status \in Terminal /\ age[b] = "old" THEN "gone" ELSE input[b]]
    /\ worker' = [b \in Batches |->
            IF Starts(b) THEN [NoWorker EXCEPT !.pc = "starting"] ELSE worker[b]]
    /\ UNCHANGED <<age, history, crashes, faults>>

-----------------------------------------------------------------------------
(* processBatchItems.  Only its own worker writes the checkpoints of a batch, *)
(* so the snapshot it takes is read from the table.                           *)

\* Mutant: only the request to cancel stops a worker, not the poll's verdict.
Cancelled_Requested(b) == row[b].status \in {"cancelling", "deleted"}

Cancelled(b) == row[b].status \in {"cancelling", "cancelled", "deleted"}

Current(b) == checkpoint[b][worker[b].next]

(* Logged items, and the counts maybePersistProgress writes for them.         *)
Logged(log, outcomes) == {i \in DOMAIN log : log[i].outcome \in outcomes}
LinesOf(log, outcomes) == {log[i].line : i \in Logged(log, outcomes)}

Counted(r, log) ==
    [r EXCEPT !.completed = Cardinality(Logged(log, {"ok"})),
              !.failed = Cardinality(Logged(log, {"bad", "errored"}))]

Exists(b) == row[b].status \notin {"absent", "deleted"}

Record(b, outcome) ==
    LET log == Append(worker[b].log, [line |-> worker[b].next, outcome |-> outcome]) IN
    /\ worker' = [worker EXCEPT ![b] = [pc |-> "loop", next |-> @.next + 1, log |-> log]]
    /\ row' = IF Exists(b) THEN [row EXCEPT ![b] = Counted(@, log)] ELSE row
    /\ checkpoint' = IF Exists(b)
                     THEN [checkpoint EXCEPT ![b][worker[b].next] = outcome] ELSE checkpoint

(* resolveApiKey is awaited before the first item.                            *)
KeyResolved(b) ==
    /\ worker[b].pc = "starting"
    /\ worker' = [worker EXCEPT ![b].pc = "loop"]
    /\ UNCHANGED <<tables, age, history, crashes, faults>>

\* Mutant: the loop does not look at the batch.
AtItem_Unasked(b) == worker[b].pc = "loop" /\ worker[b].next <= Size[b]

AtItem(b) == worker[b].pc = "loop" /\ ~Cancelled(b) /\ worker[b].next <= Size[b]

\* Mutant: a settled item is skipped, its result not taken over.
Recover_Skipped(b) ==
    /\ AtItem(b) /\ Current(b) \notin Unsent
    /\ worker' = [worker EXCEPT ![b].next = @ + 1]
    /\ UNCHANGED <<tables, age, history, crashes, faults>>

(* applyRecoveredCheckpoint: a settled item is taken over, an interrupted one *)
(* is an error and is not replayed.                                           *)
Recover(b) ==
    /\ AtItem(b) /\ Current(b) \notin Unsent
    /\ Record(b, IF Current(b) = "processing" THEN "errored" ELSE Current(b))
    /\ UNCHANGED <<input, age, history, crashes, faults>>

(* Rate-limit headers of the last answer may delay the next item.             *)
Throttle(b) ==
    /\ AtItem(b) /\ Current(b) \in Unsent
    /\ worker' = [worker EXCEPT ![b].pc = "throttled"]
    /\ UNCHANGED <<tables, age, history, crashes, faults>>

(* markBatchItemProcessing, then the dispatch with its retries.  Cancellation *)
(* is not looked at again after the delay.                                    *)
MaySend(b) == (AtItem(b) /\ Current(b) \in Unsent) \/ (worker[b].pc = "throttled" /\ Exists(b))

Send(b) ==
    LET i == worker[b].next IN
    /\ MaySend(b)
    /\ worker' = [worker EXCEPT ![b].pc = "waiting"]
    /\ checkpoint' = [checkpoint EXCEPT ![b][i] = "processing"]
    /\ sent' = [sent EXCEPT ![b][i] = @ + 1]
    /\ overrun' = IF Cancelled(b) THEN [overrun EXCEPT ![b] = @ + 1] ELSE overrun
    /\ UNCHANGED <<row, input, age, crashes, faults>>

(* The answer of the provider, or the exception of the dispatch.              *)
Answer(b) ==
    /\ worker[b].pc = "waiting"
    /\ \E outcome \in Outcomes[b] : Record(b, outcome)
    /\ UNCHANGED <<input, age, history, crashes, faults>>

(* The answer came, but markBatchItemResult failed: an error like any other.  *)
AnswerUnwritten(b) ==
    /\ worker[b].pc = "waiting" /\ faults < MaxFaults
    /\ Record(b, "errored")
    /\ faults' = faults + 1
    /\ UNCHANGED <<input, age, history, crashes>>

(* The end of the loop: finalizeBatch, which a cancellation stops.            *)
Leave(b) ==
    /\ worker[b].pc = "loop" /\ ~AtItem(b)
    /\ IF Cancelled(b)
       THEN /\ row' = IF row[b].status = "cancelling"
                      THEN [row EXCEPT ![b].status = "cancelled"] ELSE row
            /\ worker' = [worker EXCEPT ![b] = NoWorker]
       ELSE /\ row' = [row EXCEPT ![b].status = "finalizing"]
            /\ worker' = [worker EXCEPT ![b].pc = "counting"]
    /\ UNCHANGED <<checkpoint, input, age, history, crashes, faults>>

(* The final counts; a write that fails is only logged.                       *)
PersistCounts(b) ==
    LET final == Counted(row[b], worker[b].log) IN
    /\ worker[b].pc = "counting"
    /\ worker' = [worker EXCEPT ![b].pc = "filing"]
    /\ \/ /\ row' = [row EXCEPT ![b] =
                [final EXCEPT !.total = IF @ > 0 THEN @ ELSE final.completed + final.failed]]
          /\ UNCHANGED faults
       \/ faults < MaxFaults /\ faults' = faults + 1 /\ UNCHANGED row
    /\ UNCHANGED <<checkpoint, input, age, history, crashes>>

(* createSuccessFile, createErrorFile, completeBatch.                         *)
Complete(b) ==
    /\ worker[b].pc = "filing"
    /\ row' = [row EXCEPT ![b].status = "completed",
                          ![b].output = LinesOf(worker[b].log, {"ok"}),
                          ![b].errors = LinesOf(worker[b].log, {"bad", "errored"})]
    /\ worker' = [worker EXCEPT ![b] = NoWorker]
    /\ UNCHANGED <<checkpoint, input, age, history, crashes, faults>>

(* The checkpoint of a deleted batch breaks its foreign key: the worker ends   *)
(* before it sends anything, and failBatch finds no row.                      *)
Vanished(b) ==
    /\ worker[b].pc = "throttled" /\ ~Exists(b)
    /\ worker' = [worker EXCEPT ![b] = NoWorker]
    /\ UNCHANGED <<tables, age, history, crashes, faults>>

(* An exception outside the item's try block ends the worker: failBatch,      *)
(* which the same trouble may keep from being written.                        *)
Throw(b) ==
    /\ ~Idle(b) /\ Exists(b) /\ faults < MaxFaults
    /\ faults' = faults + 1
    /\ worker' = [worker EXCEPT ![b] = NoWorker]
    /\ \/ row' = [row EXCEPT ![b].status = "failed"]
       \/ UNCHANGED row
    /\ UNCHANGED <<checkpoint, input, age, history, crashes>>

Restart ==
    /\ crashes < MaxCrashes
    /\ crashes' = crashes + 1
    /\ worker' = [b \in Batches |-> NoWorker]
    /\ UNCHANGED <<tables, age, history, faults>>

-----------------------------------------------------------------------------
Work(b) ==
    \/ KeyResolved(b) \/ Recover(b) \/ Throttle(b) \/ Send(b) \/ Answer(b)
    \/ Vanished(b) \/ Leave(b) \/ PersistCounts(b) \/ Complete(b)

Fault(b) == AnswerUnwritten(b) \/ Throw(b)

Route(b) == Create(b) \/ Cancel(b) \/ Delete(b) \/ LoseInput(b)

Next ==
    \/ \E b \in Batches : Work(b) \/ Fault(b) \/ Route(b) \/ Pass(b)
    \/ Poll
    \/ Restart

(* The poll is an interval timer, a worker one chain of promises; a dispatch   *)
(* has a bounded number of retries within a bounded time.                      *)
Fairness == WF_vars(Poll) /\ \A b \in Batches : WF_vars(Work(b))

Spec == Init /\ [][Next]_vars /\ Fairness

-----------------------------------------------------------------------------
RowType ==
    [status : Statuses, total : Nat, completed : Nat, failed : Nat,
     output : SUBSET Nat, errors : SUBSET Nat]

EntryType == [line : Nat, outcome : Settled]

WorkerType ==
    [pc : {"off", "starting", "loop", "throttled", "waiting", "counting", "filing"},
     next : Nat \ {0}, log : Seq(EntryType)]

Checkpoints == Unsent \cup {"processing"} \cup Settled

(* Every variable has its type.                                               *)
TypeOK ==
    /\ row \in [Batches -> RowType]
    /\ DOMAIN checkpoint = Batches /\ DOMAIN sent = Batches
    /\ \A b \in Batches :
        /\ checkpoint[b] \in [Lines(b) -> Checkpoints]
        /\ sent[b] \in [Lines(b) -> Nat]
    /\ input \in [Batches -> {"valid", "invalid", "gone"}]
    /\ age \in [Batches -> {"new", "late", "old"}]
    /\ worker \in [Batches -> WorkerType]
    /\ overrun \in [Batches -> Nat]
    /\ crashes \in 0..MaxCrashes /\ faults \in 0..MaxFaults

(* "it was not replayed to avoid duplicate provider work": whatever crashes   *)
(* and failed writes come between, no item is handed to the provider twice.   *)
NothingIsReplayed ==
    \A b \in Batches : \A i \in Lines(b) : sent[b][i] <= 1

(* The poll starts a batch by its status alone: a batch whose worker still    *)
(* runs, also one that was cancelled or deleted meanwhile, never looks ready  *)
(* to start, and the workers stay within BATCH_MAX_CONCURRENT.                *)
OneWorkerPerBatch ==
    /\ \A b \in Active : row[b].status # "validating"
    /\ Cardinality(Active) <= MaxConcurrent

(* A completed batch accounts for every item exactly once: each line is in    *)
(* one of the result files, as its checkpoint says, and the counts add up.    *)
CompletedIsWhole ==
    \A b \in Batches : row[b].status = "completed" /\ age[b] # "old" =>
        /\ row[b].output = {i \in Lines(b) : checkpoint[b][i] = "ok"}
        /\ row[b].errors = Lines(b) \ row[b].output
        /\ faults = 0 => /\ row[b].completed = Cardinality(row[b].output)
                         /\ row[b].failed = Cardinality(row[b].errors)
                         /\ row[b].total = Size[b]

(* A cancellation stops the worker at the next item: at most one more, that   *)
(* was already being delayed, is sent.                                        *)
CancelStopsSending == \A b \in Batches : overrun[b] <= 1

(* A batch that was cancelled, or that ended, keeps its verdict: no worker,   *)
(* recovery or clean-up that comes later changes it, except that the failure  *)
(* of a write makes a cancelled batch a failed one.                           *)
VerdictsStand ==
    [][\A b \in Batches :
        LET was == row[b].status
            is  == row'[b].status
        IN  was \in Terminal \cup {"cancelling"} =>
                \/ is \in {was, "deleted"}
                \/ was = "cancelling" /\ is = "cancelled"
                \/ was \in {"cancelling", "cancelled"} /\ is = "failed" /\ faults' > faults]_vars

(* An answer that was checkpointed survives crash and recovery: it is only    *)
(* removed with its batch.                                                    *)
AnswersAreKept ==
    [][\A b \in Batches : \A i \in Lines(b) :
        checkpoint[b][i] \in Settled =>
            checkpoint'[b][i] = checkpoint[b][i] \/ row'[b].status = "deleted"]_vars

(* Every batch that was created comes to an end.                              *)
BatchesEnd ==
    \A b \in Batches : row[b].status \in Pending ~> row[b].status \in Terminal \cup {"deleted"}

=============================================================================
