---------------------------- MODULE MemoryCapture ----------------------------
(***************************************************************************)
(* Long-term memory of one user (apps/gateway/internal/memory).  A capture *)
(* job takes one finished turn to the memory provider: a session with two  *)
(* messages, a commit of the session, an extraction task that writes the   *)
(* memories.  Jobs are rows; the worker of every gateway replica claims    *)
(* one at a time under a lease.  Clear (the user) and Reset (the admin)    *)
(* cancel the jobs, wait for them and erase what the provider holds.       *)
(*                                                                         *)
(* A step is one statement, one transaction or one call of the provider.   *)
(* Any of them may fail, a call with or without its effect; a worker may   *)
(* stop between two steps.  A worker gives up after 45 seconds, its leases *)
(* last one or two minutes: a lease outlives the worker that took it.      *)
(* Of the times only the leases are kept (row.due).  A call that failed    *)
(* has no effect later on.                                                 *)
(***************************************************************************)
EXTENDS Integers

CONSTANTS
    Jobs,           \* the run ids of finished turns
    Workers,        \* gateway replicas: one worker each
    Wipes,          \* calls of Clear or Reset
    Nil,
    AttemptLimit,   \* Config.CaptureAttemptLimit
    MaxFaults       \* bound: failures, crashes and decisions of the admin

ASSUME NilAssumption == Nil \notin Jobs
ASSUME LimitAssumption == AttemptLimit \in Nat \ {0} /\ MaxFaults \in Nat

VARIABLES
    row,        \* memory_capture_jobs
    epoch,      \* memory_user_settings.epoch, 0 without a row
    settings,   \* memory_user_settings has a row of the user
    enabled,    \* memory_config.enabled, with the models ready
    resetting,  \* memory_config.resetting
    account,    \* memory_reset_accounts names the user's tenant
    session,    \* provider: messages in the session of a job, Absent without one
    task,       \* provider: the commit task of a session
    memories,   \* provider: the jobs whose memories it holds
    worker, wipe,
    commits,    \* history: commits of a session that took effect
    givenUp,    \* history: jobs declared dead
    erased,     \* history: jobs covered by a Clear or Reset that reported success
    strays,     \* history: jobs that a Clear or Reset swept although it began before
                \* they were scheduled
    faults      \* failures so far

provider == <<session, task, memories, commits>>
user == <<epoch, settings>>
config == <<enabled, resetting, account>>
history == <<givenUp, erased, strays>>
vars == <<row, user, config, provider, worker, wipe, history, faults>>

-----------------------------------------------------------------------------
Absent == -1
Queued == {"pending", "processing", "submitting"}
Cancellable == Queued \cup {"cancel_requested"}
Settled == {"completed", "dead", "cancelled"}
Active == {"running", "stopping"}
Ended == {"succeeded", "failed", "cancelled"}

\* taskId: whether provider_task_id is known.  due: next_attempt_at <= now().
Row == [status : {"unborn", "deleted"} \cup Cancellable \cup Settled, canc : BOOLEAN,
        epoch : Nat, due : BOOLEAN, attempts : Nat, taskId : BOOLEAN]
NewRow(status, e) == [status |-> status, canc |-> FALSE, epoch |-> e, due |-> TRUE,
                      attempts |-> 0, taskId |-> FALSE]

\* status, attempts, taskId: the worker's copy of the row it claimed.  "settle": what
\* is left is one UPDATE, named by verdict.
Pc == {"idle", "route", "lookup", "load", "session", "append", "mark", "commit",
       "record", "poll", "cancel", "cancelTask", "await", "settle"}
Verdict == {"none", "complete", "dead", "cancelled", "adopt", "retry", "retryCancel"}
Worker == [pc : Pc, job : Jobs \cup {Nil}, status : Cancellable \cup {"cancelled"},
           attempts : Nat, taskId : BOOLEAN, verdict : Verdict]
Idle == [pc |-> "idle", job |-> Nil, status |-> "pending", attempts |-> 0,
         taskId |-> FALSE, verdict |-> "none"]
Wipe == [pc : {"idle", "wait", "accounts", "remove", "checkpoint", "sessions", "rows",
               "done", "failed"},
         kind : {"clear", "reset"}, epoch : Nat, targets : SUBSET Jobs]

TypeOK ==
    /\ row \in [Jobs -> Row]
    /\ epoch \in Nat
    /\ settings \in BOOLEAN
    /\ enabled \in BOOLEAN /\ resetting \in BOOLEAN /\ account \in BOOLEAN
    /\ session \in [Jobs -> Nat \cup {Absent}]
    /\ task \in [Jobs -> {"none"} \cup Active \cup Ended]
    /\ memories \in SUBSET Jobs
    /\ worker \in [Workers -> Worker]
    /\ wipe \in [Wipes -> Wipe]
    /\ commits \in [Jobs -> Nat]
    /\ givenUp \in SUBSET Jobs /\ erased \in SUBSET Jobs /\ strays \in SUBSET Jobs
    /\ faults \in 0..MaxFaults

Init ==
    /\ row = [j \in Jobs |-> NewRow("unborn", 0)]
    /\ epoch = 0 /\ settings = FALSE
    /\ enabled = TRUE /\ resetting = FALSE /\ account = FALSE
    /\ session = [j \in Jobs |-> Absent]
    /\ task = [j \in Jobs |-> "none"]
    /\ memories = {}
    /\ worker = [w \in Workers |-> Idle]
    /\ wipe = [c \in Wipes |-> [pc |-> "idle", kind |-> "clear", epoch |-> 0,
                                targets |-> {}]]
    /\ commits = [j \in Jobs |-> 0]
    /\ givenUp = {} /\ erased = {} /\ strays = {}
    /\ faults = 0

At(w, pc) == worker[w].pc = pc
JobOf(w) == worker[w].job
Goto(w, pc) == worker' = [worker EXCEPT ![w].pc = pc]
Settle(w, verdict) == worker' = [worker EXCEPT ![w].pc = "settle", ![w].verdict = verdict]
Leave(w) == worker' = [worker EXCEPT ![w] = Idle]

Fault == faults < MaxFaults /\ faults' = faults + 1
NoFault == UNCHANGED faults

\* What only the provider and the worker's copy change.
AtProvider == UNCHANGED <<row, user, config, wipe, history>>
InDatabase == UNCHANGED <<user, config, provider, wipe, erased, strays>>

-----------------------------------------------------------------------------
(* ScheduleCapture: after a run was finalized, in one transaction.           *)
ScheduleCapture(j) ==
    /\ row[j].status = "unborn"
    /\ enabled
    /\ row' = [row EXCEPT ![j] = NewRow("pending", epoch)]
    /\ settings' = TRUE
    /\ UNCHANGED <<epoch, config, provider, worker, wipe, history, faults>>

\* A lease ends, or a backoff: nobody is at the job any more, or those who are
\* cancel it (a recorded task leaves a lease shorter than the cancellation).
ExpireLease(j) ==
    /\ row[j].status \in Cancellable \cup {"cancelled"} /\ ~row[j].due
    /\ \A w \in Workers : JobOf(w) = j => worker[w].pc \in {"cancelTask", "await"}
    /\ row' = [row EXCEPT ![j].due = TRUE]
    /\ UNCHANGED <<user, config, provider, worker, wipe, history, faults>>

\* Mutant: the flag is not asked for.
ClaimableByStatus(r) ==
    /\ r.status \notin {"unborn", "deleted"} /\ r.due
    /\ (r.status \in Queued /\ r.epoch = epoch) \/ r.status = "cancel_requested"

\* Mutant: only a pending row of the epoch is claimed.
ClaimablePending(r) ==
    /\ r.status \notin {"unborn", "deleted"} /\ r.due
    /\ \/ r.status = "pending" /\ r.epoch = epoch
       \/ r.status = "cancel_requested"
       \/ r.canc

Claimable(r) ==
    /\ r.status \notin {"unborn", "deleted"} /\ r.due
    /\ \/ r.status \in Queued /\ r.epoch = epoch
       \/ r.status = "cancel_requested"
       \/ r.canc

\* claimJob.  ORDER BY cancellation_requested DESC: a row with the flag goes first,
\* a cancelled one as well.
Claim(w, j) ==
    /\ At(w, "idle") /\ Claimable(row[j])
    /\ row[j].canc \/ \A k \in Jobs : Claimable(row[k]) => ~row[k].canc
    /\ row' = [row EXCEPT ![j].due = FALSE,
                          ![j].status = IF row[j].canc THEN @ ELSE "processing"]
    /\ worker' = [worker EXCEPT ![w] =
          [pc |-> IF row[j].canc \/ row[j].status = "cancel_requested" THEN "cancel"
                  ELSE "route",
           job |-> j, status |-> row[j].status, attempts |-> row[j].attempts,
           taskId |-> row[j].taskId, verdict |-> "none"]]
    /\ UNCHANGED <<user, config, provider, wipe, history, faults>>

Current(j) == ~row[j].canc /\ row[j].status \in Queued /\ row[j].epoch = epoch

\* processOne: enabled, then captureJobCurrent for a job without a task.
Route(w) ==
    LET j == JobOf(w) IN
    /\ At(w, "route")
    /\ IF enabled /\ (worker[w].taskId \/ Current(j))
       THEN Goto(w, IF worker[w].taskId THEN "poll" ELSE "lookup")
       ELSE Leave(w)
    /\ AtProvider /\ UNCHANGED <<provider, faults>>

\* What follows from the state of the newest commit task (adoptTask, pollJob).
TaskVerdict(t) == CASE t = "succeeded" -> "complete"
                    [] t = "failed"    -> "dead"
                    [] t = "cancelled" -> "cancelled"
                    [] OTHER           -> "adopt"

\* Mutant: a retry does not look for the task of the attempt before.
LookupSkipped(w) ==
    /\ At(w, "lookup")
    /\ NoFault /\ Goto(w, "load")
    /\ AtProvider /\ UNCHANGED provider

\* latestCommitTask, by the session id that the run determines.
Lookup(w) ==
    LET t == task[JobOf(w)] IN
    /\ At(w, "lookup")
    /\ \/ /\ NoFault
          /\ IF t = "none" THEN Goto(w, "load") ELSE Settle(w, TaskVerdict(t))
       \/ Fault /\ Settle(w, "retry")
    /\ AtProvider /\ UNCHANGED provider

\* captureText: the turn of a successful run; it may be unreadable for good.
Load(w) ==
    /\ At(w, "load")
    /\ \/ NoFault /\ Goto(w, "session")
       \/ Fault /\ \E v \in {"dead", "retry"} : Settle(w, v)
    /\ AtProvider /\ UNCHANGED provider

\* ensureSession and the choice by the number of messages.
EnsureSession(w) ==
    LET j == JobOf(w)
        ensured == IF session[j] = Absent THEN 0 ELSE session[j] IN
    /\ At(w, "session")
    /\ \/ /\ NoFault
          /\ session' = [session EXCEPT ![j] = ensured]
          /\ CASE ensured = 0 -> Goto(w, "append")
               [] ensured = 2 -> Goto(w, "mark")
               [] OTHER       -> Settle(w, "dead")
       \/ /\ Fault
          /\ session' \in {session, [session EXCEPT ![j] = ensured]}
          /\ Settle(w, "retry")
    /\ AtProvider /\ UNCHANGED <<task, memories, commits>>

\* addTurn: both messages in one batch.
AddTurn(w) ==
    LET j == JobOf(w)
        added == [session EXCEPT ![j] = @ + 2] IN
    /\ At(w, "append")
    /\ \/ session[j] = Absent /\ NoFault /\ UNCHANGED session /\ Settle(w, "retry")
       \/ session[j] # Absent /\ NoFault /\ session' = added /\ Goto(w, "mark")
       \/ /\ Fault /\ Settle(w, "retry")
          /\ session' \in {session} \cup IF session[j] = Absent THEN {} ELSE {added}
    /\ AtProvider /\ UNCHANGED <<task, memories, commits>>

MarkSubmitting(w) ==
    LET j == JobOf(w) IN
    /\ At(w, "mark")
    /\ IF Current(j) /\ row[j].status # "pending"
       THEN /\ row' = [row EXCEPT ![j].status = "submitting", ![j].due = FALSE]
            /\ Goto(w, "commit")
       ELSE UNCHANGED row /\ Leave(w)
    /\ InDatabase /\ UNCHANGED <<givenUp, faults>>

Committed(j) == /\ task' = [task EXCEPT ![j] = "running"]
                /\ commits' = [commits EXCEPT ![j] = @ + 1]

\* A commit that fails is tried again, one that is answered without a task is given up
\* (COMMIT_NO_TASK); either may have had its effect.
Commit(w) ==
    LET j == JobOf(w) IN
    /\ At(w, "commit")
    /\ \/ session[j] # Absent /\ NoFault /\ Committed(j) /\ Goto(w, "record")
       \/ session[j] = Absent /\ NoFault /\ UNCHANGED <<task, commits>> /\ Settle(w, "retry")
       \/ /\ Fault
          /\ (session[j] # Absent /\ Committed(j)) \/ UNCHANGED <<task, commits>>
          /\ \E v \in {"retry", "dead"} : Settle(w, v)
    /\ AtProvider /\ UNCHANGED <<session, memories>>

\* The UPDATE after the commit; with the flag set the worker cancels at once.
Record(w) ==
    LET j == JobOf(w) IN
    /\ At(w, "record")
    /\ IF row[j].status \in {"submitting", "cancel_requested"}
       THEN /\ row' = [row EXCEPT ![j].taskId = TRUE, ![j].due = FALSE,
                                  ![j].status = IF row[j].canc THEN @ ELSE "processing"]
            /\ IF row[j].canc
               THEN worker' = [worker EXCEPT ![w].pc = "cancel", ![w].taskId = TRUE,
                                             ![w].status = "submitting"]
               ELSE Leave(w)
       ELSE UNCHANGED row /\ Leave(w)
    /\ InDatabase /\ UNCHANGED <<givenUp, faults>>

\* pollJob: past the horizon, or the provider has lost the task: dead.
Poll(w) ==
    /\ At(w, "poll")
    /\ \/ NoFault /\ Settle(w, TaskVerdict(task[JobOf(w)]))
       \/ Fault /\ (Settle(w, "dead") \/ Leave(w))
    /\ AtProvider /\ UNCHANGED provider

-----------------------------------------------------------------------------
\* cancelCaptureJob up to the call of cancelAndWait.
CancelCapture(w) ==
    LET t == task[JobOf(w)] IN
    /\ At(w, "cancel")
    /\ IF worker[w].taskId THEN NoFault /\ Goto(w, "cancelTask")
       ELSE \/ /\ NoFault
               /\ CASE t \in Active -> Goto(w, "cancelTask")
                    [] t \in Ended  -> Settle(w, "cancelled")
                    [] OTHER -> Settle(w, IF worker[w].status = "submitting"
                                          THEN "retryCancel" ELSE "cancelled")
            \/ Fault /\ Settle(w, "retryCancel")
    /\ AtProvider /\ UNCHANGED provider

\* cancelAndWait: the request, answered or not, then the wait for the task's end.
CancelTask(w) ==
    LET j == JobOf(w)
        stopping == [task EXCEPT ![j] = IF @ = "running" THEN "stopping" ELSE @] IN
    /\ At(w, "cancelTask")
    /\ \/ NoFault /\ task' = stopping /\ Goto(w, "await")
       \/ /\ Fault /\ task' \in {task, stopping}
          /\ Goto(w, "await") \/ Settle(w, "retryCancel")
    /\ AtProvider /\ UNCHANGED <<session, memories, commits>>

AwaitTask(w) ==
    /\ At(w, "await")
    /\ \/ task[JobOf(w)] \notin Active /\ NoFault /\ Settle(w, "cancelled")
       \/ Fault /\ Settle(w, "retryCancel")
    /\ AtProvider /\ UNCHANGED provider

-----------------------------------------------------------------------------
Update(j, r) == row' = [row EXCEPT ![j] = r]

\* Mutant: the flag is not part of the guard.
GuardedByStatus(j) == row[j].status \notin {"cancelled", "cancel_requested"}

\* The guard of completeJob, deadJob, retryJob and adoptTask.
Guarded(j) == ~row[j].canc /\ row[j].status \notin {"cancelled", "cancel_requested"}
Exists(j) == row[j].status # "deleted"

CompleteJob(j) ==
    /\ Update(j, IF Exists(j) /\ Guarded(j)
                 THEN [row[j] EXCEPT !.status = "completed", !.due = TRUE] ELSE row[j])
    /\ UNCHANGED givenUp

DeadJob(j) ==
    IF Exists(j) /\ Guarded(j)
    THEN Update(j, [row[j] EXCEPT !.status = "dead"]) /\ givenUp' = givenUp \cup {j}
    ELSE UNCHANGED <<row, givenUp>>

CancelJob(j) ==
    /\ Update(j, IF Exists(j)
                 THEN [row[j] EXCEPT !.status = "cancelled", !.canc = TRUE, !.due = TRUE]
                 ELSE row[j])
    /\ UNCHANGED givenUp

\* The running task of adoptTask and of pollJob.
AdoptTask(j) ==
    /\ Update(j, IF Exists(j) /\ Guarded(j)
                 THEN [row[j] EXCEPT !.status = "processing", !.taskId = TRUE,
                                     !.due = FALSE]
                 ELSE row[j])
    /\ UNCHANGED givenUp

RetryJob(j, attempts) ==
    IF attempts >= AttemptLimit THEN DeadJob(j)
    ELSE /\ Update(j, IF Exists(j) /\ Guarded(j)
                      THEN [row[j] EXCEPT !.status = "pending", !.due = FALSE,
                                          !.attempts = attempts]
                      ELSE row[j])
         /\ UNCHANGED givenUp

\* The count of attempts, which nothing reads any more, is left out.
RetryCancellation(j) ==
    /\ Update(j, IF row[j].status \in Cancellable
                 THEN [row[j] EXCEPT !.canc = TRUE, !.due = FALSE,
                                     !.status = IF @ = "submitting" THEN @
                                                ELSE "cancel_requested"]
                 ELSE row[j])
    /\ UNCHANGED givenUp

\* The UPDATE that ends the processing of a job; the retry horizon may have passed.
SettleJob(w) ==
    LET j == JobOf(w)
        v == worker[w].verdict IN
    /\ At(w, "settle") /\ Leave(w)
    /\ \/ v = "complete" /\ CompleteJob(j) /\ NoFault
       \/ v = "dead" /\ DeadJob(j) /\ NoFault
       \/ v = "cancelled" /\ CancelJob(j) /\ NoFault
       \/ v = "adopt" /\ AdoptTask(j) /\ NoFault
       \/ v = "retry" /\ RetryJob(j, worker[w].attempts + 1) /\ NoFault
       \/ v = "retry" /\ DeadJob(j) /\ Fault
       \/ v = "retryCancel" /\ RetryCancellation(j) /\ NoFault
    /\ InDatabase

\* The replica stops, the 45 seconds are over, or the next statement fails.
Abandon(w) ==
    /\ ~At(w, "idle") /\ Fault /\ Leave(w)
    /\ AtProvider /\ UNCHANGED provider

\* cleanupCaptureJobs.  A cancelled row is claimed and cancelled again, which renews
\* its updated_at: the seven days never pass.
CleanupCaptureJob(j) ==
    /\ row[j].status \in {"completed", "dead"}
    /\ row' = [row EXCEPT ![j].status = "deleted"]
    /\ UNCHANGED <<user, config, provider, worker, wipe, history, faults>>

\* The provider: a task ends; one that is asked to stop may still succeed.
EndTask(j) ==
    /\ task[j] \in Active
    /\ \E t \in {"succeeded", "failed"} \cup IF task[j] = "stopping" THEN {"cancelled"}
                                             ELSE {} :
          /\ task' = [task EXCEPT ![j] = t]
          /\ memories' = memories \cup IF t = "succeeded" THEN {j} ELSE {}
    /\ UNCHANGED <<row, user, config, session, commits, worker, wipe, history, faults>>
-----------------------------------------------------------------------------
(* UpdateMemoryConfig: the admin; never while a Reset is under way.          *)
SetEnabled(e) ==
    /\ ~resetting /\ enabled # e
    /\ enabled' = e
    /\ IF e THEN NoFault ELSE Fault
    /\ UNCHANGED <<row, user, resetting, account, provider, worker, wipe, history>>

\* UpdateSettings of the user, who found Memory enabled some time ago.  The switches
\* are left out.
UpdateSettings ==
    /\ ~settings /\ settings' = TRUE
    /\ UNCHANGED <<row, epoch, config, provider, worker, wipe, history, faults>>

\* The cancellation request of Clear and Reset; a submitting row keeps its lease.
Requested(r) ==
    IF r.status \notin Queued THEN r
    ELSE [r EXCEPT !.canc = TRUE,
                   !.status = IF @ = "submitting" THEN @ ELSE "cancel_requested",
                   !.due = IF r.status = "submitting" THEN @ ELSE TRUE]

Scheduled == {j \in Jobs : row[j].status # "unborn"}
WipeAt(c, pc) == wipe[c].pc = pc
WipeGoto(c, pc) == wipe' = [wipe EXCEPT ![c].pc = pc]
IsReset(c) == wipe[c].kind = "reset"
BeginWipe(c, kind, e) == wipe' = [wipe EXCEPT ![c] = [pc |-> "wait", kind |-> kind,
                                                     epoch |-> e, targets |-> Scheduled]]
EndWipe(c) == WipeGoto(c, "done") /\ erased' = erased \cup wipe[c].targets

BeginClear(c) ==
    /\ wipe[c].pc \in {"idle", "failed"}
    /\ epoch' = epoch + 1 /\ settings' = TRUE
    /\ row' = [j \in Jobs |-> IF row[j].epoch < epoch + 1 THEN Requested(row[j])
                              ELSE row[j]]
    /\ BeginWipe(c, "clear", epoch + 1)
    /\ UNCHANGED <<config, provider, worker, history, faults>>

\* BeginMemoryReset: the second of two Resets joins the first.
BeginReset(c) ==
    /\ wipe[c].pc \in {"idle", "failed"}
    /\ IF resetting THEN UNCHANGED <<row, config>>
       ELSE /\ enabled' = FALSE /\ resetting' = TRUE /\ account' = (account \/ settings)
            /\ row' = [j \in Jobs |-> Requested(row[j])]
    /\ BeginWipe(c, "reset", epoch)
    /\ UNCHANGED <<user, provider, worker, history, faults>>

\* Mutant: a submitting row is not waited for.
WaitedNotSubmitting(c, r) ==
    /\ r.canc /\ r.status \in Cancellable \ {"submitting"}
    /\ IsReset(c) \/ r.epoch < wipe[c].epoch

\* waitForCaptureCancellation counts the older epochs, MemoryResetCapturesPending all.
Waited(c, r) == /\ r.canc /\ r.status \in Cancellable
                /\ IsReset(c) \/ r.epoch < wipe[c].epoch

AwaitCancellation(c) ==
    /\ WipeAt(c, "wait")
    /\ \A j \in Jobs : ~Waited(c, row[j])
    /\ WipeGoto(c, IF IsReset(c) THEN "accounts" ELSE "remove")
    /\ UNCHANGED <<row, user, config, provider, worker, history, faults>>

DeleteRows(js) == row' = [j \in Jobs |-> IF j \in js /\ row[j].status # "unborn"
                                        THEN [row[j] EXCEPT !.status = "deleted"]
                                        ELSE row[j]]
\* What c has not waited for: the jobs of a newer Memory.
Overrun(c, js) == strays' = strays \cup ((js \cap Scheduled) \ wipe[c].targets)

\* ListMemoryResetAccounts: what another Reset has deleted is not deleted again.
ListAccounts(c) ==
    /\ WipeAt(c, "accounts")
    /\ WipeGoto(c, IF account THEN "remove" ELSE "rows")
    /\ UNCHANGED <<row, user, config, provider, worker, history, faults>>

\* remove of the whole memory root, deleteOpenVikingAccount for a Reset, which takes
\* the sessions along.
RemoveMemories(c) ==
    /\ WipeAt(c, "remove")
    /\ memories' = {}
    /\ session' = IF IsReset(c) THEN [j \in Jobs |-> Absent] ELSE session
    /\ \/ NoFault /\ WipeGoto(c, IF IsReset(c) THEN "checkpoint" ELSE "sessions")
       \/ Fault /\ WipeGoto(c, "failed")
    /\ UNCHANGED <<row, user, config, task, commits, worker, history>>

\* CompleteMemoryResetAccount, then the list again.
CompleteResetAccount(c) ==
    /\ WipeAt(c, "checkpoint")
    /\ account' = FALSE /\ WipeGoto(c, "accounts")
    /\ IF account THEN Overrun(c, Jobs) ELSE UNCHANGED strays
    /\ UNCHANGED <<row, user, enabled, resetting, provider, worker, givenUp, erased, faults>>

\* deleteSession for every session of the older epochs, one after the other.
DeleteSessions(c) ==
    LET old == {j \in Jobs : Exists(j) /\ j \in Scheduled /\ row[j].epoch < wipe[c].epoch}
        Without(js) == [j \in Jobs |-> IF j \in js THEN Absent ELSE session[j]] IN
    /\ WipeAt(c, "sessions")
    /\ \/ NoFault /\ session' = Without(old) /\ WipeGoto(c, "rows")
       \/ /\ Fault /\ WipeGoto(c, "failed")
          /\ \E js \in SUBSET old : session' = Without(js)
    /\ UNCHANGED <<row, user, config, task, memories, commits, worker, history>>

DeleteOldJobs(c) ==
    /\ ~IsReset(c) /\ WipeAt(c, "rows")
    /\ LET old == {j \in Jobs : row[j].epoch < wipe[c].epoch}
       IN  DeleteRows(old) /\ Overrun(c, old)
    /\ EndWipe(c)
    /\ UNCHANGED <<user, config, provider, worker, givenUp, faults>>

\* CompleteMemoryReset: asks for accounts that are left, not for the flag.
CompleteReset(c) ==
    /\ IsReset(c) /\ WipeAt(c, "rows")
    /\ IF account THEN WipeGoto(c, "failed") /\ UNCHANGED <<row, user, config, erased, strays>>
       ELSE /\ DeleteRows(Jobs) /\ Overrun(c, Jobs)
            /\ epoch' = 0 /\ settings' = FALSE /\ resetting' = FALSE
            /\ UNCHANGED <<enabled, account>>
            /\ EndWipe(c)
    /\ UNCHANGED <<provider, worker, givenUp, faults>>

\* A statement or call fails without effect, the caller leaves or time is up.
FailWipe(c) ==
    /\ wipe[c].pc \in {"wait", "accounts", "remove", "checkpoint", "sessions", "rows"}
    /\ Fault /\ WipeGoto(c, "failed")
    /\ UNCHANGED <<row, user, config, provider, worker, history>>

-----------------------------------------------------------------------------
SubmitStep(w) ==
    \/ Route(w) \/ Lookup(w) \/ Load(w) \/ EnsureSession(w) \/ AddTurn(w)
    \/ MarkSubmitting(w) \/ Commit(w) \/ Record(w) \/ Poll(w)
CancelStep(w) == CancelCapture(w) \/ CancelTask(w) \/ AwaitTask(w)
WorkerStep(w) == SubmitStep(w) \/ CancelStep(w) \/ SettleJob(w)

ClearStep(c) == DeleteSessions(c) \/ DeleteOldJobs(c)
ResetStep(c) == ListAccounts(c) \/ CompleteResetAccount(c) \/ CompleteReset(c)
WipeStep(c) == AwaitCancellation(c) \/ RemoveMemories(c) \/ ClearStep(c) \/ ResetStep(c)

Next ==
    \/ \E j \in Jobs : \/ ScheduleCapture(j) \/ ExpireLease(j) \/ EndTask(j)
                        \/ CleanupCaptureJob(j)
                        \/ \E w \in Workers : Claim(w, j)
    \/ \E w \in Workers : WorkerStep(w) \/ Abandon(w)
    \/ \E c \in Wipes : BeginClear(c) \/ BeginReset(c) \/ WipeStep(c) \/ FailWipe(c)
    \/ \E e \in BOOLEAN : SetEnabled(e)
    \/ UpdateSettings

Spec == Init /\ [][Next]_vars

\* Leases end, tasks end, a worker goes on until it gives up, and the order by
\* next_attempt_at lets no row with the flag pass another for ever.
FairSpec ==
    /\ Spec
    /\ \A w \in Workers : WF_vars(WorkerStep(w))
    /\ \A c \in Wipes : WF_vars(WipeStep(c))
    /\ \A j \in Jobs : /\ WF_vars(ExpireLease(j)) /\ WF_vars(EndTask(j))
                       /\ SF_vars(\E w \in Workers : Claim(w, j))
-----------------------------------------------------------------------------
\* What was captured before a Clear or Reset that reported success never comes back:
\* no memory of it is held and no task of the provider can still write one.  Two
\* exceptions: a job given up as dead, whose task nobody waits for or cancels, and a
\* job that a Clear or Reset overtaken by a Reset sweeps although it came after.
ErasedStaysErased ==
    \A j \in erased \ (givenUp \cup strays) : j \notin memories /\ task[j] \notin Active

\* Without the second exception: "a persistent Reset barrier" (docs/archive/
\* fix-memory-v2-consistency.md).
ResetIsABarrier == \A j \in erased \ givenUp : j \notin memories /\ task[j] \notin Active

\* However often a turn is retried, after lost answers and by different replicas, the
\* provider gets its two messages once and one commit of them.
TurnSubmittedOnce == \A j \in Jobs : session[j] <= 2 /\ commits[j] <= 1

\* A cancellation request stands until the row goes, and a settled job is not taken
\* up again, whatever a worker that read the row earlier writes.
CancellationStands ==
    [][\A j \in Jobs :
        /\ row[j].canc => row'[j].canc
        /\ row[j].canc /\ row'[j].status \in Queued =>
              row[j].status = row'[j].status /\ row[j].status = "submitting"
        /\ row[j].status \in Settled => row'[j].status \in {row[j].status, "deleted"}]_vars

\* A commit that failed, or never happened, while the request came in: the row stays
\* "submitting" without a task.
Orphaned(j) == row[j].canc /\ row[j].status = "submitting" /\ task[j] = "none"

\* A requested cancellation ends, unless the commit it overtook never happened.
CancellationsEnd ==
    \A j \in Jobs : (row[j].canc /\ row[j].status \in Cancellable)
                       ~> (row[j].status \notin Cancellable \/ Orphaned(j))

\* Every capture of the current epoch settles while Memory is enabled.
CapturesSettle ==
    \A j \in Jobs : (row[j].status \in Queued)
                       ~> (row[j].status \notin Queued \/ row[j].canc \/ ~enabled)

\* It does as long as no cancelled row is left in the table.
CapturesSettleUnlessStarved ==
    \A j \in Jobs : (row[j].status \in Queued)
                       ~> (\/ row[j].status \notin Queued \/ row[j].canc \/ ~enabled
                           \/ \E k \in Jobs : row[k].canc /\ row[k].status # "deleted")
=============================================================================
