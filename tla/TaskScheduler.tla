---------------------------- MODULE TaskScheduler ----------------------------
(***************************************************************************)
(* One scheduled task (apps/admin-api: service/scheduler.go,               *)
(* service/scheduled_tasks.go and their tables).  Every replica of the     *)
(* admin API sweeps, lists the due tasks, claims one by inserting a run,   *)
(* lets the gateway execute it and writes the outcome.  Users change the   *)
(* task by reading the row, changing their copy and writing it back.       *)
(*                                                                         *)
(* A step is one transaction, or the end of the gateway's turn.  The claim  *)
(* has two: its SELECT takes a snapshot, then waits for the row of the     *)
(* task.  Time is a small number: an interval task is due one unit after   *)
(* now.                                                                    *)
(***************************************************************************)
EXTENDS Integers, FiniteSets

CONSTANTS
    Schedulers,     \* replicas of the admin API
    Runs,           \* run ids
    Requests,       \* requests of users and admins
    Nil,            \* a NULL time, no run
    MaxTime,        \* bound: the last moment
    MaxFaults       \* bound: crashes, failed statements, lost heartbeats

Time == 0..MaxTime
ASSUME BoundsAssumption == MaxTime \in Nat /\ MaxFaults \in Nat
ASSUME NilAssumption == Nil \notin Int \cup Runs

VARIABLES
    task,       \* the row of scheduled_tasks
    run,        \* the rows of scheduled_task_runs
    sched,      \* the scheduler loops
    request,    \* requests between their read and their write
    now, faults,
    rearmed     \* history: a write left the task due for a claim that had seen no run

vars == <<task, run, sched, request, now, faults, rearmed>>

-----------------------------------------------------------------------------
Moment == Nat \cup {Nil}
Status == {"active", "paused", "completed", "expired", "deleted"}

\* runAt: the schedule_spec of a once task.  next: next_run_at.
Task == [status : Status, kind : {"once", "interval"}, runAt : Nat,
         expires : Moment, next : Moment]

\* stale: updated_at is older than the lease.
Run == [status : {"none", "running", "success", "error", "deleted"}, stale : BOOLEAN]

\* copy: the task as listed.  at: the time of the claim.  next: the run after this one.
Sched == [pc : {"idle", "expire", "list", "due", "claim", "run", "finish"}, copy : Task,
          at : Nat, run : Runs \cup {Nil}, next : Moment, outcome : {"success", "error"}]
Op == {"edit", "pause", "resume", "enqueue"}
Request == [pc : {"idle", "read", "done"}, op : Op, copy : Task]

Some == [status |-> "active", kind |-> "interval", runAt |-> 0, expires |-> Nil,
         next |-> 1]
Idle == [pc |-> "idle", copy |-> Some, at |-> 0, run |-> Nil, next |-> Nil,
         outcome |-> "error"]

TypeOK ==
    /\ task \in Task
    /\ run \in [Runs -> Run]
    /\ sched \in [Schedulers -> Sched]
    /\ request \in [Requests -> Request]
    /\ now \in Time
    /\ faults \in 0..MaxFaults
    /\ rearmed \in BOOLEAN

Before(a, b) == a # Nil /\ b # Nil /\ a < b
Expired(t) == Before(t.expires, now)
Running(r) == run[r].status = "running"

\* computeNextScheduledRun; Nil stands for ErrScheduleInPast.
NextScheduledRun(kind, runAt) ==
    IF kind = "interval" THEN now + 1 ELSE IF runAt > now THEN runAt ELSE Nil

\* nextRunAfterTask: none after a once task or past the expiration.
NextRunAfter(t, at) ==
    IF t.kind = "once" \/ Before(t.expires, at + 1) THEN Nil ELSE at + 1

\* CreateUserScheduledTask.
Init ==
    /\ \E kind \in {"once", "interval"}, expires \in {Nil, 2} :
          /\ kind = "once" => expires = Nil
          /\ task = [status |-> "active", kind |-> kind, runAt |-> 1,
                     expires |-> expires, next |-> 1]
    /\ run = [r \in Runs |-> [status |-> "none", stale |-> FALSE]]
    /\ sched = [s \in Schedulers |-> Idle]
    /\ request = [q \in Requests |-> [pc |-> "idle", op |-> "edit", copy |-> Some]]
    /\ now = 0 /\ faults = 0 /\ rearmed = FALSE

At(s, pc) == sched[s].pc = pc
Goto(s, pc) == sched' = [sched EXCEPT ![s].pc = pc]
Leave(s) == sched' = [sched EXCEPT ![s] = Idle]
Fault == faults < MaxFaults /\ faults' = faults + 1

Tick == now < MaxTime /\ now' = now + 1 /\ UNCHANGED <<task, run, sched, request, faults, rearmed>>

-----------------------------------------------------------------------------
(* runSchedulerOnce: stale runs, expired tasks, the list of due tasks.       *)

\* The status of the task after a run for which next is the time of the next one.
StatusAfterRun(next) ==
    IF task.kind = "once" /\ next = Nil THEN "completed"
    ELSE IF task.expires # Nil /\ next = Nil THEN "expired"
    ELSE task.status

\* Mutant: the sweep leaves the stale runs.
ExpireStaleRunsNever(s) ==
    /\ At(s, "idle") /\ Goto(s, "expire")
    /\ UNCHANGED <<task, run, request, now, faults, rearmed>>

\* ExpireStaleScheduledTaskRuns: the next run is left as it is.
ExpireStaleRuns(s) ==
    LET stale == {r \in Runs : Running(r) /\ run[r].stale} IN
    /\ At(s, "idle") /\ Goto(s, "expire")
    /\ run' = [r \in Runs |-> IF r \in stale THEN [run[r] EXCEPT !.status = "error"]
                              ELSE run[r]]
    /\ task' = IF stale = {} THEN task
               ELSE [task EXCEPT !.status = StatusAfterRun(task.next)]
    /\ UNCHANGED <<request, now, faults, rearmed>>

ExpireScheduledTasks(s) ==
    /\ At(s, "expire") /\ Goto(s, "list")
    /\ task' = IF task.status \in {"active", "paused"} /\ Expired(task)
               THEN [task EXCEPT !.status = "expired", !.next = Nil] ELSE task
    /\ UNCHANGED <<run, request, now, faults, rearmed>>

StartableAt(t, at) ==
    t.status = "active" /\ t.next # Nil /\ t.next <= at /\ ~Before(t.expires, at)
Startable(t) == StartableAt(t, now)

\* ListDueScheduledTasks; other due tasks may be executed before this one.
ListDueTasks(s) ==
    /\ At(s, "list")
    /\ IF Startable(task) THEN sched' = [sched EXCEPT ![s].pc = "due", ![s].copy = task]
                          ELSE Leave(s)
    /\ UNCHANGED <<task, run, request, now, faults, rearmed>>

\* UpdateScheduledTask: the whole row is written.
WriteTask(t) == task' = IF task.status = "deleted" THEN task ELSE t

\* executeDueTask, on a task that has expired since it was listed.
ExpireDueTask(s) ==
    /\ At(s, "due") /\ Expired(sched[s].copy)
    /\ WriteTask([sched[s].copy EXCEPT !.status = "expired", !.next = Nil])
    /\ Leave(s)
    /\ UNCHANGED <<run, request, now, faults, rearmed>>

\* The owner is disabled, deleted, or could not be read.
PauseDueTask(s) ==
    /\ At(s, "due") /\ ~Expired(sched[s].copy)
    /\ Fault
    /\ WriteTask([sched[s].copy EXCEPT !.status = "paused", !.next = Nil])
    /\ Leave(s)
    /\ UNCHANGED <<run, request, now, rearmed>>

\* Mutant: a run of the task under way is not asked for.
ClaimableAnyway == Startable(task)

Claimable == Startable(task) /\ \A r \in Runs : ~Running(r)

\* executeDueTask takes the time, and the SELECT of TryStartScheduledTaskRun its snapshot:
\* of the task and, for NOT EXISTS, of its runs.
LookForTask(s) ==
    /\ At(s, "due") /\ ~Expired(sched[s].copy)
    /\ IF Claimable THEN sched' = [sched EXCEPT ![s].pc = "claim", ![s].at = now]
                    ELSE Leave(s)
    /\ UNCHANGED <<task, run, request, now, faults, rearmed>>

\* A claim that saw no run will start one beside the run that is under way now.
WouldStartAnother ==
    \E s \in Schedulers :
        /\ At(s, "claim") /\ StartableAt(task, sched[s].at)
        /\ \E r \in Runs : Running(r)
RecordRearming == rearmed' = (rearmed \/ WouldStartAnother')

\* FOR UPDATE: READ COMMITTED asks the locked row of the task again, and not the runs.
\* The next run is computed from the listed copy.
StartRun(s) ==
    LET next == NextRunAfter(sched[s].copy, sched[s].at) IN
    /\ At(s, "claim")
    /\ IF StartableAt(task, sched[s].at)
       THEN \E r \in Runs :
               /\ run[r].status = "none"
               /\ run' = [run EXCEPT ![r].status = "running"]
               /\ task' = [task EXCEPT !.next = next]
               /\ sched' = [sched EXCEPT ![s].pc = "run", ![s].at = 0, ![s].run = r,
                                         ![s].next = next]
       ELSE UNCHANGED <<task, run>> /\ Leave(s)
    /\ UNCHANGED <<request, now, faults>>
    /\ RecordRearming

-----------------------------------------------------------------------------
(* The run: the turn of the gateway, heartbeats, the outcome.                *)

Beats(s, r) == sched[s].run = r /\ sched[s].pc \in {"run", "finish"}

\* The lease passes without a heartbeat: nobody runs it, or the heartbeats fail.
LoseHeartbeats(r) ==
    /\ Running(r) /\ ~run[r].stale
    /\ IF \E s \in Schedulers : Beats(s, r) THEN Fault ELSE UNCHANGED faults
    /\ run' = [run EXCEPT ![r].stale = TRUE]
    /\ UNCHANGED <<task, sched, request, now, rearmed>>

\* HeartbeatScheduledTaskRun.
Heartbeat(s) ==
    /\ At(s, "run")
    /\ LET r == sched[s].run IN
          /\ Running(r) /\ run[r].stale
          /\ run' = [run EXCEPT ![r].stale = FALSE]
    /\ UNCHANGED <<task, sched, request, now, faults, rearmed>>

\* gatewayTaskRunner.Run returns: success, another end of the turn, or RunTimeout.
EndTurn(s) ==
    /\ At(s, "run")
    /\ \E outcome \in {"success", "error"} :
          sched' = [sched EXCEPT ![s].pc = "finish", ![s].outcome = outcome]
    /\ UNCHANGED <<task, run, request, now, faults, rearmed>>

\* finishRun: UpdateScheduledTaskRun writes the outcome whatever the run's status, and
\* the next run that was computed at the start.
FinishRun(s) ==
    LET r == sched[s].run
        next == sched[s].next IN
    /\ At(s, "finish") /\ Leave(s)
    /\ \/ /\ IF run[r].status = "deleted" THEN UNCHANGED <<run, task>>
             ELSE /\ run' = [run EXCEPT ![r].status = sched[s].outcome]
                  /\ task' = [task EXCEPT !.status = StatusAfterRun(next), !.next = next]
          /\ UNCHANGED faults
       \/ Fault /\ UNCHANGED <<run, task>>
    /\ UNCHANGED <<request, now>>
    /\ RecordRearming

\* The replica stops, or a statement of the sweep fails.
Abandon(s) ==
    /\ ~At(s, "idle") /\ Fault /\ Leave(s)
    /\ UNCHANGED <<task, run, request, now, rearmed>>

-----------------------------------------------------------------------------
(* Requests: UpdateUserScheduledTask, SetUserScheduledTaskStatus,            *)
(* EnqueueScheduledTaskNow and their twins of the admin.                     *)
ReadTask(q) ==
    /\ request[q].pc = "idle" /\ task.status # "deleted"
    /\ \E op \in Op : request' = [request EXCEPT ![q] = [pc |-> "read", op |-> op,
                                                        copy |-> task]]
    /\ UNCHANGED <<task, run, sched, now, faults, rearmed>>

\* scheduledTaskFromInput: kind, run_at, expiration and status are given or kept; a
\* schedule without a time ahead is refused.
Edited(t) ==
    {[status |-> status, kind |-> kind, runAt |-> runAt, expires |-> expires,
      next |-> IF status = "active" THEN NextScheduledRun(kind, runAt) ELSE Nil] :
        status \in {t.status, "active", "paused"}, kind \in {"once", "interval"},
        runAt \in {t.runAt, now + 1}, expires \in {t.expires, Nil, now + 1}}

Valid(t) ==
    /\ t.kind = "once" => t.expires = Nil
    /\ t.expires # Nil => t.expires > now
    /\ NextScheduledRun(t.kind, t.runAt) # Nil
    /\ ~Before(t.expires, NextScheduledRun(t.kind, t.runAt))

\* nextRunForActivation.
Activated(t) ==
    LET next == NextScheduledRun(t.kind, t.runAt) IN
    IF next = Nil \/ Before(t.expires, next) THEN {}
    ELSE {[t EXCEPT !.status = "active", !.next = next]}

\* What a request makes of the row it read; nothing when it is refused.
Changed(op, t) ==
    CASE op = "edit"    -> {u \in Edited(t) : Valid(u)}
      [] op = "pause"   -> {[t EXCEPT !.status = "paused", !.next = Nil]}
      [] op = "resume"  -> Activated(t)
      [] op = "enqueue" -> IF t.status = "active" /\ ~Expired(t)
                           THEN {[t EXCEPT !.next = now]} ELSE {}

AnswerRequest(q) ==
    /\ request[q].pc = "read"
    /\ request' = [request EXCEPT ![q].pc = "done"]
    /\ LET changed == Changed(request[q].op, request[q].copy) IN
          IF changed = {} THEN UNCHANGED task ELSE \E t \in changed : WriteTask(t)
    /\ UNCHANGED <<run, sched, now, faults>>
    /\ RecordRearming

\* DeleteScheduledTask; the runs go with the task.
DeleteTask ==
    /\ task.status # "deleted" /\ \E q \in Requests : request[q].pc = "idle"
    /\ task' = [task EXCEPT !.status = "deleted", !.next = Nil]
    /\ run' = [r \in Runs |-> IF run[r].status = "none" THEN run[r]
                              ELSE [run[r] EXCEPT !.status = "deleted"]]
    /\ UNCHANGED <<sched, request, now, faults, rearmed>>

-----------------------------------------------------------------------------
SchedulerStep(s) ==
    \/ ExpireStaleRuns(s) \/ ExpireScheduledTasks(s) \/ ListDueTasks(s)
    \/ ExpireDueTask(s) \/ LookForTask(s) \/ StartRun(s) \/ EndTurn(s) \/ FinishRun(s)

Next ==
    \/ Tick \/ DeleteTask
    \/ \E s \in Schedulers : SchedulerStep(s) \/ PauseDueTask(s) \/ Heartbeat(s) \/ Abandon(s)
    \/ \E r \in Runs : LoseHeartbeats(r)
    \/ \E q \in Requests : ReadTask(q) \/ AnswerRequest(q)

Spec == Init /\ [][Next]_vars

\* The loops go on, a turn ends within RunTimeout, and a lease that nobody renews passes.
FairSpec ==
    /\ Spec
    /\ \A s \in Schedulers : WF_vars(SchedulerStep(s))
    /\ \A r \in Runs :
          WF_vars(LoseHeartbeats(r) /\ \A s \in Schedulers : ~Beats(s, r))

-----------------------------------------------------------------------------
\* fix-scheduled-task-run-lease.md, line 7: a later claim is refused while a run of the
\* task is running.
ClaimsRespectRuns == Cardinality({r \in Runs : Running(r)}) <= 1

\* A task has one run at a time, however many replicas list it and claim it late or twice,
\* unless a request, the late outcome of an earlier run or an older claim makes it due
\* again between the snapshot and the lock of a claim, beside a run.
OneRunAtATime == rearmed \/ ClaimsRespectRuns

\* A task that may start starts, or is taken out of the schedule: no run that was
\* left behind blocks it.
DueTasksStart ==
    (Startable(task) /\ \E r \in Runs : run[r].status = "none")
        ~> (~Startable(task) \/ \A r \in Runs : run[r].status # "none")

\* An active task without a run under way has a next run.
ActiveTasksAreScheduled ==
    task.status = "active" /\ (\A r \in Runs : ~Running(r)) => task.next # Nil
=============================================================================
