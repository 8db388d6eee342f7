------------------------- MODULE TaskSchedulerProofs -------------------------
(***************************************************************************)
(* Proofs about TaskScheduler, for any numbers of schedulers, runs and     *)
(* requests and any length of time.                                        *)
(***************************************************************************)
EXTENDS TaskScheduler, FiniteSetTheorems, TLAPS

-----------------------------------------------------------------------------
(* Types.                                                                    *)

LEMMA TypeInit == Init => TypeOK
  <1> SUFFICES ASSUME Init PROVE TypeOK
    OBVIOUS
  <1>1. task \in Task
    BY DEF Init, Task, Status, Moment
  <1>2. Some \in Task
    BY DEF Some, Task, Status, Moment
  <1>3. Idle \in Sched
    BY <1>2 DEF Idle, Sched, Moment
  <1>4. run \in [Runs -> Run] /\ request \in [Requests -> Request]
    BY <1>2 DEF Init, Run, Request, Op
  <1>5. rearmed \in BOOLEAN
    BY DEF Init
  <1>6. sched \in [Schedulers -> Sched] /\ now \in Time /\ faults \in 0..MaxFaults
    BY <1>3, BoundsAssumption DEF Init, Time
  <1> QED BY <1>1, <1>4, <1>5, <1>6 DEF TypeOK

\* Every edit, activation and change of status makes a row.
LEMMA ChangedType ==
    ASSUME now \in Nat, NEW t \in Task, NEW op \in Op, NEW u \in Changed(op, t)
    PROVE  u \in Task
  <1>1. \A kind \in {"once", "interval"}, runAt \in Nat : NextScheduledRun(kind, runAt) \in Moment
    BY DEF NextScheduledRun, Moment
  <1>2. CASE op = "edit"
    <2>1. u \in Edited(t)
      BY <1>2 DEF Changed
    <2>2. PICK status \in {t.status, "active", "paused"}, kind \in {"once", "interval"},
               runAt \in {t.runAt, now + 1}, expires \in {t.expires, Nil, now + 1} :
             u = [status |-> status, kind |-> kind, runAt |-> runAt, expires |-> expires,
                  next |-> IF status = "active" THEN NextScheduledRun(kind, runAt) ELSE Nil]
      BY <2>1 DEF Edited
    <2>3. status \in Status /\ runAt \in Nat /\ expires \in Moment
      BY DEF Task, Status, Moment
    <2>4. (IF status = "active" THEN NextScheduledRun(kind, runAt) ELSE Nil) \in Moment
      BY <1>1, <2>3 DEF Moment
    <2>5. PICK next \in Moment :
             u = [status |-> status, kind |-> kind, runAt |-> runAt, expires |-> expires,
                  next |-> next]
      BY <2>2, <2>4
    <2> QED BY <2>3, <2>5 DEF Task
  <1>3. CASE op = "pause" \/ op = "enqueue"
    BY <1>3 DEF Changed, Task, Status, Moment
  <1>4. CASE op = "resume"
    <2>1. NextScheduledRun(t.kind, t.runAt) \in Moment
      BY <1>1 DEF Task
    <2>2. u \in Activated(t)
      BY <1>4 DEF Changed
    <2>3. u = [t EXCEPT !.status = "active", !.next = NextScheduledRun(t.kind, t.runAt)]
      BY <2>2 DEF Activated
    <2> QED BY <2>1, <2>3 DEF Task, Status
  <1> QED BY <1>2, <1>3, <1>4 DEF Op

LEMMA NextRunType ==
    ASSUME NEW t, NEW at \in Nat PROVE NextRunAfter(t, at) \in Moment
  BY DEF NextRunAfter, Moment

LEMMA StatusType ==
    ASSUME task \in Task, NEW next \in Moment
    PROVE  [task EXCEPT !.status = StatusAfterRun(next)] \in Task
           /\ [task EXCEPT !.status = StatusAfterRun(next), !.next = next] \in Task
  BY DEF StatusAfterRun, Task, Status

LEMMA TypeStep == TypeOK /\ [Next]_vars => TypeOK'
  <1> SUFFICES ASSUME TypeOK, [Next]_vars PROVE TypeOK'
    OBVIOUS
  <1> USE BoundsAssumption DEF TypeOK, Fault
  <1>0. now \in Nat /\ Idle \in Sched /\ task.next \in Moment
    BY DEF Time, Idle, Some, Sched, Task, Status, Moment
  <1>a. RecordRearming => rearmed' \in BOOLEAN
    BY DEF RecordRearming
  <1>1. CASE Tick
    BY <1>1 DEF Tick, Time
  <1>2. CASE DeleteTask
    BY <1>2 DEF DeleteTask, Task, Run, Status, Moment
  <1>3. ASSUME NEW s \in Schedulers, ExpireStaleRuns(s) PROVE TypeOK'
    <2>1. run' \in [Runs -> Run] /\ sched' \in [Schedulers -> Sched]
      <3>1. \A r \in Runs : [run[r] EXCEPT !.status = "error"] \in Run
        BY DEF Run
      <3>2. \A r \in Runs : run'[r] = run[r] \/ run'[r] = [run[r] EXCEPT !.status = "error"]
        BY <1>3 DEF ExpireStaleRuns
      <3>3. run' \in [Runs -> Run]
        BY <1>3, <3>1, <3>2 DEF ExpireStaleRuns
      <3>4. [sched[s] EXCEPT !.pc = "expire"] \in Sched
        BY DEF Sched
      <3>5. sched' = [sched EXCEPT ![s] = [sched[s] EXCEPT !.pc = "expire"]]
        BY <1>3 DEF ExpireStaleRuns, Goto
      <3> QED BY <3>3, <3>4, <3>5
    <2>2. task' \in Task
      BY <1>0, <1>3, StatusType DEF ExpireStaleRuns
    <2> QED BY <1>3, <2>1, <2>2 DEF ExpireStaleRuns
  <1>4. ASSUME NEW s \in Schedulers, ExpireScheduledTasks(s) \/ ListDueTasks(s) PROVE TypeOK'
    <2>1. task' \in Task
      BY <1>4 DEF ExpireScheduledTasks, ListDueTasks, Task, Status, Moment
    <2>2. sched' \in [Schedulers -> Sched]
      BY <1>0, <1>4 DEF ExpireScheduledTasks, ListDueTasks, Goto, Leave, Sched
    <2> QED BY <1>4, <2>1, <2>2 DEF ExpireScheduledTasks, ListDueTasks
  <1>5. ASSUME NEW s \in Schedulers, ExpireDueTask(s) \/ PauseDueTask(s) PROVE TypeOK'
    <2>1. sched[s].copy \in Task
      BY DEF Sched
    <2>2. task' \in Task
      BY <1>5, <2>1 DEF ExpireDueTask, PauseDueTask, WriteTask, Task, Status, Moment
    <2> QED BY <1>0, <1>5, <2>2 DEF ExpireDueTask, PauseDueTask, Leave
  <1>6. ASSUME NEW s \in Schedulers, LookForTask(s) \/ StartRun(s) PROVE TypeOK'
    <2>1. CASE LookForTask(s)
      BY <1>0, <2>1 DEF LookForTask, Leave, Sched
    <2> DEFINE next == NextRunAfter(sched[s].copy, sched[s].at)
    <2>2. next \in Moment
      BY NextRunType DEF Sched
    <2>3. CASE StartRun(s) /\ StartableAt(task, sched[s].at)
      <3>1. PICK r \in Runs :
               /\ run' = [run EXCEPT ![r].status = "running"]
               /\ task' = [task EXCEPT !.next = next]
               /\ sched' = [sched EXCEPT ![s].pc = "run", ![s].at = 0, ![s].run = r,
                                         ![s].next = next]
        BY <2>3 DEF StartRun
      <3> HIDE DEF next
      <3>2. run' \in [Runs -> Run]
        BY <3>1 DEF Run
      <3>3. task' \in Task
        BY <2>2, <3>1 DEF Task
      <3>4. sched' \in [Schedulers -> Sched]
        <4>1. [sched[s] EXCEPT !.pc = "run", !.at = 0, !.run = r, !.next = next] \in Sched
          BY <2>2 DEF Sched
        <4>2. sched' = [sched EXCEPT ![s] =
                           [sched[s] EXCEPT !.pc = "run", !.at = 0, !.run = r, !.next = next]]
          BY <3>1
        <4> QED BY <4>1, <4>2
      <3> QED BY <1>a, <2>3, <3>2, <3>3, <3>4 DEF StartRun
    <2>4. CASE StartRun(s) /\ ~StartableAt(task, sched[s].at)
      BY <1>0, <1>a, <2>4 DEF StartRun, Leave
    <2> QED BY <1>6, <2>1, <2>3, <2>4
  <1>7. ASSUME NEW s \in Schedulers, EndTurn(s) \/ Abandon(s) PROVE TypeOK'
    BY <1>0, <1>7 DEF EndTurn, Abandon, Leave, Sched
  <1>8. ASSUME NEW s \in Schedulers, Heartbeat(s) PROVE TypeOK'
    BY <1>8 DEF Heartbeat, Run
  <1>9. ASSUME NEW r \in Runs, LoseHeartbeats(r) PROVE TypeOK'
    <2>1. faults' \in 0..MaxFaults
      <3>1. faults' = faults \/ (faults < MaxFaults /\ faults' = faults + 1)
        BY <1>9 DEF LoseHeartbeats
      <3> QED BY <3>1
    <2>2. run' \in [Runs -> Run]
      BY <1>9 DEF LoseHeartbeats, Run
    <2> QED BY <1>9, <2>1, <2>2 DEF LoseHeartbeats
  <1>10. ASSUME NEW s \in Schedulers, FinishRun(s) PROVE TypeOK'
    <2>1. sched[s].next \in Moment /\ sched[s].outcome \in {"success", "error"}
      BY DEF Sched
    <2>2. task' \in Task
      BY <1>10, <2>1, StatusType DEF FinishRun
    <2>3. run' \in [Runs -> Run]
      <3>1. run' = run \/ \E r : run' = [run EXCEPT ![r].status = sched[s].outcome]
        BY <1>10 DEF FinishRun
      <3> QED BY <2>1, <3>1 DEF Run
    <2> QED BY <1>0, <1>a, <1>10, <2>2, <2>3 DEF FinishRun, Leave
  <1>11. ASSUME NEW q \in Requests, ReadTask(q) PROVE TypeOK'
    BY <1>11 DEF ReadTask, Request
  <1>12. ASSUME NEW q \in Requests, AnswerRequest(q) PROVE TypeOK'
    <2>1. request[q].op \in Op /\ request[q].copy \in Task
      BY DEF Request
    <2>2. task' \in Task
      BY <1>0, <1>12, <2>1, ChangedType DEF AnswerRequest, WriteTask
    <2>3. request' \in [Requests -> Request]
      BY <1>12 DEF AnswerRequest, Request
    <2> QED BY <1>a, <1>12, <2>2, <2>3 DEF AnswerRequest
  <1>13. CASE UNCHANGED vars
    BY <1>13 DEF vars
  <1> QED BY <1>1, <1>2, <1>3, <1>4, <1>5, <1>6, <1>7, <1>8, <1>9, <1>10, <1>11, <1>12, <1>13
          DEF Next, SchedulerStep

\* The task, its runs, the loops and the requests keep their types.
THEOREM SchedulerTypeCorrect == Spec => []TypeOK
  BY TypeInit, TypeStep, PTL DEF Spec

-----------------------------------------------------------------------------
(***************************************************************************)
(* One run at a time.  A run becomes running only in StartRun, by a claim  *)
(* that saw none in its snapshot.  Who gets the row of the task first      *)
(* takes it out of the schedule, so a claim that saw no run and would still *)
(* start one finds none, unless something made the task due again.  What a *)
(* replica does later, on a run that others have given up or that the user *)
(* has deleted, never makes it run again.                                  *)
(***************************************************************************)

AtMostOneRuns == \A r1, r2 \in Runs : Running(r1) /\ Running(r2) => r1 = r2
ClaimsInv == rearmed \/ (AtMostOneRuns /\ ~WouldStartAnother)

\* No new claim, no earlier schedule and no new run: nothing is started beside a run.
LEMMA ClaimsStand ==
    ASSUME TypeOK, AtMostOneRuns, ~WouldStartAnother,
           \A r \in Runs : Running(r)' => Running(r),
           \A s \in Schedulers :
              At(s, "claim")' => \/ \A r \in Runs : ~Running(r)'
                                 \/ At(s, "claim") /\ sched'[s].at = sched[s].at,
           \A at \in Nat : StartableAt(task', at) => StartableAt(task, at)
    PROVE  AtMostOneRuns' /\ ~WouldStartAnother'
  <1>1. AtMostOneRuns'
    BY DEF AtMostOneRuns
  <1>2. ASSUME WouldStartAnother' PROVE FALSE
    <2>1. PICK s \in Schedulers : /\ At(s, "claim")' /\ StartableAt(task', sched'[s].at)
                                  /\ \E r \in Runs : Running(r)'
      BY <1>2 DEF WouldStartAnother
    <2>2. At(s, "claim") /\ sched'[s].at = sched[s].at
      BY <2>1
    <2>3. sched[s].at \in Nat
      BY DEF TypeOK, Sched
    <2> QED BY <2>1, <2>2, <2>3 DEF WouldStartAnother
  <1> QED BY <1>1, <1>2

LEMMA ClaimsStep == TypeOK /\ ClaimsInv /\ [Next]_vars => ClaimsInv'
  <1> SUFFICES ASSUME TypeOK, ClaimsInv, [Next]_vars PROVE ClaimsInv'
    OBVIOUS
  <1>1. CASE rearmed
    <2>1. rearmed'
      BY <1>1, Zenon
         DEF Next, SchedulerStep, Tick, DeleteTask, ExpireStaleRuns, ExpireScheduledTasks,
             ListDueTasks, ExpireDueTask, LookForTask, StartRun, EndTurn, FinishRun,
             PauseDueTask, Heartbeat, Abandon, LoseHeartbeats, ReadTask, AnswerRequest,
             RecordRearming, vars
    <2> QED BY <2>1 DEF ClaimsInv
  <1> SUFFICES ASSUME AtMostOneRuns, ~WouldStartAnother PROVE ClaimsInv'
    BY <1>1 DEF ClaimsInv
  <1>r. RecordRearming /\ AtMostOneRuns' => ClaimsInv'
    BY DEF RecordRearming, ClaimsInv
  <1>q. ASSUME /\ \A r \in Runs : run'[r].status = "running" => run[r].status = "running"
               /\ \A s \in Schedulers : sched'[s] = sched[s] \/ sched'[s].pc # "claim"
               /\ task' = task \/ task'.status # "active" \/ task'.next = Nil
        PROVE  ClaimsInv'
    BY <1>q, ClaimsStand DEF ClaimsInv, Running, At, StartableAt
  <1> USE DEF TypeOK
  <1>2. CASE Tick \/ UNCHANGED vars
    BY <1>2, <1>q DEF Tick, vars
  <1>3. CASE DeleteTask
    BY <1>3, <1>q DEF DeleteTask, Run, Task
  <1>4. ASSUME NEW s \in Schedulers, ExpireStaleRuns(s) PROVE ClaimsInv'
    <2>1. \A r \in Runs : run'[r].status = "running" => run[r].status = "running"
      BY <1>4 DEF ExpireStaleRuns, Run
    <2>2. \A c \in Schedulers : sched'[c] = sched[c] \/ sched'[c].pc # "claim"
      BY <1>4 DEF ExpireStaleRuns, Goto, Sched
    <2>3. task' = task \/ task'.status # "active" \/ task'.next = Nil
      BY <1>4 DEF ExpireStaleRuns, StatusAfterRun, Task
    <2> QED BY <1>q, <2>1, <2>2, <2>3
  <1>5. ASSUME NEW s \in Schedulers, ExpireScheduledTasks(s) PROVE ClaimsInv'
    BY <1>5, <1>q DEF ExpireScheduledTasks, Goto, Task, Sched
  <1>6. ASSUME NEW s \in Schedulers, ListDueTasks(s) \/ EndTurn(s) \/ Abandon(s)
        PROVE  ClaimsInv'
    BY <1>6, <1>q DEF ListDueTasks, EndTurn, Abandon, Leave, Idle, Sched
  <1>7. ASSUME NEW s \in Schedulers, ExpireDueTask(s) \/ PauseDueTask(s) PROVE ClaimsInv'
    <2>1. sched[s].copy \in Task
      BY DEF Sched
    <2>2. task' = task \/ task'.status # "active" \/ task'.next = Nil
      BY <1>7, <2>1 DEF ExpireDueTask, PauseDueTask, WriteTask, Task
    <2>3. run' = run /\ \A c \in Schedulers : sched'[c] = sched[c] \/ sched'[c].pc # "claim"
      BY <1>7 DEF ExpireDueTask, PauseDueTask, Leave, Idle
    <2> QED BY <1>q, <2>2, <2>3
  <1>8. ASSUME NEW s \in Schedulers, LookForTask(s) PROVE ClaimsInv'
    <2>1. CASE Claimable
      <3>1. \A r \in Runs : ~Running(r)'
        BY <1>8, <2>1 DEF Claimable, LookForTask, Running
      <3>2. AtMostOneRuns' /\ ~WouldStartAnother'
        BY <3>1 DEF AtMostOneRuns, WouldStartAnother
      <3> QED BY <3>2 DEF ClaimsInv
    <2>2. CASE ~Claimable
      BY <1>8, <1>q, <2>2 DEF LookForTask, Leave, Idle, Sched
    <2> QED BY <2>1, <2>2
  <1>9. ASSUME NEW s \in Schedulers, StartRun(s) PROVE ClaimsInv'
    <2>1. CASE StartableAt(task, sched[s].at)
      <3>1. \A r \in Runs : run[r].status # "running"
        BY <1>9, <2>1 DEF StartRun, WouldStartAnother, Running
      <3>2. PICK r \in Runs : run' = [run EXCEPT ![r].status = "running"]
        BY <1>9, <2>1 DEF StartRun
      <3>3. AtMostOneRuns'
        BY <3>1, <3>2 DEF AtMostOneRuns, Running, Run
      <3> QED BY <1>9, <1>r, <3>3 DEF StartRun
    <2>2. CASE ~StartableAt(task, sched[s].at)
      BY <1>9, <1>q, <2>2 DEF StartRun, Leave, Idle, Sched
    <2> QED BY <2>1, <2>2
  <1>10. ASSUME NEW s \in Schedulers, FinishRun(s) PROVE ClaimsInv'
    <2>1. sched[s].outcome \in {"success", "error"}
      BY DEF Sched
    <2>2. AtMostOneRuns'
      BY <1>10, <2>1 DEF FinishRun, AtMostOneRuns, Running, Run
    <2> QED BY <1>10, <1>r, <2>2 DEF FinishRun
  <1>11. ASSUME NEW s \in Schedulers, Heartbeat(s) PROVE ClaimsInv'
    BY <1>11, <1>q DEF Heartbeat, Run
  <1>12. ASSUME NEW r \in Runs, LoseHeartbeats(r) PROVE ClaimsInv'
    BY <1>12, <1>q DEF LoseHeartbeats, Run
  <1>13. ASSUME NEW q \in Requests, ReadTask(q) PROVE ClaimsInv'
    BY <1>13, <1>q DEF ReadTask
  <1>14. ASSUME NEW q \in Requests, AnswerRequest(q) PROVE ClaimsInv'
    <2>1. AtMostOneRuns'
      BY <1>14 DEF AnswerRequest, AtMostOneRuns, Running
    <2> QED BY <1>14, <1>r, <2>1 DEF AnswerRequest
  <1> QED BY <1>2, <1>3, <1>4, <1>5, <1>6, <1>7, <1>8, <1>9, <1>10, <1>11, <1>12, <1>13, <1>14
          DEF Next, SchedulerStep

\* TryStartScheduledTaskRun: however many replicas list the task, however long their claims
\* wait and however late their outcomes arrive, it has one run at a time, unless it
\* is made due again between the snapshot and the lock of a claim.
THEOREM TasksRunOnce == Spec => []OneRunAtATime
  <1>1. Init => ClaimsInv
    BY DEF Init, ClaimsInv, AtMostOneRuns, WouldStartAnother, Running
  <1>2. ClaimsInv => OneRunAtATime
    <2> SUFFICES ASSUME AtMostOneRuns PROVE ClaimsRespectRuns
      BY DEF ClaimsInv, OneRunAtATime
    <2> DEFINE R == {r \in Runs : Running(r)}
    <2>1. CASE R = {}
      BY <2>1, FS_EmptySet DEF ClaimsRespectRuns
    <2>2. CASE R # {}
      <3>1. PICK r \in R : TRUE
        BY <2>2
      <3>2. R = {r}
        BY <3>1 DEF AtMostOneRuns
      <3>3. Cardinality(R) = 1
        BY <3>2, FS_Singleton
      <3> QED BY <3>3 DEF ClaimsRespectRuns
    <2> QED BY <2>1, <2>2
  <1> QED BY <1>1, <1>2, ClaimsStep, SchedulerTypeCorrect, PTL DEF Spec
=============================================================================
