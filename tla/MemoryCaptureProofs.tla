------------------------ MODULE MemoryCaptureProofs ------------------------
(***************************************************************************)
(* Proofs about MemoryCapture for any jobs, workers, calls of Clear and    *)
(* Reset and failures: the types, that a turn is submitted once, that a    *)
(* cancellation stands, and that what was erased stays erased.             *)
(***************************************************************************)
EXTENDS MemoryCapture, TLAPS

-----------------------------------------------------------------------------
(* The inductive invariant of the jobs and their workers, in parts.          *)

SubmitPc == {"route", "lookup", "load", "session", "append", "mark", "commit", "record",
             "poll"}
CancelPc == {"cancel", "cancelTask", "await"}
Busy(w) == ~At(w, "idle")
Sits(w, v) == At(w, "settle") /\ worker[w].verdict = v
Cancels(w) == worker[w].pc \in CancelPc \/ Sits(w, "retryCancel")

\* Only the idle workers have no job.
JobInv == \A w \in Workers : At(w, "idle") <=> JobOf(w) = Nil

\* The flag and the states that go with it.
CancOK(r) ==
    /\ r.status \in {"cancel_requested", "cancelled"} => r.canc
    /\ r.canc => r.status \in {"submitting", "cancel_requested", "cancelled", "deleted"}
CancInv == \A j \in Jobs : CancOK(row[j])

\* A row without the flag is leased to the worker that is at it; one between the mark and
\* the commit is, whatever the flag.
Leased(r) == (r.status \in Queued /\ ~r.due) \/ r.status = "deleted"
InCommit(r) == (r.status = "submitting" /\ ~r.due) \/ r.status = "deleted"
Held(w, r) == /\ r.canc \/ Leased(r)
              /\ At(w, "commit") => InCommit(r)

\* What one worker has found out about its job holds.
KnowsJob(w) ==
    LET j == JobOf(w) IN
    /\ Cancels(w) => row[j].canc
    /\ Held(w, row[j])
    /\ worker[w].pc \in {"load", "session", "append", "mark", "commit"} => task[j] = "none"
    /\ At(w, "append") => session[j] # 2
WorkersInv == \A w \in Workers : Busy(w) => KnowsJob(w)

\* Two workers at one job: it is being cancelled, and one of them at most submits it, not
\* being at the commit.
Apart(w, x) == /\ row[JobOf(w)].canc
               /\ ~(worker[w].pc \in SubmitPc /\ worker[x].pc \in SubmitPc)
               /\ ~At(w, "commit")
PairInv == \A w, x \in Workers : w # x /\ Busy(w) /\ JobOf(w) = JobOf(x) => Apart(w, x)

\* The provider has none or all of a turn, and a commit made a task.
SubmittedOK(messages, t, n) == /\ messages \in {Absent, 0, 2}
                               /\ n = IF t = "none" THEN 0 ELSE 1
SubmittedInv == \A j \in Jobs : SubmittedOK(session[j], task[j], commits[j])

TurnInv == JobInv /\ CancInv /\ WorkersInv /\ PairInv /\ SubmittedInv

-----------------------------------------------------------------------------
(* The types.  A step of a worker moves it on, settles it or sends it away.  *)

\* A worker that goes on keeps its job and the copy of the row.
LEMMA GotoTyped ==
    ASSUME worker \in [Workers -> Worker], NEW w \in Workers, NEW pc \in Pc, Goto(w, pc)
    PROVE  worker' \in [Workers -> Worker]
  BY DEF Goto, Worker

\* A worker with a verdict is still a worker.
LEMMA SettleTyped ==
    ASSUME worker \in [Workers -> Worker], NEW w \in Workers, NEW v \in Verdict, Settle(w, v)
    PROVE  worker' \in [Workers -> Worker]
  <1> DEFINE settling == [worker EXCEPT ![w].pc = "settle"]
  <1>1. settling \in [Workers -> Worker]
    BY DEF Worker, Pc
  <1>2. worker' = [settling EXCEPT ![w].verdict = v]
    BY DEF Settle
  <1> HIDE DEF settling
  <1> QED BY <1>1, <1>2 DEF Worker

\* A worker that leaves is idle.
LEMMA LeaveTyped ==
    ASSUME worker \in [Workers -> Worker], NEW w \in Workers, Leave(w)
    PROVE  worker' \in [Workers -> Worker]
  <1>1. Idle \in Worker
    BY DEF Idle, Worker, Pc, Verdict, Cancellable, Queued
  <1> QED BY <1>1 DEF Leave

\* A failure is counted up to the bound.
LEMMA FaultTyped ==
    ASSUME faults \in 0..MaxFaults, Fault \/ NoFault
    PROVE  faults' \in 0..MaxFaults
  BY LimitAssumption DEF Fault, NoFault

\* What a worker does at the provider or alone leaves a typed state.
LEMMA AtProviderTyped ==
    ASSUME TypeOK, JobInv, NEW w \in Workers,
           Route(w) \/ Lookup(w) \/ Load(w) \/ EnsureSession(w) \/ AddTurn(w)
             \/ Commit(w) \/ Poll(w) \/ CancelCapture(w) \/ CancelTask(w) \/ AwaitTask(w)
             \/ Abandon(w)
    PROVE  TypeOK'
  <1> DEFINE j == JobOf(w)
  <1>0. worker \in [Workers -> Worker] /\ faults \in 0..MaxFaults
    BY DEF TypeOK
  <1>j. ~At(w, "idle") => j \in Jobs
    BY <1>0 DEF JobInv, JobOf, Worker
  <1>t. \A t : TaskVerdict(t) \in Verdict
    BY DEF TaskVerdict, Verdict
  <1>w. ASSUME \/ \E pc \in Pc : Goto(w, pc)
               \/ \E v \in Verdict : Settle(w, v)
               \/ Leave(w)
        PROVE  worker' \in [Workers -> Worker]
    BY <1>0, <1>w, GotoTyped, SettleTyped, LeaveTyped
  <1>f. ASSUME AtProvider, worker' \in [Workers -> Worker], Fault \/ NoFault,
               session' \in [Jobs -> Nat \cup {Absent}],
               task' \in [Jobs -> {"none"} \cup Active \cup Ended],
               memories' = memories, commits' \in [Jobs -> Nat]
        PROVE  TypeOK'
    BY <1>f, FaultTyped DEF TypeOK, AtProvider, user, config, history
  <1>1. CASE Route(w)
    <2>1. worker' \in [Workers -> Worker]
      BY <1>1, <1>w DEF Route, Pc
    <2> QED BY <1>1, <1>f, <2>1 DEF Route, TypeOK, provider, NoFault
  <1>2. CASE Lookup(w)
    <2>1. worker' \in [Workers -> Worker]
      BY <1>2, <1>w, <1>t DEF Lookup, Pc, Verdict
    <2> QED BY <1>2, <1>f, <2>1 DEF Lookup, TypeOK, provider
  <1>3. CASE Load(w)
    <2>1. worker' \in [Workers -> Worker]
      BY <1>3, <1>w DEF Load, Pc, Verdict
    <2> QED BY <1>3, <1>f, <2>1 DEF Load, TypeOK, provider
  <1>4. CASE EnsureSession(w)
    <2>1. worker' \in [Workers -> Worker]
      BY <1>4, <1>w DEF EnsureSession, Pc, Verdict
    <2>2. session' \in [Jobs -> Nat \cup {Absent}]
      BY <1>4, <1>j DEF EnsureSession, TypeOK, Absent, At
    <2> QED BY <1>4, <1>f, <2>1, <2>2 DEF EnsureSession, TypeOK
  <1>5. CASE AddTurn(w)
    <2>1. worker' \in [Workers -> Worker]
      BY <1>5, <1>w DEF AddTurn, Pc, Verdict
    <2>2. session' \in [Jobs -> Nat \cup {Absent}]
      BY <1>5, <1>j DEF AddTurn, TypeOK, Absent, At
    <2> QED BY <1>5, <1>f, <2>1, <2>2 DEF AddTurn, TypeOK
  <1>6. CASE Commit(w)
    <2>1. worker' \in [Workers -> Worker]
      BY <1>6, <1>w DEF Commit, Pc, Verdict
    <2>2. task' \in [Jobs -> {"none"} \cup Active \cup Ended] /\ commits' \in [Jobs -> Nat]
      BY <1>6, <1>j DEF Commit, Committed, TypeOK, At, Active
    <2> QED BY <1>6, <1>f, <2>1, <2>2 DEF Commit, TypeOK
  <1>7. CASE Poll(w)
    <2>1. worker' \in [Workers -> Worker]
      BY <1>7, <1>w, <1>t DEF Poll, Pc, Verdict
    <2> QED BY <1>7, <1>f, <2>1 DEF Poll, TypeOK, provider
  <1>8. CASE CancelCapture(w)
    <2>1. worker' \in [Workers -> Worker]
      BY <1>8, <1>w DEF CancelCapture, Pc, Verdict
    <2> QED BY <1>8, <1>f, <2>1 DEF CancelCapture, TypeOK, provider
  <1>9. CASE CancelTask(w)
    <2>1. worker' \in [Workers -> Worker]
      BY <1>9, <1>w DEF CancelTask, Pc, Verdict
    <2>2. task' \in [Jobs -> {"none"} \cup Active \cup Ended]
      BY <1>9 DEF CancelTask, TypeOK, Active
    <2> QED BY <1>9, <1>f, <2>1, <2>2 DEF CancelTask, TypeOK
  <1>10. CASE AwaitTask(w)
    <2>1. worker' \in [Workers -> Worker]
      BY <1>10, <1>w DEF AwaitTask, Pc, Verdict
    <2> QED BY <1>10, <1>f, <2>1 DEF AwaitTask, TypeOK, provider
  <1>11. CASE Abandon(w)
    <2>1. worker' \in [Workers -> Worker]
      BY <1>11, <1>w DEF Abandon
    <2> QED BY <1>11, <1>f, <2>1 DEF Abandon, TypeOK, provider
  <1> QED BY <1>1, <1>2, <1>3, <1>4, <1>5, <1>6, <1>7, <1>8, <1>9, <1>10, <1>11

\* The four steps of a worker that write its row leave a typed state.
LEMMA WritesTyped ==
    ASSUME TypeOK, JobInv, CancInv, NEW w \in Workers,
           (\E j \in Jobs : Claim(w, j)) \/ MarkSubmitting(w) \/ Record(w) \/ SettleJob(w)
    PROVE  TypeOK'
  <1>0. /\ worker \in [Workers -> Worker] /\ faults \in 0..MaxFaults
        /\ row \in [Jobs -> Row]
        /\ \A j \in Jobs : row[j] \in Row
    BY DEF TypeOK
  <1>w. ASSUME \/ \E pc \in Pc : Goto(w, pc)
               \/ \E v \in Verdict : Settle(w, v)
               \/ Leave(w)
        PROVE  worker' \in [Workers -> Worker]
    BY <1>0, <1>w, GotoTyped, SettleTyped, LeaveTyped
  <1>f. ASSUME UNCHANGED <<user, config, provider, wipe, erased, strays>>,
               row' \in [Jobs -> Row], worker' \in [Workers -> Worker],
               Fault \/ NoFault, givenUp' \in SUBSET Jobs
        PROVE  TypeOK'
    BY <1>f, FaultTyped DEF TypeOK, user, config, provider
  <1>1. ASSUME NEW j \in Jobs, Claim(w, j) PROVE TypeOK'
    <2>1. [row[j] EXCEPT !.due = FALSE, !.status = IF row[j].canc THEN @ ELSE "processing"]
            \in Row
      BY <1>0 DEF Row, Cancellable, Queued
    <2>2. row' \in [Jobs -> Row]
      BY <1>0, <1>1, <2>1 DEF Claim
    <2>3. row[j].status \in Cancellable \cup {"cancelled"}
      BY <1>0, <1>1 DEF Claim, Claimable, CancInv, CancOK, Cancellable, Queued
    <2>3a. row[j].attempts \in Nat /\ row[j].taskId \in BOOLEAN
      BY <1>0 DEF Row
    <2>4. worker' \in [Workers -> Worker]
      <3>1. PICK claimed : /\ worker' = [worker EXCEPT ![w] = claimed]
                           /\ claimed = [pc |-> IF row[j].canc \/ row[j].status = "cancel_requested"
                                               THEN "cancel" ELSE "route",
                                        job |-> j, status |-> row[j].status,
                                        attempts |-> row[j].attempts,
                                        taskId |-> row[j].taskId, verdict |-> "none"]
        BY <1>1 DEF Claim
      <3>2. claimed \in Worker
        BY <2>3, <2>3a, <3>1 DEF Worker, Pc, Verdict
      <3> QED BY <1>0, <3>1, <3>2
    <2> QED BY <1>0, <1>1, <1>f, <2>2, <2>4 DEF Claim, NoFault, history, TypeOK
  <1>2. CASE MarkSubmitting(w)
    <2>1. worker' \in [Workers -> Worker]
      BY <1>2, <1>w DEF MarkSubmitting, Pc
    <2>2. row' \in [Jobs -> Row]
      <3>1. \A j \in Jobs : [row[j] EXCEPT !.status = "submitting", !.due = FALSE] \in Row
        BY <1>0 DEF Row, Cancellable, Queued
      <3>2. JobOf(w) \in Jobs
        BY <1>0, <1>2 DEF MarkSubmitting, JobInv, JobOf, Worker, At
      <3>3. \/ UNCHANGED row
            \/ row' = [row EXCEPT ![JobOf(w)] = [row[JobOf(w)] EXCEPT !.status = "submitting",
                                                                   !.due = FALSE]]
        BY <1>2, <3>2 DEF MarkSubmitting
      <3> QED BY <1>0, <3>1, <3>2, <3>3
    <2> QED BY <1>2, <1>f, <2>1, <2>2 DEF MarkSubmitting, InDatabase, NoFault, TypeOK
  <1>3. CASE Record(w)
    <2>1. worker' \in [Workers -> Worker]
      <3>1. CASE worker' = [worker EXCEPT ![w].pc = "cancel", ![w].taskId = TRUE,
                                          ![w].status = "submitting"]
        <4> DEFINE one == [worker EXCEPT ![w].pc = "cancel"]
                   two == [one EXCEPT ![w].taskId = TRUE]
        <4>1. one \in [Workers -> Worker]
          BY <1>0 DEF Worker, Pc
        <4> HIDE DEF one
        <4>2. two \in [Workers -> Worker]
          BY <4>1 DEF Worker
        <4>3. worker' = [two EXCEPT ![w].status = "submitting"]
          BY <3>1 DEF one
        <4> HIDE DEF two
        <4> QED BY <4>2, <4>3 DEF Worker, Cancellable, Queued
      <3>2. CASE Leave(w)
        BY <3>2, <1>w
      <3> QED BY <1>3, <3>1, <3>2 DEF Record
    <2>2. row' \in [Jobs -> Row]
      <3>1. ASSUME NEW j \in Jobs
            PROVE  [row[j] EXCEPT !.taskId = TRUE, !.due = FALSE,
                              !.status = IF row[j].canc THEN @ ELSE "processing"] \in Row
        <4>1. (IF row[j].canc THEN row[j].status ELSE "processing")
                \in {"unborn", "deleted"} \cup Cancellable \cup Settled
          BY <1>0 DEF Row, Cancellable, Queued
        <4> QED BY <1>0, <4>1 DEF Row
      <3>2. JobOf(w) \in Jobs
        BY <1>0, <1>3 DEF Record, JobInv, JobOf, Worker, At
      <3>3. CASE UNCHANGED row
        BY <1>0, <3>3
      <3>4. CASE row' = [row EXCEPT ![JobOf(w)] = [row[JobOf(w)] EXCEPT !.taskId = TRUE,
                          !.due = FALSE,
                          !.status = IF row[JobOf(w)].canc THEN @ ELSE "processing"]]
        BY <1>0, <3>1, <3>2, <3>4
      <3>5. row' = row \/
             row' = [row EXCEPT ![JobOf(w)] = [row[JobOf(w)] EXCEPT !.taskId = TRUE,
                          !.due = FALSE,
                          !.status = IF row[JobOf(w)].canc THEN @ ELSE "processing"]]
        BY <1>0, <1>3, <3>2 DEF Record
      <3> QED BY <3>3, <3>4, <3>5
    <2> QED BY <1>3, <1>f, <2>1, <2>2 DEF Record, InDatabase, NoFault, TypeOK
  <1>4. CASE SettleJob(w)
    <2> DEFINE j == JobOf(w)
    <2>0. j \in Jobs
      BY <1>0, <1>4 DEF SettleJob, JobInv, JobOf, Worker, At
    <2>1. worker' \in [Workers -> Worker]
      BY <1>4, <1>w DEF SettleJob
    <2>2. CompleteJob(j) => row' \in [Jobs -> Row] /\ givenUp' = givenUp
      <3>1. [row[j] EXCEPT !.status = "completed", !.due = TRUE] \in Row
        BY <1>0, <2>0 DEF Row, Settled
      <3> QED BY <1>0, <2>0, <3>1 DEF CompleteJob, Update
    <2>3. DeadJob(j) => row' \in [Jobs -> Row] /\ givenUp' \in SUBSET Jobs
      <3>1. [row[j] EXCEPT !.status = "dead"] \in Row
        BY <1>0, <2>0 DEF Row, Settled
      <3> QED BY <1>0, <2>0, <3>1 DEF DeadJob, Update, TypeOK
    <2>4. CancelJob(j) => row' \in [Jobs -> Row] /\ givenUp' = givenUp
      <3>1. [row[j] EXCEPT !.status = "cancelled", !.canc = TRUE, !.due = TRUE] \in Row
        BY <1>0, <2>0 DEF Row, Settled
      <3> QED BY <1>0, <2>0, <3>1 DEF CancelJob, Update
    <2>5. AdoptTask(j) => row' \in [Jobs -> Row] /\ givenUp' = givenUp
      <3>1. [row[j] EXCEPT !.status = "processing", !.taskId = TRUE, !.due = FALSE] \in Row
        BY <1>0, <2>0 DEF Row, Cancellable, Queued
      <3> QED BY <1>0, <2>0, <3>1 DEF AdoptTask, Update
    <2>6. RetryJob(j, worker[w].attempts + 1) => row' \in [Jobs -> Row] /\ givenUp' \in SUBSET Jobs
      <3>1. worker[w].attempts + 1 \in Nat
        BY <1>0 DEF Worker
      <3>2. [row[j] EXCEPT !.status = "pending", !.due = FALSE,
                           !.attempts = worker[w].attempts + 1] \in Row
        BY <1>0, <2>0, <3>1 DEF Row, Cancellable, Queued
      <3> QED BY <1>0, <2>0, <2>3, <3>2 DEF RetryJob, Update, TypeOK
    <2>7. RetryCancellation(j) => row' \in [Jobs -> Row] /\ givenUp' = givenUp
      <3>1. [row[j] EXCEPT !.canc = TRUE, !.due = FALSE,
                           !.status = IF @ = "submitting" THEN @ ELSE "cancel_requested"]
              \in Row
        BY <1>0, <2>0 DEF Row, Cancellable, Queued
      <3> QED BY <1>0, <2>0, <3>1 DEF RetryCancellation, Update
    <2>8. row' \in [Jobs -> Row] /\ givenUp' \in SUBSET Jobs /\ (Fault \/ NoFault)
      BY <1>4, <2>2, <2>3, <2>4, <2>5, <2>6, <2>7 DEF SettleJob, TypeOK
    <2> QED BY <1>4, <1>f, <2>1, <2>8 DEF SettleJob, InDatabase
  <1> QED BY <1>1, <1>2, <1>3, <1>4

\* What happens to a row without a worker leaves a typed state.
LEMMA RowsTyped ==
    ASSUME TypeOK, NEW j \in Jobs,
           ScheduleCapture(j) \/ ExpireLease(j) \/ CleanupCaptureJob(j) \/ EndTask(j)
    PROVE  TypeOK'
  <1>0. /\ row \in [Jobs -> Row]
        /\ \A k \in Jobs : row[k] \in Row
        /\ epoch \in Nat
    BY DEF TypeOK
  <1>f. ASSUME UNCHANGED <<epoch, config, provider, worker, wipe, history, faults>>,
               row' \in [Jobs -> Row], settings' \in BOOLEAN
        PROVE  TypeOK'
    BY <1>f DEF TypeOK, config, provider, history
  <1>1. CASE ScheduleCapture(j)
    <2>1. NewRow("pending", epoch) \in Row
      BY <1>0 DEF NewRow, Row, Cancellable, Queued
    <2> QED BY <1>0, <1>1, <1>f, <2>1 DEF ScheduleCapture
  <1>2. CASE ExpireLease(j)
    <2>1. [row[j] EXCEPT !.due = TRUE] \in Row
      BY <1>0 DEF Row
    <2>2. row' = [row EXCEPT ![j] = [row[j] EXCEPT !.due = TRUE]]
      BY <1>2 DEF ExpireLease
    <2> QED BY <1>0, <1>2, <1>f, <2>1, <2>2 DEF ExpireLease, user, TypeOK
  <1>3. CASE CleanupCaptureJob(j)
    <2>1. [row[j] EXCEPT !.status = "deleted"] \in Row
      BY <1>0 DEF Row
    <2>2. row' = [row EXCEPT ![j] = [row[j] EXCEPT !.status = "deleted"]]
      BY <1>3 DEF CleanupCaptureJob
    <2> QED BY <1>0, <1>3, <1>f, <2>1, <2>2 DEF CleanupCaptureJob, user, TypeOK
  <1>4. CASE EndTask(j)
    <2>1. task' \in [Jobs -> {"none"} \cup Active \cup Ended] /\ memories' \in SUBSET Jobs
      BY <1>4 DEF EndTask, TypeOK, Ended
    <2> QED BY <1>4, <2>1 DEF EndTask, TypeOK, user, config, history
  <1> QED BY <1>1, <1>2, <1>3, <1>4

\* A request leaves a row a row.
LEMMA RequestedTyped ==
    ASSUME NEW r \in Row
    PROVE  Requested(r) \in Row
  <1>1. [r EXCEPT !.canc = TRUE,
                  !.status = IF @ = "submitting" THEN @ ELSE "cancel_requested",
                  !.due = IF r.status = "submitting" THEN @ ELSE TRUE] \in Row
    <2>1. (IF r.status = "submitting" THEN r.status ELSE "cancel_requested")
            \in {"unborn", "deleted"} \cup Cancellable \cup Settled
      BY DEF Row, Cancellable, Queued
    <2>2. (IF r.status = "submitting" THEN r.due ELSE TRUE) \in BOOLEAN
      BY DEF Row
    <2> QED BY <2>1, <2>2 DEF Row
  <1> QED BY <1>1 DEF Requested

\* A call of Clear or Reset that goes on keeps its kind, epoch and targets.
LEMMA WipeGotoTyped ==
    ASSUME wipe \in [Wipes -> Wipe], NEW c \in Wipes,
           NEW pc \in {"idle", "wait", "accounts", "remove", "checkpoint", "sessions",
                       "rows", "done", "failed"},
           WipeGoto(c, pc)
    PROVE  wipe' \in [Wipes -> Wipe]
  BY DEF WipeGoto, Wipe

\* What the user and the admin do leaves a typed state.
LEMMA WipesTyped ==
    ASSUME TypeOK, NEW c \in Wipes,
           BeginClear(c) \/ BeginReset(c) \/ WipeStep(c) \/ FailWipe(c)
    PROVE  TypeOK'
  <1>0. /\ row \in [Jobs -> Row] /\ wipe \in [Wipes -> Wipe]
        /\ \A k \in Jobs : row[k] \in Row
        /\ epoch \in Nat /\ faults \in 0..MaxFaults
        /\ settings \in BOOLEAN /\ account \in BOOLEAN
        /\ Scheduled \in SUBSET Jobs
        /\ strays \in SUBSET Jobs /\ erased \in SUBSET Jobs
    BY DEF TypeOK, Scheduled
  <1>t. wipe[c].targets \in SUBSET Jobs
    BY <1>0 DEF Wipe
  <1>d. ASSUME NEW js, DeleteRows(js) PROVE row' \in [Jobs -> Row]
    <2>1. \A j \in Jobs : [row[j] EXCEPT !.status = "deleted"] \in Row
      BY <1>0 DEF Row
    <2> QED BY <1>0, <1>d, <2>1 DEF DeleteRows
  <1>o. ASSUME NEW js, Overrun(c, js) PROVE strays' \in SUBSET Jobs
    BY <1>0, <1>o DEF Overrun
  <1>e. ASSUME EndWipe(c)
        PROVE  wipe' \in [Wipes -> Wipe] /\ erased' \in SUBSET Jobs
    BY <1>0, <1>e, <1>t, WipeGotoTyped DEF EndWipe
  <1>b. ASSUME NEW kind \in {"clear", "reset"}, NEW e \in Nat, BeginWipe(c, kind, e)
        PROVE  wipe' \in [Wipes -> Wipe]
    BY <1>0, <1>b DEF BeginWipe, Wipe
  <1>g. ASSUME \E pc \in {"idle", "wait", "accounts", "remove", "checkpoint", "sessions",
                          "rows", "done", "failed"} : WipeGoto(c, pc)
        PROVE  wipe' \in [Wipes -> Wipe]
    BY <1>0, <1>g, WipeGotoTyped
  <1>1. CASE BeginClear(c)
    <2>1. row' \in [Jobs -> Row]
      BY <1>0, <1>1, RequestedTyped DEF BeginClear
    <2>2. wipe' \in [Wipes -> Wipe] /\ epoch' \in Nat
      BY <1>0, <1>1, <1>b DEF BeginClear
    <2> QED BY <1>1, <2>1, <2>2 DEF BeginClear, TypeOK, config, provider, history
  <1>2. CASE BeginReset(c)
    <2>1. row' \in [Jobs -> Row]
      BY <1>0, <1>2, RequestedTyped DEF BeginReset
    <2>2. wipe' \in [Wipes -> Wipe]
      BY <1>0, <1>2, <1>b DEF BeginReset
    <2>3. enabled' \in BOOLEAN /\ resetting' \in BOOLEAN /\ account' \in BOOLEAN
      BY <1>2 DEF BeginReset, TypeOK, config
    <2> QED BY <1>2, <2>1, <2>2, <2>3 DEF BeginReset, TypeOK, user, provider, history
  <1>3. CASE AwaitCancellation(c)
    <2>1. wipe' \in [Wipes -> Wipe]
      BY <1>3, <1>g DEF AwaitCancellation
    <2> QED BY <1>3, <2>1 DEF AwaitCancellation, TypeOK, user, config, provider, history
  <1>4. CASE ListAccounts(c)
    <2>1. wipe' \in [Wipes -> Wipe]
      BY <1>4, <1>g DEF ListAccounts
    <2> QED BY <1>4, <2>1 DEF ListAccounts, TypeOK, user, config, provider, history
  <1>5. CASE RemoveMemories(c)
    <2>1. wipe' \in [Wipes -> Wipe] /\ faults' \in 0..MaxFaults
      BY <1>0, <1>5, <1>g, FaultTyped DEF RemoveMemories
    <2>2. session' \in [Jobs -> Nat \cup {Absent}]
      BY <1>5 DEF RemoveMemories, TypeOK
    <2> QED BY <1>5, <2>1, <2>2 DEF RemoveMemories, TypeOK, user, config, history
  <1>6. CASE CompleteResetAccount(c)
    <2>1. wipe' \in [Wipes -> Wipe] /\ strays' \in SUBSET Jobs
      BY <1>0, <1>6, <1>g, <1>o DEF CompleteResetAccount
    <2> QED BY <1>6, <2>1 DEF CompleteResetAccount, TypeOK, user, provider
  <1>7. CASE DeleteSessions(c)
    <2>1. wipe' \in [Wipes -> Wipe] /\ faults' \in 0..MaxFaults
      BY <1>0, <1>7, <1>g, FaultTyped DEF DeleteSessions
    <2>2. session' \in [Jobs -> Nat \cup {Absent}]
      BY <1>7 DEF DeleteSessions, TypeOK
    <2> QED BY <1>7, <2>1, <2>2 DEF DeleteSessions, TypeOK, user, config, history
  <1>8. CASE DeleteOldJobs(c)
    BY <1>8, <1>d, <1>o, <1>e DEF DeleteOldJobs, TypeOK, user, config, provider
  <1>9. CASE CompleteReset(c)
    <2>1. CASE account
      <3>1. wipe' \in [Wipes -> Wipe]
        BY <1>9, <1>g, <2>1 DEF CompleteReset
      <3> QED BY <1>9, <2>1, <3>1 DEF CompleteReset, TypeOK, user, config, provider
    <2>2. CASE ~account
      <3>1. DeleteRows(Jobs) /\ Overrun(c, Jobs) /\ EndWipe(c)
        BY <1>9, <2>2 DEF CompleteReset
      <3>2. row' \in [Jobs -> Row] /\ strays' \in SUBSET Jobs
        BY <1>d, <1>o, <3>1
      <3>3. wipe' \in [Wipes -> Wipe] /\ erased' \in SUBSET Jobs
        BY <1>e, <3>1
      <3>4. /\ epoch' = 0 /\ settings' = FALSE /\ resetting' = FALSE
            /\ UNCHANGED <<enabled, account, worker, session, task, memories, commits,
                           givenUp, faults>>
        BY <1>9, <2>2 DEF CompleteReset, provider
      <3> QED BY <3>2, <3>3, <3>4 DEF TypeOK
    <2> QED BY <2>1, <2>2
  <1>10. CASE FailWipe(c)
    <2>1. wipe' \in [Wipes -> Wipe] /\ faults' \in 0..MaxFaults
      BY <1>0, <1>10, <1>g, FaultTyped DEF FailWipe
    <2> QED BY <1>10, <2>1 DEF FailWipe, TypeOK, user, config, provider, history
  <1> QED BY <1>1, <1>2, <1>3, <1>4, <1>5, <1>6, <1>7, <1>8, <1>9, <1>10
        DEF WipeStep, ClearStep, ResetStep

\* Every step leaves a typed state; the worker's need that a busy one has a job.
LEMMA StepTyped ==
    ASSUME TypeOK, JobInv, CancInv, [Next]_vars
    PROVE  TypeOK'
  <1>1. ASSUME NEW j \in Jobs,
               ScheduleCapture(j) \/ ExpireLease(j) \/ EndTask(j) \/ CleanupCaptureJob(j)
        PROVE  TypeOK'
    BY <1>1, RowsTyped
  <1>2. ASSUME NEW w \in Workers, (\E j \in Jobs : Claim(w, j)) \/ WorkerStep(w) \/ Abandon(w)
        PROVE  TypeOK'
    BY <1>2, AtProviderTyped, WritesTyped DEF WorkerStep, SubmitStep, CancelStep
  <1>3. ASSUME NEW c \in Wipes, BeginClear(c) \/ BeginReset(c) \/ WipeStep(c) \/ FailWipe(c)
        PROVE  TypeOK'
    BY <1>3, WipesTyped
  <1>4. ASSUME NEW e \in BOOLEAN, SetEnabled(e) PROVE TypeOK'
    <2>1. faults' \in 0..MaxFaults
      BY <1>4, FaultTyped DEF SetEnabled, TypeOK
    <2> QED BY <1>4, <2>1 DEF SetEnabled, TypeOK, user, provider, history
  <1>5. CASE UpdateSettings
    BY <1>5 DEF UpdateSettings, TypeOK, config, provider, history
  <1>6. CASE UNCHANGED vars
    BY <1>6 DEF vars, TypeOK, user, config, provider, history
  <1>7. \/ \E j \in Jobs : ScheduleCapture(j) \/ ExpireLease(j) \/ EndTask(j)
                           \/ CleanupCaptureJob(j)
        \/ \E w \in Workers : (\E j \in Jobs : Claim(w, j)) \/ WorkerStep(w) \/ Abandon(w)
        \/ \E c \in Wipes : BeginClear(c) \/ BeginReset(c) \/ WipeStep(c) \/ FailWipe(c)
        \/ \E e \in BOOLEAN : SetEnabled(e)
        \/ UpdateSettings \/ UNCHANGED vars
    BY Zenon DEF Next
  <1> QED BY <1>1, <1>2, <1>3, <1>4, <1>5, <1>6, <1>7

-----------------------------------------------------------------------------
(* The steps of a worker keep the invariant.                                 *)

\* What a step may do to a row: the promise of CancellationStands; a deleted row stays
\* deleted; a job keeps the epoch it was scheduled in.
Stands(j) ==
    /\ row[j].canc => row'[j].canc
    /\ row[j].canc /\ row'[j].status \in Queued =>
          row[j].status = row'[j].status /\ row[j].status = "submitting"
    /\ row[j].status \in Settled => row'[j].status \in {row[j].status, "deleted"}
RowStep(j) ==
    /\ Stands(j)
    /\ row[j].status = "deleted" => row'[j].status = "deleted"
    /\ row[j].status # "unborn" => row'[j].status # "unborn" /\ row'[j].epoch = row[j].epoch
    /\ CancOK(row'[j])

\* The worker w leaves its job, or goes on with it and knows its way.
GoesOn(w) ==
    /\ JobOf(w)' = JobOf(w) /\ Busy(w)'
    /\ worker'[w].pc \in SubmitPc => worker[w].pc \in SubmitPc
    /\ At(w, "commit")' => ~row[JobOf(w)].canc
    /\ KnowsJob(w)'
Onward(w) == /\ \A x \in Workers \ {w} : worker'[x] = worker[x]
             /\ worker'[w] = Idle \/ GoesOn(w)
WorkerMoves(w) ==
    LET j == JobOf(w) IN
    /\ Onward(w)
    /\ \A k \in Jobs \ {j} : /\ row'[k] = row[k] /\ session'[k] = session[k]
                             /\ task'[k] = task[k] /\ commits'[k] = commits[k]
    /\ RowStep(j)
    /\ SubmittedOK(session'[j], task'[j], commits'[j])
    /\ worker[w].pc \notin SubmitPc => /\ session'[j] = session[j]
                                       /\ task[j] = "none" => task'[j] = "none"

\* A row that does not change stands.
LEMMA SameRowStands ==
    ASSUME NEW j \in Jobs, CancOK(row[j]), row'[j] = row[j]
    PROVE  RowStep(j)
  BY DEF RowStep, Stands, CancOK, Queued

\* Whoever else is at the job has been kept apart from w, and nothing w does is news.
LEMMA WorkerMovesKeep ==
    ASSUME TypeOK, TurnInv, NEW w \in Workers, Busy(w), WorkerMoves(w)
    PROVE  TurnInv' /\ \A j \in Jobs : RowStep(j)
  <1> DEFINE j == JobOf(w)
  <1>0. /\ \A x \in Workers : worker[x].pc = "idle" <=> worker[x].job = Nil
        /\ \A x \in Workers : worker[x].job \in Jobs \cup {Nil}
        /\ j \in Jobs
    BY DEF TypeOK, TurnInv, JobInv, At, JobOf, Busy, Worker
  <1>1. /\ \A x \in Workers \ {w} : worker'[x] = worker[x]
        /\ worker'[w] = Idle \/ GoesOn(w)
        /\ \A k \in Jobs \ {j} : /\ row'[k] = row[k] /\ session'[k] = session[k]
                                 /\ task'[k] = task[k] /\ commits'[k] = commits[k]
        /\ RowStep(j)
        /\ SubmittedOK(session'[j], task'[j], commits'[j])
        /\ worker[w].pc \notin SubmitPc => /\ session'[j] = session[j]
                                           /\ task[j] = "none" => task'[j] = "none"
    BY DEF WorkerMoves, Onward
  <1>2. \A k \in Jobs : RowStep(k)
    BY <1>0, <1>1, SameRowStands DEF TurnInv, CancInv
  <1>3. JobInv'
    BY <1>0, <1>1 DEF JobInv, GoesOn, Idle, At, JobOf, Busy
  <1>4. CancInv'
    BY <1>2 DEF CancInv, RowStep
  <1>5. SubmittedInv'
    <2>1. ASSUME NEW k \in Jobs PROVE SubmittedOK(session'[k], task'[k], commits'[k])
      <3>1. CASE k = j
        BY <1>1, <3>1
      <3>2. CASE k # j
        BY <1>1, <3>2 DEF TurnInv, SubmittedInv
      <3> QED BY <3>1, <3>2
    <2> QED BY <2>1 DEF SubmittedInv
  <1>6. WorkersInv'
    <2> SUFFICES ASSUME NEW x \in Workers, Busy(x)' PROVE KnowsJob(x)'
      BY DEF WorkersInv
    <2>1. CASE x = w
      BY <1>1, <2>1 DEF GoesOn, Busy, At, Idle
    <2>2. CASE x # w /\ JobOf(x) # j
      <3>1. Busy(x) /\ JobOf(x) \in Jobs /\ worker'[x] = worker[x]
        BY <1>0, <1>1, <2>2 DEF Busy, At, JobOf
      <3>2. /\ row'[JobOf(x)] = row[JobOf(x)] /\ session'[JobOf(x)] = session[JobOf(x)]
            /\ task'[JobOf(x)] = task[JobOf(x)]
        BY <1>1, <2>2, <3>1
      <3> QED BY <3>1, <3>2 DEF TurnInv, WorkersInv, KnowsJob, Cancels, Sits, Held, At, JobOf
    <2>3. CASE x # w /\ JobOf(x) = j
      <3>1. Busy(x) /\ worker'[x] = worker[x]
        BY <1>0, <1>1, <2>3 DEF Busy, At, JobOf
      <3>2. Apart(x, w) /\ Apart(w, x) /\ KnowsJob(x)
        BY <2>3, <3>1 DEF TurnInv, PairInv, WorkersInv
      <3>3. row'[j].canc
        BY <1>1, <2>3, <3>2 DEF Apart, RowStep, Stands
      <3>4. worker[x].pc \in SubmitPc => /\ session'[j] = session[j]
                                         /\ task[j] = "none" => task'[j] = "none"
        BY <1>1, <3>2 DEF Apart
      <3> QED BY <2>3, <3>1, <3>2, <3>3, <3>4
            DEF Apart, KnowsJob, Cancels, Sits, Held, At, JobOf, SubmitPc
    <2> QED BY <2>1, <2>2, <2>3
  <1>7. PairInv'
    <2> SUFFICES ASSUME NEW x \in Workers, NEW y \in Workers, x # y, Busy(x)',
                        (JobOf(x) = JobOf(y))'
                 PROVE  Apart(x, y)'
      BY DEF PairInv
    <2>1. Busy(x) /\ JobOf(x)' = JobOf(x) /\ JobOf(x) \in Jobs
      BY <1>0, <1>1 DEF GoesOn, Busy, At, JobOf, Idle
    <2>2. Busy(y) /\ JobOf(y)' = JobOf(y)
      <3>1. worker'[y] # Idle
        <4>1. worker'[y].job # Nil
          BY <1>0, <2>1, NilAssumption DEF JobOf
        <4> QED BY <4>1 DEF Idle
      <3>2. CASE y = w
        BY <1>1, <3>1, <3>2 DEF GoesOn
      <3>3. CASE y # w
        <4>1. worker'[y] = worker[y] /\ worker[y].job # Nil
          BY <1>1, <2>1, <3>3, NilAssumption DEF JobOf
        <4> QED BY <1>0, <4>1 DEF Busy, At, JobOf
      <3> QED BY <3>2, <3>3
    <2>3. Apart(x, y)
      BY <2>1, <2>2 DEF TurnInv, PairInv
    <2>4. row'[JobOf(x)].canc
      BY <1>2, <2>1, <2>3 DEF Apart, RowStep, Stands
    <2>5. \A z \in {x, y} : worker'[z].pc \in SubmitPc => worker[z].pc \in SubmitPc
      BY <1>1 DEF GoesOn, Idle, SubmitPc
    <2>6. ~At(x, "commit")'
      <3>1. CASE x = w
        BY <1>1, <2>3, <3>1 DEF GoesOn, Apart, At, Idle
      <3>2. CASE x # w
        BY <1>1, <2>3, <3>2 DEF Apart, At
      <3> QED BY <3>1, <3>2
    <2> QED BY <2>1, <2>3, <2>4, <2>5, <2>6 DEF Apart, JobOf
  <1> QED BY <1>2, <1>3, <1>4, <1>5, <1>6, <1>7 DEF TurnInv

\* What the three ways to go on leave of a worker.
LEMMA GotoFacts ==
    ASSUME TypeOK, NEW w \in Workers, NEW pc, Goto(w, pc)
    PROVE  /\ \A x \in Workers \ {w} : worker'[x] = worker[x]
           /\ worker'[w].pc = pc /\ worker'[w].job = worker[w].job
           /\ worker'[w].verdict = worker[w].verdict
  BY DEF Goto, TypeOK, Worker

\* One with a verdict waits for its last UPDATE.
LEMMA SettleFacts ==
    ASSUME TypeOK, NEW w \in Workers, NEW v, Settle(w, v)
    PROVE  /\ \A x \in Workers \ {w} : worker'[x] = worker[x]
           /\ worker'[w].pc = "settle" /\ worker'[w].job = worker[w].job
           /\ worker'[w].verdict = v
  BY DEF Settle, TypeOK, Worker

\* One that leaves is idle again.
LEMMA LeaveFacts ==
    ASSUME TypeOK, NEW w \in Workers, Leave(w)
    PROVE  /\ \A x \in Workers \ {w} : worker'[x] = worker[x]
           /\ worker'[w] = Idle
  BY DEF Leave, TypeOK

\* A worker that writes no row goes on if it keeps to its side and has looked first.
LEMMA GoesOnAtProvider ==
    ASSUME TypeOK, TurnInv, NEW w \in Workers, Busy(w), row' = row,
           worker'[w].job = worker[w].job, worker'[w].pc # "idle",
           worker'[w].pc \in SubmitPc => worker[w].pc \in SubmitPc,
           worker'[w].pc # "commit",
           Cancels(w)' => Cancels(w),
           worker'[w].pc \in {"load", "session", "append", "mark"} => task'[JobOf(w)] = "none",
           worker'[w].pc = "append" => session'[JobOf(w)] # 2
    PROVE  GoesOn(w)
  <1>1. KnowsJob(w)
    BY DEF TurnInv, WorkersInv
  <1>2. /\ JobOf(w)' = JobOf(w) /\ Busy(w)'
        /\ worker'[w].pc \in SubmitPc => worker[w].pc \in SubmitPc
        /\ ~At(w, "commit")'
    BY DEF JobOf, Busy, At
  <1>3. KnowsJob(w)'
    BY <1>1, <1>2 DEF KnowsJob, Held, At, JobOf
  <1> QED BY <1>2, <1>3 DEF GoesOn

\* Looking, calling the provider and giving up move a worker as it should.
LEMMA AtProviderMoves ==
    ASSUME TypeOK, TurnInv, NEW w \in Workers,
           Route(w) \/ Lookup(w) \/ Load(w) \/ EnsureSession(w) \/ AddTurn(w)
             \/ Commit(w) \/ Poll(w) \/ CancelCapture(w) \/ CancelTask(w) \/ AwaitTask(w)
             \/ Abandon(w)
    PROVE  Busy(w) /\ row' = row /\ WorkerMoves(w)
  <1>1. PICK j : j = JobOf(w)
    OBVIOUS
  <1>2. Busy(w) /\ row' = row
    BY DEF Busy, At, AtProvider, Route, Lookup, Load, EnsureSession, AddTurn, Commit, Poll,
           CancelCapture, CancelTask, AwaitTask, Abandon
  <1>3. j \in Jobs /\ KnowsJob(w) /\ SubmittedOK(session[j], task[j], commits[j])
        /\ (Cancels(w) => row[j].canc)
    BY <1>1, <1>2 DEF TypeOK, TurnInv, JobInv, WorkersInv, SubmittedInv, KnowsJob, At, JobOf,
                      Busy, Worker
  <1>4. RowStep(j)
    BY <1>2, <1>3, SameRowStands DEF TurnInv, CancInv
  <1>g. ASSUME NEW pc, Goto(w, pc), pc \notin {"idle", "commit", "settle"},
               pc \in SubmitPc => worker[w].pc \in SubmitPc,
               pc \in CancelPc => Cancels(w),
               pc \in {"load", "session", "append", "mark"} => task'[j] = "none",
               pc = "append" => session'[j] # 2
        PROVE  Onward(w)
    <2>0. worker'[w].pc = pc /\ worker'[w].job = worker[w].job
      BY <1>g, GotoFacts
    <2>1. Cancels(w)' => Cancels(w)
      BY <1>g, <2>0 DEF Cancels, Sits, At
    <2>2. GoesOn(w)
      BY <1>1, <1>2, <1>g, <2>0, <2>1, GoesOnAtProvider
    <2> QED BY <1>g, <2>2, GotoFacts DEF Onward
  <1>v. ASSUME NEW v, Settle(w, v), v = "retryCancel" => Cancels(w) PROVE Onward(w)
    <2>0. worker'[w].pc = "settle" /\ worker'[w].job = worker[w].job
      BY <1>v, SettleFacts
    <2>1. Cancels(w)' => Cancels(w)
      BY <1>v, SettleFacts DEF Cancels, Sits, At, CancelPc
    <2>2. GoesOn(w)
      BY <1>2, <2>0, <2>1, GoesOnAtProvider DEF SubmitPc
    <2> QED BY <1>v, <2>2, SettleFacts DEF Onward
  <1>l. Leave(w) => Onward(w)
    BY LeaveFacts DEF Onward
  <1>f. ASSUME Onward(w),
               \A k \in Jobs \ {j} : /\ session'[k] = session[k] /\ task'[k] = task[k]
                                     /\ commits'[k] = commits[k],
               SubmittedOK(session'[j], task'[j], commits'[j]),
               worker[w].pc \notin SubmitPc => /\ session'[j] = session[j]
                                               /\ task[j] = "none" => task'[j] = "none"
        PROVE  WorkerMoves(w)
    BY <1>1, <1>2, <1>4, <1>f DEF WorkerMoves, Onward
  <1>s. ASSUME UNCHANGED <<session, task, commits>>, Onward(w)
        PROVE  WorkerMoves(w)
    BY <1>3, <1>f, <1>s
  <1>t. \A t : TaskVerdict(t) # "retryCancel"
    BY DEF TaskVerdict
  <1>5. CASE Route(w)
    <2>1. worker[w].pc \in SubmitPc /\ UNCHANGED <<session, task, commits>>
      BY <1>5 DEF Route, At, SubmitPc, provider
    <2>2. Goto(w, "poll") \/ Goto(w, "lookup") \/ Leave(w)
      BY <1>5 DEF Route
    <2>3. Onward(w)
      BY <1>g, <1>l, <2>1, <2>2 DEF CancelPc
    <2> QED BY <1>2, <1>s, <2>1, <2>3
  <1>6. CASE Lookup(w)
    <2>1. worker[w].pc \in SubmitPc /\ UNCHANGED <<session, task, commits>>
      BY <1>6 DEF Lookup, At, SubmitPc, provider
    <2>2. \/ Goto(w, "load") /\ task'[j] = "none"
          \/ Settle(w, TaskVerdict(task[j])) \/ Settle(w, "retry")
      BY <1>1, <1>6, <2>1 DEF Lookup
    <2>3. Onward(w)
      <3>1. Goto(w, "load") /\ task'[j] = "none" => Onward(w)
        BY <1>g, <2>1 DEF CancelPc
      <3> QED BY <1>v, <1>t, <2>2, <3>1
    <2> QED BY <1>2, <1>s, <2>1, <2>3
  <1>7. CASE Load(w)
    <2>1. worker[w].pc \in SubmitPc /\ UNCHANGED <<session, task, commits>> /\ task[j] = "none"
      BY <1>1, <1>3, <1>7 DEF KnowsJob, Load, At, SubmitPc, provider
    <2>2. Goto(w, "session") \/ Settle(w, "dead") \/ Settle(w, "retry")
      BY <1>7 DEF Load
    <2>3. Onward(w)
      <3>1. Goto(w, "session") => Onward(w)
        BY <1>g, <2>1 DEF CancelPc
      <3> QED BY <1>v, <2>2, <3>1
    <2> QED BY <1>2, <1>s, <2>1, <2>3
  <1>8. CASE EnsureSession(w)
    <2>1. task[j] = "none" /\ worker[w].pc \in SubmitPc /\ UNCHANGED <<task, commits>>
      BY <1>1, <1>3, <1>8 DEF KnowsJob, EnsureSession, At, SubmitPc
    <2>2. /\ \A k \in Jobs \ {j} : session'[k] = session[k]
          /\ session'[j] \in {Absent, 0, 2}
      BY <1>1, <1>3, <1>8 DEF EnsureSession, TypeOK, SubmittedOK
    <2>3. Onward(w)
      <3>1. \A v \in {"retry", "dead"} : Settle(w, v) => Onward(w)
        BY <1>v
      <3>2. Goto(w, "append") /\ session'[j] = 0 => Onward(w)
        BY <1>g, <2>1 DEF CancelPc
      <3>3. Goto(w, "mark") => Onward(w)
        BY <1>g, <2>1 DEF CancelPc
      <3>4. \/ Goto(w, "append") /\ session'[j] = 0
            \/ Goto(w, "mark") \/ Settle(w, "dead") \/ Settle(w, "retry")
        BY <1>1, <1>3, <1>8 DEF EnsureSession, TypeOK
      <3> QED BY <3>1, <3>2, <3>3, <3>4
    <2> QED BY <1>2, <1>3, <1>f, <2>1, <2>2, <2>3 DEF SubmittedOK
  <1>9. CASE AddTurn(w)
    <2>1. /\ task[j] = "none" /\ worker[w].pc \in SubmitPc /\ UNCHANGED <<task, commits>>
          /\ session[j] \in {Absent, 0}
      BY <1>1, <1>3, <1>9 DEF KnowsJob, AddTurn, At, SubmitPc, SubmittedOK
    <2>2. /\ \A k \in Jobs \ {j} : session'[k] = session[k]
          /\ session'[j] \in {Absent, 0, 2}
      BY <1>1, <1>3, <1>9, <2>1 DEF AddTurn, TypeOK, Absent
    <2>3. Onward(w)
      <3>1. Goto(w, "mark") => Onward(w)
        BY <1>g, <2>1 DEF CancelPc
      <3>2. Goto(w, "mark") \/ Settle(w, "retry")
        BY <1>9 DEF AddTurn
      <3> QED BY <1>v, <3>1, <3>2
    <2> QED BY <1>2, <1>3, <1>f, <2>1, <2>2, <2>3 DEF SubmittedOK
  <1>10. CASE Commit(w)
    <2>1. /\ task[j] = "none" /\ worker[w].pc \in SubmitPc /\ UNCHANGED session
          /\ commits[j] = 0
      BY <1>1, <1>3, <1>10 DEF KnowsJob, Commit, At, SubmitPc, SubmittedOK
    <2>2. \/ UNCHANGED <<task, commits>>
          \/ /\ task' = [task EXCEPT ![j] = "running"]
             /\ commits' = [commits EXCEPT ![j] = @ + 1]
      BY <1>1, <1>10 DEF Commit, Committed
    <2>3. /\ \A k \in Jobs \ {j} : task'[k] = task[k] /\ commits'[k] = commits[k]
          /\ SubmittedOK(session'[j], task'[j], commits'[j])
      BY <1>3, <2>1, <2>2 DEF TypeOK, SubmittedOK
    <2>4. Onward(w)
      <3>1. Goto(w, "record") => Onward(w)
        BY <1>g, <2>1 DEF CancelPc
      <3>2. Goto(w, "record") \/ \E v \in {"retry", "dead"} : Settle(w, v)
        BY <1>10 DEF Commit
      <3> QED BY <1>v, <3>1, <3>2
    <2> QED BY <1>2, <1>f, <2>1, <2>3, <2>4
  <1>11. CASE Poll(w)
    <2>1. UNCHANGED <<session, task, commits>>
      BY <1>11 DEF Poll, provider
    <2>2. Settle(w, TaskVerdict(task[j])) \/ Settle(w, "dead") \/ Leave(w)
      BY <1>1, <1>11 DEF Poll
    <2> QED BY <1>2, <1>s, <1>v, <1>t, <1>l, <2>1, <2>2
  <1>12. CASE CancelCapture(w)
    <2>1. Cancels(w) /\ UNCHANGED <<session, task, commits>>
      BY <1>12 DEF CancelCapture, Cancels, CancelPc, At, provider
    <2>2. Goto(w, "cancelTask") \/ \E v : Settle(w, v)
      BY <1>12 DEF CancelCapture
    <2>3. Goto(w, "cancelTask") => Onward(w)
      BY <1>g, <2>1 DEF SubmitPc
    <2> QED BY <1>2, <1>s, <1>v, <2>1, <2>2, <2>3
  <1>13. CASE CancelTask(w)
    <2>1. Cancels(w)
      BY <1>13 DEF CancelTask, Cancels, CancelPc, At
    <2>2. \/ UNCHANGED task
          \/ task' = [task EXCEPT ![j] = IF @ = "running" THEN "stopping" ELSE @]
      BY <1>1, <1>13 DEF CancelTask
    <2>3. /\ \A k \in Jobs \ {j} : task'[k] = task[k]
          /\ task'[j] = "none" <=> task[j] = "none"
      BY <1>3, <2>2 DEF TypeOK
    <2>4. UNCHANGED <<session, commits>>
      BY <1>13 DEF CancelTask
    <2>5. Onward(w)
      <3>1. Goto(w, "await") => Onward(w)
        BY <1>g, <2>1 DEF SubmitPc
      <3>2. Goto(w, "await") \/ Settle(w, "retryCancel")
        BY <1>13 DEF CancelTask
      <3> QED BY <1>v, <2>1, <3>1, <3>2
    <2> QED BY <1>2, <1>3, <1>f, <2>3, <2>4, <2>5 DEF SubmittedOK
  <1>14. CASE AwaitTask(w)
    <2>1. Cancels(w) /\ UNCHANGED <<session, task, commits>>
      BY <1>14 DEF AwaitTask, Cancels, CancelPc, At, provider
    <2>2. \E v : Settle(w, v)
      BY <1>14 DEF AwaitTask
    <2> QED BY <1>2, <1>s, <1>v, <2>1, <2>2
  <1>15. CASE Abandon(w)
    <2>1. UNCHANGED <<session, task, commits>> /\ Leave(w)
      BY <1>15 DEF Abandon, provider
    <2> QED BY <1>2, <1>s, <1>l, <2>1
  <1> QED BY <1>2, <1>5, <1>6, <1>7, <1>8, <1>9, <1>10, <1>11, <1>12, <1>13, <1>14, <1>15

\* The UPDATE after the commit, and the one before it, move a worker as they should.
LEMMA MarksMove ==
    ASSUME TypeOK, TurnInv, NEW w \in Workers, MarkSubmitting(w) \/ Record(w)
    PROVE  Busy(w) /\ WorkerMoves(w)
  <1>1. PICK j : j = JobOf(w)
    OBVIOUS
  <1>2. Busy(w) /\ UNCHANGED <<session, task, commits>>
    BY DEF Busy, At, MarkSubmitting, Record, InDatabase, provider
  <1>3. /\ j \in Jobs /\ KnowsJob(w) /\ SubmittedOK(session[j], task[j], commits[j])
        /\ CancOK(row[j]) /\ row[j] \in Row /\ row \in [Jobs -> Row]
    BY <1>1, <1>2 DEF TypeOK, TurnInv, JobInv, WorkersInv, SubmittedInv, CancInv, At, JobOf,
                      Busy, Worker
  <1>4. ASSUME Onward(w), \A k \in Jobs \ {j} : row'[k] = row[k], RowStep(j)
        PROVE  WorkerMoves(w)
    BY <1>1, <1>2, <1>3, <1>4 DEF WorkerMoves
  <1>5. UNCHANGED row => RowStep(j)
    BY <1>3, SameRowStands
  <1>6. CASE UNCHANGED row /\ Leave(w)
    BY <1>2, <1>4, <1>5, <1>6, LeaveFacts DEF Onward
  <1>7. CASE MarkSubmitting(w) /\ ~(UNCHANGED row /\ Leave(w))
    <2>1. /\ At(w, "mark") /\ Current(j)
          /\ row' = [row EXCEPT ![j].status = "submitting", ![j].due = FALSE]
          /\ Goto(w, "commit")
      BY <1>1, <1>7 DEF MarkSubmitting
    <2>2. /\ row'[j] = [row[j] EXCEPT !.status = "submitting", !.due = FALSE]
          /\ \A k \in Jobs \ {j} : row'[k] = row[k]
      BY <1>3, <2>1
    <2>3. /\ row'[j].status = "submitting" /\ ~row'[j].due
          /\ row'[j].canc = row[j].canc /\ row'[j].epoch = row[j].epoch
      BY <1>3, <2>2 DEF Row
    <2>4. RowStep(j)
      BY <2>1, <2>3 DEF RowStep, Stands, CancOK, Current, Queued, Settled
    <2>5. worker'[w].pc = "commit" /\ worker'[w].job = worker[w].job
      BY <2>1, GotoFacts
    <2>6. KnowsJob(w)'
      BY <1>1, <1>2, <1>3, <2>1, <2>3, <2>5
         DEF KnowsJob, Cancels, Sits, CancelPc, Held, Leased, InCommit, Queued, At, JobOf
    <2>7. GoesOn(w)
      BY <1>1, <2>1, <2>5, <2>6 DEF GoesOn, Current, JobOf, Busy, At, SubmitPc
    <2> QED BY <1>2, <1>4, <2>1, <2>2, <2>4, <2>7, GotoFacts DEF Onward
  <1>8. CASE Record(w) /\ ~(UNCHANGED row /\ Leave(w))
    <2>1. /\ At(w, "record") /\ row[j].status \in {"submitting", "cancel_requested"}
          /\ row' = [row EXCEPT ![j].taskId = TRUE, ![j].due = FALSE,
                                ![j].status = IF row[j].canc THEN @ ELSE "processing"]
          /\ IF row[j].canc
             THEN worker' = [worker EXCEPT ![w].pc = "cancel", ![w].taskId = TRUE,
                                           ![w].status = "submitting"]
             ELSE Leave(w)
      BY <1>1, <1>8 DEF Record
    <2>2. /\ row'[j] = [row[j] EXCEPT !.taskId = TRUE, !.due = FALSE,
                                      !.status = IF row[j].canc THEN @ ELSE "processing"]
          /\ \A k \in Jobs \ {j} : row'[k] = row[k]
      BY <1>3, <2>1
    <2>3. /\ row'[j].status = IF row[j].canc THEN row[j].status ELSE "processing"
          /\ row'[j].canc = row[j].canc /\ row'[j].epoch = row[j].epoch
      BY <1>3, <2>2 DEF Row
    <2>4. RowStep(j)
      BY <1>3, <2>1, <2>3 DEF RowStep, Stands, CancOK, Queued, Settled
    <2>5. Onward(w)
      <3>1. CASE row[j].canc
        <4>1. /\ \A x \in Workers \ {w} : worker'[x] = worker[x]
              /\ worker'[w].pc = "cancel" /\ worker'[w].job = worker[w].job
          BY <2>1, <3>1 DEF TypeOK, Worker
        <4>2. KnowsJob(w)'
          BY <1>1, <2>3, <3>1, <4>1 DEF KnowsJob, Held, At, JobOf
        <4>3. GoesOn(w)
          BY <4>1, <4>2 DEF GoesOn, JobOf, Busy, At, SubmitPc
        <4> QED BY <4>1, <4>3 DEF Onward
      <3>2. CASE ~row[j].canc
        BY <2>1, <3>2, LeaveFacts DEF Onward
      <3> QED BY <3>1, <3>2
    <2> QED BY <1>2, <1>4, <2>2, <2>4, <2>5
  <1> QED BY <1>6, <1>7, <1>8

\* What the last UPDATE does to the row of a worker's job.
LEMMA SettledRow ==
    ASSUME TypeOK, NEW w \in Workers, SettleJob(w), JobOf(w) \in Jobs
    PROVE  LET j == JobOf(w) IN
           /\ \A k \in Jobs \ {j} : row'[k] = row[k]
           /\ row'[j].epoch = row[j].epoch
           /\ \/ row'[j] = row[j]
              \/ /\ Exists(j) /\ Guarded(j) /\ ~row'[j].canc
                 /\ \/ row'[j].status \in {"processing", "pending"}
                    \/ Sits(w, "complete") /\ row'[j].status = "completed"
                    \/ row'[j].status = "dead" /\ givenUp' = givenUp \cup {j}
              \/ /\ Sits(w, "cancelled") /\ Exists(j)
                 /\ row'[j].status = "cancelled" /\ row'[j].canc
              \/ /\ Sits(w, "retryCancel") /\ row[j].status \in Cancellable /\ row'[j].canc
                 /\ row'[j].status = IF row[j].status = "submitting" THEN row[j].status
                                     ELSE "cancel_requested"
           /\ givenUp' = givenUp \/ givenUp' = givenUp \cup {j}
  <1>1. PICK j : j = JobOf(w)
    OBVIOUS
  <1>2. j \in Jobs /\ row \in [Jobs -> Row] /\ row[j] \in Row
    BY <1>1 DEF TypeOK
  <1>3. ASSUME NEW r, Update(j, r)
        PROVE  row'[j] = r /\ \A k \in Jobs \ {j} : row'[k] = row[k]
    BY <1>2, <1>3 DEF Update
  <1>4. CASE CompleteJob(j) /\ Sits(w, "complete")
    <2>1. \/ row'[j] = row[j]
          \/ /\ Exists(j) /\ Guarded(j)
             /\ row'[j] = [row[j] EXCEPT !.status = "completed", !.due = TRUE]
      BY <1>3, <1>4 DEF CompleteJob
    <2>2. \A k \in Jobs \ {j} : row'[k] = row[k]
      BY <1>3, <1>4 DEF CompleteJob
    <2> QED BY <1>1, <1>2, <1>4, <2>1, <2>2 DEF CompleteJob, Guarded, Row
  <1>5. CASE DeadJob(j)
    <2>1. \/ row'[j] = row[j] /\ givenUp' = givenUp
          \/ /\ Exists(j) /\ Guarded(j) /\ givenUp' = givenUp \cup {j}
             /\ row'[j] = [row[j] EXCEPT !.status = "dead"]
      BY <1>3, <1>5 DEF DeadJob
    <2>2. \A k \in Jobs \ {j} : row'[k] = row[k]
      BY <1>3, <1>5 DEF DeadJob
    <2> QED BY <1>1, <1>2, <2>1, <2>2 DEF Guarded, Row
  <1>6. CASE CancelJob(j) /\ Sits(w, "cancelled")
    <2>1. \/ row'[j] = row[j]
          \/ /\ Exists(j)
             /\ row'[j] = [row[j] EXCEPT !.status = "cancelled", !.canc = TRUE, !.due = TRUE]
      BY <1>3, <1>6 DEF CancelJob
    <2>2. \A k \in Jobs \ {j} : row'[k] = row[k]
      BY <1>3, <1>6 DEF CancelJob
    <2> QED BY <1>1, <1>2, <1>6, <2>1, <2>2 DEF CancelJob, Row
  <1>7. CASE AdoptTask(j)
    <2>1. \/ row'[j] = row[j]
          \/ /\ Exists(j) /\ Guarded(j)
             /\ row'[j] = [row[j] EXCEPT !.status = "processing", !.taskId = TRUE, !.due = FALSE]
      BY <1>3, <1>7 DEF AdoptTask
    <2>2. \A k \in Jobs \ {j} : row'[k] = row[k]
      BY <1>3, <1>7 DEF AdoptTask
    <2> QED BY <1>1, <1>2, <1>7, <2>1, <2>2 DEF AdoptTask, Guarded, Row
  <1>8. CASE RetryJob(j, worker[w].attempts + 1) /\ ~DeadJob(j)
    <2>1. \/ row'[j] = row[j]
          \/ /\ Exists(j) /\ Guarded(j)
             /\ row'[j] = [row[j] EXCEPT !.status = "pending", !.due = FALSE,
                                         !.attempts = worker[w].attempts + 1]
      BY <1>3, <1>8 DEF RetryJob
    <2>2. \A k \in Jobs \ {j} : row'[k] = row[k]
      BY <1>3, <1>8 DEF RetryJob
    <2>3. givenUp' = givenUp
      BY <1>8 DEF RetryJob
    <2> QED BY <1>1, <1>2, <2>1, <2>2, <2>3 DEF Guarded, Row
  <1>9. CASE RetryCancellation(j) /\ Sits(w, "retryCancel")
    <2>1. \/ row'[j] = row[j]
          \/ /\ row[j].status \in Cancellable
             /\ row'[j] = [row[j] EXCEPT !.canc = TRUE, !.due = FALSE,
                                         !.status = IF @ = "submitting" THEN @
                                                    ELSE "cancel_requested"]
      BY <1>3, <1>9 DEF RetryCancellation
    <2>2. \A k \in Jobs \ {j} : row'[k] = row[k]
      BY <1>3, <1>9 DEF RetryCancellation
    <2> QED BY <1>1, <1>2, <1>9, <2>1, <2>2 DEF RetryCancellation, Row
  <1>10. \/ CompleteJob(j) /\ Sits(w, "complete")
         \/ CancelJob(j) /\ Sits(w, "cancelled")
         \/ DeadJob(j)
         \/ AdoptTask(j)
         \/ RetryJob(j, worker[w].attempts + 1)
         \/ RetryCancellation(j) /\ Sits(w, "retryCancel")
    BY <1>1 DEF SettleJob, Sits
  <1> QED BY <1>4, <1>5, <1>6, <1>7, <1>8, <1>9, <1>10

\* The last UPDATE is refused where it would undo what others have decided.
LEMMA SettleMoves ==
    ASSUME TypeOK, TurnInv, NEW w \in Workers, SettleJob(w)
    PROVE  Busy(w) /\ WorkerMoves(w)
  <1>1. PICK j : j = JobOf(w)
    OBVIOUS
  <1>2. Busy(w) /\ UNCHANGED <<session, task, commits>>
    BY DEF Busy, At, SettleJob, InDatabase, provider
  <1>3. /\ j \in Jobs /\ KnowsJob(w) /\ SubmittedOK(session[j], task[j], commits[j])
        /\ CancOK(row[j])
    BY <1>1, <1>2 DEF TypeOK, TurnInv, JobInv, WorkersInv, SubmittedInv, CancInv, At, JobOf,
                      Busy, Worker
  <1>4. row[j].canc \/ Leased(row[j])
    BY <1>1, <1>3 DEF KnowsJob, Held
  <1>5. Sits(w, "retryCancel") => row[j].canc
    BY <1>1, <1>3 DEF KnowsJob, Cancels
  <1>6. RowStep(j)
    <2>1. CASE row'[j] = row[j]
      BY <1>3, <2>1, SameRowStands
    <2>2. CASE row'[j] # row[j]
      BY <1>1, <1>3, <1>4, <1>5, <2>2, SettledRow
         DEF RowStep, Stands, CancOK, Guarded, Exists, Leased, Queued, Settled, Cancellable
    <2> QED BY <2>1, <2>2
  <1>7. Onward(w)
    BY LeaveFacts DEF SettleJob, Onward
  <1> QED BY <1>1, <1>2, <1>3, <1>6, <1>7, SettledRow DEF WorkerMoves

\* A worker claims a row: with the flag to cancel it, without it as the only one.
LEMMA ClaimKeeps ==
    ASSUME TypeOK, TurnInv, NEW w \in Workers, NEW j \in Jobs, Claim(w, j)
    PROVE  TurnInv' /\ \A k \in Jobs : RowStep(k)
  <1>0. /\ row[j] \in Row /\ row \in [Jobs -> Row] /\ CancOK(row[j])
        /\ \A x \in Workers : worker[x].pc = "idle" <=> worker[x].job = Nil
        /\ \A x \in Workers : worker[x].job \in Jobs \cup {Nil}
        /\ j # Nil
    BY NilAssumption DEF TypeOK, TurnInv, CancInv, JobInv, At, JobOf, Worker
  <1>1. /\ Claimable(row[j]) /\ ~Busy(w)
        /\ UNCHANGED <<session, task, commits>>
        /\ \A x \in Workers \ {w} : worker'[x] = worker[x]
        /\ worker'[w].pc = IF row[j].canc THEN "cancel" ELSE "route"
        /\ worker'[w].job = j
    BY <1>0 DEF Claim, TypeOK, CancOK, Busy, provider
  <1>2. /\ row' = [row EXCEPT ![j] = [row[j] EXCEPT !.due = FALSE,
                                        !.status = IF row[j].canc THEN @ ELSE "processing"]]
    BY <1>0 DEF Claim
  <1>3. /\ \A k \in Jobs \ {j} : row'[k] = row[k]
        /\ row'[j].status = IF row[j].canc THEN row[j].status ELSE "processing"
        /\ row'[j].canc = row[j].canc /\ row'[j].epoch = row[j].epoch /\ ~row'[j].due
    BY <1>0, <1>2 DEF Row
  <1>4. \A k \in Jobs : RowStep(k)
    <2>1. RowStep(j)
      BY <1>0, <1>1, <1>3
         DEF RowStep, Stands, CancOK, Claimable, Queued, Settled
    <2> QED BY <1>3, <2>1, SameRowStands DEF TurnInv, CancInv
  <1>5. ASSUME NEW x \in Workers, Busy(x), JobOf(x) = j
        PROVE  row[j].canc /\ ~At(x, "commit")
    BY <1>1, <1>5 DEF TurnInv, WorkersInv, KnowsJob, Held, Leased, InCommit, Claimable
  <1>6. JobInv'
    BY <1>0, <1>1 DEF JobInv, At, JobOf
  <1>7. CancInv' /\ SubmittedInv'
    BY <1>1, <1>4 DEF CancInv, RowStep, TurnInv, SubmittedInv
  <1>8. WorkersInv'
    <2> SUFFICES ASSUME NEW x \in Workers, Busy(x)' PROVE KnowsJob(x)'
      BY DEF WorkersInv
    <2>1. CASE x = w
      BY <1>1, <1>3, <2>1 DEF KnowsJob, Cancels, Sits, CancelPc, Held, Leased, Queued, At, JobOf
    <2>2. CASE x # w
      <3>1. Busy(x) /\ worker'[x] = worker[x] /\ KnowsJob(x) /\ JobOf(x) \in Jobs
        BY <1>0, <1>1, <2>2 DEF Busy, At, TurnInv, WorkersInv, JobOf
      <3>2. CASE JobOf(x) = j
        BY <1>1, <1>3, <1>5, <3>1, <3>2 DEF KnowsJob, Cancels, Sits, Held, At, JobOf
      <3>3. CASE JobOf(x) # j
        BY <1>1, <1>3, <3>1, <3>3 DEF KnowsJob, Cancels, Sits, Held, At, JobOf
      <3> QED BY <3>2, <3>3
    <2> QED BY <2>1, <2>2
  <1>9. PairInv'
    <2> SUFFICES ASSUME NEW x \in Workers, NEW y \in Workers, x # y, Busy(x)',
                        (JobOf(x) = JobOf(y))'
                 PROVE  Apart(x, y)'
      BY DEF PairInv
    <2>1. CASE x # w /\ y # w
      <3>1. worker'[x] = worker[x] /\ worker'[y] = worker[y] /\ Busy(x) /\ JobOf(x) = JobOf(y)
        BY <1>1, <2>1 DEF Busy, At, JobOf
      <3>2. Apart(x, y) /\ JobOf(x) \in Jobs
        BY <1>0, <3>1 DEF TurnInv, PairInv, Busy, At, JobOf
      <3>3. row'[JobOf(x)].canc
        BY <1>4, <3>2 DEF Apart, RowStep, Stands
      <3> QED BY <3>1, <3>2, <3>3 DEF Apart, JobOf, At
    <2>2. ASSUME NEW z \in Workers, z # w, worker'[z].job = j
          PROVE  Busy(z) /\ JobOf(z) = j /\ worker'[z] = worker[z]
      BY <1>0, <1>1, <2>2 DEF Busy, At, JobOf
    <2>3. CASE x = w
      <3>1. row[j].canc
        BY <1>1, <1>5, <2>2, <2>3 DEF JobOf
      <3> QED BY <1>1, <1>3, <2>3, <3>1 DEF Apart, JobOf, At, SubmitPc
    <2>4. CASE y = w
      <3>1. worker'[x].job = j /\ x # w
        BY <1>1, <2>4 DEF JobOf
      <3>2. row[j].canc /\ ~At(x, "commit") /\ worker'[x] = worker[x]
        BY <1>5, <2>2, <3>1
      <3> QED BY <1>1, <1>3, <2>4, <3>1, <3>2 DEF Apart, JobOf, At, SubmitPc
    <2> QED BY <2>1, <2>3, <2>4
  <1> QED BY <1>4, <1>6, <1>7, <1>8, <1>9 DEF TurnInv

-----------------------------------------------------------------------------
(* The steps of nobody's worker keep it, too.                                *)

\* A row changes below its workers without taking it out of their hands.
RowMoves(j) == /\ RowStep(j)
               /\ \A w \in Workers : Busy(w) /\ JobOf(w) = j => Held(w, row'[j])
RowsMove == /\ UNCHANGED <<worker, commits>>
            /\ \A j \in Jobs : /\ RowMoves(j)
                               /\ session'[j] \in {session[j], Absent}
                               /\ task'[j] = "none" <=> task[j] = "none"

\* A row that nobody touches is still its worker's.
LEMMA SameRowMoves ==
    ASSUME TypeOK, TurnInv, NEW j \in Jobs, row'[j] = row[j]
    PROVE  RowMoves(j)
  <1>1. RowStep(j)
    BY SameRowStands DEF TurnInv, CancInv
  <1>2. \A w \in Workers : Busy(w) /\ JobOf(w) = j => Held(w, row'[j])
    BY DEF TurnInv, WorkersInv, KnowsJob
  <1> QED BY <1>1, <1>2 DEF RowMoves

\* The workers go on as before; what they know of their jobs still holds.
LEMMA RowsMoveKeep ==
    ASSUME TypeOK, TurnInv, RowsMove
    PROVE  TurnInv' /\ \A j \in Jobs : RowStep(j)
  <1>0. /\ worker' = worker /\ commits' = commits
        /\ \A j \in Jobs : /\ RowStep(j)
                           /\ session'[j] \in {session[j], Absent}
                           /\ task'[j] = "none" <=> task[j] = "none"
        /\ \A w \in Workers : Busy(w) => JobOf(w) \in Jobs
    BY DEF RowsMove, RowMoves, TypeOK, TurnInv, JobInv, Busy, JobOf, At, Worker
  <1>1. JobInv' /\ CancInv'
    BY <1>0 DEF TurnInv, JobInv, CancInv, RowStep, At, JobOf
  <1>2. SubmittedInv'
    BY <1>0 DEF TurnInv, SubmittedInv, SubmittedOK
  <1>3. WorkersInv'
    <2> SUFFICES ASSUME NEW w \in Workers, Busy(w)' PROVE KnowsJob(w)'
      BY DEF WorkersInv
    <2>1. Busy(w) /\ KnowsJob(w) /\ JobOf(w) \in Jobs
      BY <1>0 DEF TurnInv, WorkersInv, Busy, At
    <2>2. Held(w, row'[JobOf(w)])
      BY <2>1 DEF RowsMove, RowMoves
    <2>3. row[JobOf(w)].canc => row'[JobOf(w)].canc
      BY <1>0, <2>1 DEF RowStep, Stands
    <2> QED BY <1>0, <2>1, <2>2, <2>3
          DEF KnowsJob, Cancels, Sits, Held, At, JobOf, Absent
  <1>4. PairInv'
    <2> SUFFICES ASSUME NEW x \in Workers, NEW y \in Workers, x # y, Busy(x)',
                        (JobOf(x) = JobOf(y))'
                 PROVE  Apart(x, y)'
      BY DEF PairInv
    <2>1. Busy(x) /\ JobOf(x) = JobOf(y) /\ JobOf(x) \in Jobs
      BY <1>0 DEF Busy, At, JobOf
    <2>2. Apart(x, y)
      BY <2>1 DEF TurnInv, PairInv
    <2> QED BY <1>0, <2>1, <2>2 DEF Apart, RowStep, Stands, At, JobOf
  <1> QED BY <1>0, <1>1, <1>2, <1>3, <1>4 DEF TurnInv

\* Scheduling, the end of a lease, the clean-up and the provider.
LEMMA JobStepsMove ==
    ASSUME TypeOK, TurnInv, NEW j \in Jobs,
           ScheduleCapture(j) \/ ExpireLease(j) \/ CleanupCaptureJob(j) \/ EndTask(j)
    PROVE  RowsMove
  <1>0. row \in [Jobs -> Row] /\ row[j] \in Row /\ CancOK(row[j])
    BY DEF TypeOK, TurnInv, CancInv
  <1>1. \A w \in Workers : Busy(w) /\ JobOf(w) = j => KnowsJob(w)
    BY DEF TurnInv, WorkersInv
  <1>2. ASSUME UNCHANGED <<provider, worker>>, RowMoves(j),
               \A k \in Jobs \ {j} : row'[k] = row[k]
        PROVE  RowsMove
    BY <1>2, SameRowMoves DEF RowsMove, provider
  <1>3. CASE ScheduleCapture(j)
    <2>1. /\ row'[j] = NewRow("pending", epoch) /\ row[j].status = "unborn"
          /\ \A k \in Jobs \ {j} : row'[k] = row[k]
      BY <1>0, <1>3 DEF ScheduleCapture
    <2>2. RowStep(j)
      BY <1>0, <2>1 DEF RowStep, Stands, CancOK, NewRow, Settled, Queued
    <2>3. \A w \in Workers : ~(Busy(w) /\ JobOf(w) = j)
      BY <1>0, <1>1, <2>1 DEF KnowsJob, Held, Leased, CancOK, Queued
    <2> QED BY <1>2, <1>3, <2>1, <2>2, <2>3 DEF RowMoves, ScheduleCapture
  <1>4. CASE ExpireLease(j)
    <2>1. /\ row'[j] = [row[j] EXCEPT !.due = TRUE]
          /\ \A k \in Jobs \ {j} : row'[k] = row[k]
      BY <1>0, <1>4 DEF ExpireLease
    <2>2. /\ row'[j].status = row[j].status /\ row'[j].canc = row[j].canc
          /\ row'[j].epoch = row[j].epoch
      BY <1>0, <2>1 DEF Row
    <2>3. RowStep(j)
      BY <1>0, <2>2 DEF RowStep, Stands, CancOK, Queued
    <2>4. \A w \in Workers : Busy(w) /\ JobOf(w) = j => row'[j].canc /\ ~At(w, "commit")
      BY <1>1, <1>4, <2>2 DEF ExpireLease, KnowsJob, Cancels, CancelPc, At
    <2> QED BY <1>2, <1>4, <2>1, <2>3, <2>4 DEF RowMoves, Held, ExpireLease
  <1>5. CASE CleanupCaptureJob(j)
    <2>1. /\ row'[j] = [row[j] EXCEPT !.status = "deleted"]
          /\ row[j].status \in {"completed", "dead"}
          /\ \A k \in Jobs \ {j} : row'[k] = row[k]
      BY <1>0, <1>5 DEF CleanupCaptureJob
    <2>2. /\ row'[j].status = "deleted" /\ row'[j].canc = row[j].canc
          /\ row'[j].epoch = row[j].epoch
      BY <1>0, <2>1 DEF Row
    <2>3. RowMoves(j)
      BY <1>0, <2>1, <2>2 DEF RowMoves, RowStep, Stands, CancOK, Queued, Held, Leased, InCommit
    <2> QED BY <1>2, <1>5, <2>1, <2>3 DEF CleanupCaptureJob
  <1>6. CASE EndTask(j)
    <2>1. \A k \in Jobs : task'[k] = "none" <=> task[k] = "none"
      BY <1>6 DEF EndTask, TypeOK, Active
    <2> QED BY <1>6, <2>1, SameRowMoves DEF EndTask, RowsMove
  <1> QED BY <1>3, <1>4, <1>5, <1>6

\* A request sets the flag of a queued row and leaves a submitting one its lease.
LEMMA RequestMoves ==
    ASSUME TypeOK, TurnInv, NEW j \in Jobs, row'[j] = Requested(row[j])
    PROVE  RowMoves(j)
  <1>0. row[j] \in Row /\ CancOK(row[j])
    BY DEF TypeOK, TurnInv, CancInv
  <1>1. CASE row[j].status \notin Queued
    BY <1>1, SameRowMoves DEF Requested
  <1>2. CASE row[j].status \in Queued
    <2>1. /\ row'[j].canc /\ row'[j].epoch = row[j].epoch
          /\ row'[j].status = IF row[j].status = "submitting" THEN "submitting"
                              ELSE "cancel_requested"
          /\ row[j].status = "submitting" => row'[j].due = row[j].due
      BY <1>0, <1>2 DEF Requested, Row
    <2>2. RowStep(j)
      BY <1>0, <1>2, <2>1 DEF RowStep, Stands, CancOK, Queued, Settled
    <2>3. ASSUME NEW w \in Workers, Busy(w), JobOf(w) = j PROVE Held(w, row'[j])
      <3>1. Held(w, row[j])
        BY <2>3 DEF TurnInv, WorkersInv, KnowsJob
      <3> QED BY <1>2, <2>1, <3>1 DEF Held, InCommit, Queued
    <2> QED BY <2>2, <2>3 DEF RowMoves
  <1> QED BY <1>1, <1>2

\* A row that goes leaves whoever is at it without one.
LEMMA DeletionMoves ==
    ASSUME TypeOK, TurnInv, NEW js, DeleteRows(js), NEW j \in Jobs
    PROVE  /\ RowMoves(j)
           /\ row'[j] = row[j] \/ (j \in js /\ row[j].status # "unborn" /\ row'[j].status = "deleted")
           /\ j \in js /\ row[j].status # "unborn" => row'[j].status = "deleted"
  <1>0. row[j] \in Row /\ CancOK(row[j])
    BY DEF TypeOK, TurnInv, CancInv
  <1>1. CASE row'[j] = row[j] /\ ~(j \in js /\ row[j].status # "unborn")
    BY <1>1, SameRowMoves
  <1>2. CASE /\ j \in js /\ row[j].status # "unborn"
             /\ row'[j] = [row[j] EXCEPT !.status = "deleted"]
    <2>1. /\ row'[j].status = "deleted" /\ row'[j].canc = row[j].canc
          /\ row'[j].epoch = row[j].epoch
      BY <1>0, <1>2 DEF Row
    <2> QED BY <1>0, <1>2, <2>1
          DEF RowMoves, RowStep, Stands, CancOK, Queued, Held, Leased, InCommit
  <1> QED BY <1>1, <1>2 DEF DeleteRows

\* Clear and Reset.
LEMMA WipesMove ==
    ASSUME TypeOK, TurnInv, NEW c \in Wipes,
           BeginClear(c) \/ BeginReset(c) \/ WipeStep(c) \/ FailWipe(c)
    PROVE  RowsMove
  <1>1. ASSUME UNCHANGED <<worker, commits, task>>,
               \A j \in Jobs : RowMoves(j) /\ session'[j] \in {session[j], Absent}
        PROVE  RowsMove
    BY <1>1 DEF RowsMove
  <1>2. ASSUME UNCHANGED <<worker, provider>>, \A j \in Jobs : RowMoves(j) PROVE RowsMove
    BY <1>1, <1>2 DEF provider
  <1>3. UNCHANGED row => \A j \in Jobs : RowMoves(j)
    BY SameRowMoves
  <1>4. CASE BeginClear(c)
    <2>1. \A j \in Jobs : row'[j] = row[j] \/ row'[j] = Requested(row[j])
      BY <1>4 DEF BeginClear
    <2> QED BY <1>2, <1>4, <2>1, SameRowMoves, RequestMoves DEF BeginClear
  <1>5. CASE BeginReset(c)
    <2>1. \A j \in Jobs : row'[j] = row[j] \/ row'[j] = Requested(row[j])
      BY <1>5 DEF BeginReset
    <2> QED BY <1>2, <1>5, <2>1, SameRowMoves, RequestMoves DEF BeginReset
  <1>6. CASE AwaitCancellation(c)
    BY <1>2, <1>3, <1>6 DEF AwaitCancellation
  <1>7. CASE ListAccounts(c)
    BY <1>2, <1>3, <1>7 DEF ListAccounts
  <1>8. CASE RemoveMemories(c)
    BY <1>1, <1>3, <1>8 DEF RemoveMemories
  <1>9. CASE CompleteResetAccount(c)
    BY <1>2, <1>3, <1>9 DEF CompleteResetAccount
  <1>10. CASE DeleteSessions(c)
    BY <1>1, <1>3, <1>10 DEF DeleteSessions
  <1>11. CASE DeleteOldJobs(c)
    BY <1>2, <1>11, DeletionMoves DEF DeleteOldJobs
  <1>12. CASE CompleteReset(c)
    <2>1. CASE account
      BY <1>2, <1>3, <1>12, <2>1 DEF CompleteReset
    <2>2. CASE ~account
      BY <1>2, <1>12, <2>2, DeletionMoves DEF CompleteReset
    <2> QED BY <2>1, <2>2
  <1>13. CASE FailWipe(c)
    BY <1>2, <1>3, <1>13 DEF FailWipe
  <1> QED BY <1>4, <1>5, <1>6, <1>7, <1>8, <1>9, <1>10, <1>11, <1>12, <1>13
        DEF WipeStep, ClearStep, ResetStep

\* Every step keeps the invariant and does to the rows only what it may.
LEMMA StepKeepsTurnInv ==
    ASSUME TypeOK, TurnInv, [Next]_vars
    PROVE  TurnInv' /\ \A j \in Jobs : RowStep(j)
  <1>r. UNCHANGED <<row, provider, worker>> => RowsMove
    BY SameRowMoves DEF RowsMove, provider
  <1>1. ASSUME NEW j \in Jobs,
               ScheduleCapture(j) \/ ExpireLease(j) \/ EndTask(j) \/ CleanupCaptureJob(j)
        PROVE  RowsMove
    BY <1>1, JobStepsMove
  <1>2. ASSUME NEW w \in Workers, NEW j \in Jobs, Claim(w, j)
        PROVE  TurnInv' /\ \A k \in Jobs : RowStep(k)
    BY <1>2, ClaimKeeps
  <1>3. ASSUME NEW w \in Workers, WorkerStep(w) \/ Abandon(w)
        PROVE  Busy(w) /\ WorkerMoves(w)
    BY <1>3, AtProviderMoves, MarksMove, SettleMoves DEF WorkerStep, SubmitStep, CancelStep
  <1>4. ASSUME NEW c \in Wipes, BeginClear(c) \/ BeginReset(c) \/ WipeStep(c) \/ FailWipe(c)
        PROVE  RowsMove
    BY <1>4, WipesMove
  <1>5. ASSUME (\E e \in BOOLEAN : SetEnabled(e)) \/ UpdateSettings \/ UNCHANGED vars
        PROVE  RowsMove
    BY <1>5, <1>r DEF SetEnabled, UpdateSettings, vars
  <1>6. \/ \E j \in Jobs : ScheduleCapture(j) \/ ExpireLease(j) \/ EndTask(j)
                           \/ CleanupCaptureJob(j)
        \/ \E w \in Workers : (\E j \in Jobs : Claim(w, j)) \/ WorkerStep(w) \/ Abandon(w)
        \/ \E c \in Wipes : BeginClear(c) \/ BeginReset(c) \/ WipeStep(c) \/ FailWipe(c)
        \/ (\E e \in BOOLEAN : SetEnabled(e)) \/ UpdateSettings \/ UNCHANGED vars
    BY Zenon DEF Next
  <1> QED BY <1>1, <1>2, <1>3, <1>4, <1>5, <1>6, RowsMoveKeep, WorkerMovesKeep

\* A turn gets to the provider once, and a cancellation stands.
LEMMA InitTurnInv ==
    ASSUME Init PROVE TypeOK /\ TurnInv
  <1>1. TypeOK
    <2>1. NewRow("unborn", 0) \in Row
      BY DEF NewRow, Row
    <2>2. Idle \in Worker
      BY DEF Idle, Worker, Pc, Verdict, Cancellable, Queued
    <2>3. [pc |-> "idle", kind |-> "clear", epoch |-> 0, targets |-> {}] \in Wipe
      BY DEF Wipe
    <2>4. row \in [Jobs -> Row] /\ worker \in [Workers -> Worker] /\ wipe \in [Wipes -> Wipe]
      BY <2>1, <2>2, <2>3 DEF Init
    <2>5. session \in [Jobs -> Nat \cup {Absent}] /\ commits \in [Jobs -> Nat]
      BY DEF Init
    <2>6. faults \in 0..MaxFaults
      BY LimitAssumption DEF Init
    <2> QED BY <2>4, <2>5, <2>6 DEF Init, TypeOK
  <1>2. TurnInv
    BY DEF Init, TurnInv, JobInv, CancInv, CancOK, WorkersInv, PairInv, SubmittedInv,
           SubmittedOK, NewRow, Idle, At, JobOf, Busy, Absent
  <1> QED BY <1>1, <1>2

\* The types of the rows, of the provider, of the workers and of the calls of Clear and
\* Reset, whatever fails.
THEOREM CaptureTypeCorrect == Spec => []TypeOK
  <1>1. Init => TypeOK /\ TurnInv
    BY InitTurnInv
  <1>2. TypeOK /\ TurnInv /\ [Next]_vars => (TypeOK /\ TurnInv)'
    BY StepTyped, StepKeepsTurnInv DEF TurnInv
  <1> QED BY <1>1, <1>2, PTL DEF Spec

\* submitJob: retried after lost answers, by whatever worker, a turn puts its two messages
\* into its session once and commits it once.
THEOREM TurnsAreSubmittedOnce == Spec => []TurnSubmittedOnce
  <1>1. Init => TypeOK /\ TurnInv
    BY InitTurnInv
  <1>2. TypeOK /\ TurnInv /\ [Next]_vars => (TypeOK /\ TurnInv)'
    BY StepTyped, StepKeepsTurnInv DEF TurnInv
  <1>3. TypeOK /\ TurnInv => TurnSubmittedOnce
    <2> SUFFICES ASSUME TurnInv, NEW j \in Jobs PROVE session[j] <= 2 /\ commits[j] <= 1
      BY DEF TurnSubmittedOnce
    <2>1. SubmittedOK(session[j], task[j], commits[j])
      BY DEF TurnInv, SubmittedInv
    <2>2. session[j] \in {-1, 0, 2} /\ commits[j] \in {0, 1}
      BY <2>1 DEF SubmittedOK, Absent
    <2> QED BY <2>2
  <1> QED BY <1>1, <1>2, <1>3, PTL DEF Spec

\* The guards of completeJob, deadJob, retryJob and adoptTask, with the leases, are enough:
\* no late UPDATE takes a cancellation back or takes a settled job up again.
THEOREM CancellationsStand == Spec => CancellationStands
  <1>1. Init => TypeOK /\ TurnInv
    BY InitTurnInv
  <1>2. TypeOK /\ TurnInv /\ [Next]_vars => (TypeOK /\ TurnInv)'
    BY StepTyped, StepKeepsTurnInv DEF TurnInv
  <1> DEFINE Standing ==
        \A j \in Jobs :
          /\ row[j].canc => row'[j].canc
          /\ row[j].canc /\ row'[j].status \in Queued =>
                row[j].status = row'[j].status /\ row[j].status = "submitting"
          /\ row[j].status \in Settled => row'[j].status \in {row[j].status, "deleted"}
  <1>3. TypeOK /\ TurnInv /\ [Next]_vars => [Standing]_vars
    BY StepKeepsTurnInv DEF RowStep, Stands
  <1> QED BY <1>1, <1>2, <1>3, PTL DEF Spec, CancellationStands

-----------------------------------------------------------------------------
(* The inductive invariant of Clear and Reset, in parts.                     *)

Quiet == Settled \cup {"deleted"}
Excepted == givenUp \cup strays

\* Nothing will write a memory of the job: its task has ended, or it has none and the
\* worker that could start one will not come.
Starts(w, j) == At(w, "commit") /\ JobOf(w) = j
Still(j) == /\ task[j] \notin Active
            /\ task[j] = "none" => row[j].canc /\ \A w \in Workers : ~Starts(w, j)

\* A job that no Clear or Reset has to care about any more.
CleanJob(j) == j \in Excepted \/ (row[j].status \in Quiet /\ j \notin memories)
Clean(js) == \A j \in js : CleanJob(j)

\* A job is settled by what has become of its task, or given up.
DeadInv == \A j \in Jobs : row[j].status = "dead" => j \in givenUp
GoneInv == \A j \in Jobs : row[j].status \in {"completed", "cancelled", "deleted"} =>
                              j \in Excepted \/ Still(j)
VerdictOK(w) == /\ Sits(w, "complete") => task[JobOf(w)] = "succeeded"
                /\ Sits(w, "cancelled") => Still(JobOf(w))
VerdictInv == \A w \in Workers : VerdictOK(w)
FateInv == DeadInv /\ GoneInv /\ VerdictInv

\* The rows are of this or an older epoch; during a Reset nothing is captured and every
\* queued job has the flag.
EpochInv == \A j \in Jobs : row[j].status \notin {"unborn", "deleted"} =>
                               row[j].epoch <= epoch
ResetInv == resetting => ~enabled /\ \A j \in Jobs : row[j].status \in Queued => row[j].canc

\* No account to delete, or no settings to make one of: no job has left anything.
AccountInv == (resetting /\ ~account) \/ ~settings => Clean(Scheduled)

\* What a Clear or Reset has reached: the jobs it covers have the flag, are quiet, are
\* clean.  One that has an account still to list or to delete finds it, or finds that
\* another Reset has cleaned up.
Flagged(c, j) == row[j].status \in Quiet
                   \/ (row[j].canc /\ (IsReset(c) \/ row[j].epoch < wipe[c].epoch))
WipeOK(c) ==
    /\ wipe[c].targets \subseteq Scheduled
    /\ WipeAt(c, "wait") => \A j \in wipe[c].targets : Flagged(c, j)
    /\ wipe[c].pc \in {"accounts", "remove"} =>
          \A j \in wipe[c].targets : row[j].status \in Quiet
    /\ wipe[c].pc \in {"checkpoint", "sessions", "rows"} =>
          \A j \in wipe[c].targets : row[j].status \in Quiet /\ CleanJob(j)
    /\ wipe[c].pc \in {"accounts", "checkpoint"} => IsReset(c)
    /\ IsReset(c) /\ wipe[c].pc \in {"wait", "accounts", "remove"} =>
          (resetting /\ account) \/ Clean(wipe[c].targets)
WipesInv == \A c \in Wipes : WipeOK(c)
ErasedInv == Clean(erased)

EraseInv == FateInv /\ EpochInv /\ ResetInv /\ AccountInv /\ WipesInv /\ ErasedInv

-----------------------------------------------------------------------------
(* A task that has ended stays so, and a still job stays still.              *)

\* What a step may do to the task of a job, to its memories and to the worker that could
\* start one.
TaskStep(j) ==
    /\ \/ task'[j] = task[j]
       \/ task[j] \in Active /\ task'[j] # "none"
       \/ task[j] = "none" /\ \E w \in Workers : Starts(w, j)
    /\ j \in memories' => j \in memories \/ task[j] \in Active
    /\ \A w \in Workers : Starts(w, j)' => Starts(w, j) \/ ~row[j].canc

\* The commit, the only call that makes a task, is out of reach of a still job.
LEMMA StillStays ==
    ASSUME NEW j \in Jobs, RowStep(j), TaskStep(j), Still(j)
    PROVE  Still(j)'
  <1>1. CASE task'[j] = task[j]
    <2>1. task[j] = "none" => row'[j].canc
      BY DEF Still, RowStep, Stands
    <2>2. ASSUME task[j] = "none", NEW w \in Workers PROVE ~Starts(w, j)'
      BY <2>2 DEF Still, TaskStep
    <2> QED BY <1>1, <2>1, <2>2 DEF Still
  <1>2. CASE task'[j] # task[j]
    BY <1>2 DEF Still, TaskStep
  <1> QED BY <1>1, <1>2

\* What no call of the provider makes of the tasks.
LEMMA SameTasks ==
    ASSUME NEW j \in Jobs, task'[j] = task[j], j \in memories' => j \in memories,
           \A w \in Workers : Starts(w, j)' => Starts(w, j) \/ ~row[j].canc
    PROVE  TaskStep(j)
  BY DEF TaskStep

\* A worker starts a task by its commit, and it gets there with a job that has no flag.
LEMMA WorkerTasks ==
    ASSUME TypeOK, TurnInv, NEW w \in Workers, WorkerStep(w) \/ Abandon(w), NEW j \in Jobs
    PROVE  TaskStep(j)
  <1>1. Busy(w) /\ WorkerMoves(w)
    BY AtProviderMoves, MarksMove, SettleMoves DEF WorkerStep, SubmitStep, CancelStep
  <1>2. JobOf(w) \in Jobs /\ KnowsJob(w)
    BY <1>1 DEF TypeOK, TurnInv, JobInv, WorkersInv, At, JobOf, Busy, Worker
  <1>3. ASSUME NEW x \in Workers, Starts(x, j)' PROVE Starts(x, j) \/ ~row[j].canc
    <2>1. CASE x = w
      <3>1. GoesOn(w)
        BY <1>1, <1>3, <2>1 DEF WorkerMoves, Onward, Starts, At, Idle
      <3> QED BY <1>3, <2>1, <3>1 DEF GoesOn, Starts
    <2>2. CASE x # w
      BY <1>1, <1>3, <2>2 DEF WorkerMoves, Onward, Starts, At, JobOf
    <2> QED BY <2>1, <2>2
  <1>s. UNCHANGED <<task, memories>> => TaskStep(j)
    BY <1>3, SameTasks
  <1>4. CASE Commit(w)
    <2>1. /\ task' = task \/ task' = [task EXCEPT ![JobOf(w)] = "running"]
          /\ memories' = memories
      BY <1>4 DEF Commit, Committed
    <2>2. task[JobOf(w)] = "none" /\ Starts(w, JobOf(w))
      BY <1>2, <1>4 DEF Commit, KnowsJob, Starts, At
    <2>3. CASE j = JobOf(w)
      BY <1>3, <2>1, <2>2, <2>3 DEF TaskStep
    <2>4. CASE j # JobOf(w)
      BY <1>3, <2>1, <2>4, SameTasks DEF TypeOK
    <2> QED BY <2>3, <2>4
  <1>5. CASE CancelTask(w)
    <2>1. /\ \/ task' = task
             \/ task' = [task EXCEPT ![JobOf(w)] = IF @ = "running" THEN "stopping" ELSE @]
          /\ memories' = memories
      BY <1>5 DEF CancelTask
    <2>2. task'[j] = task[j] \/ (task[j] \in Active /\ task'[j] # "none")
      BY <2>1 DEF TypeOK, Active
    <2> QED BY <1>3, <2>1, <2>2 DEF TaskStep
  <1>6. CASE Abandon(w)
    BY <1>6, <1>s DEF Abandon, provider
  <1>7. CASE Route(w) \/ Lookup(w) \/ Load(w) \/ Poll(w) \/ CancelCapture(w) \/ AwaitTask(w)
    BY <1>7, <1>s DEF Route, Lookup, Load, Poll, CancelCapture, AwaitTask, provider
  <1>8. CASE EnsureSession(w) \/ AddTurn(w)
    BY <1>8, <1>s DEF EnsureSession, AddTurn
  <1>9. CASE MarkSubmitting(w) \/ Record(w) \/ SettleJob(w)
    BY <1>9, <1>s DEF MarkSubmitting, Record, SettleJob, InDatabase, provider
  <1> QED BY <1>4, <1>5, <1>6, <1>7, <1>8, <1>9 DEF WorkerStep, SubmitStep, CancelStep

\* Nobody else starts one; the provider ends it.
LEMMA TaskSteps ==
    ASSUME TypeOK, TurnInv, [Next]_vars, NEW j \in Jobs
    PROVE  TaskStep(j)
  <1>s. ASSUME UNCHANGED worker, task'[j] = task[j], j \in memories' => j \in memories
        PROVE  TaskStep(j)
    BY <1>s, SameTasks DEF Starts, At, JobOf
  <1>1. ASSUME NEW k \in Jobs, ScheduleCapture(k) \/ ExpireLease(k) \/ CleanupCaptureJob(k)
        PROVE  TaskStep(j)
    BY <1>1, <1>s DEF ScheduleCapture, ExpireLease, CleanupCaptureJob, provider
  <1>2. ASSUME NEW k \in Jobs, EndTask(k) PROVE TaskStep(j)
    <2>1. CASE j = k
      <3>1. task[j] \in Active /\ task'[j] # "none" /\ worker' = worker
        BY <1>2, <2>1 DEF EndTask, TypeOK
      <3> QED BY <3>1 DEF TaskStep, Starts, At, JobOf
    <2>2. CASE j # k
      <3>1. task'[j] = task[j] /\ worker' = worker /\ (j \in memories' => j \in memories)
        BY <1>2, <2>2 DEF EndTask, TypeOK
      <3> QED BY <1>s, <3>1
    <2> QED BY <2>1, <2>2
  <1>3. ASSUME NEW w \in Workers, NEW k \in Jobs, Claim(w, k) PROVE TaskStep(j)
    <2>1. /\ UNCHANGED <<task, memories>>
          /\ \A x \in Workers \ {w} : worker'[x] = worker[x]
          /\ worker'[w].pc \in {"cancel", "route"}
      BY <1>3 DEF Claim, TypeOK, provider
    <2>2. \A x \in Workers : Starts(x, j)' => Starts(x, j)
      BY <2>1 DEF Starts, At, JobOf
    <2> QED BY <2>1, <2>2, SameTasks
  <1>4. ASSUME NEW w \in Workers, WorkerStep(w) \/ Abandon(w) PROVE TaskStep(j)
    BY <1>4, WorkerTasks
  <1>5. ASSUME NEW c \in Wipes, BeginClear(c) \/ BeginReset(c) \/ WipeStep(c) \/ FailWipe(c)
        PROVE  TaskStep(j)
    <2>1. worker' = worker /\ task' = task
      BY <1>5 DEF BeginClear, BeginReset, WipeStep, ClearStep, ResetStep, FailWipe,
                  AwaitCancellation, ListAccounts, RemoveMemories, CompleteResetAccount,
                  DeleteSessions, DeleteOldJobs, CompleteReset, provider
    <2>2. memories' = memories \/ memories' = {}
      BY <1>5 DEF BeginClear, BeginReset, WipeStep, ClearStep, ResetStep, FailWipe,
                  AwaitCancellation, ListAccounts, RemoveMemories, CompleteResetAccount,
                  DeleteSessions, DeleteOldJobs, CompleteReset, provider
    <2> QED BY <1>s, <2>1, <2>2
  <1>6. ASSUME (\E e \in BOOLEAN : SetEnabled(e)) \/ UpdateSettings \/ UNCHANGED vars
        PROVE  TaskStep(j)
    BY <1>6, <1>s DEF SetEnabled, UpdateSettings, vars, provider
  <1>7. \/ \E k \in Jobs : ScheduleCapture(k) \/ ExpireLease(k) \/ EndTask(k)
                           \/ CleanupCaptureJob(k)
        \/ \E w \in Workers : (\E k \in Jobs : Claim(w, k)) \/ WorkerStep(w) \/ Abandon(w)
        \/ \E c \in Wipes : BeginClear(c) \/ BeginReset(c) \/ WipeStep(c) \/ FailWipe(c)
        \/ (\E e \in BOOLEAN : SetEnabled(e)) \/ UpdateSettings \/ UNCHANGED vars
    BY Zenon DEF Next
  <1> QED BY <1>1, <1>2, <1>3, <1>4, <1>5, <1>6, <1>7

-----------------------------------------------------------------------------
(* How a job ends.                                                           *)

\* What a step may do to a row and to the exceptions: a job is given up as it is declared
\* dead, completed or cancelled when it is still, and deleted when it was settled or as
\* an exception.
EndStep(j) ==
    /\ (j \in givenUp => j \in givenUp') /\ (j \in strays => j \in strays')
    /\ row'[j].status = "dead" => row[j].status = "dead" \/ j \in givenUp'
    /\ row'[j].status \in {"completed", "cancelled"} =>
          row'[j].status = row[j].status \/ Still(j)
    /\ row'[j].status = "deleted" => row[j].status \in Quiet \/ j \in strays'
    /\ row[j].status = "unborn" => row'[j].status = "unborn" \/ ScheduleCapture(j)

\* A row that keeps its status is not an end.
LEMMA SameStatusEnds ==
    ASSUME NEW j \in Jobs, row'[j].status = row[j].status, givenUp \subseteq givenUp',
           strays \subseteq strays'
    PROVE  EndStep(j)
  BY DEF EndStep, Quiet

\* Nor is one that is taken up, marked or asked to cancel.
LEMMA OpenStatusEnds ==
    ASSUME NEW j \in Jobs, row'[j].status \in Cancellable, row[j].status # "unborn",
           givenUp \subseteq givenUp', strays \subseteq strays'
    PROVE  EndStep(j)
  BY DEF EndStep, Cancellable, Queued

\* The UPDATEs of a worker: complete and cancelled rest on what it has seen of the task.
LEMMA WorkerEnds ==
    ASSUME TypeOK, TurnInv, VerdictInv, NEW w \in Workers, WorkerStep(w) \/ Abandon(w),
           NEW j \in Jobs
    PROVE  EndStep(j)
  <1>1. Busy(w) /\ WorkerMoves(w)
    BY AtProviderMoves, MarksMove, SettleMoves DEF WorkerStep, SubmitStep, CancelStep
  <1>2. JobOf(w) \in Jobs /\ KnowsJob(w) /\ CancOK(row[JobOf(w)])
    BY <1>1 DEF TypeOK, TurnInv, JobInv, WorkersInv, CancInv, At, JobOf, Busy, Worker
  <1>3. row[JobOf(w)].status # "unborn"
    BY <1>2 DEF KnowsJob, Held, CancOK, Leased, Queued
  <1>4. strays' = strays
    BY DEF WorkerStep, SubmitStep, CancelStep, Route, Lookup, Load, EnsureSession, AddTurn,
           MarkSubmitting, Commit, Record, Poll, CancelCapture, CancelTask, AwaitTask,
           SettleJob, Abandon, AtProvider, InDatabase, history
  <1>5. CASE MarkSubmitting(w) \/ Record(w)
    <2>1. givenUp' = givenUp
      BY <1>5 DEF MarkSubmitting, Record
    <2>2. CASE j # JobOf(w)
      BY <1>1, <1>4, <2>1, <2>2, SameStatusEnds DEF WorkerMoves
    <2>3. CASE row' = row
      BY <1>4, <2>1, <2>3, SameStatusEnds
    <2>4. CASE j = JobOf(w) /\ row' # row
      <3>1. row'[j].status \in Cancellable
        BY <1>2, <1>5, <2>4 DEF MarkSubmitting, Record, TypeOK, Row, Cancellable, Queued
      <3> QED BY <1>3, <1>4, <2>1, <2>4, <3>1, OpenStatusEnds
    <2> QED BY <2>2, <2>3, <2>4
  <1>6. CASE SettleJob(w)
    <2>1. givenUp \subseteq givenUp'
      BY <1>2, <1>6, SettledRow
    <2>2. CASE j # JobOf(w)
      BY <1>1, <1>4, <2>1, <2>2, SameStatusEnds DEF WorkerMoves
    <2>3. CASE j = JobOf(w) /\ row'[j].status = row[j].status
      BY <1>4, <2>1, <2>3, SameStatusEnds
    <2>4. CASE j = JobOf(w) /\ row'[j].status \in Cancellable
      BY <1>3, <1>4, <2>1, <2>4, OpenStatusEnds
    <2>5. CASE j = JobOf(w) /\ row'[j].status = "dead" /\ givenUp' = givenUp \cup {j}
      BY <1>3, <1>4, <2>5 DEF EndStep
    <2>6. CASE j = JobOf(w) /\ row'[j].status = "completed" /\ Sits(w, "complete")
      <3>1. Still(j)
        BY <2>6 DEF VerdictInv, VerdictOK, Still, Active
      <3> QED BY <1>3, <1>4, <2>1, <2>6, <3>1 DEF EndStep
    <2>7. CASE j = JobOf(w) /\ row'[j].status = "cancelled" /\ Sits(w, "cancelled")
      <3>1. Still(j)
        BY <2>7 DEF VerdictInv, VerdictOK
      <3> QED BY <1>3, <1>4, <2>1, <2>7, <3>1 DEF EndStep
    <2> QED BY <1>2, <1>6, <2>2, <2>3, <2>4, <2>5, <2>6, <2>7, SettledRow
            DEF Cancellable, Queued
  <1>7. CASE \/ Route(w) \/ Lookup(w) \/ Load(w) \/ EnsureSession(w) \/ AddTurn(w)
             \/ Commit(w) \/ Poll(w) \/ CancelCapture(w) \/ CancelTask(w) \/ AwaitTask(w)
             \/ Abandon(w)
    <2>1. row' = row /\ givenUp' = givenUp
      BY <1>7 DEF Route, Lookup, Load, EnsureSession, AddTurn, Commit, Poll, CancelCapture,
                  CancelTask, AwaitTask, Abandon, AtProvider, history
    <2> QED BY <1>4, <2>1, SameStatusEnds
  <1> QED BY <1>5, <1>6, <1>7 DEF WorkerStep, SubmitStep, CancelStep

\* Clear and Reset delete settled rows, and others as strays.
LEMMA WipeEnds ==
    ASSUME TypeOK, TurnInv, WipesInv, NEW c \in Wipes,
           BeginClear(c) \/ BeginReset(c) \/ WipeStep(c) \/ FailWipe(c), NEW j \in Jobs
    PROVE  EndStep(j)
  <1>0. givenUp' = givenUp
    BY DEF BeginClear, BeginReset, WipeStep, ClearStep, ResetStep, FailWipe,
           AwaitCancellation, ListAccounts, RemoveMemories, CompleteResetAccount,
           DeleteSessions, DeleteOldJobs, CompleteReset, history
  <1>1. ASSUME row' = row, strays \subseteq strays' PROVE EndStep(j)
    BY <1>0, <1>1, SameStatusEnds
  <1>2. CASE BeginClear(c) \/ BeginReset(c)
    <2>1. strays' = strays /\ (row'[j] = row[j] \/ row'[j] = Requested(row[j]))
      BY <1>2 DEF BeginClear, BeginReset, history
    <2>2. row'[j].status = row[j].status
            \/ (row[j].status \in Queued /\ row'[j].status \in Cancellable)
      BY <2>1 DEF Requested, TypeOK, Row, Cancellable, Queued
    <2> QED BY <1>0, <2>1, <2>2, SameStatusEnds, OpenStatusEnds DEF Queued
  <1>3. ASSUME NEW js, DeleteRows(js), Overrun(c, js), WipeAt(c, "rows") PROVE EndStep(j)
    <2>1. CASE row'[j] = row[j]
      BY <1>0, <1>3, <2>1, SameStatusEnds DEF Overrun
    <2>2. CASE j \in js /\ row[j].status # "unborn" /\ row'[j].status = "deleted"
      <3>1. row[j].status \in Quiet \/ j \in strays'
        BY <1>3, <2>2 DEF WipesInv, WipeOK, WipeAt, Overrun, Scheduled
      <3> QED BY <1>0, <1>3, <2>2, <3>1 DEF EndStep, Overrun
    <2> QED BY <1>3, <2>1, <2>2, DeletionMoves
  <1>4. CASE DeleteOldJobs(c)
    BY <1>3, <1>4 DEF DeleteOldJobs
  <1>5. CASE CompleteReset(c)
    BY <1>1, <1>3, <1>5 DEF CompleteReset
  <1>6. CASE CompleteResetAccount(c)
    BY <1>1, <1>6 DEF CompleteResetAccount, Overrun
  <1>7. CASE \/ AwaitCancellation(c) \/ ListAccounts(c) \/ RemoveMemories(c)
             \/ DeleteSessions(c) \/ FailWipe(c)
    BY <1>1, <1>7 DEF AwaitCancellation, ListAccounts, RemoveMemories, DeleteSessions,
                      FailWipe, history
  <1> QED BY <1>2, <1>4, <1>5, <1>6, <1>7 DEF WipeStep, ClearStep, ResetStep

\* Whatever the step.
LEMMA EndSteps ==
    ASSUME TypeOK, TurnInv, VerdictInv, WipesInv, [Next]_vars, NEW j \in Jobs
    PROVE  EndStep(j)
  <1>0. row \in [Jobs -> Row] /\ row[j] \in Row
    BY DEF TypeOK
  <1>1. ASSUME NEW k \in Jobs, ScheduleCapture(k) PROVE EndStep(j)
    <2>1. CASE j = k
      BY <1>0, <1>1, <2>1 DEF ScheduleCapture, history, EndStep, NewRow
    <2>2. CASE j # k
      BY <1>0, <1>1, <2>2, SameStatusEnds DEF ScheduleCapture, history
    <2> QED BY <2>1, <2>2
  <1>2. ASSUME NEW k \in Jobs, ExpireLease(k) PROVE EndStep(j)
    BY <1>0, <1>2, SameStatusEnds DEF ExpireLease, history, Row
  <1>3. ASSUME NEW k \in Jobs, CleanupCaptureJob(k) PROVE EndStep(j)
    <2>1. CASE j = k
      <3>1. row[j].status \in Quiet \ {"unborn"} /\ row'[j].status = "deleted"
        BY <1>0, <1>3, <2>1 DEF CleanupCaptureJob, Quiet, Settled, Row
      <3> QED BY <1>3, <3>1 DEF EndStep, CleanupCaptureJob, history
    <2>2. CASE j # k
      BY <1>0, <1>3, <2>2, SameStatusEnds DEF CleanupCaptureJob, history
    <2> QED BY <2>1, <2>2
  <1>4. ASSUME NEW k \in Jobs, EndTask(k) PROVE EndStep(j)
    BY <1>4, SameStatusEnds DEF EndTask, history
  <1>5. ASSUME NEW w \in Workers, NEW k \in Jobs, Claim(w, k) PROVE EndStep(j)
    <2>1. UNCHANGED <<givenUp, strays>> /\ row[k].status # "unborn"
      BY <1>5 DEF Claim, Claimable, history
    <2>2. row'[j].status = row[j].status \/ (j = k /\ row'[j].status \in Cancellable)
      BY <1>0, <1>5 DEF Claim, Row, Cancellable, Queued
    <2> QED BY <2>1, <2>2, SameStatusEnds, OpenStatusEnds
  <1>6. ASSUME NEW w \in Workers, WorkerStep(w) \/ Abandon(w) PROVE EndStep(j)
    BY <1>6, WorkerEnds
  <1>7. ASSUME NEW c \in Wipes, BeginClear(c) \/ BeginReset(c) \/ WipeStep(c) \/ FailWipe(c)
        PROVE  EndStep(j)
    BY <1>7, WipeEnds
  <1>8. ASSUME (\E e \in BOOLEAN : SetEnabled(e)) \/ UpdateSettings \/ UNCHANGED vars
        PROVE  EndStep(j)
    BY <1>8, SameStatusEnds DEF SetEnabled, UpdateSettings, vars, history
  <1>9. \/ \E k \in Jobs : ScheduleCapture(k) \/ ExpireLease(k) \/ EndTask(k)
                           \/ CleanupCaptureJob(k)
        \/ \E w \in Workers : (\E k \in Jobs : Claim(w, k)) \/ WorkerStep(w) \/ Abandon(w)
        \/ \E c \in Wipes : BeginClear(c) \/ BeginReset(c) \/ WipeStep(c) \/ FailWipe(c)
        \/ (\E e \in BOOLEAN : SetEnabled(e)) \/ UpdateSettings \/ UNCHANGED vars
    BY Zenon DEF Next
  <1> QED BY <1>1, <1>2, <1>3, <1>4, <1>5, <1>6, <1>7, <1>8, <1>9

\* A worker that has made up its mind has seen the task's end, or cancels a job that
\* nobody else submits.
LEMMA VerdictFound ==
    ASSUME TypeOK, TurnInv, NEW w \in Workers, WorkerStep(w) \/ Abandon(w)
    PROVE  /\ Busy(w)
           /\ Sits(w, "complete")' => task[JobOf(w)] = "succeeded"
           /\ Sits(w, "cancelled")' => Still(JobOf(w))
           /\ worker'[w] = Idle \/ JobOf(w)' = JobOf(w)
  <1>0. PICK j : j = JobOf(w)
    OBVIOUS
  <1>1. Busy(w) /\ WorkerMoves(w)
    BY AtProviderMoves, MarksMove, SettleMoves DEF WorkerStep, SubmitStep, CancelStep
  <1>2. j \in Jobs /\ KnowsJob(w)
    BY <1>0, <1>1 DEF TypeOK, TurnInv, JobInv, WorkersInv, At, JobOf, Busy, Worker
  <1>3. worker'[w] = Idle \/ JobOf(w)' = JobOf(w)
    BY <1>1 DEF WorkerMoves, Onward, GoesOn
  <1>g. ASSUME NEW pc, Goto(w, pc), pc # "settle"
        PROVE  ~Sits(w, "complete")' /\ ~Sits(w, "cancelled")'
    BY <1>g, GotoFacts DEF Sits, At
  <1>l. ASSUME Leave(w)
        PROVE  ~Sits(w, "complete")' /\ ~Sits(w, "cancelled")'
    BY <1>l, LeaveFacts DEF Sits, At, Idle
  <1>v. ASSUME NEW v, Settle(w, v),
               v = "complete" => task[j] = "succeeded",
               v = "cancelled" => Still(j)
        PROVE  /\ Sits(w, "complete")' => task[j] = "succeeded"
               /\ Sits(w, "cancelled")' => Still(j)
    BY <1>v, SettleFacts DEF Sits
  <1>t. /\ TaskVerdict(task[j]) = "complete" => task[j] = "succeeded"
        /\ TaskVerdict(task[j]) = "cancelled" => Still(j)
    BY DEF TaskVerdict, Still, Active
  <1>c. ASSUME Cancels(w), ~At(w, "settle"), task[j] \notin Active PROVE Still(j)
    <2>1. row[j].canc
      BY <1>0, <1>2, <1>c DEF KnowsJob
    <2>2. ASSUME NEW x \in Workers, Starts(x, j) PROVE FALSE
      <3>1. x # w
        BY <1>c, <2>2 DEF Starts, At, Cancels, CancelPc, Sits
      <3>2. Busy(x) /\ JobOf(x) = JobOf(w)
        BY <1>0, <2>2 DEF Starts, Busy, At
      <3> QED BY <2>2, <3>1, <3>2 DEF TurnInv, PairInv, Apart, Starts
    <2> QED BY <1>c, <2>1, <2>2 DEF Still
  <1>4. CASE Lookup(w) \/ Poll(w)
    <2>1. \/ \E pc : pc # "settle" /\ Goto(w, pc)
          \/ Settle(w, TaskVerdict(task[j]))
          \/ \E v : v \notin {"complete", "cancelled"} /\ Settle(w, v)
          \/ Leave(w)
      BY <1>0, <1>4 DEF Lookup, Poll
    <2> QED BY <1>0, <1>1, <1>3, <1>g, <1>l, <1>v, <1>t, <2>1
  <1>5. CASE CancelCapture(w) \/ AwaitTask(w)
    <2>1. Cancels(w) /\ ~At(w, "settle")
      BY <1>5 DEF CancelCapture, AwaitTask, Cancels, CancelPc, At
    <2>2. \/ Goto(w, "cancelTask") \/ Settle(w, "retryCancel")
          \/ task[j] \notin Active /\ Settle(w, "cancelled")
      BY <1>0, <1>2, <1>5
         DEF CancelCapture, AwaitTask, TypeOK, Active, Ended
    <2> QED BY <1>0, <1>1, <1>3, <1>c, <1>g, <1>v, <2>1, <2>2
  <1>6. CASE Route(w) \/ Load(w) \/ EnsureSession(w) \/ AddTurn(w) \/ Commit(w) \/ CancelTask(w)
    <2>1. \/ \E pc : pc # "settle" /\ Goto(w, pc)
          \/ \E v : v \notin {"complete", "cancelled"} /\ Settle(w, v)
          \/ Leave(w)
      BY <1>6 DEF Route, Load, EnsureSession, AddTurn, Commit, CancelTask
    <2> QED BY <1>0, <1>1, <1>3, <1>g, <1>l, <1>v, <2>1
  <1>7. CASE MarkSubmitting(w) \/ SettleJob(w) \/ Abandon(w)
    <2>1. Goto(w, "commit") \/ Leave(w)
      BY <1>7 DEF MarkSubmitting, SettleJob, Abandon
    <2> QED BY <1>0, <1>1, <1>3, <1>g, <1>l, <2>1
  <1>8. CASE Record(w)
    <2>1. \/ Leave(w)
          \/ worker' = [worker EXCEPT ![w].pc = "cancel", ![w].taskId = TRUE,
                                      ![w].status = "submitting"]
      BY <1>8 DEF Record
    <2>2. CASE worker' = [worker EXCEPT ![w].pc = "cancel", ![w].taskId = TRUE,
                                        ![w].status = "submitting"]
      <3>1. worker'[w].pc = "cancel"
        BY <2>2 DEF TypeOK, Worker
      <3> QED BY <1>1, <1>3, <3>1 DEF Sits, At
    <2> QED BY <1>0, <1>1, <1>3, <1>l, <2>1, <2>2
  <1> QED BY <1>4, <1>5, <1>6, <1>7, <1>8 DEF WorkerStep, SubmitStep, CancelStep

\* The other steps leave the workers alone, and Claim gives one no verdict.
LEMMA VerdictSteps ==
    ASSUME TypeOK, TurnInv, [Next]_vars, NEW w \in Workers
    PROVE  \/ worker'[w] = worker[w]
           \/ /\ Sits(w, "complete")' => task[JobOf(w)'] = "succeeded"
              /\ Sits(w, "cancelled")' => Still(JobOf(w)')
  <1>1. ASSUME NEW k \in Jobs, ScheduleCapture(k) \/ ExpireLease(k) \/ EndTask(k)
                               \/ CleanupCaptureJob(k)
        PROVE  worker' = worker
    BY <1>1 DEF ScheduleCapture, ExpireLease, EndTask, CleanupCaptureJob
  <1>2. ASSUME NEW x \in Workers, NEW k \in Jobs, Claim(x, k)
        PROVE  worker'[w] = worker[w] \/ ~At(w, "settle")'
    BY <1>2 DEF Claim, TypeOK, At
  <1>3. ASSUME NEW x \in Workers, WorkerStep(x) \/ Abandon(x), x # w
        PROVE  worker'[w] = worker[w]
    BY <1>3, AtProviderMoves, MarksMove, SettleMoves
       DEF WorkerStep, SubmitStep, CancelStep, WorkerMoves, Onward
  <1>4. ASSUME WorkerStep(w) \/ Abandon(w)
        PROVE  /\ Sits(w, "complete")' => task[JobOf(w)'] = "succeeded"
               /\ Sits(w, "cancelled")' => Still(JobOf(w)')
    <2>1. /\ Sits(w, "complete")' => task[JobOf(w)] = "succeeded"
          /\ Sits(w, "cancelled")' => Still(JobOf(w))
          /\ worker'[w] = Idle \/ JobOf(w)' = JobOf(w)
      BY <1>4, VerdictFound
    <2>2. worker'[w] = Idle => ~Sits(w, "complete")' /\ ~Sits(w, "cancelled")'
      BY DEF Sits, At, Idle
    <2> QED BY <2>1, <2>2
  <1>5. ASSUME NEW c \in Wipes, BeginClear(c) \/ BeginReset(c) \/ WipeStep(c) \/ FailWipe(c)
        PROVE  worker' = worker
    BY <1>5 DEF BeginClear, BeginReset, WipeStep, ClearStep, ResetStep, FailWipe,
                AwaitCancellation, ListAccounts, RemoveMemories, CompleteResetAccount,
                DeleteSessions, DeleteOldJobs, CompleteReset
  <1>6. ASSUME (\E e \in BOOLEAN : SetEnabled(e)) \/ UpdateSettings \/ UNCHANGED vars
        PROVE  worker' = worker
    BY <1>6 DEF SetEnabled, UpdateSettings, vars
  <1>7. \/ \E k \in Jobs : ScheduleCapture(k) \/ ExpireLease(k) \/ EndTask(k)
                           \/ CleanupCaptureJob(k)
        \/ \E x \in Workers : (\E k \in Jobs : Claim(x, k)) \/ WorkerStep(x) \/ Abandon(x)
        \/ \E c \in Wipes : BeginClear(c) \/ BeginReset(c) \/ WipeStep(c) \/ FailWipe(c)
        \/ (\E e \in BOOLEAN : SetEnabled(e)) \/ UpdateSettings \/ UNCHANGED vars
    BY Zenon DEF Next
  <1> QED BY <1>1, <1>2, <1>3, <1>4, <1>5, <1>6, <1>7 DEF Sits

\* A job that was settled has no task, or is given up.
LEMMA FateKept ==
    ASSUME TypeOK, TurnInv, FateInv, WipesInv, [Next]_vars
    PROVE  FateInv'
  <1>1. \A j \in Jobs : RowStep(j)
    BY StepKeepsTurnInv
  <1>2. \A j \in Jobs : TaskStep(j)
    BY TaskSteps
  <1>3. \A j \in Jobs : EndStep(j)
    BY EndSteps DEF FateInv
  <1>4. ASSUME NEW j \in Jobs, Still(j) PROVE Still(j)'
    BY <1>1, <1>2, <1>4, StillStays
  <1>5. DeadInv'
    BY <1>3 DEF FateInv, DeadInv, EndStep
  <1>6. GoneInv'
    <2> SUFFICES ASSUME NEW j \in Jobs,
                        row'[j].status \in {"completed", "cancelled", "deleted"},
                        j \notin Excepted'
                 PROVE  Still(j)'
      BY DEF GoneInv
    <2>1. j \notin Excepted
      BY <1>3 DEF Excepted, EndStep
    <2>2. row[j].status \in {"completed", "cancelled", "deleted"} \/ Still(j)
      BY <1>3, <2>1 DEF EndStep, Quiet, Settled, Excepted, FateInv, DeadInv
    <2> QED BY <1>4, <2>1, <2>2 DEF FateInv, GoneInv
  <1>7. VerdictInv'
    <2> SUFFICES ASSUME NEW w \in Workers PROVE VerdictOK(w)'
      BY DEF VerdictInv
    <2>1. /\ Sits(w, "complete")' => task[JobOf(w)'] = "succeeded"
          /\ Sits(w, "cancelled")' => Still(JobOf(w)')
      <3>1. CASE worker'[w] = worker[w]
        BY <3>1 DEF FateInv, VerdictInv, VerdictOK, Sits, At, JobOf
      <3> QED BY <3>1, VerdictSteps
    <2>2. PICK j : j = JobOf(w)'
      OBVIOUS
    <2>3. At(w, "settle")' => j \in Jobs
      BY <2>2, StepKeepsTurnInv, StepTyped DEF TurnInv, JobInv, TypeOK, At, JobOf, Worker
    <2>4. Sits(w, "complete")' => task'[j] = "succeeded"
      BY <1>2, <2>1, <2>2, <2>3 DEF Sits, TaskStep, Active
    <2>5. Sits(w, "cancelled")' => Still(j)'
      BY <1>4, <2>1, <2>2, <2>3 DEF Sits
    <2> QED BY <2>2, <2>4, <2>5 DEF VerdictOK, Still, Starts
  <1> QED BY <1>5, <1>6, <1>7 DEF FateInv

-----------------------------------------------------------------------------
(* Clear and Reset keep track of what they cover.                            *)

\* What no step takes back: a scheduled job stays one and keeps its epoch, and it stays
\* flagged, quiet and clean.
Keeps(j) ==
    /\ row[j].status # "unborn" => row'[j].status # "unborn" /\ row'[j].epoch = row[j].epoch
    /\ row[j].canc => row'[j].canc
    /\ row[j].status \in Quiet => row'[j].status \in Quiet
    /\ CleanJob(j) => CleanJob(j)'

\* Every step keeps all this: a job that is quiet and no exception has no task left to
\* write its memories.
LEMMA AllKeep ==
    ASSUME TypeOK, TurnInv, FateInv, WipesInv, [Next]_vars, NEW j \in Jobs
    PROVE  RowStep(j) /\ EndStep(j) /\ Keeps(j)
  <1>1. RowStep(j) /\ TaskStep(j) /\ EndStep(j)
    BY StepKeepsTurnInv, TaskSteps, EndSteps DEF FateInv
  <1>2. row[j].status \in Quiet => row'[j].status \in Quiet
    BY <1>1 DEF RowStep, Stands, Quiet
  <1>3. ASSUME CleanJob(j) PROVE CleanJob(j)'
    <2>1. CASE j \in Excepted
      BY <1>1, <2>1 DEF EndStep, Excepted, CleanJob
    <2>2. CASE j \notin Excepted
      <3>1. row[j].status \in Quiet /\ j \notin memories
        BY <1>3, <2>2 DEF CleanJob
      <3>2. Still(j)
        BY <2>2, <3>1 DEF FateInv, DeadInv, GoneInv, Quiet, Settled, Excepted
      <3>3. j \notin memories'
        BY <1>1, <3>1, <3>2 DEF TaskStep, Still
      <3> QED BY <1>2, <3>1, <3>3 DEF CleanJob
    <2> QED BY <2>1, <2>2
  <1> QED BY <1>1, <1>2, <1>3 DEF Keeps, RowStep, Stands

\* A queued job with the flag was one before, unless it has just been scheduled.
LEMMA FlagsStay ==
    ASSUME TypeOK, TurnInv, NEW j \in Jobs, RowStep(j), EndStep(j), ~ScheduleCapture(j),
           row[j].status \in Queued => row[j].canc
    PROVE  row'[j].status \in Queued => row'[j].canc
  <1>1. row[j] \in Row /\ CancOK(row[j])
    BY DEF TypeOK, TurnInv, CancInv
  <1>2. CASE row[j].canc
    BY <1>2 DEF RowStep, Stands
  <1>3. CASE ~row[j].canc
    <2>1. row[j].status \in {"unborn", "deleted"} \cup Settled
      BY <1>1, <1>3 DEF CancOK, Row, Cancellable
    <2> QED BY <2>1 DEF RowStep, Stands, EndStep, Settled, Queued
  <1> QED BY <1>2, <1>3

\* A Clear or Reset that does not move stays where it is, whoever else deletes the account
\* or completes the Reset.
LEMMA RestingWipe ==
    ASSUME NEW c \in Wipes, WipeOK(c), wipe'[c] = wipe[c], wipe[c].targets \subseteq Jobs,
           \A j \in Jobs : Keeps(j),
           resetting /\ account => \/ resetting' /\ account'
                                   \/ \A j \in Scheduled : CleanJob(j)'
    PROVE  WipeOK(c)'
  <1>1. wipe[c].targets \subseteq Scheduled'
    BY DEF WipeOK, Scheduled, Keeps
  <1>2. ASSUME NEW j \in wipe[c].targets, Flagged(c, j) PROVE Flagged(c, j)'
    <2>1. row[j].status # "unborn" /\ Keeps(j)
      BY DEF WipeOK, Scheduled
    <2> QED BY <1>2, <2>1 DEF Flagged, Keeps, IsReset
  <1>3. ASSUME NEW j \in wipe[c].targets
        PROVE  /\ row[j].status \in Quiet => row'[j].status \in Quiet
               /\ CleanJob(j) => CleanJob(j)'
    BY DEF Keeps
  <1>4. (resetting /\ account) \/ Clean(wipe[c].targets) =>
           (resetting' /\ account') \/ \A j \in wipe[c].targets : CleanJob(j)'
    BY <1>3 DEF Clean, WipeOK
  <1> QED BY <1>1, <1>2, <1>3, <1>4 DEF WipeOK, WipeAt, IsReset, Clean

\* The steps of the jobs, of the workers and of the admin's switch.
LEMMA AsideKeeps ==
    ASSUME TypeOK, TurnInv, EraseInv, [Next]_vars,
           UNCHANGED <<wipe, erased, epoch, resetting, account>>,
           settings => settings', resetting => enabled' = enabled
    PROVE  EraseInv'
  <1>0. /\ \A j \in Jobs : RowStep(j) /\ EndStep(j) /\ Keeps(j)
        /\ FateInv'
    BY AllKeep, FateKept DEF EraseInv
  <1>1. ASSUME NEW j \in Jobs, ScheduleCapture(j)
        PROVE  row'[j].epoch = epoch /\ enabled /\ settings' /\ ~resetting
    BY <1>1 DEF ScheduleCapture, NewRow, TypeOK, EraseInv, ResetInv
  <1>2. EpochInv'
    <2> SUFFICES ASSUME NEW j \in Jobs, row'[j].status \notin {"unborn", "deleted"}
                 PROVE  row'[j].epoch <= epoch
      BY DEF EpochInv
    <2>1. CASE row[j].status = "unborn"
      BY <1>0, <1>1, <2>1 DEF EndStep, TypeOK
    <2>2. CASE row[j].status # "unborn"
      BY <1>0, <2>2 DEF RowStep, EraseInv, EpochInv
    <2> QED BY <2>1, <2>2
  <1>3. ResetInv'
    BY <1>0, <1>1, FlagsStay DEF EraseInv, ResetInv
  <1>4. AccountInv'
    <2> SUFFICES ASSUME (resetting /\ ~account) \/ ~settings', NEW j \in Scheduled'
                 PROVE  CleanJob(j)'
      BY DEF AccountInv, Clean
    <2>1. j \in Jobs /\ row'[j].status # "unborn"
      BY DEF Scheduled
    <2>2. ~ScheduleCapture(j)
      BY <1>1, <2>1
    <2>3. j \in Scheduled
      BY <1>0, <2>1, <2>2 DEF EndStep, Scheduled
    <2> QED BY <1>0, <2>1, <2>3 DEF EraseInv, AccountInv, Clean, Keeps
  <1>5. WipesInv'
    BY <1>0, RestingWipe DEF EraseInv, WipesInv, TypeOK, Wipe
  <1>6. ErasedInv'
    BY <1>0 DEF EraseInv, ErasedInv, Clean, Keeps, TypeOK
  <1> QED BY <1>0, <1>2, <1>3, <1>4, <1>5, <1>6 DEF EraseInv

\* Where a Clear or Reset goes it takes its jobs along.
LEMMA WipeGotoFacts ==
    ASSUME TypeOK, NEW c \in Wipes, NEW pc, WipeGoto(c, pc)
    PROVE  /\ \A x \in Wipes \ {c} : wipe'[x] = wipe[x]
           /\ wipe'[c].pc = pc /\ wipe'[c].kind = wipe[c].kind
           /\ wipe'[c].epoch = wipe[c].epoch /\ wipe'[c].targets = wipe[c].targets
  BY DEF WipeGoto, TypeOK, Wipe

\* One that begins covers what is scheduled.
LEMMA BeginWipeFacts ==
    ASSUME TypeOK, NEW c \in Wipes, NEW kind, NEW e, BeginWipe(c, kind, e)
    PROVE  /\ \A x \in Wipes \ {c} : wipe'[x] = wipe[x]
           /\ wipe'[c].pc = "wait" /\ wipe'[c].kind = kind
           /\ wipe'[c].epoch = e /\ wipe'[c].targets = Scheduled
  BY DEF BeginWipe, TypeOK

\* Once asked to cancel, a job is quiet or has the flag.
LEMMA RequestFlags ==
    ASSUME TypeOK, TurnInv, NEW j \in Jobs, row[j].status # "unborn",
           row'[j] = Requested(row[j])
    PROVE  /\ row'[j].status \in Quiet \/ row'[j].canc
           /\ row'[j].status \in Queued => row'[j].canc
           /\ row'[j].epoch = row[j].epoch
  <1>1. row[j] \in Row /\ CancOK(row[j])
    BY DEF TypeOK, TurnInv, CancInv
  <1>2. CASE row[j].status \in Queued
    BY <1>1, <1>2 DEF Requested, Row
  <1>3. CASE row[j].status \notin Queued
    BY <1>1, <1>3 DEF Requested, Row, CancOK, Quiet, Cancellable
  <1> QED BY <1>2, <1>3

\* A Clear begins: whatever was scheduled is of an older epoch now, and is asked to cancel.
LEMMA BeginClearKeeps ==
    ASSUME TypeOK, TurnInv, EraseInv, NEW c \in Wipes, BeginClear(c),
           \A j \in Jobs : RowStep(j) /\ EndStep(j) /\ Keeps(j)
    PROVE  EpochInv' /\ ResetInv' /\ AccountInv' /\ WipesInv' /\ ErasedInv'
  <1>0. /\ epoch \in Nat /\ epoch' = epoch + 1 /\ settings'
        /\ \A j \in Jobs : row[j].epoch \in Nat
        /\ UNCHANGED <<enabled, resetting, account, erased>>
        /\ BeginWipe(c, "clear", epoch + 1)
        /\ \A j \in Jobs : row[j].epoch < epoch + 1 => row'[j] = Requested(row[j])
        /\ \A j \in Jobs : row[j].epoch >= epoch + 1 => row'[j] = row[j]
    BY DEF BeginClear, TypeOK, Row, config, history
  <1>1. \A j \in Jobs : ~ScheduleCapture(j)
    BY <1>0 DEF ScheduleCapture
  <1>2. \A j \in Jobs : row[j].status = "unborn" => row'[j].status = "unborn"
    BY <1>1 DEF EndStep
  <1>3. \A j \in Jobs : row[j].status \notin {"unborn", "deleted"} => row[j].epoch <= epoch
    BY DEF EraseInv, EpochInv
  <1>4. EpochInv'
    <2> SUFFICES ASSUME NEW j \in Jobs, row'[j].status \notin {"unborn", "deleted"}
                 PROVE  row'[j].epoch <= epoch + 1
      BY <1>0 DEF EpochInv
    <2>1. row[j].status \notin {"unborn", "deleted"} /\ row'[j].epoch = row[j].epoch
      BY <1>2 DEF RowStep
    <2> QED BY <1>0, <1>3, <2>1
  <1>5. ResetInv'
    BY <1>0, <1>1, FlagsStay DEF EraseInv, ResetInv
  <1>6. AccountInv'
    <2> SUFFICES ASSUME resetting /\ ~account, NEW j \in Jobs, row'[j].status # "unborn"
                 PROVE  CleanJob(j)'
      BY <1>0 DEF AccountInv, Clean, Scheduled
    <2> QED BY <1>2 DEF EraseInv, AccountInv, Clean, Scheduled, Keeps
  <1>7. WipeOK(c)'
    <2>1. /\ wipe'[c].pc = "wait" /\ wipe'[c].kind = "clear"
          /\ wipe'[c].epoch = epoch + 1 /\ wipe'[c].targets = Scheduled
      BY <1>0, BeginWipeFacts
    <2>2. Scheduled \subseteq Scheduled'
      BY DEF Scheduled, Keeps
    <2>3. ASSUME NEW j \in Scheduled PROVE Flagged(c, j)'
      <3>0. j \in Jobs /\ row[j].status # "unborn"
        BY DEF Scheduled
      <3>1. CASE row[j].status = "deleted"
        BY <3>0, <3>1 DEF RowStep, Flagged, Quiet
      <3>2. CASE row[j].status # "deleted"
        <4>1. row[j].epoch < epoch + 1 /\ row'[j] = Requested(row[j])
          BY <1>0, <1>3, <3>0, <3>2
        <4>2. /\ row'[j].status \in Quiet \/ row'[j].canc
              /\ row'[j].epoch = row[j].epoch
          BY <3>0, <4>1, RequestFlags
        <4> QED BY <2>1, <4>1, <4>2 DEF Flagged
      <3> QED BY <3>1, <3>2
    <2> QED BY <2>1, <2>2, <2>3 DEF WipeOK, WipeAt, IsReset
  <1>8. WipesInv'
    BY <1>0, <1>7, BeginWipeFacts, RestingWipe DEF EraseInv, WipesInv, TypeOK, Wipe
  <1>9. ErasedInv'
    BY <1>0 DEF EraseInv, ErasedInv, Clean, Keeps, TypeOK
  <1> QED BY <1>4, <1>5, <1>6, <1>8, <1>9

\* A Reset begins, or joins one for which everything has been asked to cancel.
LEMMA BeginResetKeeps ==
    ASSUME TypeOK, TypeOK', TurnInv, EraseInv, NEW c \in Wipes, BeginReset(c),
           \A j \in Jobs : RowStep(j) /\ EndStep(j) /\ Keeps(j)
    PROVE  EpochInv' /\ ResetInv' /\ AccountInv' /\ WipesInv' /\ ErasedInv'
  <1>0. /\ UNCHANGED <<epoch, settings, erased>>
        /\ BeginWipe(c, "reset", epoch)
        /\ \/ resetting /\ UNCHANGED <<row, enabled, account>>
           \/ /\ ~resetting /\ ~enabled' /\ (settings => account')
              /\ row' = [j \in Jobs |-> Requested(row[j])]
        /\ resetting'
    <2>1. CASE resetting
      BY <2>1 DEF BeginReset, config, user, history
    <2>2. CASE ~resetting
      <3>1. /\ ~enabled' /\ resetting' /\ (settings => account')
            /\ row' = [j \in Jobs |-> Requested(row[j])]
        BY Zenon, <2>2 DEF BeginReset
      <3>2. UNCHANGED <<epoch, settings, erased>> /\ BeginWipe(c, "reset", epoch)
        BY DEF BeginReset, user, history
      <3> QED BY <2>2, <3>1, <3>2
    <2> QED BY <2>1, <2>2
  <1>1. \A j \in Jobs : ~ScheduleCapture(j)
    BY <1>0 DEF ScheduleCapture, BeginReset, NewRow, BeginWipe, TypeOK
  <1>2. \A j \in Jobs : row[j].status = "unborn" => row'[j].status = "unborn"
    BY <1>1 DEF EndStep
  <1>4. EpochInv'
    BY <1>0, <1>2 DEF EraseInv, EpochInv, RowStep
  <1>5. \A j \in Jobs : row'[j].status \in Queued => row'[j].canc
    <2> SUFFICES ASSUME NEW j \in Jobs, row'[j].status \in Queued PROVE row'[j].canc
      OBVIOUS
    <2>1. row[j].status # "unborn"
      BY <1>2 DEF Queued
    <2> QED BY <1>0, <2>1, RequestFlags DEF EraseInv, ResetInv
  <1>6. ResetInv'
    BY <1>0, <1>5 DEF EraseInv, ResetInv
  <1>7. AccountInv' /\ (account' \/ \A j \in Scheduled : CleanJob(j)')
    <2>1. ~account' \/ ~settings => Clean(Scheduled)
      BY <1>0 DEF EraseInv, AccountInv
    <2>2. ~account' \/ ~settings => \A j \in Scheduled : CleanJob(j)'
      BY <2>1 DEF Clean, Scheduled, Keeps
    <2>3. Scheduled' \subseteq Scheduled
      BY <1>2 DEF Scheduled
    <2> QED BY <1>0, <2>2, <2>3 DEF AccountInv, Clean
  <1>8. WipeOK(c)'
    <2>1. /\ wipe'[c].pc = "wait" /\ wipe'[c].kind = "reset" /\ wipe'[c].targets = Scheduled
      BY <1>0, BeginWipeFacts
    <2>2. Scheduled \subseteq Scheduled'
      BY DEF Scheduled, Keeps
    <2>3. ASSUME NEW j \in Scheduled PROVE row'[j].status \in Quiet \/ row'[j].canc
      <3>0. j \in Jobs /\ row[j].status # "unborn" /\ row'[j] \in Row /\ CancOK(row'[j])
        BY DEF Scheduled, RowStep, Keeps, TypeOK
      <3> QED BY <1>5, <3>0 DEF Row, CancOK, Quiet, Cancellable, Keeps
    <2> QED BY <1>0, <1>7, <2>1, <2>2, <2>3 DEF WipeOK, WipeAt, IsReset, Flagged, Clean
  <1>9. WipesInv'
    BY <1>0, <1>7, <1>8, BeginWipeFacts, RestingWipe DEF EraseInv, WipesInv, TypeOK, Wipe
  <1>10. ErasedInv'
    BY <1>0 DEF EraseInv, ErasedInv, Clean, Keeps, TypeOK
  <1> QED BY <1>4, <1>6, <1>7, <1>9, <1>10

\* A step of a Clear or Reset that ends where it should and, if it deletes the account,
\* leaves no job that has to be seen to.
LEMMA WalkKeeps ==
    ASSUME TypeOK, TurnInv, EraseInv, NEW c \in Wipes, NEW pc, WipeGoto(c, pc), WipeOK(c)',
           \A j \in Jobs : RowStep(j) /\ EndStep(j) /\ Keeps(j),
           \A j \in Jobs : row[j].status = "unborn" => row'[j].status = "unborn",
           UNCHANGED <<epoch, settings, enabled, resetting>>,
           \/ account' = account
           \/ account => \A j \in Scheduled : CleanJob(j)',
           \A j \in erased' : j \in erased \/ CleanJob(j)'
    PROVE  EpochInv' /\ ResetInv' /\ AccountInv' /\ WipesInv' /\ ErasedInv'
  <1>1. EpochInv'
    BY DEF EraseInv, EpochInv, RowStep
  <1>2. ResetInv'
    <2>1. \A j \in Jobs : ~ScheduleCapture(j)
      BY DEF ScheduleCapture, NewRow, TypeOK
    <2> QED BY <2>1, FlagsStay DEF EraseInv, ResetInv
  <1>3. AccountInv'
    <2>1. Scheduled' \subseteq Scheduled
      BY DEF Scheduled
    <2>2. CASE Clean(Scheduled)
      BY <2>1, <2>2 DEF AccountInv, Clean, Scheduled, Keeps
    <2>3. CASE ~Clean(Scheduled)
      <3>1. settings /\ (resetting => account)
        BY <2>3 DEF EraseInv, AccountInv
      <3> QED BY <2>1, <3>1 DEF AccountInv, Clean
    <2> QED BY <2>2, <2>3
  <1>4. WipesInv'
    <2> SUFFICES ASSUME NEW x \in Wipes, x # c PROVE WipeOK(x)'
      BY DEF WipesInv
    <2> QED BY WipeGotoFacts, RestingWipe DEF EraseInv, WipesInv, TypeOK, Wipe
  <1>5. ErasedInv'
    BY DEF EraseInv, ErasedInv, Clean, Keeps, TypeOK
  <1> QED BY <1>1, <1>2, <1>3, <1>4, <1>5

\* Every step of a Clear or Reset ends where it should.
LEMMA WalkOK ==
    ASSUME TypeOK, TurnInv, EraseInv, NEW c \in Wipes, NEW pc, WipeGoto(c, pc),
           AwaitCancellation(c) \/ ListAccounts(c) \/ RemoveMemories(c)
             \/ CompleteResetAccount(c) \/ DeleteSessions(c)
             \/ pc \in {"failed", "done"},
           \A j \in Jobs : Keeps(j)
    PROVE  WipeOK(c)'
  <1>0. /\ wipe'[c].pc = pc /\ wipe'[c].kind = wipe[c].kind
        /\ wipe'[c].epoch = wipe[c].epoch /\ wipe'[c].targets = wipe[c].targets
        /\ wipe[c].targets \subseteq Jobs /\ wipe[c].kind \in {"clear", "reset"}
    BY WipeGotoFacts DEF TypeOK, Wipe
  <1>1. WipeOK(c)
    BY DEF EraseInv, WipesInv
  <1>2. wipe[c].targets \subseteq Scheduled'
    BY <1>0, <1>1 DEF WipeOK, Scheduled, Keeps
  <1>3. \A j \in wipe[c].targets : /\ row[j].status \in Quiet => row'[j].status \in Quiet
                                   /\ CleanJob(j) => CleanJob(j)'
    BY <1>0 DEF Keeps
  <1>4. CASE pc \in {"failed", "done"}
    BY <1>0, <1>2, <1>4 DEF WipeOK, WipeAt
  <1>5. CASE AwaitCancellation(c)
    <2>1. ASSUME NEW j \in wipe[c].targets PROVE row[j].status \in Quiet
      <3>1. Flagged(c, j) /\ ~Waited(c, row[j]) /\ j \in Jobs /\ CancOK(row[j])
        BY <1>0, <1>1, <1>5 DEF WipeOK, AwaitCancellation, TurnInv, CancInv
      <3> QED BY <3>1 DEF Flagged, Waited, CancOK, Quiet, Cancellable, Queued, Settled
    <2>2. /\ pc = IF IsReset(c) THEN "accounts" ELSE "remove"
          /\ UNCHANGED <<resetting, account>> /\ WipeAt(c, "wait")
      <3>1. wipe'[c].pc = IF IsReset(c) THEN "accounts" ELSE "remove"
        BY <1>5 DEF AwaitCancellation, WipeGoto, TypeOK, Wipe
      <3> QED BY <1>0, <1>5, <3>1 DEF AwaitCancellation, config
    <2> QED BY <1>0, <1>1, <1>2, <1>3, <2>1, <2>2 DEF WipeOK, WipeAt, IsReset, Clean
  <1>6. CASE ListAccounts(c)
    <2>1. /\ pc = IF account THEN "remove" ELSE "rows"
          /\ UNCHANGED <<resetting, account>> /\ WipeAt(c, "accounts")
      <3>1. wipe'[c].pc = IF account THEN "remove" ELSE "rows"
        BY <1>6 DEF ListAccounts, WipeGoto, TypeOK, Wipe
      <3> QED BY <1>0, <1>6, <3>1 DEF ListAccounts, config
    <2>2. \A j \in wipe[c].targets : row[j].status \in Quiet
      BY <1>1, <2>1 DEF WipeOK, WipeAt
    <2>3. (resetting /\ account) \/ Clean(wipe[c].targets)
      BY <1>1, <2>1 DEF WipeOK, WipeAt
    <2> QED BY <1>0, <1>2, <1>3, <2>1, <2>2, <2>3 DEF WipeOK, WipeAt, IsReset, Clean
  <1>7. CASE RemoveMemories(c)
    <2>1. /\ pc \in {IF IsReset(c) THEN "checkpoint" ELSE "sessions", "failed"}
          /\ memories' = {} /\ WipeAt(c, "remove")
      <3>1. wipe'[c].pc \in {IF IsReset(c) THEN "checkpoint" ELSE "sessions", "failed"}
        BY <1>7 DEF RemoveMemories, WipeGoto, TypeOK, Wipe
      <3> QED BY <1>0, <1>7, <3>1 DEF RemoveMemories
    <2>2. \A j \in wipe[c].targets : row'[j].status \in Quiet /\ CleanJob(j)'
      BY <1>1, <1>3, <2>1 DEF WipeOK, WipeAt, CleanJob
    <2> QED BY <1>0, <1>2, <2>1, <2>2 DEF WipeOK, WipeAt, IsReset
  <1>8. CASE CompleteResetAccount(c)
    <2>1. pc = "accounts" /\ WipeAt(c, "checkpoint")
      <3>1. wipe'[c].pc = "accounts"
        BY <1>8 DEF CompleteResetAccount, WipeGoto, TypeOK, Wipe
      <3> QED BY <1>0, <1>8, <3>1 DEF CompleteResetAccount
    <2>2. \A j \in wipe[c].targets : row'[j].status \in Quiet /\ CleanJob(j)'
      BY <1>1, <1>3, <2>1 DEF WipeOK, WipeAt
    <2>3. IsReset(c)
      BY <1>1, <2>1 DEF WipeOK, WipeAt
    <2> QED BY <1>0, <1>2, <2>1, <2>2, <2>3 DEF WipeOK, WipeAt, IsReset, Clean
  <1>9. CASE DeleteSessions(c)
    <2>1. pc \in {"rows", "failed"} /\ WipeAt(c, "sessions")
      <3>1. wipe'[c].pc \in {"rows", "failed"}
        BY <1>9 DEF DeleteSessions, WipeGoto, TypeOK, Wipe
      <3> QED BY <1>0, <1>9, <3>1 DEF DeleteSessions
    <2>2. \A j \in wipe[c].targets : row'[j].status \in Quiet /\ CleanJob(j)'
      BY <1>1, <1>3, <2>1 DEF WipeOK, WipeAt
    <2> QED BY <1>0, <1>2, <2>1, <2>2 DEF WipeOK, WipeAt, IsReset
  <1> QED BY <1>4, <1>5, <1>6, <1>7, <1>8, <1>9

\* A sweep over all jobs leaves none to be seen to: those that were waited for are clean,
\* the others are strays.
LEMMA Swept ==
    ASSUME EraseInv, NEW c \in Wipes, WipeAt(c, "checkpoint") \/ WipeAt(c, "rows"),
           Overrun(c, Jobs), \A j \in Jobs : Keeps(j)
    PROVE  \A j \in Scheduled : CleanJob(j)'
  <1> SUFFICES ASSUME NEW j \in Scheduled PROVE CleanJob(j)'
    OBVIOUS
  <1>1. j \in Jobs /\ Keeps(j)
    BY DEF Scheduled
  <1>2. CASE j \in wipe[c].targets
    BY <1>1, <1>2 DEF EraseInv, WipesInv, WipeOK, WipeAt, Keeps
  <1>3. CASE j \notin wipe[c].targets
    BY <1>1, <1>3 DEF Overrun, CleanJob, Excepted
  <1> QED BY <1>2, <1>3

\* The end of a Reset: no row is left, and the epochs begin again.
LEMMA CompleteResetKeeps ==
    ASSUME TypeOK, TurnInv, EraseInv, NEW c \in Wipes, CompleteReset(c), ~account,
           \A j \in Jobs : RowStep(j) /\ EndStep(j) /\ Keeps(j)
    PROVE  EpochInv' /\ ResetInv' /\ AccountInv' /\ WipesInv' /\ ErasedInv'
  <1>0. /\ IsReset(c) /\ WipeAt(c, "rows")
        /\ DeleteRows(Jobs) /\ Overrun(c, Jobs) /\ ~resetting'
        /\ WipeGoto(c, "done") /\ erased' = erased \cup wipe[c].targets
    BY DEF CompleteReset, EndWipe
  <1>1. \A j \in Scheduled : CleanJob(j)'
    BY <1>0, Swept
  <1>2. \A j \in Jobs : row'[j].status \in {"unborn", "deleted"}
    BY <1>0, DeletionMoves
  <1>3. \A j \in Jobs : row[j].status = "unborn" => row'[j].status = "unborn"
    BY <1>0 DEF DeleteRows
  <1>4. EpochInv' /\ ResetInv'
    BY <1>0, <1>2 DEF EpochInv, ResetInv
  <1>5. AccountInv'
    BY <1>1, <1>3 DEF AccountInv, Clean, Scheduled
  <1>6. WipesInv'
    <2>1. WipeOK(c)'
      BY <1>0, WalkOK
    <2>2. ASSUME NEW x \in Wipes, x # c PROVE WipeOK(x)'
      BY <1>0, <2>2, WipeGotoFacts, RestingWipe DEF EraseInv, WipesInv, TypeOK, Wipe
    <2> QED BY <2>1, <2>2 DEF WipesInv
  <1>7. ErasedInv'
    BY <1>0, <1>1 DEF EraseInv, ErasedInv, WipesInv, WipeOK, Clean, Keeps, TypeOK
  <1> QED BY <1>4, <1>5, <1>6, <1>7

\* Whatever a Clear or Reset does.
LEMMA WipesKeep ==
    ASSUME TypeOK, TypeOK', TurnInv, EraseInv, NEW c \in Wipes,
           BeginClear(c) \/ BeginReset(c) \/ WipeStep(c) \/ FailWipe(c),
           \A j \in Jobs : RowStep(j) /\ EndStep(j) /\ Keeps(j)
    PROVE  EpochInv' /\ ResetInv' /\ AccountInv' /\ WipesInv' /\ ErasedInv'
  <1>s. ASSUME NEW pc, WipeGoto(c, pc),
               AwaitCancellation(c) \/ ListAccounts(c) \/ RemoveMemories(c)
                 \/ DeleteSessions(c) \/ pc \in {"failed", "done"},
               UNCHANGED <<row, user, config, erased>>
        PROVE  EpochInv' /\ ResetInv' /\ AccountInv' /\ WipesInv' /\ ErasedInv'
    <2>1. WipeOK(c)'
      BY <1>s, WalkOK
    <2> QED BY <1>s, <2>1, WalkKeeps DEF user, config
  <1>1. CASE BeginClear(c)
    BY <1>1, BeginClearKeeps
  <1>2. CASE BeginReset(c)
    BY <1>2, BeginResetKeeps
  <1>3. CASE AwaitCancellation(c)
    BY <1>3, <1>s DEF AwaitCancellation, history
  <1>4. CASE ListAccounts(c)
    BY <1>4, <1>s DEF ListAccounts, history
  <1>5. CASE RemoveMemories(c)
    BY <1>5, <1>s DEF RemoveMemories, history
  <1>6. CASE DeleteSessions(c)
    BY <1>6, <1>s DEF DeleteSessions, history
  <1>7. CASE FailWipe(c)
    BY <1>7, <1>s DEF FailWipe, history
  <1>8. CASE CompleteResetAccount(c)
    <2>1. /\ WipeGoto(c, "accounts") /\ WipeAt(c, "checkpoint")
          /\ UNCHANGED <<row, epoch, settings, enabled, resetting, erased>>
          /\ account => Overrun(c, Jobs)
      BY <1>8 DEF CompleteResetAccount, user
    <2>2. WipeOK(c)'
      BY <1>8, <2>1, WalkOK
    <2>3. account => \A j \in Scheduled : CleanJob(j)'
      BY <2>1, Swept
    <2>4. account' = account \/ account
      BY <1>8 DEF CompleteResetAccount, TypeOK
    <2> QED BY <2>1, <2>2, <2>3, <2>4, WalkKeeps
  <1>9. CASE DeleteOldJobs(c)
    <2>1. /\ WipeGoto(c, "done") /\ WipeAt(c, "rows")
          /\ erased' = erased \cup wipe[c].targets
          /\ UNCHANGED <<epoch, settings, enabled, resetting, account>>
          /\ \E js : DeleteRows(js)
      BY <1>9 DEF DeleteOldJobs, EndWipe, user, config
    <2>2. WipeOK(c)'
      BY <2>1, WalkOK
    <2>3. \A j \in erased' : j \in erased \/ CleanJob(j)'
      BY <2>1 DEF EraseInv, WipesInv, WipeOK, WipeAt, Keeps, TypeOK, Wipe
    <2>4. \A j \in Jobs : row[j].status = "unborn" => row'[j].status = "unborn"
      BY <2>1 DEF DeleteRows
    <2> QED BY <2>1, <2>2, <2>3, <2>4, WalkKeeps
  <1>10. CASE CompleteReset(c)
    <2>1. CASE account
      BY <1>10, <2>1, <1>s DEF CompleteReset
    <2>2. CASE ~account
      BY <1>10, <2>2, CompleteResetKeeps
    <2> QED BY <2>1, <2>2
  <1> QED BY <1>1, <1>2, <1>3, <1>4, <1>5, <1>6, <1>7, <1>8, <1>9, <1>10
        DEF WipeStep, ClearStep, ResetStep

\* The invariant of Clear and Reset is inductive on top of that of the turns.
LEMMA StepKeepsEraseInv ==
    ASSUME TypeOK, TurnInv, EraseInv, [Next]_vars
    PROVE  EraseInv'
  <1>0. /\ \A j \in Jobs : RowStep(j) /\ EndStep(j) /\ Keeps(j)
        /\ FateInv' /\ TypeOK'
    BY AllKeep, FateKept, StepTyped DEF EraseInv, TurnInv
  <1>1. ASSUME NEW j \in Jobs,
               ScheduleCapture(j) \/ ExpireLease(j) \/ EndTask(j) \/ CleanupCaptureJob(j)
        PROVE  EraseInv'
    BY <1>1, AsideKeeps
       DEF ScheduleCapture, ExpireLease, EndTask, CleanupCaptureJob, user, config, history
  <1>2. ASSUME NEW w \in Workers, NEW j \in Jobs, Claim(w, j) PROVE EraseInv'
    BY <1>2, AsideKeeps DEF Claim, user, config, history
  <1>3. ASSUME NEW w \in Workers, WorkerStep(w) \/ Abandon(w) PROVE EraseInv'
    <2>1. UNCHANGED <<user, config, wipe, erased>>
      BY <1>3 DEF WorkerStep, SubmitStep, CancelStep, Route, Lookup, Load, EnsureSession,
                  AddTurn, MarkSubmitting, Commit, Record, Poll, CancelCapture, CancelTask,
                  AwaitTask, SettleJob, Abandon, AtProvider, InDatabase, history
    <2> QED BY <2>1, AsideKeeps DEF user, config
  <1>4. ASSUME NEW c \in Wipes, BeginClear(c) \/ BeginReset(c) \/ WipeStep(c) \/ FailWipe(c)
        PROVE  EraseInv'
    BY <1>0, <1>4, WipesKeep DEF EraseInv
  <1>5. ASSUME NEW e \in BOOLEAN, SetEnabled(e) PROVE EraseInv'
    BY <1>5, AsideKeeps DEF SetEnabled, user, history
  <1>6. CASE UpdateSettings \/ UNCHANGED vars
    BY <1>6, AsideKeeps DEF UpdateSettings, vars, user, config, history
  <1>7. \/ \E j \in Jobs : ScheduleCapture(j) \/ ExpireLease(j) \/ EndTask(j)
                           \/ CleanupCaptureJob(j)
        \/ \E w \in Workers : (\E j \in Jobs : Claim(w, j)) \/ WorkerStep(w) \/ Abandon(w)
        \/ \E c \in Wipes : BeginClear(c) \/ BeginReset(c) \/ WipeStep(c) \/ FailWipe(c)
        \/ \E e \in BOOLEAN : SetEnabled(e)
        \/ UpdateSettings \/ UNCHANGED vars
    BY Zenon DEF Next
  <1> QED BY <1>1, <1>2, <1>3, <1>4, <1>5, <1>6, <1>7

\* Nothing is scheduled and nothing is erased yet.
LEMMA InitEraseInv ==
    ASSUME Init PROVE EraseInv
  <1>1. \A j \in Jobs : row[j].status = "unborn"
    BY DEF Init, NewRow
  <1>2. \A w \in Workers : worker[w].pc = "idle"
    BY DEF Init, Idle
  <1>3. \A c \in Wipes : wipe[c].pc = "idle" /\ wipe[c].targets = {}
    BY DEF Init
  <1>4. FateInv
    BY <1>1, <1>2 DEF FateInv, DeadInv, GoneInv, VerdictInv, VerdictOK, Sits, At
  <1>5. EpochInv /\ ResetInv
    BY <1>1 DEF Init, EpochInv, ResetInv
  <1>6. AccountInv
    BY <1>1 DEF AccountInv, Clean, Scheduled
  <1>7. WipesInv
    BY <1>3 DEF WipesInv, WipeOK, WipeAt
  <1>8. ErasedInv
    BY DEF Init, ErasedInv, Clean
  <1> QED BY <1>4, <1>5, <1>6, <1>7, <1>8 DEF EraseInv

\* Clear and Reset: what they covered when they began and reported as erased is not held
\* by the provider and has no task that could still write it, however they overlap and
\* whatever fails; but for the jobs given up as dead and those that an overtaken Clear or
\* Reset swept unasked.
THEOREM ErasedMemoriesStayErased == Spec => []ErasedStaysErased
  <1> DEFINE Inv == TypeOK /\ TurnInv /\ EraseInv
  <1>1. Init => Inv
    BY InitTurnInv, InitEraseInv
  <1>2. Inv /\ [Next]_vars => Inv'
    BY StepTyped, StepKeepsTurnInv, StepKeepsEraseInv DEF TurnInv
  <1>3. Inv => ErasedStaysErased
    <2> SUFFICES ASSUME Inv, NEW j \in erased, j \notin Excepted
                 PROVE  j \notin memories /\ task[j] \notin Active
      BY DEF ErasedStaysErased, Excepted
    <2>1. j \in Jobs /\ row[j].status \in Quiet /\ j \notin memories
      BY DEF EraseInv, ErasedInv, Clean, CleanJob, TypeOK
    <2>2. Still(j)
      BY <2>1 DEF EraseInv, FateInv, DeadInv, GoneInv, Quiet, Settled, Excepted
    <2> QED BY <2>1, <2>2 DEF Still
  <1> QED BY <1>1, <1>2, <1>3, PTL DEF Spec

=============================================================================
