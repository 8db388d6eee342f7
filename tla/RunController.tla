---------------------------- MODULE RunController ----------------------------
(***************************************************************************)
(* The Gateway process around the chat-run store: the handlers that start  *)
(* a run, the map of live runs, the goroutine that executes each run and   *)
(* brings it to a durable end, cancellation, graceful shutdown, a crash    *)
(* and the recovery at the next start (apps/gateway/internal/httpapi/      *)
(* simple_chat.go, plan_mode.go, question_mode.go).                        *)
(*                                                                         *)
(* Every call of the store has three outcomes: it commits and says so, it  *)
(* fails and changes nothing, or it commits and the caller sees an error   *)
(* (a timeout, a cancelled request or a lost connection during COMMIT).    *)
(***************************************************************************)
EXTENDS ChatRunStore

CONSTANTS
    MaxAttempts,    \* finalizeMaxAttempts
    LostAcks,       \* whether a commit may be reported as an error
    CardBound       \* bound: failed attempts that leave a card in the message

ASSUME MaxAttemptsAssumption == MaxAttempts \in Nat \ {0}
ASSUME LostAcksAssumption == LostAcks \in BOOLEAN
ASSUME CardBoundAssumption == CardBound \in Nat

VARIABLES
    phase,      \* where the process is between its start and its exit
    live,       \* a.runs.live
    task,       \* the handler, then the goroutine, of each run
    shown,      \* how many plan and question cards the saved message has
    reached     \* history: the question whose answer the runtime accepted

processVars == <<phase, live, task, shown, reached>>
vars == <<storeVars, processVars>>

-----------------------------------------------------------------------------
\* "shutting": runs.shutting is set.  "draining": ShutdownRuns waits for the
\* runs it interrupted.  "drained" and "expired": it returned, nil or the error
\* of its deadline, and closed runs.stop.
Phase == {"serving", "shutting", "draining", "drained", "expired", "down"}
Stopped == {"drained", "expired"}

\* "admitted": a handler that passed the check of runs.shutting.
\* "unowned": the INSERT committed, the handler got an error and returned.
Pc == {"idle", "admitted", "unowned", "streaming", "finalizing", "fallback",
       "recovering", "recoverFallback", "saved", "done"}
Saving == {"finalizing", "fallback", "recovering", "recoverFallback"}

NoInput == FallbackInput(FALSE)

Idle == [pc |-> "idle", cancelled |-> FALSE, interrupt |-> FALSE,
         accepted |-> FALSE, failed |-> FALSE, input |-> NoInput,
         tries |-> 0, cards |-> 0]

TaskRow == [pc : Pc, cancelled : BOOLEAN, interrupt : BOOLEAN,
            accepted : BOOLEAN, failed : BOOLEAN,
            input : FinalizeInputs("plan"),
            tries : 0..MaxAttempts - 1, cards : 0..CardBound]

ControllerTypeOK ==
    /\ TypeOK
    /\ phase \in Phase
    /\ live \in SUBSET Runs
    /\ task \in [Runs -> TaskRow]
    /\ shown \in [Runs -> 0..CardBound + 1]
    /\ reached \in [Runs -> MaybeRun]

ControllerInit ==
    /\ Init
    /\ phase = "serving"
    /\ live = {}
    /\ task = [r \in Runs |-> Idle]
    /\ shown = [r \in Runs |-> 0]
    /\ reached = [r \in Runs |-> NoRun]

Goto(r, pc) == task' = [task EXCEPT ![r].pc = pc]

\* The goroutine has returned and its run is not read again.
Finish(r) == task' = [task EXCEPT ![r] = [Idle EXCEPT !.pc = "done"]]

-----------------------------------------------------------------------------
(* Starting a run *)

\* Decoding, attachments and the lookups of the Agent and its knowledge lie
\* between this check and the transaction.
Admit(r) ==
    /\ phase = "serving"
    /\ task[r].pc = "idle"
    /\ run[r].status = "absent"
    /\ Goto(r, "admitted")
    /\ UNCHANGED <<storeVars, phase, live, shown, reached>>

StoreStart(r) == StartAny(r) \/ StartPlanExecutionAny(r) \/ StartQuestionAnswerAny(r)

\* Store and live map change together under conversationGate and mutationMu.
StartRun(r) ==
    /\ phase # "down"
    /\ task[r].pc = "admitted"
    /\ StoreStart(r)
    /\ \/ live' = live \cup {r} /\ Goto(r, "streaming")
       \/ LostAcks /\ Goto(r, "unowned") /\ UNCHANGED live
    /\ UNCHANGED <<phase, shown, reached>>

-----------------------------------------------------------------------------
(* The agent stream *)

Answers(r) == {n \in Runs : question[n].answerRun = r
                            /\ question[n].status \in {"answering", "answered"}}

\* Mutant: the boundary is recorded only when the store confirmed it.
AcceptAnswerLate(r) ==
    /\ task[r].pc = "streaming"
    /\ ~task[r].accepted
    /\ \E n \in Answers(r) :
        /\ reached' = [reached EXCEPT ![r] = n]
        /\ \/ /\ AcceptQuestionAnswer(r, n)
              /\ task' = [task EXCEPT ![r].accepted = TRUE]
           \/ /\ UNCHANGED storeVars
              /\ task' = [task EXCEPT ![r].failed = TRUE]
    /\ UNCHANGED <<phase, live, shown>>

\* The "run_accepted" event: the boundary is recorded before the database call,
\* whose failure ends the stream with an error.
AcceptAnswer(r) ==
    /\ task[r].pc = "streaming"
    /\ ~task[r].accepted
    /\ \E n \in Answers(r) :
        /\ reached' = [reached EXCEPT ![r] = n]
        /\ \/ /\ AcceptQuestionAnswer(r, n)
              /\ \E lost \in {FALSE, LostAcks} :
                    task' = [task EXCEPT ![r].accepted = TRUE,
                                         ![r].failed = lost]
           \/ /\ UNCHANGED storeVars
              /\ task' = [task EXCEPT ![r].accepted = TRUE,
                                      ![r].failed = TRUE]
    /\ UNCHANGED <<phase, live, shown>>

\* persistRunDrafts runs until executeLiveRun has waited for it.
PersistDraft(r) ==
    /\ task[r].pc = "streaming"
    /\ SaveDraft(r)
    /\ UNCHANGED processVars

\* How the stream may end.  A step timeout and a spent draft budget end it
\* with "error", a runtime that went away with "interrupted".
EndStatuses(t) ==
    IF t.cancelled THEN {"cancelled"}
    ELSE IF t.interrupt THEN {"interrupted", "error"}
    ELSE IF t.failed THEN {"error"}
    ELSE {"success", "waiting_input", "error", "interrupted"}

\* From here on the flags of the stream count only as part of the input.
EndStream(r) ==
    /\ task[r].pc = "streaming"
    /\ \E s \in EndStatuses(task[r]) : \E in \in FullInput(s, run[r].mode) :
        /\ in.accepted = task[r].accepted
        /\ task' = [task EXCEPT ![r].pc = "finalizing", ![r].input = in,
                                ![r].accepted = FALSE, ![r].failed = FALSE]
    /\ UNCHANGED <<storeVars, phase, live, shown, reached>>

-----------------------------------------------------------------------------
(* The durable end: finalizeRun, then recoverRunFinalization *)

\* Mutant: the fallback keeps the status it could not save.
FallbackVerbatim(in) ==
    [in EXCEPT !.makesPlan = FALSE, !.asks = FALSE, !.hasMessage = FALSE]

Fallback(in) == FallbackInput(in.accepted)

HasCard(in) == in.makesPlan \/ in.asks

\* A transaction that fails late has already appended the card to the message
\* the next attempt will write: the input holds a pointer to it.
CardsAfterFailure(t, in) ==
    {t.cards} \cup (IF in.hasMessage /\ HasCard(in) /\ t.cards < CardBound
                    THEN {t.cards + 1} ELSE {})

Commit(r, in) ==
    /\ Finalize(r, in)
    /\ shown' = IF in.hasMessage /\ HasCard(in)
                THEN [shown EXCEPT ![r] = task[r].cards + 1] ELSE shown

Saves(r, in) ==
    /\ \/ Commit(r, in)
       \/ ~Finalizable(r) /\ UNCHANGED <<storeVars, shown>>
    /\ task' = [task EXCEPT ![r] = [Idle EXCEPT !.pc = "saved",
                                                !.interrupt = task[r].interrupt]]
    /\ UNCHANGED <<phase, live, reached>>

\* A failed call, or one whose commit is reported as an error.
Fails(r, in, pc, tries) ==
    /\ \/ LostAcks /\ Commit(r, in)
       \/ UNCHANGED <<storeVars, shown>>
    /\ \E c \in CardsAfterFailure(task[r], in) :
        task' = [task EXCEPT ![r].pc = pc, ![r].tries = tries, ![r].cards = c]
    /\ UNCHANGED <<phase, live, reached>>

\* One call of the store, with the input and the failure edge of its place.
SaveStep(r, in, pc, tries) == Saves(r, in) \/ Fails(r, in, pc, tries)

TryFinalize(r) ==
    /\ task[r].pc = "finalizing"
    /\ LET tries == task[r].tries + 1
       IN  SaveStep(r, task[r].input,
                    IF tries = MaxAttempts THEN "fallback" ELSE "finalizing",
                    tries % MaxAttempts)

\* Mutant: a failed fallback gives the run up.
TryFallbackOnce(r) ==
    /\ task[r].pc = "fallback"
    /\ SaveStep(r, Fallback(task[r].input), "done", task[r].tries)

TryFallback(r) ==
    /\ task[r].pc = "fallback"
    /\ SaveStep(r, Fallback(task[r].input), "recovering", task[r].tries)

\* Mutant: the recovery makes one round.
TryRecoverOnce(r) ==
    \/ /\ task[r].pc = "recovering"
       /\ SaveStep(r, task[r].input, "recoverFallback", task[r].tries)
    \/ /\ task[r].pc = "recoverFallback"
       /\ SaveStep(r, Fallback(task[r].input), "done", task[r].tries)

TryRecover(r) ==
    \/ /\ task[r].pc = "recovering"
       /\ SaveStep(r, task[r].input, "recoverFallback", task[r].tries)
    \/ /\ task[r].pc = "recoverFallback"
       /\ SaveStep(r, Fallback(task[r].input), "recovering", task[r].tries)

\* runs.stop ends the wait before the next attempt; the live entry stays.
Abandon(r) ==
    /\ phase \in Stopped
    /\ \/ task[r].pc = "finalizing" /\ task[r].tries > 0
       \/ task[r].pc = "recovering"
    /\ Finish(r)
    /\ UNCHANGED <<storeVars, phase, live, shown, reached>>

Publish(r) ==
    /\ task[r].pc = "saved"
    /\ live' = live \ {r}
    /\ Finish(r)
    /\ UNCHANGED <<storeVars, phase, shown, reached>>

-----------------------------------------------------------------------------
(* What users ask for *)

\* A flag set after the stream has ended is not read again.
CancelRun(r) ==
    /\ phase # "down"
    /\ run[r].status = "running"
    /\ r \in live
    /\ task' = [task EXCEPT ![r].cancelled = TRUE]
    /\ UNCHANGED <<storeVars, phase, live, shown, reached>>

DismissCard(n) ==
    /\ phase # "down"
    /\ CancelPlan(n) \/ CancelQuestion(n)
    /\ UNCHANGED processVars

-----------------------------------------------------------------------------
(* Shutdown, crash and start *)

BeginShutdown ==
    /\ phase = "serving"
    /\ phase' = "shutting"
    /\ UNCHANGED <<storeVars, live, task, shown, reached>>

InterruptLive ==
    /\ phase = "shutting"
    /\ phase' = "draining"
    /\ task' = [r \in Runs |-> [task[r] EXCEPT !.interrupt = @ \/ r \in live]]
    /\ UNCHANGED <<storeVars, live, shown, reached>>

\* The runs of ShutdownRuns are those it interrupted.
Drained == \A r \in Runs : task[r].interrupt => task[r].pc = "done"

EndDraining ==
    /\ phase = "draining"
    /\ phase' \in {"expired"} \cup (IF Drained THEN {"drained"} ELSE {})
    /\ UNCHANGED <<storeVars, live, task, shown, reached>>

Gone ==
    /\ phase' = "down"
    /\ live' = {}
    /\ task' = [r \in Runs |-> Idle]
    /\ UNCHANGED <<storeVars, shown, reached>>

Exit == phase \in Stopped /\ Gone

Crash == phase # "down" /\ Gone

\* Mutant: the process serves without looking at the runs of its predecessor.
RestartWithoutRecovery ==
    /\ phase = "down"
    /\ phase' = "serving"
    /\ UNCHANGED <<storeVars, live, task, shown, reached>>

\* The process serves only after InterruptStaleRuns has succeeded.
Restart ==
    /\ phase = "down"
    /\ \/ InterruptRunning
       \/ Active = {} /\ UNCHANGED storeVars
    /\ phase' = "serving"
    /\ UNCHANGED <<live, task, shown, reached>>

-----------------------------------------------------------------------------
RunStep(r) ==
    \/ Admit(r) \/ StartRun(r)
    \/ AcceptAnswer(r) \/ PersistDraft(r) \/ EndStream(r)
    \/ TryFinalize(r) \/ TryFallback(r) \/ TryRecover(r)
    \/ Abandon(r) \/ Publish(r)
    \/ CancelRun(r) \/ DismissCard(r)

ControllerNext ==
    \/ \E r \in Runs : RunStep(r)
    \/ BeginShutdown \/ InterruptLive \/ EndDraining
    \/ Exit \/ Crash \/ Restart

ControllerSpec == ControllerInit /\ [][ControllerNext]_vars

-----------------------------------------------------------------------------
(* Safety *)

\* A running row of a live process is owned: its run is in the live map and its
\* goroutine is streaming or saving, through failed attempts, the fallback and
\* the recovery.  The exceptions are a start whose acknowledgement was lost and
\* a run that a stopped process leaves to the next start.
RunningRunsAreOwned ==
    phase # "down" => \A r \in Active :
        \/ task[r].pc = "unowned"
        \/ r \in live /\ task[r].pc \in {"streaming"} \cup Saving
        \/ r \in live /\ task[r].pc = "done" /\ phase \in Stopped

\* An answer that the runtime accepted is never offered to the user again,
\* whatever fails between the "run_accepted" event and the end of the run.
AcceptedAnswersAreNotRepeated ==
    \A r \in Runs : reached[r] # NoRun => question[reached[r]].status # "pending"

\* A run that ended as anything but "interrupted" has its final message in the
\* history: no fallback or recovery reports an outcome without the output.
OutcomesHaveTheirOutput ==
    \A r \in Runs : run[r].status \in Terminal \ {"interrupted"}
                        => message[r].body = "final"

-----------------------------------------------------------------------------
(* Liveness: a goroutine goes on, the store works again and again, an agent   *)
(* stream ends when its context is cancelled, and the supervisor restarts    *)
(* the process.  The agent itself may run for ever.                          *)

AbortStream(r) ==
    /\ task[r].cancelled \/ task[r].interrupt \/ task[r].failed
    /\ EndStream(r)

Attempts(r) == TryFinalize(r) \/ TryFallback(r) \/ TryRecover(r)
GoodAttempt(r) == Attempts(r) /\ task'[r].pc = "saved"

GoroutineStep(r) == AbortStream(r) \/ Attempts(r) \/ Abandon(r) \/ Publish(r)
ProcessStep == InterruptLive \/ EndDraining \/ Exit \/ Restart

Fairness ==
    /\ \A r \in Runs : WF_vars(GoroutineStep(r)) /\ SF_vars(GoodAttempt(r))
    /\ WF_vars(ProcessStep)

FairControllerSpec == ControllerSpec /\ Fairness

IsOver(r) == run[r].status \in Terminal

\* Stop ends a run: once the cancel endpoint has accepted it the run reaches a
\* terminal state, although attempts fail and the process may crash or shut down.
CancelledRunsEnd == \A r \in Runs : task[r].cancelled ~> IsOver(r)

\* A run whose stream has ended reaches a terminal state, without a restart as
\* long as the process lives.
EndedStreamsSettle ==
    \A r \in Runs : task[r].pc \in Saving ~> IsOver(r)

\* A shutdown comes to its end, and the next process starts with no running row.
ShutdownSettles == phase = "shutting" ~> (phase = "serving" /\ Active = {})

-----------------------------------------------------------------------------
(* What the documents say and the code does not keep *)

\* ADR-0019: a graceful shutdown "stops accepting Runs, cancels local work, and
\* records interrupted".
GracefulShutdownStopsRuns == phase = "drained" => Active = {}

\* The message of a run shows the plan or the question it ended with once.
OneCardPerMessage == \A r \in Runs : shown[r] <= 1
=============================================================================
