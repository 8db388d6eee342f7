---------------------------- MODULE ChatRunStore ----------------------------
(***************************************************************************)
(* The durable state of one conversation: its runs, the plans and the      *)
(* questions those runs produced, and the assistant messages in which      *)
(* plans and questions are shown as cards.  One action is one PostgreSQL   *)
(* transaction of apps/gateway/internal/chatrun/postgres.go.  Every        *)
(* transaction that starts a run holds the conversation row FOR UPDATE,    *)
(* and Finalize updates that row last, so the transactions of one          *)
(* conversation serialise.                                                 *)
(*                                                                         *)
(* A plan and a question are identified by the run that produced them:     *)
(* source_run_id is UNIQUE in both tables.  A request that the code        *)
(* refuses, or answers by replaying an existing run, changes no row and is *)
(* no step of this module.                                                 *)
(***************************************************************************)
EXTENDS Integers

CONSTANTS
    Runs,       \* the run ids the conversation may use
    Requests,   \* the client_request_id values that clients may retry
    NoRun,      \* NULL in a column that holds a run or a plan
    NoRequest   \* a client_request_id that nobody sends again

ASSUME NoRunAssumption == NoRun \notin Runs
ASSUME NoRequestAssumption == NoRequest \notin Requests

VARIABLES
    run,        \* conversation_runs
    plan,       \* conversation_plans, by source_run_id
    question,   \* conversation_questions, by source_run_id
    message     \* the message "<run>-assistant": its body and its cards

storeVars == <<run, plan, question, message>>

-----------------------------------------------------------------------------
(* Rows and their statuses *)

Terminal == {"success", "error", "cancelled", "interrupted", "waiting_input"}
RunStatus == {"absent", "running"} \cup Terminal
Mode == {"execute", "plan"}

PlanStatus == {"ready", "executing", "completed", "stopped", "failed",
               "superseded", "cancelled"}
Approvable == {"ready", "stopped"}
CurrentPlan == {"ready", "executing", "stopped"}

QuestionStatus == {"pending", "answering", "answered", "cancelled"}
Open == {"pending", "answering"}

MaybeRun == Runs \cup {NoRun}

RunRow == [status : RunStatus, mode : Mode,
           request : Requests \cup {NoRequest}, plan : MaybeRun]
PlanRow == [status : PlanStatus \cup {"none"}, version : Nat]
QuestionRow == [status : QuestionStatus \cup {"none"}, version : Nat,
                mode : Mode, answerRun : MaybeRun]
\* "draft" is a partial message, "final" the one Finalize commits, "closed" a
\* draft whose metadata InterruptRunning rewrote.
MessageRow == [body : {"none", "draft", "final", "closed"},
               plan : PlanStatus \cup {"none"},
               question : QuestionStatus \cup {"none"}]

TypeOK ==
    /\ run \in [Runs -> RunRow]
    /\ plan \in [Runs -> PlanRow]
    /\ question \in [Runs -> QuestionRow]
    /\ message \in [Runs -> MessageRow]

Init ==
    /\ run = [r \in Runs |-> [status |-> "absent", mode |-> "execute",
                              request |-> NoRequest, plan |-> NoRun]]
    /\ plan = [r \in Runs |-> [status |-> "none", version |-> 0]]
    /\ question = [r \in Runs |-> [status |-> "none", version |-> 0,
                                   mode |-> "execute", answerRun |-> NoRun]]
    /\ message = [r \in Runs |-> [body |-> "none", plan |-> "none",
                                  question |-> "none"]]

-----------------------------------------------------------------------------
(* What the transactions read *)

Active == {r \in Runs : run[r].status = "running"}
QuestionPending == \E n \in Runs : question[n].status \in Open

\* The lookup of an existing run by (user, conversation, client_request_id).
RequestUnused(q) == q = NoRequest \/ \A r \in Runs : run[r].request # q

IsLatest(p) == \A o \in Runs : plan[o].version <= plan[p].version

\* COALESCE(MAX(version), 0) + 1, as the set of the one number it returns.
NextVersions(table) ==
    {v \in {1} \cup {table[r].version + 1 : r \in Runs} :
        \A r \in Runs : table[r].version < v}

(* updatePlanMessageStatus and updateQuestionMessageStatus: a card that is   *)
(* in its message follows the row, a message without the card stays.         *)
PlanCard(m, touched) ==
    IF m \in touched /\ message[m].plan # "none"
    THEN plan'[m].status ELSE message[m].plan

QuestionCard(m, touched) ==
    IF m \in touched /\ message[m].question # "none"
    THEN question'[m].status ELSE message[m].question

UpdateCards(plans, questions) ==
    message' = [m \in Runs |-> [body     |-> message[m].body,
                                plan     |-> PlanCard(m, plans),
                                question |-> QuestionCard(m, questions)]]

-----------------------------------------------------------------------------
(* The transactions that start a run *)

\* Mutant: without the partial unique index on running rows.
InsertRunUnguarded(r, q, mode, p) ==
    /\ run[r].status = "absent"
    /\ RequestUnused(q)
    /\ run' = [run EXCEPT ![r] = [status |-> "running", mode |-> mode,
                                  request |-> q, plan |-> p]]

\* The INSERT behind idx_conversation_runs_single_flight and
\* idx_conversation_runs_client_request.
InsertRun(r, q, mode, p) ==
    /\ run[r].status = "absent"
    /\ RequestUnused(q)
    /\ Active = {}
    /\ run' = [run EXCEPT ![r] = [status |-> "running", mode |-> mode,
                                  request |-> q, plan |-> p]]

\* Mutant: the check of conversation_questions is dropped.
StartIgnoringQuestion(r, q, mode, rev) ==
    /\ rev # NoRun => plan[rev].status \in Approvable
    /\ InsertRun(r, q, mode, NoRun)
    /\ UNCHANGED <<plan, question, message>>

\* rev is the plan an ordinary message asks to revise, or NoRun.
Start(r, q, mode, rev) ==
    /\ ~QuestionPending
    /\ rev # NoRun => plan[rev].status \in Approvable
    /\ InsertRun(r, q, mode, NoRun)
    /\ UNCHANGED <<plan, question, message>>

StartPlanExecution(r, p, q) ==
    /\ IsLatest(p)
    /\ plan[p].status \in Approvable
    /\ ~QuestionPending
    /\ InsertRun(r, q, "execute", p)
    /\ plan' = [plan EXCEPT ![p].status = "executing"]
    /\ UNCHANGED question
    /\ UpdateCards({p}, {})

StartQuestionAnswer(r, n, q) ==
    /\ question[n].status = "pending"
    /\ InsertRun(r, q, question[n].mode, NoRun)
    /\ question' = [question EXCEPT ![n].status = "answering",
                                    ![n].answerRun = r]
    /\ UNCHANGED plan
    /\ UpdateCards({}, {n})

-----------------------------------------------------------------------------
(* Cancelling a plan or a question, accepting an answer, saving a draft *)

\* Mutant: an executing plan can be cancelled under its run.
CancelPlanExecuting(p) ==
    /\ plan[p].status \in CurrentPlan
    /\ plan' = [plan EXCEPT ![p].status = "cancelled"]
    /\ UNCHANGED <<run, question>>
    /\ UpdateCards({p}, {})

CancelPlan(p) ==
    /\ plan[p].status \in Approvable
    /\ plan' = [plan EXCEPT ![p].status = "cancelled"]
    /\ UNCHANGED <<run, question>>
    /\ UpdateCards({p}, {})

CancelQuestion(n) ==
    /\ question[n].status = "pending"
    /\ question' = [question EXCEPT ![n].status = "cancelled"]
    /\ UNCHANGED <<run, plan>>
    /\ UpdateCards({}, {n})

AcceptQuestionAnswer(r, n) ==
    /\ run[r].status = "running"
    /\ question[n].answerRun = r
    /\ question[n].status = "answering"
    /\ question' = [question EXCEPT ![n].status = "answered"]
    /\ UNCHANGED <<run, plan>>
    /\ UpdateCards({}, {n})

\* Mutant: the draft is written without looking at the run's status.
SaveDraftAnyStatus(r) ==
    /\ run[r].status # "absent"
    /\ message' = [message EXCEPT ![r] = [body |-> "draft", plan |-> "none",
                                          question |-> "none"]]
    /\ UNCHANGED <<run, plan, question>>

\* The upsert replaces the parts of the message by those of the live reducer.
SaveDraft(r) ==
    /\ run[r].status = "running"
    /\ message' = [message EXCEPT ![r] = [body |-> "draft", plan |-> "none",
                                          question |-> "none"]]
    /\ UNCHANGED <<run, plan, question>>

-----------------------------------------------------------------------------
(* Finalize: the terminal state, the final message and what the run leaves   *)
(* behind, in one transaction.                                               *)

\* executeLiveRun asks for the first kind of input; interruptedFinalization,
\* the message-free fallback, for the second.
FullInput(s, mode) ==
    {in \in [status : {s}, makesPlan : BOOLEAN, asks : BOOLEAN,
             accepted : BOOLEAN, hasMessage : {TRUE}] :
        /\ in.makesPlan => s = "success" /\ mode = "plan"
        /\ in.asks <=> s = "waiting_input"}

FallbackInput(accepted) ==
    [status |-> "interrupted", makesPlan |-> FALSE, asks |-> FALSE,
     accepted |-> accepted, hasMessage |-> FALSE]

FinalizeInputs(mode) ==
    (UNION {FullInput(s, mode) : s \in Terminal})
        \cup {FallbackInput(a) : a \in BOOLEAN}

\* The question this run was answering: answered once the runtime accepted the
\* answer, offered again otherwise.
AnsweredBy(r) ==
    {n \in Runs : question[n].status = "answering" /\ question[n].answerRun = r}

SettledQuestions(r, accepted) ==
    [n \in Runs |->
        IF n \notin AnsweredBy(r) THEN question[n]
        ELSE IF accepted THEN [question[n] EXCEPT !.status = "answered"]
        ELSE [question[n] EXCEPT !.status = "pending", !.answerRun = NoRun]]

\* Inserting a second open question violates conversation_questions_one_current
\* and rolls the whole transaction back.
FinalizeQuestions(r, in) ==
    LET settled == SettledQuestions(r, in.accepted)
    IN  \/ ~in.asks /\ question' = settled
        \/ /\ in.asks
           /\ \A n \in Runs : settled[n].status \notin Open
           /\ \E v \in NextVersions(question) :
                question' = [settled EXCEPT ![r] =
                    [status |-> "pending", version |-> v,
                     mode |-> run[r].mode, answerRun |-> NoRun]]

Superseded(in) == IF in.makesPlan
                  THEN {p \in Runs : plan[p].status \in Approvable} ELSE {}

Executed(r) == IF run[r].mode = "execute" THEN {run[r].plan} \ {NoRun} ELSE {}

\* Mutant: a run that stops to ask leaves a plan that can be continued.
PlanAfterAsking(status) ==
    CASE status = "success" -> "completed"
      [] status = "error"   -> "failed"
      [] OTHER              -> "stopped"

PlanAfter(status) ==
    CASE status = "success"                       -> "completed"
      [] status \in {"cancelled", "interrupted"}  -> "stopped"
      [] OTHER                                    -> "failed"

FinalizePlans(r, in) ==
    \/ /\ in.makesPlan
       /\ \E v \in NextVersions(plan) :
            plan' = [p \in Runs |->
                IF p = r THEN [status |-> "ready", version |-> v]
                ELSE IF p \in Superseded(in)
                THEN [plan[p] EXCEPT !.status = "superseded"]
                ELSE plan[p]]
    \/ /\ ~in.makesPlan
       /\ plan' = [p \in Runs |->
            IF p \in Executed(r)
            THEN [plan[p] EXCEPT !.status = PlanAfter(in.status)]
            ELSE plan[p]]

FinalizeMessages(r, in) ==
    message' = [m \in Runs |->
        IF m = r /\ in.hasMessage
        THEN [body     |-> "final",
              plan     |-> IF in.makesPlan THEN "ready" ELSE "none",
              question |-> IF in.asks THEN "pending" ELSE "none"]
        ELSE [body     |-> message[m].body,
              plan     |-> PlanCard(m, Superseded(in) \cup Executed(r)),
              question |-> QuestionCard(m, AnsweredBy(r))]]

\* A terminal run is returned as it is.
Finalizable(r) == run[r].status = "running"

Finalize(r, in) ==
    /\ Finalizable(r)
    /\ FinalizeQuestions(r, in)
    /\ FinalizePlans(r, in)
    /\ run' = [run EXCEPT ![r].status = in.status,
                          ![r].plan = IF in.makesPlan THEN r ELSE @]
    /\ FinalizeMessages(r, in)

-----------------------------------------------------------------------------
(* Startup recovery: every run the previous process left running *)

Stale(n) == question[n].status = "answering" /\ question[n].answerRun \in Active

InterruptRunning ==
    LET stopped  == UNION {Executed(r) : r \in Active}
        answered == {n \in Runs : Stale(n)}
    IN  /\ Active # {}
        /\ run' = [r \in Runs |->
                IF r \in Active THEN [run[r] EXCEPT !.status = "interrupted"]
                ELSE run[r]]
        /\ plan' = [p \in Runs |->
                IF p \in stopped THEN [plan[p] EXCEPT !.status = "stopped"]
                ELSE plan[p]]
        /\ question' = [n \in Runs |->
                IF n \in answered THEN [question[n] EXCEPT !.status = "answered"]
                ELSE question[n]]
        /\ message' = [m \in Runs |->
                [body |-> IF m \in Active /\ message[m].body # "none"
                          THEN "closed" ELSE message[m].body,
                 plan |-> PlanCard(m, stopped),
                 question |-> QuestionCard(m, answered)]]

-----------------------------------------------------------------------------
Request == Requests \cup {NoRequest}

StartAny(r) == \E q \in Request, mode \in Mode, rev \in MaybeRun :
                    Start(r, q, mode, rev)
StartPlanExecutionAny(r) == \E p \in Runs, q \in Request :
                                StartPlanExecution(r, p, q)
StartQuestionAnswerAny(r) == \E n \in Runs, q \in Request :
                                StartQuestionAnswer(r, n, q)
FinalizeAny(r) == \E in \in FinalizeInputs(run[r].mode) : Finalize(r, in)

Next ==
    \/ \E r \in Runs :
        \/ StartAny(r)
        \/ StartPlanExecutionAny(r)
        \/ StartQuestionAnswerAny(r)
        \/ SaveDraft(r)
        \/ FinalizeAny(r)
        \/ CancelPlan(r)
        \/ CancelQuestion(r)
        \/ \E n \in Runs : AcceptQuestionAnswer(r, n)
    \/ InterruptRunning

Spec == Init /\ [][Next]_storeVars

-----------------------------------------------------------------------------
(* Safety *)

\* One running run per conversation (ADR-0019), over every transaction that
\* inserts a run or brings one to an end.
SingleFlight == \A r, s \in Active : r = s

\* A plan is "executing" exactly while a running execute run carries its
\* plan_id: no finalization, cancellation or restart strands an executing plan,
\* and none takes the status away from under its run.
ExecutingPlanHasItsRun ==
    \A p \in Runs :
        plan[p].status = "executing" <=>
            \E r \in Active : run[r].mode = "execute" /\ run[r].plan = p

\* An open question blocks the conversation: while it is pending nothing runs,
\* and while it is being answered only its answer run does.
OpenQuestionBlocksRuns ==
    \A n \in Runs :
        /\ question[n].status = "pending" => Active = {}
        /\ question[n].status = "answering" => Active = {question[n].answerRun}

\* At most one question is open, although Finalize may restore one question and
\* insert another.
AtMostOneOpenQuestion ==
    \A m, n \in Runs : question[m].status \in Open /\ question[n].status \in Open
                        => m = n

\* The plan the user may act on is unique and is the newest one, so the
\* conversation_plans_one_current index never refuses Finalize's INSERT.
CurrentPlanIsTheLatest ==
    \A p \in Runs : plan[p].status \in CurrentPlan =>
        \A o \in Runs \ {p} : /\ plan[o].status \notin CurrentPlan
                               /\ plan[o].version < plan[p].version

\* A plan's status is the summary of its execution runs, however often the plan
\* was stopped and continued.
Executions(p) == {r \in Runs : run[r].mode = "execute" /\ run[r].plan = p}
Ended(p, statuses) == \E r \in Executions(p) : run[r].status \in statuses

PlanStatusSumsUpExecutions ==
    \A p \in Runs :
        /\ plan[p].status \in {"none", "ready"} => Executions(p) = {}
        /\ plan[p].status = "stopped" => Executions(p) # {}
        /\ plan[p].status = "completed" <=> Ended(p, {"success"})
        /\ plan[p].status = "failed" <=> Ended(p, {"error", "waiting_input"})

\* The history shows what the rows say: the card in the source run's message
\* has the status of the plan, or of the question, at every moment.
CardsFollowRows ==
    \A m \in Runs : /\ message[m].plan = plan[m].status
                     /\ message[m].question = question[m].status

\* A terminal run that is not "interrupted" keeps the final message that was
\* committed with its status: no late draft replaces it (ADR-0019).
FinalMessageStays ==
    \A r \in Runs : run[r].status \in Terminal \ {"interrupted"}
                        => message[r].body = "final"

\* A plan moves only along its life cycle, whichever of Finalize,
\* StartPlanExecution, CancelPlan and InterruptRunning writes the row.
PlanMoves ==
    {<<"none", "ready">>, <<"ready", "executing">>, <<"ready", "superseded">>,
     <<"ready", "cancelled">>, <<"executing", "completed">>,
     <<"executing", "stopped">>, <<"executing", "failed">>,
     <<"stopped", "executing">>, <<"stopped", "superseded">>,
     <<"stopped", "cancelled">>}

PlanLifeCycle ==
    [][\A p \in Runs : \/ plan'[p].status = plan[p].status
                       \/ <<plan[p].status, plan'[p].status>> \in PlanMoves]_storeVars

-----------------------------------------------------------------------------
(* The tables implement the conversation the user is promised *)

StatusOf(table, statuses) ==
    IF \E n \in Runs : table[n].status \in statuses
    THEN table[CHOOSE n \in Runs : table[n].status \in statuses].status
    ELSE "none"

TurnOf(active) == IF active = {} THEN NoRun ELSE CHOOSE r \in Runs : r \in active

OutcomeOf(row) == IF row.status \in Terminal THEN row.status ELSE "none"

Turns == INSTANCE ConversationTurns WITH
    active   <- TurnOf(Active),
    outcome  <- [r \in Runs |-> OutcomeOf(run[r])],
    ask      <- StatusOf(question, Open),
    proposal <- StatusOf(plan, CurrentPlan)

\* Every transaction is one step of the promised conversation or invisible to
\* it; in particular a terminal status never changes (ADR-0019).
ImplementsTurns == Turns!Spec
=============================================================================
