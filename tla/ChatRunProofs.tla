--------------------------- MODULE ChatRunProofs ---------------------------
(***************************************************************************)
(* Proofs about the rows of the runs of one conversation and about the     *)
(* process around them, for every set of runs and of request ids.          *)
(*                                                                         *)
(* The store (ChatRunStore): the types, the safety of the rows, the status *)
(* of a plan as the sum of its executions, the action properties and the   *)
(* refinement of ConversationTurns.  Each transaction is first shown to    *)
(* keep TypeOK.                                                            *)
(*                                                                         *)
(* The controller (RunController): any number of attempts, whatever calls  *)
(* of the store fail or lose their acknowledgement; it implements the      *)
(* store, so what is proved of the store holds of it.                      *)
(*                                                                         *)
(* The clients (RunSubscription): whoever follows the run misses nothing.  *)
(***************************************************************************)
EXTENDS RunController, RunSubscription, SequenceTheorems, TLAPS

-----------------------------------------------------------------------------
(* Lemmas about what the transactions read *)

\* MAX(version) + 1 is a natural number greater than every version in use.
LEMMA NextVersionIsGreater ==
    ASSUME NEW table, \A r \in Runs : table[r].version \in Nat,
           NEW v \in NextVersions(table)
    PROVE  v \in Nat /\ \A r \in Runs : table[r].version < v
  BY DEF NextVersions

\* What executeLiveRun and interruptedFinalization hand to Finalize.
LEMMA InputFacts ==
    ASSUME NEW mode \in Mode, NEW in \in FinalizeInputs(mode)
    PROVE  /\ in.status \in Terminal
           /\ in.makesPlan \in BOOLEAN
           /\ in.asks \in BOOLEAN
           /\ in.accepted \in BOOLEAN
           /\ in.hasMessage \in BOOLEAN
           /\ in.makesPlan => in.status = "success" /\ mode = "plan" /\ in.hasMessage
           /\ in.asks => in.status = "waiting_input" /\ in.hasMessage
           /\ in.hasMessage \/ in.status = "interrupted"
  <1>1. ASSUME NEW s \in Terminal, in \in FullInput(s, mode)
        PROVE  /\ in.status \in Terminal
               /\ in.makesPlan \in BOOLEAN
               /\ in.asks \in BOOLEAN
               /\ in.accepted \in BOOLEAN
               /\ in.hasMessage \in BOOLEAN
               /\ in.makesPlan => in.status = "success" /\ mode = "plan" /\ in.hasMessage
               /\ in.asks => in.status = "waiting_input" /\ in.hasMessage
               /\ in.hasMessage
    <2>1. /\ in \in [status : {s}, makesPlan : BOOLEAN, asks : BOOLEAN,
                     accepted : BOOLEAN, hasMessage : {TRUE}]
          /\ in.makesPlan => s = "success" /\ mode = "plan"
          /\ in.asks <=> s = "waiting_input"
      BY <1>1 DEF FullInput
    <2>2. in.status = s /\ in.hasMessage = TRUE
      BY <2>1
    <2> QED BY <2>1, <2>2
  <1>2. ASSUME NEW a \in BOOLEAN, in = FallbackInput(a)
        PROVE  /\ in.status = "interrupted"
               /\ in.makesPlan = FALSE
               /\ in.asks = FALSE
               /\ in.accepted \in BOOLEAN
               /\ in.hasMessage = FALSE
    BY <1>2 DEF FallbackInput
  <1>3. \/ \E s \in Terminal : in \in FullInput(s, mode)
        \/ \E a \in BOOLEAN : in = FallbackInput(a)
    BY DEF FinalizeInputs
  <1> QED BY <1>1, <1>2, <1>3 DEF Terminal

LEMMA PlanAfterType ==
    ASSUME NEW s PROVE PlanAfter(s) \in {"completed", "stopped", "failed"}
  BY DEF PlanAfter

\* A card has the status of a row, or the status it had.
LEMMA CardTypes ==
    ASSUME TypeOK, plan' \in [Runs -> PlanRow], question' \in [Runs -> QuestionRow],
           NEW m \in Runs, NEW P, NEW Q
    PROVE  /\ PlanCard(m, P) \in PlanStatus \cup {"none"}
           /\ QuestionCard(m, Q) \in QuestionStatus \cup {"none"}
  <1>1. /\ plan'[m].status \in PlanStatus \cup {"none"}
        /\ question'[m].status \in QuestionStatus \cup {"none"}
        /\ message[m].plan \in PlanStatus \cup {"none"}
        /\ message[m].question \in QuestionStatus \cup {"none"}
    BY DEF TypeOK, PlanRow, QuestionRow, MessageRow
  <1> QED BY <1>1 DEF PlanCard, QuestionCard

LEMMA UpdateCardsType ==
    ASSUME TypeOK, plan' \in [Runs -> PlanRow], question' \in [Runs -> QuestionRow],
           NEW P, NEW Q, UpdateCards(P, Q)
    PROVE  message' \in [Runs -> MessageRow]
  BY CardTypes DEF UpdateCards, TypeOK, MessageRow

-----------------------------------------------------------------------------
(* Type correctness *)

LEMMA InsertRunType ==
    ASSUME TypeOK, NEW r \in Runs, NEW q \in Request, NEW mode \in Mode,
           NEW p \in MaybeRun, InsertRun(r, q, mode, p)
    PROVE  run' \in [Runs -> RunRow]
  BY DEF InsertRun, TypeOK, RunRow, RunStatus, Request, MaybeRun

LEMMA FinalizeType ==
    ASSUME TypeOK, NEW r \in Runs, NEW in \in FinalizeInputs(run[r].mode),
           Finalize(r, in)
    PROVE  TypeOK'
  <1> DEFINE mode == run[r].mode
  <1>1. mode \in Mode
    BY DEF TypeOK, RunRow
  <1>2. /\ in.status \in Terminal
        /\ in.makesPlan \in BOOLEAN
        /\ in.asks \in BOOLEAN
        /\ in.accepted \in BOOLEAN
    BY <1>1, InputFacts
  <1>3. run' \in [Runs -> RunRow]
    <2>1. PICK p \in MaybeRun : run' = [run EXCEPT ![r].status = in.status, ![r].plan = p]
      BY DEF Finalize, TypeOK, RunRow, MaybeRun
    <2>2. run[r] \in RunRow /\ in.status \in RunStatus
      BY <1>2 DEF TypeOK, RunStatus
    <2>3. [run[r] EXCEPT !.status = in.status, !.plan = p] \in RunRow
      BY <2>2 DEF RunRow
    <2>4. run' = [run EXCEPT ![r] = [run[r] EXCEPT !.status = in.status, !.plan = p]]
      BY <2>1
    <2> QED BY <2>3, <2>4 DEF TypeOK
  <1>4. \A n \in Runs : SettledQuestions(r, in.accepted)[n] \in QuestionRow
    BY DEF SettledQuestions, TypeOK, QuestionRow, QuestionStatus, MaybeRun
  <1>5. question' \in [Runs -> QuestionRow]
    <2>1. CASE question' = SettledQuestions(r, in.accepted)
      BY <2>1, <1>4 DEF SettledQuestions
    <2>2. CASE \E v \in NextVersions(question) :
                 question' = [SettledQuestions(r, in.accepted) EXCEPT ![r] =
                     [status |-> "pending", version |-> v,
                      mode |-> run[r].mode, answerRun |-> NoRun]]
      <3>1. PICK v \in NextVersions(question) :
                 question' = [SettledQuestions(r, in.accepted) EXCEPT ![r] =
                     [status |-> "pending", version |-> v,
                      mode |-> run[r].mode, answerRun |-> NoRun]]
        BY <2>2
      <3>2. v \in Nat
        BY NextVersionIsGreater DEF TypeOK, QuestionRow
      <3>3. [status |-> "pending", version |-> v,
             mode |-> run[r].mode, answerRun |-> NoRun] \in QuestionRow
        BY <3>2, <1>1 DEF QuestionRow, QuestionStatus, MaybeRun
      <3> QED BY <3>1, <3>3, <1>4 DEF SettledQuestions
    <2> QED BY <2>1, <2>2 DEF Finalize, FinalizeQuestions
  <1>6. plan' \in [Runs -> PlanRow]
    <2>1. CASE \E v \in NextVersions(plan) :
                 plan' = [p \in Runs |->
                    IF p = r THEN [status |-> "ready", version |-> v]
                    ELSE IF p \in Superseded(in)
                    THEN [plan[p] EXCEPT !.status = "superseded"]
                    ELSE plan[p]]
      <3>1. \A v \in NextVersions(plan) : v \in Nat
        BY NextVersionIsGreater DEF TypeOK, PlanRow
      <3> QED BY <2>1, <3>1 DEF TypeOK, PlanRow, PlanStatus
    <2>2. CASE plan' = [p \in Runs |->
                 IF p \in Executed(r)
                 THEN [plan[p] EXCEPT !.status = PlanAfter(in.status)]
                 ELSE plan[p]]
      BY <2>2, PlanAfterType DEF TypeOK, PlanRow, PlanStatus
    <2> QED BY <2>1, <2>2 DEF Finalize, FinalizePlans
  <1>7. message' \in [Runs -> MessageRow]
    BY <1>5, <1>6, CardTypes
       DEF Finalize, FinalizeMessages, TypeOK, MessageRow, PlanStatus, QuestionStatus
  <1> QED BY <1>3, <1>5, <1>6, <1>7 DEF TypeOK

LEMMA InterruptType ==
    ASSUME TypeOK, InterruptRunning PROVE TypeOK'
  <1>1. run' \in [Runs -> RunRow]
    BY DEF InterruptRunning, TypeOK, RunRow, RunStatus, Terminal
  <1>2. plan' \in [Runs -> PlanRow]
    BY DEF InterruptRunning, TypeOK, PlanRow, PlanStatus
  <1>3. question' \in [Runs -> QuestionRow]
    BY DEF InterruptRunning, TypeOK, QuestionRow, QuestionStatus
  <1>4. message' \in [Runs -> MessageRow]
    BY <1>2, <1>3, CardTypes DEF InterruptRunning, TypeOK, MessageRow
  <1> QED BY <1>1, <1>2, <1>3, <1>4 DEF TypeOK

LEMMA TypeStep == TypeOK /\ [Next]_storeVars => TypeOK'
  <1> SUFFICES ASSUME TypeOK, [Next]_storeVars PROVE TypeOK'
    OBVIOUS
  <1>1. CASE UNCHANGED storeVars
    BY <1>1 DEF storeVars, TypeOK
  <1>2. CASE InterruptRunning
    BY <1>2, InterruptType
  <1>3. ASSUME NEW r \in Runs, NEW q \in Request, NEW mode \in Mode,
               NEW rev \in MaybeRun, Start(r, q, mode, rev)
        PROVE  TypeOK'
    BY <1>3, InsertRunType DEF Start, TypeOK, MaybeRun
  <1>4. ASSUME NEW r \in Runs, NEW p \in Runs, NEW q \in Request,
               StartPlanExecution(r, p, q)
        PROVE  TypeOK'
    <2>1. run' \in [Runs -> RunRow]
      BY <1>4, InsertRunType DEF StartPlanExecution, MaybeRun, Mode
    <2>2. plan' \in [Runs -> PlanRow] /\ question' \in [Runs -> QuestionRow]
      BY <1>4 DEF StartPlanExecution, TypeOK, PlanRow, PlanStatus
    <2>3. message' \in [Runs -> MessageRow]
      BY <1>4, <2>2, UpdateCardsType DEF StartPlanExecution
    <2> QED BY <2>1, <2>2, <2>3 DEF TypeOK
  <1>5. ASSUME NEW r \in Runs, NEW n \in Runs, NEW q \in Request,
               StartQuestionAnswer(r, n, q)
        PROVE  TypeOK'
    <2>0. question[n].mode \in Mode
      BY DEF TypeOK, QuestionRow
    <2>1. run' \in [Runs -> RunRow]
      BY <1>5, <2>0, InsertRunType DEF StartQuestionAnswer, MaybeRun
    <2>2. plan' \in [Runs -> PlanRow] /\ question' \in [Runs -> QuestionRow]
      <3>1. [question[n] EXCEPT !.status = "answering", !.answerRun = r] \in QuestionRow
        BY DEF TypeOK, QuestionRow, QuestionStatus, MaybeRun
      <3>2. question' = [question EXCEPT ![n] =
                            [question[n] EXCEPT !.status = "answering", !.answerRun = r]]
        BY <1>5 DEF StartQuestionAnswer
      <3>3. UNCHANGED plan
        BY <1>5 DEF StartQuestionAnswer
      <3> QED BY <3>1, <3>2, <3>3 DEF TypeOK
    <2>3. message' \in [Runs -> MessageRow]
      BY <1>5, <2>2, UpdateCardsType DEF StartQuestionAnswer
    <2> QED BY <2>1, <2>2, <2>3 DEF TypeOK
  <1>6. ASSUME NEW r \in Runs, SaveDraft(r) PROVE TypeOK'
    BY <1>6 DEF SaveDraft, TypeOK, MessageRow
  <1>7. ASSUME NEW r \in Runs, FinalizeAny(r) PROVE TypeOK'
    BY <1>7, FinalizeType DEF FinalizeAny
  <1>8. ASSUME NEW p \in Runs, CancelPlan(p) PROVE TypeOK'
    <2>1. plan' \in [Runs -> PlanRow] /\ question' \in [Runs -> QuestionRow]
      BY <1>8 DEF CancelPlan, TypeOK, PlanRow, PlanStatus
    <2> QED BY <1>8, <2>1, UpdateCardsType DEF CancelPlan, TypeOK
  <1>9. ASSUME NEW n \in Runs, CancelQuestion(n) PROVE TypeOK'
    <2>1. plan' \in [Runs -> PlanRow] /\ question' \in [Runs -> QuestionRow]
      BY <1>9 DEF CancelQuestion, TypeOK, QuestionRow, QuestionStatus
    <2> QED BY <1>9, <2>1, UpdateCardsType DEF CancelQuestion, TypeOK
  <1>10. ASSUME NEW r \in Runs, NEW n \in Runs, AcceptQuestionAnswer(r, n)
         PROVE  TypeOK'
    <2>1. plan' \in [Runs -> PlanRow] /\ question' \in [Runs -> QuestionRow]
      BY <1>10 DEF AcceptQuestionAnswer, TypeOK, QuestionRow, QuestionStatus
    <2> QED BY <1>10, <2>1, UpdateCardsType DEF AcceptQuestionAnswer, TypeOK
  <1> QED
    BY <1>1, <1>2, <1>3, <1>4, <1>5, <1>6, <1>7, <1>8, <1>9, <1>10
       DEF Next, StartAny, StartPlanExecutionAny, StartQuestionAnswerAny

\* Every row keeps a legal shape, whatever transactions run.
THEOREM TypeCorrect == Spec => []TypeOK
  <1>1. Init => TypeOK
    BY DEF Init, TypeOK, RunRow, RunStatus, Mode, MaybeRun, PlanRow, QuestionRow,
           MessageRow
  <1> QED BY <1>1, TypeStep, PTL DEF Spec

-----------------------------------------------------------------------------
(***************************************************************************)
(* Safety.  CouplingInv is inductive with TypeOK: a plan or a question is  *)
(* bound to the running run that executes or answers it, in both           *)
(* directions, and that is what makes each of the four properties survive  *)
(* Finalize and InterruptRunning, which end the run and settle what it was *)
(* bound to.                                                               *)
(***************************************************************************)

CouplingInv ==
    /\ SingleFlight
    /\ ExecutingPlanHasItsRun
    /\ OpenQuestionBlocksRuns
    /\ AtMostOneOpenQuestion

LEMMA InsertedRunIsTheOnlyOne ==
    ASSUME TypeOK, NEW r \in Runs, NEW q, NEW mode, NEW p, InsertRun(r, q, mode, p)
    PROVE  /\ Active = {}
           /\ Active' = {r}
           /\ run'[r].mode = mode
           /\ run'[r].plan = p
           /\ SingleFlight'
  <1>1. /\ run'[r] = [status |-> "running", mode |-> mode, request |-> q, plan |-> p]
        /\ \A s \in Runs \ {r} : run'[s] = run[s]
        /\ Active = {}
    BY DEF InsertRun, TypeOK
  <1> QED BY <1>1 DEF Active, SingleFlight

\* What Finalize does to the rows, without the case distinctions of its text.
LEMMA FinalizeEffect ==
    ASSUME TypeOK, CouplingInv, NEW r \in Runs,
           NEW in \in FinalizeInputs(run[r].mode), Finalize(r, in)
    PROVE  /\ Active = {r}
           /\ Active' = {}
           /\ \A p \in Runs : plan'[p].status # "executing"
           /\ \A n \in Runs : question'[n].status # "answering"
           /\ AtMostOneOpenQuestion'
  <1>0. run[r].mode \in Mode
    BY DEF TypeOK, RunRow
  <1>1. in.status \in Terminal /\ (in.makesPlan => run[r].mode = "plan")
    BY <1>0, InputFacts
  <1>2. Active = {r}
    BY DEF Finalize, Finalizable, Active, CouplingInv, SingleFlight
  <1>3. /\ run'[r].status = in.status
        /\ \A s \in Runs \ {r} : run'[s] = run[s]
    BY DEF Finalize, TypeOK
  <1>4. Active' = {}
    BY <1>1, <1>2, <1>3 DEF Active, Terminal
  <1>5. ASSUME NEW p \in Runs PROVE plan'[p].status # "executing"
    <2>1. CASE in.makesPlan
      <3>1. plan[p].status # "executing"
        BY <1>1, <1>2, <2>1 DEF CouplingInv, ExecutingPlanHasItsRun, Mode
      <3>2. \/ plan'[p].status \in {"ready", "superseded"}
            \/ plan'[p].status = plan[p].status
        BY <2>1 DEF Finalize, FinalizePlans, TypeOK, PlanRow
      <3> QED BY <3>1, <3>2
    <2>2. CASE ~in.makesPlan
      <3>1. plan' = [o \in Runs |->
                IF o \in Executed(r)
                THEN [plan[o] EXCEPT !.status = PlanAfter(in.status)]
                ELSE plan[o]]
        BY <2>2 DEF Finalize, FinalizePlans
      <3>2. CASE p \in Executed(r)
        BY <3>1, <3>2, PlanAfterType DEF TypeOK, PlanRow
      <3>3. CASE p \notin Executed(r)
        <4>1. plan[p].status # "executing"
          BY <1>2, <3>3, NoRunAssumption
             DEF CouplingInv, ExecutingPlanHasItsRun, Executed
        <4> QED BY <4>1, <3>1, <3>3
      <3> QED BY <3>2, <3>3
    <2> QED BY <2>1, <2>2
  <1> DEFINE settled == SettledQuestions(r, in.accepted)
  <1>6. \A n \in Runs :
            /\ settled[n].status # "answering"
            /\ settled[n].status \in Open => question[n].status \in Open
    <2> SUFFICES ASSUME NEW n \in Runs
                 PROVE  /\ settled[n].status # "answering"
                        /\ settled[n].status \in Open => question[n].status \in Open
      OBVIOUS
    <2>1. CASE n \in AnsweredBy(r)
      BY <2>1 DEF SettledQuestions, AnsweredBy, Open, TypeOK, QuestionRow
    <2>2. CASE n \notin AnsweredBy(r)
      <3>1. settled[n] = question[n]
        BY <2>2 DEF SettledQuestions
      <3>2. question[n].status # "answering"
        BY <1>2, <2>2 DEF AnsweredBy, CouplingInv, OpenQuestionBlocksRuns
      <3> QED BY <3>1, <3>2
    <2> QED BY <2>1, <2>2
  <1>7. CASE question' = settled
    BY <1>2, <1>4, <1>5, <1>6, <1>7 DEF CouplingInv, AtMostOneOpenQuestion
  <1>8. CASE /\ \A n \in Runs : settled[n].status \notin Open
             /\ \E v \in NextVersions(question) :
                  question' = [settled EXCEPT ![r] =
                      [status |-> "pending", version |-> v,
                       mode |-> run[r].mode, answerRun |-> NoRun]]
    <2>0. PICK v \in NextVersions(question) :
              question' = [settled EXCEPT ![r] =
                  [status |-> "pending", version |-> v,
                   mode |-> run[r].mode, answerRun |-> NoRun]]
      BY <1>8
    <2>1. /\ question'[r].status = "pending"
          /\ \A n \in Runs \ {r} : question'[n] = settled[n]
      <3>1. DOMAIN settled = Runs
        BY DEF SettledQuestions
      <3> HIDE DEF settled
      <3> QED BY <2>0, <3>1
    <2>2. \A n \in Runs : question'[n].status # "answering"
      BY <1>6, <2>1
    <2>3. \A n \in Runs \ {r} : question'[n].status \notin Open
      BY <1>8, <2>1
    <2>4. AtMostOneOpenQuestion'
      BY <2>3 DEF AtMostOneOpenQuestion
    <2> QED BY <1>2, <1>4, <1>5, <2>2, <2>4
  <1> QED BY <1>7, <1>8 DEF Finalize, FinalizeQuestions

LEMMA InterruptEffect ==
    ASSUME TypeOK, CouplingInv, InterruptRunning
    PROVE  /\ Active' = {}
           /\ \A p \in Runs : plan'[p].status # "executing"
           /\ \A n \in Runs : question'[n].status \notin Open
  <1>1. Active' = {}
    BY DEF InterruptRunning, Active, TypeOK, RunRow
  <1>2. ASSUME NEW p \in Runs PROVE plan'[p].status # "executing"
    <2> DEFINE stopped == UNION {Executed(r) : r \in Active}
    <2>1. plan' = [o \in Runs |->
              IF o \in stopped THEN [plan[o] EXCEPT !.status = "stopped"]
              ELSE plan[o]]
      BY DEF InterruptRunning
    <2>2. CASE p \in stopped
      BY <2>1, <2>2 DEF TypeOK, PlanRow
    <2>3. CASE p \notin stopped
      <3>1. \A r \in Active : p \notin Executed(r)
        BY <2>3
      <3>2. plan[p].status # "executing"
        BY <3>1, NoRunAssumption DEF CouplingInv, ExecutingPlanHasItsRun, Executed
      <3> QED BY <2>1, <2>3, <3>2
    <2> QED BY <2>2, <2>3
  <1>3. ASSUME NEW n \in Runs PROVE question'[n].status \notin Open
    <2>1. Active # {} /\ question[n].status # "pending"
      BY DEF InterruptRunning, CouplingInv, OpenQuestionBlocksRuns
    <2>2. question' = [m \in Runs |->
              IF m \in {o \in Runs : Stale(o)}
              THEN [question[m] EXCEPT !.status = "answered"] ELSE question[m]]
      BY DEF InterruptRunning
    <2>3. CASE Stale(n)
      BY <2>2, <2>3 DEF TypeOK, QuestionRow, Open
    <2>4. CASE ~Stale(n)
      <3>1. question[n].status # "answering"
        BY <2>4 DEF Stale, CouplingInv, OpenQuestionBlocksRuns
      <3> QED BY <2>1, <2>2, <2>4, <3>1 DEF Open
    <2> QED BY <2>3, <2>4
  <1> QED BY <1>1, <1>2, <1>3

LEMMA CouplingStep ==
    ASSUME TypeOK, CouplingInv, [Next]_storeVars PROVE CouplingInv'
  <1> USE DEF CouplingInv
  <1>1. CASE UNCHANGED storeVars
    BY <1>1 DEF storeVars, SingleFlight, ExecutingPlanHasItsRun,
                OpenQuestionBlocksRuns, AtMostOneOpenQuestion, Active
  <1>2. CASE InterruptRunning
    BY <1>2, InterruptEffect
       DEF SingleFlight, ExecutingPlanHasItsRun, OpenQuestionBlocksRuns,
           AtMostOneOpenQuestion, Open
  <1>3. ASSUME NEW r \in Runs, NEW q \in Request, NEW mode \in Mode,
               NEW rev \in MaybeRun, Start(r, q, mode, rev)
        PROVE  CouplingInv'
    <2>1. Active = {} /\ Active' = {r} /\ run'[r].plan = NoRun /\ SingleFlight'
      BY <1>3, InsertedRunIsTheOnlyOne DEF Start
    <2>2. ExecutingPlanHasItsRun'
      BY <1>3, <2>1, NoRunAssumption DEF Start, ExecutingPlanHasItsRun
    <2>3. OpenQuestionBlocksRuns' /\ AtMostOneOpenQuestion'
      BY <1>3, <2>1 DEF Start, QuestionPending, OpenQuestionBlocksRuns,
                        AtMostOneOpenQuestion, Open
    <2> QED BY <2>1, <2>2, <2>3
  <1>4. ASSUME NEW r \in Runs, NEW p \in Runs, NEW q \in Request,
               StartPlanExecution(r, p, q)
        PROVE  CouplingInv'
    <2>1. /\ Active = {} /\ Active' = {r} /\ SingleFlight'
          /\ run'[r].plan = p /\ run'[r].mode = "execute"
      BY <1>4, InsertedRunIsTheOnlyOne DEF StartPlanExecution
    <2>2. /\ plan'[p].status = "executing"
          /\ \A o \in Runs \ {p} : plan'[o] = plan[o]
      BY <1>4 DEF StartPlanExecution, TypeOK, PlanRow
    <2>3. ExecutingPlanHasItsRun'
      BY <2>1, <2>2 DEF ExecutingPlanHasItsRun
    <2>4. OpenQuestionBlocksRuns' /\ AtMostOneOpenQuestion'
      BY <1>4 DEF StartPlanExecution, QuestionPending, OpenQuestionBlocksRuns,
                  AtMostOneOpenQuestion, Open
    <2> QED BY <2>1, <2>3, <2>4
  <1>5. ASSUME NEW r \in Runs, NEW n \in Runs, NEW q \in Request,
               StartQuestionAnswer(r, n, q)
        PROVE  CouplingInv'
    <2>1. Active = {} /\ Active' = {r} /\ run'[r].plan = NoRun /\ SingleFlight'
      BY <1>5, InsertedRunIsTheOnlyOne DEF StartQuestionAnswer
    <2>2. ExecutingPlanHasItsRun'
      BY <1>5, <2>1, NoRunAssumption
         DEF StartQuestionAnswer, ExecutingPlanHasItsRun
    <2>3. /\ question'[n].status = "answering" /\ question'[n].answerRun = r
          /\ question[n].status = "pending"
          /\ \A m \in Runs \ {n} : question'[m] = question[m]
      BY <1>5 DEF StartQuestionAnswer, TypeOK, QuestionRow
    <2>4. \A m \in Runs \ {n} : question[m].status \notin Open
      BY <2>3 DEF AtMostOneOpenQuestion, Open
    <2>5. OpenQuestionBlocksRuns' /\ AtMostOneOpenQuestion'
      BY <2>1, <2>3, <2>4 DEF OpenQuestionBlocksRuns, AtMostOneOpenQuestion, Open
    <2> QED BY <2>1, <2>2, <2>5
  <1>6. ASSUME NEW r \in Runs, SaveDraft(r) PROVE CouplingInv'
    BY <1>6 DEF SaveDraft, SingleFlight, ExecutingPlanHasItsRun,
                OpenQuestionBlocksRuns, AtMostOneOpenQuestion, Active
  <1>7. ASSUME NEW r \in Runs, FinalizeAny(r) PROVE CouplingInv'
    <2>1. PICK in \in FinalizeInputs(run[r].mode) : Finalize(r, in)
      BY <1>7 DEF FinalizeAny
    <2>2. /\ Active' = {}
          /\ \A p \in Runs : plan'[p].status # "executing"
          /\ \A n \in Runs : question'[n].status # "answering"
          /\ AtMostOneOpenQuestion'
      BY <2>1, FinalizeEffect
    <2> QED BY <2>2 DEF SingleFlight, ExecutingPlanHasItsRun, OpenQuestionBlocksRuns
  <1>8. ASSUME NEW p \in Runs, CancelPlan(p) PROVE CouplingInv'
    <2>1. /\ plan[p].status # "executing" /\ plan'[p].status = "cancelled"
          /\ \A o \in Runs \ {p} : plan'[o] = plan[o]
          /\ run' = run /\ question' = question
      BY <1>8 DEF CancelPlan, Approvable, TypeOK, PlanRow
    <2> QED BY <2>1 DEF SingleFlight, ExecutingPlanHasItsRun,
                        OpenQuestionBlocksRuns, AtMostOneOpenQuestion, Active
  <1>9. ASSUME NEW n \in Runs, CancelQuestion(n) PROVE CouplingInv'
    <2>1. /\ question'[n].status = "cancelled"
          /\ \A m \in Runs \ {n} : question'[m] = question[m]
          /\ run' = run /\ plan' = plan
      BY <1>9 DEF CancelQuestion, TypeOK, QuestionRow
    <2> QED BY <2>1 DEF SingleFlight, ExecutingPlanHasItsRun,
                        OpenQuestionBlocksRuns, AtMostOneOpenQuestion, Active, Open
  <1>10. ASSUME NEW r \in Runs, NEW n \in Runs, AcceptQuestionAnswer(r, n)
         PROVE  CouplingInv'
    <2>1. /\ question'[n].status = "answered"
          /\ \A m \in Runs \ {n} : question'[m] = question[m]
          /\ run' = run /\ plan' = plan
      BY <1>10 DEF AcceptQuestionAnswer, TypeOK, QuestionRow
    <2> QED BY <2>1 DEF SingleFlight, ExecutingPlanHasItsRun,
                        OpenQuestionBlocksRuns, AtMostOneOpenQuestion, Active, Open
  <1> QED
    BY <1>1, <1>2, <1>3, <1>4, <1>5, <1>6, <1>7, <1>8, <1>9, <1>10
       DEF Next, StartAny, StartPlanExecutionAny, StartQuestionAnswerAny

LEMMA CouplingInit == Init => CouplingInv
  BY DEF Init, CouplingInv, SingleFlight, ExecutingPlanHasItsRun,
         OpenQuestionBlocksRuns, AtMostOneOpenQuestion, Active, Open

\* A running run and the plan or question it serves agree at every moment.
THEOREM CouplingHolds == Spec => []CouplingInv
  <1>1. TypeOK /\ CouplingInv /\ [Next]_storeVars => CouplingInv'
    BY CouplingStep
  <1> QED BY CouplingInit, <1>1, TypeCorrect, PTL DEF Spec

\* Start, StartPlanExecution and StartQuestionAnswer never leave two running runs.
THEOREM OneRunningRun == Spec => []SingleFlight
  BY CouplingHolds, PTL DEF CouplingInv

\* However a run ends, and across a restart, a plan is "executing" exactly while
\* its run is running.
THEOREM ExecutingPlansAreRunning == Spec => []ExecutingPlanHasItsRun
  BY CouplingHolds, PTL DEF CouplingInv

\* No run but the answer's starts or runs while a question is open.
THEOREM OpenQuestionsBlock == Spec => []OpenQuestionBlocksRuns
  BY CouplingHolds, PTL DEF CouplingInv

\* Finalize restores one question or inserts another, never both.
THEOREM OneOpenQuestion == Spec => []AtMostOneOpenQuestion
  BY CouplingHolds, PTL DEF CouplingInv

-----------------------------------------------------------------------------
(***************************************************************************)
(* The plan the user may act on.                                           *)
(***************************************************************************)

\* A step that makes no row current and renumbers none keeps the property.
LEMMA NoNewCurrentPlan ==
    ASSUME CurrentPlanIsTheLatest,
           \A p \in Runs : plan'[p].version = plan[p].version,
           \A p \in Runs : plan'[p].status \in CurrentPlan
                            => plan[p].status \in CurrentPlan
    PROVE  CurrentPlanIsTheLatest'
  BY DEF CurrentPlanIsTheLatest

LEMMA CurrentPlanFinalize ==
    ASSUME TypeOK, CouplingInv, CurrentPlanIsTheLatest, NEW r \in Runs,
           NEW in \in FinalizeInputs(run[r].mode), Finalize(r, in)
    PROVE  CurrentPlanIsTheLatest'
  <1>1. Active = {r}
    BY FinalizeEffect
  <1>2. run[r].mode \in Mode
    BY DEF TypeOK, RunRow
  <1>3. CASE in.makesPlan
    <2>1. PICK v \in NextVersions(plan) :
            plan' = [p \in Runs |->
                IF p = r THEN [status |-> "ready", version |-> v]
                ELSE IF p \in Superseded(in)
                THEN [plan[p] EXCEPT !.status = "superseded"]
                ELSE plan[p]]
      BY <1>3 DEF Finalize, FinalizePlans
    <2>2. \A p \in Runs : plan[p].version \in Nat
      BY DEF TypeOK, PlanRow
    <2>3. \A p \in Runs : plan[p].version < v
      BY <2>2, NextVersionIsGreater
    <2>4. plan'[r].version = v
      BY <2>1
    <2>5. ASSUME NEW p \in Runs \ {r}
          PROVE  plan'[p].version = plan[p].version /\ plan'[p].status \notin CurrentPlan
      <3>1. plan[p].status # "executing"
        BY <1>1, <1>2, <1>3, InputFacts
           DEF CouplingInv, ExecutingPlanHasItsRun, Mode
      <3>2. CASE p \in Superseded(in)
        <4>1. plan'[p] = [plan[p] EXCEPT !.status = "superseded"]
          BY <2>1, <3>2
        <4> QED BY <4>1 DEF TypeOK, PlanRow, CurrentPlan
      <3>3. CASE p \notin Superseded(in)
        <4>1. plan'[p] = plan[p] /\ plan[p].status \notin Approvable
          BY <1>3, <2>1, <3>3 DEF Superseded
        <4> QED BY <3>1, <4>1 DEF Approvable, CurrentPlan
      <3> QED BY <3>2, <3>3
    <2> QED BY <2>3, <2>4, <2>5 DEF CurrentPlanIsTheLatest
  <1>4. CASE ~in.makesPlan
    <2>1. plan' = [p \in Runs |->
              IF p \in Executed(r)
              THEN [plan[p] EXCEPT !.status = PlanAfter(in.status)]
              ELSE plan[p]]
      BY <1>4 DEF Finalize, FinalizePlans
    <2>2. \A p \in Executed(r) \cap Runs : plan[p].status = "executing"
      BY <1>1 DEF Executed, CouplingInv, ExecutingPlanHasItsRun
    <2>3. \A p \in Runs : plan'[p].version = plan[p].version
      BY <2>1 DEF TypeOK, PlanRow
    <2>4. \A p \in Runs : plan'[p].status \in CurrentPlan => plan[p].status \in CurrentPlan
      BY <2>1, <2>2 DEF CurrentPlan
    <2> QED BY <2>3, <2>4, NoNewCurrentPlan
  <1> QED BY <1>2, <1>3, <1>4, InputFacts

LEMMA CurrentPlanStep ==
    ASSUME TypeOK, CouplingInv, CurrentPlanIsTheLatest, [Next]_storeVars
    PROVE  CurrentPlanIsTheLatest'
  <1>1. CASE plan' = plan
    BY <1>1 DEF CurrentPlanIsTheLatest
  <1>2. CASE InterruptRunning
    <2> DEFINE stopped == UNION {Executed(r) : r \in Active}
    <2>1. plan' = [p \in Runs |->
              IF p \in stopped THEN [plan[p] EXCEPT !.status = "stopped"]
              ELSE plan[p]]
      BY <1>2 DEF InterruptRunning
    <2>2. ASSUME NEW p \in Runs, p \in stopped PROVE plan[p].status = "executing"
      <3>1. PICK r \in Active : p \in Executed(r)
        BY <2>2
      <3> QED BY <3>1 DEF Executed, CouplingInv, ExecutingPlanHasItsRun
    <2> HIDE DEF stopped
    <2>3. \A p \in Runs : plan'[p].version = plan[p].version
      BY <2>1 DEF TypeOK, PlanRow
    <2>4. \A p \in Runs : plan'[p].status \in CurrentPlan => plan[p].status \in CurrentPlan
      BY <2>1, <2>2 DEF CurrentPlan
    <2> QED BY <2>3, <2>4, NoNewCurrentPlan
  <1>3. ASSUME NEW r \in Runs, NEW p \in Runs, NEW q \in Request,
               StartPlanExecution(r, p, q)
        PROVE  CurrentPlanIsTheLatest'
    <2>1. /\ \A o \in Runs : plan'[o].version = plan[o].version
          /\ \A o \in Runs \ {p} : plan'[o] = plan[o]
          /\ plan[p].status \in CurrentPlan
      BY <1>3 DEF StartPlanExecution, TypeOK, PlanRow, Approvable, CurrentPlan
    <2> QED BY <2>1, NoNewCurrentPlan
  <1>4. ASSUME NEW p \in Runs, CancelPlan(p) PROVE CurrentPlanIsTheLatest'
    <2>1. /\ \A o \in Runs : plan'[o].version = plan[o].version
          /\ \A o \in Runs \ {p} : plan'[o] = plan[o]
          /\ plan[p].status \in CurrentPlan
      BY <1>4 DEF CancelPlan, TypeOK, PlanRow, Approvable, CurrentPlan
    <2> QED BY <2>1, NoNewCurrentPlan
  <1>5. ASSUME NEW r \in Runs, FinalizeAny(r) PROVE CurrentPlanIsTheLatest'
    BY <1>5, CurrentPlanFinalize DEF FinalizeAny
  <1> QED
    BY <1>1, <1>2, <1>3, <1>4, <1>5
       DEF Next, StartAny, StartPlanExecutionAny, StartQuestionAnswerAny, Start,
           StartQuestionAnswer, SaveDraft, CancelQuestion, AcceptQuestionAnswer,
           storeVars

\* There is at most one plan to approve, continue or watch, and no newer one.
THEOREM CurrentPlanIsUnique == Spec => []CurrentPlanIsTheLatest
  <1>1. Init => CurrentPlanIsTheLatest
    BY DEF Init, CurrentPlanIsTheLatest, CurrentPlan
  <1>2. TypeOK /\ CouplingInv /\ CurrentPlanIsTheLatest /\ [Next]_storeVars
        => CurrentPlanIsTheLatest'
    BY CurrentPlanStep
  <1> QED BY <1>1, <1>2, TypeCorrect, CouplingHolds, PTL DEF Spec

-----------------------------------------------------------------------------
(***************************************************************************)
(* The history.  SaveDraft overwrites a whole message, so the cards are    *)
(* safe only because a run that can still save a draft has produced no     *)
(* plan and no question yet.                                               *)
(***************************************************************************)

NothingBeforeTheEnd ==
    \A r \in Runs : run[r].status \in {"absent", "running"} =>
        plan[r].status = "none" /\ question[r].status = "none"

HistoryInv == NothingBeforeTheEnd /\ CardsFollowRows

\* A card whose row changed is rewritten; a row that does not exist has none.
LEMMA CardFollowsRow ==
    ASSUME CardsFollowRows, NEW m \in Runs, NEW P, NEW Q,
           plan'[m].status # plan[m].status => m \in P /\ plan[m].status # "none",
           question'[m].status # question[m].status
               => m \in Q /\ question[m].status # "none"
    PROVE  PlanCard(m, P) = plan'[m].status /\ QuestionCard(m, Q) = question'[m].status
  BY DEF CardsFollowRows, PlanCard, QuestionCard

\* The steps that change rows only through UpdateCards.
LEMMA UpdateCardsKeepsHistory ==
    ASSUME HistoryInv, NEW P, NEW Q, UpdateCards(P, Q),
           \A m \in Runs : plan'[m].status # plan[m].status
                            => m \in P /\ plan[m].status # "none",
           \A m \in Runs : question'[m].status # question[m].status
                            => m \in Q /\ question[m].status # "none",
           \A r \in Runs : run'[r].status \in {"absent", "running"}
                            => run[r].status \in {"absent", "running"}
    PROVE  HistoryInv'
  <1>1. NothingBeforeTheEnd'
    BY DEF HistoryInv, NothingBeforeTheEnd
  <1>2. \A m \in Runs : /\ PlanCard(m, P) = plan'[m].status
                        /\ QuestionCard(m, Q) = question'[m].status
    BY CardFollowsRow DEF HistoryInv
  <1>3. CardsFollowRows'
    BY <1>2 DEF UpdateCards, CardsFollowRows
  <1> QED BY <1>1, <1>3 DEF HistoryInv

LEMMA InsertRunStatus ==
    ASSUME TypeOK, NEW r \in Runs, NEW q, NEW mode, NEW p, InsertRun(r, q, mode, p),
           NEW s \in Runs, run'[s].status \in {"absent", "running"}
    PROVE  run[s].status \in {"absent", "running"}
  BY DEF InsertRun, TypeOK

LEMMA HistoryFinalize ==
    ASSUME TypeOK, CouplingInv, HistoryInv, NEW r \in Runs,
           NEW in \in FinalizeInputs(run[r].mode), Finalize(r, in)
    PROVE  HistoryInv'
  <1> DEFINE touched == Superseded(in) \cup Executed(r)
  <1>0. run[r].mode \in Mode
    BY DEF TypeOK, RunRow
  <1>1. /\ in.status \in Terminal
        /\ in.makesPlan \in BOOLEAN
        /\ in.asks \in BOOLEAN
        /\ in.makesPlan => in.hasMessage /\ run[r].mode = "plan"
        /\ in.asks => in.hasMessage
    BY <1>0, InputFacts
  <1>2. Active = {r}
    BY FinalizeEffect
  <1>3. run[r].status = "running" /\ plan[r].status = "none" /\ question[r].status = "none"
    BY DEF Finalize, Finalizable, HistoryInv, NothingBeforeTheEnd
  <1>4. /\ run'[r].status = in.status
        /\ \A s \in Runs \ {r} : run'[s] = run[s]
    BY DEF Finalize, TypeOK
  <1>5. \A p \in Executed(r) \cap Runs : plan[p].status = "executing"
    BY <1>2 DEF Executed, CouplingInv, ExecutingPlanHasItsRun
  <1>6. ASSUME NEW m \in Runs \ {r}, plan'[m].status # plan[m].status
        PROVE  m \in touched /\ plan[m].status # "none"
    <2>1. CASE in.makesPlan
      <3>1. m \in Superseded(in)
        BY <1>6, <2>1 DEF Finalize, FinalizePlans
      <3> QED BY <2>1, <3>1 DEF Superseded, Approvable
    <2>2. CASE ~in.makesPlan
      <3>1. m \in Executed(r)
        BY <1>6, <2>2 DEF Finalize, FinalizePlans
      <3> QED BY <1>5, <3>1
    <2> QED BY <2>1, <2>2
  <1>7. ASSUME NEW m \in Runs \ {r}, question'[m].status # question[m].status
        PROVE  m \in AnsweredBy(r) /\ question[m].status # "none"
    <2> DEFINE settled == SettledQuestions(r, in.accepted)
    <2>1. DOMAIN settled = Runs
      BY DEF SettledQuestions
    <2>2. question'[m] = settled[m]
      <3> HIDE DEF settled
      <3>1. CASE question' = settled
        BY <3>1
      <3>2. CASE \E v \in NextVersions(question) :
                    question' = [settled EXCEPT ![r] =
                        [status |-> "pending", version |-> v,
                         mode |-> run[r].mode, answerRun |-> NoRun]]
        BY <3>2, <2>1
      <3> QED BY <3>1, <3>2 DEF Finalize, FinalizeQuestions, settled
    <2>3. m \in AnsweredBy(r)
      BY <1>7, <2>2 DEF SettledQuestions
    <2> QED BY <2>3 DEF AnsweredBy
  <1>8. /\ plan'[r].status = IF in.makesPlan THEN "ready" ELSE "none"
        /\ question'[r].status = IF in.asks THEN "pending" ELSE "none"
    <2>1. r \notin Executed(r) /\ r \notin AnsweredBy(r)
      BY <1>3, <1>5 DEF AnsweredBy
    <2>2. plan'[r].status = IF in.makesPlan THEN "ready" ELSE "none"
      BY <1>1, <1>3, <2>1 DEF Finalize, FinalizePlans
    <2> DEFINE settled == SettledQuestions(r, in.accepted)
    <2>3. DOMAIN settled = Runs /\ settled[r] = question[r]
      BY <2>1 DEF SettledQuestions
    <2> HIDE DEF settled
    <2>4. CASE in.asks
      <3>1. PICK v \in NextVersions(question) :
                question' = [settled EXCEPT ![r] =
                    [status |-> "pending", version |-> v,
                     mode |-> run[r].mode, answerRun |-> NoRun]]
        BY <2>4 DEF Finalize, FinalizeQuestions, settled
      <3> QED BY <2>2, <2>3, <2>4, <3>1
    <2>5. CASE ~in.asks
      <3>1. question' = settled
        BY <2>5 DEF Finalize, FinalizeQuestions, settled
      <3> QED BY <1>3, <2>2, <2>3, <2>5, <3>1
    <2> QED BY <1>1, <2>4, <2>5
  <1>9. NothingBeforeTheEnd'
    <2>1. ASSUME NEW m \in Runs, run'[m].status \in {"absent", "running"}
          PROVE  plan'[m].status = "none" /\ question'[m].status = "none"
      <3>1. m # r
        BY <1>1, <1>4, <2>1 DEF Terminal
      <3>2. plan[m].status = "none" /\ question[m].status = "none"
        BY <1>4, <2>1, <3>1 DEF HistoryInv, NothingBeforeTheEnd
      <3> QED BY <1>6, <1>7, <3>1, <3>2
    <2> QED BY <2>1 DEF NothingBeforeTheEnd
  <1>10. ASSUME NEW m \in Runs
         PROVE  /\ message'[m].plan = plan'[m].status
                /\ message'[m].question = question'[m].status
    <2>1. CASE m = r /\ in.hasMessage
      BY <1>8, <2>1 DEF Finalize, FinalizeMessages
    <2>2. CASE ~(m = r /\ in.hasMessage)
      <3>1. /\ message'[m].plan = PlanCard(m, touched)
            /\ message'[m].question = QuestionCard(m, AnsweredBy(r))
        BY <2>2 DEF Finalize, FinalizeMessages
      <3>2. /\ plan'[m].status # plan[m].status
                  => m \in touched /\ plan[m].status # "none"
            /\ question'[m].status # question[m].status
                  => m \in AnsweredBy(r) /\ question[m].status # "none"
        BY <1>1, <1>3, <1>6, <1>7, <1>8, <2>2
      <3> QED BY <3>1, <3>2, CardFollowsRow DEF HistoryInv
    <2> QED BY <2>1, <2>2
  <1> QED BY <1>9, <1>10 DEF HistoryInv, CardsFollowRows

LEMMA HistoryInterrupt ==
    ASSUME TypeOK, CouplingInv, HistoryInv, InterruptRunning PROVE HistoryInv'
  <1> DEFINE stopped == UNION {Executed(r) : r \in Active}
             answered == {n \in Runs : Stale(n)}
  <1>1. ASSUME NEW p \in Runs, p \in stopped PROVE plan[p].status = "executing"
    <2>1. PICK r \in Active : p \in Executed(r)
      BY <1>1
    <2> QED BY <2>1 DEF Executed, CouplingInv, ExecutingPlanHasItsRun
  <1>2. ASSUME NEW m \in Runs
        PROVE  /\ plan'[m].status # plan[m].status
                     => m \in stopped /\ plan[m].status # "none"
               /\ question'[m].status # question[m].status
                     => m \in answered /\ question[m].status # "none"
    <2>1. plan'[m] = IF m \in stopped THEN [plan[m] EXCEPT !.status = "stopped"]
                     ELSE plan[m]
      BY DEF InterruptRunning
    <2>2. question'[m] = IF m \in answered
                         THEN [question[m] EXCEPT !.status = "answered"]
                         ELSE question[m]
      BY DEF InterruptRunning
    <2>3. m \in answered => question[m].status = "answering"
      BY DEF Stale
    <2> HIDE DEF stopped, answered
    <2> QED BY <1>1, <2>1, <2>2, <2>3
  <1>3. \A m \in Runs : /\ message'[m].plan = PlanCard(m, stopped)
                        /\ message'[m].question = QuestionCard(m, answered)
    BY DEF InterruptRunning
  <1> HIDE DEF stopped, answered
  <1>4. CardsFollowRows'
    BY <1>2, <1>3, CardFollowsRow DEF HistoryInv, CardsFollowRows
  <1>5. \A r \in Runs : run'[r].status \in {"absent", "running"}
                        => run[r].status \in {"absent", "running"}
    BY DEF InterruptRunning, Active, TypeOK, RunRow
  <1>6. NothingBeforeTheEnd'
    BY <1>2, <1>5 DEF HistoryInv, NothingBeforeTheEnd
  <1> QED BY <1>4, <1>6 DEF HistoryInv

LEMMA HistoryStep ==
    ASSUME TypeOK, CouplingInv, HistoryInv, [Next]_storeVars PROVE HistoryInv'
  <1>1. CASE UNCHANGED storeVars
    BY <1>1 DEF storeVars, HistoryInv, NothingBeforeTheEnd, CardsFollowRows
  <1>2. CASE InterruptRunning
    BY <1>2, HistoryInterrupt
  <1>3. ASSUME NEW r \in Runs, NEW q \in Request, NEW mode \in Mode,
               NEW rev \in MaybeRun, Start(r, q, mode, rev)
        PROVE  HistoryInv'
    <2>1. \A s \in Runs : run'[s].status \in {"absent", "running"}
                          => run[s].status \in {"absent", "running"}
      BY <1>3, InsertRunStatus DEF Start
    <2> QED BY <1>3, <2>1
            DEF Start, HistoryInv, NothingBeforeTheEnd, CardsFollowRows
  <1>4. ASSUME NEW r \in Runs, NEW p \in Runs, NEW q \in Request,
               StartPlanExecution(r, p, q)
        PROVE  HistoryInv'
    <2>1. \A s \in Runs : run'[s].status \in {"absent", "running"}
                          => run[s].status \in {"absent", "running"}
      BY <1>4, InsertRunStatus DEF StartPlanExecution
    <2>2. \A m \in Runs : plan'[m].status # plan[m].status
                          => m \in {p} /\ plan[m].status # "none"
      BY <1>4 DEF StartPlanExecution, TypeOK, Approvable
    <2> QED BY <1>4, <2>1, <2>2, UpdateCardsKeepsHistory DEF StartPlanExecution
  <1>5. ASSUME NEW r \in Runs, NEW n \in Runs, NEW q \in Request,
               StartQuestionAnswer(r, n, q)
        PROVE  HistoryInv'
    <2>1. \A s \in Runs : run'[s].status \in {"absent", "running"}
                          => run[s].status \in {"absent", "running"}
      BY <1>5, InsertRunStatus DEF StartQuestionAnswer
    <2>2. \A m \in Runs : question'[m].status # question[m].status
                          => m \in {n} /\ question[m].status # "none"
      BY <1>5 DEF StartQuestionAnswer, TypeOK
    <2> QED BY <1>5, <2>1, <2>2, UpdateCardsKeepsHistory DEF StartQuestionAnswer
  <1>6. ASSUME NEW r \in Runs, SaveDraft(r) PROVE HistoryInv'
    <2>1. plan[r].status = "none" /\ question[r].status = "none"
      BY <1>6 DEF SaveDraft, HistoryInv, NothingBeforeTheEnd
    <2> QED BY <1>6, <2>1
            DEF SaveDraft, HistoryInv, NothingBeforeTheEnd, CardsFollowRows, TypeOK
  <1>7. ASSUME NEW r \in Runs, FinalizeAny(r) PROVE HistoryInv'
    BY <1>7, HistoryFinalize DEF FinalizeAny
  <1>8. ASSUME NEW p \in Runs, CancelPlan(p) PROVE HistoryInv'
    <2>1. \A m \in Runs : plan'[m].status # plan[m].status
                          => m \in {p} /\ plan[m].status # "none"
      BY <1>8 DEF CancelPlan, TypeOK, Approvable
    <2> QED BY <1>8, <2>1, UpdateCardsKeepsHistory DEF CancelPlan
  <1>9. ASSUME NEW n \in Runs, CancelQuestion(n) PROVE HistoryInv'
    <2>1. \A m \in Runs : question'[m].status # question[m].status
                          => m \in {n} /\ question[m].status # "none"
      BY <1>9 DEF CancelQuestion, TypeOK
    <2> QED BY <1>9, <2>1, UpdateCardsKeepsHistory DEF CancelQuestion
  <1>10. ASSUME NEW r \in Runs, NEW n \in Runs, AcceptQuestionAnswer(r, n)
         PROVE  HistoryInv'
    <2>1. \A m \in Runs : question'[m].status # question[m].status
                          => m \in {n} /\ question[m].status # "none"
      BY <1>10 DEF AcceptQuestionAnswer, TypeOK
    <2> QED BY <1>10, <2>1, UpdateCardsKeepsHistory DEF AcceptQuestionAnswer
  <1> QED
    BY <1>1, <1>2, <1>3, <1>4, <1>5, <1>6, <1>7, <1>8, <1>9, <1>10
       DEF Next, StartAny, StartPlanExecutionAny, StartQuestionAnswerAny

\* The two halves of the history invariant, under every transaction.
THEOREM HistoryHolds == Spec => []HistoryInv
  <1>1. Init => HistoryInv
    BY DEF Init, HistoryInv, NothingBeforeTheEnd, CardsFollowRows
  <1>2. TypeOK /\ CouplingInv /\ HistoryInv /\ [Next]_storeVars => HistoryInv'
    BY HistoryStep
  <1> QED BY <1>1, <1>2, TypeCorrect, CouplingHolds, PTL DEF Spec

\* Every plan and question card in the history shows the status of its row.
THEOREM HistoryIsAuthoritative == Spec => []CardsFollowRows
  BY HistoryHolds, PTL DEF HistoryInv

-----------------------------------------------------------------------------
(***************************************************************************)
(* The final message, and the life cycle of a plan.                        *)
(***************************************************************************)

\* A step that ends no run with an outcome and touches no message of an ended one.
LEMMA FinalMessageKept ==
    ASSUME FinalMessageStays,
           \A r \in Runs : run'[r].status \in Terminal \ {"interrupted"} =>
                run'[r].status = run[r].status /\ message'[r].body = message[r].body
    PROVE  FinalMessageStays'
  BY DEF FinalMessageStays

LEMMA FinalMessageStep ==
    ASSUME TypeOK, FinalMessageStays, [Next]_storeVars PROVE FinalMessageStays'
  <1>1. CASE UNCHANGED storeVars
    BY <1>1 DEF storeVars, FinalMessageStays
  <1>2. CASE InterruptRunning
    <2>1. ASSUME NEW r \in Runs, run'[r].status \in Terminal \ {"interrupted"}
          PROVE  run'[r].status = run[r].status /\ message'[r].body = message[r].body
      <3>1. r \notin Active /\ run'[r] = run[r]
        BY <1>2, <2>1 DEF InterruptRunning, TypeOK, RunRow
      <3> QED BY <1>2, <3>1 DEF InterruptRunning
    <2> QED BY <2>1, FinalMessageKept
  <1>3. ASSUME NEW r \in Runs, NEW q, NEW mode, NEW p, InsertRun(r, q, mode, p),
               \A m \in Runs : message'[m].body = message[m].body
        PROVE  FinalMessageStays'
    <2>1. \A s \in Runs : run'[s].status \in Terminal => run'[s] = run[s]
      BY <1>3 DEF InsertRun, Terminal, TypeOK
    <2> QED BY <1>3, <2>1, FinalMessageKept
  <1>4. ASSUME NEW r \in Runs, SaveDraft(r) PROVE FinalMessageStays'
    <2>1. run[r].status \notin Terminal
      BY <1>4 DEF SaveDraft, Terminal
    <2> QED BY <1>4, <2>1, FinalMessageKept DEF SaveDraft, TypeOK
  <1>5. ASSUME NEW r \in Runs, FinalizeAny(r) PROVE FinalMessageStays'
    <2>1. PICK in \in FinalizeInputs(run[r].mode) : Finalize(r, in)
      BY <1>5 DEF FinalizeAny
    <2>2. /\ run'[r].status = in.status
          /\ \A s \in Runs \ {r} : run'[s] = run[s]
      BY <2>1 DEF Finalize, TypeOK
    <2>3. in.hasMessage \/ in.status = "interrupted"
      <3>1. run[r].mode \in Mode
        BY DEF TypeOK, RunRow
      <3> QED BY <2>1, <3>1, InputFacts
    <2>4. \A s \in Runs \ {r} : message'[s].body = message[s].body
      BY <2>1 DEF Finalize, FinalizeMessages
    <2>5. in.hasMessage => message'[r].body = "final"
      BY <2>1 DEF Finalize, FinalizeMessages
    <2> QED BY <2>2, <2>3, <2>4, <2>5 DEF FinalMessageStays
  <1>6. ASSUME run' = run, \A m \in Runs : message'[m].body = message[m].body
        PROVE  FinalMessageStays'
    BY <1>6 DEF FinalMessageStays
  <1>7. ASSUME NEW P, NEW Q, UpdateCards(P, Q), NEW m \in Runs
        PROVE  message'[m].body = message[m].body
    BY <1>7 DEF UpdateCards
  <1> QED
    BY <1>1, <1>2, <1>3, <1>4, <1>5, <1>6, <1>7
       DEF Next, StartAny, StartPlanExecutionAny, StartQuestionAnswerAny, Start,
           StartPlanExecution, StartQuestionAnswer, CancelPlan, CancelQuestion,
           AcceptQuestionAnswer

\* No draft, fallback or recovery replaces the message committed with an outcome.
THEOREM FinalMessagesStay == Spec => []FinalMessageStays
  <1>1. Init => FinalMessageStays
    BY DEF Init, FinalMessageStays, Terminal
  <1>2. TypeOK /\ FinalMessageStays /\ [Next]_storeVars => FinalMessageStays'
    BY FinalMessageStep
  <1> QED BY <1>1, <1>2, TypeCorrect, PTL DEF Spec

LEMMA PlanMoveStep ==
    ASSUME TypeOK, CouplingInv, HistoryInv, [Next]_storeVars, NEW p \in Runs,
           plan'[p].status # plan[p].status
    PROVE  <<plan[p].status, plan'[p].status>> \in PlanMoves
  <1>1. plan' # plan
    OBVIOUS
  <1>2. CASE InterruptRunning
    <2>1. PICK r \in Active : p \in Executed(r)
      BY <1>2 DEF InterruptRunning
    <2>2. plan[p].status = "executing"
      BY <2>1 DEF Executed, CouplingInv, ExecutingPlanHasItsRun
    <2>3. plan'[p].status = "stopped"
      BY <1>2 DEF InterruptRunning, TypeOK, PlanRow
    <2> QED BY <2>2, <2>3 DEF PlanMoves
  <1>3. ASSUME NEW r \in Runs, NEW o \in Runs, NEW q \in Request,
               StartPlanExecution(r, o, q)
        PROVE  <<plan[p].status, plan'[p].status>> \in PlanMoves
    <2>1. o = p /\ plan[p].status \in Approvable /\ plan'[p].status = "executing"
      BY <1>3 DEF StartPlanExecution, TypeOK, PlanRow
    <2> QED BY <2>1 DEF Approvable, PlanMoves
  <1>4. ASSUME NEW o \in Runs, CancelPlan(o)
        PROVE  <<plan[p].status, plan'[p].status>> \in PlanMoves
    <2>1. o = p /\ plan[p].status \in Approvable /\ plan'[p].status = "cancelled"
      BY <1>4 DEF CancelPlan, TypeOK, PlanRow
    <2> QED BY <2>1 DEF Approvable, PlanMoves
  <1>5. ASSUME NEW r \in Runs, FinalizeAny(r)
        PROVE  <<plan[p].status, plan'[p].status>> \in PlanMoves
    <2>1. PICK in \in FinalizeInputs(run[r].mode) : Finalize(r, in)
      BY <1>5 DEF FinalizeAny
    <2>2. Active = {r} /\ plan[r].status = "none"
      BY <2>1, FinalizeEffect
         DEF Finalize, Finalizable, HistoryInv, NothingBeforeTheEnd
    <2>3. CASE in.makesPlan
      <3>1. PICK v \in NextVersions(plan) :
              plan' = [o \in Runs |->
                  IF o = r THEN [status |-> "ready", version |-> v]
                  ELSE IF o \in Superseded(in)
                  THEN [plan[o] EXCEPT !.status = "superseded"]
                  ELSE plan[o]]
        BY <2>1, <2>3 DEF Finalize, FinalizePlans
      <3>2. CASE p = r
        BY <2>2, <3>1, <3>2 DEF PlanMoves
      <3>3. CASE p # r
        <4>1. p \in Superseded(in)
          BY <3>1, <3>3
        <4>2. plan'[p].status = "superseded"
          BY <3>1, <3>3, <4>1 DEF TypeOK, PlanRow
        <4>3. plan[p].status \in Approvable
          BY <2>3, <4>1 DEF Superseded
        <4> QED BY <4>2, <4>3 DEF Approvable, PlanMoves
      <3> QED BY <3>2, <3>3
    <2>4. CASE ~in.makesPlan
      <3>1. plan' = [o \in Runs |->
                IF o \in Executed(r)
                THEN [plan[o] EXCEPT !.status = PlanAfter(in.status)]
                ELSE plan[o]]
        BY <2>1, <2>4 DEF Finalize, FinalizePlans
      <3>2. p \in Executed(r)
        BY <3>1
      <3>3. plan[p].status = "executing"
        BY <2>2, <3>2 DEF Executed, CouplingInv, ExecutingPlanHasItsRun
      <3>4. plan'[p].status = PlanAfter(in.status)
        BY <3>1, <3>2 DEF TypeOK, PlanRow
      <3> QED BY <3>3, <3>4, PlanAfterType DEF PlanMoves
    <2>5. in.makesPlan \in BOOLEAN
      <3>1. run[r].mode \in Mode
        BY DEF TypeOK, RunRow
      <3> QED BY <2>1, <3>1, InputFacts
    <2> QED BY <2>3, <2>4, <2>5
  <1> QED
    BY <1>1, <1>2, <1>3, <1>4, <1>5
       DEF Next, StartAny, StartPlanExecutionAny, StartQuestionAnswerAny, Start,
           StartQuestionAnswer, SaveDraft, CancelQuestion, AcceptQuestionAnswer,
           storeVars

\* Whoever writes the row of a plan, and in whatever order, it moves along PlanMoves.
THEOREM PlansKeepTheirLifeCycle == Spec => PlanLifeCycle
  <1>1. TypeOK /\ CouplingInv /\ HistoryInv /\ [Next]_storeVars =>
            [\A p \in Runs : \/ plan'[p].status = plan[p].status
                             \/ <<plan[p].status, plan'[p].status>> \in PlanMoves]_storeVars
    BY PlanMoveStep
  <1> QED BY <1>1, TypeCorrect, CouplingHolds, HistoryHolds, PTL DEF Spec, PlanLifeCycle

-----------------------------------------------------------------------------
(***************************************************************************)
(* The status of a plan sums up its executions.  A run that has not begun  *)
(* names no plan, so a new run only ever adds an execution; an execution   *)
(* that ends finds its plan "executing", that is without an outcome, and   *)
(* moves it by its own.                                                    *)
(***************************************************************************)

Outcomes == {"success", "error", "waiting_input"}

SumsUp(p) ==
    /\ plan[p].status \in {"none", "ready"} => Executions(p) = {}
    /\ plan[p].status = "stopped" => Executions(p) # {}
    /\ plan[p].status = "completed" <=> Ended(p, {"success"})
    /\ plan[p].status = "failed" <=> Ended(p, {"error", "waiting_input"})

SumInv ==
    /\ \A p \in Runs : SumsUp(p)
    /\ \A r \in Runs : run[r].status = "absent" => run[r].plan = NoRun

\* A step under which no execution of the plan begins or ends with an outcome.
LEMMA SameOutcomes ==
    ASSUME NEW p \in Runs,
           \A r \in Runs : run'[r].mode = "execute" /\ run'[r].plan = p
                            <=> run[r].mode = "execute" /\ run[r].plan = p,
           \A r \in Executions(p) : \/ run'[r].status = run[r].status
                                    \/ {run[r].status, run'[r].status} \cap Outcomes = {}
    PROVE  /\ Executions(p)' = Executions(p)
           /\ Ended(p, {"success"})' <=> Ended(p, {"success"})
           /\ Ended(p, {"error", "waiting_input"})' <=> Ended(p, {"error", "waiting_input"})
  <1>1. Executions(p)' = Executions(p)
    BY DEF Executions
  <1> QED BY <1>1 DEF Ended, Outcomes

\* Such a step keeps the sum, if it leaves the status of the plan alone or takes it from one
\* without an outcome to another without.
LEMMA SumKept ==
    ASSUME NEW p \in Runs, SumsUp(p),
           Executions(p)' = Executions(p),
           Ended(p, {"success"})' <=> Ended(p, {"success"}),
           Ended(p, {"error", "waiting_input"})' <=> Ended(p, {"error", "waiting_input"}),
           \/ plan'[p].status = plan[p].status
           \/ /\ plan[p].status \in Approvable
              /\ plan'[p].status \in {"superseded", "cancelled"}
    PROVE  SumsUp(p)'
  BY DEF SumsUp, Approvable

\* A new run that is no execution.
LEMMA SumInsertPlain ==
    ASSUME TypeOK, SumInv, NEW r \in Runs, NEW q, NEW mode,
           InsertRun(r, q, mode, NoRun), plan' = plan
    PROVE  SumInv'
  <1>1. /\ run'[r] = [status |-> "running", mode |-> mode, request |-> q, plan |-> NoRun]
        /\ \A s \in Runs \ {r} : run'[s] = run[s]
        /\ run[r].plan = NoRun
    BY DEF InsertRun, TypeOK, SumInv
  <1>2. ASSUME NEW p \in Runs PROVE SumsUp(p)'
    <2>1. \A s \in Runs : run'[s].mode = "execute" /\ run'[s].plan = p
                            <=> run[s].mode = "execute" /\ run[s].plan = p
      BY <1>1, NoRunAssumption
    <2>2. \A s \in Executions(p) : run'[s].status = run[s].status
      BY <1>1, NoRunAssumption DEF Executions
    <2>3. SumsUp(p)
      BY DEF SumInv
    <2> QED BY <2>1, <2>2, <2>3, SameOutcomes, SumKept
  <1>3. \A s \in Runs : run'[s].status = "absent" => run'[s].plan = NoRun
    BY <1>1 DEF SumInv
  <1> QED BY <1>2, <1>3 DEF SumInv

LEMMA SumStartPlanExecution ==
    ASSUME TypeOK, SumInv, NEW r \in Runs, NEW o \in Runs, NEW q,
           StartPlanExecution(r, o, q)
    PROVE  SumInv'
  <1>1. InsertRun(r, q, "execute", o) /\ plan[o].status \in Approvable
    BY DEF StartPlanExecution
  <1>2. /\ run'[r] = [status |-> "running", mode |-> "execute", request |-> q, plan |-> o]
        /\ \A s \in Runs \ {r} : run'[s] = run[s]
        /\ run[r].plan = NoRun
    BY <1>1 DEF InsertRun, TypeOK, SumInv
  <1>3. /\ plan'[o].status = "executing"
        /\ \A p \in Runs \ {o} : plan'[p] = plan[p]
    BY DEF StartPlanExecution, TypeOK, PlanRow
  <1>4. ASSUME NEW p \in Runs, p # o PROVE SumsUp(p)'
    <2>1. \A s \in Runs : run'[s].mode = "execute" /\ run'[s].plan = p
                            <=> run[s].mode = "execute" /\ run[s].plan = p
      BY <1>2, <1>4, NoRunAssumption
    <2>2. \A s \in Executions(p) : run'[s].status = run[s].status
      BY <1>2, NoRunAssumption DEF Executions
    <2>3. SumsUp(p)
      BY DEF SumInv
    <2> QED BY <1>3, <1>4, <2>1, <2>2, <2>3, SameOutcomes, SumKept
  <1>5. SumsUp(o)'
    <2>1. \A s \in Executions(o) : run[s].status \notin Outcomes
      <3>1. ~Ended(o, {"success"}) /\ ~Ended(o, {"error", "waiting_input"})
        BY <1>1 DEF SumInv, SumsUp, Approvable
      <3> QED BY <3>1 DEF Ended, Outcomes
    <2>2. \A s \in Executions(o)' : run'[s].status \notin Outcomes
      BY <1>2, <2>1 DEF Executions, Outcomes
    <2> QED BY <1>3, <2>2 DEF SumsUp, Ended, Outcomes
  <1>6. \A s \in Runs : run'[s].status = "absent" => run'[s].plan = NoRun
    BY <1>2 DEF SumInv
  <1> QED BY <1>4, <1>5, <1>6 DEF SumInv

LEMMA SumFinalize ==
    ASSUME TypeOK, CouplingInv, HistoryInv, SumInv, NEW r \in Runs,
           NEW in \in FinalizeInputs(run[r].mode), Finalize(r, in)
    PROVE  SumInv'
  <1>0. run[r].mode \in Mode /\ run[r].plan \in MaybeRun
    BY DEF TypeOK, RunRow
  <1>1. /\ in.status \in Terminal
        /\ in.makesPlan \in BOOLEAN
        /\ in.makesPlan => run[r].mode = "plan"
    BY <1>0, InputFacts
  <1>2. /\ Active = {r}
        /\ run[r].status = "running"
        /\ plan[r].status = "none"
    BY FinalizeEffect DEF Finalize, Finalizable, HistoryInv, NothingBeforeTheEnd
  <1>3. /\ run'[r].status = in.status
        /\ run'[r].mode = run[r].mode
        /\ run'[r].plan = IF in.makesPlan THEN r ELSE run[r].plan
        /\ \A s \in Runs \ {r} : run'[s] = run[s]
    BY DEF Finalize, TypeOK, RunRow
  <1>4. ASSUME NEW p \in Runs, NEW s \in Runs
        PROVE  run'[s].mode = "execute" /\ run'[s].plan = p
                 <=> run[s].mode = "execute" /\ run[s].plan = p
    BY <1>1, <1>3
  <1>5. \A s \in Runs : run'[s].status = "absent" => run'[s].plan = NoRun
    BY <1>1, <1>3 DEF SumInv, Terminal
  \* r executes nothing but what Executed names.
  <1>6. ASSUME NEW p \in Runs, p \notin Executed(r) PROVE r \notin Executions(p)
    BY <1>6, NoRunAssumption DEF Executed, Executions
  <1>7. ASSUME NEW p \in Runs, r \notin Executions(p),
               \/ plan'[p].status = plan[p].status
               \/ /\ plan[p].status \in Approvable
                  /\ plan'[p].status = "superseded"
        PROVE  SumsUp(p)'
    <2>1. \A s \in Executions(p) : run'[s].status = run[s].status
      BY <1>3, <1>7 DEF Executions
    <2>2. SumsUp(p)
      BY DEF SumInv
    <2> QED BY <1>4, <1>7, <2>1, <2>2, SameOutcomes, SumKept
  <1>8. CASE in.makesPlan
    <2>1. PICK v \in NextVersions(plan) :
            plan' = [p \in Runs |->
                IF p = r THEN [status |-> "ready", version |-> v]
                ELSE IF p \in Superseded(in)
                THEN [plan[p] EXCEPT !.status = "superseded"]
                ELSE plan[p]]
      BY <1>8 DEF Finalize, FinalizePlans
    <2>2. ASSUME NEW p \in Runs PROVE r \notin Executions(p)
      BY <1>1, <1>8 DEF Executions
    <2>3. SumsUp(r)'
      <3>1. Executions(r) = {}
        BY <1>2 DEF SumInv, SumsUp
      <3>2. Executions(r)' = {}
        BY <1>4, <3>1 DEF Executions
      <3>3. plan'[r].status = "ready"
        BY <2>1
      <3> QED BY <3>2, <3>3 DEF SumsUp, Ended
    <2>4. ASSUME NEW p \in Runs, p # r
          PROVE  \/ plan'[p].status = plan[p].status
                 \/ /\ plan[p].status \in Approvable
                    /\ plan'[p].status = "superseded"
      BY <1>8, <2>1, <2>4 DEF Superseded, TypeOK, PlanRow
    <2> QED BY <1>5, <1>7, <2>2, <2>3, <2>4 DEF SumInv
  <1>9. CASE ~in.makesPlan
    <2>1. plan' = [p \in Runs |->
              IF p \in Executed(r)
              THEN [plan[p] EXCEPT !.status = PlanAfter(in.status)]
              ELSE plan[p]]
      BY <1>9 DEF Finalize, FinalizePlans
    <2>2. ASSUME NEW p \in Runs, p \in Executed(r) PROVE SumsUp(p)'
      <3>1. r \in Executions(p) /\ plan[p].status = "executing"
        BY <1>2, <2>2 DEF Executed, Executions, CouplingInv, ExecutingPlanHasItsRun
      <3>2. \A s \in Executions(p) : run[s].status \notin Outcomes
        <4>1. ~Ended(p, {"success"}) /\ ~Ended(p, {"error", "waiting_input"})
          BY <3>1 DEF SumInv, SumsUp
        <4> QED BY <4>1 DEF Ended, Outcomes
      <3>3. Executions(p)' = Executions(p)
        BY <1>4 DEF Executions
      <3>4. \A s \in Executions(p) : s # r => run'[s].status = run[s].status
        BY <1>3 DEF Executions
      <3>5. /\ Ended(p, {"success"})' <=> in.status = "success"
            /\ Ended(p, {"error", "waiting_input"})'
                 <=> in.status \in {"error", "waiting_input"}
        BY <1>3, <3>1, <3>2, <3>3, <3>4 DEF Ended, Outcomes
      <3>6. plan'[p].status = PlanAfter(in.status)
        BY <2>1, <2>2 DEF TypeOK, PlanRow
      <3> QED BY <1>1, <3>1, <3>3, <3>5, <3>6 DEF SumsUp, PlanAfter, Terminal
    <2>3. ASSUME NEW p \in Runs, p \notin Executed(r) PROVE SumsUp(p)'
      BY <1>6, <1>7, <2>1, <2>3
    <2> QED BY <1>5, <2>2, <2>3 DEF SumInv
  <1> QED BY <1>1, <1>8, <1>9

LEMMA SumInterrupt ==
    ASSUME TypeOK, CouplingInv, SumInv, InterruptRunning
    PROVE  SumInv'
  <1> DEFINE stopped == UNION {Executed(r) : r \in Active}
  <1>1. \A p \in Runs : plan'[p] = IF p \in stopped
                                    THEN [plan[p] EXCEPT !.status = "stopped"]
                                    ELSE plan[p]
    BY DEF InterruptRunning
  <1>2. /\ \A r \in Runs : run'[r].mode = run[r].mode /\ run'[r].plan = run[r].plan
        /\ \A r \in Active : /\ run[r].status = "running"
                             /\ run'[r].status = "interrupted"
        /\ \A r \in Runs \ Active : run'[r].status = run[r].status
    <2>1. ASSUME NEW r \in Runs
          PROVE  run'[r] = IF r \in Active THEN [run[r] EXCEPT !.status = "interrupted"]
                                           ELSE run[r]
      BY DEF InterruptRunning
    <2>2. ASSUME NEW r \in Runs
          PROVE  /\ run'[r].mode = run[r].mode /\ run'[r].plan = run[r].plan
                 /\ r \in Active => run'[r].status = "interrupted"
                 /\ r \notin Active => run'[r].status = run[r].status
      <3>1. run[r] \in RunRow
        BY DEF TypeOK
      <3> QED BY <2>1, <3>1 DEF RunRow
    <2> QED BY <2>2 DEF Active
  <1>3. ASSUME NEW p \in Runs PROVE SumsUp(p)'
    <2>1. \A r \in Executions(p) : \/ run'[r].status = run[r].status
                                   \/ {run[r].status, run'[r].status} \cap Outcomes = {}
      BY <1>2 DEF Executions, Outcomes
    <2>2. /\ Executions(p)' = Executions(p)
          /\ Ended(p, {"success"})' <=> Ended(p, {"success"})
          /\ Ended(p, {"error", "waiting_input"})' <=> Ended(p, {"error", "waiting_input"})
      BY <1>2, <2>1, SameOutcomes
    <2>3. SumsUp(p)
      BY DEF SumInv
    <2>4. CASE p \notin stopped
      BY <1>1, <2>2, <2>3, <2>4, SumKept
    <2>5. CASE p \in stopped
      <3>1. PICK r \in Active : p \in Executed(r)
        BY <2>5
      <3>2. r \in Executions(p) /\ plan[p].status = "executing"
        BY <3>1 DEF Executed, Executions, Active, CouplingInv, ExecutingPlanHasItsRun
      <3>3. plan'[p].status = "stopped"
        <4>1. plan[p] \in PlanRow
          BY DEF TypeOK
        <4> QED BY <1>1, <2>5, <4>1 DEF PlanRow
      <3> QED BY <2>2, <2>3, <3>2, <3>3 DEF SumsUp
    <2> QED BY <2>4, <2>5
  <1>4. \A r \in Runs : run'[r].status = "absent" => run'[r].plan = NoRun
    BY <1>2 DEF SumInv
  <1> QED BY <1>3, <1>4 DEF SumInv

LEMMA SumStep ==
    ASSUME TypeOK, CouplingInv, HistoryInv, SumInv, [Next]_storeVars
    PROVE  SumInv'
  <1>1. ASSUME run' = run, plan' = plan PROVE SumInv'
    BY <1>1 DEF SumInv, SumsUp, Executions, Ended
  <1>2. ASSUME NEW r \in Runs, NEW q, NEW mode, NEW rev, Start(r, q, mode, rev)
        PROVE  SumInv'
    BY <1>2, SumInsertPlain DEF Start
  <1>3. ASSUME NEW r \in Runs, NEW n \in Runs, NEW q, StartQuestionAnswer(r, n, q)
        PROVE  SumInv'
    BY <1>3, SumInsertPlain DEF StartQuestionAnswer
  <1>4. ASSUME NEW o \in Runs, CancelPlan(o) PROVE SumInv'
    <2>1. /\ run' = run
          /\ plan[o].status \in Approvable /\ plan'[o].status = "cancelled"
          /\ \A p \in Runs \ {o} : plan'[p] = plan[p]
      BY <1>4 DEF CancelPlan, TypeOK, PlanRow
    <2>2. ASSUME NEW p \in Runs PROVE SumsUp(p)'
      <3>1. /\ Executions(p)' = Executions(p)
            /\ Ended(p, {"success"})' <=> Ended(p, {"success"})
            /\ Ended(p, {"error", "waiting_input"})' <=> Ended(p, {"error", "waiting_input"})
        BY <2>1 DEF Executions, Ended
      <3>2. SumsUp(p)
        BY DEF SumInv
      <3> QED BY <2>1, <3>1, <3>2, SumKept
    <2> QED BY <2>1, <2>2 DEF SumInv
  <1>5. ASSUME NEW r \in Runs, FinalizeAny(r) PROVE SumInv'
    BY <1>5, SumFinalize DEF FinalizeAny
  <1>6. ASSUME NEW r \in Runs, StartPlanExecutionAny(r) PROVE SumInv'
    BY <1>6, SumStartPlanExecution DEF StartPlanExecutionAny
  <1>7. ASSUME NEW r \in Runs,
               SaveDraft(r) \/ CancelQuestion(r) \/ \E n \in Runs : AcceptQuestionAnswer(r, n)
        PROVE  SumInv'
    BY <1>1, <1>7 DEF SaveDraft, CancelQuestion, AcceptQuestionAnswer
  <1>8. CASE InterruptRunning
    BY <1>8, SumInterrupt
  <1>9. CASE UNCHANGED storeVars
    BY <1>1, <1>9 DEF storeVars
  <1> QED
    BY <1>2, <1>3, <1>4, <1>5, <1>6, <1>7, <1>8, <1>9
       DEF Next, StartAny, StartQuestionAnswerAny

\* However often a plan was stopped and continued, its status says how its executions ended.
THEOREM PlanStatusIsTheSum == Spec => []PlanStatusSumsUpExecutions
  <1>1. Init => SumInv
    <2> SUFFICES ASSUME Init PROVE SumInv
      OBVIOUS
    <2>1. \A r \in Runs : /\ run[r].status = "absent" /\ run[r].plan = NoRun
                          /\ plan[r].status = "none"
      BY DEF Init
    <2>2. \A p \in Runs : Executions(p) = {}
      BY <2>1, NoRunAssumption DEF Executions
    <2> QED BY <2>1, <2>2 DEF SumInv, SumsUp, Ended
  <1>2. TypeOK /\ CouplingInv /\ HistoryInv /\ SumInv /\ [Next]_storeVars => SumInv'
    BY SumStep
  <1>3. SumInv => PlanStatusSumsUpExecutions
    BY DEF SumInv, SumsUp, PlanStatusSumsUpExecutions
  <1> QED BY <1>1, <1>2, <1>3, TypeCorrect, CouplingHolds, HistoryHolds, PTL DEF Spec

-----------------------------------------------------------------------------
(***************************************************************************)
(* The rows of ChatRunStore implement ConversationTurns: every transaction *)
(* is one step of the promised conversation, or invisible to it.           *)
(***************************************************************************)

LEMMA TurnOfNothing == TurnOf({}) = NoRun
  BY DEF TurnOf

LEMMA TurnOfOne == ASSUME NEW r \in Runs PROVE TurnOf({r}) = r /\ r # NoRun
  BY NoRunAssumption DEF TurnOf

LEMMA StatusOfNone ==
    ASSUME NEW table, NEW S, \A n \in Runs : table[n].status \notin S
    PROVE  StatusOf(table, S) = "none"
  BY DEF StatusOf

LEMMA StatusOfOne ==
    ASSUME NEW table, NEW S, NEW m \in Runs, table[m].status \in S,
           \A n \in Runs \ {m} : table[n].status \notin S
    PROVE  StatusOf(table, S) = table[m].status
  BY DEF StatusOf

\* Tables that agree on the rows of interest show the same.
LEMMA StatusOfSame ==
    ASSUME NEW t, NEW u, NEW S,
           \A n \in Runs : t[n].status \in S \/ u[n].status \in S
                            => t[n].status = u[n].status,
           \A m, n \in Runs : t[m].status \in S /\ t[n].status \in S => m = n
    PROVE  StatusOf(t, S) = StatusOf(u, S)
  <1>1. CASE \A n \in Runs : t[n].status \notin S
    BY <1>1, StatusOfNone
  <1>2. ASSUME NEW m \in Runs, t[m].status \in S PROVE StatusOf(t, S) = StatusOf(u, S)
    <2>1. \A n \in Runs \ {m} : t[n].status \notin S /\ u[n].status \notin S
      BY <1>2
    <2>2. u[m].status = t[m].status
      BY <1>2
    <2> QED BY <1>2, <2>1, <2>2, StatusOfOne
  <1> QED BY <1>1, <1>2

RefinementInv ==
    TypeOK /\ CouplingInv /\ CurrentPlanIsTheLatest /\ HistoryInv

ask == StatusOf(question, Open)
proposal == StatusOf(plan, CurrentPlan)
outcome == [r \in Runs |-> OutcomeOf(run[r])]

\* At most one row is current, so the mapping shows it.
LEMMA OneCurrentPlan ==
    ASSUME RefinementInv, NEW p \in Runs, plan[p].status \in CurrentPlan
    PROVE  /\ \A o \in Runs \ {p} : plan[o].status \notin CurrentPlan
           /\ proposal = plan[p].status
  <1>1. \A o \in Runs \ {p} : plan[o].status \notin CurrentPlan
    BY DEF RefinementInv, CurrentPlanIsTheLatest
  <1> QED BY <1>1, StatusOfOne DEF proposal

LEMMA OneOpen ==
    ASSUME RefinementInv, NEW n \in Runs, question[n].status \in Open
    PROVE  /\ \A m \in Runs \ {n} : question[m].status \notin Open
           /\ ask = question[n].status
  <1>1. \A m \in Runs \ {n} : question[m].status \notin Open
    BY DEF RefinementInv, CouplingInv, AtMostOneOpenQuestion
  <1> QED BY <1>1, StatusOfOne DEF ask

LEMMA SameProposal ==
    ASSUME RefinementInv,
           \A p \in Runs : plan[p].status \in CurrentPlan \/ plan'[p].status \in CurrentPlan
                            => plan'[p].status = plan[p].status
    PROVE  proposal' = proposal
  <1>1. \A p, o \in Runs : plan[p].status \in CurrentPlan /\ plan[o].status \in CurrentPlan
                            => p = o
    BY OneCurrentPlan
  <1>2. StatusOf(plan, CurrentPlan) = StatusOf(plan', CurrentPlan)
    BY <1>1, StatusOfSame
  <1> QED BY <1>2 DEF proposal

LEMMA SameAsk ==
    ASSUME RefinementInv,
           \A n \in Runs : question[n].status \in Open \/ question'[n].status \in Open
                            => question'[n].status = question[n].status
    PROVE  ask' = ask
  <1>1. \A m, n \in Runs : question[m].status \in Open /\ question[n].status \in Open
                            => m = n
    BY OneOpen
  <1>2. StatusOf(question, Open) = StatusOf(question', Open)
    BY <1>1, StatusOfSame
  <1> QED BY <1>2 DEF ask

\* A start makes the turn active and leaves the outcomes.
LEMMA InsertBegins ==
    ASSUME RefinementInv, NEW r \in Runs, NEW q, NEW mode, NEW p, InsertRun(r, q, mode, p)
    PROVE  Turns!Begin(r)
  <1>1. Active = {} /\ Active' = {r}
    BY InsertedRunIsTheOnlyOne DEF RefinementInv
  <1>2. TurnOf(Active) = NoRun /\ TurnOf(Active)' = r
    BY <1>1, TurnOfNothing, TurnOfOne
  <1>3. run[r].status = "absent" /\ run'[r].status = "running"
        /\ \A s \in Runs \ {r} : run'[s] = run[s]
    BY DEF InsertRun, RefinementInv, TypeOK
  <1>4. \A s \in Runs : OutcomeOf(run'[s]) = OutcomeOf(run[s])
    BY <1>3 DEF OutcomeOf, Terminal
  <1>5. outcome' = outcome /\ outcome[r] = "none"
    BY <1>3, <1>4 DEF outcome, OutcomeOf, Terminal
  <1> QED BY <1>2, <1>5 DEF Turns!Begin, outcome

-----------------------------------------------------------------------------
(* The transactions, one lemma each *)

\* An ordinary message: nothing is asked, and the plan stays.
LEMMA StartBeginsMessage ==
    ASSUME RefinementInv, NEW r \in Runs, NEW q, NEW mode, NEW rev,
           Start(r, q, mode, rev)
    PROVE  Turns!BeginMessage(r)
  <1>1. Turns!Begin(r)
    BY InsertBegins DEF Start
  <1>2. ask = "none"
    BY StatusOfNone DEF Start, QuestionPending, ask
  <1>3. ask' = ask /\ proposal' = proposal
    BY DEF Start, ask, proposal
  <1> QED BY <1>1, <1>2, <1>3 DEF Turns!BeginMessage, ask, proposal

\* Executing a plan takes the one that can be acted on.
LEMMA StartBeginsExecution ==
    ASSUME RefinementInv, NEW r \in Runs, NEW p \in Runs, NEW q,
           StartPlanExecution(r, p, q)
    PROVE  Turns!BeginExecution(r)
  <1>1. Turns!Begin(r)
    BY InsertBegins DEF StartPlanExecution
  <1>2. ask = "none" /\ ask' = ask
    BY StatusOfNone DEF StartPlanExecution, QuestionPending, ask
  <1>3. plan[p].status \in {"ready", "stopped"}
    BY DEF StartPlanExecution, Approvable
  <1>4. proposal \in {"ready", "stopped"}
    BY <1>3, OneCurrentPlan DEF CurrentPlan
  <1>5. plan'[p].status = "executing" /\ \A o \in Runs \ {p} : plan'[o] = plan[o]
    BY DEF StartPlanExecution, RefinementInv, TypeOK, PlanRow
  <1>6. \A o \in Runs \ {p} : plan'[o].status \notin CurrentPlan
    BY <1>3, <1>5, OneCurrentPlan DEF CurrentPlan
  <1>7. StatusOf(plan', CurrentPlan) = "executing"
    <2>1. plan'[p].status \in CurrentPlan
      BY <1>5 DEF CurrentPlan
    <2> QED BY <1>5, <1>6, <2>1, StatusOfOne
  <1> QED BY <1>1, <1>2, <1>4, <1>7 DEF Turns!BeginExecution, ask, proposal

\* A question that receives a status is the one in front of the user.
LEMMA QuestionMoves ==
    ASSUME RefinementInv, NEW n \in Runs, question[n].status \in Open,
           \A m \in Runs \ {n} : question'[m] = question[m]
    PROVE  ask' = IF question'[n].status \in Open THEN question'[n].status ELSE "none"
  <1>1. \A m \in Runs \ {n} : question'[m].status \notin Open
    BY OneOpen
  <1>2. CASE question'[n].status \in Open
    BY <1>1, <1>2, StatusOfOne DEF ask
  <1>3. CASE question'[n].status \notin Open
    <2>1. \A m \in Runs : question'[m].status \notin Open
      BY <1>1, <1>3
    <2> QED BY <1>3, <2>1, StatusOfNone DEF ask
  <1> QED BY <1>2, <1>3

LEMMA StartBeginsAnswer ==
    ASSUME RefinementInv, NEW r \in Runs, NEW n \in Runs, NEW q,
           StartQuestionAnswer(r, n, q)
    PROVE  Turns!BeginAnswer(r)
  <1>1. Turns!Begin(r)
    BY InsertBegins DEF StartQuestionAnswer
  <1>2. question[n].status = "pending" /\ question[n].status \in Open
    BY DEF StartQuestionAnswer, Open
  <1>3. ask = "pending"
    BY <1>2, OneOpen
  <1>4. /\ question'[n].status = "answering"
        /\ \A m \in Runs \ {n} : question'[m] = question[m]
    BY DEF StartQuestionAnswer, RefinementInv, TypeOK, QuestionRow
  <1>5. ask' = "answering"
    BY <1>2, <1>4, QuestionMoves DEF Open
  <1>6. proposal' = proposal
    BY DEF StartQuestionAnswer, proposal
  <1> QED BY <1>1, <1>3, <1>5, <1>6 DEF Turns!BeginAnswer, ask, proposal

\* Without a change of a run, the turn and the outcomes stay.
LEMMA SameRuns ==
    ASSUME run' = run PROVE TurnOf(Active)' = TurnOf(Active) /\ outcome' = outcome
  BY DEF Active, TurnOf, outcome

LEMMA CancelPlanDiscards ==
    ASSUME RefinementInv, NEW p \in Runs, CancelPlan(p) PROVE Turns!Discard
  <1>1. plan[p].status \in {"ready", "stopped"}
    BY DEF CancelPlan, Approvable
  <1>2. /\ proposal \in {"ready", "stopped"}
        /\ \A o \in Runs \ {p} : plan[o].status \notin CurrentPlan
    BY <1>1, OneCurrentPlan DEF CurrentPlan
  <1>3. plan'[p].status = "cancelled" /\ \A o \in Runs \ {p} : plan'[o] = plan[o]
    BY DEF CancelPlan, RefinementInv, TypeOK, PlanRow
  <1>4. \A o \in Runs : plan'[o].status \notin CurrentPlan
    BY <1>2, <1>3 DEF CurrentPlan
  <1>5. StatusOf(plan', CurrentPlan) = "none"
    BY <1>4, StatusOfNone
  <1>6. TurnOf(Active)' = TurnOf(Active) /\ outcome' = outcome /\ ask' = ask
    BY SameRuns DEF CancelPlan, ask
  <1> QED BY <1>2, <1>5, <1>6 DEF Turns!Discard, ask, proposal, outcome

LEMMA CancelQuestionDeclines ==
    ASSUME RefinementInv, NEW n \in Runs, CancelQuestion(n) PROVE Turns!Decline
  <1>1. question[n].status = "pending" /\ question[n].status \in Open
    BY DEF CancelQuestion, Open
  <1>2. ask = "pending"
    BY <1>1, OneOpen
  <1>3. /\ question'[n].status = "cancelled"
        /\ \A m \in Runs \ {n} : question'[m] = question[m]
    BY DEF CancelQuestion, RefinementInv, TypeOK, QuestionRow
  <1>4. ask' = "none"
    BY <1>1, <1>3, QuestionMoves DEF Open
  <1>5. TurnOf(Active)' = TurnOf(Active) /\ outcome' = outcome /\ proposal' = proposal
    BY SameRuns DEF CancelQuestion, proposal
  <1> QED BY <1>2, <1>4, <1>5 DEF Turns!Decline, ask, proposal, outcome

LEMMA AcceptAccepts ==
    ASSUME RefinementInv, NEW r \in Runs, NEW n \in Runs, AcceptQuestionAnswer(r, n)
    PROVE  Turns!AcceptAnswer
  <1>1. question[n].status = "answering" /\ question[n].status \in Open
    BY DEF AcceptQuestionAnswer, Open
  <1>2. ask = "answering"
    BY <1>1, OneOpen
  <1>3. /\ question'[n].status = "answered"
        /\ \A m \in Runs \ {n} : question'[m] = question[m]
    BY DEF AcceptQuestionAnswer, RefinementInv, TypeOK, QuestionRow
  <1>4. ask' = "none"
    BY <1>1, <1>3, QuestionMoves DEF Open
  <1>5. TurnOf(Active)' = TurnOf(Active) /\ outcome' = outcome /\ proposal' = proposal
    BY SameRuns DEF AcceptQuestionAnswer, proposal
  <1> QED BY <1>2, <1>4, <1>5 DEF Turns!AcceptAnswer, ask, proposal, outcome

-----------------------------------------------------------------------------
(* Finalize and InterruptRunning end the turn *)

LEMMA AsksIffItWaits ==
    ASSUME NEW mode \in Mode, NEW in \in FinalizeInputs(mode)
    PROVE  in.asks <=> in.status = "waiting_input"
  <1>1. ASSUME NEW s \in Terminal, in \in FullInput(s, mode)
        PROVE  in.asks <=> in.status = "waiting_input"
    BY <1>1 DEF FullInput
  <1>2. ASSUME NEW a \in BOOLEAN, in = FallbackInput(a)
        PROVE  in.asks <=> in.status = "waiting_input"
    BY <1>2 DEF FallbackInput
  <1> QED BY <1>1, <1>2 DEF FinalizeInputs

\* The only running run ends: its turn is over, with its status as the outcome.
LEMMA RunEnds ==
    ASSUME NEW r \in Runs, NEW s \in Terminal, Active = {r}, Active' = {},
           run'[r].status = s, \A m \in Runs \ {r} : run'[m].status = run[m].status
    PROVE  /\ TurnOf(Active) = r /\ r # NoRun
           /\ TurnOf(Active)' = NoRun
           /\ outcome' = [outcome EXCEPT ![r] = s]
  <1>1. TurnOf(Active) = r /\ r # NoRun /\ TurnOf(Active)' = NoRun
    BY TurnOfNothing, TurnOfOne
  <1>2. \A m \in Runs : OutcomeOf(run'[m]) = IF m = r THEN s ELSE OutcomeOf(run[m])
    BY DEF OutcomeOf
  <1> QED BY <1>1, <1>2 DEF outcome

\* While a run is running, the open question is the one it answers.
LEMMA AskWhileRunning ==
    ASSUME RefinementInv, NEW r \in Runs, Active = {r}
    PROVE  \/ /\ \A n \in Runs : question[n].status \notin Open
              /\ ask = "none"
           \/ /\ ask = "answering"
              /\ \E n \in Runs : /\ n \in AnsweredBy(r)
                                 /\ question[n].status \in Open
                                 /\ \A m \in Runs \ {n} : m \notin AnsweredBy(r)
  <1>1. CASE \A n \in Runs : question[n].status \notin Open
    BY <1>1, StatusOfNone DEF ask
  <1>2. ASSUME NEW n \in Runs, question[n].status \in Open
        PROVE  /\ ask = "answering"
               /\ n \in AnsweredBy(r)
               /\ \A m \in Runs \ {n} : m \notin AnsweredBy(r)
    <2>1. question[n].status = "answering" /\ question[n].answerRun = r
      BY <1>2 DEF RefinementInv, CouplingInv, OpenQuestionBlocksRuns, Open
    <2>2. ask = "answering" /\ \A m \in Runs \ {n} : question[m].status \notin Open
      BY <1>2, <2>1, OneOpen
    <2> QED BY <2>1, <2>2 DEF AnsweredBy, Open
  <1> QED BY <1>1, <1>2

\* An execution that ends settles its plan; any other run leaves the plan alone.
LEMMA ExecutionEnds ==
    ASSUME RefinementInv, NEW r \in Runs, Active = {r}, NEW s,
           plan' = [p \in Runs |->
                       IF p \in Executed(r)
                       THEN [plan[p] EXCEPT !.status = PlanAfter(s)]
                       ELSE plan[p]]
    PROVE  IF proposal = "executing"
           THEN proposal' = IF s \in {"cancelled", "interrupted"}
                            THEN "stopped" ELSE "none"
           ELSE proposal' = proposal
  <1>1. ASSUME NEW p \in Runs, plan[p].status = "executing"
        PROVE  /\ proposal = "executing"
               /\ proposal' = IF s \in {"cancelled", "interrupted"}
                              THEN "stopped" ELSE "none"
    <2>1. run[r].mode = "execute" /\ run[r].plan = p
      BY <1>1 DEF RefinementInv, CouplingInv, ExecutingPlanHasItsRun
    <2>2. Executed(r) = {p}
      BY <2>1, NoRunAssumption DEF Executed
    <2>3. plan[p].status \in CurrentPlan
      BY <1>1 DEF CurrentPlan
    <2>4. /\ proposal = "executing"
          /\ \A o \in Runs \ {p} : plan[o].status \notin CurrentPlan
      BY <1>1, <2>3, OneCurrentPlan
    <2>5. /\ plan'[p].status = PlanAfter(s)
          /\ \A o \in Runs \ {p} : plan'[o] = plan[o]
      BY <2>2 DEF RefinementInv, TypeOK, PlanRow
    <2>6. CASE s \in {"cancelled", "interrupted"}
      <3>1. plan'[p].status = "stopped"
        BY <2>5, <2>6 DEF PlanAfter
      <3>2. plan'[p].status \in CurrentPlan
        BY <3>1 DEF CurrentPlan
      <3>3. \A o \in Runs \ {p} : plan'[o].status \notin CurrentPlan
        BY <2>4, <2>5
      <3>4. StatusOf(plan', CurrentPlan) = "stopped"
        BY <3>1, <3>2, <3>3, StatusOfOne
      <3> QED BY <2>4, <2>6, <3>4 DEF proposal
    <2>7. CASE s \notin {"cancelled", "interrupted"}
      <3>1. plan'[p].status \notin CurrentPlan
        BY <2>5, <2>7 DEF PlanAfter, CurrentPlan
      <3>2. \A o \in Runs : plan'[o].status \notin CurrentPlan
        BY <2>4, <2>5, <3>1
      <3>3. StatusOf(plan', CurrentPlan) = "none"
        BY <3>2, StatusOfNone
      <3> QED BY <2>4, <2>7, <3>3 DEF proposal
    <2> QED BY <2>6, <2>7
  <1>2. CASE \A p \in Runs : plan[p].status # "executing"
    <2>1. proposal # "executing"
      <3>1. CASE \A p \in Runs : plan[p].status \notin CurrentPlan
        BY <3>1, StatusOfNone DEF proposal
      <3>2. CASE \E p \in Runs : plan[p].status \in CurrentPlan
        BY <1>2, <3>2, OneCurrentPlan
      <3> QED BY <3>1, <3>2
    <2>2. \A p \in Runs : p \notin Executed(r)
      BY <1>2 DEF Executed, RefinementInv, CouplingInv, ExecutingPlanHasItsRun
    <2>3. \A p \in Runs : plan'[p] = plan[p]
      BY <2>2
    <2>4. proposal' = proposal
      BY <2>3, SameProposal
    <2> QED BY <2>1, <2>4
  <1> QED BY <1>1, <1>2

\* What Finalize does to the question: the one that was being answered is closed
\* or offered again, or the run leaves its own.
LEMMA FinalizeAsk ==
    ASSUME RefinementInv, NEW r \in Runs, NEW in \in FinalizeInputs(run[r].mode),
           Finalize(r, in)
    PROVE  \/ in.status = "waiting_input" /\ ask' = "pending"
           \/ /\ in.status # "waiting_input"
              /\ ask = "answering"
              /\ ask' \in {"none", "pending"}
           \/ in.status # "waiting_input" /\ ask = "none" /\ ask' = "none"
  <1> DEFINE settled == SettledQuestions(r, in.accepted)
  <1>0. Active = {r}
    BY FinalizeEffect DEF RefinementInv
  <1>1. DOMAIN settled = Runs
    BY DEF SettledQuestions
  <1>2. in.asks <=> in.status = "waiting_input"
    <2>1. run[r].mode \in Mode
      BY DEF RefinementInv, TypeOK, RunRow
    <2> QED BY <2>1, AsksIffItWaits
  <1>3. CASE in.asks
    <2> HIDE DEF settled
    <2>1. /\ \A n \in Runs : settled[n].status \notin Open
          /\ \E v \in NextVersions(question) :
                question' = [settled EXCEPT ![r] =
                    [status |-> "pending", version |-> v,
                     mode |-> run[r].mode, answerRun |-> NoRun]]
      BY <1>3 DEF Finalize, FinalizeQuestions, settled
    <2>2. /\ question'[r].status = "pending"
          /\ \A n \in Runs \ {r} : question'[n].status \notin Open
      BY <1>1, <2>1
    <2>3. question'[r].status \in Open
      BY <2>2 DEF Open
    <2>4. StatusOf(question', Open) = "pending"
      BY <2>2, <2>3, StatusOfOne
    <2> QED BY <1>2, <1>3, <2>4 DEF ask
  <1>4. CASE ~in.asks
    <2>1. question' = settled
      BY <1>4 DEF Finalize, FinalizeQuestions
    <2>2. \A n \in Runs : n \notin AnsweredBy(r) => question'[n] = question[n]
      BY <2>1 DEF SettledQuestions
    <2>3. CASE ask = "none" /\ \A n \in Runs : question[n].status \notin Open
      <3>1. \A n \in Runs : n \notin AnsweredBy(r)
        BY <2>3 DEF AnsweredBy, Open
      <3>2. \A n \in Runs : question'[n].status \notin Open
        BY <2>2, <2>3, <3>1
      <3> QED BY <1>2, <1>4, <2>3, <3>2, StatusOfNone DEF ask
    <2>4. ASSUME NEW n \in Runs, ask = "answering", n \in AnsweredBy(r),
                 question[n].status \in Open,
                 \A m \in Runs \ {n} : m \notin AnsweredBy(r)
          PROVE  ask' \in {"none", "pending"}
      <3>1. \A m \in Runs \ {n} : question'[m] = question[m]
        BY <2>2, <2>4
      <3>2. question'[n].status \in {"answered", "pending"}
        BY <2>1, <2>4 DEF SettledQuestions, RefinementInv, TypeOK, QuestionRow
      <3> QED BY <2>4, <3>1, <3>2, QuestionMoves DEF Open
    <2> QED BY <1>0, <1>2, <1>4, <2>3, <2>4, AskWhileRunning
  <1>5. in.asks \in BOOLEAN
    BY InputFacts DEF RefinementInv, TypeOK, RunRow
  <1> QED BY <1>3, <1>4, <1>5

\* What Finalize does to the plan in front of the user.
LEMMA FinalizeProposal ==
    ASSUME RefinementInv, NEW r \in Runs, NEW in \in FinalizeInputs(run[r].mode),
           Finalize(r, in)
    PROVE  IF proposal = "executing"
           THEN proposal' = IF in.status \in {"cancelled", "interrupted"}
                            THEN "stopped" ELSE "none"
           ELSE \/ proposal' = proposal
                \/ in.status = "success" /\ proposal' = "ready"
  <1>1. Active = {r}
    BY FinalizeEffect DEF RefinementInv
  <1>2. run[r].mode \in Mode
    BY DEF RefinementInv, TypeOK, RunRow
  <1>3. CASE in.makesPlan
    <2>1. in.status = "success" /\ run[r].mode = "plan"
      BY <1>2, <1>3, InputFacts
    <2>2. \A p \in Runs : plan[p].status # "executing"
      BY <1>1, <2>1 DEF RefinementInv, CouplingInv, ExecutingPlanHasItsRun
    <2>3. proposal # "executing"
      <3>1. CASE \A p \in Runs : plan[p].status \notin CurrentPlan
        BY <3>1, StatusOfNone DEF proposal
      <3>2. CASE \E p \in Runs : plan[p].status \in CurrentPlan
        BY <2>2, <3>2, OneCurrentPlan
      <3> QED BY <3>1, <3>2
    <2>4. plan'[r].status = "ready"
      BY <1>3 DEF Finalize, FinalizePlans
    <2>5. \A p \in Runs \ {r} : plan'[p].status \notin CurrentPlan
      <3>1. CurrentPlanIsTheLatest'
        BY CurrentPlanFinalize DEF RefinementInv
      <3>2. plan'[r].status \in CurrentPlan
        BY <2>4 DEF CurrentPlan
      <3> QED BY <3>1, <3>2 DEF CurrentPlanIsTheLatest
    <2>6. plan'[r].status \in CurrentPlan
      BY <2>4 DEF CurrentPlan
    <2>7. StatusOf(plan', CurrentPlan) = "ready"
      BY <2>4, <2>5, <2>6, StatusOfOne
    <2> QED BY <2>1, <2>3, <2>7 DEF proposal
  <1>4. CASE ~in.makesPlan
    <2>1. plan' = [p \in Runs |->
              IF p \in Executed(r)
              THEN [plan[p] EXCEPT !.status = PlanAfter(in.status)]
              ELSE plan[p]]
      BY <1>4 DEF Finalize, FinalizePlans
    <2> QED BY <1>1, <2>1, ExecutionEnds
  <1>5. in.makesPlan \in BOOLEAN
    BY <1>2, InputFacts
  <1> QED BY <1>3, <1>4, <1>5

LEMMA FinalizeEnds ==
    ASSUME RefinementInv, NEW r \in Runs, NEW in \in FinalizeInputs(run[r].mode),
           Finalize(r, in)
    PROVE  in.status \in Terminal /\ Turns!End(in.status)
  <1>1. Active = {r} /\ Active' = {}
    BY FinalizeEffect DEF RefinementInv
  <1>2. in.status \in Terminal
    BY InputFacts DEF RefinementInv, TypeOK, RunRow
  <1>3. run'[r].status = in.status /\ \A m \in Runs \ {r} : run'[m].status = run[m].status
    BY DEF Finalize, RefinementInv, TypeOK, RunRow
  <1>4. /\ TurnOf(Active) = r /\ r # NoRun
        /\ TurnOf(Active)' = NoRun
        /\ outcome' = [outcome EXCEPT ![r] = in.status]
    BY <1>1, <1>2, <1>3, RunEnds
  <1> QED BY <1>2, <1>4, FinalizeAsk, FinalizeProposal
          DEF Turns!End, ask, proposal, outcome

LEMMA InterruptEnds ==
    ASSUME RefinementInv, InterruptRunning PROVE Turns!End("interrupted")
  <1>1. PICK r \in Runs : Active = {r}
    BY DEF InterruptRunning, RefinementInv, CouplingInv, SingleFlight, Active
  <1>2. Active' = {} /\ \A n \in Runs : question'[n].status \notin Open
    BY InterruptEffect DEF RefinementInv
  <1>3. /\ run'[r].status = "interrupted"
        /\ \A m \in Runs \ {r} : run'[m].status = run[m].status
    BY <1>1 DEF InterruptRunning, RefinementInv, TypeOK, RunRow
  <1>4. /\ TurnOf(Active) = r /\ r # NoRun
        /\ TurnOf(Active)' = NoRun
        /\ outcome' = [outcome EXCEPT ![r] = "interrupted"]
    BY <1>1, <1>2, <1>3, RunEnds DEF Terminal
  <1>5. ask \in {"none", "answering"} /\ ask' = "none"
    BY <1>1, <1>2, AskWhileRunning, StatusOfNone DEF ask
  <1>6. PlanAfter("interrupted") = "stopped"
    BY DEF PlanAfter
  <1>7. UNION {Executed(s) : s \in Active} = Executed(r)
    BY <1>1
  <1>8. plan' = [p \in Runs |->
            IF p \in Executed(r)
            THEN [plan[p] EXCEPT !.status = PlanAfter("interrupted")]
            ELSE plan[p]]
    BY <1>6, <1>7 DEF InterruptRunning
  <1>9. IF proposal = "executing" THEN proposal' = "stopped" ELSE proposal' = proposal
    BY <1>1, <1>8, ExecutionEnds
  <1> QED BY <1>4, <1>5, <1>9 DEF Turns!End, ask, proposal, outcome

-----------------------------------------------------------------------------
(* The refinement *)

LEMMA InitMapsToInit == Init => Turns!Init
  <1> SUFFICES ASSUME Init PROVE Turns!Init
    OBVIOUS
  <1>1. /\ \A r \in Runs : run[r].status = "absent"
        /\ \A n \in Runs : question[n].status \notin Open
        /\ \A p \in Runs : plan[p].status \notin CurrentPlan
    BY DEF Init, Open, CurrentPlan
  <1>2. TurnOf(Active) = NoRun
    BY <1>1, TurnOfNothing DEF Active
  <1>3. ask = "none" /\ proposal = "none"
    BY <1>1, StatusOfNone DEF ask, proposal
  <1>4. [r \in Runs |-> OutcomeOf(run[r])] = [r \in Runs |-> "none"]
    BY <1>1 DEF OutcomeOf, Terminal
  <1> QED BY <1>2, <1>3, <1>4 DEF Turns!Init, ask, proposal

LEMMA StepMapsToStep ==
    ASSUME RefinementInv, [Next]_storeVars PROVE [Turns!Next]_(Turns!turnVars)
  <1>1. ASSUME run' = run, plan' = plan, question' = question
        PROVE  UNCHANGED Turns!turnVars
    BY <1>1, SameRuns DEF Turns!turnVars, outcome
  <1>2. CASE UNCHANGED storeVars
    BY <1>1, <1>2 DEF storeVars
  <1>3. CASE InterruptRunning
    BY <1>3, InterruptEnds DEF Turns!Next, Turns!Outcome
  <1>4. ASSUME NEW r \in Runs, StartAny(r) PROVE Turns!Next
    BY <1>4, StartBeginsMessage DEF StartAny, Turns!Next
  <1>5. ASSUME NEW r \in Runs, StartPlanExecutionAny(r) PROVE Turns!Next
    BY <1>5, StartBeginsExecution DEF StartPlanExecutionAny, Turns!Next
  <1>6. ASSUME NEW r \in Runs, StartQuestionAnswerAny(r) PROVE Turns!Next
    BY <1>6, StartBeginsAnswer DEF StartQuestionAnswerAny, Turns!Next
  <1>7. ASSUME NEW r \in Runs, SaveDraft(r) PROVE UNCHANGED Turns!turnVars
    BY <1>1, <1>7 DEF SaveDraft
  <1>8. ASSUME NEW r \in Runs, FinalizeAny(r) PROVE Turns!Next
    BY <1>8, FinalizeEnds DEF FinalizeAny, Turns!Next, Turns!Outcome, Terminal
  <1>9. ASSUME NEW p \in Runs, CancelPlan(p) PROVE Turns!Next
    BY <1>9, CancelPlanDiscards DEF Turns!Next
  <1>10. ASSUME NEW n \in Runs, CancelQuestion(n) PROVE Turns!Next
    BY <1>10, CancelQuestionDeclines DEF Turns!Next
  <1>11. ASSUME NEW r \in Runs, NEW n \in Runs, AcceptQuestionAnswer(r, n)
         PROVE  Turns!Next
    BY <1>11, AcceptAccepts DEF Turns!Next
  <1> QED
    BY <1>2, <1>3, <1>4, <1>5, <1>6, <1>7, <1>8, <1>9, <1>10, <1>11 DEF Next

\* The tables of the conversation, with all their transactions, keep the promise
\* of ConversationTurns: one turn at a time with one outcome, one plan and one
\* question in front of the user, and every transaction one of its steps.
THEOREM StoreImplementsTurns == Spec => ImplementsTurns
  <1>1. Init => Turns!Init
    BY InitMapsToInit
  <1>2. RefinementInv /\ [Next]_storeVars => [Turns!Next]_(Turns!turnVars)
    BY StepMapsToStep
  <1>3. Spec => []RefinementInv
    BY TypeCorrect, CouplingHolds, CurrentPlanIsUnique, HistoryHolds, PTL
       DEF RefinementInv
  <1> QED BY <1>1, <1>2, <1>3, PTL DEF Spec, ImplementsTurns, Turns!Spec

-----------------------------------------------------------------------------
(* The inductive invariant, in parts.                                        *)

\* What a goroutine hands to Finalize is an input of its run's mode, and only a run that
\* is in the table has a goroutine.
InputInv == \A r \in Runs :
    /\ task[r].input \in FinalizeInputs(run[r].mode)
    /\ run[r].status = "absent" => task[r].pc \in {"idle", "admitted"} /\ task[r].input = NoInput

\* A run whose end is saved is not running.
OwnedInv ==
    /\ RunningRunsAreOwned
    /\ \A r \in Runs : task[r].pc = "saved" => r \notin Active

\* An accepted answer belongs to a question that is answered, or is being answered by the
\* run whose goroutine knows of it.
ReachedInv == \A r \in Runs : reached[r] # NoRun =>
    LET n == reached[r] IN
    /\ run[r].status # "absent"
    /\ question[n].answerRun = r /\ question[n].status \in {"answering", "answered"}
    /\ task[r].pc = "streaming" => task[r].accepted
    /\ task[r].pc \in Saving => task[r].input.accepted

-----------------------------------------------------------------------------
(* What the transactions do to runs and to questions that have an answer.     *)

Taken == {"answering", "answered"}

\* The run of a row and its mode stay; no row goes away.
RowStays(r) ==
    /\ run'[r].mode = run[r].mode
    /\ run'[r].status = "absent" <=> run[r].status = "absent"

AnswerStays(n) ==
    question[n].status \in Taken =>
        question'[n].status \in Taken /\ question'[n].answerRun = question[n].answerRun

LEMMA StartEffect ==
    ASSUME TypeOK, NEW r \in Runs, StoreStart(r)
    PROVE  /\ run[r].status = "absent" /\ run'[r].status = "running" /\ run'[r].mode \in Mode
           /\ \A d \in Runs \ {r} : run'[d] = run[d]
           /\ Active = {} /\ Active' = {r}
           /\ \A n \in Runs : AnswerStays(n)
  <1> USE DEF Taken, AnswerStays
  <1>1. CASE StartAny(r)
    <2>1. PICK q \in Request, mode \in Mode, rev \in MaybeRun : Start(r, q, mode, rev)
      BY <1>1 DEF StartAny
    <2> QED BY <2>1, InsertedRunIsTheOnlyOne DEF Start, InsertRun, TypeOK
  <1>2. CASE StartPlanExecutionAny(r)
    <2>1. PICK p \in Runs, q \in Request : StartPlanExecution(r, p, q)
      BY <1>2 DEF StartPlanExecutionAny
    <2> QED BY <2>1, InsertedRunIsTheOnlyOne DEF StartPlanExecution, InsertRun, TypeOK, Mode
  <1>3. CASE StartQuestionAnswerAny(r)
    <2>1. PICK n \in Runs, q \in Request : StartQuestionAnswer(r, n, q)
      BY <1>3 DEF StartQuestionAnswerAny
    <2>2. question[n].mode \in Mode
      BY DEF TypeOK, QuestionRow
    <2> QED BY <2>1, <2>2, InsertedRunIsTheOnlyOne DEF StartQuestionAnswer, InsertRun, TypeOK
  <1> QED BY <1>1, <1>2, <1>3 DEF StoreStart

LEMMA QuietEffect ==
    ASSUME TypeOK, NEW r \in Runs,
           \/ \E n \in Runs : AcceptQuestionAnswer(r, n)
           \/ SaveDraft(r) \/ CancelPlan(r) \/ CancelQuestion(r)
    PROVE  run' = run /\ \A n \in Runs : AnswerStays(n)
  <1> USE DEF AnswerStays, Taken
  <1>1. ASSUME NEW n \in Runs, AcceptQuestionAnswer(r, n)
        PROVE  run' = run /\ \A m \in Runs : AnswerStays(m)
    BY <1>1 DEF AcceptQuestionAnswer, TypeOK, QuestionRow
  <1>2. CASE SaveDraft(r) \/ CancelPlan(r)
    BY <1>2 DEF SaveDraft, CancelPlan
  <1>3. CASE CancelQuestion(r)
    BY <1>3 DEF CancelQuestion, TypeOK, QuestionRow
  <1> QED BY <1>1, <1>2, <1>3

LEMMA FinalizeRow ==
    ASSUME TypeOK, NothingBeforeTheEnd, NEW r \in Runs,
           NEW in \in FinalizeInputs(run[r].mode), Finalize(r, in)
    PROVE  /\ r \in Active /\ r \notin Active' /\ Active' \subseteq Active
           /\ \A d \in Runs : RowStays(d)
           /\ \A n \in Runs : in.accepted \/ question[n].answerRun # r => AnswerStays(n)
  <1>1. in.status \in Terminal
    BY InputFacts DEF TypeOK, RunRow
  <1>2. /\ run[r].status = "running" /\ run'[r].status = in.status
        /\ run'[r].mode = run[r].mode
        /\ \A d \in Runs \ {r} : run'[d] = run[d]
    BY DEF Finalize, Finalizable, TypeOK, RunRow
  <1>3. question[r].status = "none"
    BY <1>2 DEF NothingBeforeTheEnd
  <1>4. ASSUME NEW n \in Runs, in.accepted \/ question[n].answerRun # r,
               question[n].status \in Taken
        PROVE  question'[n].status \in Taken /\ question'[n].answerRun = question[n].answerRun
    <2>1. n # r
      BY <1>3, <1>4 DEF Taken
    <2>2. question'[n] = SettledQuestions(r, in.accepted)[n]
      BY <2>1 DEF Finalize, FinalizeQuestions, SettledQuestions
    <2>3. CASE n \in AnsweredBy(r)
      <3>1. question'[n] = [question[n] EXCEPT !.status = "answered"]
        BY <1>4, <2>2, <2>3 DEF SettledQuestions, AnsweredBy
      <3> QED BY <3>1 DEF Taken, TypeOK, QuestionRow
    <2>4. CASE n \notin AnsweredBy(r)
      BY <1>4, <2>2, <2>4 DEF SettledQuestions
    <2> QED BY <2>3, <2>4
  <1> QED BY <1>1, <1>2, <1>4 DEF Active, RowStays, AnswerStays, Terminal

LEMMA InterruptRows ==
    ASSUME TypeOK, InterruptRunning
    PROVE  /\ \A d \in Runs : RowStays(d)
           /\ \A n \in Runs : AnswerStays(n)
           /\ Active' = {}
  BY DEF InterruptRunning, Active, TypeOK, RowStays, AnswerStays, Taken, RunRow, QuestionRow

-----------------------------------------------------------------------------
(* The controller on top of the store.                                       *)

StoreInv == TypeOK /\ CouplingInv /\ HistoryInv

\* One attempt to save, at whatever place: its input belongs to the run and keeps what is
\* known of the accepted answer.
Attempt(r, in, pc, tries) ==
    /\ task[r].pc \in Saving /\ pc \in Saving /\ tries \in 0..MaxAttempts - 1
    /\ in \in FinalizeInputs(run[r].mode) /\ in.accepted = task[r].input.accepted
    /\ SaveStep(r, in, pc, tries)

LEMMA AttemptShape ==
    ASSUME ControllerTypeOK, InputInv, NEW r \in Runs, Attempts(r)
    PROVE  \E in, pc, tries : Attempt(r, in, pc, tries)
  <1> DEFINE own == task[r].input
             other == Fallback(own)
  <1>1. /\ own \in FinalizeInputs(run[r].mode) /\ own.accepted \in BOOLEAN
        /\ task[r].tries \in 0..MaxAttempts - 1
    <2>1. run[r].mode \in Mode
      BY DEF ControllerTypeOK, TypeOK, RunRow
    <2> QED BY <2>1, InputFacts DEF ControllerTypeOK, InputInv, TaskRow
  <1>2. other \in FinalizeInputs(run[r].mode) /\ other.accepted = own.accepted
    BY <1>1 DEF Fallback, FallbackInput, FinalizeInputs
  <1> HIDE DEF own, other
  <1>3. CASE TryFinalize(r)
    <2> DEFINE next == (task[r].tries + 1) % MaxAttempts
               pc == IF task[r].tries + 1 = MaxAttempts THEN "fallback" ELSE "finalizing"
    <2>1. next \in 0..MaxAttempts - 1
      BY <1>1, MaxAttemptsAssumption
    <2>2. SaveStep(r, own, pc, next) /\ task[r].pc = "finalizing"
      BY <1>3 DEF TryFinalize, own
    <2> HIDE DEF next
    <2>3. Attempt(r, own, pc, next)
      BY <1>1, <2>1, <2>2 DEF Attempt, Saving, own
    <2> QED BY <2>3
  <1>4. CASE TryFallback(r)
    <2>1. Attempt(r, other, "recovering", task[r].tries)
      BY <1>1, <1>2, <1>4 DEF TryFallback, Attempt, Saving, own, other
    <2> QED BY <2>1
  <1>5. CASE TryRecover(r)
    <2>1. \/ Attempt(r, own, "recoverFallback", task[r].tries)
          \/ Attempt(r, other, "recovering", task[r].tries)
      BY <1>1, <1>2, <1>5 DEF TryRecover, Attempt, Saving, own, other
    <2> QED BY <2>1
  <1> QED BY <1>3, <1>4, <1>5 DEF Attempts

\* What an attempt does: it saves, or fails with or without a commit.
LEMMA AttemptEffect ==
    ASSUME StoreInv, ControllerTypeOK, NEW r \in Runs, NEW in, NEW pc, NEW tries,
           Attempt(r, in, pc, tries)
    PROVE  /\ \/ Finalize(r, in) \/ UNCHANGED storeVars
           /\ \A d \in Runs : RowStays(d)
           /\ \A n \in Runs : in.accepted \/ question[n].answerRun # r => AnswerStays(n)
           /\ Active' \subseteq Active
           /\ \A d \in Runs \ {r} : task'[d] = task[d]
           /\ UNCHANGED <<phase, live, reached>>
           /\ \/ task'[r].pc = "saved" /\ task'[r].input = NoInput /\ r \notin Active'
              \/ task'[r].pc = pc /\ task'[r].input = task[r].input
  <1> USE DEF StoreInv
  <1>1. ASSUME Finalize(r, in)
        PROVE  /\ \A d \in Runs : RowStays(d)
               /\ \A n \in Runs : in.accepted \/ question[n].answerRun # r => AnswerStays(n)
               /\ Active' \subseteq Active /\ r \notin Active'
    BY <1>1, FinalizeRow DEF Attempt, HistoryInv
  <1>2. ASSUME UNCHANGED storeVars
        PROVE  /\ \A d \in Runs : RowStays(d)
               /\ \A n \in Runs : AnswerStays(n)
               /\ Active' = Active
    BY <1>2 DEF storeVars, RowStays, AnswerStays, Active
  <1>3. CASE Saves(r, in)
    <2>1. ~Finalizable(r) /\ UNCHANGED storeVars => r \notin Active'
      BY <1>2 DEF Finalizable, Active
    <2>2. task' = [task EXCEPT ![r] = [Idle EXCEPT !.pc = "saved", !.interrupt = task[r].interrupt]]
      BY <1>3 DEF Saves
    <2>3. task'[r].pc = "saved" /\ task'[r].input = NoInput
      BY <2>2 DEF ControllerTypeOK, Idle
    <2> QED BY <1>1, <1>2, <1>3, <2>1, <2>2, <2>3 DEF Saves, Commit, ControllerTypeOK
  <1>4. CASE Fails(r, in, pc, tries)
    <2>1. PICK c \in CardsAfterFailure(task[r], in) :
            task' = [task EXCEPT ![r].pc = pc, ![r].tries = tries, ![r].cards = c]
      BY <1>4 DEF Fails
    <2>2. /\ \A d \in Runs \ {r} : task'[d] = task[d]
          /\ task'[r] = [task[r] EXCEPT !.pc = pc, !.tries = tries, !.cards = c]
      BY <2>1 DEF ControllerTypeOK
    <2>3. task'[r].pc = pc /\ task'[r].input = task[r].input
      BY <2>2 DEF ControllerTypeOK, TaskRow
    <2> QED BY <1>1, <1>2, <1>4, <2>2, <2>3 DEF Fails, Commit
  <1> QED BY <1>3, <1>4 DEF Attempt, SaveStep

\* Every step of the controller is a transaction of the store, or none.
LEMMA StepOfTheStore ==
    ASSUME StoreInv, ControllerTypeOK, InputInv, [ControllerNext]_vars
    PROVE  [Next]_storeVars
  <1>1. ASSUME NEW r \in Runs, RunStep(r)
        PROVE  [Next]_storeVars
    <2>1. CASE Admit(r) \/ EndStream(r) \/ Abandon(r) \/ Publish(r) \/ CancelRun(r)
      BY <2>1 DEF Admit, EndStream, Abandon, Publish, CancelRun
    <2>2. CASE StartRun(r)
      BY <2>2 DEF StartRun, StoreStart, Next
    <2>3. CASE AcceptAnswer(r)
      <3>1. PICK n \in Runs : AcceptQuestionAnswer(r, n) \/ UNCHANGED storeVars
        BY <2>3 DEF AcceptAnswer, Answers
      <3> QED BY <3>1 DEF Next
    <2>4. CASE PersistDraft(r)
      BY <2>4 DEF PersistDraft, Next
    <2>5. CASE Attempts(r)
      <3>1. PICK in, pc, tries : Attempt(r, in, pc, tries)
        BY <2>5, AttemptShape
      <3>2. CASE Finalize(r, in)
        <4>1. FinalizeAny(r)
          BY <3>1, <3>2 DEF FinalizeAny, Attempt
        <4> QED BY <4>1 DEF Next
      <3> QED BY <3>1, <3>2, AttemptEffect
    <2>6. CASE DismissCard(r)
      BY <2>6 DEF DismissCard, Next
    <2> QED BY <1>1, <2>1, <2>2, <2>3, <2>4, <2>5, <2>6 DEF RunStep, Attempts
  <1>2. CASE BeginShutdown \/ InterruptLive \/ EndDraining \/ Exit \/ Crash
    BY <1>2 DEF BeginShutdown, InterruptLive, EndDraining, Exit, Crash, Gone
  <1>3. CASE Restart
    BY <1>3 DEF Restart, Next
  <1>4. CASE UNCHANGED vars
    BY <1>4 DEF vars
  <1> QED BY <1>1, <1>2, <1>3, <1>4 DEF ControllerNext

-----------------------------------------------------------------------------
(* Types.                                                                    *)

LEMMA TaskRecords ==
    ASSUME NEW t \in TaskRow
    PROVE  /\ \A pc \in Pc : [t EXCEPT !.pc = pc] \in TaskRow
           /\ \A lost \in BOOLEAN : [t EXCEPT !.accepted = TRUE, !.failed = lost] \in TaskRow
           /\ \A in \in FinalizeInputs("plan") :
                [t EXCEPT !.pc = "finalizing", !.input = in,
                          !.accepted = FALSE, !.failed = FALSE] \in TaskRow
           /\ \A pc \in Pc, tries \in 0..MaxAttempts - 1, c \in 0..CardBound :
                [t EXCEPT !.pc = pc, !.tries = tries, !.cards = c] \in TaskRow
           /\ [t EXCEPT !.cancelled = TRUE] \in TaskRow
           /\ \A b \in BOOLEAN : [t EXCEPT !.interrupt = b] \in TaskRow
           /\ \A pc \in Pc : [Idle EXCEPT !.pc = pc, !.interrupt = t.interrupt] \in TaskRow
           /\ Idle \in TaskRow /\ [Idle EXCEPT !.pc = "done"] \in TaskRow
  <1>1. ASSUME NEW pc \in Pc
        PROVE  [t EXCEPT !.pc = pc] \in TaskRow
    BY DEF TaskRow
  <1>2. ASSUME NEW lost \in BOOLEAN
        PROVE  [t EXCEPT !.accepted = TRUE, !.failed = lost] \in TaskRow
    BY DEF TaskRow
  <1>3. ASSUME NEW in \in FinalizeInputs("plan")
        PROVE  [t EXCEPT !.pc = "finalizing", !.input = in,
                         !.accepted = FALSE, !.failed = FALSE] \in TaskRow
    BY DEF TaskRow, Pc
  <1>4. ASSUME NEW pc \in Pc, NEW tries \in 0..MaxAttempts - 1, NEW c \in 0..CardBound
        PROVE  [t EXCEPT !.pc = pc, !.tries = tries, !.cards = c] \in TaskRow
    BY DEF TaskRow
  <1>5. [t EXCEPT !.cancelled = TRUE] \in TaskRow
    BY DEF TaskRow
  <1>6. ASSUME NEW b \in BOOLEAN
        PROVE  [t EXCEPT !.interrupt = b] \in TaskRow
    BY DEF TaskRow
  <1>7. Idle \in TaskRow
    <2>1. NoInput \in FinalizeInputs("plan")
      BY DEF NoInput, FinalizeInputs
    <2>2. 0 \in 0..MaxAttempts - 1 /\ 0 \in 0..CardBound
      BY MaxAttemptsAssumption, CardBoundAssumption
    <2> QED BY <2>1, <2>2 DEF Idle, TaskRow, Pc
  <1>8. ASSUME NEW pc \in Pc
        PROVE  [Idle EXCEPT !.pc = pc, !.interrupt = t.interrupt] \in TaskRow
    BY <1>7 DEF TaskRow
  <1>9. [Idle EXCEPT !.pc = "done"] \in TaskRow
    BY <1>7 DEF TaskRow, Pc
  <1> QED BY <1>1, <1>2, <1>3, <1>4, <1>5, <1>6, <1>7, <1>8, <1>9

LEMMA PlanInputs == \A mode \in Mode : FinalizeInputs(mode) \subseteq FinalizeInputs("plan")
  <1>1. ASSUME NEW mode \in Mode, NEW st \in Terminal, NEW in \in FullInput(st, mode)
        PROVE  in \in FullInput(st, "plan")
    BY DEF FullInput
  <1> QED BY <1>1 DEF FinalizeInputs

\* The goroutines.
LEMMA TaskType ==
    ASSUME StoreInv, ControllerTypeOK, InputInv, ControllerNext
    PROVE  task' \in [Runs -> TaskRow]
  <1> USE DEF ControllerTypeOK
  <1>1. ASSUME NEW r \in Runs, RunStep(r)
        PROVE  task' \in [Runs -> TaskRow]
    <2> DEFINE t == task[r]
    <2>0. t \in TaskRow
      OBVIOUS
    <2>1. CASE Attempts(r)
      <3>1. PICK in, pc, tries : Attempt(r, in, pc, tries)
        BY <2>1, AttemptShape
      <3>2. pc \in Pc /\ tries \in 0..MaxAttempts - 1
        BY <3>1 DEF Attempt, Saving, Pc
      <3>3. /\ Saves(r, in) =>
                 task' = [task EXCEPT ![r] =
                            [Idle EXCEPT !.pc = "saved", !.interrupt = t.interrupt]]
            /\ Fails(r, in, pc, tries) => \E c \in CardsAfterFailure(t, in) :
                 task' = [task EXCEPT ![r] = [t EXCEPT !.pc = pc, !.tries = tries, !.cards = c]]
        BY DEF Saves, Fails
      <3>4. \A c \in CardsAfterFailure(t, in) : c \in 0..CardBound
        BY <2>0, CardBoundAssumption DEF CardsAfterFailure, TaskRow
      <3> HIDE DEF t
      <3>5. CASE Saves(r, in)
        <4>1. [Idle EXCEPT !.pc = "saved", !.interrupt = t.interrupt] \in TaskRow
          BY <2>0, TaskRecords DEF Pc
        <4> QED BY <3>3, <3>5, <4>1
      <3>6. CASE Fails(r, in, pc, tries)
        <4>1. PICK c \in 0..CardBound :
                task' = [task EXCEPT ![r] = [t EXCEPT !.pc = pc, !.tries = tries, !.cards = c]]
          BY <3>3, <3>4, <3>6
        <4>2. [t EXCEPT !.pc = pc, !.tries = tries, !.cards = c] \in TaskRow
          BY <2>0, <3>2, TaskRecords
        <4> QED BY <4>1, <4>2
      <3> QED BY <3>1, <3>5, <3>6 DEF Attempt, SaveStep
    <2>2. CASE Admit(r) \/ StartRun(r)
      <3>1. PICK pc \in Pc : task' = [task EXCEPT ![r] = [t EXCEPT !.pc = pc]]
        BY <2>2 DEF Admit, StartRun, Goto, Pc
      <3> HIDE DEF t
      <3> QED BY <2>0, <3>1, TaskRecords
    <2>3. CASE AcceptAnswer(r)
      <3>1. PICK lost \in BOOLEAN :
              task' = [task EXCEPT ![r] = [t EXCEPT !.accepted = TRUE, !.failed = lost]]
        BY <2>3, LostAcksAssumption DEF AcceptAnswer
      <3> HIDE DEF t
      <3> QED BY <2>0, <3>1, TaskRecords
    <2>4. CASE EndStream(r)
      <3>1. \E st \in EndStatuses(t) : \E in \in FullInput(st, run[r].mode) :
              task' = [task EXCEPT ![r].pc = "finalizing", ![r].input = in,
                                   ![r].accepted = FALSE, ![r].failed = FALSE]
        BY <2>4 DEF EndStream
      <3>2. PICK st \in EndStatuses(t) : \E in \in FullInput(st, run[r].mode) :
              task' = [task EXCEPT ![r].pc = "finalizing", ![r].input = in,
                                   ![r].accepted = FALSE, ![r].failed = FALSE]
        BY <3>1
      <3>3. PICK in \in FullInput(st, run[r].mode) :
              task' = [task EXCEPT ![r].pc = "finalizing", ![r].input = in,
                                   ![r].accepted = FALSE, ![r].failed = FALSE]
        BY <3>2
      <3>4. task' = [task EXCEPT ![r] = [t EXCEPT !.pc = "finalizing", !.input = in,
                                                  !.accepted = FALSE, !.failed = FALSE]]
        BY <3>3
      <3>5. in \in FinalizeInputs("plan")
        <4>1. st \in Terminal
          BY DEF EndStatuses, Terminal
        <4>2. in \in FinalizeInputs(run[r].mode)
          BY <4>1 DEF FinalizeInputs
        <4> QED BY <4>2, PlanInputs DEF TypeOK, RunRow
      <3> HIDE DEF t
      <3> QED BY <2>0, <3>4, <3>5, TaskRecords
    <2>5. CASE Abandon(r) \/ Publish(r)
      BY <2>0, <2>5, TaskRecords DEF Abandon, Publish, Finish
    <2>6. CASE CancelRun(r)
      <3>1. task' = [task EXCEPT ![r] = [t EXCEPT !.cancelled = TRUE]]
        BY <2>6 DEF CancelRun
      <3> HIDE DEF t
      <3> QED BY <2>0, <3>1, TaskRecords
    <2>7. CASE PersistDraft(r) \/ DismissCard(r)
      BY <2>7 DEF PersistDraft, DismissCard, processVars
    <2> QED BY <1>1, <2>1, <2>2, <2>3, <2>4, <2>5, <2>6, <2>7 DEF RunStep, Attempts
  <1>2. CASE InterruptLive
    <2>1. ASSUME NEW r \in Runs
          PROVE  [task[r] EXCEPT !.interrupt = task[r].interrupt \/ r \in live] \in TaskRow
      <3>1. task[r] \in TaskRow
        BY DEF ControllerTypeOK
      <3>2. ASSUME NEW b \in BOOLEAN PROVE [task[r] EXCEPT !.interrupt = b] \in TaskRow
        BY <3>1 DEF TaskRow
      <3> QED BY <3>2
    <2> QED BY <1>2, <2>1 DEF InterruptLive
  <1>3. CASE Exit \/ Crash
    <2>1. ASSUME NEW r \in Runs
          PROVE  Idle \in TaskRow
      BY TaskRecords
    <2> QED BY <1>3, <2>1 DEF Exit, Crash, Gone
  <1>4. CASE BeginShutdown \/ EndDraining \/ Restart
    BY <1>4 DEF BeginShutdown, EndDraining, Restart
  <1> QED BY <1>1, <1>2, <1>3, <1>4 DEF ControllerNext

LEMMA ControllerTypeStep ==
    ASSUME StoreInv, ControllerTypeOK, InputInv, [ControllerNext]_vars
    PROVE  ControllerTypeOK'
  <1>1. TypeOK'
    BY StepOfTheStore, TypeStep DEF StoreInv
  <1>2. task' \in [Runs -> TaskRow]
    BY TaskType DEF vars, processVars, ControllerTypeOK
  <1> SUFFICES /\ phase' \in Phase /\ live' \in SUBSET Runs
               /\ shown' \in [Runs -> 0..CardBound + 1] /\ reached' \in [Runs -> MaybeRun]
    BY <1>1, <1>2 DEF ControllerTypeOK
  <1> USE DEF ControllerTypeOK
  <1>3. ASSUME NEW r \in Runs, RunStep(r)
        PROVE  /\ phase' \in Phase /\ live' \in SUBSET Runs
               /\ shown' \in [Runs -> 0..CardBound + 1] /\ reached' \in [Runs -> MaybeRun]
    <2>1. CASE Attempts(r)
      <3>1. PICK in, pc, tries : Attempt(r, in, pc, tries)
        BY <2>1, AttemptShape
      <3>2. UNCHANGED <<phase, live, reached>>
        BY <3>1, AttemptEffect
      <3>3. task[r].cards + 1 \in 0..CardBound + 1
        BY CardBoundAssumption DEF TaskRow
      <3>4. shown' = shown \/ shown' = [shown EXCEPT ![r] = task[r].cards + 1]
        BY <3>1 DEF Attempt, SaveStep, Saves, Fails, Commit
      <3> QED BY <3>2, <3>3, <3>4
    <2>2. CASE Admit(r) \/ StartRun(r) \/ EndStream(r) \/ Abandon(r) \/ Publish(r) \/ CancelRun(r)
      BY <2>2 DEF Admit, StartRun, EndStream, Abandon, Publish, CancelRun
    <2>3. CASE AcceptAnswer(r)
      BY <2>3 DEF AcceptAnswer, Answers, MaybeRun
    <2>4. CASE PersistDraft(r) \/ DismissCard(r)
      BY <2>4 DEF PersistDraft, DismissCard, processVars
    <2> QED BY <1>3, <2>1, <2>2, <2>3, <2>4 DEF RunStep, Attempts
  <1>4. CASE BeginShutdown \/ InterruptLive \/ EndDraining \/ Exit \/ Crash \/ Restart
    BY <1>4 DEF BeginShutdown, InterruptLive, EndDraining, Exit, Crash, Gone, Restart, Phase
  <1>5. CASE UNCHANGED vars
    BY <1>5 DEF vars, processVars
  <1> QED BY <1>3, <1>4, <1>5 DEF ControllerNext

-----------------------------------------------------------------------------
(* The inputs.                                                               *)

\* The steps of a run leave the goroutines of the other runs alone, and a row that is in
\* the table stays there with its mode.
LEMMA RunStepFrame ==
    ASSUME StoreInv, ControllerTypeOK, InputInv, NEW r \in Runs, RunStep(r)
    PROVE  /\ \A d \in Runs \ {r} : task'[d] = task[d] /\ RowStays(d)
           /\ StartRun(r) \/ RowStays(r)
  <1> USE DEF ControllerTypeOK
  <1>1. CASE UNCHANGED run /\ \A d \in Runs \ {r} : task'[d] = task[d]
    BY <1>1 DEF RowStays
  <1>2. CASE Admit(r) \/ EndStream(r) \/ Abandon(r) \/ Publish(r) \/ CancelRun(r)
    BY <1>1, <1>2 DEF Admit, Goto, EndStream, Abandon, Publish, Finish, CancelRun, storeVars
  <1>3. CASE StartRun(r)
    BY <1>3, StartEffect DEF StartRun, Goto, RowStays
  <1>4. CASE AcceptAnswer(r)
    <2>1. UNCHANGED run
      BY <1>4 DEF AcceptAnswer, AcceptQuestionAnswer, storeVars
    <2> QED BY <1>1, <1>4, <2>1 DEF AcceptAnswer
  <1>5. CASE PersistDraft(r) \/ DismissCard(r)
    BY <1>1, <1>5 DEF PersistDraft, DismissCard, SaveDraft, CancelPlan, CancelQuestion, processVars
  <1>6. CASE Attempts(r)
    BY <1>6, AttemptShape, AttemptEffect
  <1> QED BY <1>2, <1>3, <1>4, <1>5, <1>6 DEF RunStep, Attempts

LEMMA InputStep ==
    ASSUME StoreInv, ControllerTypeOK, InputInv, [ControllerNext]_vars
    PROVE  InputInv'
  <1> USE DEF InputInv
  <1>0. \A mode : NoInput \in FinalizeInputs(mode)
    BY DEF NoInput, FinalizeInputs
  <1>1. ASSUME NEW r \in Runs, RunStep(r), NEW d \in Runs
        PROVE  /\ task'[d].input \in FinalizeInputs(run'[d].mode)
               /\ run'[d].status = "absent" =>
                     task'[d].pc \in {"idle", "admitted"} /\ task'[d].input = NoInput
    <2>1. CASE d # r
      BY <1>1, <2>1, RunStepFrame DEF RowStays
    <2>2. CASE d = r /\ StartRun(r)
      <3>1. run[r].status = "absent" /\ run'[r].status # "absent"
        BY <2>2, StartEffect DEF StartRun, ControllerTypeOK
      <3>2. task'[r].input = task[r].input
        BY <2>2 DEF StartRun, Goto, ControllerTypeOK, TaskRow
      <3> QED BY <1>0, <2>2, <3>1, <3>2
    <2>3. CASE d = r /\ RowStays(r) /\ Attempts(r)
      <3>1. PICK in, pc, tries : Attempt(r, in, pc, tries)
        BY <2>3, AttemptShape
      <3>2. task'[r].input \in {task[r].input, NoInput}
        BY <3>1, AttemptEffect
      <3>3. run[r].status # "absent"
        BY <3>1 DEF Attempt, Saving
      <3> QED BY <1>0, <2>3, <3>2, <3>3 DEF RowStays
    <2>4. CASE d = r /\ RowStays(r) /\ EndStream(r)
      <3>1. PICK st \in EndStatuses(task[r]) : \E in \in FullInput(st, run[r].mode) :
              task'[r].input = in
        BY <2>4 DEF EndStream, ControllerTypeOK, TaskRow
      <3>2. st \in Terminal /\ run[r].status # "absent"
        BY <2>4 DEF EndStatuses, Terminal, EndStream
      <3>3. task'[r].input \in FinalizeInputs(run[r].mode)
        BY <3>1, <3>2 DEF FinalizeInputs
      <3> QED BY <2>4, <3>2, <3>3 DEF RowStays
    <2>5. CASE d = r /\ RowStays(r) /\ Admit(r)
      <3>1. task'[r].input = task[r].input /\ task'[r].pc = "admitted"
        BY <2>5 DEF Admit, Goto, ControllerTypeOK, TaskRow
      <3> QED BY <2>5, <3>1 DEF RowStays
    <2>6. CASE d = r /\ RowStays(r) /\ (AcceptAnswer(r) \/ CancelRun(r))
      <3>1. task'[r].input = task[r].input /\ task'[r].pc = task[r].pc
        BY <2>6 DEF AcceptAnswer, CancelRun, ControllerTypeOK, TaskRow
      <3> QED BY <2>6, <3>1 DEF RowStays
    <2>7. CASE d = r /\ RowStays(r) /\ (Abandon(r) \/ Publish(r))
      <3>1. task'[r].input = NoInput
        BY <2>7 DEF Abandon, Publish, Finish, Idle, ControllerTypeOK
      <3>2. run[r].status # "absent"
        BY <2>7 DEF Abandon, Publish
      <3> QED BY <1>0, <2>7, <3>1, <3>2 DEF RowStays
    <2>8. CASE d = r /\ RowStays(r) /\ (PersistDraft(r) \/ DismissCard(r))
      BY <2>8 DEF PersistDraft, DismissCard, processVars, RowStays
    <2> QED BY <1>1, <2>1, <2>2, <2>3, <2>4, <2>5, <2>6, <2>7, <2>8, RunStepFrame
          DEF RunStep, Attempts
  <1>2. CASE BeginShutdown \/ EndDraining
    BY <1>2 DEF BeginShutdown, EndDraining, storeVars
  <1>3. CASE InterruptLive
    <2>1. \A d \in Runs : task'[d].input = task[d].input /\ task'[d].pc = task[d].pc
      BY <1>3 DEF InterruptLive, ControllerTypeOK, TaskRow
    <2> QED BY <1>3, <2>1 DEF InterruptLive, storeVars
  <1>4. CASE Exit \/ Crash
    <2>1. \A d \in Runs : task'[d].input = NoInput /\ task'[d].pc = "idle"
      BY <1>4 DEF Exit, Crash, Gone, Idle
    <2> QED BY <1>0, <1>4, <2>1
  <1>5. CASE Restart
    <2>1. \A d \in Runs : RowStays(d)
      BY <1>5, InterruptRows DEF Restart, storeVars, RowStays, StoreInv
    <2> QED BY <1>5, <2>1 DEF Restart, RowStays
  <1>6. CASE UNCHANGED vars
    BY <1>6 DEF vars, storeVars, processVars
  <1> QED BY <1>1, <1>2, <1>3, <1>4, <1>5, <1>6 DEF ControllerNext

-----------------------------------------------------------------------------
(* Ownership.                                                                *)

Owned(r) ==
    \/ task[r].pc = "unowned"
    \/ r \in live /\ task[r].pc \in {"streaming"} \cup Saving
    \/ r \in live /\ task[r].pc = "done" /\ phase \in Stopped

OwnedOrOver(r) ==
    /\ phase # "down" /\ r \in Active => Owned(r)
    /\ task[r].pc = "saved" => r \notin Active

\* A step that starts no run and touches neither the map nor the run's goroutine.
LEMMA OwnedStays ==
    ASSUME OwnedInv, NEW d \in Runs, Active' \subseteq Active, task'[d].pc = task[d].pc,
           d \in live => d \in live', phase' = phase \/ phase \notin Stopped, phase # "down"
    PROVE  OwnedOrOver(d)'
  BY DEF OwnedInv, RunningRunsAreOwned, OwnedOrOver, Owned

LEMMA OwnedStep ==
    ASSUME StoreInv, ControllerTypeOK, InputInv, OwnedInv, [ControllerNext]_vars
    PROVE  OwnedInv'
  <1> SUFFICES \A d \in Runs : OwnedOrOver(d)'
    BY DEF OwnedInv, RunningRunsAreOwned, OwnedOrOver, Owned, Active
  <1> USE DEF ControllerTypeOK
  <1>1. ASSUME NEW r \in Runs, RunStep(r), NEW d \in Runs
        PROVE  OwnedOrOver(d)'
    <2>0. \A e \in Runs \ {r} : task'[e] = task[e]
      BY <1>1, RunStepFrame
    <2>1. CASE StartRun(r)
      <3>1. Active = {} /\ Active' = {r} /\ phase' = phase /\ phase # "down"
        BY <2>1, StartEffect DEF StartRun
      <3>2. \/ r \in live' /\ task'[r].pc = "streaming"
            \/ task'[r].pc = "unowned"
        BY <2>1 DEF StartRun, Goto, TaskRow
      <3> QED BY <2>0, <3>1, <3>2 DEF OwnedOrOver, Owned
    <2>2. CASE Attempts(r)
      <3>1. PICK in, pc, tries : Attempt(r, in, pc, tries)
        BY <2>2, AttemptShape
      <3>2. /\ Active' \subseteq Active /\ UNCHANGED <<phase, live>>
            /\ \/ task'[r].pc = "saved" /\ r \notin Active'
               \/ task'[r].pc = pc
        BY <3>1, AttemptEffect
      <3>3. task[r].pc \in Saving /\ pc \in Saving
        BY <3>1 DEF Attempt
      <3> QED BY <2>0, <3>2, <3>3 DEF OwnedInv, RunningRunsAreOwned, OwnedOrOver, Owned, Saving
    <2>3. CASE Admit(r) \/ EndStream(r)
      <3>1. Active' = Active /\ UNCHANGED <<phase, live>>
        BY <2>3 DEF Admit, EndStream, storeVars, Active
      <3>2. \/ task'[r].pc = "admitted" /\ r \notin Active
            \/ task'[r].pc = "finalizing" /\ task[r].pc = "streaming"
        <4>1. CASE Admit(r)
          BY <4>1 DEF Admit, Goto, TaskRow, Active
        <4>2. CASE EndStream(r)
          BY <4>2 DEF EndStream, TaskRow
        <4> QED BY <2>3, <4>1, <4>2
      <3> QED BY <2>0, <3>1, <3>2 DEF OwnedInv, RunningRunsAreOwned, OwnedOrOver, Owned, Saving
    <2>4. CASE Abandon(r)
      <3>1. /\ Active' = Active /\ UNCHANGED <<phase, live>> /\ phase \in Stopped
            /\ task[r].pc \in Saving /\ task'[r].pc = "done"
        BY <2>4 DEF Abandon, Finish, Idle, storeVars, Active, Saving
      <3> QED BY <2>0, <3>1 DEF OwnedInv, RunningRunsAreOwned, OwnedOrOver, Owned, Saving
    <2>5. CASE Publish(r)
      <3>1. /\ Active' = Active /\ UNCHANGED phase /\ live' = live \ {r}
            /\ task[r].pc = "saved" /\ task'[r].pc = "done"
        BY <2>5 DEF Publish, Finish, Idle, storeVars, Active
      <3> QED BY <2>0, <3>1 DEF OwnedInv, RunningRunsAreOwned, OwnedOrOver, Owned, Saving
    <2>6. CASE AcceptAnswer(r) \/ CancelRun(r) \/ PersistDraft(r) \/ DismissCard(r)
      <3>1. run' = run /\ UNCHANGED <<phase, live>>
        <4>1. CASE AcceptAnswer(r)
          BY <4>1 DEF AcceptAnswer, AcceptQuestionAnswer, storeVars
        <4>2. CASE CancelRun(r) \/ PersistDraft(r) \/ DismissCard(r)
          BY <4>2 DEF CancelRun, PersistDraft, SaveDraft, DismissCard, CancelPlan, CancelQuestion,
                storeVars, processVars
        <4> QED BY <2>6, <4>1, <4>2
      <3>2. task'[r].pc = task[r].pc
        BY <2>6 DEF AcceptAnswer, CancelRun, PersistDraft, DismissCard, processVars, TaskRow
      <3> QED BY <2>0, <3>1, <3>2 DEF OwnedInv, RunningRunsAreOwned, OwnedOrOver, Owned, Active
    <2> QED BY <1>1, <2>1, <2>2, <2>3, <2>4, <2>5, <2>6 DEF RunStep, Attempts
  <1>2. CASE BeginShutdown \/ InterruptLive \/ EndDraining
    <2>1. /\ run' = run /\ live' = live /\ \A d \in Runs : task'[d].pc = task[d].pc
          /\ phase \notin Stopped /\ phase # "down"
      BY <1>2 DEF BeginShutdown, InterruptLive, EndDraining, storeVars, Stopped, TaskRow
    <2> QED BY <2>1, OwnedStays DEF Active
  <1>3. CASE Exit \/ Crash
    BY <1>3 DEF Exit, Crash, Gone, OwnedOrOver, Idle
  <1>4. CASE Restart
    <2>1. Active' = {}
      BY <1>4, InterruptRows DEF Restart, storeVars, Active, StoreInv
    <2> QED BY <2>1 DEF OwnedOrOver
  <1>5. CASE UNCHANGED vars
    BY <1>5 DEF vars, storeVars, processVars, OwnedInv, RunningRunsAreOwned, OwnedOrOver, Owned,
          Active
  <1> QED BY <1>1, <1>2, <1>3, <1>4, <1>5 DEF ControllerNext

-----------------------------------------------------------------------------
(* Accepted answers.                                                         *)

Kept(r) ==
    LET n == reached[r] IN
    /\ run[r].status # "absent"
    /\ question[n].answerRun = r /\ question[n].status \in Taken
    /\ task[r].pc = "streaming" => task[r].accepted
    /\ task[r].pc \in Saving => task[r].input.accepted

\* A step that keeps the answered question, the row, and what the goroutine knows.
LEMMA KeptStays ==
    ASSUME ControllerTypeOK, ReachedInv, NEW d \in Runs, reached'[d] = reached[d],
           RowStays(d), \A n \in Runs : question[n].answerRun = d => AnswerStays(n),
           \/ task'[d] = task[d]
           \/ task'[d].pc \notin {"streaming"} \cup Saving
           \/ task'[d].pc \in Saving /\ task[d].pc \in Saving /\ task'[d].input = task[d].input
           \/ task'[d].pc = "streaming" /\ task[d].pc = "streaming" /\ task'[d].accepted
    PROVE  reached'[d] # NoRun => Kept(d)'
  <1> SUFFICES ASSUME reached[d] # NoRun
               PROVE  Kept(d)'
    OBVIOUS
  <1>1. reached[d] \in Runs
    BY DEF ControllerTypeOK, MaybeRun
  <1>2. Kept(d)
    BY DEF ReachedInv, Kept, Taken
  <1> QED BY <1>1, <1>2 DEF Kept, RowStays, AnswerStays, Taken, Saving

LEMMA ReachedStep ==
    ASSUME StoreInv, ControllerTypeOK, InputInv, ReachedInv, [ControllerNext]_vars
    PROVE  ReachedInv'
  <1> SUFFICES \A d \in Runs : reached'[d] # NoRun => Kept(d)'
    BY DEF ReachedInv, Kept, Taken
  <1> USE DEF ControllerTypeOK
  <1>1. ASSUME NEW r \in Runs, RunStep(r), NEW d \in Runs, reached'[d] # NoRun
        PROVE  Kept(d)'
    <2>0. \A e \in Runs \ {r} : task'[e] = task[e] /\ RowStays(e)
      BY <1>1, RunStepFrame
    <2>1. CASE StartRun(r)
      <3>1. /\ run[r].status = "absent" /\ \A n \in Runs : AnswerStays(n)
            /\ reached' = reached
        BY <2>1, StartEffect DEF StartRun
      <3>2. d # r
        BY <1>1, <3>1 DEF ReachedInv
      <3> QED BY <1>1, <2>0, <3>1, <3>2, KeptStays
    <2>2. CASE Attempts(r)
      <3>1. PICK in, pc, tries : Attempt(r, in, pc, tries)
        BY <2>2, AttemptShape
      <3>2. /\ task[r].pc \in Saving /\ pc \in Saving /\ in.accepted = task[r].input.accepted
        BY <3>1 DEF Attempt
      <3>3. /\ reached' = reached /\ \A e \in Runs : RowStays(e)
            /\ \A n \in Runs : in.accepted \/ question[n].answerRun # r => AnswerStays(n)
            /\ \/ task'[r].pc = "saved"
               \/ task'[r].pc = pc /\ task'[r].input = task[r].input
        BY <3>1, AttemptEffect
      <3>4. d = r => in.accepted
        BY <1>1, <3>2, <3>3 DEF ReachedInv
      <3>5. \A n \in Runs : question[n].answerRun = d => AnswerStays(n)
        BY <3>3, <3>4
      <3> QED BY <1>1, <2>0, <3>2, <3>3, <3>5, KeptStays DEF Saving
    <2>3. CASE AcceptAnswer(r)
      <3>1. PICK n \in Answers(r) : /\ reached' = [reached EXCEPT ![r] = n]
                                    /\ AcceptQuestionAnswer(r, n) \/ UNCHANGED storeVars
        BY <2>3 DEF AcceptAnswer
      <3>2. /\ run' = run /\ \A m \in Runs : AnswerStays(m)
            /\ n \in Runs /\ question[n].answerRun = r /\ question[n].status \in Taken
        BY <3>1, QuietEffect DEF Answers, AnswerStays, Taken, storeVars, StoreInv
      <3>3. task[r].pc = "streaming" /\ task'[r].pc = "streaming" /\ task'[r].accepted
        BY <2>3 DEF AcceptAnswer, TaskRow
      <3>4. CASE d = r
        <4>1. reached'[r] = n /\ run'[r].status # "absent"
          BY <3>1, <3>2, <3>3 DEF InputInv
        <4> QED BY <3>2, <3>3, <3>4, <4>1 DEF Kept, AnswerStays, Saving
      <3>5. CASE d # r
        <4>1. reached'[d] = reached[d]
          BY <3>1, <3>5
        <4> QED BY <1>1, <2>0, <3>2, <3>5, <4>1, KeptStays
      <3> QED BY <3>4, <3>5
    <2>4. CASE EndStream(r)
      <3>1. UNCHANGED storeVars /\ reached' = reached /\ task[r].pc = "streaming"
        BY <2>4 DEF EndStream
      <3>2. task'[r].pc = "finalizing" /\ task'[r].input.accepted = task[r].accepted
        BY <2>4 DEF EndStream, TaskRow
      <3>3. CASE d = r
        BY <1>1, <3>1, <3>2, <3>3 DEF ReachedInv, Kept, storeVars, Saving, Taken
      <3>4. CASE d # r
        BY <1>1, <2>0, <3>1, <3>4, KeptStays DEF storeVars, AnswerStays
      <3> QED BY <3>3, <3>4
    <2>5. CASE Admit(r) \/ Abandon(r) \/ Publish(r)
      <3>1. UNCHANGED storeVars /\ reached' = reached
        BY <2>5 DEF Admit, Abandon, Publish
      <3>2. task'[r].pc \in {"admitted", "done"}
        BY <2>5 DEF Admit, Goto, Abandon, Publish, Finish, TaskRow, Idle
      <3>3. RowStays(r) /\ \A n \in Runs : AnswerStays(n)
        BY <3>1 DEF storeVars, RowStays, AnswerStays
      <3> QED BY <1>1, <2>0, <3>1, <3>2, <3>3, KeptStays DEF Saving
    <2>6. CASE CancelRun(r)
      <3>1. UNCHANGED storeVars /\ reached' = reached
        BY <2>6 DEF CancelRun
      <3>2. task'[r].pc = task[r].pc /\ task'[r].input = task[r].input
            /\ task'[r].accepted = task[r].accepted
        BY <2>6 DEF CancelRun, TaskRow
      <3> QED BY <1>1, <2>0, <3>1, <3>2 DEF storeVars, ReachedInv, Kept, Taken
    <2>7. CASE PersistDraft(r) \/ DismissCard(r)
      <3>1. run' = run /\ (\A n \in Runs : AnswerStays(n)) /\ UNCHANGED processVars
        BY <2>7, QuietEffect DEF PersistDraft, DismissCard, StoreInv
      <3> QED BY <1>1, <3>1, KeptStays DEF processVars, RowStays
    <2> QED BY <1>1, <2>1, <2>2, <2>3, <2>4, <2>5, <2>6, <2>7 DEF RunStep, Attempts
  <1>2. CASE BeginShutdown \/ InterruptLive \/ EndDraining \/ Exit \/ Crash
    <2>1. UNCHANGED <<storeVars, reached>>
      BY <1>2 DEF BeginShutdown, InterruptLive, EndDraining, Exit, Crash, Gone
    <2>2. \A d \in Runs :
            \/ task'[d].pc = "idle"
            \/ /\ task'[d].pc = task[d].pc /\ task'[d].input = task[d].input
               /\ task'[d].accepted = task[d].accepted
      BY <1>2 DEF BeginShutdown, InterruptLive, EndDraining, Exit, Crash, Gone, Idle, TaskRow
    <2> QED BY <2>1, <2>2 DEF storeVars, ReachedInv, Kept, Taken, Saving
  <1>3. CASE Restart
    <2>1. \A d \in Runs : RowStays(d) /\ AnswerStays(d)
      BY <1>3, InterruptRows DEF Restart, storeVars, RowStays, AnswerStays, StoreInv
    <2> QED BY <1>3, <2>1, KeptStays DEF Restart
  <1>4. CASE UNCHANGED vars
    BY <1>4 DEF vars, storeVars, processVars, ReachedInv, Kept, Taken
  <1> QED BY <1>1, <1>2, <1>3, <1>4 DEF ControllerNext

-----------------------------------------------------------------------------
(* The theorems.                                                             *)

ControllerTyped == StoreInv /\ ControllerTypeOK /\ InputInv

LEMMA TypedInit == ControllerInit => ControllerTypeOK /\ InputInv
  <1> SUFFICES ASSUME ControllerInit
               PROVE  ControllerTypeOK /\ InputInv
    OBVIOUS
  <1>1. TypeOK
    BY DEF ControllerInit, Init, TypeOK, RunRow, PlanRow, QuestionRow, MessageRow, RunStatus,
           Mode, MaybeRun
  <1>2. ASSUME NEW r \in Runs
        PROVE  task[r] \in TaskRow /\ task[r].input = NoInput /\ task[r].pc = "idle"
    <2>1. NoInput \in FinalizeInputs("plan")
      BY DEF NoInput, FinalizeInputs
    <2>2. 0 \in 0..MaxAttempts - 1 /\ 0 \in 0..CardBound
      BY MaxAttemptsAssumption, CardBoundAssumption
    <2>3. Idle \in TaskRow
      BY <2>1, <2>2 DEF Idle, TaskRow, Pc
    <2> QED BY <2>3 DEF ControllerInit, Idle
  <1>3. 0 \in 0..CardBound + 1
    BY CardBoundAssumption
  <1>4. \A mode : NoInput \in FinalizeInputs(mode)
    BY DEF NoInput, FinalizeInputs
  <1> QED BY <1>1, <1>2, <1>3, <1>4 DEF ControllerInit, ControllerTypeOK, InputInv, Phase, MaybeRun

LEMMA StoreInit == Init => StoreInv
  <1> SUFFICES ASSUME Init
               PROVE  StoreInv
    OBVIOUS
  <1>1. TypeOK
    BY DEF Init, TypeOK, RunRow, PlanRow, QuestionRow, MessageRow, RunStatus, Mode, MaybeRun
  <1>2. CouplingInv
    BY CouplingInit
  <1>3. HistoryInv
    BY DEF Init, HistoryInv, NothingBeforeTheEnd, CardsFollowRows
  <1> QED BY <1>1, <1>2, <1>3 DEF StoreInv

LEMMA TypedStep == ControllerTyped /\ [ControllerNext]_vars => ControllerTyped'
  <1> SUFFICES ASSUME ControllerTyped, [ControllerNext]_vars
               PROVE  ControllerTyped'
    OBVIOUS
  <1>1. [Next]_storeVars
    BY StepOfTheStore DEF ControllerTyped
  <1>2. StoreInv'
    BY <1>1, TypeStep, CouplingStep, HistoryStep DEF ControllerTyped, StoreInv
  <1> QED BY <1>2, ControllerTypeStep, InputStep DEF ControllerTyped

LEMMA TypedHolds == ControllerSpec => []ControllerTyped
  <1>1. ControllerInit => ControllerTyped
    BY TypedInit, StoreInit DEF ControllerInit, ControllerTyped
  <1> QED BY <1>1, TypedStep, PTL DEF ControllerSpec

\* The process, its goroutines, their inputs and the rows keep a legal shape.
THEOREM ControllerTypeCorrect == ControllerSpec => []ControllerTypeOK
  BY TypedHolds, PTL DEF ControllerTyped

\* Everything the process does to the tables, in its handlers, goroutines, retries,
\* fallbacks, shutdowns and restarts, is a transaction of the store.
THEOREM ControllerImplementsStore == ControllerSpec => Spec
  <1>1. ControllerInit => Init
    BY DEF ControllerInit
  <1>2. ControllerTyped /\ [ControllerNext]_vars => [Next]_storeVars
    BY StepOfTheStore DEF ControllerTyped
  <1> QED BY <1>1, <1>2, TypedHolds, PTL DEF ControllerSpec, Spec

\* With lost calls, crashes and restarts the user still sees the conversation that
\* ConversationTurns promises: the process implements it through the store.
THEOREM ControllerImplementsTurns == ControllerSpec => ImplementsTurns
  BY ControllerImplementsStore, StoreImplementsTurns, PTL

\* executeLiveRun, finalizeRun, recoverRunFinalization: whatever attempts fail, a running
\* row of a live process has a goroutine that will end it, or the next start does.
THEOREM RunningRowsHaveOwners == ControllerSpec => []RunningRunsAreOwned
  <1>1. ControllerInit => OwnedInv
    BY DEF ControllerInit, Init, OwnedInv, RunningRunsAreOwned, Active, Idle
  <1>2. ControllerTyped /\ OwnedInv /\ [ControllerNext]_vars => OwnedInv'
    BY OwnedStep DEF ControllerTyped
  <1>3. OwnedInv => RunningRunsAreOwned
    BY DEF OwnedInv
  <1> QED BY <1>1, <1>2, <1>3, TypedHolds, PTL DEF ControllerSpec

\* The "run_accepted" event of executeLiveRun: an answer the runtime accepted is not
\* asked for again, although its database call, the run or the process fails.
THEOREM AcceptedAnswersStay == ControllerSpec => []AcceptedAnswersAreNotRepeated
  <1>1. ControllerInit => ReachedInv
    BY DEF ControllerInit, ReachedInv
  <1>2. ControllerTyped /\ ReachedInv /\ [ControllerNext]_vars => ReachedInv'
    BY ReachedStep DEF ControllerTyped
  <1>3. ReachedInv => AcceptedAnswersAreNotRepeated
    BY DEF ReachedInv, AcceptedAnswersAreNotRepeated
  <1> QED BY <1>1, <1>2, <1>3, TypedHolds, PTL DEF ControllerSpec

\* finalizeRun and its fallbacks: a run that did not end as "interrupted" has its output
\* in the history, since the fallback reports nothing else.
THEOREM OutcomesKeepTheirOutput == ControllerSpec => []OutcomesHaveTheirOutput
  <1>1. FinalMessageStays => OutcomesHaveTheirOutput
    BY DEF FinalMessageStays, OutcomesHaveTheirOutput
  <1> QED BY <1>1, ControllerImplementsStore, FinalMessagesStay, PTL

-----------------------------------------------------------------------------
(***************************************************************************)
(* RunSubscription: any number of clients and connections that break, any  *)
(* length of the output and any size of the channels.  First the inductive *)
(* invariant, in parts.                                                    *)
(***************************************************************************)

Output == {Done} \cup Event

Client == [pc : ClientPc, seen : Status, late : BOOLEAN, view : [Event -> Nat], drops : Nat]

Types ==
    /\ row \in Status /\ liveStatus \in Status
    /\ saved \in 0..(MaxStreamed + TailLength)
    /\ applied \in 0..(MaxStreamed + TailLength)
    /\ worker \in Worker /\ listed \in BOOLEAN
    /\ subs \in SUBSET Clients
    /\ channel \in [Clients -> [queue : Seq(Output), closed : BOOLEAN]]
    /\ client \in [Clients -> Client]

Streaming == worker \in {"apply", "publish"}

\* The order of the steps of the run's goroutine.
WorkerInv ==
    /\ Streaming => applied <= MaxStreamed /\ listed /\ liveStatus = "running"
    /\ worker \in {"publish", "tailPublish"} => applied > 0
    /\ ~Streaming => row \in TerminalStatus /\ applied <= saved
    /\ worker \in {"close", "gone"} => applied = saved
    /\ worker = "unlist" => listed
    /\ worker \in {"tail", "tailPublish", "close", "gone"} => liveStatus \in TerminalStatus
    /\ worker = "gone" => subs = {}

Shown(c, e) == client[c].view[e] > 0 \/ Queued(c, e)

\* One client beside the run.  "done" is the last event of a channel, and comes after
\* everything else or to a client that was late.
ClientInv(c) ==
    LET me == client[c]
        queue == channel[c].queue IN
    /\ c \in subs => me.pc \in {"following", "ended"} /\ ~me.late /\ ~channel[c].closed
    /\ me.pc = "following" /\ ~channel[c].closed =>
          c \in subs /\ \A e \in 1..PublishedUpTo : Shown(c, e)
    /\ me.pc = "fetching" => ~listed
    /\ me.pc = "following" => \A i \in 1..Len(queue) : queue[i] = Done =>
          /\ i = Len(queue)
          /\ ~me.late => worker \in {"close", "gone"} /\ \A e \in 1..saved : Shown(c, e)
    /\ me.pc = "ended" /\ ~me.late => ~Streaming /\ \A e \in 1..saved : me.view[e] > 0

NoOverflow == \A c \in Clients : Len(channel[c].queue) <= BufferSize

SubscriptionInv == Types /\ WorkerInv /\ \A c \in Clients : ClientInv(c)

-----------------------------------------------------------------------------
(* Channels.                                                                 *)

LEMMA Received ==
    ASSUME NEW S, NEW q \in Seq(S), q # <<>>
    PROVE  LET rest == SubSeq(q, 2, Len(q)) IN
           /\ rest \in Seq(S) /\ Len(q) \in Nat \ {0} /\ Len(rest) = Len(q) - 1
           /\ Head(q) = q[1] /\ q[1] \in S
           /\ \A i \in 1..Len(rest) : rest[i] = q[i + 1]
  <1>1. Len(q) \in Nat \ {0} /\ Head(q) = q[1] /\ q[1] \in S
    BY EmptySeq, ElementOfSeq
  <1> QED BY <1>1, HeadTailProperties, TailIsSubSeq

LEMMA Sent ==
    ASSUME NEW S, NEW q \in Seq(S), NEW e \in S
    PROVE  /\ Append(q, e) \in Seq(S) /\ Len(q) \in Nat /\ Len(Append(q, e)) = Len(q) + 1
           /\ \A i \in 1..Len(q) : Append(q, e)[i] = q[i]
           /\ Append(q, e)[Len(q) + 1] = e
  OBVIOUS

LEMMA SendType ==
    ASSUME Types, NEW e \in Output, Send(e)
    PROVE  /\ channel' \in [Clients -> [queue : Seq(Output), closed : BOOLEAN]]
           /\ subs' \in SUBSET Clients
  <1>1. \A d \in Clients : channel[d].queue \in Seq(Output) /\ channel[d].closed \in BOOLEAN
    BY DEF Types
  <1>2. \A d \in Clients : Append(channel[d].queue, e) \in Seq(Output)
    BY <1>1, Sent
  <1>3. channel' \in [Clients -> [queue : Seq(Output), closed : BOOLEAN]]
    BY <1>1, <1>2 DEF Send, Types
  <1> QED BY <1>3 DEF Send, Types

\* What Send does to one client: nothing, or its channel is closed, or the event waits
\* in it.
LEMMA SendEffect ==
    ASSUME Types, NEW e \in Output, Send(e), NEW c \in Clients
    PROVE  \/ c \notin subs /\ c \notin subs' /\ channel'[c] = channel[c]
           \/ /\ c \in subs /\ c \notin subs' /\ channel'[c].closed
              /\ channel'[c].queue = channel[c].queue
           \/ /\ c \in subs /\ c \in subs'
              /\ channel'[c].closed = channel[c].closed
              /\ channel'[c].queue = Append(channel[c].queue, e)
  BY DEF Send, Types

-----------------------------------------------------------------------------
(* Types and the order of the worker's steps.                                *)

LEMMA WorkerStepType ==
    ASSUME SubscriptionInv, WorkerStep \/ PersistRunDrafts
    PROVE  Types' /\ WorkerInv'
  <1> USE BoundsAssumption DEF SubscriptionInv, WorkerInv, Streaming, Status, TerminalStatus, Worker
  <1>1. CASE Apply
    BY <1>1 DEF Apply, Types
  <1>2. CASE PublishEvent
    <2>1. applied \in Output
      BY <1>2 DEF PublishEvent, Types, Output, Event
    <2> QED BY <1>2, <2>1, SendType DEF PublishEvent, Types
  <1>3. CASE PersistRunDrafts
    BY <1>3 DEF PersistRunDrafts, Types
  <1>4. CASE CommitOutput
    BY <1>4 DEF CommitOutput, Types
  <1>5. CASE Unlist \/ Settle
    BY <1>5 DEF Unlist, Settle, Types
  <1>6. CASE TailApply
    BY <1>6 DEF TailApply, Types
  <1>7. CASE TailPublish
    <2>1. applied \in Output
      BY <1>7 DEF TailPublish, Types, Output, Event
    <2> QED BY <1>7, <2>1, SendType DEF TailPublish, Types
  <1>8. CASE PublishDone
    <2>1. Done \in Output
      BY DEF Output
    <2> QED BY <1>8, <2>1, SendType DEF PublishDone, Types
  <1>9. CASE CloseSubscribers
    BY <1>9 DEF CloseSubscribers, Types
  <1> QED BY <1>1, <1>2, <1>3, <1>4, <1>5, <1>6, <1>7, <1>8, <1>9 DEF WorkerStep

\* The records that the handlers make of a client's record.
LEMMA ClientRecords ==
    ASSUME NEW me \in Client
    PROVE  /\ \A pc \in ClientPc : [me EXCEPT !.pc = pc] \in Client
           /\ \A pc \in ClientPc, seen \in Status :
                [me EXCEPT !.pc = pc, !.seen = seen] \in Client
           /\ \A pc \in ClientPc, late \in BOOLEAN, view \in [Event -> Nat] :
                [me EXCEPT !.pc = pc, !.late = late, !.view = view] \in Client
           /\ \A pc \in ClientPc : [me EXCEPT !.pc = pc, !.drops = @ + 1] \in Client
           /\ \A e \in Event : [me EXCEPT !.view[e] = @ + 1] \in Client
  <1>1. ASSUME NEW pc \in ClientPc
        PROVE  [me EXCEPT !.pc = pc] \in Client
    BY DEF Client
  <1>5. ASSUME NEW pc \in ClientPc
        PROVE  [me EXCEPT !.pc = pc, !.drops = @ + 1] \in Client
    <2>1. me.drops + 1 \in Nat
      BY DEF Client
    <2> QED BY <2>1 DEF Client
  <1>2. ASSUME NEW pc \in ClientPc, NEW seen \in Status
        PROVE  [me EXCEPT !.pc = pc, !.seen = seen] \in Client
    BY DEF Client
  <1>3. ASSUME NEW pc \in ClientPc, NEW late \in BOOLEAN, NEW view \in [Event -> Nat]
        PROVE  [me EXCEPT !.pc = pc, !.late = late, !.view = view] \in Client
    BY DEF Client
  <1>4. ASSUME NEW e \in Event
        PROVE  [me EXCEPT !.view[e] = @ + 1] \in Client
    <2>1. [me.view EXCEPT ![e] = @ + 1] \in [Event -> Nat]
      BY DEF Client
    <2> QED BY <2>1 DEF Client
  <1> QED BY <1>1, <1>2, <1>3, <1>4, <1>5

\* Each of them at its client.
LEMMA ClientStepRecord ==
    ASSUME Types, NEW c \in Clients, HandlerStep(c) \/ Disconnect(c)
    PROVE  \E me \in Client : client' = [client EXCEPT ![c] = me]
  <1> USE DEF Types
  <1> DEFINE me == client[c]
  <1>0. me \in Client /\ (\A n : Shows(n) \in [Event -> Nat])
    BY DEF Shows
  <1> HIDE DEF me
  <1>1. CASE ReadRow(c)
    <2>1. client' = [client EXCEPT ![c] = [me EXCEPT !.pc = "read", !.seen = row]]
      BY <1>1 DEF ReadRow, me
    <2> QED BY <1>0, <2>1, ClientRecords DEF ClientPc
  <1>2. CASE GetLive(c) \/ LoseChannel(c)
    <2>1. PICK pc \in ClientPc : client' = [client EXCEPT ![c] = [me EXCEPT !.pc = pc]]
      BY <1>2 DEF GetLive, LoseChannel, Move, ClientPc, me
    <2> QED BY <1>0, <2>1, ClientRecords
  <1>3. CASE Subscribe(c)
    <2> DEFINE late == liveStatus \in TerminalStatus
    <2>2. client' = [client EXCEPT ![c] =
                        [me EXCEPT !.pc = "following", !.late = late, !.view = Shows(applied)]]
      BY <1>3 DEF Subscribe, me
    <2>3. late \in BOOLEAN /\ "following" \in ClientPc
      BY DEF ClientPc
    <2> HIDE DEF late
    <2> QED BY <1>0, <2>2, <2>3, ClientRecords
  <1>6. CASE ServeStored(c)
    <2>1. client' = [client EXCEPT ![c] =
                        [me EXCEPT !.pc = "ended", !.late = FALSE, !.view = Shows(saved)]]
      BY <1>6 DEF ServeStored, me
    <2> QED BY <1>0, <2>1, ClientRecords DEF ClientPc
  <1>4. CASE Disconnect(c)
    <2>1. client' = [client EXCEPT ![c] = [me EXCEPT !.pc = "away", !.drops = @ + 1]]
      BY <1>4 DEF Disconnect, me
    <2> QED BY <1>0, <2>1, ClientRecords DEF ClientPc
  <1>5. CASE Receive(c)
    <2> DEFINE e == Head(channel[c].queue)
    <2>1. channel[c].queue \in Seq(Output) /\ channel[c].queue # <<>>
      BY <1>5 DEF Receive
    <2>2. e \in Output
      BY <2>1, Received
    <2>3. CASE e = Done
      <3>1. client' = [client EXCEPT ![c] = [me EXCEPT !.pc = "ended", !.seen = row]]
        BY <1>5, <2>3 DEF Receive, me
      <3> QED BY <1>0, <3>1, ClientRecords DEF ClientPc
    <2>4. CASE e # Done
      <3>1. client' = [client EXCEPT ![c] = [me EXCEPT !.view[e] = @ + 1]]
        BY <1>5, <2>4 DEF Receive, me
      <3>2. e \in Event
        BY <2>2, <2>4 DEF Output
      <3> HIDE DEF e
      <3> QED BY <1>0, <3>1, <3>2, ClientRecords
    <2> QED BY <2>3, <2>4
  <1> QED BY <1>1, <1>2, <1>3, <1>4, <1>5, <1>6 DEF HandlerStep

\* What the handlers make of the channels and the subscribers.
LEMMA ClientStepChannel ==
    ASSUME Types, NEW c \in Clients, HandlerStep(c) \/ Disconnect(c)
    PROVE  /\ channel' \in [Clients -> [queue : Seq(Output), closed : BOOLEAN]]
           /\ subs' \in SUBSET Clients
           /\ liveStatus \in TerminalStatus => subs' \subseteq subs
           /\ \A d \in Clients \ {c} : channel'[d] = channel[d] /\ (d \in subs' <=> d \in subs)
  <1> USE DEF Types, runVars
  <1>1. <<>> \in Seq(Output) /\ <<Done>> \in Seq(Output)
    BY DEF Output
  <1>2. CASE ReadRow(c) \/ GetLive(c) \/ ServeStored(c) \/ LoseChannel(c)
    BY <1>2 DEF ReadRow, GetLive, ServeStored, LoseChannel
  <1>3. CASE Subscribe(c)
    <2> DEFINE late == liveStatus \in TerminalStatus
               open == IF late THEN [queue |-> <<Done>>, closed |-> TRUE]
                       ELSE [queue |-> <<>>, closed |-> FALSE]
    <2>1. open \in [queue : Seq(Output), closed : BOOLEAN]
      BY <1>1
    <2>2. channel' = [channel EXCEPT ![c] = open]
      BY <1>3, Zenon DEF Subscribe
    <2> HIDE DEF open
    <2> QED BY <1>3, <2>1, <2>2 DEF Subscribe
  <1>4. CASE Disconnect(c)
    BY <1>1, <1>4 DEF Disconnect
  <1>5. CASE Receive(c)
    <2> DEFINE rest == SubSeq(channel[c].queue, 2, Len(channel[c].queue))
    <2>1. channel[c].queue \in Seq(Output) /\ channel[c].queue # <<>>
      BY <1>5 DEF Receive
    <2>2. rest \in Seq(Output)
      BY <2>1, Received
    <2>3. channel' = [channel EXCEPT ![c].queue = rest]
      BY <1>5 DEF Receive
    <2> HIDE DEF rest
    <2>4. channel' \in [Clients -> [queue : Seq(Output), closed : BOOLEAN]]
      BY <2>2, <2>3
    <2> QED BY <1>5, <2>3, <2>4 DEF Receive
  <1> QED BY <1>2, <1>3, <1>4, <1>5 DEF HandlerStep

LEMMA ClientStepType ==
    ASSUME SubscriptionInv, NEW c \in Clients, HandlerStep(c) \/ Disconnect(c)
    PROVE  /\ Types' /\ WorkerInv' /\ UNCHANGED runVars
           /\ \A d \in Clients \ {c} : client'[d] = client[d]
  <1>1. UNCHANGED runVars
    BY DEF HandlerStep, ReadRow, GetLive, Subscribe, ServeStored, Receive, LoseChannel, Disconnect
  <1>2. PICK me \in Client : client' = [client EXCEPT ![c] = me]
    BY ClientStepRecord DEF SubscriptionInv
  <1>3. client' \in [Clients -> Client] /\ \A d \in Clients \ {c} : client'[d] = client[d]
    BY <1>2 DEF SubscriptionInv, Types
  <1>4. Types'
    BY <1>1, <1>3, ClientStepChannel DEF SubscriptionInv, Types, runVars
  <1>5. WorkerInv'
    BY <1>1, ClientStepChannel DEF SubscriptionInv, WorkerInv, Streaming, runVars
  <1> QED BY <1>1, <1>3, <1>4, <1>5
-----------------------------------------------------------------------------
(* What a client is shown.                                                   *)

LEMMA ShownKept ==
    ASSUME NEW c \in Clients, client'[c] = client[c], channel'[c].queue = channel[c].queue
    PROVE  \A d : Shown(c, d)' <=> Shown(c, d)
  BY DEF Shown, Queued

LEMMA ShownSent ==
    ASSUME Types, NEW c \in Clients, NEW e \in Output, client'[c] = client[c],
           channel'[c].queue = Append(channel[c].queue, e)
    PROVE  Shown(c, e)' /\ \A d : Shown(c, d) => Shown(c, d)'
  <1> DEFINE old == channel[c].queue
             new == channel'[c].queue
  <1>1. old \in Seq(Output)
    BY DEF Types
  <1>2. /\ Len(old) \in Nat /\ Len(new) = Len(old) + 1
        /\ \A i \in 1..Len(old) : new[i] = old[i]
        /\ new[Len(old) + 1] = e
    BY <1>1, Sent
  <1> HIDE DEF old, new
  <1>3. Len(old) + 1 \in 1..Len(new) /\ \A i \in 1..Len(old) : i \in 1..Len(new)
    BY <1>2
  <1>4. \E i \in 1..Len(new) : new[i] = e
    BY <1>2, <1>3
  <1>5. ASSUME NEW d, NEW i \in 1..Len(old), old[i] = d
        PROVE  \E j \in 1..Len(new) : new[j] = d
    BY <1>2, <1>3, <1>5
  <1> QED BY <1>4, <1>5 DEF Shown, Queued, old, new

LEMMA ShownReceived ==
    ASSUME Types, NEW c \in Clients, Receive(c), Head(channel[c].queue) # Done
    PROVE  \A d \in Event : Shown(c, d) => Shown(c, d)'
  <1> DEFINE old == channel[c].queue
             new == channel'[c].queue
  <1>1. old \in Seq(Output) /\ old # <<>>
    BY DEF Types, Receive
  <1>2. new = SubSeq(old, 2, Len(old))
    BY DEF Types, Receive
  <1>3. /\ Len(old) \in Nat \ {0} /\ Len(new) = Len(old) - 1
        /\ Head(old) = old[1] /\ old[1] \in Event
        /\ \A i \in 1..Len(new) : new[i] = old[i + 1]
    BY <1>1, <1>2, Received DEF Output
  <1>4. client'[c].view = [client[c].view EXCEPT ![old[1]] = @ + 1]
    BY <1>3 DEF Receive, Types
  <1>5. client[c].view \in [Event -> Nat]
    BY DEF Types, Client
  <1> HIDE DEF old, new
  <1> SUFFICES ASSUME NEW d \in Event, Shown(c, d)
               PROVE  client'[c].view[d] > 0 \/ \E i \in 1..Len(new) : new[i] = d
    BY DEF Shown, Queued, new
  <1>6. CASE client[c].view[d] > 0 \/ d = old[1]
    BY <1>3, <1>4, <1>5, <1>6
  <1>7. CASE d # old[1] /\ Queued(c, d)
    <2>1. PICK i \in 1..Len(old) : old[i] = d
      BY <1>7 DEF Queued, old
    <2>2. i - 1 \in 1..Len(new) /\ (i - 1) + 1 = i
      BY <1>3, <1>7, <2>1
    <2> QED BY <1>3, <2>1, <2>2
  <1> QED BY <1>6, <1>7 DEF Shown

-----------------------------------------------------------------------------
(* The steps of the run's goroutine.                                         *)

LEMMA QuietStepClient ==
    ASSUME SubscriptionInv, NEW c \in Clients,
           \/ Apply \/ PersistRunDrafts \/ CommitOutput \/ Unlist \/ Settle
           \/ TailApply \/ CloseSubscribers
    PROVE  ClientInv(c)'
  <1> USE DEF SubscriptionInv, ClientInv, WorkerInv, Streaming
  <1>0. client'[c] = client[c] /\ channel'[c].queue = channel[c].queue
    BY DEF Apply, PersistRunDrafts, CommitOutput, Unlist, Settle, TailApply, CloseSubscribers, Types
  <1>1. \A d : Shown(c, d)' <=> Shown(c, d)
    BY <1>0, ShownKept
  <1>2. CASE Apply \/ TailApply
    <2>1. PublishedUpTo' = PublishedUpTo /\ UNCHANGED <<saved, listed, subs, channel, client>>
      BY <1>2 DEF Apply, TailApply, PublishedUpTo, Types
    <2> QED BY <1>1, <1>2, <2>1 DEF Apply, TailApply
  <1>3. CASE PersistRunDrafts \/ CommitOutput \/ Unlist \/ Settle
    <2>1. PublishedUpTo' = PublishedUpTo /\ UNCHANGED <<subs, channel, client>>
      BY <1>3 DEF PersistRunDrafts, CommitOutput, Unlist, Settle, PublishedUpTo
    <2> QED BY <1>1, <1>3, <2>1 DEF PersistRunDrafts, CommitOutput, Unlist, Settle
  <1>4. CASE CloseSubscribers
    <2>1. channel'[c].closed \/ (c \notin subs /\ channel'[c] = channel[c])
      BY <1>4 DEF CloseSubscribers, Types
    <2> QED BY <1>0, <1>1, <1>4, <2>1 DEF CloseSubscribers
  <1> QED BY <1>2, <1>3, <1>4

LEMMA SendingStepClient ==
    ASSUME SubscriptionInv, NEW c \in Clients, PublishEvent \/ TailPublish \/ PublishDone
    PROVE  ClientInv(c)'
  <1> USE DEF SubscriptionInv, WorkerInv, Streaming
  <1> DEFINE old == channel[c].queue
             new == channel'[c].queue
  <1>1. PICK e \in Output :
          /\ Send(e) /\ UNCHANGED <<row, saved, listed, liveStatus, applied, client>>
          /\ \/ /\ worker \in {"publish", "tailPublish"} /\ worker' \in {"apply", "tail"}
                /\ e = applied /\ e # Done
                /\ worker' = "apply" => worker = "publish"
             \/ worker = "tail" /\ applied = saved /\ worker' = "close" /\ e = Done
    <2>1. CASE PublishEvent \/ TailPublish
      <3>1. applied \in Output /\ applied # Done
        BY <2>1 DEF PublishEvent, TailPublish, Types, Output, Event, Done
      <3> QED BY <2>1, <3>1 DEF PublishEvent, TailPublish
    <2>2. CASE PublishDone
      BY <2>2 DEF PublishDone, Output
    <2> QED BY <2>1, <2>2
  <1>2. /\ PublishedUpTo' = applied
        /\ \A d \in 1..applied : d \in 1..PublishedUpTo \/ d = e
    BY <1>1 DEF PublishedUpTo, Types, Done
  <1>3. client'[c] = client[c] /\ worker \notin {"close", "gone"}
    BY <1>1
  <1>4. CASE c \notin subs /\ c \notin subs' /\ channel'[c] = channel[c]
    BY <1>1, <1>3, <1>4 DEF ClientInv
  <1>5. CASE c \in subs /\ c \notin subs' /\ channel'[c].closed /\ new = old
    BY <1>1, <1>3, <1>5 DEF ClientInv
  <1>6. CASE /\ c \in subs /\ c \in subs' /\ channel'[c].closed = channel[c].closed
             /\ new = Append(old, e)
    <2>1. Shown(c, e)' /\ \A d : Shown(c, d) => Shown(c, d)'
      BY <1>3, <1>6, ShownSent
    <2>2. old \in Seq(Output)
      BY DEF Types
    <2>3. /\ Len(old) \in Nat /\ Len(new) = Len(old) + 1
          /\ \A i \in 1..Len(old) : new[i] = old[i]
          /\ new[Len(old) + 1] = e
      BY <1>6, <2>2, Sent
    <2> HIDE DEF old, new
    <2>4. client[c].pc = "following" => \A d \in 1..applied : Shown(c, d)'
      BY <1>2, <1>6, <2>1 DEF ClientInv
    <2>5. client[c].pc = "following" => \A i \in 1..Len(old) : old[i] # Done
      BY <1>3, <1>6 DEF ClientInv, old
    <2>6. client[c].pc = "following" => \A i \in 1..Len(new) : new[i] = Done =>
            i = Len(new) /\ e = Done
      <3> SUFFICES ASSUME client[c].pc = "following", NEW i \in 1..Len(new), new[i] = Done
                   PROVE  i = Len(new) /\ e = Done
        OBVIOUS
      <3>1. i \notin 1..Len(old)
        BY <2>3, <2>5
      <3> QED BY <2>3, <3>1
    <2>7. e = Done => worker' = "close" /\ saved' = applied
      BY <1>1
    <2> QED BY <1>1, <1>2, <1>3, <1>6, <2>4, <2>6, <2>7 DEF ClientInv, new
  <1> QED BY <1>1, <1>4, <1>5, <1>6, SendEffect

-----------------------------------------------------------------------------
(* The steps of the handlers and the network.                                *)

\* The client that takes the step.
LEMMA OwnStepClient ==
    ASSUME SubscriptionInv, NEW c \in Clients, HandlerStep(c) \/ Disconnect(c)
    PROVE  ClientInv(c)'
  <1> USE DEF SubscriptionInv
  <1>0. UNCHANGED runVars /\ UNCHANGED PublishedUpTo
    BY ClientStepType DEF runVars, PublishedUpTo
  <1>1. CASE ReadRow(c) \/ GetLive(c)
    <2>1. UNCHANGED <<runVars, subs, channel>> /\ client[c].pc \in {"away", "read"}
      BY <1>1 DEF ReadRow, GetLive
    <2>2. /\ client'[c].pc \in {"read", "joining", "fetching"}
          /\ client'[c].pc = "fetching" => ~listed
      <3>1. client \in [Clients -> Client]
        BY DEF Types
      <3> HIDE DEF SubscriptionInv
      <3>2. CASE ReadRow(c)
        BY <3>1, <3>2 DEF ReadRow
      <3>3. CASE GetLive(c)
        BY <3>1, <3>3 DEF GetLive, Move
      <3> QED BY <1>1, <3>2, <3>3
    <2>3. c \notin subs
      BY <2>1 DEF ClientInv
    <2> QED BY <2>1, <2>2, <2>3 DEF ClientInv, runVars
  <1>2. CASE LoseChannel(c)
    BY <1>0, <1>2 DEF LoseChannel, Move, ClientInv, runVars, Types, Client
  <1>3. CASE Disconnect(c)
    BY <1>0, <1>3 DEF Disconnect, ClientInv, runVars, Types, Client
  <1>4. CASE ServeStored(c)
    <2>1. client'[c].pc = "ended" /\ client'[c].view = Shows(saved)
      BY <1>4 DEF ServeStored, Types, Client
    <2>2. \A e \in 1..saved : client'[c].view[e] > 0
      BY <2>1, BoundsAssumption DEF Shows, Event, Types
    <2>3. ~Streaming
      BY <1>4 DEF ServeStored, ClientInv, WorkerInv
    <2> QED BY <1>0, <1>4, <2>1, <2>2, <2>3
          DEF ServeStored, ClientInv, runVars, Types, Streaming
  <1>5. CASE Subscribe(c)
    <2>1. /\ client'[c].pc = "following" /\ client'[c].view = Shows(applied)
          /\ client'[c].late <=> liveStatus \in TerminalStatus
      BY <1>5 DEF Subscribe, Types, Client
    <2>2. \A e \in 1..PublishedUpTo : Shown(c, e)'
      BY <2>1, BoundsAssumption DEF Shows, Event, Types, Shown, PublishedUpTo
    <2>3. c \notin subs
      BY <1>5 DEF Subscribe, ClientInv
    <2>4. CASE liveStatus \in TerminalStatus
      <3>1. channel'[c] = [queue |-> <<Done>>, closed |-> TRUE] /\ subs' = subs
        BY <1>5, <2>4 DEF Subscribe, Types
      <3>2. Len(channel'[c].queue) = 1 /\ channel'[c].closed
        BY <3>1
      <3> QED BY <1>0, <2>1, <2>3, <2>4, <3>1, <3>2 DEF ClientInv
    <2>5. CASE liveStatus \notin TerminalStatus
      <3>1. channel'[c] = [queue |-> <<>>, closed |-> FALSE] /\ c \in subs'
        BY <1>5, <2>5 DEF Subscribe, Types
      <3>2. Len(channel'[c].queue) = 0 /\ ~channel'[c].closed
        BY <3>1
      <3> QED BY <1>0, <2>1, <2>2, <2>5, <3>1, <3>2 DEF ClientInv
    <2> QED BY <2>4, <2>5
  <1>6. CASE Receive(c)
    <2> DEFINE old == channel[c].queue
               new == channel'[c].queue
    <2>1. /\ old \in Seq(Output) /\ old # <<>> /\ new = SubSeq(old, 2, Len(old))
          /\ channel'[c].closed = channel[c].closed /\ subs' = subs
          /\ client[c].pc = "following"
      BY <1>6 DEF Receive, Types
    <2>2. /\ Len(old) \in Nat \ {0} /\ Len(new) = Len(old) - 1 /\ Head(old) = old[1]
          /\ \A i \in 1..Len(new) : new[i] = old[i + 1]
      BY <2>1, Received
    <2>3. CASE Head(old) = Done
      <3>1. /\ client'[c].pc = "ended" /\ client'[c].view = client[c].view
            /\ client'[c].late = client[c].late
        BY <1>6, <2>3 DEF Receive, Types, Client
      <3> HIDE DEF new
      <3>2. 1 \in 1..Len(old) /\ old[1] = Done
        BY <2>2, <2>3
      <3>3. 1 = Len(old)
        BY <2>1, <3>2 DEF ClientInv
      <3>4. ~client[c].late => worker \in {"close", "gone"} /\ \A e \in 1..saved : Shown(c, e)
        BY <2>1, <3>2 DEF ClientInv
      <3>5. \A e \in 1..saved : ~Queued(c, e)
        BY <3>2, <3>3 DEF Queued, Done, Types
      <3> QED BY <1>0, <2>1, <3>1, <3>4, <3>5 DEF ClientInv, Shown, runVars, Streaming
    <2>4. CASE Head(old) # Done
      <3>1. \A d \in Event : Shown(c, d) => Shown(c, d)'
        BY <1>6, <2>4, ShownReceived
      <3>2. client'[c].pc = "following" /\ client'[c].late = client[c].late
        BY <1>6, <2>1, <2>4 DEF Receive, Types, Client
      <3>3. \A e \in (1..PublishedUpTo) \cup (1..saved) : e \in Event
        BY BoundsAssumption DEF Types, PublishedUpTo, Event
      <3> HIDE DEF old, new
      <3>4. ASSUME NEW i \in 1..Len(new), new[i] = Done
            PROVE  i + 1 \in 1..Len(old) /\ old[i + 1] = Done /\ (i + 1 = Len(old) => i = Len(new))
        BY <2>2, <3>4
      <3>5. \A i \in 1..Len(new) : new[i] = Done =>
              /\ i = Len(new)
              /\ ~client[c].late => /\ worker \in {"close", "gone"}
                                    /\ \A e \in 1..saved : Shown(c, e)
        BY <2>1, <3>4 DEF ClientInv, old
      <3>6. \A i \in 1..Len(new) : new[i] = Done =>
              /\ i = Len(new)
              /\ ~client'[c].late => /\ worker \in {"close", "gone"}
                                     /\ \A e \in 1..saved : Shown(c, e)'
        BY <3>1, <3>2, <3>3, <3>5
      <3>7. /\ c \in subs => ~client'[c].late /\ ~channel'[c].closed
            /\ ~channel'[c].closed => c \in subs /\ \A e \in 1..PublishedUpTo : Shown(c, e)'
        BY <2>1, <3>1, <3>2, <3>3 DEF ClientInv
      <3> QED BY <1>0, <2>1, <3>2, <3>6, <3>7 DEF ClientInv, runVars, new
    <2> QED BY <2>3, <2>4
  <1> QED BY <1>1, <1>2, <1>3, <1>4, <1>5, <1>6 DEF HandlerStep

\* The other clients.
LEMMA OtherStepClient ==
    ASSUME SubscriptionInv, NEW c \in Clients, HandlerStep(c) \/ Disconnect(c),
           NEW d \in Clients, d # c
    PROVE  ClientInv(d)'
  <1>1. UNCHANGED runVars /\ client'[d] = client[d]
    BY ClientStepType
  <1>2. channel'[d] = channel[d] /\ (d \in subs' <=> d \in subs)
    BY ClientStepChannel DEF SubscriptionInv
  <1>3. \A e : Shown(d, e)' <=> Shown(d, e)
    BY <1>1, <1>2, ShownKept
  <1>4. PublishedUpTo' = PublishedUpTo
    BY <1>1 DEF runVars, PublishedUpTo
  <1> QED BY <1>1, <1>2, <1>3, <1>4 DEF SubscriptionInv, ClientInv, Streaming, runVars

-----------------------------------------------------------------------------
(* The invariant and the theorems.                                           *)

LEMMA InitInv == FollowInit => SubscriptionInv
  <1> SUFFICES ASSUME FollowInit
               PROVE  SubscriptionInv
    OBVIOUS
  <1>1. <<>> \in Seq(Output) /\ Shows(0) \in [Event -> Nat]
    BY DEF Shows
  <1>2. Types
    BY <1>1, BoundsAssumption DEF FollowInit, Types, Status, Worker, Client, ClientPc
  <1>3. WorkerInv
    BY BoundsAssumption DEF FollowInit, WorkerInv, Streaming
  <1>4. \A c \in Clients : ClientInv(c)
    BY DEF FollowInit, ClientInv, Streaming
  <1> QED BY <1>2, <1>3, <1>4 DEF SubscriptionInv

LEMMA StepInv == SubscriptionInv /\ [FollowNext]_followVars => SubscriptionInv'
  <1> SUFFICES ASSUME SubscriptionInv, [FollowNext]_followVars
               PROVE  SubscriptionInv'
    OBVIOUS
  <1>1. CASE WorkerStep \/ PersistRunDrafts
    <2>1. Types' /\ WorkerInv'
      BY <1>1, WorkerStepType
    <2>2. \A c \in Clients : ClientInv(c)'
      BY <1>1, QuietStepClient, SendingStepClient DEF WorkerStep
    <2> QED BY <2>1, <2>2 DEF SubscriptionInv
  <1>2. ASSUME NEW c \in Clients, HandlerStep(c) \/ Disconnect(c)
        PROVE  SubscriptionInv'
    <2>1. Types' /\ WorkerInv'
      BY <1>2, ClientStepType
    <2>2. \A d \in Clients : ClientInv(d)'
      BY <1>2, OwnStepClient, OtherStepClient
    <2> QED BY <2>1, <2>2 DEF SubscriptionInv
  <1>3. CASE UNCHANGED followVars
    BY <1>3 DEF followVars, runVars, SubscriptionInv, Types, WorkerInv, Streaming, ClientInv, Shown,
                Queued, PublishedUpTo
  <1> QED BY <1>1, <1>2, <1>3 DEF FollowNext

\* A channel that is full takes no event.
LEMMA StepNoOverflow ==
    ASSUME Types, NoOverflow, FollowNext
    PROVE  NoOverflow'
  <1> SUFFICES ASSUME NEW d \in Clients
               PROVE  Len(channel'[d].queue) <= BufferSize
    BY DEF NoOverflow
  <1> USE BoundsAssumption
  <1>0. channel[d].queue \in Seq(Output) /\ Len(channel[d].queue) \in Nat
    BY DEF Types
  <1>1. ASSUME NEW e \in Output, Send(e)
        PROVE  Len(channel'[d].queue) <= BufferSize
    <2>1. Len(Append(channel[d].queue, e)) = Len(channel[d].queue) + 1
      BY <1>0, Sent
    <2> QED BY <1>0, <1>1, <2>1 DEF Send, Full, NoOverflow, Types
  <1>2. CASE PublishEvent \/ TailPublish
    <2>1. applied \in Output
      BY <1>2 DEF PublishEvent, TailPublish, Types, Output, Event, Done
    <2> QED BY <1>1, <1>2, <2>1 DEF PublishEvent, TailPublish
  <1>3. CASE PublishDone
    BY <1>1, <1>3 DEF PublishDone, Output
  <1>4. CASE Apply \/ CommitOutput \/ Unlist \/ Settle \/ TailApply \/ PersistRunDrafts
    BY <1>4 DEF Apply, CommitOutput, Unlist, Settle, TailApply, PersistRunDrafts, NoOverflow
  <1>5. CASE CloseSubscribers
    BY <1>5 DEF CloseSubscribers, NoOverflow, Types
  <1>6. ASSUME NEW c \in Clients, HandlerStep(c) \/ Disconnect(c)
        PROVE  Len(channel'[d].queue) <= BufferSize
    <2>1. CASE d # c
      BY <1>6, <2>1, ClientStepChannel DEF NoOverflow
    <2>2. CASE d = c /\ Receive(c)
      <3> DEFINE old == channel[d].queue
      <3>1. channel'[d].queue = SubSeq(old, 2, Len(old)) /\ old # <<>>
        BY <2>2 DEF Receive, Types
      <3> HIDE DEF old
      <3>2. Len(SubSeq(old, 2, Len(old))) = Len(old) - 1
        BY <1>0, <3>1, Received DEF old
      <3> QED BY <1>0, <3>1, <3>2 DEF NoOverflow, old
    <2>3. CASE d = c /\ (Subscribe(c) \/ Disconnect(c))
      <3>1. \/ channel'[d] = [queue |-> <<>>, closed |-> FALSE]
            \/ channel'[d] = [queue |-> <<>>, closed |-> TRUE]
            \/ channel'[d] = [queue |-> <<Done>>, closed |-> TRUE]
        BY <2>3 DEF Subscribe, Disconnect, Types
      <3>2. Len(channel'[d].queue) = 0 \/ Len(channel'[d].queue) = 1
        BY <3>1
      <3>3. BufferSize \in Nat /\ 0 <= BufferSize /\ 1 <= BufferSize
        OBVIOUS
      <3> QED BY <3>2, <3>3
    <2>4. CASE ReadRow(c) \/ GetLive(c) \/ ServeStored(c) \/ LoseChannel(c)
      BY <2>4 DEF ReadRow, GetLive, ServeStored, LoseChannel, NoOverflow
    <2> QED BY <1>6, <2>1, <2>2, <2>3, <2>4 DEF HandlerStep
  <1> QED BY <1>2, <1>3, <1>4, <1>5, <1>6 DEF FollowNext, WorkerStep

LEMMA Subscriptions == FollowSpec => []SubscriptionInv
  BY InitInv, StepInv, PTL DEF FollowSpec

\* The state of the run, of its channels and of its clients keeps a legal shape; no
\* channel holds more events than its buffer (liveRun.subscribe, publish, unsubscribe).
THEOREM SubscriptionTypeCorrect == FollowSpec => []FollowTypeOK
  <1>1. FollowInit => NoOverflow
    <2> SUFFICES ASSUME FollowInit, NEW d \in Clients
                 PROVE  Len(channel[d].queue) <= BufferSize
      BY DEF NoOverflow
    <2>1. channel[d] = [queue |-> <<>>, closed |-> TRUE]
      BY DEF FollowInit
    <2>2. Len(channel[d].queue) = 0
      BY <2>1
    <2> QED BY <2>2, BoundsAssumption
  <1>2. SubscriptionInv /\ NoOverflow /\ [FollowNext]_followVars => NoOverflow'
    BY StepNoOverflow DEF followVars, SubscriptionInv, NoOverflow
  <1>3. SubscriptionInv /\ NoOverflow => FollowTypeOK
    BY DEF SubscriptionInv, Types, NoOverflow, FollowTypeOK, Output, Client
  <1> QED BY <1>1, <1>2, <1>3, Subscriptions, PTL DEF FollowSpec

\* A client that the run no longer publishes to has its channel closed, so that it does
\* not wait for ever (liveRun.publish, unsubscribe and closeSubscribers).
THEOREM NobodyIsForgotten == FollowSpec => []OpenChannelsAreSubscribed
  <1>1. SubscriptionInv => OpenChannelsAreSubscribed
    BY DEF SubscriptionInv, ClientInv, OpenChannelsAreSubscribed
  <1> QED BY <1>1, Subscriptions, PTL

\* A client that follows a run on an open channel misses no event: neither one that is
\* applied but not published while it subscribes, nor one that finds its channel full
\* (liveRun.subscribe and publish).
THEOREM NothingIsMissed == FollowSpec => []SubscribersMissNothing
  <1>1. SubscriptionInv => SubscribersMissNothing
    BY DEF SubscriptionInv, ClientInv, SubscribersMissNothing, Shown
  <1> QED BY <1>1, Subscriptions, PTL

\* A client that is told of the end of a run shows its whole output, from the channel or
\* from the stored message, unless it subscribed after live.status was set
\* (executeLiveRun, serveRunSubscription and streamStoredRun).
THEOREM DoneIsComplete == FollowSpec => []DoneMeansComplete
  <1>1. SubscriptionInv => DoneMeansComplete
    BY DEF SubscriptionInv, ClientInv, DoneMeansComplete
  <1> QED BY <1>1, Subscriptions, PTL
=============================================================================
