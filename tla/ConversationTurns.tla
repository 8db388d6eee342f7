-------------------------- MODULE ConversationTurns --------------------------
(***************************************************************************)
(* What one conversation promises its user, without tables: at most one    *)
(* turn is active; a turn ends once and with one outcome; there is at most *)
(* one plan to act on and at most one question to answer, and an open      *)
(* question goes before everything else.                                   *)
(***************************************************************************)
CONSTANTS Runs, NoRun

VARIABLES
    active,     \* the turn in progress, or NoRun
    outcome,    \* how each turn ended, "none" until it does
    ask,        \* the question in front of the user
    proposal    \* the plan in front of the user

turnVars == <<active, outcome, ask, proposal>>

Outcome == {"success", "error", "cancelled", "interrupted", "waiting_input"}

Init ==
    /\ active = NoRun
    /\ outcome = [r \in Runs |-> "none"]
    /\ ask = "none"
    /\ proposal = "none"

Begin(r) ==
    /\ active = NoRun
    /\ outcome[r] = "none"
    /\ active' = r
    /\ UNCHANGED outcome

BeginMessage(r) == ask = "none" /\ Begin(r) /\ UNCHANGED <<ask, proposal>>

BeginExecution(r) ==
    /\ ask = "none"
    /\ proposal \in {"ready", "stopped"}
    /\ Begin(r)
    /\ proposal' = "executing"
    /\ UNCHANGED ask

BeginAnswer(r) ==
    /\ ask = "pending"
    /\ Begin(r)
    /\ ask' = "answering"
    /\ UNCHANGED proposal

AcceptAnswer ==
    /\ ask = "answering"
    /\ ask' = "none"
    /\ UNCHANGED <<active, outcome, proposal>>

Decline ==
    /\ ask = "pending"
    /\ ask' = "none"
    /\ UNCHANGED <<active, outcome, proposal>>

Discard ==
    /\ proposal \in {"ready", "stopped"}
    /\ proposal' = "none"
    /\ UNCHANGED <<active, outcome, ask>>

\* A turn that asks leaves a question, and only such a turn, or one whose answer
\* was not accepted, leaves one.  An executing plan is over, or stopped and can
\* be continued; a turn that executes no plan may propose one.
End(o) ==
    /\ active # NoRun
    /\ active' = NoRun
    /\ outcome' = [outcome EXCEPT ![active] = o]
    /\ \/ o = "waiting_input" /\ ask' = "pending"
       \/ o # "waiting_input" /\ ask = "answering" /\ ask' \in {"none", "pending"}
       \/ o # "waiting_input" /\ ask = "none" /\ ask' = "none"
    /\ IF proposal = "executing"
       THEN proposal' = IF o \in {"cancelled", "interrupted"}
                        THEN "stopped" ELSE "none"
       ELSE \/ UNCHANGED proposal
            \/ o = "success" /\ proposal' = "ready"

Next ==
    \/ \E r \in Runs : BeginMessage(r) \/ BeginExecution(r) \/ BeginAnswer(r)
    \/ AcceptAnswer
    \/ Decline
    \/ Discard
    \/ \E o \in Outcome : End(o)

Spec == Init /\ [][Next]_turnVars
=============================================================================
