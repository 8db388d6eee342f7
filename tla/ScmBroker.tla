------------------------------ MODULE ScmBroker ------------------------------
(***************************************************************************)
(* The SCM token broker of a GitHub project (apps/gateway: project/        *)
(* broker.go).  A run of an agent gets a credential; for each command the  *)
(* agent exchanges it for a short-lived GitHub token.  A high-risk command *)
(* needs the user's approval first.  Tokens are kept as leases and revoked *)
(* when the command, the run, the project or the connection ends.          *)
(*                                                                         *)
(* A step is one SQL statement or one call of GitHub; the reads at the     *)
(* head of AcquireTokenLease are one step.  Projects composes this module  *)
(* with the operations on the project.                                     *)
(***************************************************************************)
EXTENDS Integers

CONSTANTS
    Calls,      \* calls of AcquireTokenLease; each has a lease of its own
    Risky,      \* the calls that ask for one and the same high-risk command
    Nil,        \* no attempt
    MaxFaults   \* bound: crashes, failed calls, lost replies

ASSUME BrokerAssumption == Risky \subseteq Calls /\ MaxFaults \in Nat

VARIABLES
    project,    \* the row of projects
    connection, \* the rows of the connection and of the app registration
    broker,     \* the row of scm_broker_runs
    approval,   \* the row of scm_approvals
    call,       \* progress of each call
    lease,      \* the row of scm_token_leases of each call
    granted,    \* GitHub: the installation token made for each call
    ender,      \* the goroutine that finalizes the run; "rest": the broker run
                \* could not be revoked
    raced,      \* history: the calls under way when leases were collected
    faults

brokerVars == <<connection, broker, approval, call, lease, granted, ender, raced>>

\* "registered": the connection is deleted, the app registration is not yet.
Connection == {"connected", "registered", "none"}
Approval == [status : {"none", "pending", "approved", "denied", "consumed", "expired"},
             late : BOOLEAN]
TokenState == {"none", "live", "dead"}

BrokerTypeOK ==
    /\ connection \in Connection
    /\ broker \in {"none", "active", "revoked"}
    /\ approval \in Approval
    /\ call \in [Calls -> {"idle", "approval", "claim", "mint", "save", "undo", "done"}]
    /\ lease \in [Calls -> {"none", "active", "revoked"}]
    /\ granted \in [Calls -> TokenState]
    /\ ender \in {"run", "broker", "leases", "rest", "done", "failed"}
    /\ raced \subseteq Calls
    /\ faults \in 0..MaxFaults

BrokerInit ==
    /\ connection = "connected"
    /\ broker = "none"
    /\ approval = [status |-> "none", late |-> FALSE]
    /\ call = [c \in Calls |-> "idle"]
    /\ lease = [c \in Calls |-> "none"]
    /\ granted = [c \in Calls |-> "none"]
    /\ ender = "run"
    /\ raced = {}
    /\ faults = 0

Fault == faults < MaxFaults /\ faults' = faults + 1
UnderWay == {c \in Calls : call[c] \notin {"idle", "done"}}
ProjectReady == project.provider = "github" /\ project.status = "ready"
Go(c, pc) == call' = [call EXCEPT ![c] = pc]

-----------------------------------------------------------------------------
\* IssueBrokerCredential, SaveBrokerRun: before the agent of the run starts.
IssueBrokerCredential ==
    /\ ender = "run" /\ broker = "none"
    /\ ProjectReady /\ connection = "connected"
    /\ broker' = "active"
    /\ UNCHANGED <<project, connection, approval, call, lease, granted, ender, raced, faults>>

\* AcquireTokenLease up to the classification of the command.
Acquire(c) ==
    /\ call[c] = "idle"
    /\ broker = "active" /\ ProjectReady /\ connection = "connected"
    /\ Go(c, IF c \in Risky THEN "approval" ELSE "mint")
    /\ UNCHANGED <<project, connection, broker, approval, lease, granted, ender, raced, faults>>

\* GetOrCreateApproval: a pending one sends the client away to ask again.
CheckApproval(c) ==
    LET seen == IF approval.status = "none" THEN "pending"
                ELSE IF approval.status = "pending" /\ approval.late THEN "expired"
                ELSE approval.status
    IN  /\ call[c] = "approval"
        /\ approval' = [approval EXCEPT !.status = seen]
        /\ Go(c, CASE seen = "approved" -> "claim" [] seen = "pending" -> "idle"
                   [] OTHER -> "done")
        /\ UNCHANGED <<project, connection, broker, lease, granted, ender, raced, faults>>

\* Mutant: the statement does not say which approval it consumes.
ClaimApprovalAgain(c) ==
    /\ call[c] = "claim"
    /\ approval' = [approval EXCEPT !.status = "consumed"] /\ Go(c, "mint")
    /\ UNCHANGED <<project, connection, broker, lease, granted, ender, raced, faults>>

\* ClaimApproval, ExpireApproval.
ClaimApproval(c) ==
    /\ call[c] = "claim"
    /\ IF approval.status = "approved" /\ ~approval.late
       THEN approval' = [approval EXCEPT !.status = "consumed"] /\ Go(c, "mint")
       ELSE /\ approval' = [approval EXCEPT !.status = IF @ = "approved" THEN "expired" ELSE @]
            /\ Go(c, "done")
    /\ UNCHANGED <<project, connection, broker, lease, granted, ender, raced, faults>>

DecideApproval(decision) ==
    /\ approval.status = "pending" /\ ~approval.late
    /\ approval' = [approval EXCEPT !.status = decision]
    /\ UNCHANGED <<project, connection, broker, call, lease, granted, ender, raced, faults>>

FiveMinutesPass ==
    /\ approval.status \in {"pending", "approved"} /\ ~approval.late
    /\ approval' = [approval EXCEPT !.late = TRUE]
    /\ UNCHANGED <<project, connection, broker, call, lease, granted, ender, raced, faults>>

\* installationToken; the reply of a failed call may hide a token.
MintToken(c) ==
    /\ call[c] = "mint"
    /\ \/ granted' = [granted EXCEPT ![c] = "live"] /\ Go(c, "save") /\ UNCHANGED faults
       \/ Fault /\ Go(c, "done")
          /\ granted' \in {granted, [granted EXCEPT ![c] = "live"]}
    /\ UNCHANGED <<project, connection, broker, approval, lease, ender, raced>>

SaveTokenLease(c) ==
    /\ call[c] = "save"
    /\ \/ lease' = [lease EXCEPT ![c] = "active"] /\ Go(c, "done") /\ UNCHANGED faults
       \/ Fault /\ Go(c, "undo") /\ UNCHANGED lease
    /\ UNCHANGED <<project, connection, broker, approval, granted, ender, raced>>

\* A token that could not be saved is revoked, once.
UndoToken(c) ==
    /\ call[c] = "undo" /\ Go(c, "done")
    /\ \/ granted' = [granted EXCEPT ![c] = "dead"] /\ UNCHANGED faults
       \/ Fault /\ UNCHANGED granted
    /\ UNCHANGED <<project, connection, broker, approval, lease, ender, raced>>

CallCrashes(c) ==
    /\ c \in UnderWay /\ Fault /\ Go(c, "done")
    /\ UNCHANGED <<project, connection, broker, approval, lease, granted, ender, raced>>

-----------------------------------------------------------------------------
(* Revocation.                                                               *)

Active == {c \in Calls : lease[c] = "active"}

\* revokeActiveLeases: GitHub first, then the row.  Without a registration
\* only the rows are marked.
RevokeLeases(leases) ==
    /\ lease' = [c \in Calls |-> IF c \in leases THEN "revoked" ELSE lease[c]]
    /\ granted' = IF connection = "none" THEN granted
                  ELSE [c \in Calls |-> IF c \in leases THEN "dead" ELSE granted[c]]

\* GitHub or the database fails for some of them.
RevokeSomeLeases(leases) ==
    /\ Fault
    /\ \E revoked \in SUBSET leases : RevokeLeases(revoked)

\* RevokeTokenLease: the agent reports the end of the command.
RevokeTokenLease(c) ==
    /\ c \in Active /\ call[c] = "done" /\ connection # "none"
    /\ RevokeLeases({c})
    /\ UNCHANGED <<project, connection, broker, approval, call, ender, raced, faults>>

\* Finalization is over; the run is revoked, then its tokens.
EndRun ==
    /\ ender = "run" /\ broker = "active"
    /\ ender' = "broker"
    /\ UNCHANGED <<project, connection, broker, approval, call, lease, granted, raced, faults>>

\* Mutant: the tokens are collected, and the run may go on asking for more.
RevokeBrokerRunNever ==
    /\ ender = "broker" /\ ender' = "leases" /\ raced' = raced \cup UnderWay
    /\ UNCHANGED <<project, connection, broker, approval, call, lease, granted, faults>>

\* A failure is logged, and the leases are revoked all the same.
RevokeBrokerRun ==
    /\ ender = "broker"
    /\ raced' = raced \cup UnderWay
    /\ \/ broker' = "revoked" /\ ender' = "leases" /\ UNCHANGED faults
       \/ Fault /\ ender' = "rest" /\ UNCHANGED broker
    /\ UNCHANGED <<project, connection, approval, call, lease, granted>>

RevokeRunTokenLeases ==
    /\ ender \in {"leases", "rest"}
    /\ \/ /\ RevokeLeases(Active) /\ UNCHANGED faults
          /\ ender' = IF ender = "leases" THEN "done" ELSE "failed"
       \/ RevokeSomeLeases(Active) /\ ender' = "failed"
    /\ UNCHANGED <<project, connection, broker, approval, call, raced>>

EnderCrashes ==
    /\ ender \in {"broker", "leases", "rest"} /\ Fault /\ ender' = "failed"
    /\ UNCHANGED <<project, connection, broker, approval, call, lease, granted, raced>>

\* Disconnect: revokeUserTokenLeases, DeleteConnection, DeleteAppRegistration.
Disconnect ==
    /\ connection = "connected"
    /\ RevokeLeases(Active) /\ connection' = "registered"
    /\ UNCHANGED <<project, broker, approval, call, ender, raced, faults>>

DeleteAppRegistration ==
    /\ connection = "registered" /\ connection' = "none"
    /\ UNCHANGED <<project, broker, approval, call, lease, granted, ender, raced, faults>>

BrokerNext ==
    \/ IssueBrokerCredential \/ FiveMinutesPass
    \/ \E c \in Calls : \/ Acquire(c) \/ CheckApproval(c) \/ ClaimApproval(c) \/ MintToken(c)
                        \/ SaveTokenLease(c) \/ UndoToken(c) \/ CallCrashes(c)
                        \/ RevokeTokenLease(c)
    \/ \E decision \in {"approved", "denied"} : DecideApproval(decision)
    \/ EndRun \/ RevokeBrokerRun \/ RevokeRunTokenLeases \/ EnderCrashes
    \/ Disconnect \/ DeleteAppRegistration

-----------------------------------------------------------------------------
(* broker.go AcquireTokenLease, docs/runbooks/project-connectors.md: however *)
(* often and however concurrently a high-risk command is asked for, one      *)
(* approval gives it one token.                                              *)
ApprovalsAreUsedOnce ==
    \A c, d \in Risky : granted[c] # "none" /\ granted[d] # "none" => c = d

(* simple_chat.go, the end of a run, and service.go Archive: when all of it  *)
(* succeeded, the leases that are left are those of calls that were under    *)
(* way at that moment.                                                       *)
FinishedWorkKeepsNoLease ==
    ender = "done" \/ project.status = "archived" => Active \subseteq raced
=============================================================================
