--------------------------- MODULE ProjectsProofs ---------------------------
(***************************************************************************)
(* Proofs about Projects, with the ScmBroker in it, for any numbers of     *)
(* requests, calls and failures.                                           *)
(***************************************************************************)
EXTENDS Projects, TLAPS

-----------------------------------------------------------------------------
(***************************************************************************)
(* The row.  Every operation that writes it leaves a row of this form, or  *)
(* leaves it alone: its UPDATE found another attempt there, or failed.     *)
(***************************************************************************)

Row(status, by, row) == [provider |-> project.provider, status |-> status, by |-> by,
                         stale |-> FALSE, token |-> row]

LEMMA RowType ==
    ASSUME project \in Project, NEW status \in Status,
           NEW by \in Attempts \cup Archives \cup {Nil}, NEW row \in Attempts \cup {Nil}
    PROVE  Row(status, by, row) \in Project
  <1>1. project.provider \in {"local", "github"}
    BY DEF Project
  <1> QED BY <1>1 DEF Row, Project

LEMMA RowsHaveTypes ==
    ASSUME project \in Project, NEW status \in Status,
           NEW row \in {project.token, Nil} \cup Attempts,
           project' = project \/ project' = Row(status, Nil, row)
    PROVE  project' \in Project
  <1>1. project.token \in Attempts \cup {Nil}
    BY DEF Project
  <1> QED BY <1>1, RowType

LEMMA BeginRow ==
    ASSUME project \in Project, NEW a \in Attempts, Create(a) \/ Retry(a)
    PROVE  project' \in Project
  <1> DEFINE row == [project EXCEPT !.status = "provisioning", !.by = a]
  <1>1. row \in Project /\ [row EXCEPT !.stale = FALSE] \in Project
    BY DEF Project, Status
  <1>2. project' = row \/ project' = [row EXCEPT !.stale = FALSE]
    <2>1. CASE Create(a)
      BY <2>1 DEF Create
    <2>2. CASE Retry(a)
      <3>1. project' = [project EXCEPT !.status = "provisioning", !.by = a, !.stale = FALSE]
        BY <2>2 DEF Retry
      <3> QED BY <3>1
    <2> QED BY <2>1, <2>2
  <1> HIDE DEF row
  <1> QED BY <1>1, <1>2

LEMMA CompleteRow ==
    ASSUME project \in Project, NEW a \in Attempts, Complete(a)
    PROVE  \/ project' = project
           \/ /\ Current(a)
              /\ project' = Row("ready", Nil, IF project.provider = "local" THEN a ELSE Nil)
  <1>1. \/ project' = project
        \/ /\ Current(a)
           /\ project' = [project EXCEPT !.status = "ready", !.stale = FALSE, !.by = Nil,
                             !.token = IF project.provider = "local" THEN a ELSE Nil]
    BY DEF Complete
  <1> QED BY <1>1 DEF Project, Row

LEMMA FailRow ==
    ASSUME project \in Project, NEW a \in Attempts, Fail(a)
    PROVE  project' = project \/ (Current(a) /\ project' = Row("failed", Nil, project.token))
  <1>1. \/ project' = project
        \/ /\ Current(a)
           /\ project' = [project EXCEPT !.status = "failed", !.by = Nil, !.stale = FALSE]
    BY DEF Fail
  <1> QED BY <1>1 DEF Project, Row

LEMMA ArchiveRow ==
    ASSUME project \in Project, NEW b \in Archives, Archive(b)
    PROVE  project' = Row("archiving", b, project.token)
  <1>1. project' = [project EXCEPT !.status = "archiving", !.by = b, !.stale = FALSE]
    BY DEF Archive
  <1> QED BY <1>1 DEF Project, Row

LEMMA EndArchiveRow ==
    ASSUME project \in Project, NEW b \in Archives, EndArchive(b)
    PROVE  \/ project' = project
           \/ /\ project.status = "archiving"
              /\ \/ archive[b] = "fail" /\ project' = Row("archive_failed", Nil, project.token)
                 \/ archive[b] = "complete" /\ project' = Row("archived", Nil, Nil)
  <1>1. CASE archive[b] = "fail"
    <2>1. \/ project' = project
          \/ /\ project.status = "archiving"
             /\ project' = [project EXCEPT !.by = Nil, !.stale = FALSE,
                               !.status = "archive_failed", !.token = project.token]
      BY <1>1 DEF EndArchive
    <2> QED BY <1>1, <2>1 DEF Project, Row
  <1>2. CASE archive[b] = "complete"
    <2>1. \/ project' = project
          \/ /\ project.status = "archiving"
             /\ project' = [project EXCEPT !.by = Nil, !.stale = FALSE,
                               !.status = "archived", !.token = Nil]
      BY <1>2 DEF EndArchive
    <2> QED BY <1>2, <2>1 DEF Project, Row
  <1> QED BY <1>1, <1>2 DEF EndArchive

-----------------------------------------------------------------------------
(* Types.                                                                    *)

LEMMA TypeInit == Init => TypeOK
  BY BrokerAssumption DEF Init, BrokerInit, TypeOK, BrokerTypeOK, Project, Status,
     Approval, TokenState, Connection

\* A broker step keeps the types of the broker.
LEMMA BrokerTypeStep ==
    ASSUME TypeOK, BrokerNext
    PROVE  BrokerTypeOK' /\ UNCHANGED project
  <1> USE BrokerAssumption DEF TypeOK, BrokerTypeOK, Fault
  <1>1. CASE IssueBrokerCredential
    BY <1>1 DEF IssueBrokerCredential
  <1>2. CASE FiveMinutesPass
    BY <1>2 DEF FiveMinutesPass, Approval
  <1>3. ASSUME NEW c \in Calls,
               Acquire(c) \/ CallCrashes(c) \/ SaveTokenLease(c) \/ RevokeTokenLease(c)
        PROVE  BrokerTypeOK' /\ UNCHANGED project
    BY <1>3 DEF Acquire, CallCrashes, SaveTokenLease, RevokeTokenLease, Go, RevokeLeases,
                TokenState
  <1>4. ASSUME NEW c \in Calls, CheckApproval(c) \/ ClaimApproval(c)
        PROVE  BrokerTypeOK' /\ UNCHANGED project
    BY <1>4 DEF CheckApproval, ClaimApproval, Go, Approval
  <1>5. ASSUME NEW c \in Calls, MintToken(c) \/ UndoToken(c)
        PROVE  BrokerTypeOK' /\ UNCHANGED project
    BY <1>5 DEF MintToken, UndoToken, Go, TokenState
  <1>6. ASSUME NEW decision \in {"approved", "denied"}, DecideApproval(decision)
        PROVE  BrokerTypeOK' /\ UNCHANGED project
    BY <1>6 DEF DecideApproval, Approval
  <1>7. CASE EndRun \/ EnderCrashes \/ RevokeBrokerRun \/ DeleteAppRegistration
    BY <1>7 DEF EndRun, EnderCrashes, RevokeBrokerRun, DeleteAppRegistration, UnderWay,
                Connection
  <1>8. CASE RevokeRunTokenLeases \/ Disconnect
    BY <1>8 DEF RevokeRunTokenLeases, RevokeSomeLeases, RevokeLeases, Disconnect, TokenState,
                Connection
  <1> QED BY <1>1, <1>2, <1>3, <1>4, <1>5, <1>6, <1>7, <1>8 DEF BrokerNext

LEMMA ProjectTypeStep == TypeOK /\ ProjectNext => TypeOK'
  <1> SUFFICES ASSUME TypeOK, ProjectNext PROVE TypeOK'
    OBVIOUS
  <1> USE BrokerAssumption DEF TypeOK, BrokerTypeOK, brokerVars, Fault
  <1>1. CASE OperationGoesStale
    BY <1>1 DEF OperationGoesStale, Project
  <1>2. ASSUME NEW a \in Attempts, Create(a) \/ Retry(a) PROVE TypeOK'
    <2>1. project' \in Project
      BY <1>2, BeginRow
    <2>2. UNCHANGED <<archive, token, unheard, brokerVars, faults>>
      BY <1>2 DEF Create, Retry
    <2>3. AttemptStep(a, "repository") /\ overtaken' \subseteq Attempts
      BY <1>2 DEF Create, Retry, Working
    <2> QED BY <2>1, <2>2, <2>3 DEF AttemptStep
  <1>3. ASSUME NEW a \in Attempts, PrepareRepository(a) \/ Initialize(a) \/ AttemptCrashes(a)
        PROVE  TypeOK'
    <2>1. /\ UNCHANGED <<project, archive, token, overtaken, unheard, brokerVars>>
          /\ faults' \in 0..MaxFaults
      BY <1>3 DEF PrepareRepository, Initialize, AttemptCrashes
    <2>2. \E pc \in {"names", "complete", "fail", "failknown", "done"} : AttemptStep(a, pc)
      BY <1>3 DEF PrepareRepository, Initialize, AttemptCrashes
    <2> QED BY <2>1, <2>2 DEF AttemptStep
  <1>4. ASSUME NEW a \in Attempts, DeleteOldTokens(a) \/ CreateToken(a) \/ CleanUpToken(a)
        PROVE  TypeOK'
    BY <1>4 DEF DeleteOldTokens, CreateToken, CleanUpToken, AttemptStep, DeleteTokensByName,
                TokenState
  <1>5. ASSUME NEW a \in Attempts, Complete(a) PROVE TypeOK'
    <2>1. project' \in Project
      <3>1. PICK row \in {Nil} \cup Attempts : project' = project \/ project' = Row("ready", Nil, row)
        BY <1>5, CompleteRow
      <3> QED BY <3>1, RowsHaveTypes DEF Status
    <2>2. attempt' \in [Attempts -> {"idle", "repository", "names", "mint", "push", "complete",
                                     "fail", "failknown", "cleanup", "done"}]
      BY <1>5 DEF Complete, AttemptStep
    <2> QED BY <1>5, <2>1, <2>2 DEF Complete
  <1>6. ASSUME NEW a \in Attempts, Fail(a) PROVE TypeOK'
    <2>1. project' \in Project
      <3>1. project' = project \/ project' = Row("failed", Nil, project.token)
        BY <1>6, FailRow
      <3> QED BY <3>1, RowsHaveTypes DEF Status
    <2>2. /\ UNCHANGED <<archive, token, overtaken, unheard, brokerVars>>
          /\ faults' \in 0..MaxFaults
      BY <1>6 DEF Fail
    <2>3. AttemptStep(a, "done") \/ AttemptStep(a, "cleanup")
      BY <1>6 DEF Fail
    <2> QED BY <2>1, <2>2, <2>3 DEF AttemptStep
  <1>7. ASSUME NEW b \in Archives, Archive(b) PROVE TypeOK'
    <2>1. project' \in Project
      <3>1. project.token \in Attempts \cup {Nil}
        BY DEF Project
      <3> QED BY <1>7, <3>1, ArchiveRow, RowType DEF Status
    <2> QED BY <1>7, <2>1 DEF Archive, ArchiveStep, Working
  <1>8. ASSUME NEW b \in Archives, DeleteToken(b) \/ ArchiveCrashes(b) PROVE TypeOK'
    BY <1>8 DEF DeleteToken, ArchiveCrashes, ArchiveStep, DeleteTokensByName, TokenState
  <1>9. ASSUME NEW b \in Archives, RevokeProjectLeases(b) PROVE TypeOK'
    BY <1>9 DEF RevokeProjectLeases, ArchiveStep, RevokeSomeLeases, RevokeLeases, TokenState,
                UnderWay
  <1>10. ASSUME NEW b \in Archives, EndArchive(b) PROVE TypeOK'
    <2>1. project' \in Project
      <3>1. project.token \in Attempts \cup {Nil}
        BY DEF Project
      <3>2. \E status \in Status, row \in {project.token, Nil} :
                project' = project \/ project' = Row(status, Nil, row)
        BY <1>10, EndArchiveRow DEF Status
      <3> QED BY <3>1, <3>2, RowsHaveTypes
    <2>2. /\ UNCHANGED <<attempt, token, overtaken, unheard, brokerVars>>
          /\ faults' \in 0..MaxFaults /\ ArchiveStep(b, "done")
      BY <1>10 DEF EndArchive
    <2> QED BY <2>1, <2>2 DEF ArchiveStep
  <1> QED BY <1>1, <1>2, <1>3, <1>4, <1>5, <1>6, <1>7, <1>8, <1>9, <1>10 DEF ProjectNext

LEMMA TypeStep == TypeOK /\ [Next]_vars => TypeOK'
  <1> SUFFICES ASSUME TypeOK, [Next]_vars PROVE TypeOK'
    OBVIOUS
  <1>1. CASE ProjectNext
    BY <1>1, ProjectTypeStep
  <1>2. CASE BrokerNext /\ UNCHANGED <<attempt, archive, token, overtaken, unheard>>
    BY <1>2, BrokerTypeStep DEF TypeOK
  <1>3. CASE UNCHANGED vars
    BY <1>3 DEF vars, projectVars, brokerVars, TypeOK, BrokerTypeOK
  <1> QED BY <1>1, <1>2, <1>3 DEF Next

\* The rows, the progress of the requests and the tokens keep their types.
THEOREM ProjectsTypeCorrect == Spec => []TypeOK
  BY TypeInit, TypeStep, PTL DEF Spec

-----------------------------------------------------------------------------
(***************************************************************************)
(* Approvals.  A risky call past ClaimApproval holds the approval for ever *)
(* after, whether or not its token was made; a token in a lease was made.  *)
(***************************************************************************)

Holds(c) == call[c] = "mint" \/ granted[c] # "none"

ApprovalInv ==
    /\ \A c \in Calls : lease[c] # "none" \/ call[c] \in {"save", "undo"} => granted[c] # "none"
    /\ \A c \in Risky : Holds(c) => approval.status = "consumed"
    /\ \A c, d \in Risky : Holds(c) /\ Holds(d) => c = d

\* Revoking marks only leases that exist, so it makes no holder.
LEMMA RevokedLeasesKeepHolders ==
    ASSUME TypeOK, ApprovalInv, NEW leases \in SUBSET Calls,
           \A c \in leases : lease[c] # "none",
           RevokeLeases(leases), UNCHANGED <<call, approval>>
    PROVE  ApprovalInv'
  <1>1. \A c \in Calls : granted'[c] # "none" <=> granted[c] # "none"
    BY DEF TypeOK, BrokerTypeOK, ApprovalInv, RevokeLeases
  <1>2. \A c \in Calls : lease'[c] # "none" <=> lease[c] # "none"
    BY DEF TypeOK, BrokerTypeOK, RevokeLeases
  <1> QED BY <1>1, <1>2, BrokerAssumption DEF ApprovalInv, Holds

LEMMA RevokedActiveLeasesKeepHolders ==
    ASSUME TypeOK, ApprovalInv, UNCHANGED <<call, approval>>,
           RevokeLeases(Active) \/ RevokeSomeLeases(Active)
    PROVE  ApprovalInv'
  <1>1. PICK leases \in SUBSET Active : RevokeLeases(leases)
    BY DEF RevokeSomeLeases
  <1> QED BY <1>1, RevokedLeasesKeepHolders DEF Active

LEMMA ApprovalStep == TypeOK /\ ApprovalInv /\ [Next]_vars => ApprovalInv'
  <1> SUFFICES ASSUME TypeOK, ApprovalInv, [Next]_vars PROVE ApprovalInv'
    OBVIOUS
  <1> USE BrokerAssumption
  <1>1. CASE UNCHANGED <<call, granted, lease, approval>>
    BY <1>1 DEF ApprovalInv, Holds
  <1>2. ASSUME ProjectNext, ~UNCHANGED <<call, granted, lease, approval>> PROVE ApprovalInv'
    <2>1. PICK b \in Archives : RevokeProjectLeases(b)
      BY <1>2 DEF ProjectNext, OperationGoesStale, Create, Retry, PrepareRepository,
         DeleteOldTokens, CreateToken, Initialize, Complete, Fail, CleanUpToken,
         AttemptCrashes, Archive, DeleteToken, EndArchive, ArchiveCrashes, brokerVars
    <2> QED BY <2>1, RevokedActiveLeasesKeepHolders DEF RevokeProjectLeases
  <1>3. ASSUME NEW c \in Calls, Acquire(c) PROVE ApprovalInv'
    BY <1>3 DEF Acquire, Go, TypeOK, BrokerTypeOK, ApprovalInv, Holds
  <1>4. ASSUME NEW c \in Calls, CheckApproval(c) PROVE ApprovalInv'
    BY <1>4 DEF CheckApproval, Go, TypeOK, BrokerTypeOK, ApprovalInv, Holds, Approval
  <1>5. ASSUME NEW c \in Calls, ClaimApproval(c) PROVE ApprovalInv'
    BY <1>5 DEF ClaimApproval, Go, TypeOK, BrokerTypeOK, ApprovalInv, Holds, Approval
  <1>6. ASSUME NEW c \in Calls, MintToken(c) PROVE ApprovalInv'
    BY <1>6 DEF MintToken, Go, TypeOK, BrokerTypeOK, ApprovalInv, Holds
  <1>7. ASSUME NEW c \in Calls, SaveTokenLease(c) \/ UndoToken(c) \/ CallCrashes(c)
        PROVE  ApprovalInv'
    BY <1>7 DEF SaveTokenLease, UndoToken, CallCrashes, Go, TypeOK, BrokerTypeOK, ApprovalInv,
                Holds
  <1>8. ASSUME NEW c \in Calls, RevokeTokenLease(c) PROVE ApprovalInv'
    BY <1>8, RevokedLeasesKeepHolders DEF RevokeTokenLease, Active
  <1>9. CASE RevokeRunTokenLeases \/ Disconnect
    BY <1>9, RevokedActiveLeasesKeepHolders DEF RevokeRunTokenLeases, Disconnect
  <1>10. CASE FiveMinutesPass \/ \E decision \in {"approved", "denied"} : DecideApproval(decision)
    BY <1>10 DEF FiveMinutesPass, DecideApproval, TypeOK, BrokerTypeOK, Approval, ApprovalInv,
                 Holds
  <1>11. CASE IssueBrokerCredential \/ EndRun \/ RevokeBrokerRun \/ EnderCrashes
              \/ DeleteAppRegistration
    BY <1>11, <1>1 DEF IssueBrokerCredential, EndRun, RevokeBrokerRun, EnderCrashes,
                       DeleteAppRegistration
  <1>12. CASE UNCHANGED vars
    BY <1>12, <1>1 DEF vars, brokerVars
  <1> QED BY <1>1, <1>2, <1>3, <1>4, <1>5, <1>6, <1>7, <1>8, <1>9, <1>10, <1>11, <1>12
          DEF Next, BrokerNext

\* AcquireTokenLease: one approval of a high-risk command gives one token, however
\* many calls ask for it at once, and whatever fails on the way.
THEOREM OneTokenPerApproval == Spec => []ApprovalsAreUsedOnce
  <1>1. Init => ApprovalInv
    BY BrokerAssumption DEF Init, BrokerInit, ApprovalInv, Holds
  <1>2. ApprovalInv => ApprovalsAreUsedOnce
    BY DEF ApprovalInv, Holds, ApprovalsAreUsedOnce
  <1> QED BY <1>1, <1>2, ApprovalStep, ProjectsTypeCorrect, PTL DEF Spec

-----------------------------------------------------------------------------
(***************************************************************************)
(* Leases.  Once the run or the project has stopped the broker, the calls  *)
(* that can still save a lease are those that were under way: Covered is   *)
(* kept from then on, because nothing makes the run or the project usable  *)
(* again.                                                                  *)
(***************************************************************************)

Closing == {"archiving", "archive_failed", "archived"}
Covered == UnderWay \cup Active \subseteq raced

LeaseInv ==
    /\ project.provider = "local" =>
          broker = "none" /\ ender = "run" /\ UnderWay = {} /\ Active = {}
    /\ ender \in {"leases", "done"} => broker = "revoked" /\ UnderWay \subseteq raced
    /\ ender = "done" => Active \subseteq raced
    /\ \A b \in Archives :
          /\ archive[b] # "idle" => project.status \in Closing
          /\ archive[b] = "token" => project.provider = "local"
          /\ archive[b] = "complete" => Covered
    /\ project.status = "archived" => Covered

LEMMA LeaseInit == Init => LeaseInv
  BY DEF Init, BrokerInit, LeaseInv, UnderWay, Active, Covered

LEMMA LeaseBrokerStep ==
    ASSUME TypeOK, LeaseInv, BrokerNext, UNCHANGED <<project, archive>>
    PROVE  LeaseInv'
  <1> USE DEF TypeOK, BrokerTypeOK, LeaseInv, UnderWay, Active, Covered
  <1>1. CASE IssueBrokerCredential
    BY <1>1 DEF IssueBrokerCredential, ProjectReady
  <1>2. CASE FiveMinutesPass \/ DeleteAppRegistration
             \/ \E decision \in {"approved", "denied"} : DecideApproval(decision)
    BY <1>2 DEF FiveMinutesPass, DeleteAppRegistration, DecideApproval
  <1>3. ASSUME NEW c \in Calls, Acquire(c) PROVE LeaseInv'
    BY <1>3 DEF Acquire, Go, ProjectReady, Closing
  <1>4. ASSUME NEW c \in Calls, CheckApproval(c) \/ ClaimApproval(c) PROVE LeaseInv'
    BY <1>4 DEF CheckApproval, ClaimApproval, Go
  <1>5. ASSUME NEW c \in Calls, MintToken(c) \/ UndoToken(c) \/ CallCrashes(c) PROVE LeaseInv'
    BY <1>5 DEF MintToken, UndoToken, CallCrashes, Go
  <1>6. ASSUME NEW c \in Calls, SaveTokenLease(c) PROVE LeaseInv'
    BY <1>6 DEF SaveTokenLease, Go
  <1>7. ASSUME NEW c \in Calls, RevokeTokenLease(c) PROVE LeaseInv'
    BY <1>7 DEF RevokeTokenLease, RevokeLeases
  <1>8. CASE EndRun \/ RevokeBrokerRun \/ EnderCrashes
    BY <1>8 DEF EndRun, RevokeBrokerRun, EnderCrashes
  <1>9. CASE RevokeRunTokenLeases
    BY <1>9 DEF RevokeRunTokenLeases, RevokeSomeLeases, RevokeLeases
  <1>10. CASE Disconnect
    BY <1>10 DEF Disconnect, RevokeLeases
  <1> QED BY <1>1, <1>2, <1>3, <1>4, <1>5, <1>6, <1>7, <1>8, <1>9, <1>10 DEF BrokerNext

LEMMA LeaseProjectStep ==
    ASSUME TypeOK, LeaseInv, ProjectNext
    PROVE  LeaseInv'
  <1> USE DEF LeaseInv, TypeOK, brokerVars
  <1>1. CASE OperationGoesStale
    BY <1>1 DEF OperationGoesStale, Project, UnderWay, Active, Covered, Closing
  <1>2. ASSUME NEW a \in Attempts, Create(a) \/ Retry(a) PROVE LeaseInv'
    <2>1. /\ project'.provider = project.provider /\ project'.status = "provisioning"
          /\ project.status \notin Closing
          /\ UNCHANGED <<call, lease, broker, ender, raced, archive>>
      BY <1>2 DEF Create, Retry, Project, Closing
    <2> QED BY <2>1 DEF UnderWay, Active, Covered, Closing
  <1>3. ASSUME NEW a \in Attempts,
               PrepareRepository(a) \/ Initialize(a) \/ AttemptCrashes(a)
               \/ DeleteOldTokens(a) \/ CreateToken(a) \/ CleanUpToken(a)
        PROVE  LeaseInv'
    BY <1>3 DEF PrepareRepository, Initialize, AttemptCrashes, DeleteOldTokens, CreateToken,
                CleanUpToken, UnderWay, Active, Covered
  <1>4. ASSUME NEW a \in Attempts, Complete(a) PROVE LeaseInv'
    <2>1. UNCHANGED <<call, lease, broker, ender, raced, archive>>
      BY <1>4 DEF Complete, brokerVars
    <2>2. project' = project \/ ( /\ project.status = "provisioning" /\ project'.status = "ready"
                                 /\ project'.provider = project.provider )
      BY <1>4, CompleteRow DEF Row, Current
    <2> QED BY <2>1, <2>2 DEF UnderWay, Active, Covered, Closing
  <1>5. ASSUME NEW a \in Attempts, Fail(a) PROVE LeaseInv'
    <2>1. UNCHANGED <<call, lease, broker, ender, raced, archive>>
      BY <1>5 DEF Fail, brokerVars
    <2>2. project' = project \/ ( /\ project.status = "provisioning" /\ project'.status = "failed"
                                 /\ project'.provider = project.provider )
      BY <1>5, FailRow DEF Row, Current
    <2> QED BY <2>1, <2>2 DEF UnderWay, Active, Covered, Closing
  <1>6. ASSUME NEW b \in Archives, Archive(b) PROVE LeaseInv'
    <2>1. /\ project'.provider = project.provider /\ project'.status = "archiving"
          /\ UNCHANGED <<call, lease, broker, ender, raced>>
      BY <1>6, ArchiveRow DEF Archive, Row
    <2>2. \A x \in Archives : archive'[x] # archive[x] =>
              \/ archive'[x] = "token" /\ project.provider = "local"
              \/ archive'[x] \in {"leases", "fail"}
      BY <1>6 DEF Archive, ArchiveStep
    <2> QED BY <2>1, <2>2 DEF UnderWay, Active, Covered, Closing
  <1>7. ASSUME NEW b \in Archives, DeleteToken(b) \/ ArchiveCrashes(b) PROVE LeaseInv'
    BY <1>7 DEF DeleteToken, ArchiveCrashes, Archiving, ArchiveStep, UnderWay, Active, Covered
  <1>8. ASSUME NEW b \in Archives, RevokeProjectLeases(b) PROVE LeaseInv'
    BY <1>8 DEF RevokeProjectLeases, ArchiveStep, RevokeSomeLeases, RevokeLeases, UnderWay,
                Active, Covered, BrokerTypeOK
  <1>9. ASSUME NEW b \in Archives, EndArchive(b) PROVE LeaseInv'
    <2>1. UNCHANGED <<call, lease, broker, ender, raced>>
      BY <1>9 DEF EndArchive, brokerVars
    <2>2. /\ archive[b] \in {"complete", "fail"} /\ archive'[b] = "done"
          /\ \A x \in Archives \ {b} : archive'[x] = archive[x]
      BY <1>9 DEF EndArchive, ArchiveStep
    <2>3. \/ project' = project
          \/ /\ project'.provider = project.provider
             /\ \/ project'.status = "archive_failed"
                \/ project'.status = "archived" /\ archive[b] = "complete"
      BY <1>9, EndArchiveRow DEF Row
    <2> QED BY <2>1, <2>2, <2>3 DEF UnderWay, Active, Covered, Closing
  <1> QED BY <1>1, <1>2, <1>3, <1>4, <1>5, <1>6, <1>7, <1>8, <1>9 DEF ProjectNext

LEMMA LeaseStep == TypeOK /\ LeaseInv /\ [Next]_vars => LeaseInv'
  <1> SUFFICES ASSUME TypeOK, LeaseInv, [Next]_vars PROVE LeaseInv'
    OBVIOUS
  <1>1. CASE UNCHANGED vars
    BY <1>1 DEF vars, projectVars, brokerVars, LeaseInv, UnderWay, Active, Covered
  <1>2. CASE BrokerNext /\ UNCHANGED archive
    BY <1>2, BrokerTypeStep, LeaseBrokerStep
  <1> QED BY <1>1, <1>2, LeaseProjectStep DEF Next

\* simple_chat.go and Archive: a run that ended and a project that was archived, each
\* without an error, leave active only leases of calls they overlapped with.
THEOREM RevocationIsComplete == Spec => []FinishedWorkKeepsNoLease
  <1>1. LeaseInv => FinishedWorkKeepsNoLease
    BY DEF LeaseInv, FinishedWorkKeepsNoLease, Covered
  <1> QED BY <1>1, LeaseInit, LeaseStep, ProjectsTypeCorrect, PTL DEF Spec

-----------------------------------------------------------------------------
(***************************************************************************)
(* Attempts.  Only the push may outlast the fifteen minutes, so an attempt *)
(* that is before it is the one the row names, and one that is past it is  *)
(* the one the row names or was overtaken.                                 *)
(***************************************************************************)

BeforePush == {"repository", "names", "mint", "fail"}
FromPush == {"push", "complete", "failknown"}

AttemptInv ==
    /\ project.status = "none" => ~project.stale
    /\ project.status \in {"none", "provisioning", "failed"} => project.token = Nil
    /\ \A a \in Attempts :
          /\ project.status = "none" => attempt[a] = "idle"
          /\ attempt[a] \in BeforePush => Current(a) /\ ~project.stale
          /\ attempt[a] \in FromPush => Current(a) \/ a \in overtaken
          /\ project.provider = "github" =>
                attempt[a] \notin {"names", "mint", "push", "failknown", "cleanup"}
    /\ \A b \in Archives : archive[b] = "leases" => project.provider = "github"

LEMMA AttemptStepOfProject ==
    ASSUME TypeOK, AttemptInv, ProjectNext
    PROVE  AttemptInv'
  <1> USE DEF TypeOK, AttemptInv, BeforePush, FromPush, Current, AttemptStep
  <1>1. CASE OperationGoesStale
    BY <1>1 DEF OperationGoesStale, Project, Working
  <1>2. ASSUME NEW a \in Attempts, Create(a) PROVE AttemptInv'
    BY <1>2 DEF Create, Project
  <1>3. ASSUME NEW a \in Attempts, Retry(a) PROVE AttemptInv'
    BY <1>3 DEF Retry, Project, Working
  <1>4. ASSUME NEW a \in Attempts,
               PrepareRepository(a) \/ Initialize(a) \/ AttemptCrashes(a)
               \/ DeleteOldTokens(a) \/ CreateToken(a) \/ CleanUpToken(a)
        PROVE  AttemptInv'
    BY <1>4 DEF PrepareRepository, Initialize, AttemptCrashes, DeleteOldTokens, CreateToken,
                CleanUpToken, Project, Working
  <1>5. ASSUME NEW a \in Attempts, Complete(a) PROVE AttemptInv'
    <2>1. /\ UNCHANGED <<archive, overtaken>> /\ attempt[a] = "complete"
          /\ \/ attempt'[a] = "done"
             \/ attempt'[a] = "cleanup" /\ project.provider = "local"
          /\ \A x \in Attempts \ {a} : attempt'[x] = attempt[x]
      BY <1>5 DEF Complete
    <2>2. CASE UNCHANGED project
      BY <2>1, <2>2 DEF Project
    <2>3. CASE /\ Current(a)
               /\ project' = Row("ready", Nil, IF project.provider = "local" THEN a ELSE Nil)
      <3>1. /\ project'.status = "ready" /\ project'.provider = project.provider
            /\ project'.stale = FALSE
        BY <2>3 DEF Row
      <3>2. \A x \in Attempts \ {a} : ~Current(x)
        BY <2>3
      <3> QED BY <2>1, <3>1, <3>2
    <2> QED BY <1>5, <2>2, <2>3, CompleteRow
  <1>6. ASSUME NEW a \in Attempts, Fail(a) PROVE AttemptInv'
    <2>1. /\ UNCHANGED <<archive, overtaken>>
          /\ \/ attempt[a] = "fail" /\ attempt'[a] = "done"
             \/ attempt[a] = "failknown" /\ attempt'[a] = "cleanup"
          /\ \A x \in Attempts \ {a} : attempt'[x] = attempt[x]
      BY <1>6 DEF Fail
    <2>2. CASE UNCHANGED project
      BY <2>1, <2>2
    <2>3. CASE Current(a) /\ project' = Row("failed", Nil, project.token)
      <3>1. /\ project'.status = "failed" /\ project'.provider = project.provider
            /\ project'.stale = FALSE /\ project'.token = project.token
        BY <2>3 DEF Row
      <3>2. \A x \in Attempts \ {a} : ~Current(x)
        BY <2>3
      <3> QED BY <2>1, <2>3, <3>1, <3>2
    <2> QED BY <1>6, <2>2, <2>3, FailRow
  <1>7. ASSUME NEW b \in Archives, Archive(b) PROVE AttemptInv'
    <2>1. /\ project'.status = "archiving" /\ project'.provider = project.provider
          /\ project'.stale = FALSE
      BY <1>7, ArchiveRow DEF Row
    <2>2. /\ project.status \notin {"none", "provisioning"} /\ UNCHANGED attempt
          /\ overtaken' = overtaken \cup {x \in Working : attempt[x] # "cleanup"}
          /\ archive'[b] = "leases" => project.provider = "github"
          /\ \A y \in Archives \ {b} : archive'[y] = archive[y]
      BY <1>7 DEF Archive, ArchiveStep, Project
    <2> QED BY <2>1, <2>2 DEF Working
  <1>8. ASSUME NEW b \in Archives,
               DeleteToken(b) \/ ArchiveCrashes(b) \/ RevokeProjectLeases(b)
        PROVE  AttemptInv'
    BY <1>8 DEF DeleteToken, ArchiveCrashes, RevokeProjectLeases, ArchiveStep
  <1>9. ASSUME NEW b \in Archives, EndArchive(b) PROVE AttemptInv'
    <2>1. /\ UNCHANGED <<attempt, overtaken>> /\ archive'[b] = "done"
          /\ \A y \in Archives \ {b} : archive'[y] = archive[y]
      BY <1>9 DEF EndArchive, ArchiveStep
    <2>2. \/ project' = project
          \/ /\ project.status = "archiving" /\ project'.provider = project.provider
             /\ project'.status \in {"archive_failed", "archived"}
      BY <1>9, EndArchiveRow DEF Row
    <2> QED BY <2>1, <2>2
  <1> QED BY <1>1, <1>2, <1>3, <1>4, <1>5, <1>6, <1>7, <1>8, <1>9 DEF ProjectNext

LEMMA AttemptInvStep == TypeOK /\ AttemptInv /\ [Next]_vars => AttemptInv'
  <1> SUFFICES ASSUME TypeOK, AttemptInv, [Next]_vars PROVE AttemptInv'
    OBVIOUS
  <1>1. CASE UNCHANGED <<project, attempt, archive, overtaken>>
    BY <1>1 DEF AttemptInv, Current
  <1>2. CASE BrokerNext /\ UNCHANGED <<attempt, archive, token, overtaken, unheard>>
    BY <1>1, <1>2, BrokerTypeStep
  <1>3. CASE UNCHANGED vars
    BY <1>1, <1>3 DEF vars, projectVars
  <1> QED BY <1>2, <1>3, AttemptStepOfProject DEF Next

-----------------------------------------------------------------------------
(***************************************************************************)
(* Repository tokens.  The current attempt deletes by name what was left   *)
(* before it makes its own, and the row names the only token that can be   *)
(* left, but for those of attempts that were overtaken.                    *)
(***************************************************************************)

Accounted(x) == token[x] = "live" => x \in overtaken

TokenInv ==
    /\ \A a \in Attempts :
          /\ project.status = "none" \/ project.provider = "github" => token[a] = "none"
          /\ Current(a) /\ attempt[a] \in {"mint"} \cup FromPush =>
                \A x \in Attempts \ {a} : Accounted(x)
          /\ Current(a) /\ attempt[a] \in {"push", "complete"} /\ project.provider = "local" =>
                token[a] = "live"
    /\ project.provider = "local" /\ project.token # Nil =>
          \A x \in Attempts \ {project.token} : Accounted(x)
    /\ project.provider = "local" /\ project.status = "ready" =>
          /\ project.token \in Attempts
          /\ \/ project.token \in unheard
             \/ attempt[project.token] = "done" /\ token[project.token] = "live"
    /\ \A b \in Archives : archive[b] = "complete" => \A x \in Attempts : Accounted(x)
    /\ project.status = "archived" => \A x \in Attempts : Accounted(x)

LEMMA TokenStepOfProject ==
    ASSUME TypeOK, LeaseInv, AttemptInv, TokenInv, ProjectNext
    PROVE  TokenInv'
  <1> USE AttemptsAssumption DEF TypeOK, AttemptInv, TokenInv, BeforePush, FromPush, Current, AttemptStep,
                          Accounted
  <1>1. CASE OperationGoesStale
    BY <1>1 DEF OperationGoesStale, Project
  <1>2. ASSUME NEW a \in Attempts, Create(a) PROVE TokenInv'
    BY <1>2 DEF Create, Project
  <1>3. ASSUME NEW a \in Attempts, Retry(a) PROVE TokenInv'
    BY <1>3 DEF Retry, Project
  <1>4. ASSUME NEW a \in Attempts, PrepareRepository(a) \/ Initialize(a) \/ AttemptCrashes(a)
        PROVE  TokenInv'
    BY <1>4 DEF PrepareRepository, Initialize, AttemptCrashes, Project, Working
  <1>5. ASSUME NEW a \in Attempts, DeleteOldTokens(a) PROVE TokenInv'
    BY <1>5 DEF DeleteOldTokens, DeleteTokensByName, Project, TokenState
  <1>6. ASSUME NEW a \in Attempts, CreateToken(a) PROVE TokenInv'
    BY <1>6 DEF CreateToken, Project, TokenState, LeaseInv, Closing
  <1>7. ASSUME NEW a \in Attempts, CleanUpToken(a) PROVE TokenInv'
    <2>1. /\ UNCHANGED <<project, archive, overtaken, unheard>>
          /\ attempt[a] = "cleanup" /\ attempt'[a] = "done"
          /\ \A x \in Attempts \ {a} : attempt'[x] = attempt[x] /\ token'[x] = token[x]
          /\ token'[a] \in {token[a], "dead"}
      BY <1>7 DEF CleanUpToken
    <2>2. project.provider # "github" /\ project.status # "none"
      BY <2>1
    <2> QED BY <2>1, <2>2
  <1>8. ASSUME NEW a \in Attempts, Complete(a) PROVE TokenInv'
    <2>1. CASE UNCHANGED project
      BY <1>8, <2>1 DEF Complete, Project
    <2>2. CASE /\ Current(a)
               /\ project' = Row("ready", Nil, IF project.provider = "local" THEN a ELSE Nil)
      <3>1. /\ project'.status = "ready" /\ project'.provider = project.provider
            /\ project'.token = IF project.provider = "local" THEN a ELSE Nil
        BY <2>2 DEF Row
      <3>2. attempt'[a] = "done" \/ a \in unheard'
        BY <1>8, <2>2, <3>1 DEF Complete
      <3> QED BY <1>8, <2>2, <3>1, <3>2 DEF Complete, LeaseInv, Closing
    <2> QED BY <1>8, <2>1, <2>2, CompleteRow
  <1>9. ASSUME NEW a \in Attempts, Fail(a) PROVE TokenInv'
    <2>1. /\ UNCHANGED <<archive, token, overtaken, unheard>>
          /\ attempt[a] \in {"fail", "failknown"} /\ attempt'[a] \in {"done", "cleanup"}
          /\ \A x \in Attempts \ {a} : attempt'[x] = attempt[x]
      BY <1>9 DEF Fail
    <2>2. CASE UNCHANGED project
      BY <2>1, <2>2
    <2>3. CASE Current(a) /\ project' = Row("failed", Nil, project.token)
      <3>1. /\ project'.status = "failed" /\ project'.provider = project.provider
            /\ project'.token = project.token
        BY <2>3 DEF Row
      <3> QED BY <2>1, <2>3, <3>1
    <2> QED BY <1>9, <2>2, <2>3, FailRow
  <1>10. ASSUME NEW b \in Archives, Archive(b) PROVE TokenInv'
    <2>1. /\ project'.status = "archiving" /\ project'.provider = project.provider
          /\ project'.token = project.token
      BY <1>10, ArchiveRow DEF Row
    <2>2. /\ UNCHANGED <<attempt, token, unheard>> /\ overtaken \subseteq overtaken'
          /\ project.status # "none" /\ archive'[b] # "complete"
          /\ \A y \in Archives \ {b} : archive'[y] = archive[y]
      BY <1>10 DEF Archive, ArchiveStep, Project
    <2> QED BY <2>1, <2>2
  <1>11. ASSUME NEW b \in Archives, DeleteToken(b) PROVE TokenInv'
    BY <1>11 DEF DeleteToken, ArchiveStep, DeleteTokensByName, Project, LeaseInv, Closing
  <1>12. ASSUME NEW b \in Archives, ArchiveCrashes(b) \/ RevokeProjectLeases(b) PROVE TokenInv'
    BY <1>12 DEF ArchiveCrashes, RevokeProjectLeases, ArchiveStep, Project
  <1>13. ASSUME NEW b \in Archives, EndArchive(b) PROVE TokenInv'
    <2>1. /\ UNCHANGED <<attempt, token, overtaken, unheard>> /\ archive'[b] = "done"
          /\ \A y \in Archives \ {b} : archive'[y] = archive[y]
      BY <1>13 DEF EndArchive, ArchiveStep
    <2>2. \/ project' = project
          \/ /\ project.status = "archiving" /\ project'.provider = project.provider
             /\ \/ project'.status = "archive_failed" /\ project'.token = project.token
                \/ /\ project'.status = "archived" /\ project'.token = Nil
                   /\ archive[b] = "complete"
      BY <1>13, EndArchiveRow DEF Row
    <2> QED BY <2>1, <2>2
  <1> QED BY <1>1, <1>2, <1>3, <1>4, <1>5, <1>6, <1>7, <1>8, <1>9, <1>10, <1>11, <1>12, <1>13
          DEF ProjectNext

LEMMA TokenStep == TypeOK /\ LeaseInv /\ AttemptInv /\ TokenInv /\ [Next]_vars => TokenInv'
  <1> SUFFICES ASSUME TypeOK, LeaseInv, AttemptInv, TokenInv, [Next]_vars PROVE TokenInv'
    OBVIOUS
  <1>1. CASE UNCHANGED projectVars
    BY <1>1 DEF projectVars, TokenInv, Current, Accounted
  <1>2. CASE BrokerNext /\ UNCHANGED <<attempt, archive, token, overtaken, unheard>>
    BY <1>1, <1>2, BrokerTypeStep DEF projectVars
  <1>3. CASE UNCHANGED vars
    BY <1>1, <1>3 DEF vars
  <1> QED BY <1>2, <1>3, TokenStepOfProject DEF Next

\* Every token that exists is accounted for: it belongs to an attempt at work, to a row,
\* or to a request that was overtaken (provisionLocalProject, failProvisionAttempt, Archive).
THEOREM TokenInvHolds == Spec => [](AttemptInv /\ TokenInv)
  <1>1. Init => AttemptInv /\ TokenInv
    BY DEF Init, AttemptInv, TokenInv, BeforePush, FromPush, Accounted
  <1> QED BY <1>1, AttemptInvStep, TokenStep, LeaseInit, LeaseStep, ProjectsTypeCorrect,
             PTL DEF Spec

\* Archive: no repository token of an archived project works, but for one of an
\* attempt that was at work when another operation took the project over.
THEOREM NoTokenIsLeft == Spec => []ArchivedProjectsKeepNoToken
  <1>1. TokenInv => ArchivedProjectsKeepNoToken
    BY DEF TokenInv, Accounted, ArchivedProjectsKeepNoToken
  <1> QED BY <1>1, TokenInvHolds, PTL

\* provisionLocalProject: whatever other attempts delete, and however late they do,
\* the token of a ready project works, unless its attempt never heard of its success.
THEOREM ReadyProjectsWork == Spec => []ReadyProjectHasItsToken
  <1>1. TokenInv => ReadyProjectHasItsToken
    BY DEF TokenInv, ReadyProjectHasItsToken
  <1> QED BY <1>1, TokenInvHolds, PTL
=============================================================================
