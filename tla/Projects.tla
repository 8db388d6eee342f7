------------------------------ MODULE Projects ------------------------------
(***************************************************************************)
(* The life of one project (apps/gateway: project/service.go): it is       *)
(* provisioned, by a second attempt when the first failed or went silent,  *)
(* used, and archived.  The repository of a local project is on the        *)
(* internal Forgejo, with a repository token that the platform keeps; that *)
(* of a GitHub project is the user's, reached through the ScmBroker.       *)
(*                                                                         *)
(* Every request runs in a process of its own and may stop at any step; an *)
(* attempt id in the row fences a process that was overtaken.              *)
(***************************************************************************)
EXTENDS ScmBroker

CONSTANTS
    Attempts,   \* requests that provision: Create and Retry
    Archives    \* requests that archive

ASSUME AttemptsAssumption == Nil \notin Attempts \cup Archives

VARIABLES
    attempt,    \* progress of each provisioning request
    archive,    \* progress of each archiving request
    token,      \* Forgejo: the repository token made by each attempt
    overtaken,  \* history: attempts still at work when another one took over
    unheard     \* history: attempts that completed and never heard of it

projectVars == <<project, attempt, archive, token, overtaken, unheard>>
vars == <<projectVars, brokerVars, faults>>

Status == {"none", "provisioning", "failed", "ready",
           "archiving", "archive_failed", "archived"}

\* by: provision_attempt_id or archive_attempt_id, whichever is at work.
\* stale: the operation began fifteen minutes ago.  token: repository_token_id.
Project == [provider : {"local", "github"}, status : Status, by : Attempts \cup Archives \cup {Nil},
            stale : BOOLEAN, token : Attempts \cup {Nil}]

TypeOK ==
    /\ BrokerTypeOK
    /\ project \in Project
    /\ attempt \in [Attempts -> {"idle", "repository", "names", "mint", "push", "complete",
                                 "fail", "failknown", "cleanup", "done"}]
    /\ archive \in [Archives -> {"idle", "token", "leases", "complete", "fail", "done"}]
    /\ token \in [Attempts -> TokenState]
    /\ overtaken \subseteq Attempts /\ unheard \subseteq Attempts

Init ==
    /\ BrokerInit
    /\ \E provider \in {"local", "github"} :
          project = [provider |-> provider, status |-> "none", by |-> Nil,
                     stale |-> FALSE, token |-> Nil]
    /\ attempt = [a \in Attempts |-> "idle"]
    /\ archive = [b \in Archives |-> "idle"]
    /\ token = [a \in Attempts |-> "none"]
    /\ overtaken = {} /\ unheard = {}

Working == {a \in Attempts : attempt[a] \notin {"idle", "done"}}
Archiving == {b \in Archives : archive[b] \notin {"idle", "done"}}
AttemptStep(a, pc) == attempt' = [attempt EXCEPT ![a] = pc]
ArchiveStep(b, pc) == archive' = [archive EXCEPT ![b] = pc]

-----------------------------------------------------------------------------
(* Provisioning.                                                             *)

\* CreateProject; a second request with its id gets the same row.
Create(a) ==
    /\ project.status = "none" /\ attempt[a] = "idle"
    /\ project' = [project EXCEPT !.status = "provisioning", !.by = a]
    /\ AttemptStep(a, "repository")
    /\ UNCHANGED <<archive, token, overtaken, unheard, brokerVars, faults>>

\* Retry, ClaimProjectProvisionAttempt.
Retry(a) ==
    /\ attempt[a] = "idle"
    /\ \/ project.status = "failed"
       \/ project.status = "provisioning" /\ project.stale
    /\ project' = [project EXCEPT !.status = "provisioning", !.by = a, !.stale = FALSE]
    /\ AttemptStep(a, "repository")
    /\ overtaken' = overtaken \cup {other \in Working : attempt[other] # "cleanup"}
    /\ UNCHANGED <<archive, token, unheard, brokerVars, faults>>

\* Fifteen minutes: the process has stopped, or git still pushes the first
\* commit; every other call is cut off long before.
OperationGoesStale ==
    /\ project.status \in {"provisioning", "archiving"} /\ ~project.stale
    /\ \A a \in Working : a = project.by => attempt[a] = "push"
    /\ project.by \notin Archiving
    /\ project' = [project EXCEPT !.stale = TRUE]
    /\ UNCHANGED <<attempt, archive, token, overtaken, unheard, brokerVars, faults>>

\* createRepository, or the GitHub calls of an import; both can be repeated.
PrepareRepository(a) ==
    /\ attempt[a] = "repository"
    /\ \/ AttemptStep(a, IF project.provider = "local" THEN "names" ELSE "complete")
          /\ UNCHANGED faults
       \/ Fault /\ AttemptStep(a, "fail")
    /\ UNCHANGED <<project, archive, token, overtaken, unheard, brokerVars>>

\* Every token with the name of the project is deleted.
DeleteTokensByName(tokens) ==
    token' = [a \in Attempts |-> IF a \in tokens /\ token[a] = "live" THEN "dead" ELSE token[a]]

\* Mutant: the tokens of earlier attempts are left alone.
DeleteOldTokensNever(a) ==
    /\ attempt[a] = "names" /\ AttemptStep(a, "mint")
    /\ UNCHANGED <<project, archive, token, overtaken, unheard, brokerVars, faults>>

\* deleteRepositoryTokensByName stops at the first failure.
DeleteOldTokens(a) ==
    /\ attempt[a] = "names"
    /\ \/ DeleteTokensByName(Attempts) /\ AttemptStep(a, "mint") /\ UNCHANGED faults
       \/ /\ Fault /\ AttemptStep(a, "fail")
          /\ \E some \in SUBSET Attempts : DeleteTokensByName(some)
    /\ UNCHANGED <<project, archive, overtaken, unheard, brokerVars>>

\* createRepositoryToken; the lost reply of a failed call may hide a token.
CreateToken(a) ==
    /\ attempt[a] = "mint"
    /\ \/ token' = [token EXCEPT ![a] = "live"] /\ AttemptStep(a, "push") /\ UNCHANGED faults
       \/ /\ Fault /\ AttemptStep(a, "fail")
          /\ token' \in {token, [token EXCEPT ![a] = "live"]}
    /\ UNCHANGED <<project, archive, overtaken, unheard, brokerVars>>

\* branchSHA, initializeRepository, protectMain.
Initialize(a) ==
    /\ attempt[a] = "push"
    /\ \/ AttemptStep(a, "complete") /\ UNCHANGED faults
       \/ Fault /\ AttemptStep(a, "failknown")
    /\ UNCHANGED <<project, archive, token, overtaken, unheard, brokerVars>>

\* Mutant: the row is completed whichever attempt it is at.
CurrentAnyway(a) == project.status = "provisioning"

\* The WHERE of CompleteProject, CompleteLocalProject and FailProject.
Current(a) == project.status = "provisioning" /\ project.by = a

\* CompleteLocalProject, CompleteProject.  On any error, a lost reply
\* included, the attempt deletes the token it made.
Complete(a) ==
    LET local == project.provider = "local"
        ready == IF Current(a)
                 THEN [project EXCEPT !.status = "ready", !.stale = FALSE, !.by = Nil,
                                      !.token = IF local THEN a ELSE Nil]
                 ELSE project
        otherwise == IF local THEN "cleanup" ELSE "done"
    IN  /\ attempt[a] = "complete"
        /\ \/ /\ project' = ready /\ UNCHANGED <<unheard, faults>>
              /\ AttemptStep(a, IF Current(a) THEN "done" ELSE otherwise)
           \/ /\ Fault /\ AttemptStep(a, otherwise)
              /\ \/ UNCHANGED <<project, unheard>>
                 \/ Current(a) /\ project' = ready /\ unheard' = unheard \cup {a}
        /\ UNCHANGED <<archive, token, overtaken, brokerVars>>

\* failProvisionAttempt; the deferred deletion follows when the token is known.
Fail(a) ==
    /\ attempt[a] \in {"fail", "failknown"}
    /\ AttemptStep(a, IF attempt[a] = "fail" THEN "done" ELSE "cleanup")
    /\ \/ /\ project' = IF Current(a)
                        THEN [project EXCEPT !.status = "failed", !.by = Nil, !.stale = FALSE]
                        ELSE project
          /\ UNCHANGED faults
       \/ Fault /\ UNCHANGED project
    /\ UNCHANGED <<archive, token, overtaken, unheard, brokerVars>>

CleanUpToken(a) ==
    /\ attempt[a] = "cleanup" /\ AttemptStep(a, "done")
    /\ \/ token' = [token EXCEPT ![a] = "dead"] /\ UNCHANGED faults
       \/ Fault /\ UNCHANGED token
    /\ UNCHANGED <<project, archive, overtaken, unheard, brokerVars>>

AttemptCrashes(a) ==
    /\ a \in Working /\ Fault /\ AttemptStep(a, "done")
    /\ UNCHANGED <<project, archive, token, overtaken, unheard, brokerVars>>

-----------------------------------------------------------------------------
(* Archiving.                                                                *)

\* Archive, ClaimProjectArchive at the version that was read; the repository
\* is made read-only.
Archive(b) ==
    /\ archive[b] = "idle"
    /\ \/ project.status \in {"ready", "failed", "archive_failed"}
       \/ project.status = "archiving" /\ project.stale
    /\ project' = [project EXCEPT !.status = "archiving", !.by = b, !.stale = FALSE]
    /\ overtaken' = overtaken \cup {a \in Working : attempt[a] # "cleanup"}
    /\ \/ ArchiveStep(b, IF project.provider = "local" THEN "token" ELSE "leases")
          /\ UNCHANGED faults
       \/ Fault /\ ArchiveStep(b, "fail")
    /\ UNCHANGED <<attempt, token, unheard, brokerVars>>

\* Mutant: the token is deleted by the id in the row or not at all.
DeleteTokenById(b) ==
    /\ archive[b] = "token"
    /\ DeleteTokensByName({project.token}) /\ ArchiveStep(b, "complete")
    /\ UNCHANGED <<project, attempt, overtaken, unheard, brokerVars, faults>>

\* deleteRepositoryToken, or by name when the row has no token.
DeleteToken(b) ==
    /\ archive[b] = "token"
    /\ \/ /\ DeleteTokensByName(IF project.token = Nil THEN Attempts ELSE {project.token})
          /\ ArchiveStep(b, "complete") /\ UNCHANGED faults
       \/ Fault /\ ArchiveStep(b, "fail") /\ UNCHANGED token
    /\ UNCHANGED <<project, attempt, overtaken, unheard, brokerVars>>

\* revokeProjectTokenLeases.
RevokeProjectLeases(b) ==
    /\ archive[b] = "leases"
    /\ raced' = raced \cup UnderWay
    /\ \/ RevokeLeases(Active) /\ ArchiveStep(b, "complete") /\ UNCHANGED faults
       \/ RevokeSomeLeases(Active) /\ ArchiveStep(b, "fail")
    /\ UNCHANGED <<project, attempt, token, overtaken, unheard,
                   connection, broker, approval, call, ender>>

\* CompleteProjectArchive, FailProjectArchive.
EndArchive(b) ==
    LET ended == IF project.status = "archiving" /\ project.by = b
                 THEN [project EXCEPT !.by = Nil, !.stale = FALSE,
                         !.status = IF archive[b] = "fail" THEN "archive_failed" ELSE "archived",
                         !.token = IF archive[b] = "fail" THEN @ ELSE Nil]
                 ELSE project
    IN  /\ archive[b] \in {"complete", "fail"} /\ ArchiveStep(b, "done")
        /\ \/ project' = ended /\ UNCHANGED faults
           \/ Fault /\ UNCHANGED project
        /\ UNCHANGED <<attempt, token, overtaken, unheard, brokerVars>>

ArchiveCrashes(b) ==
    /\ b \in Archiving /\ Fault /\ ArchiveStep(b, "done")
    /\ UNCHANGED <<project, attempt, token, overtaken, unheard, brokerVars>>

ProjectNext ==
    \/ OperationGoesStale
    \/ \E a \in Attempts :
          \/ Create(a) \/ Retry(a) \/ PrepareRepository(a) \/ DeleteOldTokens(a)
          \/ CreateToken(a) \/ Initialize(a) \/ Complete(a) \/ Fail(a)
          \/ CleanUpToken(a) \/ AttemptCrashes(a)
    \/ \E b \in Archives : \/ Archive(b) \/ DeleteToken(b) \/ RevokeProjectLeases(b)
                           \/ EndArchive(b) \/ ArchiveCrashes(b)

Next == \/ ProjectNext
        \/ BrokerNext /\ UNCHANGED <<attempt, archive, token, overtaken, unheard>>
Spec == Init /\ [][Next]_vars

-----------------------------------------------------------------------------
(* service.go provisionLocalProject and Archive,                             *)
(* docs/runbooks/project-connectors.md: an archived project has no working   *)
(* repository token, whichever attempts failed, crashed or never heard the   *)
(* answer, but for one of an attempt that was still at work when another     *)
(* operation took the project over.                                          *)
ArchivedProjectsKeepNoToken ==
    project.status = "archived" =>
        \A a \in Attempts : token[a] = "live" => a \in overtaken

(* service.go Retry and provisionLocalProject, postgres.go, the attempt id:   *)
(* the token in the row of a ready local project works, also when a slow      *)
(* attempt comes back after another one completed the project, unless the     *)
(* attempt that completed it never heard so.                                  *)
ReadyProjectHasItsToken ==
    project.provider = "local" /\ project.status = "ready" =>
        token[project.token] = "live" \/ project.token \in unheard
=============================================================================
