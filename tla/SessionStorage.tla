--------------------------- MODULE SessionStorage ---------------------------
(***************************************************************************)
(* The workspace of one session in the managed k3s mode (apps/sandbox-     *)
(* manager/internal/orchestrator): PostgreSQL names the volume claim that  *)
(* holds it, Kubernetes has the volumes, Redis binds the session to a      *)
(* sandbox that mounts one of them.  The three are written one after the   *)
(* other by Acquire, Release and the reaper; any call may fail, with or     *)
(* without its effect, and any replica may die at any step.                 *)
(*                                                                         *)
(* SandboxBinder has the Redis keys one by one.  Here they are the binding  *)
(* they amount to: the scripts write and delete them together, and a       *)
(* lookup is one step.                                                      *)
(***************************************************************************)
EXTENDS Integers

CONSTANTS
    Ops,        \* operations in progress
    Sandboxes,  \* sandbox ids the provider hands out
    Claims,     \* names of volume claims: a fresh one for every new workspace
    Nil         \* no sandbox, no claim, no holder

ASSUME NilAssumption == Nil \notin Ops \cup Sandboxes \cup Claims

VARIABLES
    row,        \* session_storage: the durable claim of the session
    life,       \* what became of each claim name
    volumes,    \* the volume claims that exist
    away,       \* the claims whose node cannot take a sandbox now
    bound,      \* the sandbox Redis binds the session to
    box,        \* the provider's sandboxes
    mount,      \* the claim each sandbox was created with
    lock,       \* cocola:sb:lock:{session}: the operation whose token it holds
    op,         \* the operations
    given,      \* history: the sandboxes Acquire answered with
    work,       \* history: the claims that hold work of the user
    disowned    \* history: the claims whose commit was reported as an error

storage == <<row, life, volumes, work, disowned>>
compute == <<bound, box, mount, given>>
vars == <<storage, away, compute, lock, op>>

-----------------------------------------------------------------------------
Kinds == {"acquire", "release", "reap"}

Pc == {"idle", "lock", "lookup", "unbindDead", "check", "destroyStale",
       "unbindStale", "discardStale", "select", "ensure", "create", "bind",
       "commit", "dropOld", "cleanup", "cleanupUnbind", "discard", "winner",
       "destroy", "unbind", "deleteVolume", "deleteRow", "unlock", "crashed"}

\* allow: AllowWorkspaceReset of the request.  stale: the claim of a sandbox that
\* does not match the row.  claim: the selected binding.  old: the binding that
\* claim is to replace (preparedReset).  bindLost: bind did not win.  bindDone:
\* the sandbox is bound, and cleanup unbinds it.  err: an error to be returned
\* after a cleanup.  reply: the sandbox Acquire returns.
OpRow == [kind : Kinds, pc : Pc, allow : BOOLEAN, sb : Sandboxes \cup {Nil},
          stale : Claims \cup {Nil}, claim : Claims \cup {Nil},
          old : Claims \cup {Nil}, bindLost : BOOLEAN, bindDone : BOOLEAN,
          err : BOOLEAN, reply : Sandboxes \cup {Nil}]

Idle == [kind |-> "reap", pc |-> "idle", allow |-> FALSE, sb |-> Nil,
         stale |-> Nil, claim |-> Nil, old |-> Nil, bindLost |-> FALSE,
         bindDone |-> FALSE, err |-> FALSE, reply |-> Nil]

TypeOK ==
    /\ row \in Claims \cup {Nil}
    /\ life \in [Claims -> {"unused", "prepared", "committed"}]
    /\ volumes \in SUBSET Claims
    /\ away \in SUBSET Claims
    /\ bound \in Sandboxes \cup {Nil}
    /\ box \in [Sandboxes -> {"unborn", "running", "gone"}]
    /\ mount \in [Sandboxes -> Claims \cup {Nil}]
    /\ lock \in Ops \cup {Nil}
    /\ op \in [Ops -> OpRow]
    /\ given \in SUBSET Sandboxes
    /\ work \in SUBSET Claims
    /\ disowned \in SUBSET Claims

Init ==
    /\ row = Nil /\ volumes = {} /\ away = {} /\ bound = Nil /\ lock = Nil
    /\ life = [c \in Claims |-> "unused"]
    /\ box = [s \in Sandboxes |-> "unborn"]
    /\ mount = [s \in Sandboxes |-> Nil]
    /\ op = [o \in Ops |-> Idle]
    /\ given = {} /\ work = {} /\ disowned = {}

At(o, pc) == op[o].pc = pc
Goto(o, pc) == op' = [op EXCEPT ![o].pc = pc]
GotoFailed(o, pc) == op' = [op EXCEPT ![o].pc = pc, ![o].err = TRUE]

\* Every return runs the deferred lock.release.
Leave(o) == Goto(o, "unlock")
Reply(o, s) == op' = [op EXCEPT ![o].pc = "unlock", ![o].reply = s]

Destroyed(s) == box' = [box EXCEPT ![s] = "gone"]
Unbound(s) == bound' = IF bound = s THEN Nil ELSE bound

-----------------------------------------------------------------------------
(* Starting, under the lock of the session *)

Start(o) ==
    /\ At(o, "idle")
    /\ \E k \in Kinds, a \in BOOLEAN :
        /\ a => k = "acquire"
        /\ op' = [op EXCEPT ![o] = [Idle EXCEPT !.kind = k, !.allow = a, !.pc = "lock"]]
    /\ UNCHANGED <<storage, away, compute, lock>>

AcquireLock(o) ==
    /\ At(o, "lock")
    /\ \/ /\ lock = Nil /\ lock' = o
          /\ Goto(o, IF op[o].kind = "acquire" THEN "lookup" ELSE "destroy")
       \/ UNCHANGED lock /\ op' = [op EXCEPT ![o] = Idle]
    /\ UNCHANGED <<storage, away, compute>>

-----------------------------------------------------------------------------
(* Acquire: the sandbox that is bound *)

NotBound(o) == IF op[o].bindLost THEN Leave(o) ELSE Goto(o, "select")

\* lookup: called once under the lock and, by an operation that did not win the
\* binding, once more.
Lookup(o) ==
    /\ At(o, "lookup")
    /\ \/ Leave(o)
       \/ bound = Nil /\ NotBound(o)
       \/ /\ bound # Nil
          /\ op' = [op EXCEPT ![o].sb = bound,
                ![o].pc = IF box[bound] = "gone" THEN "unbindDead"
                          ELSE IF op[o].bindLost THEN "winner" ELSE "check"]
    /\ UNCHANGED <<storage, away, compute, lock>>

\* The provider has lost the sandbox: the binding is dropped.
UnbindDead(o) ==
    /\ At(o, "unbindDead")
    /\ \/ Unbound(op[o].sb) /\ NotBound(o)
       \/ (Unbound(op[o].sb) \/ UNCHANGED bound) /\ Leave(o)
    /\ UNCHANGED <<storage, away, box, mount, given, lock>>

\* Mutant: a sandbox is reused whatever claim it mounts.
CheckReusableAnyClaim(o) ==
    /\ At(o, "check")
    /\ \/ Leave(o)
       \/ Reply(o, op[o].sb)
    /\ UNCHANGED <<storage, away, compute, lock>>

\* runningSandboxReusable: a sandbox is reused if it mounts the durable claim and
\* its node is there; one on another claim goes, with that claim; one on a node
\* that is not there goes if the user accepts a reset.
CheckReusable(o) ==
    LET s == op[o].sb IN
    /\ At(o, "check")
    /\ \/ Leave(o)
       \/ /\ mount[s] # row
          /\ op' = [op EXCEPT ![o].pc = "destroyStale", ![o].stale = mount[s]]
       \/ /\ mount[s] = row
          /\ \/ row \notin away /\ Reply(o, s)
             \/ row \in away /\ op[o].allow /\ Goto(o, "destroyStale")
    /\ UNCHANGED <<storage, away, compute, lock>>

DestroyStale(o) ==
    /\ At(o, "destroyStale")
    /\ \/ Destroyed(op[o].sb) /\ Goto(o, "unbindStale")
       \/ (Destroyed(op[o].sb) \/ UNCHANGED box) /\ Leave(o)
    /\ UNCHANGED <<storage, away, bound, mount, given, lock>>

\* A stale claim is discarded even when its sandbox could not be unbound.
UnbindStale(o) ==
    LET next == IF op[o].stale = Nil THEN "select" ELSE "discardStale" IN
    /\ At(o, "unbindStale")
    /\ \/ Unbound(op[o].sb) /\ Goto(o, next)
       \/ /\ Unbound(op[o].sb) \/ UNCHANGED bound
          /\ IF next = "select" THEN Leave(o) ELSE GotoFailed(o, next)
    /\ UNCHANGED <<storage, away, box, mount, given, lock>>

DiscardStale(o) ==
    /\ At(o, "discardStale")
    /\ \/ /\ volumes' = volumes \ {op[o].stale}
          /\ IF op[o].err THEN Leave(o) ELSE Goto(o, "select")
       \/ volumes' \in {volumes, volumes \ {op[o].stale}} /\ Leave(o)
    /\ UNCHANGED <<row, life, work, disowned, away, compute, lock>>

-----------------------------------------------------------------------------
(* Acquire: the volume a new sandbox is to mount *)

FreshClaims == {c \in Claims : life[c] = "unused"}

\* The session has a workspace on a node that can take it.
SelectRow(o) ==
    /\ row # Nil /\ row \notin away
    /\ op' = [op EXCEPT ![o].pc = "ensure", ![o].claim = row]
    /\ UNCHANGED <<row, life, volumes>>

\* Mutant: an unavailable node is reset without being asked to.
PrepareResetUnasked(o) ==
    /\ row # Nil /\ row \in away
    /\ \E c \in FreshClaims \ away :
        /\ life' = [life EXCEPT ![c] = "prepared"]
        /\ \/ /\ volumes' = volumes \cup {c}
              /\ op' = [op EXCEPT ![o].pc = "create", ![o].claim = c, ![o].old = row]
           \/ volumes' \in {volumes, volumes \cup {c}} /\ Leave(o)
    /\ UNCHANGED row

\* PrepareReset: a volume on another node; nothing durable changes.  A failure
\* after the volume was made leaves it behind.
PrepareReset(o) ==
    /\ row # Nil /\ row \in away /\ op[o].allow
    /\ \E c \in FreshClaims \ away :
        /\ life' = [life EXCEPT ![c] = "prepared"]
        /\ \/ /\ volumes' = volumes \cup {c}
              /\ op' = [op EXCEPT ![o].pc = "create", ![o].claim = c, ![o].old = row]
           \/ volumes' \in {volumes, volumes \cup {c}} /\ Leave(o)
    /\ UNCHANGED row

\* Create of the storage manager inserts the row before it makes the volume.
InsertRow(o) ==
    /\ row = Nil
    /\ \E c \in FreshClaims \ away :
        /\ row' = c
        /\ life' = [life EXCEPT ![c] = "committed"]
        /\ \/ op' = [op EXCEPT ![o].pc = "ensure", ![o].claim = c]
           \/ Leave(o)
    /\ UNCHANGED volumes

SelectVolume(o) ==
    /\ At(o, "select")
    /\ \/ SelectRow(o) \/ PrepareReset(o) \/ InsertRow(o)
       \/ Leave(o) /\ UNCHANGED <<row, life, volumes>>
    /\ UNCHANGED <<work, disowned, away, compute, lock>>

EnsurePVC(o) ==
    /\ At(o, "ensure")
    /\ \/ volumes' = volumes \cup {op[o].claim} /\ Goto(o, "create")
       \/ volumes' \in {volumes, volumes \cup {op[o].claim}} /\ Leave(o)
    /\ UNCHANGED <<row, life, work, disowned, away, compute, lock>>

-----------------------------------------------------------------------------
(* Acquire: create, bind, commit *)

\* A create that fails may have made a sandbox nobody knows.
Create(o) ==
    LET Failed == IF op[o].old = Nil THEN Leave(o) ELSE Goto(o, "discard") IN
    /\ At(o, "create")
    /\ \/ Failed /\ UNCHANGED <<box, mount>>
       \/ \E s \in Sandboxes :
            /\ box[s] = "unborn"
            /\ box' = [box EXCEPT ![s] = "running"]
            /\ mount' = [mount EXCEPT ![s] = op[o].claim]
            /\ op' = [op EXCEPT ![o].pc = "bind", ![o].sb = s] \/ Failed
    /\ UNCHANGED <<storage, away, bound, given, lock>>

\* luaBind.  A call that fails is cleaned up without touching the binding it may
\* have written.
Bind(o) ==
    LET s == op[o].sb
        wins == lock = o /\ bound = Nil IN
    /\ At(o, "bind")
    /\ \/ /\ wins /\ bound' = s
          /\ IF op[o].old = Nil THEN Reply(o, s)
             ELSE op' = [op EXCEPT ![o].pc = "commit", ![o].bindDone = TRUE]
       \/ /\ ~wins /\ UNCHANGED bound
          /\ op' = [op EXCEPT ![o].pc = "cleanup", ![o].bindLost = TRUE]
       \/ /\ UNCHANGED bound \/ (wins /\ bound' = s)
          /\ GotoFailed(o, "cleanup")
    /\ UNCHANGED <<storage, away, box, mount, given, lock>>

\* The user gave up the work on the old claim by allowing the reset.
CommitRow(o) ==
    /\ row = op[o].old
    /\ row' = op[o].claim
    /\ life' = [life EXCEPT ![op[o].claim] = "committed"]
    /\ work' = IF op[o].allow THEN work \ {op[o].old} ELSE work

\* CommitReset: the row moves on only from the binding that was read.
CommitReset(o) ==
    /\ At(o, "commit")
    /\ \/ CommitRow(o) /\ Goto(o, "dropOld") /\ UNCHANGED disowned
       \/ /\ CommitRow(o) /\ disowned' = disowned \cup {op[o].claim}
          /\ GotoFailed(o, "cleanup")
       \/ UNCHANGED <<row, life, work, disowned>> /\ GotoFailed(o, "cleanup")
    /\ UNCHANGED <<volumes, away, compute, lock>>

\* Its last step: the old volume, best effort.
DropOld(o) ==
    /\ At(o, "dropOld")
    /\ volumes' \in {volumes, volumes \ {op[o].old}}
    /\ Reply(o, op[o].sb)
    /\ UNCHANGED <<row, life, work, disowned, away, compute, lock>>

\* cleanupCreatedSandbox: a sandbox that cannot be destroyed keeps its binding and
\* its volume.
AfterDestroy(o) ==
    IF op[o].bindDone THEN "cleanupUnbind"
    ELSE IF op[o].old # Nil THEN "discard"
    ELSE IF op[o].bindLost THEN "lookup" ELSE "unlock"

Cleanup(o) ==
    /\ At(o, "cleanup")
    /\ \/ Destroyed(op[o].sb) /\ Goto(o, AfterDestroy(o))
       \/ (Destroyed(op[o].sb) \/ UNCHANGED box) /\ Leave(o)
    /\ UNCHANGED <<storage, away, bound, mount, given, lock>>

CleanupUnbind(o) ==
    /\ At(o, "cleanupUnbind")
    /\ Unbound(op[o].sb) \/ UNCHANGED bound
    /\ Goto(o, "discard")
    /\ UNCHANGED <<storage, away, box, mount, given, lock>>

\* DiscardReset deletes the volume of the prepared claim.
DiscardReset(o) ==
    /\ At(o, "discard")
    /\ \/ /\ volumes' = volumes \ {op[o].claim}
          /\ Goto(o, IF op[o].bindLost THEN "lookup" ELSE "unlock")
       \/ volumes' \in {volumes, volumes \ {op[o].claim}} /\ Leave(o)
    /\ UNCHANGED <<row, life, work, disowned, away, compute, lock>>

\* Mutant: the winner is answered with before its reset is committed.
CheckWinnerNever(o) ==
    /\ At(o, "winner")
    /\ Leave(o) \/ Reply(o, op[o].sb)
    /\ UNCHANGED <<storage, away, compute, lock>>

\* A loser answers with the winner if that mounts the durable claim.
CheckWinner(o) ==
    /\ At(o, "winner")
    /\ Leave(o) \/ (mount[op[o].sb] = row /\ Reply(o, op[o].sb))
    /\ UNCHANGED <<storage, away, compute, lock>>

-----------------------------------------------------------------------------
(* Release and the reaper (or Drain), which stops after the sandbox *)

Destroy(o) ==
    LET AfterUnbind == Goto(o, IF op[o].kind = "release" THEN "deleteVolume" ELSE "unlock") IN
    /\ At(o, "destroy")
    /\ \/ bound = Nil /\ AfterUnbind /\ UNCHANGED box
       \/ /\ bound # Nil /\ Destroyed(bound)
          /\ op' = [op EXCEPT ![o].pc = "unbind", ![o].sb = bound]
       \/ /\ UNCHANGED box \/ (bound # Nil /\ Destroyed(bound))
          /\ Leave(o)
    /\ UNCHANGED <<storage, away, bound, mount, given, lock>>

Unbind(o) ==
    /\ At(o, "unbind")
    /\ \/ /\ Unbound(op[o].sb)
          /\ Goto(o, IF op[o].kind = "release" THEN "deleteVolume" ELSE "unlock")
       \/ (Unbound(op[o].sb) \/ UNCHANGED bound) /\ Leave(o)
    /\ UNCHANGED <<storage, away, box, mount, given, lock>>

\* Delete of the storage manager: the volume, then the row that names it.
DeleteVolume(o) ==
    /\ At(o, "deleteVolume")
    /\ \/ row = Nil /\ Leave(o) /\ UNCHANGED <<volumes, work>>
       \/ /\ row # Nil
          /\ volumes' = volumes \ {row} /\ work' = work \ {row}
          /\ Goto(o, "deleteRow") \/ Leave(o)
       \/ Leave(o) /\ UNCHANGED <<volumes, work>>
    /\ UNCHANGED <<row, life, disowned, away, compute, lock>>

DeleteRow(o) ==
    /\ At(o, "deleteRow")
    /\ row' \in {Nil, row} /\ Leave(o)
    /\ UNCHANGED <<life, volumes, work, disowned, away, compute, lock>>

-----------------------------------------------------------------------------
(* The end of an operation, and what goes on around it *)

\* The lock is released only if it still holds the token; the answer follows.
\* A release that fails leaves the key to its TTL.
Unlock(o) ==
    /\ At(o, "unlock")
    /\ given' = IF op[o].reply = Nil THEN given ELSE given \cup {op[o].reply}
    /\ \/ lock' = (IF lock = o THEN Nil ELSE lock) /\ op' = [op EXCEPT ![o] = Idle]
       \/ UNCHANGED lock /\ op' = [op EXCEPT ![o] = [Idle EXCEPT !.pc = "crashed"]]
    /\ UNCHANGED <<storage, away, bound, box, mount>>

\* The replica dies.
Crash(o) ==
    /\ op[o].pc \notin {"idle", "lock", "crashed"}
    /\ op' = [op EXCEPT ![o] = [Idle EXCEPT !.pc = "crashed"]]
    /\ UNCHANGED <<storage, away, compute, lock>>

\* The lock of a dead operation runs out, and that of one that waits for an image
\* to be pulled; the other calls of an operation take no minutes.
ExpireLock(o) ==
    /\ lock = o /\ op[o].pc \in {"crashed", "create", "bind"}
    /\ lock' = Nil
    /\ UNCHANGED <<storage, away, compute, op>>

Bury(o) ==
    /\ At(o, "crashed") /\ lock # o
    /\ op' = [op EXCEPT ![o] = Idle]
    /\ UNCHANGED <<storage, away, compute, lock>>

\* A node goes, fills up, or comes back.
NodeChanges(c) ==
    /\ away' = IF c \in away THEN away \ {c} ELSE away \cup {c}
    /\ UNCHANGED <<storage, compute, lock, op>>

\* A turn leaves work in the workspace of a sandbox that Acquire answered with.
Turn(s) ==
    /\ s \in given /\ box[s] = "running" /\ mount[s] \in volumes
    /\ work' = work \cup {mount[s]}
    /\ UNCHANGED <<row, life, volumes, disowned, away, compute, lock, op>>

OpStep(o) ==
    \/ Start(o) \/ AcquireLock(o)
    \/ Lookup(o) \/ UnbindDead(o) \/ CheckReusable(o) \/ DestroyStale(o)
    \/ UnbindStale(o) \/ DiscardStale(o)
    \/ SelectVolume(o) \/ EnsurePVC(o) \/ Create(o) \/ Bind(o) \/ CommitReset(o)
    \/ DropOld(o) \/ Cleanup(o) \/ CleanupUnbind(o) \/ DiscardReset(o) \/ CheckWinner(o)
    \/ Destroy(o) \/ Unbind(o) \/ DeleteVolume(o) \/ DeleteRow(o)
    \/ Unlock(o) \/ Crash(o) \/ ExpireLock(o) \/ Bury(o)

Next ==
    \/ \E o \in Ops : OpStep(o)
    \/ \E c \in Claims : NodeChanges(c)
    \/ \E s \in Sandboxes : Turn(s)

Spec == Init /\ [][Next]_vars

-----------------------------------------------------------------------------
(* Properties *)

\* An Acquire that returns while it has the lock returns the bound, running
\* sandbox, and that mounts the claim PostgreSQL names, whose volume is there:
\* Redis may have outlived a reset that was never committed.  One that has lost
\* its lock returns no sandbox whose claim was never the durable one.
AcquireMountsTheDurableClaim ==
    \A o \in Ops : op[o].pc = "unlock" /\ op[o].reply # Nil =>
        LET s == op[o].reply IN
        /\ life[mount[s]] = "committed"
        /\ lock = o => /\ s = bound /\ box[s] = "running"
                       /\ mount[s] = row /\ row \in volumes

\* Work of the user stays in the workspace the session returns to.  Only a
\* Release ends it, or a reset the user has allowed: no failure or crash between
\* Kubernetes, Redis and PostgreSQL does, and no operation that was overtaken.
\* Excepted is a claim whose commit was not acknowledged: its creator deletes the
\* volume, although a request that it overtook may have answered with its sandbox.
WorkStays == work \ disowned \subseteq {row} \cap volumes

\* The same without that exception.
CommittedWorkStays == work \subseteq {row} \cap volumes
=============================================================================
