---------------------------- MODULE SandboxBinder ----------------------------
(***************************************************************************)
(* The binding of one session to its sandbox (apps/sandbox-manager/        *)
(* internal/orchestrator).  The authoritative state is a handful of Redis  *)
(* keys; any replica may run any operation on them.  A step is one Redis   *)
(* command or script, or one call of the provider: everything that another *)
(* replica can observe or interrupt.  Any of them may fail, with or without *)
(* its effect.  The owner of a session does not change: the checks of the   *)
(* user id are left out.                                                    *)
(*                                                                         *)
(* Session Storage (the managed k3s mode) is not part of this module:      *)
(* Binder.storage and Binder.cap are nil.                                  *)
(***************************************************************************)
EXTENDS Integers

CONSTANTS
    Ops,        \* operations in progress
    Sandboxes,  \* sandbox ids the provider hands out
    Nil,        \* an absent Redis key
    Kinds       \* the operations the replicas run

AllKinds == {"acquire", "release", "reap", "drain", "heartbeat", "lookup"}

ASSUME NilAssumption == Nil \notin Ops \cup Sandboxes
ASSUME KindsAssumption == Kinds \subseteq AllKinds

VARIABLES
    conv,       \* cocola:sb:conv:{session}
    meta,       \* the sandboxes with a record cocola:sb:meta:{sandbox}
    lease,      \* the sandboxes with a key cocola:sb:lease:{sandbox}
    lock,       \* cocola:sb:lock:{session}: the operation whose token it holds
    box,        \* the provider's sandboxes
    op,         \* the operations
    stranded,   \* history: sandboxes whose creator crashed, never heard of them or
                \* could not destroy them
    raced       \* history: the lock did not keep the operations apart

keys == <<conv, meta, lease>>
redis == <<conv, meta, lease, lock>>
vars == <<redis, box, op, stranded, raced>>

-----------------------------------------------------------------------------
Box == {"unborn", "running", "broken", "gone"}

Pc == {"idle", "lock", "tryLock", "getConv", "getMeta", "dropConv", "health",
       "destroyBad", "unbindBad", "create", "bind", "cleanup",
       "recheckMeta", "recheckLease", "renew", "destroy", "unbind", "unlock",
       "done", "crashed"}

Maybe == Sandboxes \cup {Nil}

\* sb: the sandbox at hand.  winner: bind did not win and cleanup is followed by
\* the lookup of the winner.  result: what a successful Acquire returns.
OpRow == [kind : AllKinds, pc : Pc, sb : Maybe, winner : BOOLEAN, result : Maybe]
NewOp(kind, pc, s) == [kind |-> kind, pc |-> pc, sb |-> s, winner |-> FALSE,
                       result |-> Nil]
Idle == NewOp("acquire", "idle", Nil)

TypeOK ==
    /\ conv \in Maybe
    /\ meta \in SUBSET Sandboxes
    /\ lease \in SUBSET Sandboxes
    /\ lock \in Ops \cup {Nil}
    /\ box \in [Sandboxes -> Box]
    /\ op \in [Ops -> OpRow]
    /\ stranded \in SUBSET Sandboxes
    /\ raced \in BOOLEAN

Init ==
    /\ conv = Nil /\ meta = {} /\ lease = {} /\ lock = Nil
    /\ box = [s \in Sandboxes |-> "unborn"]
    /\ op = [o \in Ops |-> Idle]
    /\ stranded = {}
    /\ raced = FALSE

At(o, pc) == op[o].pc = pc
Is(o, kinds) == op[o].kind \in kinds
Goto(o, pc) == op' = [op EXCEPT ![o].pc = pc]
GotoWith(o, pc, s) == op' = [op EXCEPT ![o].pc = pc, ![o].sb = s]

\* An error, or the plain end of an operation, runs the deferred lock.release.
Leave(o) == Goto(o, IF Is(o, {"lookup"}) THEN "done" ELSE "unlock")

-----------------------------------------------------------------------------
(* Starting: which sandbox an operation is about, and how it locks *)

Start(o) ==
    /\ At(o, "idle")
    /\ \E k \in Kinds :
        \/ /\ k \in {"acquire", "release"}
           /\ op' = [op EXCEPT ![o] = NewOp(k, "lock", Nil)]
        \/ /\ k = "lookup"
           /\ op' = [op EXCEPT ![o] = NewOp(k, "getConv", Nil)]
        \/ /\ k \in {"reap", "drain", "heartbeat"}
           /\ \E s \in meta :
                /\ k = "reap" => s \notin lease
                /\ op' = [op EXCEPT ![o] = NewOp(k, IF k = "drain" THEN "lock" ELSE "tryLock", s)]
    /\ UNCHANGED <<redis, box, stranded>>

Locked(o) == IF Is(o, {"acquire", "release"}) THEN "getConv" ELSE "recheckMeta"

\* acquireLock spins until the key is free or its context ends.  An operation
\* that took the key and was told otherwise leaves it to the TTL.
AcquireLock(o) ==
    /\ At(o, "lock")
    /\ \/ lock = Nil /\ lock' = o /\ Goto(o, Locked(o))
       \/ lock = Nil /\ lock' = o /\ Goto(o, "crashed")
       \/ UNCHANGED lock /\ Goto(o, "done")
    /\ UNCHANGED <<conv, meta, lease, box, stranded>>

\* Mutant: contention is ignored.
TryLockIgnored(o) ==
    /\ At(o, "tryLock")
    /\ lock' = IF lock = Nil THEN o ELSE lock
    /\ Goto(o, Locked(o))
    /\ UNCHANGED <<conv, meta, lease, box, stranded>>

\* One attempt: on contention or an error the operation is given up.
TryLock(o) ==
    /\ At(o, "tryLock")
    /\ \/ lock = Nil /\ lock' = o /\ Goto(o, Locked(o))
       \/ lock = Nil /\ lock' = o /\ Goto(o, "crashed")
       \/ UNCHANGED lock /\ Goto(o, "done")
    /\ UNCHANGED <<conv, meta, lease, box, stranded>>

-----------------------------------------------------------------------------
(* lookup, shared by Acquire (twice) and LookupBinding; Release reads conv *)

NotBound(o) ==
    IF Is(o, {"acquire"}) /\ ~op[o].winner THEN Goto(o, "create") ELSE Leave(o)

GetConv(o) ==
    /\ At(o, "getConv")
    /\ \/ conv = Nil /\ NotBound(o)
       \/ /\ conv # Nil
          /\ GotoWith(o, IF Is(o, {"release"}) THEN "destroy" ELSE "getMeta", conv)
    /\ UNCHANGED <<redis, box, stranded>>

\* Mutant: a record whose lease has run out is taken for gone.
GetMetaLeased(o) ==
    /\ At(o, "getMeta")
    /\ Goto(o, IF op[o].sb \in meta \cap lease THEN "health" ELSE "dropConv")
    /\ UNCHANGED <<redis, box, stranded>>

GetMeta(o) ==
    /\ At(o, "getMeta")
    /\ Goto(o, IF op[o].sb \in meta THEN "health" ELSE "dropConv")
    /\ UNCHANGED <<redis, box, stranded>>

\* DEL of the forward key, whatever it holds by now; its error is ignored.
DropConv(o) ==
    /\ At(o, "dropConv")
    /\ conv' \in {conv, Nil}
    /\ NotBound(o)
    /\ UNCHANGED <<meta, lease, lock, box, stranded>>

\* A transitional sandbox, or a provider that cannot be asked, is an error.
Health(o) ==
    /\ At(o, "health")
    /\ \/ Leave(o)
       \/ /\ box[op[o].sb] = "running"
          /\ IF Is(o, {"lookup"}) THEN Leave(o) ELSE Goto(o, "renew")
       \/ box[op[o].sb] = "gone" /\ Goto(o, "unbindBad")
       \/ box[op[o].sb] = "broken" /\ Goto(o, "destroyBad")
    /\ UNCHANGED <<redis, box, stranded>>

DestroyBox(s) == box' = [box EXCEPT ![s] = "gone"]

DestroyBad(o) ==
    /\ At(o, "destroyBad")
    /\ \/ DestroyBox(op[o].sb) /\ Goto(o, "unbindBad")
       \/ (DestroyBox(op[o].sb) \/ UNCHANGED box) /\ Leave(o)
    /\ UNCHANGED <<redis, stranded>>

\* luaUnbind: the forward key goes only if it still names this sandbox.
UnbindScript(s) ==
    /\ conv' = IF conv = s THEN Nil ELSE conv
    /\ meta' = meta \ {s}
    /\ lease' = lease \ {s}

UnbindBad(o) ==
    /\ At(o, "unbindBad")
    /\ UnbindScript(op[o].sb)
    /\ NotBound(o) \/ Leave(o)
    /\ UNCHANGED <<lock, box, stranded>>

-----------------------------------------------------------------------------
(* Acquire: reuse, or create and bind *)

\* renewLease re-creates the key.  It ends Acquire and Heartbeat.
RenewLease(o) ==
    /\ At(o, "renew")
    /\ lease' = lease \cup {op[o].sb}
    /\ \/ Leave(o)
       \/ op' = [op EXCEPT ![o].pc = "unlock",
                           ![o].result = IF Is(o, {"acquire"}) THEN op[o].sb ELSE Nil]
    /\ UNCHANGED <<conv, meta, lock, box, stranded>>

Create(o) ==
    /\ At(o, "create")
    /\ \/ Leave(o) /\ UNCHANGED <<box, stranded>>
       \/ \E s \in Sandboxes :
            /\ box[s] = "unborn"
            /\ box' = [box EXCEPT ![s] = "running"]
            /\ \/ GotoWith(o, "bind", s) /\ UNCHANGED stranded
               \/ Leave(o) /\ stranded' = stranded \cup {s}
    /\ UNCHANGED redis

\* luaBind: the lock must still be this operation's and the session unbound.
BindScript(o, s) ==
    /\ lock = o /\ conv = Nil
    /\ conv' = s
    /\ meta' = meta \cup {s}
    /\ lease' = lease \cup {s}

BindLoses(o) == lock # o \/ conv # Nil

\* Mutant: the sandbox that lost is left running.
BindKeepsLoser(o) ==
    /\ At(o, "bind")
    /\ \/ /\ BindScript(o, op[o].sb)
          /\ op' = [op EXCEPT ![o].pc = "unlock", ![o].result = op[o].sb]
       \/ /\ BindLoses(o)
          /\ UNCHANGED <<conv, meta, lease>>
          /\ op' = [op EXCEPT ![o].pc = "getConv", ![o].winner = TRUE]
       \/ /\ UNCHANGED <<conv, meta, lease>>
          /\ Goto(o, "cleanup")
    /\ UNCHANGED <<lock, box, stranded>>

\* The script wins, or loses and the winner is looked up after the cleanup, or
\* the call fails, with or without its effect.
Bind(o) ==
    /\ At(o, "bind")
    /\ \/ /\ BindScript(o, op[o].sb)
          /\ \/ op' = [op EXCEPT ![o].pc = "unlock", ![o].result = op[o].sb]
             \/ Goto(o, "cleanup")
       \/ /\ BindLoses(o)
          /\ UNCHANGED <<conv, meta, lease>>
          /\ op' = [op EXCEPT ![o].pc = "cleanup", ![o].winner = TRUE]
       \/ /\ UNCHANGED <<conv, meta, lease>>
          /\ Goto(o, "cleanup")
    /\ UNCHANGED <<lock, box, stranded>>

\* cleanupCreatedSandbox with an empty session id: it destroys, it unbinds nothing.
Cleanup(o) ==
    /\ At(o, "cleanup")
    /\ \/ /\ DestroyBox(op[o].sb)
          /\ IF op[o].winner THEN GotoWith(o, "getConv", Nil) ELSE Leave(o)
          /\ UNCHANGED stranded
       \/ /\ Leave(o)
          /\ stranded' = stranded \cup {op[o].sb}
          /\ DestroyBox(op[o].sb) \/ UNCHANGED box
    /\ UNCHANGED redis

-----------------------------------------------------------------------------
(* Release, the reaper, Drain and Heartbeat *)

RecheckMeta(o) ==
    /\ At(o, "recheckMeta")
    /\ \/ op[o].sb \notin meta /\ Leave(o)
       \/ /\ op[o].sb \in meta
          /\ Goto(o, CASE Is(o, {"reap"})      -> "recheckLease"
                       [] Is(o, {"drain"})     -> "destroy"
                       [] Is(o, {"heartbeat"}) -> "renew")
    /\ UNCHANGED <<redis, box, stranded>>

\* Mutant: the lease is not read again under the lock.
RecheckLeaseNever(o) ==
    /\ At(o, "recheckLease")
    /\ Goto(o, "destroy")
    /\ UNCHANGED <<redis, box, stranded>>

RecheckLease(o) ==
    /\ At(o, "recheckLease")
    /\ IF op[o].sb \in lease THEN Leave(o) ELSE Goto(o, "destroy")
    /\ UNCHANGED <<redis, box, stranded>>

Destroy(o) ==
    /\ At(o, "destroy")
    /\ \/ DestroyBox(op[o].sb) /\ Goto(o, "unbind")
       \/ (DestroyBox(op[o].sb) \/ UNCHANGED box) /\ Leave(o)
    /\ UNCHANGED <<redis, stranded>>

Unbind(o) ==
    /\ At(o, "unbind")
    /\ UnbindScript(op[o].sb)
    /\ Leave(o)
    /\ UNCHANGED <<lock, box, stranded>>

\* luaUnlock: compare and delete.  A release that fails leaves the key to its TTL.
Unlock(o) ==
    /\ At(o, "unlock")
    /\ \/ lock' = (IF lock = o THEN Nil ELSE lock) /\ Goto(o, "done")
       \/ UNCHANGED lock /\ Goto(o, "crashed")
    /\ UNCHANGED <<conv, meta, lease, box, stranded>>

\* The caller has its answer; the record is free for another operation.
Retire(o) ==
    /\ At(o, "done")
    /\ op' = [op EXCEPT ![o] = Idle]
    /\ UNCHANGED <<redis, box, stranded>>

-----------------------------------------------------------------------------
(* The environment: TTLs, a replica that dies, a sandbox that fails *)

ExpireLease(s) ==
    /\ s \in lease
    /\ lease' = lease \ {s}
    /\ UNCHANGED <<conv, meta, lock, box, op, stranded>>

\* A command that reads fails, or one that writes fails without its effect.
FailCommand(o) ==
    /\ op[o].pc \in {"getConv", "getMeta", "unbindBad", "renew", "recheckMeta",
                     "recheckLease", "unbind"}
    /\ Leave(o)
    /\ UNCHANGED <<redis, box, stranded>>

\* Only the TTL frees a key whose holder died or lost its answer.
ExpireLock ==
    /\ lock # Nil
    /\ At(lock, "crashed")
    /\ lock' = Nil
    /\ UNCHANGED <<conv, meta, lease, box, op, stranded>>

\* The key is not renewed: it also runs out under an operation that takes longer.
OutliveLock ==
    /\ lock # Nil
    /\ ~At(lock, "crashed")
    /\ lock' = Nil
    /\ UNCHANGED <<conv, meta, lease, box, op, stranded>>

Crash(o) ==
    /\ op[o].pc \notin {"idle", "done", "crashed"}
    /\ Goto(o, "crashed")
    /\ stranded' = IF op[o].pc \in {"bind", "cleanup"}
                   THEN stranded \cup {op[o].sb} ELSE stranded
    /\ UNCHANGED <<redis, box>>

\* The lost operation is forgotten once its key has expired.
Bury(o) ==
    /\ At(o, "crashed")
    /\ lock # o
    /\ op' = [op EXCEPT ![o] = Idle]
    /\ UNCHANGED <<redis, box, stranded>>

FailBox(s) ==
    /\ box[s] = "running"
    /\ \E b \in {"broken", "gone"} : box' = [box EXCEPT ![s] = b]
    /\ UNCHANGED <<redis, op, stranded>>

-----------------------------------------------------------------------------
OpStep(o) ==
    \/ AcquireLock(o) \/ TryLock(o)
    \/ GetConv(o) \/ GetMeta(o) \/ DropConv(o)
    \/ Health(o) \/ DestroyBad(o) \/ UnbindBad(o)
    \/ RenewLease(o) \/ Create(o) \/ Bind(o) \/ Cleanup(o)
    \/ RecheckMeta(o) \/ RecheckLease(o) \/ Destroy(o) \/ Unbind(o)
    \/ Unlock(o)

Step ==
    \/ \E o \in Ops : Start(o) \/ OpStep(o) \/ Retire(o) \/ FailCommand(o)
                      \/ Crash(o) \/ Bury(o)
    \/ \E s \in Sandboxes : ExpireLease(s) \/ FailBox(s)
    \/ ExpireLock
    \/ OutliveLock

\* LookupBinding takes no lock, and lookup deletes the keys it finds dangling.
LookupDeletes ==
    \E o \in Ops : Is(o, {"lookup"}) /\ op'[o] # op[o] /\ keys' # keys

Next == Step /\ raced' = (raced \/ OutliveLock \/ LookupDeletes)

Spec == Init /\ [][Next]_vars

-----------------------------------------------------------------------------
(* Safety *)

\* The forward key never points at a sandbox without a record: the scripts write
\* and delete both, so lookup's cleanup of a dangling key meets only races.
ForwardKeyHasRecord == conv # Nil => conv \in meta

\* The session is bound to one sandbox: only the one the forward key names has a
\* record, so Acquire, the reaper and Drain speak of the same sandbox.
OneRecord == \A s \in meta : conv = s

\* It is so as long as no operation outlived its lock and no LookupBinding deleted
\* a key under the operation that held it.
OneBinding == ~raced => OneRecord

\* A successful Acquire cannot return a sandbox that Release, the reaper or Drain
\* has removed: what it returns is bound while it still has to unlock.
AcquireReturnsTheBinding ==
    ~raced => \A o \in Ops :
                  At(o, "unlock") /\ op[o].result # Nil => conv = op[o].result

\* A sandbox that runs is recorded, so that the reaper finds it, or an operation
\* is about to bind or destroy it; the losers of a race are destroyed.
RunningSandboxesAreAccountedFor ==
    \A s \in Sandboxes : box[s] \in {"running", "broken"} =>
        \/ s \in meta
        \/ s \in stranded
        \/ \E o \in Ops : op[o].pc \in {"bind", "cleanup"} /\ op[o].sb = s

\* The reaper destroys no sandbox whose lease a caller has renewed.
ReaperSparesLeased ==
    [][\A o \in Ops : ~raced /\ At(o, "destroy") /\ Is(o, {"reap"}) /\ box' # box
                        /\ op'[o] # op[o] => op[o].sb \notin lease]_vars

=============================================================================
