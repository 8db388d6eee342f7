------------------------ MODULE SessionStorageProofs ------------------------
(***************************************************************************)
(* Proofs about SessionStorage, for any sets of operations, sandboxes and  *)
(* claims, any failure of any call and any death of a replica.             *)
(***************************************************************************)
EXTENDS SessionStorage, TLAPS

-----------------------------------------------------------------------------
(* The inductive invariant, in parts.                                        *)

\* The places at which an operation has the lock of the session.
Exclusive == {"check", "destroyStale", "unbindStale", "discardStale", "select",
              "ensure", "commit", "dropOld", "cleanupUnbind", "destroy", "unbind",
              "deleteVolume", "deleteRow"}

\* Who has the lock, and what the flags of an operation say about where it has been.
LockInv == \A o \in Ops :
    LET me == op[o] IN
    /\ me.pc \in Exclusive => lock = o
    /\ me.bindDone =>
          /\ lock = o /\ me.old # Nil
          /\ me.pc \in {"commit", "dropOld", "cleanup", "cleanupUnbind", "discard", "unlock"}
    /\ me.pc \in {"commit", "dropOld", "cleanupUnbind"} => me.bindDone
    /\ me.pc \in {"idle", "lock"} => lock # o /\ ~me.bindLost
    /\ me.bindLost => lock # o
    /\ me.pc \in {"lookup", "unbindDead"} =>
          me.bindLost \/ (lock = o /\ me.stale = Nil /\ me.old = Nil)
    /\ me.pc = "winner" => me.bindLost
    /\ me.pc \in {"lock", "check"} => me.stale = Nil
    /\ me.pc \in {"lock", "check", "destroyStale", "unbindStale", "discardStale", "select",
                  "ensure"} => me.old = Nil
    /\ me.pc = "discard" => me.old # Nil
    /\ me.reply # Nil => me.pc = "unlock"

\* A fresh claim and a sandbox that is not born are nowhere.
NameInv ==
    /\ row # Nil => life[row] = "committed"
    /\ volumes \subseteq {c \in Claims : life[c] # "unused"}
    /\ \A s \in Sandboxes :
          /\ mount[s] # Nil => life[mount[s]] # "unused"
          /\ box[s] = "unborn" <=> mount[s] = Nil
    /\ bound # Nil => box[bound] # "unborn"
    /\ \A s \in given : box[s] # "unborn"
    /\ \A o \in Ops :
          /\ op[o].claim # Nil => life[op[o].claim] # "unused"
          /\ op[o].stale # Nil => life[op[o].stale] # "unused"
          /\ op[o].sb # Nil => box[op[o].sb] # "unborn"
          /\ op[o].reply # Nil => box[op[o].reply] # "unborn"

\* Two operations never prepare the same claim or make the same sandbox.
PairInv ==
    /\ \A o1, o2 \in Ops : o1 # o2 /\ op[o1].old # Nil /\ op[o2].old # Nil
          => op[o1].claim # op[o2].claim
    /\ \A o1, o2 \in Ops : o1 # o2 /\ op[o1].pc = "bind"
          => op[o1].sb # op[o2].sb /\ op[o1].sb # op[o2].reply
    /\ \A o1, o2 \in Ops :
          o1 # o2 /\ op[o1].pc \in {"bind", "cleanup"} /\ op[o2].pc \in {"bind", "cleanup"}
          => op[o1].sb # op[o2].sb

\* What an operation knows with or without the lock: its claim and its sandbox are its
\* own until it has bound them, and a prepared claim that it gives up was never
\* committed, or was and it did not hear so.
OwnInv == \A o \in Ops :
    LET me == op[o] IN
    /\ me.pc \in {"create", "bind"} => me.claim # Nil
    /\ me.old # Nil => me.allow /\ me.claim # Nil
    /\ me.pc \in {"create", "bind", "commit"} /\ me.old # Nil => life[me.claim] = "prepared"
    /\ me.pc \in {"cleanup", "cleanupUnbind", "discard"} /\ me.old # Nil =>
          life[me.claim] = "prepared" \/ (me.bindDone /\ me.claim \in disowned)
    /\ me.pc \in {"create", "bind"} /\ me.old = Nil => life[me.claim] = "committed"
    /\ me.pc = "bind" => me.sb # bound /\ me.sb \notin given /\ mount[me.sb] = me.claim
    /\ me.pc \in {"bind", "cleanup"} => me.sb # Nil
    /\ me.pc = "cleanup" /\ lock # o => me.sb # bound
    /\ me.pc = "winner" => me.sb # Nil /\ (box[me.sb] = "running" => me.sb = bound)
    /\ me.pc = "unbindDead" => me.sb # Nil /\ box[me.sb] = "gone"

\* What the holder of the lock has read or written is still so.
HolderInv == \A o \in Ops : lock = o =>
    LET me == op[o] IN
    /\ me.pc = "check" => me.sb # Nil /\ bound = me.sb /\ box[bound] = "running"
    /\ me.pc \in {"destroyStale", "unbindStale", "discardStale"} =>
          me.sb # Nil /\ (me.stale # Nil => me.stale # row)
    /\ me.pc \in {"unbindDead", "destroyStale", "cleanup"} => bound \in {me.sb, Nil}
    /\ me.pc = "unbindStale" => box[me.sb] = "gone" /\ bound \in {me.sb, Nil}
    /\ me.pc = "discardStale" /\ ~me.err => bound = Nil
    /\ me.pc \in {"select", "ensure", "create", "bind"} => bound = Nil
    /\ me.pc = "ensure" => me.claim = row /\ me.claim # Nil /\ me.old = Nil
    /\ me.pc \in {"create", "bind"} /\ me.old = Nil => me.claim = row /\ row \in volumes
    /\ me.pc \in {"create", "bind", "commit"} /\ me.old # Nil =>
          me.old = row /\ me.claim \in volumes
    /\ me.pc = "bind" => box[me.sb] = "running"
    /\ me.pc \in {"commit", "dropOld"} =>
          /\ me.sb # Nil /\ bound = me.sb /\ box[me.sb] = "running"
          /\ mount[me.sb] = me.claim /\ me.claim \in volumes
    /\ me.pc = "dropOld" => row = me.claim /\ me.old # row
    /\ me.pc \in {"cleanupUnbind", "unbind"} =>
          me.sb # Nil /\ box[me.sb] = "gone" /\ bound \in {me.sb, Nil}
    /\ me.pc = "discard" /\ bound # Nil => box[bound] = "gone"
    /\ me.pc \in {"deleteVolume", "deleteRow"} => bound = Nil
    /\ me.pc = "deleteRow" => work \subseteq disowned

\* A sandbox that was or will be answered with, and still runs, is the bound one on the
\* durable claim: so a turn works there and nowhere else.
Served == given \cup ({op[o].reply : o \in Ops} \ {Nil})

UseInv ==
    /\ \A s \in Served : box[s] = "running" => s = bound /\ mount[s] = row
    /\ bound # Nil /\ box[bound] = "running" /\ mount[bound] = row => row \in volumes
    /\ WorkStays
    /\ AcquireMountsTheDurableClaim

StorageInv == TypeOK /\ LockInv /\ NameInv /\ PairInv /\ OwnInv /\ HolderInv /\ UseInv

-----------------------------------------------------------------------------
(* The ways in which SelectVolume ends, with the fresh claim c.              *)

RowTaken(o) ==
    /\ row # Nil /\ UNCHANGED <<row, life, volumes>>
    /\ op' = [op EXCEPT ![o].pc = "ensure", ![o].claim = row]

ResetBegun(o, c) ==
    /\ row # Nil /\ op[o].allow /\ row' = row
    /\ life[c] = "unused" /\ life' = [life EXCEPT ![c] = "prepared"]

ResetPrepared(o, c) ==
    /\ ResetBegun(o, c) /\ volumes' = volumes \cup {c}
    /\ op' = [op EXCEPT ![o].pc = "create", ![o].claim = c, ![o].old = row]

RowInserted(o, c) ==
    /\ row = Nil /\ row' = c /\ volumes' = volumes
    /\ life[c] = "unused" /\ life' = [life EXCEPT ![c] = "committed"]

LEMMA SelectVolumeEffect ==
    ASSUME NEW o \in Ops, SelectVolume(o)
    PROVE  /\ At(o, "select") /\ UNCHANGED <<work, disowned, away, compute, lock>>
           /\ \/ Leave(o) /\ UNCHANGED <<row, life, volumes>>
              \/ RowTaken(o)
              \/ \E c \in Claims :
                    \/ ResetBegun(o, c) /\ volumes' = volumes /\ Leave(o)
                    \/ ResetBegun(o, c) /\ volumes' = volumes \cup {c} /\ Leave(o)
                    \/ ResetPrepared(o, c)
                    \/ RowInserted(o, c) /\ Leave(o)
                    \/ /\ RowInserted(o, c)
                       /\ op' = [op EXCEPT ![o].pc = "ensure", ![o].claim = c]
  <1>1. At(o, "select") /\ UNCHANGED <<work, disowned, away, compute, lock>>
    BY DEF SelectVolume
  <1>2. CASE SelectRow(o)
    BY <1>1, <1>2 DEF SelectRow, RowTaken
  <1>3. CASE PrepareReset(o)
    <2>1. PICK c \in Claims :
            /\ ResetBegun(o, c)
            /\ \/ ResetPrepared(o, c)
               \/ volumes' \in {volumes, volumes \cup {c}} /\ Leave(o)
      BY <1>3 DEF PrepareReset, FreshClaims, ResetBegun, ResetPrepared
    <2> QED BY <1>1, <2>1
  <1>4. CASE InsertRow(o)
    <2>1. PICK c \in Claims :
            /\ RowInserted(o, c)
            /\ \/ op' = [op EXCEPT ![o].pc = "ensure", ![o].claim = c]
               \/ Leave(o)
      BY <1>4 DEF InsertRow, FreshClaims, RowInserted
    <2> QED BY <1>1, <2>1
  <1> QED BY <1>1, <1>2, <1>3, <1>4 DEF SelectVolume

-----------------------------------------------------------------------------
(* Types.  That a volume is made for a claim, and not for Nil, rests on the  *)
(* other parts.                                                              *)

LEMMA IdleType == Idle \in OpRow
  BY DEF Idle, OpRow, Pc, Kinds

LEMMA ReplyType ==
    ASSUME op \in [Ops -> OpRow], NEW o \in Ops, NEW s \in Sandboxes \cup {Nil}, Reply(o, s)
    PROVE  op' \in [Ops -> OpRow]
  <1>1. [op[o] EXCEPT !.pc = "unlock", !.reply = s] \in OpRow
    <2>1. op[o] \in OpRow /\ "unlock" \in Pc
      BY DEF Pc
    <2> QED BY <2>1 DEF OpRow
  <1>2. op' = [op EXCEPT ![o] = [op[o] EXCEPT !.pc = "unlock", !.reply = s]]
    BY DEF Reply
  <1> QED BY <1>1, <1>2

LEMMA LeaveType ==
    ASSUME op \in [Ops -> OpRow], NEW o \in Ops, Leave(o)
    PROVE  op' \in [Ops -> OpRow]
  BY DEF Leave, Goto, OpRow, Pc

LEMMA GotoType ==
    ASSUME op \in [Ops -> OpRow], NEW o \in Ops, NEW pc \in Pc, Goto(o, pc)
    PROVE  op' \in [Ops -> OpRow]
  <1>1. [op[o] EXCEPT !.pc = pc] \in OpRow
    <2>1. op[o] \in OpRow
      OBVIOUS
    <2> QED BY <2>1 DEF OpRow
  <1>2. op' = [op EXCEPT ![o] = [op[o] EXCEPT !.pc = pc]]
    BY DEF Goto
  <1> QED BY <1>1, <1>2

LEMMA SelectedType ==
    ASSUME op \in [Ops -> OpRow], NEW o \in Ops, NEW pc \in Pc,
           NEW c \in Claims \cup {Nil}, NEW old \in Claims \cup {Nil},
           \/ op' = [op EXCEPT ![o].pc = pc, ![o].claim = c]
           \/ op' = [op EXCEPT ![o].pc = pc, ![o].claim = c, ![o].old = old]
    PROVE  op' \in [Ops -> OpRow]
  <1>1. PICK r \in OpRow : r = op[o]
    OBVIOUS
  <1>2. CASE op' = [op EXCEPT ![o].pc = pc, ![o].claim = c]
    <2>1. [r EXCEPT !.pc = pc, !.claim = c] \in OpRow
      BY DEF OpRow
    <2>2. op' = [op EXCEPT ![o] = [r EXCEPT !.pc = pc, !.claim = c]]
      BY <1>1, <1>2
    <2> QED BY <2>1, <2>2
  <1>3. CASE op' = [op EXCEPT ![o].pc = pc, ![o].claim = c, ![o].old = old]
    <2>1. [r EXCEPT !.pc = pc, !.claim = c, !.old = old] \in OpRow
      BY DEF OpRow
    <2>2. op' = [op EXCEPT ![o] = [r EXCEPT !.pc = pc, !.claim = c, !.old = old]]
      BY <1>1, <1>3
    <2> QED BY <2>1, <2>2
  <1> QED BY <1>2, <1>3

LEMMA SelectVolumeType ==
    ASSUME TypeOK, NEW o \in Ops, SelectVolume(o)
    PROVE  TypeOK'
  <1>1. op \in [Ops -> OpRow] /\ row \in Claims \cup {Nil} /\ {"ensure", "create"} \subseteq Pc
    BY DEF TypeOK, Pc
  <1>2. op' \in [Ops -> OpRow]
    <2>1. CASE Leave(o)
      BY <1>1, <2>1, LeaveType
    <2>2. CASE RowTaken(o)
      BY <1>1, <2>2, SelectedType DEF RowTaken
    <2>3. ASSUME NEW c \in Claims, ResetPrepared(o, c) PROVE op' \in [Ops -> OpRow]
      BY <1>1, <2>3, SelectedType DEF ResetPrepared
    <2>4. ASSUME NEW c \in Claims, op' = [op EXCEPT ![o].pc = "ensure", ![o].claim = c]
          PROVE  op' \in [Ops -> OpRow]
      BY <1>1, <2>4, SelectedType
    <2> QED BY <2>1, <2>2, <2>3, <2>4, SelectVolumeEffect
  <1>3. /\ row' \in Claims \cup {Nil} /\ volumes' \in SUBSET Claims
        /\ life' \in [Claims -> {"unused", "prepared", "committed"}]
    BY SelectVolumeEffect DEF TypeOK, RowTaken, ResetBegun, ResetPrepared, RowInserted
  <1> QED BY <1>2, <1>3, SelectVolumeEffect DEF TypeOK, compute

LEMMA TypeStep == TypeOK /\ LockInv /\ OwnInv /\ HolderInv /\ [Next]_vars => TypeOK'
  <1> SUFFICES ASSUME TypeOK, LockInv, OwnInv, HolderInv, [Next]_vars PROVE TypeOK'
    OBVIOUS
  <1> USE DEF TypeOK, At, Goto, GotoFailed, Leave, Reply, NotBound, Destroyed, Unbound,
              storage, compute
  <1>1. ASSUME NEW o \in Ops, Start(o) PROVE TypeOK'
    <2>1. PICK k \in Kinds, a \in BOOLEAN :
              op' = [op EXCEPT ![o] = [Idle EXCEPT !.kind = k, !.allow = a, !.pc = "lock"]]
      BY <1>1 DEF Start
    <2>2. [Idle EXCEPT !.kind = k, !.allow = a, !.pc = "lock"] \in OpRow
      BY IdleType DEF OpRow, Pc
    <2>3. op' \in [Ops -> OpRow]
      BY <2>1, <2>2
    <2> QED BY <1>1, <2>3 DEF Start
  <1>2. ASSUME NEW o \in Ops, AcquireLock(o) PROVE TypeOK'
    <2>1. CASE op' = [op EXCEPT ![o] = Idle]
      BY <1>2, <2>1, IdleType DEF AcquireLock
    <2>2. CASE Goto(o, IF op[o].kind = "acquire" THEN "lookup" ELSE "destroy")
      <3>1. op' \in [Ops -> OpRow]
        BY <2>2 DEF OpRow, Pc
      <3> QED BY <1>2, <3>1 DEF AcquireLock
    <2> QED BY <1>2, <2>1, <2>2 DEF AcquireLock
  <1>3. ASSUME NEW o \in Ops, Lookup(o) PROVE TypeOK'
    BY <1>3, IdleType DEF Lookup, OpRow, Pc
  <1>4. ASSUME NEW o \in Ops, UnbindDead(o) PROVE TypeOK'
    BY <1>4, IdleType DEF UnbindDead, OpRow, Pc
  <1>5. ASSUME NEW o \in Ops, CheckReusable(o) PROVE TypeOK'
    BY <1>5, IdleType DEF CheckReusable, OpRow, Pc
  <1>6. ASSUME NEW o \in Ops, DestroyStale(o) PROVE TypeOK'
    BY <1>6, IdleType DEF DestroyStale, OpRow, Pc
  <1>7. ASSUME NEW o \in Ops, UnbindStale(o) PROVE TypeOK'
    BY <1>7, IdleType DEF UnbindStale, OpRow, Pc
  <1>8. ASSUME NEW o \in Ops, DiscardStale(o) PROVE TypeOK'
    BY <1>8, IdleType DEF DiscardStale, OpRow, Pc
  <1>9. ASSUME NEW o \in Ops, SelectVolume(o) PROVE TypeOK'
    BY <1>9, SelectVolumeType
  <1>10. ASSUME NEW o \in Ops, EnsurePVC(o) PROVE TypeOK'
    <2>1. op[o].claim \in Claims
      BY <1>10, NilAssumption DEF EnsurePVC, LockInv, HolderInv, Exclusive, OpRow
    <2>2. op' \in [Ops -> OpRow]
      BY <1>10 DEF EnsurePVC, OpRow, Pc
    <2> QED BY <1>10, <2>1, <2>2 DEF EnsurePVC
  <1>11. ASSUME NEW o \in Ops, Create(o) PROVE TypeOK'
    BY <1>11, IdleType DEF Create, OpRow, Pc
  <1>12. ASSUME NEW o \in Ops, Bind(o) PROVE TypeOK'
    BY <1>12, IdleType DEF Bind, OpRow, Pc
  <1>13. ASSUME NEW o \in Ops, CommitReset(o) PROVE TypeOK'
    <2>1. op[o].claim \in Claims
      BY <1>13, NilAssumption DEF CommitReset, LockInv, OwnInv, OpRow
    <2>2. op' \in [Ops -> OpRow]
      BY <1>13 DEF CommitReset, OpRow, Pc
    <2> QED BY <1>13, <2>1, <2>2 DEF CommitReset, CommitRow
  <1>14. ASSUME NEW o \in Ops, DropOld(o) PROVE TypeOK'
    <2>1. op[o].sb \in Sandboxes \cup {Nil}
      BY DEF OpRow
    <2>2. op' \in [Ops -> OpRow]
      BY <1>14, <2>1, ReplyType DEF DropOld
    <2> QED BY <1>14, <2>2 DEF DropOld
  <1>15. ASSUME NEW o \in Ops, Cleanup(o) PROVE TypeOK'
    <2>1. PICK pc \in Pc : Goto(o, pc)
      BY <1>15 DEF Cleanup, AfterDestroy, Pc
    <2>2. op' \in [Ops -> OpRow]
      BY <2>1, GotoType
    <2>3. box' \in [Sandboxes -> {"unborn", "running", "gone"}]
      BY <1>15 DEF Cleanup
    <2> QED BY <1>15, <2>2, <2>3 DEF Cleanup
  <1>16. ASSUME NEW o \in Ops, CleanupUnbind(o) PROVE TypeOK'
    <2>1. op' \in [Ops -> OpRow]
      BY <1>16, GotoType DEF CleanupUnbind, Pc
    <2> QED BY <1>16, <2>1 DEF CleanupUnbind
  <1>17. ASSUME NEW o \in Ops, DiscardReset(o) PROVE TypeOK'
    <2>1. PICK pc \in Pc : Goto(o, pc)
      BY <1>17 DEF DiscardReset, Pc
    <2>2. op' \in [Ops -> OpRow]
      BY <2>1, GotoType
    <2> QED BY <1>17, <2>2 DEF DiscardReset
  <1>18. ASSUME NEW o \in Ops, CheckWinner(o) PROVE TypeOK'
    BY <1>18, IdleType DEF CheckWinner, OpRow, Pc
  <1>19. ASSUME NEW o \in Ops, Destroy(o) PROVE TypeOK'
    BY <1>19, IdleType DEF Destroy, OpRow, Pc
  <1>20. ASSUME NEW o \in Ops, Unbind(o) PROVE TypeOK'
    BY <1>20, IdleType DEF Unbind, OpRow, Pc
  <1>21. ASSUME NEW o \in Ops, DeleteVolume(o) PROVE TypeOK'
    BY <1>21, IdleType DEF DeleteVolume, OpRow, Pc
  <1>22. ASSUME NEW o \in Ops, DeleteRow(o) PROVE TypeOK'
    <2>1. op' \in [Ops -> OpRow]
      BY <1>22, LeaveType DEF DeleteRow
    <2> QED BY <1>22, <2>1 DEF DeleteRow
  <1>23. ASSUME NEW o \in Ops, Unlock(o) PROVE TypeOK'
    <2>1. [Idle EXCEPT !.pc = "crashed"] \in OpRow
      BY IdleType DEF OpRow, Pc
    <2>2. op' \in [Ops -> OpRow]
      BY <1>23, <2>1, IdleType DEF Unlock
    <2>3. op[o].reply \in Sandboxes \cup {Nil}
      BY DEF OpRow
    <2> QED BY <1>23, <2>2, <2>3 DEF Unlock
  <1>24. ASSUME NEW o \in Ops, Crash(o) PROVE TypeOK'
    BY <1>24, IdleType DEF Crash, OpRow, Pc
  <1>25. ASSUME NEW o \in Ops, ExpireLock(o) PROVE TypeOK'
    BY <1>25, IdleType DEF ExpireLock, OpRow, Pc
  <1>26. ASSUME NEW o \in Ops, Bury(o) PROVE TypeOK'
    BY <1>26, IdleType DEF Bury, OpRow, Pc
  <1>27. ASSUME NEW c \in Claims, NodeChanges(c) PROVE TypeOK'
    BY <1>27 DEF NodeChanges
  <1>28. ASSUME NEW s \in Sandboxes, Turn(s) PROVE TypeOK'
    BY <1>28, NilAssumption DEF Turn
  <1>29. CASE UNCHANGED vars
    BY <1>29 DEF vars
  <1> QED BY <1>1, <1>2, <1>3, <1>4, <1>5, <1>6, <1>7, <1>8, <1>9, <1>10, <1>11, <1>12, <1>13,
             <1>14, <1>15, <1>16, <1>17, <1>18, <1>19, <1>20, <1>21, <1>22, <1>23, <1>24,
             <1>25, <1>26, <1>27, <1>28, <1>29
          DEF Next, OpStep

-----------------------------------------------------------------------------
(* The lock.                                                                 *)

LEMMA LockStep == TypeOK /\ LockInv /\ [Next]_vars => LockInv'
  <1> SUFFICES ASSUME TypeOK, LockInv, [Next]_vars PROVE LockInv'
    OBVIOUS
  <1> USE NilAssumption DEF TypeOK, OpRow, Idle, LockInv, Exclusive, At, Goto, GotoFailed,
                            Leave, Reply, NotBound, Destroyed, Unbound, storage, compute
  <1>1. ASSUME NEW o \in Ops, Start(o) PROVE LockInv'
    BY <1>1 DEF Start
  <1>2. ASSUME NEW o \in Ops, AcquireLock(o) PROVE LockInv'
    <2>1. CASE lock = Nil /\ lock' = o
      <3>1. PICK pc \in {"lookup", "destroy"} : op' = [op EXCEPT ![o].pc = pc]
        BY <1>2, <2>1 DEF AcquireLock
      <3>2. At(o, "lock") /\ (\A p \in Ops : lock # p) /\ op'[o] = [op[o] EXCEPT !.pc = pc]
        BY <1>2, <2>1, <3>1 DEF AcquireLock
      <3>3. \A p \in Ops \ {o} : op'[p] = op[p]
        BY <3>1
      <3> QED BY <2>1, <3>2, <3>3
    <2>2. CASE op' = [op EXCEPT ![o] = Idle]
      BY <1>2, <2>2 DEF AcquireLock
    <2> QED BY <1>2, <2>1, <2>2 DEF AcquireLock
  <1>3. ASSUME NEW o \in Ops, Lookup(o) PROVE LockInv'
    BY <1>3 DEF Lookup
  <1>4. ASSUME NEW o \in Ops, UnbindDead(o) PROVE LockInv'
    BY <1>4 DEF UnbindDead
  <1>5. ASSUME NEW o \in Ops, CheckReusable(o) PROVE LockInv'
    BY <1>5 DEF CheckReusable
  <1>6. ASSUME NEW o \in Ops, DestroyStale(o) PROVE LockInv'
    BY <1>6 DEF DestroyStale
  <1>7. ASSUME NEW o \in Ops, UnbindStale(o) PROVE LockInv'
    BY <1>7 DEF UnbindStale
  <1>8. ASSUME NEW o \in Ops, DiscardStale(o) PROVE LockInv'
    <2>1. CASE Leave(o)
      BY <1>8, <2>1 DEF DiscardStale
    <2>2. CASE ~Leave(o)
      BY <1>8, <2>2 DEF DiscardStale
    <2> QED BY <1>8, <2>1, <2>2 DEF DiscardStale
  <1>9. ASSUME NEW o \in Ops, SelectVolume(o) PROVE LockInv'
    <2>0. At(o, "select") /\ UNCHANGED <<work, disowned, away, compute, lock>>
      BY <1>9, SelectVolumeEffect
    <2>1. CASE Leave(o) /\ UNCHANGED <<row, life, volumes>>
      BY <2>0, <2>1
    <2>2. CASE RowTaken(o)
      BY <2>0, <2>2 DEF RowTaken
    <2>3. ASSUME NEW c \in Claims, ResetBegun(o, c), volumes' = volumes, Leave(o)
          PROVE  LockInv'
      BY <2>0, <2>3 DEF ResetBegun
    <2>4. ASSUME NEW c \in Claims, ResetBegun(o, c), volumes' = volumes \cup {c}, Leave(o)
          PROVE  LockInv'
      BY <2>0, <2>4 DEF ResetBegun
    <2>5. ASSUME NEW c \in Claims, ResetPrepared(o, c) PROVE LockInv'
      BY <2>0, <2>5 DEF ResetPrepared, ResetBegun
    <2>6. ASSUME NEW c \in Claims, RowInserted(o, c), Leave(o) PROVE LockInv'
      BY <2>0, <2>6 DEF RowInserted
    <2>7. ASSUME NEW c \in Claims, RowInserted(o, c),
                 op' = [op EXCEPT ![o].pc = "ensure", ![o].claim = c]
          PROVE  LockInv'
      BY <2>0, <2>7 DEF RowInserted
    <2> QED BY <1>9, <2>1, <2>2, <2>3, <2>4, <2>5, <2>6, <2>7, SelectVolumeEffect
  <1>10. ASSUME NEW o \in Ops, EnsurePVC(o) PROVE LockInv'
    BY <1>10 DEF EnsurePVC
  <1>11. ASSUME NEW o \in Ops, Create(o) PROVE LockInv'
    BY <1>11 DEF Create
  <1>12. ASSUME NEW o \in Ops, Bind(o) PROVE LockInv'
    BY <1>12 DEF Bind
  <1>13. ASSUME NEW o \in Ops, CommitReset(o) PROVE LockInv'
    BY <1>13 DEF CommitReset, CommitRow
  <1>14. ASSUME NEW o \in Ops, DropOld(o) PROVE LockInv'
    BY <1>14 DEF DropOld
  <1>15. ASSUME NEW o \in Ops, Cleanup(o) PROVE LockInv'
    BY <1>15 DEF Cleanup, AfterDestroy
  <1>16. ASSUME NEW o \in Ops, CleanupUnbind(o) PROVE LockInv'
    BY <1>16 DEF CleanupUnbind
  <1>17. ASSUME NEW o \in Ops, DiscardReset(o) PROVE LockInv'
    BY <1>17 DEF DiscardReset
  <1>18. ASSUME NEW o \in Ops, CheckWinner(o) PROVE LockInv'
    BY <1>18 DEF CheckWinner
  <1>19. ASSUME NEW o \in Ops, Destroy(o) PROVE LockInv'
    BY <1>19 DEF Destroy
  <1>20. ASSUME NEW o \in Ops, Unbind(o) PROVE LockInv'
    BY <1>20 DEF Unbind
  <1>21. ASSUME NEW o \in Ops, DeleteVolume(o) PROVE LockInv'
    BY <1>21 DEF DeleteVolume
  <1>22. ASSUME NEW o \in Ops, DeleteRow(o) PROVE LockInv'
    BY <1>22 DEF DeleteRow
  <1>23. ASSUME NEW o \in Ops, Unlock(o) PROVE LockInv'
    BY <1>23 DEF Unlock
  <1>24. ASSUME NEW o \in Ops, Crash(o) PROVE LockInv'
    BY <1>24 DEF Crash
  <1>25. ASSUME NEW o \in Ops, ExpireLock(o) PROVE LockInv'
    BY <1>25 DEF ExpireLock
  <1>26. ASSUME NEW o \in Ops, Bury(o) PROVE LockInv'
    BY <1>26 DEF Bury
  <1>27. ASSUME NEW c \in Claims, NodeChanges(c) PROVE LockInv'
    BY <1>27 DEF NodeChanges
  <1>28. ASSUME NEW s \in Sandboxes, Turn(s) PROVE LockInv'
    BY <1>28 DEF Turn
  <1>29. CASE UNCHANGED vars
    BY <1>29 DEF vars
  <1> QED BY <1>1, <1>2, <1>3, <1>4, <1>5, <1>6, <1>7, <1>8, <1>9, <1>10, <1>11, <1>12, <1>13,
             <1>14, <1>15, <1>16, <1>17, <1>18, <1>19, <1>20, <1>21, <1>22, <1>23, <1>24,
             <1>25, <1>26, <1>27, <1>28, <1>29
          DEF Next, OpStep

-----------------------------------------------------------------------------
(* Names.                                                                    *)

LEMMA NameStep == TypeOK /\ LockInv /\ OwnInv /\ HolderInv /\ NameInv /\ [Next]_vars =>
                  NameInv'
  <1> SUFFICES ASSUME TypeOK, LockInv, OwnInv, HolderInv, NameInv, [Next]_vars PROVE NameInv'
    OBVIOUS
  <1> USE NilAssumption DEF TypeOK, OpRow, Idle, NameInv, At, Goto, GotoFailed, Leave, Reply,
                            NotBound, Destroyed, Unbound, storage, compute
  <1>1. ASSUME NEW o \in Ops, Start(o) PROVE NameInv'
    BY <1>1 DEF Start
  <1>2. ASSUME NEW o \in Ops, AcquireLock(o) PROVE NameInv'
    BY <1>2 DEF AcquireLock
  <1>3. ASSUME NEW o \in Ops, Lookup(o) PROVE NameInv'
    BY <1>3 DEF Lookup
  <1>4. ASSUME NEW o \in Ops, UnbindDead(o) PROVE NameInv'
    BY <1>4 DEF UnbindDead
  <1>5. ASSUME NEW o \in Ops, CheckReusable(o) PROVE NameInv'
    BY <1>5 DEF CheckReusable
  <1>6. ASSUME NEW o \in Ops, DestroyStale(o) PROVE NameInv'
    BY <1>6 DEF DestroyStale
  <1>7. ASSUME NEW o \in Ops, UnbindStale(o) PROVE NameInv'
    BY <1>7 DEF UnbindStale
  <1>8. ASSUME NEW o \in Ops, DiscardStale(o) PROVE NameInv'
    BY <1>8 DEF DiscardStale
  <1>9. ASSUME NEW o \in Ops, SelectVolume(o) PROVE NameInv'
    <2>0. At(o, "select") /\ UNCHANGED <<work, disowned, away, compute, lock>>
      BY <1>9, SelectVolumeEffect
    <2>1. CASE Leave(o) /\ UNCHANGED <<row, life, volumes>>
      BY <2>0, <2>1
    <2>2. CASE RowTaken(o)
      BY <2>0, <2>2 DEF RowTaken
    <2>3. ASSUME NEW c \in Claims, ResetBegun(o, c), volumes' = volumes, Leave(o)
          PROVE  NameInv'
      BY <2>0, <2>3 DEF ResetBegun
    <2>4. ASSUME NEW c \in Claims, ResetBegun(o, c), volumes' = volumes \cup {c}, Leave(o)
          PROVE  NameInv'
      BY <2>0, <2>4 DEF ResetBegun
    <2>5. ASSUME NEW c \in Claims, ResetPrepared(o, c) PROVE NameInv'
      BY <2>0, <2>5 DEF ResetPrepared, ResetBegun
    <2>6. ASSUME NEW c \in Claims, RowInserted(o, c), Leave(o) PROVE NameInv'
      BY <2>0, <2>6 DEF RowInserted
    <2>7. ASSUME NEW c \in Claims, RowInserted(o, c),
                 op' = [op EXCEPT ![o].pc = "ensure", ![o].claim = c]
          PROVE  NameInv'
      BY <2>0, <2>7 DEF RowInserted
    <2> QED BY <1>9, <2>1, <2>2, <2>3, <2>4, <2>5, <2>6, <2>7, SelectVolumeEffect
  <1>10. ASSUME NEW o \in Ops, EnsurePVC(o) PROVE NameInv'
    <2>1. op[o].claim \in Claims /\ life[op[o].claim] = "committed"
      BY <1>10 DEF EnsurePVC, LockInv, HolderInv, Exclusive
    <2> QED BY <1>10, <2>1 DEF EnsurePVC
  <1>11. ASSUME NEW o \in Ops, Create(o) PROVE NameInv'
    <2>0. UNCHANGED <<storage, bound, given>>
      BY <1>11 DEF Create
    <2>1. CASE UNCHANGED <<box, mount>>
      <3>1. PICK pc \in {"unlock", "discard"} : op' = [op EXCEPT ![o].pc = pc]
        BY <1>11, <2>1 DEF Create
      <3> QED BY <2>0, <2>1, <3>1
    <2>2. CASE ~UNCHANGED <<box, mount>>
      <3>1. PICK s \in Sandboxes, pc \in {"bind", "unlock", "discard"} :
              /\ box[s] = "unborn"
              /\ box' = [box EXCEPT ![s] = "running"]
              /\ mount' = [mount EXCEPT ![s] = op[o].claim]
              /\ \/ op' = [op EXCEPT ![o].pc = pc, ![o].sb = s]
                 \/ op' = [op EXCEPT ![o].pc = pc]
        BY <1>11, <2>2 DEF Create
      <3>2. op[o].claim # Nil
        BY <1>11 DEF Create, OwnInv
      <3>3. CASE op' = [op EXCEPT ![o].pc = pc, ![o].sb = s]
        BY <2>0, <3>1, <3>2, <3>3
      <3>4. CASE op' = [op EXCEPT ![o].pc = pc]
        BY <2>0, <3>1, <3>2, <3>4
      <3> QED BY <3>1, <3>3, <3>4
    <2> QED BY <2>1, <2>2
  <1>12. ASSUME NEW o \in Ops, Bind(o) PROVE NameInv'
    BY <1>12 DEF Bind
  <1>13. ASSUME NEW o \in Ops, CommitReset(o) PROVE NameInv'
    BY <1>13 DEF CommitReset, CommitRow
  <1>14. ASSUME NEW o \in Ops, DropOld(o) PROVE NameInv'
    BY <1>14 DEF DropOld
  <1>15. ASSUME NEW o \in Ops, Cleanup(o) PROVE NameInv'
    BY <1>15 DEF Cleanup, AfterDestroy
  <1>16. ASSUME NEW o \in Ops, CleanupUnbind(o) PROVE NameInv'
    BY <1>16 DEF CleanupUnbind
  <1>17. ASSUME NEW o \in Ops, DiscardReset(o) PROVE NameInv'
    BY <1>17 DEF DiscardReset
  <1>18. ASSUME NEW o \in Ops, CheckWinner(o) PROVE NameInv'
    BY <1>18 DEF CheckWinner
  <1>19. ASSUME NEW o \in Ops, Destroy(o) PROVE NameInv'
    <2>1. box' = box \/ (bound # Nil /\ Destroyed(bound))
      BY <1>19 DEF Destroy
    <2>2. \E pc : \/ op' = [op EXCEPT ![o].pc = pc, ![o].sb = bound]
                  \/ op' = [op EXCEPT ![o].pc = pc]
      BY <1>19 DEF Destroy
    <2>3. UNCHANGED <<storage, bound, mount, given>>
      BY <1>19 DEF Destroy
    <2> QED BY <2>1, <2>2, <2>3
  <1>20. ASSUME NEW o \in Ops, Unbind(o) PROVE NameInv'
    BY <1>20 DEF Unbind
  <1>21. ASSUME NEW o \in Ops, DeleteVolume(o) PROVE NameInv'
    BY <1>21 DEF DeleteVolume
  <1>22. ASSUME NEW o \in Ops, DeleteRow(o) PROVE NameInv'
    BY <1>22 DEF DeleteRow
  <1>23. ASSUME NEW o \in Ops, Unlock(o) PROVE NameInv'
    BY <1>23 DEF Unlock
  <1>24. ASSUME NEW o \in Ops, Crash(o) PROVE NameInv'
    BY <1>24 DEF Crash
  <1>25. ASSUME NEW o \in Ops, ExpireLock(o) PROVE NameInv'
    BY <1>25 DEF ExpireLock
  <1>26. ASSUME NEW o \in Ops, Bury(o) PROVE NameInv'
    BY <1>26 DEF Bury
  <1>27. ASSUME NEW c \in Claims, NodeChanges(c) PROVE NameInv'
    BY <1>27 DEF NodeChanges
  <1>28. ASSUME NEW s \in Sandboxes, Turn(s) PROVE NameInv'
    BY <1>28 DEF Turn
  <1>29. CASE UNCHANGED vars
    BY <1>29 DEF vars
  <1> QED BY <1>1, <1>2, <1>3, <1>4, <1>5, <1>6, <1>7, <1>8, <1>9, <1>10, <1>11, <1>12, <1>13,
             <1>14, <1>15, <1>16, <1>17, <1>18, <1>19, <1>20, <1>21, <1>22, <1>23, <1>24,
             <1>25, <1>26, <1>27, <1>28, <1>29
          DEF Next, OpStep

-----------------------------------------------------------------------------
(* Two operations.                                                           *)

\* A step that prepares no claim and makes no sandbox hands on at most the bound
\* sandbox, which is nobody's new one.
HandsOn(o) ==
    /\ \A p \in Ops \ {o} : op'[p] = op[p]
    /\ op'[o].old = Nil \/ (op'[o].old = op[o].old /\ op'[o].claim = op[o].claim)
    /\ op'[o].pc = "bind" => op[o].pc = "bind" /\ op'[o].sb = op[o].sb
    /\ op'[o].pc = "cleanup" => op[o].pc \in {"bind", "cleanup"} /\ op'[o].sb = op[o].sb
    /\ op'[o].sb \in {Nil, op[o].sb, bound}
    /\ op'[o].reply \in {Nil, op[o].reply, op[o].sb}

LEMMA PairsKept ==
    ASSUME PairInv, OwnInv, LockInv, NEW o \in Ops, HandsOn(o)
    PROVE  PairInv'
  <1>1. \A p \in Ops : op[p].pc = "bind" => op[p].sb # Nil /\ op[p].sb # bound
                                           /\ op[p].reply = Nil
    BY DEF OwnInv, LockInv
  <1>2. \A o1, o2 \in Ops :
            o1 # o2 /\ op'[o1].old # Nil /\ op'[o2].old # Nil => op'[o1].claim # op'[o2].claim
    BY DEF PairInv, HandsOn
  <1>3. \A o1, o2 \in Ops : o1 # o2 /\ op'[o1].pc = "bind"
            => op'[o1].sb # op'[o2].sb /\ op'[o1].sb # op'[o2].reply
    BY <1>1 DEF PairInv, HandsOn
  <1>4. \A o1, o2 \in Ops :
            o1 # o2 /\ op'[o1].pc \in {"bind", "cleanup"} /\ op'[o2].pc \in {"bind", "cleanup"}
            => op'[o1].sb # op'[o2].sb
    BY DEF PairInv, HandsOn
  <1> QED BY <1>2, <1>3, <1>4 DEF PairInv

LEMMA PairStep == TypeOK /\ LockInv /\ NameInv /\ PairInv /\ OwnInv /\ HolderInv /\
                  [Next]_vars => PairInv'
  <1> SUFFICES ASSUME TypeOK, LockInv, NameInv, PairInv, OwnInv, HolderInv, [Next]_vars PROVE
                      PairInv'
    OBVIOUS
  <1> USE NilAssumption DEF TypeOK, OpRow, Idle, PairInv, OwnInv, LockInv, NameInv, HolderInv,
                            Exclusive, At, Goto, GotoFailed, Leave, Reply, NotBound,
                            Destroyed, Unbound, storage, compute
  <1>1. ASSUME NEW o \in Ops, Start(o) PROVE PairInv'
    <2>1. HandsOn(o)
      BY <1>1 DEF Start, HandsOn
    <2> QED BY <2>1, PairsKept
  <1>2. ASSUME NEW o \in Ops, AcquireLock(o) PROVE PairInv'
    <2>1. HandsOn(o)
      BY <1>2 DEF AcquireLock, HandsOn
    <2> QED BY <2>1, PairsKept
  <1>3. ASSUME NEW o \in Ops, Lookup(o) PROVE PairInv'
    <2>1. HandsOn(o)
      BY <1>3 DEF Lookup, HandsOn
    <2> QED BY <2>1, PairsKept
  <1>4. ASSUME NEW o \in Ops, UnbindDead(o) PROVE PairInv'
    <2>1. HandsOn(o)
      BY <1>4 DEF UnbindDead, HandsOn
    <2> QED BY <2>1, PairsKept
  <1>5. ASSUME NEW o \in Ops, CheckReusable(o) PROVE PairInv'
    <2>1. HandsOn(o)
      BY <1>5 DEF CheckReusable, HandsOn
    <2> QED BY <2>1, PairsKept
  <1>6. ASSUME NEW o \in Ops, DestroyStale(o) PROVE PairInv'
    <2>1. HandsOn(o)
      BY <1>6 DEF DestroyStale, HandsOn
    <2> QED BY <2>1, PairsKept
  <1>7. ASSUME NEW o \in Ops, UnbindStale(o) PROVE PairInv'
    <2>1. HandsOn(o)
      BY <1>7 DEF UnbindStale, HandsOn
    <2> QED BY <2>1, PairsKept
  <1>8. ASSUME NEW o \in Ops, DiscardStale(o) PROVE PairInv'
    <2>1. HandsOn(o)
      BY <1>8 DEF DiscardStale, HandsOn
    <2> QED BY <2>1, PairsKept
  <1>9. ASSUME NEW o \in Ops, SelectVolume(o) PROVE PairInv'
    <2>0. At(o, "select") /\ UNCHANGED <<work, disowned, away, compute, lock>>
      BY <1>9, SelectVolumeEffect
    <2>1. CASE Leave(o) /\ UNCHANGED <<row, life, volumes>>
      BY <2>0, <2>1
    <2>2. CASE RowTaken(o)
      BY <2>0, <2>2 DEF RowTaken
    <2>3. ASSUME NEW c \in Claims, ResetBegun(o, c), volumes' = volumes, Leave(o)
          PROVE  PairInv'
      BY <2>0, <2>3 DEF ResetBegun
    <2>4. ASSUME NEW c \in Claims, ResetBegun(o, c), volumes' = volumes \cup {c}, Leave(o)
          PROVE  PairInv'
      BY <2>0, <2>4 DEF ResetBegun
    <2>5. ASSUME NEW c \in Claims, ResetPrepared(o, c) PROVE PairInv'
      BY <2>0, <2>5 DEF ResetPrepared, ResetBegun
    <2>6. ASSUME NEW c \in Claims, RowInserted(o, c), Leave(o) PROVE PairInv'
      BY <2>0, <2>6 DEF RowInserted
    <2>7. ASSUME NEW c \in Claims, RowInserted(o, c),
                 op' = [op EXCEPT ![o].pc = "ensure", ![o].claim = c]
          PROVE  PairInv'
      BY <2>0, <2>7 DEF RowInserted
    <2> QED BY <1>9, <2>1, <2>2, <2>3, <2>4, <2>5, <2>6, <2>7, SelectVolumeEffect
  <1>10. ASSUME NEW o \in Ops, EnsurePVC(o) PROVE PairInv'
    BY <1>10 DEF EnsurePVC
  <1>11. ASSUME NEW o \in Ops, Create(o) PROVE PairInv'
    <2>1. CASE HandsOn(o)
      BY <2>1, PairsKept
    <2>2. CASE ~HandsOn(o)
      <3>1. At(o, "create") /\ op[o].claim # Nil
        BY <1>11 DEF Create
      <3>2. PICK s \in Sandboxes :
              box[s] = "unborn" /\ op' = [op EXCEPT ![o].pc = "bind", ![o].sb = s]
        <4>1. op \in [Ops -> OpRow]
          OBVIOUS
        <4> HIDE DEF PairInv, LockInv, NameInv, OwnInv, HolderInv, TypeOK
        <4> QED BY <1>11, <2>2, <4>1 DEF Create, HandsOn
      <3> QED BY <3>1, <3>2
    <2> QED BY <2>1, <2>2
  <1>12. ASSUME NEW o \in Ops, Bind(o) PROVE PairInv'
    <2>1. HandsOn(o)
      BY <1>12 DEF Bind, HandsOn
    <2> QED BY <2>1, PairsKept
  <1>13. ASSUME NEW o \in Ops, CommitReset(o) PROVE PairInv'
    BY <1>13 DEF CommitReset, CommitRow
  <1>14. ASSUME NEW o \in Ops, DropOld(o) PROVE PairInv'
    <2>1. HandsOn(o)
      BY <1>14 DEF DropOld, HandsOn
    <2> QED BY <2>1, PairsKept
  <1>15. ASSUME NEW o \in Ops, Cleanup(o) PROVE PairInv'
    <2>1. HandsOn(o)
      BY <1>15 DEF Cleanup, AfterDestroy, HandsOn
    <2> QED BY <2>1, PairsKept
  <1>16. ASSUME NEW o \in Ops, CleanupUnbind(o) PROVE PairInv'
    <2>1. HandsOn(o)
      BY <1>16 DEF CleanupUnbind, HandsOn
    <2> QED BY <2>1, PairsKept
  <1>17. ASSUME NEW o \in Ops, DiscardReset(o) PROVE PairInv'
    <2>1. HandsOn(o)
      BY <1>17 DEF DiscardReset, HandsOn
    <2> QED BY <2>1, PairsKept
  <1>18. ASSUME NEW o \in Ops, CheckWinner(o) PROVE PairInv'
    <2>1. HandsOn(o)
      BY <1>18 DEF CheckWinner, HandsOn
    <2> QED BY <2>1, PairsKept
  <1>19. ASSUME NEW o \in Ops, Destroy(o) PROVE PairInv'
    <2>1. HandsOn(o)
      BY <1>19 DEF Destroy, HandsOn
    <2> QED BY <2>1, PairsKept
  <1>20. ASSUME NEW o \in Ops, Unbind(o) PROVE PairInv'
    <2>1. HandsOn(o)
      BY <1>20 DEF Unbind, HandsOn
    <2> QED BY <2>1, PairsKept
  <1>21. ASSUME NEW o \in Ops, DeleteVolume(o) PROVE PairInv'
    <2>1. HandsOn(o)
      BY <1>21 DEF DeleteVolume, HandsOn
    <2> QED BY <2>1, PairsKept
  <1>22. ASSUME NEW o \in Ops, DeleteRow(o) PROVE PairInv'
    <2>1. HandsOn(o)
      BY <1>22 DEF DeleteRow, HandsOn
    <2> QED BY <2>1, PairsKept
  <1>23. ASSUME NEW o \in Ops, Unlock(o) PROVE PairInv'
    <2>1. HandsOn(o)
      BY <1>23 DEF Unlock, HandsOn
    <2> QED BY <2>1, PairsKept
  <1>24. ASSUME NEW o \in Ops, Crash(o) PROVE PairInv'
    <2>1. HandsOn(o)
      BY <1>24 DEF Crash, HandsOn
    <2> QED BY <2>1, PairsKept
  <1>25. ASSUME NEW o \in Ops, ExpireLock(o) PROVE PairInv'
    BY <1>25 DEF ExpireLock
  <1>26. ASSUME NEW o \in Ops, Bury(o) PROVE PairInv'
    <2>1. HandsOn(o)
      BY <1>26 DEF Bury, HandsOn
    <2> QED BY <2>1, PairsKept
  <1>27. ASSUME NEW c \in Claims, NodeChanges(c) PROVE PairInv'
    BY <1>27 DEF NodeChanges
  <1>28. ASSUME NEW s \in Sandboxes, Turn(s) PROVE PairInv'
    BY <1>28 DEF Turn
  <1>29. CASE UNCHANGED vars
    BY <1>29 DEF vars
  <1> QED BY <1>1, <1>2, <1>3, <1>4, <1>5, <1>6, <1>7, <1>8, <1>9, <1>10, <1>11, <1>12, <1>13,
             <1>14, <1>15, <1>16, <1>17, <1>18, <1>19, <1>20, <1>21, <1>22, <1>23, <1>24,
             <1>25, <1>26, <1>27, <1>28, <1>29
          DEF Next, OpStep

-----------------------------------------------------------------------------
(* One operation, with or without the lock.                                  *)

LEMMA OwnStep == TypeOK /\ LockInv /\ NameInv /\ PairInv /\ OwnInv /\ HolderInv /\ [Next]_vars
                 => OwnInv'
  <1> SUFFICES ASSUME TypeOK, LockInv, NameInv, PairInv, OwnInv, HolderInv, [Next]_vars PROVE
                      OwnInv'
    OBVIOUS
  <1> USE NilAssumption DEF TypeOK, OpRow, Idle, PairInv, OwnInv, LockInv, NameInv, HolderInv,
                            Exclusive, At, Goto, GotoFailed, Leave, Reply, NotBound,
                            Destroyed, Unbound, storage, compute
  <1>1. ASSUME NEW o \in Ops, Start(o) PROVE OwnInv'
    BY <1>1 DEF Start
  <1>2. ASSUME NEW o \in Ops, AcquireLock(o) PROVE OwnInv'
    BY <1>2 DEF AcquireLock
  <1>3. ASSUME NEW o \in Ops, Lookup(o) PROVE OwnInv'
    BY <1>3 DEF Lookup
  <1>4. ASSUME NEW o \in Ops, UnbindDead(o) PROVE OwnInv'
    <2>1. CASE Leave(o)
      BY <1>4, <2>1 DEF UnbindDead
    <2>2. CASE Goto(o, "select")
      BY <1>4, <2>2 DEF UnbindDead
    <2>3. CASE op[o].bindLost /\ ~Leave(o)
      BY <1>4, <2>3 DEF UnbindDead
    <2> QED BY <1>4, <2>1, <2>2, <2>3 DEF UnbindDead
  <1>5. ASSUME NEW o \in Ops, CheckReusable(o) PROVE OwnInv'
    BY <1>5 DEF CheckReusable
  <1>6. ASSUME NEW o \in Ops, DestroyStale(o) PROVE OwnInv'
    BY <1>6 DEF DestroyStale
  <1>7. ASSUME NEW o \in Ops, UnbindStale(o) PROVE OwnInv'
    BY <1>7 DEF UnbindStale
  <1>8. ASSUME NEW o \in Ops, DiscardStale(o) PROVE OwnInv'
    BY <1>8 DEF DiscardStale
  <1>9. ASSUME NEW o \in Ops, SelectVolume(o) PROVE OwnInv'
    <2>0. At(o, "select") /\ UNCHANGED <<work, disowned, away, compute, lock>>
      BY <1>9, SelectVolumeEffect
    <2>1. CASE Leave(o) /\ UNCHANGED <<row, life, volumes>>
      BY <2>0, <2>1
    <2>2. CASE RowTaken(o)
      BY <2>0, <2>2 DEF RowTaken
    <2>3. ASSUME NEW c \in Claims, ResetBegun(o, c), volumes' = volumes, Leave(o)
          PROVE  OwnInv'
      BY <2>0, <2>3 DEF ResetBegun
    <2>4. ASSUME NEW c \in Claims, ResetBegun(o, c), volumes' = volumes \cup {c}, Leave(o)
          PROVE  OwnInv'
      BY <2>0, <2>4 DEF ResetBegun
    <2>5. ASSUME NEW c \in Claims, ResetPrepared(o, c) PROVE OwnInv'
      BY <2>0, <2>5 DEF ResetPrepared, ResetBegun
    <2>6. ASSUME NEW c \in Claims, RowInserted(o, c), Leave(o) PROVE OwnInv'
      BY <2>0, <2>6 DEF RowInserted
    <2>7. ASSUME NEW c \in Claims, RowInserted(o, c),
                 op' = [op EXCEPT ![o].pc = "ensure", ![o].claim = c]
          PROVE  OwnInv'
      BY <2>0, <2>7 DEF RowInserted
    <2> QED BY <1>9, <2>1, <2>2, <2>3, <2>4, <2>5, <2>6, <2>7, SelectVolumeEffect
  <1>10. ASSUME NEW o \in Ops, EnsurePVC(o) PROVE OwnInv'
    BY <1>10 DEF EnsurePVC
  <1>11. ASSUME NEW o \in Ops, Create(o) PROVE OwnInv'
    <2>1. /\ UNCHANGED <<storage, away, bound, given, lock>> /\ At(o, "create")
          /\ \A x \in Ops \ {o} : op'[x] = op[x]
      BY <1>11 DEF Create
    <2>2. UNCHANGED <<box, mount>> \/ \E s \in Sandboxes :
              /\ box[s] = "unborn" /\ box' = [box EXCEPT ![s] = "running"]
              /\ mount' = [mount EXCEPT ![s] = op[o].claim]
      BY <1>11 DEF Create
    <2>3. \A s \in Sandboxes : box[s] # "unborn" => box'[s] = box[s] /\ mount'[s] = mount[s]
      BY <2>2
    <2>4. \A x \in Ops \ {o} : op[x].sb # Nil => box'[op[x].sb] = box[op[x].sb]
                                                /\ mount'[op[x].sb] = mount[op[x].sb]
      BY <2>3
    <2>5. CASE \E pc \in {"unlock", "discard"} : Goto(o, pc)
      BY <2>1, <2>4, <2>5
    <2>6. CASE \E s \in Sandboxes :
                  /\ box[s] = "unborn" /\ mount' = [mount EXCEPT ![s] = op[o].claim]
                  /\ op' = [op EXCEPT ![o].pc = "bind", ![o].sb = s]
      BY <2>1, <2>4, <2>6
    <2> QED BY <1>11, <2>5, <2>6 DEF Create
  <1>12. ASSUME NEW o \in Ops, Bind(o) PROVE OwnInv'
    BY <1>12 DEF Bind
  <1>13. ASSUME NEW o \in Ops, CommitReset(o) PROVE OwnInv'
    BY <1>13 DEF CommitReset, CommitRow
  <1>14. ASSUME NEW o \in Ops, DropOld(o) PROVE OwnInv'
    BY <1>14 DEF DropOld
  <1>15. ASSUME NEW o \in Ops, Cleanup(o) PROVE OwnInv'
    BY <1>15 DEF Cleanup, AfterDestroy
  <1>16. ASSUME NEW o \in Ops, CleanupUnbind(o) PROVE OwnInv'
    BY <1>16 DEF CleanupUnbind
  <1>17. ASSUME NEW o \in Ops, DiscardReset(o) PROVE OwnInv'
    BY <1>17 DEF DiscardReset
  <1>18. ASSUME NEW o \in Ops, CheckWinner(o) PROVE OwnInv'
    BY <1>18 DEF CheckWinner
  <1>19. ASSUME NEW o \in Ops, Destroy(o) PROVE OwnInv'
    BY <1>19 DEF Destroy
  <1>20. ASSUME NEW o \in Ops, Unbind(o) PROVE OwnInv'
    BY <1>20 DEF Unbind
  <1>21. ASSUME NEW o \in Ops, DeleteVolume(o) PROVE OwnInv'
    BY <1>21 DEF DeleteVolume
  <1>22. ASSUME NEW o \in Ops, DeleteRow(o) PROVE OwnInv'
    BY <1>22 DEF DeleteRow
  <1>23. ASSUME NEW o \in Ops, Unlock(o) PROVE OwnInv'
    <2>0. At(o, "unlock") /\ UNCHANGED <<storage, bound, box, mount>>
      BY <1>23 DEF Unlock
    <2>1. given' = given \cup {op[o].reply} \/ given' = given
      BY <1>23 DEF Unlock
    <2>2. lock' = lock \/ (lock = o /\ lock' = Nil)
      BY <1>23 DEF Unlock
    <2>3. \/ op' = [op EXCEPT ![o] = Idle]
          \/ op' = [op EXCEPT ![o] = [Idle EXCEPT !.pc = "crashed"]]
      BY <1>23 DEF Unlock
    <2>4. /\ op'[o].pc \in {"idle", "crashed"} /\ op'[o].claim = Nil /\ op'[o].old = Nil
          /\ \A p \in Ops \ {o} : op'[p] = op[p]
      BY <2>3
    <2> QED BY <2>0, <2>1, <2>2, <2>4
  <1>24. ASSUME NEW o \in Ops, Crash(o) PROVE OwnInv'
    BY <1>24 DEF Crash
  <1>25. ASSUME NEW o \in Ops, ExpireLock(o) PROVE OwnInv'
    BY <1>25 DEF ExpireLock
  <1>26. ASSUME NEW o \in Ops, Bury(o) PROVE OwnInv'
    BY <1>26 DEF Bury
  <1>27. ASSUME NEW c \in Claims, NodeChanges(c) PROVE OwnInv'
    BY <1>27 DEF NodeChanges
  <1>28. ASSUME NEW s \in Sandboxes, Turn(s) PROVE OwnInv'
    BY <1>28 DEF Turn
  <1>29. CASE UNCHANGED vars
    BY <1>29 DEF vars
  <1> QED BY <1>1, <1>2, <1>3, <1>4, <1>5, <1>6, <1>7, <1>8, <1>9, <1>10, <1>11, <1>12, <1>13,
             <1>14, <1>15, <1>16, <1>17, <1>18, <1>19, <1>20, <1>21, <1>22, <1>23, <1>24,
             <1>25, <1>26, <1>27, <1>28, <1>29
          DEF Next, OpStep

-----------------------------------------------------------------------------
(* The holder of the lock.                                                   *)

LEMMA HolderStep == TypeOK /\ LockInv /\ NameInv /\ PairInv /\ OwnInv /\ HolderInv /\ UseInv
                    /\ [Next]_vars => HolderInv'
  <1> SUFFICES ASSUME TypeOK, LockInv, NameInv, PairInv, OwnInv, HolderInv, UseInv,
                      [Next]_vars PROVE HolderInv'
    OBVIOUS
  <1> USE NilAssumption DEF TypeOK, OpRow, Idle, HolderInv, LockInv, NameInv, PairInv, OwnInv,
                            UseInv, Exclusive, At, Goto, GotoFailed, Leave, Reply, NotBound,
                            Destroyed, Unbound, storage, compute
  <1>1. ASSUME NEW o \in Ops, Start(o) PROVE HolderInv'
    BY <1>1 DEF Start
  <1>2. ASSUME NEW o \in Ops, AcquireLock(o) PROVE HolderInv'
    BY <1>2 DEF AcquireLock
  <1>3. ASSUME NEW o \in Ops, Lookup(o) PROVE HolderInv'
    BY <1>3 DEF Lookup
  <1>4. ASSUME NEW o \in Ops, UnbindDead(o) PROVE HolderInv'
    <2>1. CASE Leave(o)
      BY <1>4, <2>1 DEF UnbindDead
    <2>2. CASE ~op[o].bindLost /\ ~Leave(o)
      <3>1. /\ op' = [op EXCEPT ![o].pc = "select"]
            /\ lock = o /\ UNCHANGED <<row, volumes, work, disowned, box, mount, lock>>
            /\ bound' = Nil
        BY <1>4, <2>2 DEF UnbindDead
      <3>2. \A p \in Ops : lock' = p => p = o
        BY <3>1
      <3> QED BY <3>1, <3>2
    <2>3. CASE op[o].bindLost /\ ~Leave(o)
      BY <1>4, <2>3 DEF UnbindDead
    <2> QED BY <2>1, <2>2, <2>3
  <1>5. ASSUME NEW o \in Ops, CheckReusable(o) PROVE HolderInv'
    <2>1. CASE Leave(o)
      BY <1>5, <2>1 DEF CheckReusable
    <2>2. CASE mount[op[o].sb] # row
      BY <1>5, <2>2 DEF CheckReusable
    <2>3. CASE Reply(o, op[o].sb) /\ mount[op[o].sb] = row
      BY <1>5, <2>3 DEF CheckReusable
    <2>4. CASE Goto(o, "destroyStale") /\ mount[op[o].sb] = row
      <3>1. /\ op' = [op EXCEPT ![o].pc = "destroyStale"]
            /\ lock = o /\ UNCHANGED <<row, volumes, work, disowned, bound, box, mount, lock>>
            /\ bound = op[o].sb /\ bound # Nil /\ op[o].stale = Nil
        BY <1>5, <2>4 DEF CheckReusable
      <3>2. \A p \in Ops : lock' = p => p = o
        BY <3>1
      <3> QED BY <3>1, <3>2
    <2> QED BY <1>5, <2>1, <2>2, <2>3, <2>4 DEF CheckReusable
  <1>6. ASSUME NEW o \in Ops, DestroyStale(o) PROVE HolderInv'
    BY <1>6 DEF DestroyStale
  <1>7. ASSUME NEW o \in Ops, UnbindStale(o) PROVE HolderInv'
    BY <1>7 DEF UnbindStale
  <1>8. ASSUME NEW o \in Ops, DiscardStale(o) PROVE HolderInv'
    BY <1>8 DEF DiscardStale
  <1>9. ASSUME NEW o \in Ops, SelectVolume(o) PROVE HolderInv'
    <2>0. At(o, "select") /\ UNCHANGED <<work, disowned, away, compute, lock>>
      BY <1>9, SelectVolumeEffect
    <2>1. CASE Leave(o) /\ UNCHANGED <<row, life, volumes>>
      BY <2>0, <2>1
    <2>2. CASE RowTaken(o)
      <3>1. /\ lock = o /\ bound = Nil /\ op[o].old = Nil
            /\ \A p \in Ops : lock' = p => p = o
        BY <2>0
      <3> QED BY <2>0, <2>2, <3>1 DEF RowTaken
    <2>3. ASSUME NEW c \in Claims, ResetBegun(o, c), volumes' = volumes, Leave(o)
          PROVE  HolderInv'
      BY <2>0, <2>3 DEF ResetBegun
    <2>4. ASSUME NEW c \in Claims, ResetBegun(o, c), volumes' = volumes \cup {c}, Leave(o)
          PROVE  HolderInv'
      BY <2>0, <2>4 DEF ResetBegun
    <2>5. ASSUME NEW c \in Claims, ResetPrepared(o, c) PROVE HolderInv'
      <3>1. lock = o /\ lock' = o /\ bound = Nil /\ bound' = Nil
        BY <2>0
      <3>2. /\ op'[o].pc = "create" /\ op'[o].claim = c /\ op'[o].old = row
            /\ row' = row /\ row # Nil /\ c \in volumes'
        BY <2>5 DEF ResetPrepared, ResetBegun
      <3> QED BY <3>1, <3>2
    <2>6. ASSUME NEW c \in Claims, RowInserted(o, c), Leave(o) PROVE HolderInv'
      BY <2>0, <2>6 DEF RowInserted
    <2>7. ASSUME NEW c \in Claims, RowInserted(o, c),
                 op' = [op EXCEPT ![o].pc = "ensure", ![o].claim = c]
          PROVE  HolderInv'
      BY <2>0, <2>7 DEF RowInserted
    <2> QED BY <1>9, <2>1, <2>2, <2>3, <2>4, <2>5, <2>6, <2>7, SelectVolumeEffect
  <1>10. ASSUME NEW o \in Ops, EnsurePVC(o) PROVE HolderInv'
    BY <1>10 DEF EnsurePVC
  <1>11. ASSUME NEW o \in Ops, Create(o) PROVE HolderInv'
    BY <1>11 DEF Create
  <1>12. ASSUME NEW o \in Ops, Bind(o) PROVE HolderInv'
    BY <1>12 DEF Bind
  <1>13. ASSUME NEW o \in Ops, CommitReset(o) PROVE HolderInv'
    BY <1>13 DEF CommitReset, CommitRow
  <1>14. ASSUME NEW o \in Ops, DropOld(o) PROVE HolderInv'
    BY <1>14 DEF DropOld
  <1>15. ASSUME NEW o \in Ops, Cleanup(o) PROVE HolderInv'
    BY <1>15 DEF Cleanup, AfterDestroy
  <1>16. ASSUME NEW o \in Ops, CleanupUnbind(o) PROVE HolderInv'
    BY <1>16 DEF CleanupUnbind
  <1>17. ASSUME NEW o \in Ops, DiscardReset(o) PROVE HolderInv'
    BY <1>17 DEF DiscardReset
  <1>18. ASSUME NEW o \in Ops, CheckWinner(o) PROVE HolderInv'
    BY <1>18 DEF CheckWinner
  <1>19. ASSUME NEW o \in Ops, Destroy(o) PROVE HolderInv'
    BY <1>19 DEF Destroy
  <1>20. ASSUME NEW o \in Ops, Unbind(o) PROVE HolderInv'
    BY <1>20 DEF Unbind
  <1>21. ASSUME NEW o \in Ops, DeleteVolume(o) PROVE HolderInv'
    <2>1. CASE Leave(o)
      BY <1>21, <2>1 DEF DeleteVolume
    <2>2. CASE ~Leave(o)
      <3>1. /\ op' = [op EXCEPT ![o].pc = "deleteRow"]
            /\ lock = o /\ UNCHANGED <<row, disowned, bound, box, mount, lock>>
            /\ bound = Nil /\ work' = work \ {row}
        BY <1>21, <2>2 DEF DeleteVolume
      <3>2. \A p \in Ops : lock' = p => p = o
        BY <3>1
      <3>3. work' \subseteq disowned
        BY <3>1 DEF WorkStays
      <3> QED BY <3>1, <3>2, <3>3
    <2> QED BY <2>1, <2>2
  <1>22. ASSUME NEW o \in Ops, DeleteRow(o) PROVE HolderInv'
    BY <1>22 DEF DeleteRow
  <1>23. ASSUME NEW o \in Ops, Unlock(o) PROVE HolderInv'
    BY <1>23 DEF Unlock
  <1>24. ASSUME NEW o \in Ops, Crash(o) PROVE HolderInv'
    BY <1>24 DEF Crash
  <1>25. ASSUME NEW o \in Ops, ExpireLock(o) PROVE HolderInv'
    BY <1>25 DEF ExpireLock
  <1>26. ASSUME NEW o \in Ops, Bury(o) PROVE HolderInv'
    BY <1>26 DEF Bury
  <1>27. ASSUME NEW c \in Claims, NodeChanges(c) PROVE HolderInv'
    BY <1>27 DEF NodeChanges
  <1>28. ASSUME NEW s \in Sandboxes, Turn(s) PROVE HolderInv'
    <2>1. s \in Served /\ box[s] = "running"
      BY <1>28 DEF Turn, Served
    <2>2. s = bound
      BY <2>1
    <2>3. \A p \in Ops : lock = p => op[p].pc # "deleteRow"
      BY <2>2
    <2> QED BY <1>28, <2>3 DEF Turn
  <1>29. CASE UNCHANGED vars
    BY <1>29 DEF vars
  <1> QED BY <1>1, <1>2, <1>3, <1>4, <1>5, <1>6, <1>7, <1>8, <1>9, <1>10, <1>11, <1>12, <1>13,
             <1>14, <1>15, <1>16, <1>17, <1>18, <1>19, <1>20, <1>21, <1>22, <1>23, <1>24,
             <1>25, <1>26, <1>27, <1>28, <1>29
          DEF Next, OpStep

-----------------------------------------------------------------------------
(* The sandboxes that are used.                                              *)

LEMMA UseStep == TypeOK /\ LockInv /\ NameInv /\ PairInv /\ OwnInv /\ HolderInv /\ UseInv /\
                 [Next]_vars => UseInv'
  <1> SUFFICES ASSUME TypeOK, LockInv, NameInv, PairInv, OwnInv, HolderInv, UseInv,
                      [Next]_vars PROVE UseInv'
    OBVIOUS
  <1> USE NilAssumption DEF TypeOK, OpRow, Idle, UseInv, LockInv, NameInv, PairInv, OwnInv,
                            HolderInv, Exclusive, WorkStays, AcquireMountsTheDurableClaim,
                            Served, At, Goto, GotoFailed, Leave, Reply, NotBound, Destroyed,
                            Unbound, storage, compute
  <1>1. ASSUME NEW o \in Ops, Start(o) PROVE UseInv'
    BY <1>1 DEF Start
  <1>2. ASSUME NEW o \in Ops, AcquireLock(o) PROVE UseInv'
    <2>1. CASE lock = Nil /\ lock' = o
      BY <1>2, <2>1 DEF AcquireLock
    <2>2. CASE op' = [op EXCEPT ![o] = Idle]
      BY <1>2, <2>2 DEF AcquireLock
    <2> QED BY <1>2, <2>1, <2>2 DEF AcquireLock
  <1>3. ASSUME NEW o \in Ops, Lookup(o) PROVE UseInv'
    BY <1>3 DEF Lookup
  <1>4. ASSUME NEW o \in Ops, UnbindDead(o) PROVE UseInv'
    <2>1. CASE Leave(o)
      BY <1>4, <2>1 DEF UnbindDead
    <2>2. CASE Goto(o, "select")
      BY <1>4, <2>2 DEF UnbindDead
    <2>3. CASE op[o].bindLost /\ ~Leave(o)
      BY <1>4, <2>3 DEF UnbindDead
    <2> QED BY <1>4, <2>1, <2>2, <2>3 DEF UnbindDead
  <1>5. ASSUME NEW o \in Ops, CheckReusable(o) PROVE UseInv'
    <2>1. CASE Leave(o)
      BY <1>5, <2>1 DEF CheckReusable
    <2>2. CASE mount[op[o].sb] # row
      BY <1>5, <2>2 DEF CheckReusable
    <2>3. CASE Reply(o, op[o].sb) /\ mount[op[o].sb] = row
      BY <1>5, <2>3 DEF CheckReusable
    <2>4. CASE Goto(o, "destroyStale") /\ mount[op[o].sb] = row
      BY <1>5, <2>4 DEF CheckReusable
    <2> QED BY <1>5, <2>1, <2>2, <2>3, <2>4 DEF CheckReusable
  <1>6. ASSUME NEW o \in Ops, DestroyStale(o) PROVE UseInv'
    BY <1>6 DEF DestroyStale
  <1>7. ASSUME NEW o \in Ops, UnbindStale(o) PROVE UseInv'
    BY <1>7 DEF UnbindStale
  <1>8. ASSUME NEW o \in Ops, DiscardStale(o) PROVE UseInv'
    BY <1>8 DEF DiscardStale
  <1>9. ASSUME NEW o \in Ops, SelectVolume(o) PROVE UseInv'
    <2>0. At(o, "select") /\ UNCHANGED <<work, disowned, away, compute, lock>>
      BY <1>9, SelectVolumeEffect
    <2>1. CASE Leave(o) /\ UNCHANGED <<row, life, volumes>>
      BY <2>0, <2>1
    <2>2. CASE RowTaken(o)
      BY <2>0, <2>2 DEF RowTaken
    <2>3. ASSUME NEW c \in Claims, ResetBegun(o, c), volumes' = volumes, Leave(o)
          PROVE  UseInv'
      BY <2>0, <2>3 DEF ResetBegun
    <2>4. ASSUME NEW c \in Claims, ResetBegun(o, c), volumes' = volumes \cup {c}, Leave(o)
          PROVE  UseInv'
      BY <2>0, <2>4 DEF ResetBegun
    <2>5. ASSUME NEW c \in Claims, ResetPrepared(o, c) PROVE UseInv'
      <3>1. /\ \A x \in Ops : op'[x].reply = op[x].reply
            /\ row' = row /\ volumes' = volumes \cup {c}
            /\ life[c] = "unused" /\ life' = [life EXCEPT ![c] = "prepared"]
        BY <2>5 DEF ResetPrepared, ResetBegun
      <3>2. Served' = Served /\ op[o].reply = Nil /\ lock = o
        BY <2>0, <3>1
      <3>3. \A x \in Ops : op[x].reply # Nil => x # o /\ op[x].reply \in Served
        BY <3>2
      <3> HIDE DEF Served
      <3> QED BY <2>0, <3>1, <3>2, <3>3
    <2>6. ASSUME NEW c \in Claims, RowInserted(o, c), Leave(o) PROVE UseInv'
      BY <2>0, <2>6 DEF RowInserted
    <2>7. ASSUME NEW c \in Claims, RowInserted(o, c),
                 op' = [op EXCEPT ![o].pc = "ensure", ![o].claim = c]
          PROVE  UseInv'
      BY <2>0, <2>7 DEF RowInserted
    <2> QED BY <1>9, <2>1, <2>2, <2>3, <2>4, <2>5, <2>6, <2>7, SelectVolumeEffect
  <1>10. ASSUME NEW o \in Ops, EnsurePVC(o) PROVE UseInv'
    BY <1>10 DEF EnsurePVC
  <1>11. ASSUME NEW o \in Ops, Create(o) PROVE UseInv'
    BY <1>11 DEF Create
  <1>12. ASSUME NEW o \in Ops, Bind(o) PROVE UseInv'
    <2>1. UNCHANGED <<storage, box, mount, given, lock>> /\ At(o, "bind")
      BY <1>12 DEF Bind
    <2>2. CASE /\ Reply(o, op[o].sb) /\ op[o].old = Nil
               /\ lock = o /\ bound = Nil /\ bound' = op[o].sb
      BY <2>1, <2>2
    <2>3. CASE \A x \in Ops : op'[x].reply = op[x].reply
      <3>1. Served' = Served
        BY <2>1, <2>3
      <3>2. CASE bound' = bound
        <4> HIDE DEF Served
        <4> QED BY <2>1, <2>3, <3>1, <3>2
      <3>3. CASE lock = o /\ bound = Nil /\ bound' = op[o].sb
        <4>1. \A s \in Served : s # Nil /\ box[s] # "running"
          BY <3>3
        <4>2. mount[bound'] = row => row \in volumes
          BY <2>1, <3>3
        <4>3. \A x \in Ops : op[x].reply # Nil => x # o /\ op[x].reply \in Served
          BY <2>1
        <4> HIDE DEF Served
        <4> QED BY <2>1, <2>3, <3>1, <3>3, <4>1, <4>2, <4>3
      <3> QED BY <1>12, <3>2, <3>3 DEF Bind
    <2>4. op \in [Ops -> OpRow]
      OBVIOUS
    <2> HIDE DEF UseInv, LockInv, NameInv, PairInv, OwnInv, HolderInv, TypeOK
    <2> QED BY <1>12, <2>2, <2>3, <2>4 DEF Bind
  <1>13. ASSUME NEW o \in Ops, CommitReset(o) PROVE UseInv'
    <2>1. UNCHANGED <<volumes, compute, lock>> /\ At(o, "commit")
      BY <1>13 DEF CommitReset
    <2>2. \A x \in Ops : op'[x].reply = op[x].reply
      BY <1>13 DEF CommitReset
    <2>3. Served' = Served
      BY <2>1, <2>2
    <2> HIDE DEF Served
    <2>4. CASE CommitRow(o) /\ disowned \subseteq disowned'
      <3>1. /\ lock = o /\ op[o].old = row /\ row' = op[o].claim /\ op[o].allow
            /\ work' = work \ {row} /\ bound = op[o].sb /\ mount[bound] = row'
            /\ row' \in volumes /\ row' # row
            /\ life' = [life EXCEPT ![row'] = "committed"] /\ row \in Claims
        BY <2>1, <2>4 DEF CommitRow
      <3>2. WorkStays'
        BY <2>1, <2>4, <3>1
      <3>3. \A s \in Served : box[s] # "running"
        BY <3>1
      <3>4. \A x \in Ops : op[x].reply # Nil => x # o /\ op[x].reply \in Served
        BY <2>1 DEF Served
      <3> QED BY <2>1, <2>2, <2>3, <3>1, <3>2, <3>3, <3>4
    <2>5. CASE UNCHANGED <<row, life, work, disowned>>
      BY <2>1, <2>2, <2>3, <2>5
    <2> QED BY <1>13, <2>4, <2>5 DEF CommitReset
  <1>14. ASSUME NEW o \in Ops, DropOld(o) PROVE UseInv'
    BY <1>14 DEF DropOld
  <1>15. ASSUME NEW o \in Ops, Cleanup(o) PROVE UseInv'
    BY <1>15 DEF Cleanup, AfterDestroy
  <1>16. ASSUME NEW o \in Ops, CleanupUnbind(o) PROVE UseInv'
    <2>1. UNCHANGED <<storage, box, mount, given, lock>> /\ At(o, "cleanupUnbind")
      BY <1>16 DEF CleanupUnbind
    <2>2. bound' = bound \/ Unbound(op[o].sb)
      BY <1>16 DEF CleanupUnbind
    <2>3. \A x \in Ops : op'[x].reply = op[x].reply
      BY <1>16 DEF CleanupUnbind
    <2>4. Served' = Served
      BY <2>1, <2>3
    <2>5. lock = o /\ op[o].reply = Nil /\ op[o].sb # Nil /\ box[op[o].sb] = "gone"
      BY <2>1
    <2>6. \A s \in Served : box[s] = "running" => bound' = bound
      BY <2>2, <2>5
    <2>7. \A x \in Ops : op[x].reply # Nil => x # o /\ op[x].reply \in Served
      BY <2>5
    <2> HIDE DEF Served
    <2> QED BY <2>1, <2>2, <2>3, <2>4, <2>5, <2>6, <2>7
  <1>17. ASSUME NEW o \in Ops, DiscardReset(o) PROVE UseInv'
    <2>1. PICK pc \in {"lookup", "unlock"} : op' = [op EXCEPT ![o].pc = pc]
      BY <1>17 DEF DiscardReset
    <2>2. /\ volumes' \in {volumes, volumes \ {op[o].claim}}
          /\ UNCHANGED <<row, life, work, disowned, compute, lock>>
      BY <1>17 DEF DiscardReset
    <2>3. op[o].claim # row \/ op[o].claim \in disowned
      BY <1>17 DEF DiscardReset
    <2>4. \A x \in Ops : op'[x].reply = op[x].reply
      BY <2>1
    <2>5. Served' = Served
      BY <2>2, <2>4
    <2>6. WorkStays' /\ (lock = o => op[o].reply = Nil)
      BY <1>17, <2>2, <2>3 DEF DiscardReset
    <2>7. CASE volumes' = volumes
      BY <2>2, <2>4, <2>5, <2>6, <2>7
    <2>8. CASE volumes' = volumes \ {op[o].claim}
      BY <1>17, <2>2, <2>3, <2>4, <2>5, <2>6, <2>8 DEF DiscardReset
    <2> QED BY <2>2, <2>7, <2>8
  <1>18. ASSUME NEW o \in Ops, CheckWinner(o) PROVE UseInv'
    <2>1. UNCHANGED <<storage, compute, lock>> /\ At(o, "winner")
      BY <1>18 DEF CheckWinner
    <2>2. CASE Leave(o)
      BY <2>1, <2>2
    <2>3. CASE mount[op[o].sb] = row /\ Reply(o, op[o].sb)
      BY <2>1, <2>3
    <2> QED BY <1>18, <2>2, <2>3 DEF CheckWinner
  <1>19. ASSUME NEW o \in Ops, Destroy(o) PROVE UseInv'
    <2>1. UNCHANGED <<storage, bound, mount, given, lock>>
      BY <1>19 DEF Destroy
    <2>2. box' = box \/ (bound # Nil /\ Destroyed(bound))
      BY <1>19 DEF Destroy
    <2>3. \A x \in Ops : op'[x].reply = op[x].reply
      BY <1>19 DEF Destroy
    <2>4. Served' = Served
      BY <2>1, <2>3
    <2>5. lock = o /\ op[o].reply = Nil
      BY <1>19 DEF Destroy
    <2>6. \A x \in Ops : op[x].reply # Nil => x # o /\ op[x].reply \in Served
      BY <2>5
    <2>7. CASE box' = box
      <3> HIDE DEF Served
      <3> QED BY <2>1, <2>3, <2>4, <2>5, <2>6, <2>7
    <2>8. CASE bound # Nil /\ Destroyed(bound)
      <3> HIDE DEF Served
      <3>1. \A s \in Served : box'[s] # "running"
        BY <2>8
      <3>2. box'[bound] # "running"
        BY <2>8
      <3> QED BY <2>1, <2>3, <2>4, <2>5, <2>6, <3>1, <3>2
    <2> QED BY <2>2, <2>7, <2>8
  <1>20. ASSUME NEW o \in Ops, Unbind(o) PROVE UseInv'
    <2>1. UNCHANGED <<storage, box, mount, given, lock>> /\ At(o, "unbind")
      BY <1>20 DEF Unbind
    <2>2. bound' = bound \/ Unbound(op[o].sb)
      BY <1>20 DEF Unbind
    <2>3. \A x \in Ops : op'[x].reply = op[x].reply
      BY <1>20 DEF Unbind
    <2>4. Served' = Served
      BY <2>1, <2>3
    <2>5. lock = o /\ op[o].reply = Nil /\ op[o].sb # Nil /\ box[op[o].sb] = "gone"
      BY <1>20 DEF Unbind
    <2>6. \A s \in Served : box[s] = "running" => bound' = bound
      BY <2>2, <2>5
    <2>7. \A x \in Ops : op[x].reply # Nil => x # o /\ op[x].reply \in Served
      BY <2>5
    <2> HIDE DEF Served
    <2> QED BY <2>1, <2>2, <2>3, <2>4, <2>5, <2>6, <2>7
  <1>21. ASSUME NEW o \in Ops, DeleteVolume(o) PROVE UseInv'
    BY <1>21 DEF DeleteVolume
  <1>22. ASSUME NEW o \in Ops, DeleteRow(o) PROVE UseInv'
    BY <1>22 DEF DeleteRow
  <1>23. ASSUME NEW o \in Ops, Unlock(o) PROVE UseInv'
    BY <1>23 DEF Unlock
  <1>24. ASSUME NEW o \in Ops, Crash(o) PROVE UseInv'
    BY <1>24 DEF Crash
  <1>25. ASSUME NEW o \in Ops, ExpireLock(o) PROVE UseInv'
    BY <1>25 DEF ExpireLock
  <1>26. ASSUME NEW o \in Ops, Bury(o) PROVE UseInv'
    BY <1>26 DEF Bury
  <1>27. ASSUME NEW c \in Claims, NodeChanges(c) PROVE UseInv'
    BY <1>27 DEF NodeChanges
  <1>28. ASSUME NEW s \in Sandboxes, Turn(s) PROVE UseInv'
    BY <1>28 DEF Turn
  <1>29. CASE UNCHANGED vars
    BY <1>29 DEF vars
  <1> QED BY <1>1, <1>2, <1>3, <1>4, <1>5, <1>6, <1>7, <1>8, <1>9, <1>10, <1>11, <1>12, <1>13,
             <1>14, <1>15, <1>16, <1>17, <1>18, <1>19, <1>20, <1>21, <1>22, <1>23, <1>24,
             <1>25, <1>26, <1>27, <1>28, <1>29
          DEF Next, OpStep

-----------------------------------------------------------------------------
(* The theorems.                                                             *)

LEMMA StorageInit == Init => StorageInv
  <1> SUFFICES ASSUME Init PROVE StorageInv
    OBVIOUS
  <1>1. TypeOK
    BY IdleType DEF Init, TypeOK
  <1>2. LockInv /\ PairInv /\ OwnInv /\ HolderInv
    BY NilAssumption DEF Init, Idle, LockInv, PairInv, OwnInv, HolderInv, Exclusive
  <1>3. NameInv
    BY DEF Init, Idle, NameInv
  <1>4. UseInv
    BY DEF Init, Idle, UseInv, Served, WorkStays, AcquireMountsTheDurableClaim
  <1> QED BY <1>1, <1>2, <1>3, <1>4 DEF StorageInv

LEMMA StorageStep == StorageInv /\ [Next]_vars => StorageInv'
  BY TypeStep, LockStep, NameStep, PairStep, OwnStep, HolderStep, UseStep DEF StorageInv

LEMMA StorageInvariant == Spec => []StorageInv
  BY StorageInit, StorageStep, PTL DEF Spec

\* The rows, the volumes, the sandboxes and the operations keep their types; a volume,
\* and the row, name a claim and never Nil.
THEOREM StorageTypeCorrect == Spec => []TypeOK
  <1>1. StorageInv => TypeOK
    BY DEF StorageInv
  <1> QED BY <1>1, StorageInvariant, PTL

\* binder.go Acquire: whatever Redis still says after a reset, a crash or a lost answer,
\* an Acquire with its lock returns the bound sandbox on the volume PostgreSQL names, and
\* one without returns none on a claim that was never the durable one.
THEOREM AcquiresAreOnTheDurableClaim == Spec => []AcquireMountsTheDurableClaim
  <1>1. StorageInv => AcquireMountsTheDurableClaim
    BY DEF StorageInv, UseInv
  <1> QED BY <1>1, StorageInvariant, PTL

\* binder.go, storage.go: work of the user goes only with a Release or with a
\* reset the user has allowed, or with a claim whose commit was reported as an error.
THEOREM WorkIsKept == Spec => []WorkStays
  <1>1. StorageInv => WorkStays
    BY DEF StorageInv, UseInv
  <1> QED BY <1>1, StorageInvariant, PTL
=============================================================================
