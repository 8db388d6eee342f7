------------------------ MODULE SandboxBinderProofs ------------------------
(***************************************************************************)
(* Proofs about SandboxBinder for any number of operations and sandboxes.  *)
(***************************************************************************)
EXTENDS SandboxBinder, TLAPS

-----------------------------------------------------------------------------
(***************************************************************************)
(* Types.  Where an operation is decides what it must know: which sandbox  *)
(* it is about, and which kinds get there.                                 *)
(***************************************************************************)

AboutABox == {"getMeta", "dropConv", "health", "destroyBad", "unbindBad", "bind",
              "cleanup", "recheckLease", "renew", "destroy", "unbind"}

PlaceOK ==
    \A o \in Ops :
        /\ op[o].pc \in AboutABox => op[o].sb \in Sandboxes
        /\ op[o].pc \in {"lock", "tryLock"} => op[o].kind # "lookup"
        /\ op[o].pc = "recheckMeta" => op[o].kind \in {"reap", "drain", "heartbeat"}

TypeInv == TypeOK /\ PlaceOK

\* An operation whose new row is of the type and asks for nothing new.
LEMMA RowType ==
    ASSUME TypeInv, NEW o \in Ops, NEW row \in OpRow, op' = [op EXCEPT ![o] = row],
           row.pc \in AboutABox => row.sb \in Sandboxes,
           row.pc \in {"lock", "tryLock"} => row.kind # "lookup",
           row.pc = "recheckMeta" => row.kind \in {"reap", "drain", "heartbeat"}
    PROVE  op' \in [Ops -> OpRow] /\ PlaceOK'
  BY DEF TypeInv, TypeOK, PlaceOK

\* An operation that only moves.
LEMMA MoveType ==
    ASSUME TypeInv, NEW o \in Ops, NEW pc \in Pc, Goto(o, pc),
           pc \in AboutABox => op[o].sb \in Sandboxes,
           pc \in {"lock", "tryLock"} => op[o].kind # "lookup",
           pc = "recheckMeta" => op[o].kind \in {"reap", "drain", "heartbeat"}
    PROVE  op' \in [Ops -> OpRow] /\ PlaceOK'
  BY DEF TypeInv, TypeOK, PlaceOK, Goto, OpRow

\* An operation that takes a sandbox in hand.
LEMMA MoveWithType ==
    ASSUME TypeInv, NEW o \in Ops, NEW pc \in Pc, NEW s \in Maybe, GotoWith(o, pc, s),
           pc \in AboutABox => s \in Sandboxes,
           pc \notin {"lock", "tryLock", "recheckMeta"}
    PROVE  op' \in [Ops -> OpRow] /\ PlaceOK'
  <1>1. [op[o] EXCEPT !.pc = pc, !.sb = s] \in OpRow
    BY DEF TypeInv, TypeOK, OpRow
  <1>2. op' = [op EXCEPT ![o] = [op[o] EXCEPT !.pc = pc, !.sb = s]] /\ op \in [Ops -> OpRow]
    BY DEF GotoWith, TypeInv, TypeOK
  <1>3. op'[o].pc = pc /\ op'[o].sb = s /\ \A p \in Ops \ {o} : op'[p] = op[p]
    BY <1>2 DEF OpRow
  <1> QED BY <1>1, <1>2, <1>3 DEF TypeInv, PlaceOK

\* An operation that begins, or is forgotten.
LEMMA NewOpType ==
    ASSUME TypeInv, NEW o \in Ops, NEW k \in AllKinds, NEW pc \in Pc, NEW s \in Maybe,
           op' = [op EXCEPT ![o] = NewOp(k, pc, s)],
           pc \notin AboutABox \cup {"recheckMeta"},
           pc \in {"lock", "tryLock"} => k # "lookup"
    PROVE  op' \in [Ops -> OpRow] /\ PlaceOK'
  <1> DEFINE row == NewOp(k, pc, s)
  <1>1. row \in OpRow /\ row.pc = pc /\ row.kind = k
    BY DEF NewOp, OpRow, Maybe
  <1>2. op' = [op EXCEPT ![o] = row]
    OBVIOUS
  <1> HIDE DEF row
  <1> QED BY <1>1, <1>2, RowType

\* An operation that ends with an answer.
LEMMA ResultType ==
    ASSUME TypeInv, NEW o \in Ops, NEW s \in Maybe,
           op' = [op EXCEPT ![o].pc = "unlock", ![o].result = s]
    PROVE  op' \in [Ops -> OpRow] /\ PlaceOK'
  <1>1. "unlock" \in Pc /\ "unlock" \notin AboutABox
    BY DEF Pc, AboutABox
  <1>2. op' \in [Ops -> OpRow]
    BY <1>1 DEF TypeInv, TypeOK, OpRow
  <1>3. PlaceOK'
    BY <1>1 DEF TypeInv, TypeOK, OpRow, PlaceOK
  <1> QED BY <1>2, <1>3

LEMMA LeaveType ==
    ASSUME TypeInv, NEW o \in Ops, Leave(o)
    PROVE  op' \in [Ops -> OpRow] /\ PlaceOK'
  <1> DEFINE pc == IF Is(o, {"lookup"}) THEN "done" ELSE "unlock"
  <1>1. pc \in Pc /\ pc \notin AboutABox \cup {"lock", "tryLock", "recheckMeta"}
    BY DEF Pc, AboutABox
  <1> QED BY <1>1, MoveType DEF Leave

LEMMA NotBoundType ==
    ASSUME TypeInv, NEW o \in Ops, NotBound(o)
    PROVE  op' \in [Ops -> OpRow] /\ PlaceOK'
  <1>1. Leave(o) \/ Goto(o, "create")
    BY DEF NotBound
  <1>2. "create" \in Pc /\ "create" \notin AboutABox \cup {"lock", "tryLock", "recheckMeta"}
    BY DEF Pc, AboutABox
  <1> QED BY <1>1, <1>2, MoveType, LeaveType

\* What the ways of moving an operation do to the others and to itself.
Moves(o, pcs) ==
    /\ \A p \in Ops \ {o} : op'[p] = op[p]
    /\ op'[o].pc \in pcs
    /\ op'[o].kind = op[o].kind
    /\ op'[o].sb = op[o].sb
    /\ op'[o].winner = op[o].winner
    /\ op'[o].result = op[o].result

LEMMA GotoEffect ==
    ASSUME TypeInv, NEW o \in Ops, NEW pc, Goto(o, pc) PROVE Moves(o, {pc})
  BY DEF TypeInv, TypeOK, OpRow, Goto, Moves

LEMMA LeaveEffect ==
    ASSUME TypeInv, NEW o \in Ops, Leave(o)
    PROVE  /\ Moves(o, {"done", "unlock"})
           /\ op[o].kind # "lookup" => op'[o].pc = "unlock"
  BY GotoEffect DEF Leave, Is, Moves

LEMMA NotBoundEffect ==
    ASSUME TypeInv, NEW o \in Ops, NotBound(o)
    PROVE  /\ Moves(o, {"done", "unlock", "create"})
           /\ op[o].kind # "lookup" => op'[o].pc \in {"unlock", "create"}
  BY GotoEffect, LeaveEffect DEF NotBound, Moves

LEMMA StartType ==
    ASSUME TypeInv, NEW o \in Ops, Start(o)
    PROVE  op' \in [Ops -> OpRow] /\ PlaceOK'
  <1> USE KindsAssumption
  <1>1. ASSUME NEW k \in Kinds, k \in {"acquire", "release"},
               op' = [op EXCEPT ![o] = NewOp(k, "lock", Nil)]
        PROVE  op' \in [Ops -> OpRow] /\ PlaceOK'
    <2>1. "lock" \in Pc /\ "lock" \notin AboutABox /\ Nil \in Maybe
      BY DEF Pc, AboutABox, Maybe
    <2>2. k \in AllKinds /\ k # "lookup"
      BY <1>1
    <2> QED BY <1>1, <2>1, <2>2, NewOpType
  <1>2. ASSUME op' = [op EXCEPT ![o] = NewOp("lookup", "getConv", Nil)]
        PROVE  op' \in [Ops -> OpRow] /\ PlaceOK'
    <2>1. "getConv" \in Pc /\ "getConv" \notin AboutABox /\ Nil \in Maybe
          /\ "lookup" \in AllKinds
      BY DEF Pc, AboutABox, Maybe, AllKinds
    <2> QED BY <1>2, <2>1, NewOpType
  <1>3. ASSUME NEW k \in Kinds, k \in {"reap", "drain", "heartbeat"}, NEW s \in meta,
               op' = [op EXCEPT ![o] = NewOp(k, IF k = "drain" THEN "lock"
                                                ELSE "tryLock", s)]
        PROVE  op' \in [Ops -> OpRow] /\ PlaceOK'
    <2> DEFINE pc == IF k = "drain" THEN "lock" ELSE "tryLock"
    <2>1. pc \in Pc /\ pc \notin AboutABox \cup {"recheckMeta"} /\ s \in Maybe
      BY DEF Pc, AboutABox, Maybe, TypeInv, TypeOK
    <2> HIDE DEF pc
    <2>2. op' = [op EXCEPT ![o] = NewOp(k, pc, s)]
      BY <1>3 DEF pc
    <2>3. k \in AllKinds /\ k # "lookup"
      BY <1>3
    <2> QED BY <2>1, <2>2, <2>3, NewOpType
  <1> QED BY <1>1, <1>2, <1>3 DEF Start

LEMMA TypeStep == TypeInv /\ [Next]_vars => TypeInv'
  <1> SUFFICES ASSUME TypeInv, [Next]_vars PROVE TypeInv'
    OBVIOUS
  <1> DEFINE OpOK == op' \in [Ops -> OpRow] /\ PlaceOK'
             RestOK == /\ conv' \in Maybe
                       /\ meta' \in SUBSET Sandboxes
                       /\ lease' \in SUBSET Sandboxes
                       /\ lock' \in Ops \cup {Nil}
                       /\ box' \in [Sandboxes -> Box]
                       /\ stranded' \in SUBSET Sandboxes
  <1>a. raced' \in BOOLEAN
    BY DEF Next, vars, TypeInv, TypeOK
  <1>0. OpOK /\ RestOK => TypeInv'
    BY <1>a DEF TypeInv, TypeOK
  <1> USE DEF TypeInv
  <1>1. CASE UNCHANGED vars
    BY <1>1 DEF vars, redis, TypeOK, PlaceOK
  <1>2. ASSUME NEW o \in Ops, Start(o) PROVE TypeInv'
    BY <1>0, <1>2, StartType DEF Start, redis, TypeOK
  <1>3. ASSUME NEW o \in Ops, AcquireLock(o) \/ TryLock(o) PROVE TypeInv'
    <2>1. RestOK
      BY <1>3 DEF AcquireLock, TryLock, TypeOK
    <2>2. op[o].kind # "lookup" /\ op[o].kind \in AllKinds
      BY <1>3 DEF AcquireLock, TryLock, At, PlaceOK, TypeOK, OpRow
    <2>3. /\ Locked(o) \in {"getConv", "recheckMeta"}
          /\ Locked(o) = "recheckMeta" => op[o].kind \in {"reap", "drain", "heartbeat"}
      BY <2>2 DEF Locked, Is, AllKinds
    <2>4. PICK pc \in {Locked(o), "crashed", "done"} : Goto(o, pc)
      BY <1>3 DEF AcquireLock, TryLock
    <2>5. pc \in Pc /\ pc \notin AboutABox \cup {"lock", "tryLock"}
      BY <2>3 DEF Pc, AboutABox
    <2>6. OpOK
      BY <2>3, <2>4, <2>5, MoveType
    <2> QED BY <1>0, <2>1, <2>6
  <1>4. ASSUME NEW o \in Ops, GetConv(o) PROVE TypeInv'
    <2>1. RestOK
      BY <1>4 DEF GetConv, redis, TypeOK
    <2>2. CASE NotBound(o)
      BY <1>0, <2>1, <2>2, NotBoundType
    <2>3. CASE /\ conv # Nil
               /\ GotoWith(o, IF Is(o, {"release"}) THEN "destroy" ELSE "getMeta", conv)
      <3>1. conv \in Sandboxes /\ conv \in Maybe
        BY <2>3 DEF TypeOK, Maybe
      <3>2. PICK pc \in {"destroy", "getMeta"} : GotoWith(o, pc, conv)
        BY <2>3
      <3>3. pc \in Pc /\ pc \notin {"lock", "tryLock", "recheckMeta"}
        BY DEF Pc
      <3> QED BY <1>0, <2>1, <3>1, <3>2, <3>3, MoveWithType
    <2> QED BY <1>4, <2>2, <2>3 DEF GetConv
  <1>5. ASSUME NEW o \in Ops, GetMeta(o) PROVE TypeInv'
    <2>1. RestOK /\ op[o].sb \in Sandboxes
      BY <1>5 DEF GetMeta, redis, TypeOK, At, PlaceOK, AboutABox
    <2>2. PICK pc \in {"health", "dropConv"} : Goto(o, pc)
      BY <1>5 DEF GetMeta
    <2>3. pc \in Pc /\ pc \notin {"lock", "tryLock", "recheckMeta"}
      BY DEF Pc
    <2> QED BY <1>0, <2>1, <2>2, <2>3, MoveType
  <1>6. ASSUME NEW o \in Ops, DropConv(o) PROVE TypeInv'
    BY <1>0, <1>6, NotBoundType DEF DropConv, TypeOK, Maybe
  <1>7. ASSUME NEW o \in Ops, Health(o) PROVE TypeInv'
    <2>1. RestOK /\ op[o].sb \in Sandboxes
      BY <1>7 DEF Health, redis, TypeOK, At, PlaceOK, AboutABox
    <2>2. ASSUME NEW pc \in {"renew", "unbindBad", "destroyBad"}, Goto(o, pc)
          PROVE  TypeInv'
      <3>1. pc \in Pc /\ pc \notin {"lock", "tryLock", "recheckMeta"}
        BY <2>2 DEF Pc
      <3> QED BY <1>0, <2>1, <2>2, <3>1, MoveType
    <2>3. CASE Leave(o)
      BY <1>0, <2>1, <2>3, LeaveType
    <2> QED BY <1>7, <2>2, <2>3 DEF Health
  <1>8. ASSUME NEW o \in Ops, DestroyBad(o) \/ Destroy(o) PROVE TypeInv'
    <2>1. op[o].sb \in Sandboxes
      BY <1>8 DEF DestroyBad, Destroy, At, PlaceOK, AboutABox
    <2>2. RestOK
      BY <1>8 DEF DestroyBad, Destroy, DestroyBox, redis, TypeOK, Box
    <2>3. ASSUME NEW pc \in {"unbind", "unbindBad"}, Goto(o, pc) PROVE TypeInv'
      <3>1. pc \in Pc /\ pc \notin {"lock", "tryLock", "recheckMeta"}
        BY <2>3 DEF Pc
      <3> QED BY <1>0, <2>1, <2>2, <2>3, <3>1, MoveType
    <2>4. CASE Leave(o)
      BY <1>0, <2>2, <2>4, LeaveType
    <2> QED BY <1>8, <2>3, <2>4 DEF DestroyBad, Destroy
  <1>9. ASSUME NEW o \in Ops, UnbindBad(o) \/ Unbind(o) PROVE TypeInv'
    <2>1. RestOK
      BY <1>9 DEF UnbindBad, Unbind, UnbindScript, TypeOK, Maybe
    <2>2. NotBound(o) \/ Leave(o)
      BY <1>9 DEF UnbindBad, Unbind
    <2> QED BY <1>0, <2>1, <2>2, NotBoundType, LeaveType
  <1>10. ASSUME NEW o \in Ops, RenewLease(o) PROVE TypeInv'
    <2>1. RestOK /\ op[o].sb \in Sandboxes
      BY <1>10 DEF RenewLease, TypeOK, At, PlaceOK, AboutABox
    <2>2. CASE op' = [op EXCEPT ![o].pc = "unlock",
                  ![o].result = IF Is(o, {"acquire"}) THEN op[o].sb ELSE Nil]
      <3> DEFINE s == IF Is(o, {"acquire"}) THEN op[o].sb ELSE Nil
      <3>1. s \in Maybe
        BY <2>1 DEF Maybe
      <3> HIDE DEF s
      <3>2. op' = [op EXCEPT ![o].pc = "unlock", ![o].result = s]
        BY <2>2 DEF s
      <3> QED BY <1>0, <2>1, <3>1, <3>2, ResultType
    <2>3. CASE Leave(o)
      BY <1>0, <2>1, <2>3, LeaveType
    <2> QED BY <1>10, <2>2, <2>3 DEF RenewLease
  <1>11. ASSUME NEW o \in Ops, Create(o) PROVE TypeInv'
    <2>1. RestOK
      BY <1>11 DEF Create, redis, TypeOK, Box
    <2>2. CASE Leave(o)
      BY <1>0, <2>1, <2>2, LeaveType
    <2>3. CASE \E s \in Sandboxes : GotoWith(o, "bind", s)
      <3>1. "bind" \in Pc /\ \A s \in Sandboxes : s \in Maybe
        BY DEF Pc, Maybe
      <3> QED BY <1>0, <2>1, <2>3, <3>1, MoveWithType
    <2> QED BY <1>11, <2>2, <2>3 DEF Create
  <1>12. ASSUME NEW o \in Ops, Bind(o) PROVE TypeInv'
    <2>1. op[o].sb \in Sandboxes
      BY <1>12 DEF Bind, At, PlaceOK, AboutABox
    <2>2. RestOK
      BY <1>12, <2>1 DEF Bind, BindScript, TypeOK, Maybe
    <2>3. CASE op' = [op EXCEPT ![o].pc = "unlock", ![o].result = op[o].sb]
      <3>1. op[o].sb \in Maybe
        BY <2>1 DEF Maybe
      <3> QED BY <1>0, <2>2, <2>3, <3>1, ResultType
    <2>4. CASE op' = [op EXCEPT ![o].pc = "cleanup", ![o].winner = TRUE]
      <3>1. op' \in [Ops -> OpRow]
        <4>1. op[o] \in OpRow /\ "cleanup" \in Pc
          BY DEF TypeOK, Pc
        <4>2. [op[o] EXCEPT !.pc = "cleanup", !.winner = TRUE] \in OpRow
          BY <4>1 DEF OpRow
        <4>3. op' = [op EXCEPT ![o] = [op[o] EXCEPT !.pc = "cleanup", !.winner = TRUE]]
          BY <2>4
        <4> QED BY <4>2, <4>3 DEF TypeOK
      <3>2. PlaceOK'
        BY <2>1, <2>4 DEF TypeOK, OpRow, PlaceOK
      <3> QED BY <1>0, <2>2, <3>1, <3>2
    <2>5. CASE Goto(o, "cleanup")
      <3>1. "cleanup" \in Pc
        BY DEF Pc
      <3> QED BY <1>0, <2>1, <2>2, <2>5, <3>1, MoveType
    <2> QED BY <1>12, <2>3, <2>4, <2>5 DEF Bind
  <1>13. ASSUME NEW o \in Ops, Cleanup(o) PROVE TypeInv'
    <2>1. op[o].sb \in Sandboxes
      BY <1>13 DEF Cleanup, At, PlaceOK, AboutABox
    <2>2. RestOK
      BY <1>13, <2>1 DEF Cleanup, DestroyBox, redis, TypeOK, Box
    <2>3. CASE GotoWith(o, "getConv", Nil)
      <3>1. "getConv" \in Pc /\ "getConv" \notin AboutABox /\ Nil \in Maybe
        BY DEF Pc, AboutABox, Maybe
      <3> QED BY <1>0, <2>2, <2>3, <3>1, MoveWithType
    <2>4. CASE Leave(o)
      BY <1>0, <2>2, <2>4, LeaveType
    <2> QED BY <1>13, <2>3, <2>4 DEF Cleanup
  <1>14. ASSUME NEW o \in Ops, RecheckMeta(o) PROVE TypeInv'
    <2>1. RestOK /\ op[o].kind \in {"reap", "drain", "heartbeat"}
      BY <1>14 DEF RecheckMeta, redis, TypeOK, At, PlaceOK
    <2>2. CASE Leave(o)
      BY <1>0, <2>1, <2>2, LeaveType
    <2>3. CASE /\ op[o].sb \in meta
               /\ \E pc \in {"recheckLease", "destroy", "renew"} : Goto(o, pc)
      <3>1. PICK pc \in {"recheckLease", "destroy", "renew"} : Goto(o, pc)
        BY <2>3
      <3>2. pc \in Pc /\ pc \notin {"lock", "tryLock", "recheckMeta"}
            /\ op[o].sb \in Sandboxes
        BY <2>3 DEF Pc, TypeOK
      <3> QED BY <1>0, <2>1, <3>1, <3>2, MoveType
    <2> QED BY <1>14, <2>1, <2>2, <2>3 DEF RecheckMeta, Is
  <1>15. ASSUME NEW o \in Ops, RecheckLease(o) PROVE TypeInv'
    <2>1. RestOK /\ op[o].sb \in Sandboxes
      BY <1>15 DEF RecheckLease, redis, TypeOK, At, PlaceOK, AboutABox
    <2>2. "destroy" \in Pc
      BY DEF Pc
    <2> QED BY <1>0, <1>15, <2>1, <2>2, LeaveType, MoveType DEF RecheckLease
  <1>16. ASSUME NEW o \in Ops, Unlock(o) PROVE TypeInv'
    <2>1. RestOK
      BY <1>16 DEF Unlock, TypeOK
    <2>2. PICK pc \in {"done", "crashed"} : Goto(o, pc)
      BY <1>16 DEF Unlock
    <2>3. pc \in Pc /\ pc \notin AboutABox \cup {"lock", "tryLock", "recheckMeta"}
      BY DEF Pc, AboutABox
    <2> QED BY <1>0, <2>1, <2>2, <2>3, MoveType
  <1>17. ASSUME NEW o \in Ops, Retire(o) \/ Bury(o) PROVE TypeInv'
    <2>1. RestOK /\ op' = [op EXCEPT ![o] = NewOp("acquire", "idle", Nil)]
      BY <1>17 DEF Retire, Bury, Idle, redis, TypeOK
    <2>2. "acquire" \in AllKinds /\ "idle" \in Pc /\ "idle" \notin AboutABox /\ Nil \in Maybe
      BY DEF AllKinds, Pc, AboutABox, Maybe
    <2> QED BY <1>0, <2>1, <2>2, NewOpType
  <1>18. ASSUME NEW o \in Ops, FailCommand(o) PROVE TypeInv'
    BY <1>0, <1>18, LeaveType DEF FailCommand, redis, TypeOK
  <1>19. ASSUME NEW o \in Ops, Crash(o) PROVE TypeInv'
    <2>1. RestOK
      BY <1>19 DEF Crash, redis, TypeOK, PlaceOK, AboutABox
    <2>2. "crashed" \in Pc /\ "crashed" \notin AboutABox
      BY DEF Pc, AboutABox
    <2> QED BY <1>0, <1>19, <2>1, <2>2, MoveType DEF Crash
  <1>20. ASSUME NEW s \in Sandboxes, ExpireLease(s) \/ FailBox(s) PROVE TypeInv'
    BY <1>20, <1>a DEF ExpireLease, FailBox, redis, TypeOK, PlaceOK, Box
  <1>21. CASE ExpireLock \/ OutliveLock
    BY <1>21, <1>a DEF ExpireLock, OutliveLock, TypeOK, PlaceOK
  <1> QED
    BY <1>1, <1>2, <1>3, <1>4, <1>5, <1>6, <1>7, <1>8, <1>9, <1>10, <1>11, <1>12,
       <1>13, <1>14, <1>15, <1>16, <1>17, <1>18, <1>19, <1>20, <1>21
       DEF Next, Step, OpStep

LEMMA TypeInit == Init => TypeInv
  <1> SUFFICES ASSUME Init PROVE TypeInv
    OBVIOUS
  <1> DEFINE row == NewOp("acquire", "idle", Nil)
  <1>1. op = [o \in Ops |-> row]
    BY DEF Init, Idle
  <1>2. "acquire" \in AllKinds /\ "idle" \in Pc /\ "idle" \notin AboutABox /\ Nil \in Maybe
    BY DEF AllKinds, Pc, AboutABox, Maybe
  <1>3. row \in OpRow /\ row.pc = "idle"
    BY <1>2 DEF NewOp, OpRow
  <1> HIDE DEF row
  <1>4. op \in [Ops -> OpRow]
    BY <1>1, <1>3
  <1>5. PlaceOK
    BY <1>1, <1>2, <1>3 DEF PlaceOK
  <1> QED BY <1>4, <1>5 DEF Init, TypeInv, TypeOK, Maybe, Box

\* With the types, every operation stays where its kind and its sandbox allow.
THEOREM TypeInvHolds == Spec => []TypeInv
  BY TypeInit, TypeStep, PTL DEF Spec

\* No operation leaves the keys, the boxes or its own record malformed: the bind
\* script is never run without a sandbox.
THEOREM BinderTypeCorrect == Spec => []TypeOK
  BY TypeInvHolds, PTL DEF TypeInv

-----------------------------------------------------------------------------
(***************************************************************************)
(* What the scripts guarantee without the lock.                            *)
(***************************************************************************)

\* Only the scripts and lookup's cleanup write the forward key and the records.
LEMMA KeysStep ==
    ASSUME [Next]_vars
    PROVE  \/ UNCHANGED <<conv, meta>>
           \/ \E o \in Ops : DropConv(o)
           \/ \E o \in Ops : UnbindScript(op[o].sb) /\ (UnbindBad(o) \/ Unbind(o))
           \/ \E o \in Ops : BindScript(o, op[o].sb) /\ Bind(o)
  BY DEF Next, Step, OpStep, vars, redis, Start, Retire, FailCommand, Crash, Bury, ExpireLease,
         FailBox, ExpireLock, OutliveLock, AcquireLock, TryLock, GetConv, GetMeta, Health,
         DestroyBad, UnbindBad, RenewLease, Create, Bind, Cleanup, RecheckMeta, RecheckLease, Destroy,
         Unbind, Unlock

\* A forward key points at a record, although operations overlap and locks run out
\* under their holders: luaBind writes both and luaUnbind deletes both.
THEOREM ForwardKeysHaveRecords == Spec => []ForwardKeyHasRecord
  <1>1. Init => ForwardKeyHasRecord
    BY DEF Init, ForwardKeyHasRecord
  <1>2. ForwardKeyHasRecord /\ [Next]_vars => ForwardKeyHasRecord'
    <2> SUFFICES ASSUME ForwardKeyHasRecord, [Next]_vars PROVE ForwardKeyHasRecord'
      OBVIOUS
    <2>1. CASE UNCHANGED <<conv, meta>>
      BY <2>1 DEF ForwardKeyHasRecord
    <2>2. ASSUME NEW o \in Ops, DropConv(o) PROVE ForwardKeyHasRecord'
      BY <2>2 DEF DropConv, ForwardKeyHasRecord
    <2>3. ASSUME NEW s, UnbindScript(s) PROVE ForwardKeyHasRecord'
      BY <2>3 DEF UnbindScript, ForwardKeyHasRecord
    <2>4. ASSUME NEW o, NEW s, BindScript(o, s) PROVE ForwardKeyHasRecord'
      BY <2>4 DEF BindScript, ForwardKeyHasRecord
    <2> QED BY <2>1, <2>2, <2>3, <2>4, KeysStep
  <1> QED BY <1>1, <1>2, PTL DEF Spec

(***************************************************************************)
(* No sandbox is lost.  A record is deleted only when its sandbox is gone, *)
(* and a sandbox that is gone does not come back.                          *)
(***************************************************************************)

UnbindsTheGone ==
    \A o \in Ops : op[o].pc \in {"unbind", "unbindBad"} => box[op[o].sb] = "gone"

HandledBy(o, s) == op[o].pc \in {"bind", "cleanup"} /\ op[o].sb = s

AccountInv == UnbindsTheGone /\ RunningSandboxesAreAccountedFor

\* A step that leaves the boxes alone and takes nothing off the books.
LEMMA AccountKept ==
    ASSUME AccountInv, UNCHANGED box, meta \subseteq meta', stranded \subseteq stranded',
           \A o \in Ops, s \in Sandboxes : HandledBy(o, s) =>
                HandledBy(o, s)' \/ s \in meta' \cup stranded'
    PROVE  RunningSandboxesAreAccountedFor'
  <1> SUFFICES ASSUME NEW s \in Sandboxes, box'[s] \in {"running", "broken"}
               PROVE  \/ s \in meta' \/ s \in stranded'
                      \/ \E o \in Ops : HandledBy(o, s)'
    BY DEF RunningSandboxesAreAccountedFor, HandledBy
  <1>1. \/ s \in meta \/ s \in stranded \/ \E o \in Ops : HandledBy(o, s)
    BY DEF AccountInv, RunningSandboxesAreAccountedFor, HandledBy
  <1> QED BY <1>1

\* A step of one operation that takes it to no unbinding and makes no box run.
LEMMA UnbindsKept ==
    ASSUME TypeInv, AccountInv, NEW o \in Ops,
           \A p \in Ops \ {o} : op'[p] = op[p],
           op'[o].pc \notin {"unbind", "unbindBad"},
           \A s \in Sandboxes : box[s] = "gone" => box'[s] = "gone"
    PROVE  UnbindsTheGone'
  <1>1. \A p \in Ops : op[p].pc \in {"unbind", "unbindBad"} => op[p].sb \in Sandboxes
    BY DEF TypeInv, PlaceOK, AboutABox
  <1> QED BY <1>1 DEF AccountInv, UnbindsTheGone

\* Most steps neither touch a box or the books nor involve a sandbox that is
\* being bound or cleaned up.
LEMMA AccountQuiet ==
    ASSUME TypeInv, AccountInv, NEW o \in Ops,
           UNCHANGED <<box, stranded>>, meta \subseteq meta',
           \A p \in Ops \ {o} : op'[p] = op[p],
           op'[o].pc \notin {"unbind", "unbindBad"},
           op[o].pc \notin {"bind", "cleanup"}
    PROVE  AccountInv'
  <1>1. \A p \in Ops, s \in Sandboxes : HandledBy(p, s) => HandledBy(p, s)'
    BY DEF HandledBy
  <1>2. RunningSandboxesAreAccountedFor'
    BY <1>1, AccountKept
  <1> QED BY <1>2, UnbindsKept DEF AccountInv

LEMMA AccountStep ==
    ASSUME TypeInv, AccountInv, [Next]_vars PROVE AccountInv'
  <1>1. CASE UNCHANGED vars
    BY <1>1 DEF vars, redis, AccountInv, UnbindsTheGone, RunningSandboxesAreAccountedFor
  <1>2. ASSUME NEW o \in Ops, Start(o) PROVE AccountInv'
    <2>1. op'[o].pc \in {"lock", "tryLock", "getConv"} /\ \A p \in Ops \ {o} : op'[p] = op[p]
      BY <1>2 DEF Start, NewOp, TypeInv, TypeOK
    <2> QED BY <1>2, <2>1, AccountQuiet DEF Start, At, redis
  <1>3. ASSUME NEW o \in Ops, AcquireLock(o) \/ TryLock(o) PROVE AccountInv'
    <2>1. PICK pc \in {"getConv", "recheckMeta", "crashed", "done"} : Goto(o, pc)
      BY <1>3 DEF AcquireLock, TryLock, Locked
    <2> QED BY <1>3, <2>1, GotoEffect, AccountQuiet DEF Moves, AcquireLock, TryLock, At
  <1>4. ASSUME NEW o \in Ops, GetConv(o) PROVE AccountInv'
    <2>1. CASE NotBound(o)
      BY <1>4, <2>1, NotBoundEffect, AccountQuiet DEF Moves, GetConv, At, redis
    <2>2. CASE \E pc \in {"destroy", "getMeta"} : GotoWith(o, pc, conv)
      <3>1. op'[o].pc \in {"destroy", "getMeta"} /\ \A p \in Ops \ {o} : op'[p] = op[p]
        BY <2>2 DEF GotoWith, TypeInv, TypeOK, OpRow
      <3> QED BY <1>4, <3>1, AccountQuiet DEF GetConv, At, redis
    <2> QED BY <1>4, <2>1, <2>2 DEF GetConv
  <1>5. ASSUME NEW o \in Ops, GetMeta(o) PROVE AccountInv'
    BY <1>5, GotoEffect, AccountQuiet DEF Moves, GetMeta, At, redis
  <1>6. ASSUME NEW o \in Ops, DropConv(o) PROVE AccountInv'
    BY <1>6, NotBoundEffect, AccountQuiet DEF Moves, DropConv, At
  <1>7. ASSUME NEW o \in Ops, Health(o) PROVE AccountInv'
    <2>1. CASE box[op[o].sb] = "gone" /\ Goto(o, "unbindBad")
      <3>1. Moves(o, {"unbindBad"}) /\ UNCHANGED <<box, meta, stranded>>
            /\ op[o].pc = "health"
        BY <1>7, <2>1, GotoEffect DEF Health, redis, At
      <3>2. UnbindsTheGone'
        BY <2>1, <3>1 DEF Moves, AccountInv, UnbindsTheGone
      <3>3. \A p \in Ops, s \in Sandboxes : HandledBy(p, s) => HandledBy(p, s)'
        BY <3>1 DEF Moves, HandledBy
      <3> QED BY <3>1, <3>2, <3>3, AccountKept DEF AccountInv
    <2>2. CASE Leave(o)
      BY <1>7, <2>2, LeaveEffect, AccountQuiet DEF Moves, Health, At, redis
    <2>3. CASE \E pc \in {"renew", "destroyBad"} : Goto(o, pc)
      BY <1>7, <2>3, GotoEffect, AccountQuiet DEF Moves, Health, At, redis
    <2> QED BY <1>7, <2>1, <2>2, <2>3 DEF Health
  <1>8. ASSUME NEW o \in Ops, DestroyBad(o) \/ Destroy(o) PROVE AccountInv'
    <2>1. /\ op[o].pc \in {"destroyBad", "destroy"}
          /\ op[o].sb \in Sandboxes
          /\ UNCHANGED <<meta, stranded>>
      BY <1>8 DEF DestroyBad, Destroy, At, redis, TypeInv, PlaceOK, AboutABox
    <2>2. Moves(o, {"unbind", "unbindBad", "done", "unlock"})
      BY <1>8, GotoEffect, LeaveEffect DEF DestroyBad, Destroy, Moves
    <2>3. /\ UNCHANGED box \/ box' = [box EXCEPT ![op[o].sb] = "gone"]
          /\ op'[o].pc \in {"unbind", "unbindBad"} => box'[op[o].sb] = "gone"
      BY <1>8, <2>1, LeaveEffect DEF DestroyBad, Destroy, DestroyBox, Moves, TypeInv, TypeOK
    <2>4. \A s \in Sandboxes : /\ box[s] = "gone" => box'[s] = "gone"
                               /\ box'[s] \in {"running", "broken"} => box'[s] = box[s]
      BY <2>1, <2>3 DEF TypeInv, TypeOK
    <2>5. \A p \in Ops : op[p].pc \in {"unbind", "unbindBad"} => op[p].sb \in Sandboxes
      BY DEF TypeInv, PlaceOK, AboutABox
    <2>6. UnbindsTheGone'
      BY <2>2, <2>3, <2>4, <2>5 DEF Moves, AccountInv, UnbindsTheGone
    <2>7. RunningSandboxesAreAccountedFor'
      BY <2>1, <2>2, <2>4 DEF Moves, AccountInv, RunningSandboxesAreAccountedFor
    <2> QED BY <2>6, <2>7 DEF AccountInv
  <1>9. ASSUME NEW o \in Ops, UnbindBad(o) \/ Unbind(o) PROVE AccountInv'
    <2>1. /\ op[o].pc \in {"unbindBad", "unbind"}
          /\ UNCHANGED <<box, stranded>>
          /\ meta' = meta \ {op[o].sb}
          /\ box[op[o].sb] = "gone"
      BY <1>9 DEF UnbindBad, Unbind, UnbindScript, At, AccountInv, UnbindsTheGone
    <2>2. Moves(o, {"done", "unlock", "create"})
      BY <1>9, NotBoundEffect, LeaveEffect DEF UnbindBad, Unbind, Moves
    <2>3. UnbindsTheGone'
      BY <2>1, <2>2, UnbindsKept DEF Moves
    <2>4. RunningSandboxesAreAccountedFor'
      BY <2>1, <2>2 DEF Moves, AccountInv, RunningSandboxesAreAccountedFor
    <2> QED BY <2>3, <2>4 DEF AccountInv
  <1>10. ASSUME NEW o \in Ops, RenewLease(o) PROVE AccountInv'
    <2>1. op'[o].pc \in {"done", "unlock"} /\ \A p \in Ops \ {o} : op'[p] = op[p]
      BY <1>10, LeaveEffect DEF RenewLease, Moves, TypeInv, TypeOK, OpRow
    <2> QED BY <1>10, <2>1, AccountQuiet DEF RenewLease, At
  <1>11. ASSUME NEW o \in Ops, Create(o) PROVE AccountInv'
    <2>1. op[o].pc = "create" /\ UNCHANGED meta
      BY <1>11 DEF Create, At, redis
    <2>2. CASE Leave(o) /\ UNCHANGED <<box, stranded>>
      BY <2>1, <2>2, LeaveEffect, AccountQuiet DEF Moves
    <2>3. ASSUME NEW s \in Sandboxes, box[s] = "unborn",
                 box' = [box EXCEPT ![s] = "running"],
                 \/ GotoWith(o, "bind", s) /\ UNCHANGED stranded
                 \/ Leave(o) /\ stranded' = stranded \cup {s}
          PROVE  AccountInv'
      <3>1. \A t \in Sandboxes \ {s} : box'[t] = box[t]
        BY <2>3 DEF TypeInv, TypeOK
      <3>2. /\ \A p \in Ops \ {o} : op'[p] = op[p]
            /\ op'[o].pc \in {"bind", "done", "unlock"}
            /\ stranded \subseteq stranded'
            /\ s \in stranded' \/ HandledBy(o, s)'
        BY <2>3, LeaveEffect DEF GotoWith, HandledBy, Moves, TypeInv, TypeOK, OpRow
      <3>3. UnbindsTheGone'
        BY <2>3, <3>1, <3>2, UnbindsKept
      <3>4. RunningSandboxesAreAccountedFor'
        BY <2>1, <3>1, <3>2
           DEF HandledBy, AccountInv, RunningSandboxesAreAccountedFor
      <3> QED BY <3>3, <3>4 DEF AccountInv
    <2> QED BY <1>11, <2>2, <2>3 DEF Create
  <1>12. ASSUME NEW o \in Ops, Bind(o) PROVE AccountInv'
    <2>1. /\ UNCHANGED <<box, stranded>>
          /\ \A p \in Ops \ {o} : op'[p] = op[p]
          /\ \/ op'[o].pc = "unlock" /\ op[o].sb \in meta'
             \/ op'[o].pc = "cleanup" /\ op'[o].sb = op[o].sb
          /\ meta \subseteq meta'
      BY <1>12, GotoEffect DEF Bind, BindScript, Moves, TypeInv, TypeOK, OpRow
    <2>2. \A p \in Ops, s \in Sandboxes : HandledBy(p, s) => HandledBy(p, s)' \/ s \in meta'
      BY <2>1 DEF HandledBy
    <2>3. UnbindsTheGone'
      BY <2>1, UnbindsKept
    <2> QED BY <2>1, <2>2, <2>3, AccountKept DEF AccountInv
  <1>13. ASSUME NEW o \in Ops, Cleanup(o) PROVE AccountInv'
    <2>1. op[o].pc = "cleanup" /\ op[o].sb \in Sandboxes /\ UNCHANGED meta
      BY <1>13 DEF Cleanup, At, redis, TypeInv, PlaceOK, AboutABox
    <2>2. /\ UNCHANGED box \/ box' = [box EXCEPT ![op[o].sb] = "gone"]
          /\ stranded \subseteq stranded'
          /\ op[o].sb \in stranded' \/ box'[op[o].sb] = "gone"
      BY <1>13, <2>1 DEF Cleanup, DestroyBox, TypeInv, TypeOK
    <2>3. /\ \A p \in Ops \ {o} : op'[p] = op[p]
          /\ op'[o].pc \in {"getConv", "done", "unlock"}
      BY <1>13, LeaveEffect DEF Cleanup, GotoWith, Moves, TypeInv, TypeOK, OpRow
    <2>4. \A s \in Sandboxes : /\ box[s] = "gone" => box'[s] = "gone"
                               /\ box'[s] \in {"running", "broken"} => box'[s] = box[s]
      BY <2>1, <2>2 DEF TypeInv, TypeOK
    <2>5. UnbindsTheGone'
      BY <2>3, <2>4, UnbindsKept
    <2>6. RunningSandboxesAreAccountedFor'
      BY <2>1, <2>2, <2>3, <2>4 DEF AccountInv, RunningSandboxesAreAccountedFor
    <2> QED BY <2>5, <2>6 DEF AccountInv
  <1>14. ASSUME NEW o \in Ops, RecheckMeta(o) PROVE AccountInv'
    <2>1. op[o].kind \in {"reap", "drain", "heartbeat"}
      BY <1>14 DEF RecheckMeta, At, TypeInv, PlaceOK
    <2>2. Moves(o, {"done", "unlock", "recheckLease", "destroy", "renew"})
      BY <1>14, <2>1, GotoEffect, LeaveEffect DEF RecheckMeta, Is, Moves
    <2> QED BY <1>14, <2>2, AccountQuiet DEF Moves, RecheckMeta, At, redis
  <1>15. ASSUME NEW o \in Ops, RecheckLease(o) PROVE AccountInv'
    <2>1. Moves(o, {"done", "unlock", "destroy"})
      BY <1>15, GotoEffect, LeaveEffect DEF RecheckLease, Moves
    <2> QED BY <1>15, <2>1, AccountQuiet DEF Moves, RecheckLease, At, redis
  <1>16. ASSUME NEW o \in Ops, Unlock(o) PROVE AccountInv'
    BY <1>16, GotoEffect, AccountQuiet DEF Moves, Unlock, At
  <1>17. ASSUME NEW o \in Ops, Retire(o) \/ Bury(o) PROVE AccountInv'
    <2>1. op'[o].pc = "idle" /\ \A p \in Ops \ {o} : op'[p] = op[p]
      BY <1>17 DEF Retire, Bury, Idle, NewOp, TypeInv, TypeOK
    <2> QED BY <1>17, <2>1, AccountQuiet DEF Retire, Bury, At, redis
  <1>18. ASSUME NEW o \in Ops, FailCommand(o) PROVE AccountInv'
    BY <1>18, LeaveEffect, AccountQuiet DEF Moves, FailCommand, redis
  <1>19. ASSUME NEW o \in Ops, Crash(o) PROVE AccountInv'
    <2>1. Moves(o, {"crashed"}) /\ UNCHANGED <<box, meta>> /\ stranded \subseteq stranded'
          /\ (op[o].pc \in {"bind", "cleanup"} => op[o].sb \in stranded')
      BY <1>19, GotoEffect DEF Crash, redis
    <2>2. \A p \in Ops, s \in Sandboxes :
              HandledBy(p, s) => HandledBy(p, s)' \/ s \in stranded'
      BY <2>1 DEF HandledBy, Moves
    <2>3. UnbindsTheGone'
      BY <2>1, UnbindsKept DEF Moves
    <2> QED BY <2>1, <2>2, <2>3, AccountKept DEF AccountInv
  <1>20. ASSUME NEW s \in Sandboxes, FailBox(s) PROVE AccountInv'
    <2>1. /\ UNCHANGED <<meta, op, stranded>>
          /\ box[s] = "running"
          /\ \A t \in Sandboxes \ {s} : box'[t] = box[t]
      BY <1>20 DEF FailBox, redis, TypeInv, TypeOK
    <2>2. \A o \in Ops : op[o].pc \in {"unbind", "unbindBad"} => op[o].sb \in Sandboxes
      BY DEF TypeInv, PlaceOK, AboutABox
    <2>3. UnbindsTheGone'
      BY <2>1, <2>2 DEF AccountInv, UnbindsTheGone
    <2>4. RunningSandboxesAreAccountedFor'
      BY <2>1 DEF AccountInv, RunningSandboxesAreAccountedFor
    <2> QED BY <2>3, <2>4 DEF AccountInv
  <1>21. ASSUME UNCHANGED <<meta, box, op, stranded>> PROVE AccountInv'
    BY <1>21 DEF AccountInv, UnbindsTheGone, RunningSandboxesAreAccountedFor
  <1>22. (\E s \in Sandboxes : ExpireLease(s)) \/ ExpireLock \/ OutliveLock
            => UNCHANGED <<meta, box, op, stranded>>
    BY DEF ExpireLease, ExpireLock, OutliveLock
  <1> QED
    BY <1>1, <1>2, <1>3, <1>4, <1>5, <1>6, <1>7, <1>8, <1>9, <1>10, <1>11, <1>12,
       <1>13, <1>14, <1>15, <1>16, <1>17, <1>18, <1>19, <1>20, <1>21, <1>22
       DEF Next, Step, OpStep

\* Whatever is lost or late, a sandbox that runs is recorded, in the hands of an
\* operation that will bind or destroy it, or known to be out of its creator's reach.
THEOREM NoSandboxIsLost == Spec => []RunningSandboxesAreAccountedFor
  <1>1. Init => AccountInv
    BY DEF Init, Idle, NewOp, AccountInv, UnbindsTheGone, RunningSandboxesAreAccountedFor
  <1>2. TypeInv /\ AccountInv /\ [Next]_vars => AccountInv'
    BY AccountStep
  <1>3. AccountInv => RunningSandboxesAreAccountedFor
    BY DEF AccountInv
  <1> QED BY <1>1, <1>2, <1>3, TypeInvHolds, PTL DEF Spec

-----------------------------------------------------------------------------
(***************************************************************************)
(* What the session lock adds while it keeps the operations apart, that is *)
(* until one outlives it or a LookupBinding, which takes no lock, deletes  *)
(* a key: one operation at a time is past its lock, so what it has read of *)
(* the keys stays true until it acts on it.                                *)
(***************************************************************************)

Critical == Pc \ {"idle", "lock", "tryLock", "done", "crashed"}

\* What an operation past its lock knows.
Knows(o) ==
    op[o].kind # "lookup" =>
        /\ op[o].pc \in Critical => lock = o
        /\ op[o].pc \in {"getMeta", "dropConv", "health"} => conv = op[o].sb
        /\ op[o].pc = "dropConv" => op[o].sb \notin meta
        /\ op[o].pc = "renew" /\ op[o].kind = "acquire" => conv = op[o].sb
        /\ op[o].pc = "destroy" /\ op[o].kind = "reap" => op[o].sb \notin lease
        /\ op[o].pc = "unlock" /\ op[o].result # Nil => conv = op[o].result

\* Where a LookupBinding can be.
LookupPlaces == {"getConv", "getMeta", "dropConv", "health", "destroyBad", "unbindBad",
                 "done", "crashed"}

\* What is true of an operation wherever it is.
Record(o) ==
    /\ op[o].kind = "lookup" => op[o].pc \in LookupPlaces
    /\ op[o].pc \notin {"unlock", "done", "crashed"} => op[o].result = Nil

LockInv == OneRecord /\ \A o \in Ops : Knows(o) /\ Record(o)

\* A step of the operation that holds the lock: nobody else knows anything.
LEMMA HolderStep ==
    ASSUME TypeInv, LockInv, NEW o \in Ops, op[o].kind # "lookup", op[o].pc \in Critical,
           \A p \in Ops \ {o} : op'[p] = op[p],
           Knows(o)', Record(o)', OneRecord'
    PROVE  LockInv'
  <1>1. ASSUME NEW p \in Ops \ {o} PROVE Knows(p)' /\ Record(p)'
    <2>1. op'[p] = op[p] /\ (op[p].kind # "lookup" => op[p].pc \notin Critical)
      BY DEF LockInv, Knows
    <2>2. op[p].kind # "lookup" =>
              op[p].pc \notin {"getMeta", "dropConv", "health", "renew", "destroy", "unlock"}
      BY <2>1 DEF Critical, Pc
    <2>3. Record(p)'
      BY <2>1 DEF LockInv, Record
    <2> QED BY <2>1, <2>2, <2>3 DEF Knows
  <1> QED BY <1>1 DEF LockInv

\* The holder reads something, or fails, and goes to its release or beyond.
LEMMA HolderMoves ==
    ASSUME TypeInv, LockInv, NEW o \in Ops, op[o].kind # "lookup",
           op[o].pc \in Critical \ {"unlock"},
           Moves(o, Critical), UNCHANGED lock, Knows(o)', OneRecord'
    PROVE  LockInv'
  <1>1. op[o].pc \notin {"unlock", "done", "crashed"}
    BY DEF Critical
  <1>2. Record(o)'
    BY <1>1 DEF Moves, LockInv, Record
  <1> QED BY <1>2, HolderStep DEF Moves

LEMMA HolderLeaves ==
    ASSUME TypeInv, LockInv, NEW o \in Ops, op[o].kind # "lookup",
           op[o].pc \in Critical \ {"unlock"},
           Leave(o), UNCHANGED lock, OneRecord'
    PROVE  LockInv'
  <1>1. lock = o /\ op[o].result = Nil
    BY DEF LockInv, Knows, Record, Critical
  <1>2. Moves(o, {"unlock"})
    BY <1>1, LeaveEffect DEF Moves
  <1>3. Knows(o)'
    BY <1>1, <1>2 DEF Moves, Knows
  <1>4. Record(o)'
    BY <1>1, <1>2 DEF Moves, Record
  <1> QED BY <1>2, <1>3, <1>4, HolderStep DEF Moves

LEMMA HolderNotBound ==
    ASSUME TypeInv, LockInv, NEW o \in Ops, op[o].kind # "lookup",
           op[o].pc \in Critical \ {"unlock"},
           NotBound(o), UNCHANGED lock, OneRecord'
    PROVE  LockInv'
  <1>1. CASE Leave(o)
    BY <1>1, HolderLeaves
  <1>2. CASE Goto(o, "create")
    <2>1. Moves(o, {"create"}) /\ lock = o
      BY <1>2, GotoEffect DEF LockInv, Knows
    <2>2. Knows(o)'
      BY <2>1 DEF Moves, Knows
    <2>3. Moves(o, Critical)
      BY <2>1 DEF Moves, Critical, Pc
    <2> QED BY <2>2, <2>3, HolderMoves
  <1> QED BY <1>1, <1>2 DEF NotBound

\* A step of an operation that is not past its lock when it is over.
LEMMA OutsideStep ==
    ASSUME TypeInv, LockInv, NEW o \in Ops, UNCHANGED <<conv, meta, lease, lock>>,
           \A p \in Ops \ {o} : op'[p] = op[p],
           op'[o].pc \in {"idle", "lock", "tryLock", "done", "crashed"}, Record(o)'
    PROVE  LockInv'
  <1>1. \A p \in Ops \ {o} : Knows(p)' /\ Record(p)'
    BY DEF LockInv, Knows, Record
  <1>2. Knows(o)'
    BY DEF Knows, Critical
  <1> QED BY <1>1, <1>2 DEF LockInv, OneRecord

\* Nobody is past a lock that is free, and who takes it knows nothing yet.
LEMMA TakesLock ==
    ASSUME TypeInv, LockInv, NEW o \in Ops, AcquireLock(o) \/ TryLock(o)
    PROVE  LockInv'
  <1>1. /\ op[o].pc \in {"lock", "tryLock"}
        /\ UNCHANGED <<conv, meta, lease>>
        /\ op[o].kind # "lookup" /\ op[o].result = Nil
    BY DEF AcquireLock, TryLock, At, LockInv, Record, TypeInv, PlaceOK
  <1>2. CASE lock = Nil /\ lock' = o /\ \E pc \in {"getConv", "recheckMeta", "crashed"} : Goto(o, pc)
    <2>1. Moves(o, {"getConv", "recheckMeta", "crashed"})
      BY <1>2, GotoEffect DEF Moves
    <2>2. \A p \in Ops : op[p].kind # "lookup" => op[p].pc \notin Critical
      BY <1>2, NilAssumption DEF LockInv, Knows
    <2>3. ASSUME NEW p \in Ops \ {o} PROVE Knows(p)' /\ Record(p)'
      <3>1. op'[p] = op[p] /\ (op[p].kind # "lookup" => op[p].pc \notin Critical)
        BY <2>1, <2>2 DEF Moves
      <3>2. op[p].kind # "lookup" =>
                op[p].pc \notin {"getMeta", "dropConv", "health", "renew", "destroy", "unlock"}
        BY <3>1 DEF Critical, Pc
      <3> QED BY <3>1, <3>2 DEF LockInv, Knows, Record
    <2>4. Knows(o)' /\ Record(o)'
      BY <1>1, <1>2, <2>1 DEF Moves, Knows, Record
    <2> QED BY <1>1, <2>3, <2>4 DEF LockInv, OneRecord
  <1>3. CASE UNCHANGED lock /\ Goto(o, "done")
    <2>1. Moves(o, {"done"})
      BY <1>3, GotoEffect
    <2> QED BY <1>1, <1>3, <2>1, OutsideStep DEF Moves, Record
  <1> QED BY <1>2, <1>3 DEF AcquireLock, TryLock, Locked

\* A LookupBinding that goes on and deletes nothing.
LEMMA LookupStep ==
    ASSUME TypeInv, LockInv, NEW o \in Ops, UNCHANGED <<conv, meta, lease, lock>>,
           \A p \in Ops \ {o} : op'[p] = op[p],
           op'[o].kind = "lookup", op'[o].pc \in LookupPlaces, op'[o].result = Nil
    PROVE  LockInv'
  <1>1. \A p \in Ops \ {o} : Knows(p)' /\ Record(p)'
    BY DEF LockInv, Knows, Record
  <1>2. Knows(o)' /\ Record(o)'
    BY DEF Knows, Record
  <1> QED BY <1>1, <1>2 DEF LockInv, OneRecord

\* Where a LookupBinding goes: it never touches the lock and has no answer to keep.
LEMMA LookupMoves ==
    ASSUME TypeInv, LockInv, NEW o \in Ops, op[o].kind = "lookup",
           OpStep(o) \/ FailCommand(o)
    PROVE  /\ \A p \in Ops \ {o} : op'[p] = op[p]
           /\ op'[o].kind = "lookup" /\ op'[o].pc \in LookupPlaces
           /\ op'[o].result = Nil
           /\ op'[o] # op[o]
           /\ UNCHANGED lock
  <1> DEFINE Goes == /\ \A p \in Ops \ {o} : op'[p] = op[p]
                     /\ op'[o].kind = "lookup" /\ op'[o].pc \in LookupPlaces
                     /\ op'[o].result = Nil
                     /\ op'[o] # op[o]
  <1>1. op[o].pc \in LookupPlaces
    BY DEF LockInv, Record
  <1>2. ASSUME op[o].pc \notin {"done", "crashed"}, Leave(o) PROVE Goes
    <2>1. Goto(o, "done")
      BY <1>2 DEF Leave, Is
    <2>2. Moves(o, {"done"}) /\ op[o].result = Nil
      BY <1>1, <1>2, <2>1, GotoEffect DEF LockInv, Record, LookupPlaces
    <2> QED BY <1>2, <2>2 DEF Moves, LookupPlaces
  <1>3. ASSUME op[o].pc \notin {"done", "crashed"},
               NEW pc \in LookupPlaces, pc # op[o].pc, Goto(o, pc) PROVE Goes
    <2>1. Moves(o, {pc}) /\ op[o].result = Nil
      BY <1>1, <1>3, GotoEffect DEF LockInv, Record, LookupPlaces
    <2> QED BY <1>3, <2>1 DEF Moves
  <1>4. NotBound(o) => Leave(o)
    BY DEF NotBound, Is
  <1>5. CASE GetConv(o)
    <2>1. op[o].pc = "getConv" /\ UNCHANGED lock
      BY <1>5 DEF GetConv, At, redis
    <2>2. CASE NotBound(o)
      BY <1>2, <1>4, <2>1, <2>2
    <2>3. CASE GotoWith(o, "getMeta", conv)
      <3>1. op[o].result = Nil
        BY <2>1 DEF LockInv, Record
      <3> QED BY <2>1, <2>3, <3>1 DEF GotoWith, LookupPlaces, TypeInv, TypeOK, OpRow
    <2> QED BY <1>5, <2>1, <2>2, <2>3 DEF GetConv, Is
  <1>6. CASE GetMeta(o)
    BY <1>3, <1>6 DEF GetMeta, At, redis, LookupPlaces
  <1>7. CASE DropConv(o) \/ UnbindBad(o) \/ FailCommand(o)
    <2>1. op[o].pc \notin {"done", "crashed"} /\ UNCHANGED lock
      BY <1>7 DEF DropConv, UnbindBad, FailCommand, At, redis
    <2> QED BY <1>2, <1>4, <1>7, <2>1 DEF DropConv, UnbindBad, FailCommand
  <1>8. CASE Health(o)
    <2>1. op[o].pc = "health" /\ UNCHANGED lock
      BY <1>8 DEF Health, At, redis
    <2>2. Leave(o) \/ Goto(o, "unbindBad") \/ Goto(o, "destroyBad")
      BY <1>8 DEF Health, Is
    <2> QED BY <1>2, <1>3, <2>1, <2>2 DEF LookupPlaces
  <1>9. CASE DestroyBad(o)
    <2>1. op[o].pc = "destroyBad" /\ UNCHANGED lock
      BY <1>9 DEF DestroyBad, At, redis
    <2>2. Leave(o) \/ Goto(o, "unbindBad")
      BY <1>9 DEF DestroyBad
    <2> QED BY <1>2, <1>3, <2>1, <2>2 DEF LookupPlaces
  <1>10. op[o].pc \notin {"lock", "tryLock", "renew", "create", "bind", "cleanup",
                          "recheckMeta", "recheckLease", "destroy", "unbind", "unlock"}
    BY <1>1 DEF LookupPlaces
  <1> QED
    BY <1>5, <1>6, <1>7, <1>8, <1>9, <1>10
       DEF OpStep, At, AcquireLock, TryLock, RenewLease, Create, Bind, Cleanup,
           RecheckMeta, RecheckLease, Destroy, Unbind, Unlock

LEMMA LockStep ==
    ASSUME TypeInv, LockInv, [Next]_vars, ~raced' PROVE LockInv'
  <1>0. OneRecord
    BY DEF LockInv
  <1>1. CASE UNCHANGED vars
    BY <1>1 DEF vars, redis, LockInv, Knows, Record, OneRecord
  <1>2. ASSUME NEW o \in Ops, Start(o) PROVE LockInv'
    <2>1. /\ \A p \in Ops \ {o} : op'[p] = op[p]
          /\ op'[o].result = Nil
          /\ \/ op'[o].pc \in {"lock", "tryLock"} /\ op'[o].kind # "lookup"
             \/ op'[o].pc = "getConv" /\ op'[o].kind = "lookup"
      BY <1>2 DEF Start, NewOp, TypeInv, TypeOK
    <2>2. UNCHANGED <<conv, meta, lease, lock>>
      BY <1>2 DEF Start, redis
    <2> QED BY <2>1, <2>2, OutsideStep, LookupStep DEF Record, LookupPlaces
  <1>3. ASSUME NEW o \in Ops, AcquireLock(o) \/ TryLock(o) PROVE LockInv'
    BY <1>3, TakesLock
  <1>4. ASSUME NEW o \in Ops, op[o].kind # "lookup", GetConv(o) PROVE LockInv'
    <2>1. /\ op[o].pc \in Critical \ {"unlock"} /\ UNCHANGED redis /\ OneRecord'
      BY <1>0, <1>4 DEF GetConv, At, Critical, Pc, redis, OneRecord
    <2>2. CASE NotBound(o)
      BY <1>4, <2>1, <2>2, HolderNotBound DEF redis
    <2>3. CASE GotoWith(o, IF Is(o, {"release"}) THEN "destroy" ELSE "getMeta", conv)
      <3>1. /\ \A p \in Ops \ {o} : op'[p] = op[p]
            /\ op'[o].sb = conv /\ op'[o].kind = op[o].kind /\ op'[o].result = op[o].result
            /\ \/ op'[o].pc = "getMeta"
               \/ op'[o].pc = "destroy" /\ op[o].kind = "release"
        BY <2>3 DEF GotoWith, Is, TypeInv, TypeOK, OpRow
      <3>2. lock = o /\ op[o].result = Nil
        BY <1>4, <2>1 DEF LockInv, Knows, Record, Critical
      <3>3. Knows(o)' /\ Record(o)'
        BY <1>0, <1>4, <2>1, <3>1, <3>2 DEF Knows, Record, redis
      <3> QED BY <1>4, <2>1, <3>1, <3>3, HolderStep
    <2> QED BY <1>4, <2>2, <2>3 DEF GetConv
  <1>5. ASSUME NEW o \in Ops, op[o].kind # "lookup", GetMeta(o) PROVE LockInv'
    <2>1. /\ op[o].pc \in Critical \ {"unlock"} /\ UNCHANGED redis /\ OneRecord'
          /\ lock = o /\ conv = op[o].sb
      BY <1>0, <1>5 DEF GetMeta, At, Critical, Pc, redis, OneRecord, LockInv, Knows
    <2>2. /\ Moves(o, {"health", "dropConv"})
          /\ op'[o].pc = "dropConv" => op[o].sb \notin meta
      BY <1>5, GotoEffect DEF GetMeta, Moves
    <2>3. Knows(o)'
      BY <2>1, <2>2 DEF Moves, Knows, redis
    <2>4. Moves(o, Critical)
      BY <2>2 DEF Moves, Critical, Pc
    <2> QED BY <1>5, <2>1, <2>3, <2>4, HolderMoves DEF redis
  <1>6. ASSUME NEW o \in Ops, op[o].kind # "lookup", DropConv(o) PROVE LockInv'
    <2>1. /\ op[o].pc \in Critical \ {"unlock"} /\ UNCHANGED <<meta, lease, lock>>
          /\ conv = op[o].sb /\ op[o].sb \notin meta
      BY <1>6 DEF DropConv, At, Critical, Pc, LockInv, Knows
    <2>2. OneRecord'
      BY <1>0, <1>6, <2>1 DEF OneRecord
    <2> QED BY <1>6, <2>1, <2>2, HolderNotBound DEF DropConv
  <1>7. ASSUME NEW o \in Ops, op[o].kind # "lookup", Health(o) PROVE LockInv'
    <2>1. /\ op[o].pc \in Critical \ {"unlock"} /\ UNCHANGED redis /\ OneRecord'
          /\ lock = o /\ conv = op[o].sb
      BY <1>0, <1>7 DEF Health, At, Critical, Pc, redis, OneRecord, LockInv, Knows
    <2>2. ASSUME NEW pc \in {"renew", "unbindBad", "destroyBad"}, Goto(o, pc)
          PROVE  LockInv'
      <3>1. Moves(o, {pc}) /\ pc \in Critical
        BY <2>2, GotoEffect DEF Critical, Pc
      <3>2. Knows(o)'
        BY <2>1, <2>2, <3>1 DEF Moves, Knows, redis
      <3> QED BY <1>7, <2>1, <3>1, <3>2, HolderMoves DEF redis, Moves
    <2>3. CASE Leave(o)
      BY <1>7, <2>1, <2>3, HolderLeaves DEF redis
    <2> QED BY <1>7, <2>2, <2>3 DEF Health
  <1>8. ASSUME NEW o \in Ops, op[o].kind # "lookup", DestroyBad(o) \/ Destroy(o) PROVE LockInv'
    <2>1. /\ op[o].pc \in Critical \ {"unlock"} /\ UNCHANGED redis /\ OneRecord'
          /\ lock = o
      BY <1>0, <1>8 DEF DestroyBad, Destroy, At, Critical, Pc, redis, OneRecord, LockInv, Knows
    <2>2. ASSUME NEW pc \in {"unbind", "unbindBad"}, Goto(o, pc) PROVE LockInv'
      <3>1. Moves(o, {pc}) /\ pc \in Critical
        BY <2>2, GotoEffect DEF Critical, Pc
      <3>2. Knows(o)'
        BY <2>1, <2>2, <3>1 DEF Moves, Knows, redis
      <3> QED BY <1>8, <2>1, <3>1, <3>2, HolderMoves DEF redis, Moves
    <2>3. CASE Leave(o)
      BY <1>8, <2>1, <2>3, HolderLeaves DEF redis
    <2> QED BY <1>8, <2>2, <2>3 DEF DestroyBad, Destroy
  <1>9. ASSUME NEW o \in Ops, op[o].kind # "lookup", UnbindBad(o) \/ Unbind(o) PROVE LockInv'
    <2>1. op[o].pc \in Critical \ {"unlock"} /\ UNCHANGED lock
      BY <1>9 DEF UnbindBad, Unbind, At, Critical, Pc
    <2>2. OneRecord'
      BY <1>0, <1>9 DEF UnbindBad, Unbind, UnbindScript, OneRecord
    <2> QED BY <1>9, <2>1, <2>2, HolderNotBound, HolderLeaves DEF UnbindBad, Unbind
  <1>10. ASSUME NEW o \in Ops, op[o].kind # "lookup", RenewLease(o) PROVE LockInv'
    <2>1. /\ op[o].pc \in Critical \ {"unlock"} /\ UNCHANGED <<conv, meta, lock>>
          /\ OneRecord' /\ lock = o
          /\ op[o].kind = "acquire" => conv = op[o].sb
      BY <1>0, <1>10 DEF RenewLease, At, Critical, Pc, OneRecord, LockInv, Knows
    <2>2. CASE op' = [op EXCEPT ![o].pc = "unlock",
                  ![o].result = IF Is(o, {"acquire"}) THEN op[o].sb ELSE Nil]
      <3>1. /\ \A p \in Ops \ {o} : op'[p] = op[p]
            /\ op'[o].pc = "unlock" /\ op'[o].kind = op[o].kind
            /\ op'[o].result = IF op[o].kind = "acquire" THEN op[o].sb ELSE Nil
        BY <2>2 DEF Is, TypeInv, TypeOK, OpRow
      <3>2. Knows(o)' /\ Record(o)'
        BY <1>0, <1>10, <2>1, <3>1 DEF Knows, Record
      <3> QED BY <1>10, <2>1, <3>1, <3>2, HolderStep
    <2>3. CASE Leave(o)
      BY <1>10, <2>1, <2>3, HolderLeaves
    <2> QED BY <1>10, <2>2, <2>3 DEF RenewLease
  <1>11. ASSUME NEW o \in Ops, op[o].kind # "lookup", Create(o) PROVE LockInv'
    <2>1. /\ op[o].pc \in Critical \ {"unlock"} /\ UNCHANGED redis /\ OneRecord'
          /\ lock = o /\ op[o].result = Nil
      BY <1>0, <1>11 DEF Create, At, Critical, Pc, redis, OneRecord, LockInv, Knows, Record
    <2>2. CASE Leave(o)
      BY <1>11, <2>1, <2>2, HolderLeaves DEF redis
    <2>3. ASSUME NEW s \in Sandboxes, GotoWith(o, "bind", s) PROVE LockInv'
      <3>1. /\ \A p \in Ops \ {o} : op'[p] = op[p]
            /\ op'[o].pc = "bind" /\ op'[o].kind = op[o].kind
            /\ op'[o].result = op[o].result
        BY <2>3 DEF GotoWith, TypeInv, TypeOK, OpRow
      <3>2. Knows(o)' /\ Record(o)'
        BY <1>0, <1>11, <2>1, <3>1 DEF Knows, Record, redis
      <3> QED BY <1>11, <2>1, <3>1, <3>2, HolderStep
    <2> QED BY <1>11, <2>2, <2>3 DEF Create
  <1>12. ASSUME NEW o \in Ops, op[o].kind # "lookup", Bind(o) PROVE LockInv'
    <2>1. /\ op[o].pc \in Critical /\ UNCHANGED lock
          /\ lock = o /\ op[o].result = Nil
      BY <1>12 DEF Bind, At, Critical, Pc, LockInv, Knows, Record
    <2>2. OneRecord'
      BY <1>0, <1>12, NilAssumption DEF Bind, BindScript, OneRecord, TypeInv, TypeOK
    <2>3. /\ \A p \in Ops \ {o} : op'[p] = op[p]
          /\ op'[o].kind = op[o].kind
          /\ \/ op'[o].pc = "unlock" /\ op'[o].result = conv'
             \/ op'[o].pc = "cleanup" /\ op'[o].result = op[o].result
      BY <1>12 DEF Bind, BindScript, Goto, TypeInv, TypeOK, OpRow
    <2>4. Knows(o)' /\ Record(o)'
      BY <1>0, <1>12, <2>1, <2>3 DEF Knows, Record
    <2> QED BY <1>12, <2>1, <2>2, <2>3, <2>4, HolderStep
  <1>13. ASSUME NEW o \in Ops, op[o].kind # "lookup", Cleanup(o) PROVE LockInv'
    <2>1. /\ op[o].pc \in Critical \ {"unlock"} /\ UNCHANGED redis /\ OneRecord'
          /\ lock = o /\ op[o].result = Nil
      BY <1>0, <1>13 DEF Cleanup, At, Critical, Pc, redis, OneRecord, LockInv, Knows, Record
    <2>2. CASE Leave(o)
      BY <1>13, <2>1, <2>2, HolderLeaves DEF redis
    <2>3. CASE GotoWith(o, "getConv", Nil)
      <3>1. /\ \A p \in Ops \ {o} : op'[p] = op[p]
            /\ op'[o].pc = "getConv" /\ op'[o].kind = op[o].kind
            /\ op'[o].result = op[o].result
        BY <2>3 DEF GotoWith, TypeInv, TypeOK, OpRow
      <3>2. Knows(o)' /\ Record(o)'
        BY <1>0, <1>13, <2>1, <3>1 DEF Knows, Record, redis
      <3> QED BY <1>13, <2>1, <3>1, <3>2, HolderStep
    <2> QED BY <1>13, <2>2, <2>3 DEF Cleanup
  <1>14. ASSUME NEW o \in Ops, op[o].kind # "lookup", RecheckMeta(o) \/ RecheckLease(o) PROVE LockInv'
    <2>1. /\ op[o].pc \in Critical \ {"unlock"} /\ UNCHANGED redis /\ OneRecord'
          /\ lock = o
      BY <1>0, <1>14 DEF RecheckMeta, RecheckLease, At, Critical, Pc, redis, OneRecord,
                         LockInv, Knows
    <2>2. ASSUME NEW pc \in {"recheckLease", "renew", "destroy"}, Goto(o, pc),
                 pc = "renew" => op[o].kind = "heartbeat",
                 pc = "destroy" => op[o].kind = "drain" \/ op[o].sb \notin lease
          PROVE  LockInv'
      <3>1. Moves(o, {pc}) /\ pc \in Critical
        BY <2>2, GotoEffect DEF Critical, Pc
      <3>2. Knows(o)'
        BY <2>1, <2>2, <3>1 DEF Moves, Knows, redis
      <3> QED BY <1>14, <2>1, <3>1, <3>2, HolderMoves DEF redis, Moves
    <2>3. CASE Leave(o)
      BY <1>14, <2>1, <2>3, HolderLeaves DEF redis
    <2>4. CASE RecheckMeta(o)
      <3>1. op[o].kind \in {"reap", "drain", "heartbeat"}
        BY <2>4 DEF RecheckMeta, At, TypeInv, PlaceOK
      <3> QED BY <2>2, <2>3, <2>4, <3>1 DEF RecheckMeta, Is
    <2>5. CASE RecheckLease(o)
      BY <2>2, <2>3, <2>5 DEF RecheckLease
    <2> QED BY <1>14, <2>4, <2>5
  <1>15. ASSUME NEW o \in Ops, op[o].kind # "lookup", Unlock(o) PROVE LockInv'
    <2>1. op[o].pc \in Critical /\ UNCHANGED <<conv, meta, lease>> /\ OneRecord'
      BY <1>0, <1>15 DEF Unlock, At, Critical, Pc, OneRecord
    <2>2. Moves(o, {"done", "crashed"})
      BY <1>15, GotoEffect DEF Unlock, Moves
    <2>3. Knows(o)' /\ Record(o)'
      BY <1>0, <1>15, <2>2 DEF Moves, Knows, Record, Critical
    <2> QED BY <1>15, <2>1, <2>2, <2>3, HolderStep DEF Moves
  <1>16. ASSUME NEW o \in Ops, Retire(o) \/ Bury(o) PROVE LockInv'
    <2>1. /\ \A p \in Ops \ {o} : op'[p] = op[p]
          /\ op'[o].pc = "idle" /\ op'[o].kind = "acquire" /\ op'[o].result = Nil
      BY <1>16 DEF Retire, Bury, Idle, NewOp, TypeInv, TypeOK
    <2> QED BY <1>16, <2>1, OutsideStep DEF Retire, Bury, redis, Record
  <1>17. ASSUME NEW o \in Ops, op[o].kind # "lookup", FailCommand(o) PROVE LockInv'
    BY <1>0, <1>17, HolderLeaves DEF FailCommand, redis, Critical, Pc, OneRecord
  <1>18. ASSUME NEW o \in Ops, Crash(o) PROVE LockInv'
    <2>1. Moves(o, {"crashed"})
      BY <1>18, GotoEffect DEF Crash
    <2> QED BY <1>18, <2>1, OutsideStep DEF Crash, Moves, Record, LookupPlaces, redis
  <1>19. ASSUME NEW s \in Sandboxes, ExpireLease(s) \/ FailBox(s) PROVE LockInv'
    BY <1>19 DEF ExpireLease, FailBox, redis, LockInv, Knows, Record, OneRecord
  <1>20. CASE ExpireLock
    <2>1. lock \in Ops /\ op[lock].pc = "crashed" /\ UNCHANGED <<conv, meta, lease, op>>
      BY <1>20 DEF ExpireLock, At, TypeInv, TypeOK
    <2>2. \A p \in Ops : op[p].kind # "lookup" => op[p].pc \notin Critical
      BY <2>1 DEF LockInv, Knows, Critical
    <2> QED BY <2>1, <2>2 DEF LockInv, Knows, Record, OneRecord
  <1>21. ASSUME NEW o \in Ops, op[o].kind = "lookup", OpStep(o) \/ FailCommand(o)
         PROVE  LockInv'
    <2>1. /\ \A p \in Ops \ {o} : op'[p] = op[p]
          /\ op'[o].kind = "lookup" /\ op'[o].pc \in LookupPlaces
          /\ op'[o].result = Nil
          /\ op'[o] # op[o]
          /\ UNCHANGED lock
      BY <1>21, LookupMoves
    <2>2. ~LookupDeletes
      BY <2>1 DEF Next, vars
    <2>3. UNCHANGED <<conv, meta, lease>>
      BY <1>21, <2>1, <2>2 DEF LookupDeletes, Is, keys
    <2> QED BY <2>1, <2>3, LookupStep
  <1>22. ~OutliveLock \/ UNCHANGED vars
    BY DEF Next
  <1> QED
    BY <1>1, <1>2, <1>3, <1>4, <1>5, <1>6, <1>7, <1>8, <1>9, <1>10, <1>11, <1>12,
       <1>13, <1>14, <1>15, <1>16, <1>17, <1>18, <1>19, <1>20, <1>21, <1>22
       DEF Next, Step, OpStep

\* What an operation past its lock has read is still so when it acts on it, as long
\* as the lock has kept the operations apart.
THEOREM LockInvHolds == Spec => [](~raced => LockInv)
  <1>1. Init => LockInv
    BY DEF Init, Idle, NewOp, LockInv, Knows, Record, OneRecord, Critical
  <1>2. TypeInv /\ (~raced => LockInv) /\ [Next]_vars => (~raced => LockInv)'
    <2>1. [Next]_vars /\ ~raced' => ~raced
      BY DEF Next, vars
    <2> QED BY <2>1, LockStep
  <1> QED BY <1>1, <1>2, TypeInvHolds, PTL DEF Spec

\* However many replicas acquire, release, reap, drain and crash, a session is bound
\* to one sandbox, until an operation outlives its lock or an unlocked lookup deletes
\* a key: no record outlives or lacks its forward key.
THEOREM SessionsAreBoundOnce == Spec => []OneBinding
  <1>1. (~raced => LockInv) => OneBinding
    BY DEF LockInv, OneBinding
  <1> QED BY <1>1, LockInvHolds, PTL

\* A successful Acquire answers with the sandbox that is bound while it still holds
\* the lock, never with one that Release or the reaper has just destroyed.
THEOREM AcquireAnswersWithTheBinding == Spec => []AcquireReturnsTheBinding
  <1>1. (~raced => LockInv) => AcquireReturnsTheBinding
    BY DEF LockInv, Knows, Record, LookupPlaces, At, AcquireReturnsTheBinding
  <1> QED BY <1>1, LockInvHolds, PTL

\* The reaper destroys nothing whose lease was renewed before it had the lock.
THEOREM LeasedSandboxesAreSpared == Spec => ReaperSparesLeased
  <1>1. (~raced => LockInv) =>
            [\A o \in Ops : ~raced /\ At(o, "destroy") /\ Is(o, {"reap"}) /\ box' # box
                                /\ op'[o] # op[o] => op[o].sb \notin lease]_vars
    BY DEF LockInv, Knows, At, Is
  <1> QED BY <1>1, LockInvHolds, PTL DEF ReaperSparesLeased

=============================================================================
