--------------------------- MODULE ModelRegistry ---------------------------
(***************************************************************************)
(* The model registries of the LLM gateway                                 *)
(* (apps/llm-gateway/cocola_llm_gateway/db_registry.py).  The routes and   *)
(* providers live in PostgreSQL and are edited by administrators; the      *)
(* gateway builds an immutable Registry of them, with one HTTP client per  *)
(* provider, and replaces it when the rows have changed.  A request leases *)
(* the registry it uses; a replaced registry is closed when nobody leases  *)
(* it any more, and a closed one can serve nobody.                         *)
(*                                                                         *)
(* What runs under _refresh_lock is one step, the load of the snapshot     *)
(* included: no other holder of the lock can see the state in between.     *)
(* Closing a registry is a step of its own, after the lock was given back. *)
(* A task may be cancelled where it waits: for the lock or for a close.    *)
(***************************************************************************)
EXTENDS Integers, FiniteSets

CONSTANTS
    Clients,        \* tasks that use the models
    Nil,
    MaxEdits,       \* bound: edits of the rows
    MaxFaults       \* bound: failed loads and cancelled tasks

ASSUME RegistryAssumption == MaxEdits \in Nat /\ MaxFaults \in Nat /\ Nil \notin 0..MaxEdits + 1

VARIABLES
    rows,       \* llm_model_routes, llm_providers, memory_config: which edit they are at
    cached,     \* _cached
    loaded,     \* _fingerprint: the edit whose rows were loaded last, 0 for none
    expired,    \* whether _cached_at is _ttl_s ago
    refs,       \* _references
    retired,    \* _retired
    closed,     \* registries whose clients were closed
    lease,      \* the registry a task uses, and what it is doing with it
    faults,     \* failed loads and cancelled tasks so far
    leaked      \* history: registries a cancelled task left unreleased or unclosed

registryVars == <<rows, cached, loaded, expired, refs, retired, closed, lease, faults, leaked>>

-----------------------------------------------------------------------------
\* A registry is named by the edit it was built from.  Fallback is the registry of the
\* composition root, which has no routes and is not closed before the process ends.
Fallback == 0
Edits == 1..MaxEdits + 1
Registries == {Fallback} \cup Edits
RowsKind == {"routes", "empty", "broken"}

\* at "swap": acquire closes the registry it replaced (drop) and holds reg already.
\* at "last": release closes the registry it was the last to use (drop).
Lease == [at : {"none", "swap", "held", "last"}, reg : Registries \cup {Nil},
          drop : Registries \cup {Nil}]
NoLease == [at |-> "none", reg |-> Nil, drop |-> Nil]

RegistryTypeOK ==
    /\ rows \in [edit : Edits, kind : RowsKind]
    /\ cached \in Registries \cup {Nil}
    /\ loaded \in {0} \cup Edits
    /\ expired \in BOOLEAN
    /\ refs \in [Registries -> Nat]
    /\ retired \subseteq Edits
    /\ closed \subseteq Edits
    /\ lease \in [Clients -> Lease]
    /\ faults \in 0..MaxFaults
    /\ leaked \subseteq Registries

RegistryInit ==
    /\ \E kind \in RowsKind : rows = [edit |-> 1, kind |-> kind]
    /\ cached = Nil
    /\ loaded = 0
    /\ expired = FALSE
    /\ refs = [r \in Registries |-> 0]
    /\ retired = {}
    /\ closed = {}
    /\ lease = [c \in Clients |-> NoLease]
    /\ faults = 0
    /\ leaked = {}

-----------------------------------------------------------------------------
\* _refresh.  Each disjunct says what becomes of _cached and its relatives, and which
\* registry the caller has to close (drop).

\* PostgreSQL cannot be read, or no registry can be built from the rows: the last good
\* registry stays, for another _ttl_s.
LoadFails(drop) ==
    /\ \/ rows.kind = "broken" /\ UNCHANGED faults
       \/ faults < MaxFaults /\ faults' = faults + 1
    /\ cached' = IF cached = Nil THEN Fallback ELSE cached
    /\ expired' = FALSE
    /\ drop = Nil
    /\ UNCHANGED <<loaded, retired>>

LoadFindsNoChange(drop) ==
    /\ cached # Nil /\ loaded = rows.edit
    /\ expired' = FALSE
    /\ drop = Nil
    /\ UNCHANGED <<cached, loaded, retired, faults>>

\* A registry that somebody leases is retired; one that nobody does is closed at once.
Replaced(previous) == previous \notin {Nil, Fallback}
\* Mutant: a replaced registry is closed at once, although it is leased.
ReplacedInUse(drop) ==
    /\ rows.kind # "broken"
    /\ cached = Nil \/ loaded # rows.edit
    /\ cached' = IF rows.kind = "empty" THEN Fallback ELSE rows.edit
    /\ loaded' = rows.edit
    /\ expired' = FALSE
    /\ drop = IF Replaced(cached) THEN cached ELSE Nil
    /\ UNCHANGED <<retired, faults>>

LoadFindsChange(drop) ==
    /\ rows.kind # "broken"
    /\ cached = Nil \/ loaded # rows.edit
    /\ cached' = IF rows.kind = "empty" THEN Fallback ELSE rows.edit
    /\ loaded' = rows.edit
    /\ expired' = FALSE
    /\ drop = IF Replaced(cached) /\ refs[cached] = 0 THEN cached ELSE Nil
    /\ retired' = IF Replaced(cached) /\ refs[cached] > 0 THEN retired \cup {cached}
                                                         ELSE retired
    /\ UNCHANGED faults

Refresh(drop) == LoadFails(drop) \/ LoadFindsNoChange(drop) \/ LoadFindsChange(drop)

\* acquire_registry: the memory endpoints force a refresh.
Lend(c, drop) ==
    /\ refs' = [refs EXCEPT ![cached'] = @ + 1]
    /\ lease' = [lease EXCEPT ![c] = [at |-> IF drop = Nil THEN "held" ELSE "swap",
                                      reg |-> cached', drop |-> drop]]
Acquire(c, force) ==
    /\ lease[c].at = "none"
    /\ \E drop \in Registries \cup {Nil} :
        /\ IF force \/ cached = Nil \/ expired
           THEN Refresh(drop)
           ELSE drop = Nil /\ UNCHANGED <<cached, loaded, expired, retired, faults>>
        /\ Lend(c, drop)
    /\ UNCHANGED <<rows, closed, leaked>>

\* _close_registry at the end of acquire_registry and of release_registry: it does not fail.
Close(c) ==
    /\ lease[c].at \in {"swap", "last"}
    /\ closed' = closed \cup {lease[c].drop}
    /\ lease' = [lease EXCEPT ![c] = IF @.at = "last" THEN NoLease
                                     ELSE [@ EXCEPT !.at = "held", !.drop = Nil]]
    /\ UNCHANGED <<rows, cached, loaded, expired, refs, retired, faults, leaked>>

\* release_registry: the last user of a retired registry closes it.
\* Mutant: a registry is closed when there is no reference left to release.
LastByZero(r) == refs[r] < 1 /\ r \in retired
LastOfRetired(r) == refs[r] <= 1 /\ r \in retired
Release(c) ==
    /\ lease[c].at = "held"
    /\ LET r == lease[c].reg
           last == LastOfRetired(r)
       IN  /\ refs' = [refs EXCEPT ![r] = IF @ <= 1 THEN 0 ELSE @ - 1]
           /\ retired' = IF last THEN retired \ {r} ELSE retired
           /\ lease' = [lease EXCEPT ![c] = IF last THEN [at |-> "last", reg |-> Nil, drop |-> r]
                                            ELSE NoLease]
    /\ UNCHANGED <<rows, cached, loaded, expired, closed, faults, leaked>>

\* The task is cancelled (its client went away) while it waits for a close, or for the lock
\* in release_registry: what it held is not given back.  A close may have had its effect.
Cancel(c) ==
    /\ lease[c].at # "none" /\ faults < MaxFaults
    /\ faults' = faults + 1
    /\ leaked' = leaked \cup ({lease[c].reg, lease[c].drop} \ {Nil})
    /\ \/ closed' = closed \cup ({lease[c].drop} \ {Nil})
       \/ UNCHANGED closed
    /\ lease' = [lease EXCEPT ![c] = NoLease]
    /\ UNCHANGED <<rows, cached, loaded, expired, refs, retired>>

-----------------------------------------------------------------------------
\* Environment: an administrator edits the rows; time passes.
Edit ==
    /\ rows.edit < MaxEdits + 1
    /\ \E kind \in RowsKind : rows' = [edit |-> rows.edit + 1, kind |-> kind]
    /\ UNCHANGED <<cached, loaded, expired, refs, retired, closed, lease, faults, leaked>>
Age ==
    /\ cached # Nil /\ ~expired
    /\ expired' = TRUE
    /\ UNCHANGED <<rows, cached, loaded, refs, retired, closed, lease, faults, leaked>>

-----------------------------------------------------------------------------
\* _refresh / release_registry: every registry that was replaced is closed in the end,
\* whoever used it last, unless a cancelled task left it behind.
Superseded(r) ==
    /\ r < loaded /\ r # cached
    /\ refs[r] > 0 \/ r \in retired \/ \E c \in Clients : lease[c].drop = r
ReplacedRegistriesAreClosed ==
    \A r \in Edits : Superseded(r) ~> (r \in closed \/ r \in leaked)

=============================================================================
