----------------------------- MODULE TokenQuota -----------------------------
(***************************************************************************)
(* Revocation and token quotas of one caller of the LLM gateway.  The      *)
(* admin API writes revocations and per-subject overrides to PostgreSQL    *)
(* and then to Redis (store/mirror.go, redispub); the gateway reads Redis  *)
(* through caches with a time to live (auth/revocation.py,                 *)
(* quota/overrides.py), admits a request under its caps and, when the      *)
(* stream has ended, adds its tokens to durable counters that are mirrored *)
(* to Redis (quota/enforcer.py, quota/postgres_store.py).                  *)
(*                                                                         *)
(* A step is one statement, one Redis command or one section under a       *)
(* cache's lock.  The clock ticks between any two steps; events of one     *)
(* tick come in any order.                                                 *)
(***************************************************************************)
EXTENDS Integers, FiniteSets

CONSTANTS
    Slots,          \* requests of the caller that are served at a time
    Admins,         \* calls of the admin API
    NoEntry,
    Default,        \* QuotaPolicy: the cap of a scope without an override, 0 for none
    Caps,           \* overrides an administrator sets
    Preset,         \* the override the user has already
    TTL,            \* time to live of the caches
    MaxTokens,      \* bound: tokens of one request
    MaxTime, MaxOutages  \* bounds

Scopes == {"user", "tenant"}
CapsOf(s) == Caps \cup {Default[s]}

ASSUME QuotaAssumption ==
    /\ Default \in [Scopes -> Nat] /\ Caps \subseteq Nat /\ Preset \in Caps
    /\ {TTL, MaxTokens} \subseteq Nat \ {0} /\ {MaxTime, MaxOutages} \subseteq Nat
    /\ IsFiniteSet(Slots)
    \* Caps are machine integers: there is a largest.
    /\ \A s \in Scopes : \E m \in CapsOf(s) : \A n \in CapsOf(s) : n <= m

VARIABLES
    db,         \* token_records.revoked and quota_overrides
    redis,      \* cocola:revoked and cocola:quota:override
    admin,      \* a call of the admin API
    cache,      \* TTLCachedRevocation and TTLCachedOverrides
    used,       \* quota_counters
    fast,       \* the mirror of the counters in Redis
    period,     \* the current day and month
    now,
    slot,       \* a request
    outages,
    revokedAt   \* history: when a call that revoked the token put it into Redis and succeeded

stores == <<db, redis>>
counters == <<used, fast>>
quotaVars == <<stores, admin, cache, counters, period, now, slot, outages, revokedAt>>

-----------------------------------------------------------------------------
\* "token": whether the token is revoked.  A scope: its override; Absent without one.
Token == "token"
Keys == {Token} \cup Scopes
Absent == -1
Revoked == 1
Values(k) == IF k = Token THEN {Absent, Revoked} ELSE Caps \cup {Absent}
AllValues == Caps \cup {Absent, Revoked}
Times == 0..MaxTime
Periods == Times
Never == -1

\* A request authenticates, is checked against the scopes, streams and commits its tokens.
\* For each key it looks into the cache, asks Redis, fills the cache and acts.  since: when
\* the look-up began.  from: when the request came.
Stages == {"idle", "auth", "check", "stream", "commit"}
Phases == {"look", "ask", "fill", "act", "mirror"}
Slot == [stage : Stages, key : Keys, phase : Phases, val : AllValues, since : Times,
         from : Times, tokens : 0..MaxTokens]
IdleSlot == [stage |-> "idle", key |-> Token, phase |-> "look", val |-> Absent, since |-> 0,
             from |-> 0, tokens |-> 0]
AdminCall == [at : {"new", "publish", "done"}, key : Keys, val : AllValues]
CacheEntry == [val : AllValues, until : Nat]

TypeOK ==
    /\ {db, redis} \subseteq [Keys -> AllValues]
    /\ cache \in [Keys -> {NoEntry} \cup CacheEntry]
    /\ \A k \in Keys : /\ {db[k], redis[k]} \subseteq Values(k)
                       /\ cache[k] # NoEntry => cache[k].val \in Values(k)
    /\ admin \in [Admins -> AdminCall]
    /\ used \in [Scopes -> [Periods -> Nat]] /\ fast \in [Scopes -> [Periods -> Nat]]
    /\ period \in [Scopes -> Periods]
    /\ now \in Times
    /\ slot \in [Slots -> Slot]
    /\ outages \in 0..MaxOutages
    /\ revokedAt \in Times \cup {Never}

\* The token is good; the user has an override, which may be deleted.
QuotaInit ==
    /\ db = [k \in Keys |-> IF k = "user" THEN Preset ELSE Absent]
    /\ redis = db
    /\ admin = [a \in Admins |-> [at |-> "new", key |-> Token, val |-> Absent]]
    /\ cache = [k \in Keys |-> NoEntry]
    /\ used = [s \in Scopes |-> [p \in Periods |-> 0]]
    /\ fast = used
    /\ period = [s \in Scopes |-> 0]
    /\ now = 0
    /\ slot = [r \in Slots |-> IdleSlot]
    /\ outages = 0
    /\ revokedAt = Never

Outage == outages < MaxOutages /\ outages' = outages + 1

-----------------------------------------------------------------------------
\* The admin API.  Mirror writes the store first; what it returns differs.
Write(a, k, v) ==
    /\ admin[a].at = "new"
    /\ db' = [db EXCEPT ![k] = v]
    /\ admin' = [admin EXCEPT ![a] = [at |-> "publish", key |-> k, val |-> v]]
    /\ UNCHANGED <<redis, cache, counters, period, now, slot, outages, revokedAt>>

RevokeToken(a) == Write(a, Token, Revoked)
SetQuota(a) == \E s \in Scopes, cap \in Caps : Write(a, s, cap)
\* An override that is gone is ErrNotFound: nothing is published.
DeleteQuota(a) == \E s \in Scopes : db[s] # Absent /\ Write(a, s, Absent)

\* SADD, HSET, HDEL.
Publishes(a) ==
    /\ admin[a].at = "publish"
    /\ LET k == admin[a].key
           v == admin[a].val
       IN  /\ redis' = [redis EXCEPT ![k] = v]
           /\ revokedAt' = IF k = Token /\ redis[k] # Revoked THEN now ELSE revokedAt
    /\ admin' = [admin EXCEPT ![a].at = "done"]
    /\ UNCHANGED <<db, cache, counters, period, now, slot, outages>>

\* Redis does not answer: an error for a revocation, which may be repeated; a line in the
\* log for a quota.
PublishFails(a) ==
    /\ admin[a].at = "publish" /\ Outage
    /\ admin' = [admin EXCEPT ![a].at = IF admin[a].key = Token THEN "new" ELSE "done"]
    /\ UNCHANGED <<stores, cache, counters, period, now, slot, revokedAt>>

-----------------------------------------------------------------------------
\* The look-up of a key: TTLCachedRevocation.is_revoked, TTLCachedOverrides.get.
At(r, phase) == slot[r].stage \notin {"idle", "stream"} /\ slot[r].phase = phase
Others == <<admin, counters, period, now, revokedAt>>

Look(r) ==
    /\ At(r, "look")
    /\ LET entry == cache[slot[r].key]
           hit == entry # NoEntry /\ entry.until > now
       IN  slot' = [slot EXCEPT ![r] =
                        IF hit THEN [@ EXCEPT !.phase = "act", !.val = entry.val]
                               ELSE [@ EXCEPT !.phase = "ask", !.since = now]]
    /\ UNCHANGED <<stores, cache, outages, Others>>
Ask(r) ==
    /\ At(r, "ask")
    /\ slot' = [slot EXCEPT ![r].phase = "fill", ![r].val = redis[slot[r].key]]
    /\ UNCHANGED <<stores, cache, outages, Others>>

\* Mutant: the time to live starts when the answer is stored.
FillFromNow(r) ==
    /\ At(r, "fill")
    /\ cache' = [cache EXCEPT ![slot[r].key] = [val |-> slot[r].val, until |-> now + TTL]]
    /\ slot' = [slot EXCEPT ![r].phase = "act", ![r].since = 0]
    /\ UNCHANGED <<stores, outages, Others>>
\* The time to live starts when the look-up began, before Redis was asked.
Fill(r) ==
    /\ At(r, "fill")
    /\ cache' = [cache EXCEPT ![slot[r].key] = [val |-> slot[r].val,
                                                until |-> slot[r].since + TTL]]
    /\ slot' = [slot EXCEPT ![r].phase = "act", ![r].since = 0]
    /\ UNCHANGED <<stores, outages, Others>>

\* Redis does not answer: the request fails, or its tokens are not counted.
AskFails(r) ==
    /\ At(r, "ask") /\ Outage
    /\ slot' = [slot EXCEPT ![r] = IdleSlot]
    /\ UNCHANGED <<stores, cache, Others>>

-----------------------------------------------------------------------------
\* The request.  The token names the user and the tenant.
Enter(r, stage, key) ==
    [slot[r] EXCEPT !.stage = stage, !.key = key, !.phase = "look", !.val = Absent, !.since = 0]
Becomes(r, s) == slot' = [slot EXCEPT ![r] = s]

Request(r) ==
    /\ slot[r].stage = "idle"
    /\ Becomes(r, [IdleSlot EXCEPT !.stage = "auth", !.from = now])
    /\ UNCHANGED <<stores, cache, outages, Others>>

\* _authenticate: 401 for a revoked token.
Authenticate(r) ==
    /\ At(r, "act") /\ slot[r].stage = "auth"
    /\ Becomes(r, IF slot[r].val = Revoked THEN IdleSlot ELSE Enter(r, "check", "user"))
    /\ UNCHANGED <<stores, cache, outages, Others>>

\* _limit_for: an override stands, 0 means no cap.
Limit(s, v) == IF v = Absent THEN Default[s] ELSE v
\* Mutant: the mirror in Redis is read.
ReadFast(s) == fast[s][period[s]]
\* MirroredQuotaStore.get reads the durable counter of the current window.
Read(s) == used[s][period[s]]

\* Enforcer.check: 429 when a counter has reached its cap.
Exceeded(s, limit) == limit > 0 /\ Read(s) >= limit
Check(r) ==
    /\ At(r, "act") /\ slot[r].stage = "check"
    /\ LET s == slot[r].key
       IN  Becomes(r, IF Exceeded(s, Limit(s, slot[r].val)) THEN IdleSlot
                      ELSE IF s = "user" THEN Enter(r, "check", "tenant")
                      ELSE Enter(r, "stream", Token))
    /\ UNCHANGED <<stores, cache, outages, Others>>

\* The stream ends with its usage; nothing is committed of none.
UsageKnown(r) ==
    /\ slot[r].stage = "stream"
    /\ \E n \in 0..MaxTokens :
        Becomes(r, IF n = 0 THEN IdleSlot
                   ELSE [Enter(r, "commit", "user") EXCEPT !.tokens = n, !.from = 0])
    /\ UNCHANGED <<stores, cache, outages, Others>>

AfterCommit(r) == IF slot[r].key = "user" THEN Enter(r, "commit", "tenant") ELSE IdleSlot

\* Enforcer.commit: a scope without a cap is not counted.
CommitUncapped(r) ==
    /\ At(r, "act") /\ slot[r].stage = "commit"
    /\ Limit(slot[r].key, slot[r].val) = 0
    /\ Becomes(r, AfterCommit(r))
    /\ UNCHANGED <<stores, cache, outages, Others>>

Added(counter, r) ==
    LET s == slot[r].key IN [counter EXCEPT ![s][period[s]] = @ + slot[r].tokens]
Committing(r) ==
    /\ At(r, "act") /\ slot[r].stage = "commit"
    /\ Limit(slot[r].key, slot[r].val) > 0
Rest == <<stores, cache, admin, period, now, revokedAt>>

\* MirroredQuotaStore.add: PostgreSQL first, then Redis; both in the window of this moment.
Commit(r) ==
    /\ Committing(r)
    /\ used' = Added(used, r)
    /\ Becomes(r, [slot[r] EXCEPT !.phase = "mirror"])
    /\ UNCHANGED <<fast, outages, Rest>>
\* The statement fails, with or without its effect: the error is logged, and the rest of
\* the commit left out.
CommitFails(r) ==
    /\ Committing(r) /\ Outage
    /\ used' = Added(used, r) \/ UNCHANGED used
    /\ Becomes(r, IdleSlot)
    /\ UNCHANGED <<fast, Rest>>

\* The mirror is best effort.
MirrorAdd(r) ==
    /\ At(r, "mirror")
    /\ \/ fast' = Added(fast, r) /\ UNCHANGED outages
       \/ Outage /\ UNCHANGED fast
    /\ Becomes(r, AfterCommit(r))
    /\ UNCHANGED <<used, Rest>>

-----------------------------------------------------------------------------
\* Environment.
Tick ==
    /\ now < MaxTime
    /\ now' = now + 1
    /\ UNCHANGED <<stores, admin, cache, counters, period, slot, outages, revokedAt>>

\* The tick begins a new day, perhaps a new month.  A commit computes its window once; that
\* of a commit which is under way is taken to last until its mirror is written.
Rollover ==
    /\ now < MaxTime
    /\ now' = now + 1
    /\ \A r \in Slots : slot[r].phase # "mirror"
    /\ \E S \in {{"user"}, Scopes} :
        period' = [s \in Scopes |-> IF s \in S THEN period[s] + 1 ELSE period[s]]
    /\ UNCHANGED <<stores, admin, cache, counters, slot, outages, revokedAt>>

\* The gateway restarts: its requests and caches are gone.
GatewayRestarts ==
    /\ Outage
    /\ slot' = [r \in Slots |-> IdleSlot]
    /\ cache' = [k \in Keys |-> NoEntry]
    /\ UNCHANGED <<stores, admin, counters, period, now, revokedAt>>

\* Redis loses its data, the denylist included: nothing publishes it again but another call
\* of an administrator, who was told that the revocation succeeded.
RedisLosesData ==
    /\ Outage
    /\ redis' = [k \in Keys |-> Absent]
    /\ fast' = [s \in Scopes |-> [p \in Periods |-> 0]]
    /\ UNCHANGED <<db, admin, cache, used, period, now, slot, revokedAt>>

QuotaNext ==
    \/ \E a \in Admins : RevokeToken(a) \/ SetQuota(a) \/ DeleteQuota(a)
                         \/ Publishes(a) \/ PublishFails(a)
    \/ \E r \in Slots : \/ Request(r) \/ Look(r) \/ Ask(r) \/ Fill(r) \/ AskFails(r)
                        \/ Authenticate(r) \/ Check(r) \/ UsageKnown(r)
                        \/ CommitUncapped(r) \/ Commit(r) \/ CommitFails(r) \/ MirrorAdd(r)
    \/ Tick \/ Rollover \/ GatewayRestarts \/ RedisLosesData

QuotaSpec == QuotaInit /\ [][QuotaNext]_quotaVars

-----------------------------------------------------------------------------
\* auth/revocation.py, mirror.go: a token whose revocation succeeded admits no request that
\* comes a time to live later, whatever look-ups were on their way, as long as Redis keeps
\* what it was told.
CameLate(r) == revokedAt # Never /\ slot[r].from >= revokedAt + TTL
RevokedTokensStop ==
    \A r \in Slots :
        redis[Token] = Revoked /\ slot[r].stage \in {"check", "stream"} => ~CameLate(r)

\* mirror.go:33-34: the revocation of a token "is only complete once every gateway can
\* observe the denylist entry".  Redis may lose the entry of one that was complete:
\* redispub.go:16-18 names a "boot-time reconciliation" that the code does not have.
RevocationsSurviveLosses ==
    \A r \in Slots : slot[r].stage \in {"check", "stream"} => ~CameLate(r)

\* enforcer.py:10-15: the overshoot of a window is bounded by the requests in flight, even
\* over restarts and losses of Redis, as long as no cap is unlimited.
MaxCap(s) == CHOOSE m \in CapsOf(s) : \A n \in CapsOf(s) : n <= m
OvershootIsInFlight ==
    \A s \in Scopes : 0 \notin CapsOf(s) =>
        \A p \in Periods : used[s][p] <= MaxCap(s) - 1 + Cardinality(Slots) * MaxTokens

\* mirror.go:8-14: writes are pushed to Redis "so a revoke or an override takes effect
\* fleet-wide": when the calls have ended, the gateway reads what the store holds.
OverridesTakeEffect ==
    (\A a \in Admins : admin[a].at # "publish") => \A s \in Scopes : redis[s] = db[s]
=============================================================================
