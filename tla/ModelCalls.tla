----------------------------- MODULE ModelCalls -----------------------------
(***************************************************************************)
(* The calls of a model through the LLM gateway: the handler of            *)
(* /v1/messages (server.py), GatewayService.chat_stream and                *)
(* memory_chat_completion (service.py) and the retries of ResilientStreamer*)
(* (middleware.py), over the registries of ModelRegistry.                  *)
(*                                                                         *)
(* A chat call leases a registry three times: to resolve the model id that *)
(* is put into the request, to validate the request, and to stream.  The   *)
(* stream relays the events of one attempt after the other; when it ends,  *)
(* in whatever way, what it used is recorded in the ledger and committed   *)
(* to the quota counters before the lease is given back.                   *)
(*                                                                         *)
(* A provider sends MESSAGE_START first, then content and usage, then      *)
(* MESSAGE_STOP; it may send ERROR, raise or stall at any point            *)
(* (upstream/base.py).  Tokens are counted in units; a real model is named *)
(* by the edit of the rows that introduced it.  The quota gate is          *)
(* TokenQuota's.                                                           *)
(***************************************************************************)
EXTENDS ModelRegistry

CONSTANTS
    Chats,          \* the clients that call /v1/messages; the others are memory calls
    MaxRetries,     \* ResiliencePolicy.max_retries
    MaxUsage        \* bound: usage events of one attempt

ASSUME CallsAssumption == Chats \subseteq Clients /\ MaxRetries \in Nat /\ MaxUsage \in Nat \ {0}

VARIABLES
    call,       \* what the task of a client is doing
    ledger,     \* usage_ledger
    counted,    \* tokens a call added to the quota counters
    upstream    \* history: per client, the output and the usage events of each attempt

callVars == <<call, ledger, counted, upstream>>
vars == <<registryVars, callVars>>

-----------------------------------------------------------------------------
Attempts == 0..MaxRetries
Steps == {"resolve", "validate", "stream", "attempt", "record", "commit", "release", "done"}

\* sent: the model id in the request.  route: the real model of the route that is used,
\* and billed.  produced, attempt: locals of ResilientStreamer.chat_stream.  usage,
\* status: locals of GatewayService.chat_stream.  text: the chunks of a memory call are not
\* empty.  shown: what reached the client.
Call == [step : Steps, sent : Edits \cup {Nil}, route : Edits \cup {Nil}, attempt : Attempts,
         produced : BOOLEAN, usage : Nat, text : BOOLEAN, status : {"ok", "error", "none"},
         shown : SUBSET Attempts, cut : BOOLEAN]
Record == [client : Clients, model : Edits, usage : Nat, status : {"ok", "error"}]

CallsTypeOK ==
    /\ RegistryTypeOK
    /\ call \in [Clients -> Call]
    /\ ledger \subseteq Record
    /\ counted \in [Clients -> Nat]
    /\ upstream \in [Clients -> [Attempts -> Nat]]

Init ==
    /\ RegistryInit
    /\ call = [c \in Clients |->
                [step |-> IF c \in Chats THEN "resolve" ELSE "stream", sent |-> Nil, route |-> Nil,
                 attempt |-> 0, produced |-> FALSE, usage |-> 0, text |-> FALSE,
                 status |-> "ok", shown |-> {}, cut |-> FALSE]]
    /\ ledger = {}
    /\ counted = [c \in Clients |-> 0]
    /\ upstream = [c \in Clients |-> [a \in Attempts |-> 0]]

\* In the leased registry a route leads to the model of the edit; Fallback has no route.
Goto(c, step) == call' = [call EXCEPT ![c].step = step]
Holds(c, step) == lease[c].at = "held" /\ call[c].step = step
Routed(c) == lease[c].reg # Fallback
BooksUnchanged == UNCHANGED <<ledger, counted, upstream>>

-----------------------------------------------------------------------------
\* Leases.  The tasks of a client take them in the order of the handler; memory calls
\* force a refresh.
TakeLease(c) ==
    /\ call[c].step \in {"resolve", "validate", "stream"}
    /\ Acquire(c, c \notin Chats)
    /\ UNCHANGED callVars
CloseReplaced(c) == Close(c) /\ UNCHANGED callVars

\* resolve_model: the model id of the route, or 404.
ResolveModel(c) ==
    /\ Holds(c, "resolve")
    /\ call' = [call EXCEPT ![c].sent = IF Routed(c) THEN lease[c].reg ELSE Nil,
                            ![c].step = IF Routed(c) THEN "validate" ELSE "done",
                            ![c].status = IF Routed(c) THEN "ok" ELSE "none"]
    /\ Release(c)
    /\ BooksUnchanged

\* validate_chat_request: the route must exist still.
ValidateChatRequest(c) ==
    /\ Holds(c, "validate")
    /\ call' = [call EXCEPT ![c].step = IF Routed(c) THEN "stream" ELSE "done",
                            ![c].status = IF Routed(c) THEN "ok" ELSE "none"]
    /\ Release(c)
    /\ BooksUnchanged

\* chat_stream and memory_chat_completion resolve the route they use; a memory call makes
\* its request of the same route, a chat call brings its own.
BeginStream(c) ==
    /\ Holds(c, "stream") /\ Routed(c)
    /\ call' = [call EXCEPT ![c].step = "attempt", ![c].route = lease[c].reg,
                            ![c].sent = IF c \in Chats THEN @ ELSE lease[c].reg]
    /\ UNCHANGED registryVars /\ BooksUnchanged
NoRoute(c) ==
    /\ Holds(c, "stream") /\ ~Routed(c)
    /\ call' = [call EXCEPT ![c].step = "done", ![c].status = "none"]
    /\ Release(c)
    /\ BooksUnchanged

-----------------------------------------------------------------------------
\* ResilientStreamer.chat_stream: one attempt relays what the provider sends.
Streaming(c) == Holds(c, "attempt")

\* Mutant: a stream that failed is not metered.
EndedMeteringSuccess(c, status) ==
    IF status = "ok" THEN [call[c] EXCEPT !.step = "record", !.status = status]
    ELSE [call[c] EXCEPT !.step = "release", !.status = status]

\* The end of a chat call's stream, with or without an error, leads to its metering.  A
\* memory call that failed, or whose stream ended without a text, raises: it gives its
\* lease back only, whatever its stream used.
Ended(c, status) ==
    IF c \in Chats \/ (status = "ok" /\ call[c].text)
    THEN [call[c] EXCEPT !.step = "record", !.status = status]
    ELSE [call[c] EXCEPT !.step = "release", !.status = "error"]

MessageStart(c) ==
    /\ Streaming(c) /\ ~call[c].produced
    /\ call' = [call EXCEPT ![c].produced = TRUE, ![c].shown = @ \cup {call[c].attempt}]
    /\ UNCHANGED registryVars /\ BooksUnchanged

\* MESSAGE_DELTA, with the content before it.
UsageEvent(c) ==
    /\ Streaming(c) /\ call[c].produced
    /\ upstream[c][call[c].attempt] < MaxUsage
    /\ upstream' = [upstream EXCEPT ![c][call[c].attempt] = @ + 1]
    /\ call' = [call EXCEPT ![c].usage = @ + 1]
    /\ UNCHANGED registryVars /\ UNCHANGED <<ledger, counted>>

\* A memory call keeps the text of the content it is sent; what a chat call relays is not
\* looked at.
TextDelta(c) ==
    /\ c \notin Chats /\ Streaming(c) /\ call[c].produced /\ ~call[c].text
    /\ call' = [call EXCEPT ![c].text = TRUE]
    /\ UNCHANGED registryVars /\ BooksUnchanged

\* MESSAGE_STOP, the end of the provider's stream, or the client closes the stream: the
\* generator ends where it is, its status still "ok".
StreamEnds(c) ==
    /\ Streaming(c)
    /\ call' = [call EXCEPT ![c] = Ended(c, "ok")]
    /\ UNCHANGED registryVars /\ BooksUnchanged

\* Mutant: a failure is retried although output was relayed.
RetriableAlways(c) == call[c].attempt < MaxRetries
\* Once something was relayed the attempt cannot be replayed.
Retriable(c) == ~call[c].produced /\ call[c].attempt < MaxRetries

Retry(c) ==
    /\ Streaming(c) /\ Retriable(c)
    /\ call' = [call EXCEPT ![c].attempt = @ + 1, ![c].produced = FALSE]
    /\ UNCHANGED registryVars /\ BooksUnchanged

\* ERROR or an UpstreamError when no retry is left, an error that is not retryable, the
\* timeout, the rate limit: the client gets ERROR.
StreamFails(c) ==
    /\ Streaming(c)
    /\ call' = [call EXCEPT ![c] = Ended(c, "error")]
    /\ UNCHANGED registryVars /\ BooksUnchanged

-----------------------------------------------------------------------------
\* The finally block of chat_stream.

\* _write_record: a failed write is logged and swallowed, and may have had its effect.
Entry(c) == [client |-> c, model |-> call[c].route, usage |-> call[c].usage,
             status |-> call[c].status]
WriteRecord(c) ==
    /\ Holds(c, "record")
    /\ \/ ledger' = ledger \cup {Entry(c)} /\ UNCHANGED faults
       \/ /\ faults < MaxFaults /\ faults' = faults + 1
          /\ UNCHANGED ledger
    /\ call' = [call EXCEPT ![c].step = IF c \in Chats THEN "commit" ELSE "release",
                            ![c].cut = ledger' = ledger]
    /\ UNCHANGED <<rows, cached, loaded, expired, refs, retired, closed, lease, leaked,
                   counted, upstream>>

\* _commit_quota: memory calls are not charged to anyone.
CommitQuota(c) ==
    /\ Holds(c, "commit")
    /\ \/ counted' = [counted EXCEPT ![c] = @ + call[c].usage] /\ UNCHANGED faults
       \/ faults < MaxFaults /\ faults' = faults + 1 /\ UNCHANGED counted
    /\ call' = [call EXCEPT ![c].step = "release", ![c].cut = @ \/ faults' # faults]
    /\ UNCHANGED <<rows, cached, loaded, expired, refs, retired, closed, lease, leaked,
                   ledger, upstream>>

EndCall(c) ==
    /\ Holds(c, "release")
    /\ Goto(c, "done")
    /\ Release(c)
    /\ BooksUnchanged

\* The task is cancelled while it waits for the ledger or for the quota counters: the write
\* is lost, with what would have followed it, and the lease is given back.
CancelMetering(c) ==
    /\ call[c].step \in {"record", "commit"} /\ lease[c].at = "held" /\ faults < MaxFaults
    /\ faults' = faults + 1
    /\ call' = [call EXCEPT ![c].step = "release", ![c].cut = TRUE]
    /\ UNCHANGED <<rows, cached, loaded, expired, refs, retired, closed, lease, leaked>>
    /\ BooksUnchanged

\* The task is cancelled in acquire_registry or at the lock of release_registry, whichever
\* of the leases it gives back.  In the stream a cancellation is StreamEnds, of a memory
\* call StreamFails.
CancelLease(c) ==
    /\ \/ lease[c].at \in {"swap", "last"}
       \/ Holds(c, "release") \/ Holds(c, "resolve") \/ Holds(c, "validate")
       \/ Holds(c, "stream") /\ ~Routed(c)
    /\ Cancel(c)
    /\ call' = [call EXCEPT ![c].step = "done",
                            ![c].status = IF call[c].step \in {"resolve", "validate", "stream"}
                                          THEN "none" ELSE @]
    /\ BooksUnchanged

-----------------------------------------------------------------------------
Environment == (Edit \/ Age) /\ UNCHANGED callVars
Provider(c) ==
    \/ MessageStart(c) \/ UsageEvent(c) \/ TextDelta(c)
    \/ StreamEnds(c) \/ Retry(c) \/ StreamFails(c)
Gateway(c) ==
    \/ TakeLease(c) \/ CloseReplaced(c)
    \/ ResolveModel(c) \/ ValidateChatRequest(c) \/ BeginStream(c) \/ NoRoute(c)
    \/ WriteRecord(c) \/ CommitQuota(c) \/ EndCall(c)
AllDone == \A c \in Clients : call[c].step = "done" /\ lease[c].at = "none"

Next ==
    \/ \E c \in Clients : \/ Gateway(c) \/ Provider(c)
                          \/ CancelMetering(c) \/ CancelLease(c)
    \/ Environment
    \/ AllDone /\ UNCHANGED vars

\* A task of the gateway goes on while it may; a stalled provider is ended by timeout_s.
Fairness == \A c \in Clients : WF_vars(Gateway(c)) /\ WF_vars(StreamFails(c))
Spec == Init /\ [][Next]_vars /\ Fairness

-----------------------------------------------------------------------------
\* ResilientStreamer: the client sees the output of one attempt only, whatever fails when,
\* and what is metered is exactly what that attempt used.
OneAttemptIsShown ==
    \A c \in Clients :
        /\ Cardinality(call[c].shown) <= 1
        /\ \A a \in Attempts \ call[c].shown : upstream[c][a] = 0

\* chat_stream, memory_chat_completion: the stream of a chat call that ended, be it with an
\* error or because the client left, and that of a memory call that brought a text, is in
\* the ledger once, with the usage it relayed, and the quota was charged a chat call's,
\* unless a write failed or was cancelled.  No other call is in the ledger.
Metered(c) == IF c \in Chats THEN call[c].status # "none" ELSE call[c].status = "ok"
EndedStreamsAreMetered ==
    \A c \in Clients :
        LET mine == {r \in ledger : r.client = c}
            used == {upstream[c][a] : a \in call[c].shown} \cup {0}
        IN  /\ Cardinality(mine) <= 1
            /\ \A r \in mine : r.usage \in used /\ (r.usage = 0 => used = {0})
            /\ counted[c] \in {0, call[c].usage}
            /\ call[c].step = "done" /\ Metered(c) /\ ~call[c].cut
                => mine # {} /\ (c \in Chats => counted[c] = call[c].usage)
            /\ ~Metered(c) => mine = {} /\ counted[c] = 0

\* service.py:18-20: "Records/commits happen even on error/partial streams so usage is
\* captured for whatever the upstream already produced."  Of a memory call they do not: one
\* that used tokens and failed, or got no text, is in no ledger.
PartialStreamsAreMetered ==
    \A c \in Clients :
        call[c].step = "done" /\ ~call[c].cut /\ (\E a \in Attempts : upstream[c][a] > 0)
            => \E r \in ledger : r.client = c

\* GatewayService: no provider of a closed registry is used, from the first event of a
\* stream to its last record.
StreamsUseOpenRegistries ==
    \A c \in Clients :
        call[c].step \in {"attempt", "record", "commit"}
            => lease[c].at = "held" /\ lease[c].reg \notin closed /\ call[c].route = lease[c].reg

\* registry.py:10-12: the registry "is the single source of truth both routing and billing
\* read from": the model that is asked of the provider is the model that is billed.
RoutedAsBilled == \A r \in ledger : call[r.client].sent = r.model
=============================================================================
