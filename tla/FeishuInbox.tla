----------------------------- MODULE FeishuInbox -----------------------------
(***************************************************************************)
(* One Feishu chat of one connector (apps/gateway: channel/feishu).  Every *)
(* gateway tries to lease the connector; the holder receives the messages, *)
(* puts them in the inbox and works through the inbox one item at a time:  *)
(* it starts or answers a run through the gateway's own HTTP API, follows  *)
(* it and sends the reply.  An item that fails is retried later.           *)
(*                                                                         *)
(* A step is one transaction, one call of the API or one message sent.     *)
(* The runs and the questions of the conversations are what chatrun makes  *)
(* of these calls (see ChatRunStore).                                      *)
(***************************************************************************)
EXTENDS Integers, SequencesExt

CONSTANTS
    Gateways,       \* gateway processes
    Messages,       \* messages of the owner
    Nil,            \* no gateway, no item, no question; the first conversation
    AttemptLimit,   \* RetryInbox: attempts before an item is failed
    MaxPending,     \* maxPendingMessages
    MaxFaults       \* bound: crashes, failed calls, lost leases, redeliveries

ASSUME BoundsAssumption ==
    /\ AttemptLimit \in Nat \ {0} /\ MaxPending \in Nat \ {0} /\ MaxFaults \in Nat
ASSUME NilAssumption == Nil \notin Gateways \cup Messages

VARIABLES
    connector,  \* the row of channel_connectors
    runner,     \* the connectorRunner of each gateway
    queue,      \* the items in the order of created_at
    inbox,      \* the rows of channel_inbox
    session,    \* the row of channel_sessions
    worker,     \* the worker loop of each runner
    run,        \* the runs started for the messages, by request id
    heard,      \* history: the runs that went on when each /stop was received
    faults

vars == <<connector, runner, queue, inbox, session, worker, run, heard, faults>>

-----------------------------------------------------------------------------
Kind == {"text", "new", "stop"}
Conversation == Messages \cup {Nil}      \* named after the /new that made it
Request == Messages \X {"chat", "question"}      \* DeterministicRequestID

Connector == [owner : Gateways \cup {Nil}, expired : BOOLEAN, enabled : BOOLEAN]

\* waiting: next_attempt_at is in the future.  expired: the lease of the item.
\* attempts: counted up to the limit.
Item == [status : {"none", "pending", "processing", "retry", "done", "rejected", "failed"},
         kind : Kind, owner : Gateways \cup {Nil}, expired : BOOLEAN,
         waiting : BOOLEAN, attempts : 0..AttemptLimit]

\* question: PendingQuestionID, named after the run that asked it.
Session == [conversation : Conversation, question : Request \cup {Nil}]

\* question: of the run.  answer: the run that answers it.
Run == [conversation : Conversation, status : {"none", "running", "cancelling", "ended"},
        question : {"none", "open", "closed"}, answer : Request \cup {Nil}]

\* skipped: history, the earlier rows that were locked when the item was claimed.
\* session: as loaded.  active, stopped: the activeRun of the runner.
Worker == [pc : {"idle", "load", "act", "call", "save", "stream", "send", "settle"},
           item : Messages \cup {Nil}, skipped : SUBSET Messages,
           session : Session, request : Request \cup {Nil},
           active : BOOLEAN, stopped : BOOLEAN, result : {"done", "rejected", "retry"}]

NoItem == [status |-> "none", kind |-> "text", owner |-> Nil, expired |-> FALSE,
           waiting |-> FALSE, attempts |-> 0]
NoRun == [conversation |-> Nil, status |-> "none", question |-> "none", answer |-> Nil]
Fresh == [conversation |-> Nil, question |-> Nil]
Idle == [pc |-> "idle", item |-> Nil, skipped |-> {}, session |-> Fresh, request |-> Nil,
         active |-> FALSE, stopped |-> FALSE, result |-> "done"]

TypeOK ==
    /\ connector \in Connector
    /\ runner \in [Gateways -> {"off", "on", "stale", "cancelled"}]
    /\ queue \in Seq(Messages) /\ IsInjective(queue)
    /\ inbox \in [Messages -> Item]
    /\ session \in Session
    /\ worker \in [Gateways -> Worker]
    /\ run \in [Request -> Run]
    /\ heard \in [Messages -> SUBSET Request]
    /\ faults \in 0..MaxFaults

Init ==
    /\ connector = [owner |-> Nil, expired |-> FALSE, enabled |-> TRUE]
    /\ runner = [g \in Gateways |-> "off"]
    /\ queue = <<>>
    /\ inbox = [m \in Messages |-> NoItem]
    /\ session = Fresh
    /\ worker = [g \in Gateways |-> Idle]
    /\ run = [r \in Request |-> NoRun]
    /\ heard = [m \in Messages |-> {}]
    /\ faults = 0

Serving(g) == runner[g] \in {"on", "stale"}
Busy(g) == worker[g].pc # "idle"
Settled(m) == inbox[m].status \in {"done", "rejected", "failed"}
Live(r) == run[r].status \in {"running", "cancelling"}
InConversation(c) == {r \in Request : run[r].status # "none" /\ run[r].conversation = c}
Fault == faults < MaxFaults /\ faults' = faults + 1

-----------------------------------------------------------------------------
(* The lease of the connector and its runner.                                *)

\* ClaimConnectors, and reconcileConnectors starts a runner unless one is there.
ClaimConnector(g) ==
    /\ connector.enabled
    /\ connector.owner = Nil \/ connector.expired
    /\ connector' = [connector EXCEPT !.owner = g, !.expired = FALSE]
    /\ runner' = [runner EXCEPT ![g] = IF @ = "off" THEN "on" ELSE @]
    /\ UNCHANGED <<queue, inbox, session, worker, run, heard, faults>>

\* No renewal for the length of the lease.
ConnectorLeaseExpires ==
    /\ connector.owner # Nil /\ ~connector.expired
    /\ IF Serving(connector.owner) THEN Fault ELSE UNCHANGED faults
    /\ connector' = [connector EXCEPT !.expired = TRUE]
    /\ UNCHANGED <<runner, queue, inbox, session, worker, run, heard>>

\* renewLease or stopInvalidRunners find the lease or the version gone, or
\* the context ends for another reason: a failed enqueue, a closed channel.
CancelRunner(g) ==
    /\ Serving(g)
    /\ \/ /\ runner[g] = "stale" \/ connector.owner # g \/ connector.expired
          /\ UNCHANGED faults
       \/ Fault
    /\ runner' = [runner EXCEPT ![g] = "cancelled"]
    /\ UNCHANGED <<connector, queue, inbox, session, worker, run, heard>>

\* The worker sees the end of its context: nothing is written any more.
Abandon(g) ==
    /\ runner[g] = "cancelled" /\ Busy(g)
    /\ worker' = [worker EXCEPT ![g] = Idle]
    /\ UNCHANGED <<connector, runner, queue, inbox, session, run, heard, faults>>

\* ReleaseConnectorLease, removeRunner.
Exit(g) ==
    /\ runner[g] = "cancelled" /\ ~Busy(g)
    /\ runner' = [runner EXCEPT ![g] = "off"]
    /\ connector' = IF connector.owner = g
                    THEN [connector EXCEPT !.owner = Nil, !.expired = FALSE] ELSE connector
    /\ UNCHANGED <<queue, inbox, session, worker, run, heard, faults>>

Crash(g) ==
    /\ runner[g] # "off" /\ Fault
    /\ runner' = [runner EXCEPT ![g] = "off"]
    /\ worker' = [worker EXCEPT ![g] = Idle]
    /\ UNCHANGED <<connector, queue, inbox, session, run, heard>>

\* SetConnectorEnabled: the version changes and the lease is taken away.
SetEnabled(enabled) ==
    /\ connector.enabled # enabled
    /\ IF enabled THEN UNCHANGED faults ELSE Fault
    /\ connector' = [owner |-> Nil, expired |-> FALSE, enabled |-> enabled]
    /\ runner' = [g \in Gateways |-> IF runner[g] = "on" THEN "stale" ELSE runner[g]]
    /\ UNCHANGED <<queue, inbox, session, worker, run, heard>>

-----------------------------------------------------------------------------
(* onMessage.                                                                *)

\* stopActive
Stopped(g) == [worker EXCEPT ![g].stopped = @ \/ worker[g].active]

Waiting == {m \in Messages : inbox[m].status \in {"pending", "processing", "retry"}}

\* EnqueueInbox.  A /new during a run and a message to a full inbox are
\* turned away and change nothing.
Receive(g, m, kind) ==
    /\ Serving(g)
    /\ m \notin ToSet(queue)
    /\ kind = "new" => ~worker[g].active
    /\ kind = "stop" \/ Cardinality(Waiting) < MaxPending
    /\ queue' = Append(queue, m)
    /\ inbox' = [inbox EXCEPT ![m] = [NoItem EXCEPT !.status = "pending", !.kind = kind]]
    /\ worker' = IF kind = "stop" THEN Stopped(g) ELSE worker
    /\ heard' = [heard EXCEPT ![m] = {r \in InConversation(session.conversation) :
                                       kind = "stop" /\ run[r].status = "running"}]
    /\ UNCHANGED <<connector, runner, session, run, faults>>

\* Feishu delivers an event again: the row is there, but a /stop stops again.
Redeliver(g, m) ==
    /\ Serving(g) /\ m \in ToSet(queue) /\ inbox[m].kind = "stop" /\ Fault
    /\ worker' = Stopped(g)
    /\ UNCHANGED <<connector, runner, queue, inbox, session, run, heard>>

-----------------------------------------------------------------------------
(* ClaimNextInbox, FinishInbox, RetryInbox.                                  *)

Open(m) == inbox[m].status \in {"pending", "retry", "processing"}
Eligible(m) ==
    IF inbox[m].status = "processing" THEN inbox[m].expired ELSE ~inbox[m].waiting
Urgent(m) == inbox[m].kind = "stop"

\* In the order of created_at.
Before(n, m) == \E i, j \in DOMAIN queue : i < j /\ queue[i] = n /\ queue[j] = m
Earlier(m) == {n \in Messages : Before(n, m)}
Oldest(rows) == {m \in rows : \A n \in rows : ~Before(n, m)}

\* Mutant: an item that waits for its next attempt is passed over.
CandidatesAnyEligible(rows) == Oldest({m \in rows : Open(m) /\ Eligible(m)})

\* Mutant: an item whose worker died is not taken again.
CandidatesNotProcessing(rows) ==
    Oldest({m \in rows : Open(m) /\ Eligible(m) /\ inbox[m].status # "processing"})

\* A /stop first, then the oldest other item, and nothing past it.
Candidates(rows) ==
    LET stops  == {m \in rows : Open(m) /\ Urgent(m) /\ Eligible(m)}
        others == {m \in rows : Open(m) /\ ~Urgent(m)}
    IN  IF stops # {} THEN Oldest(stops) ELSE {m \in Oldest(others) : Eligible(m)}

\* SKIP LOCKED: a claim sees every row, or all but the one that another
\* gateway claims or settles at that moment.
Visible(g) ==
    LET rows == ToSet(queue)
    IN  {rows} \cup
        {rows \ {n} : n \in {n \in rows :
            \E other \in Gateways \ {g} : Serving(other) /\
               IF Busy(other) THEN worker[other].pc = "settle" /\ worker[other].item = n
                              ELSE n \in Candidates(rows)}}

ClaimNextInbox(g, m) ==
    /\ Serving(g) /\ ~Busy(g)
    /\ \E rows \in Visible(g) :
          /\ m \in Candidates(rows)
          /\ worker' = [worker EXCEPT ![g] = [Idle EXCEPT !.pc = "load", !.item = m,
                                                          !.skipped = Earlier(m) \ rows]]
    /\ inbox' = [inbox EXCEPT ![m].status = "processing", ![m].owner = g,
                              ![m].expired = FALSE, ![m].waiting = FALSE,
                              ![m].attempts = IF @ < AttemptLimit THEN @ + 1 ELSE @]
    /\ UNCHANGED <<connector, runner, queue, session, run, heard, faults>>

\* Ten minutes, which every call of a worker but the stream keeps within.
ItemLeaseExpires(m) ==
    /\ inbox[m].status = "processing" /\ ~inbox[m].expired
    /\ \A g \in Gateways : worker[g].item = m => worker[g].pc = "stream"
    /\ inbox' = [inbox EXCEPT ![m].expired = TRUE]
    /\ UNCHANGED <<connector, runner, queue, session, worker, run, heard, faults>>

DelayElapses(m) ==
    /\ inbox[m].waiting
    /\ inbox' = [inbox EXCEPT ![m].waiting = FALSE]
    /\ UNCHANGED <<connector, runner, queue, session, worker, run, heard, faults>>

At(g, pc) == Serving(g) /\ worker[g].pc = pc
Goto(g, pc) == worker' = [worker EXCEPT ![g].pc = pc]

\* The worker has the result of processInbox, and the run is no longer its active one.
SettledAs(g, result) ==
    [worker EXCEPT ![g].pc = "settle", ![g].result = result, ![g].request = Nil,
                   ![g].active = FALSE, ![g].stopped = FALSE, ![g].skipped = {}]

\* A row that is settled: nothing reads its lease or its attempts again.
Closed(m, status) == [NoItem EXCEPT !.status = status, !.kind = inbox[m].kind]

Settle(g) ==
    LET m == worker[g].item
        kept == inbox[m].owner = g /\ inbox[m].status = "processing"
        row == IF worker[g].result # "retry" THEN Closed(m, worker[g].result)
               ELSE IF inbox[m].attempts >= AttemptLimit THEN Closed(m, "failed")
               ELSE [inbox[m] EXCEPT !.status = "retry", !.waiting = TRUE,
                                     !.owner = Nil, !.expired = FALSE]
    IN  /\ At(g, "settle")
        /\ worker' = [worker EXCEPT ![g] = Idle]
        /\ \/ inbox' = (IF kept THEN [inbox EXCEPT ![m] = row] ELSE inbox) /\ UNCHANGED faults
           \/ Fault /\ UNCHANGED inbox
        /\ UNCHANGED <<connector, runner, queue, session, run, heard>>

-----------------------------------------------------------------------------
(* processInbox.                                                             *)

Load(g) ==
    /\ At(g, "load")
    /\ \/ /\ worker' = [worker EXCEPT ![g].pc = "act", ![g].session = session]
          /\ UNCHANGED faults
       \/ Fault /\ worker' = SettledAs(g, "retry")
    /\ UNCHANGED <<connector, runner, queue, inbox, session, run, heard>>

Doing(g, kinds) == At(g, "act") /\ inbox[worker[g].item].kind \in kinds
\* The request of a text: an answer when a question is pending, else a turn.
RequestOf(g) ==
    <<worker[g].item, IF worker[g].session.question = Nil THEN "chat" ELSE "question">>

\* A request seen before is attached to its run again.
Replays(r, s) ==
    /\ run[r].status # "none" /\ run[r].conversation = s.conversation
    /\ s.question # Nil => run[s.question].answer = r

\* Start, StartQuestionAnswer
Starts(r, s) ==
    LET here == InConversation(s.conversation) IN
    /\ run[r].status = "none"
    /\ \A other \in here : ~Live(other)
    /\ IF s.question = Nil THEN \A other \in here : run[other].question # "open"
                           ELSE run[s.question].question = "open"

StartRun(r, s) ==
    run' = [other \in Request |->
              IF other = r THEN [NoRun EXCEPT !.conversation = s.conversation,
                                              !.status = "running"]
              ELSE IF other = s.question
              THEN [run[other] EXCEPT !.question = "closed", !.answer = r]
              ELSE run[other]]

\* consumeAgentStream: the active run of the runner, before there is a run.
BeginStream(g) ==
    /\ Doing(g, {"text"})
    /\ worker' = [worker EXCEPT ![g].pc = "call", ![g].active = TRUE, ![g].stopped = FALSE]
    /\ UNCHANGED <<connector, runner, queue, inbox, session, run, heard, faults>>

\* startChat, answerQuestion: the call that opens the stream.  A stop cancels it,
\* before the request is taken or after.
CallAgent(g) ==
    LET s == worker[g].session
        r == RequestOf(g)
        opened == [worker EXCEPT ![g].pc = "stream", ![g].request = r]
    IN  /\ At(g, "call")
        /\ \/ Starts(r, s) /\ StartRun(r, s) /\ worker' = opened /\ UNCHANGED faults
           \/ Replays(r, s) /\ worker' = opened /\ UNCHANGED <<run, faults>>
           \/ /\ IF ~worker[g].stopped /\ (Starts(r, s) \/ Replays(r, s))
                 THEN Fault ELSE UNCHANGED faults
              /\ worker' = SettledAs(g, IF worker[g].stopped THEN "rejected" ELSE "retry")
              /\ UNCHANGED run
        /\ UNCHANGED <<connector, runner, queue, inbox, session, heard>>

\* The stream ends with its run: an open question becomes the pending one,
\* any other end clears it.
StreamEnds(g) ==
    LET w == worker[g]
        asked == run[w.request].question = "open"
        s == [w.session EXCEPT !.question = IF asked THEN w.request ELSE Nil]
    IN  /\ At(g, "stream") /\ ~w.stopped /\ run[w.request].status = "ended"
        /\ session' = IF asked \/ w.session.question # Nil THEN s ELSE session
        /\ worker' = [worker EXCEPT ![g].pc = "send", ![g].session = s]
        /\ UNCHANGED <<connector, runner, queue, inbox, run, heard, faults>>

\* The stream of a stopped run is rejected, a broken one tried again.
StreamBreaks(g) ==
    /\ At(g, "stream")
    /\ IF worker[g].stopped THEN UNCHANGED faults ELSE Fault
    /\ worker' = SettledAs(g, IF worker[g].stopped THEN "rejected" ELSE "retry")
    /\ UNCHANGED <<connector, runner, queue, inbox, session, run, heard>>

\* Mutant: /stop only ends the stream.
CancelActiveRunNever(g) ==
    /\ Doing(g, {"stop"}) /\ Goto(g, "save")
    /\ UNCHANGED <<connector, runner, queue, inbox, session, run, heard, faults>>

\* /stop: ActiveRun, CancelRun.
CancelActiveRun(g) ==
    LET here == InConversation(worker[g].session.conversation) IN
    /\ Doing(g, {"stop"})
    /\ \/ /\ run' = [r \in Request |-> IF r \in here /\ Live(r)
                                       THEN [run[r] EXCEPT !.status = "cancelling"]
                                       ELSE run[r]]
          /\ Goto(g, "save") /\ UNCHANGED faults
       \/ Fault /\ worker' = SettledAs(g, "retry") /\ UNCHANGED run
    /\ UNCHANGED <<connector, runner, queue, inbox, session, heard>>

\* CancelQuestion refuses a question that is not pending.
CancelsQuestion(s) ==
    IF s.question = Nil THEN UNCHANGED run
    ELSE run[s.question].question = "open"
         /\ run' = [run EXCEPT ![s.question].question = "closed"]

BeginNew(g) == Doing(g, {"new"}) /\ Goto(g, "save")
               /\ UNCHANGED <<connector, runner, queue, inbox, session, run, heard, faults>>

\* /new, /stop: CancelQuestion and UpsertSession; a failure between the two
\* leaves the closed question pending.
CloseQuestion(g) ==
    LET s == worker[g].session
        m == worker[g].item
        t == [question |-> Nil, conversation |-> IF inbox[m].kind = "new" THEN m
                                                 ELSE s.conversation]
    IN  /\ At(g, "save")
        /\ \/ CancelsQuestion(s) /\ session' = (IF t # s THEN t ELSE session)
              /\ Goto(g, "send") /\ UNCHANGED faults
           \/ CancelsQuestion(s) /\ Fault
              /\ worker' = SettledAs(g, "retry") /\ UNCHANGED session
           \/ s.question # Nil /\ run[s.question].question # "open"
              /\ worker' = SettledAs(g, "retry") /\ UNCHANGED <<run, session, faults>>
        /\ UNCHANGED <<connector, runner, queue, inbox, heard>>

\* SendMarkdown, under the context of the run when there is one.
Send(g) ==
    /\ At(g, "send")
    /\ \/ ~worker[g].stopped /\ worker' = SettledAs(g, "done") /\ UNCHANGED faults
       \/ (IF worker[g].stopped THEN UNCHANGED faults ELSE Fault)
          /\ worker' = SettledAs(g, "retry")
    /\ UNCHANGED <<connector, runner, queue, inbox, session, run, heard>>

-----------------------------------------------------------------------------
(* The gateway's runs (chatrun) and the user's other clients.                *)

\* Finalize: a run may end with a question; the question it answered is open
\* again when the agent never took the answer.
EndRun(r, asks, accepted) ==
    /\ Live(r)
    /\ asks => accepted /\ run[r].status = "running"
    /\ run' = [q \in Request |->
                 IF q = r THEN [run[r] EXCEPT !.status = "ended",
                                              !.question = IF asks THEN "open" ELSE "none"]
                 ELSE IF run[q].answer = r /\ ~accepted
                 THEN [run[q] EXCEPT !.question = "open", !.answer = Nil]
                 ELSE run[q]]
    /\ UNCHANGED <<connector, runner, queue, inbox, session, worker, heard, faults>>

\* The question is answered or cancelled on the web.
CloseElsewhere(r) ==
    /\ run[r].question = "open" /\ Fault
    /\ run' = [run EXCEPT ![r].question = "closed"]
    /\ UNCHANGED <<connector, runner, queue, inbox, session, worker, heard>>

-----------------------------------------------------------------------------
Serve(g) ==
    \/ \E m \in Messages : ClaimNextInbox(g, m)
    \/ Load(g) \/ BeginStream(g) \/ CallAgent(g) \/ StreamEnds(g) \/ StreamBreaks(g)
    \/ CancelActiveRun(g) \/ BeginNew(g) \/ CloseQuestion(g) \/ Send(g) \/ Settle(g)

RunAny(r) == \E asks, accepted \in BOOLEAN : EndRun(r, asks, accepted)
Next ==
    \/ ConnectorLeaseExpires
    \/ \E enabled \in BOOLEAN : SetEnabled(enabled)
    \/ \E g \in Gateways :
          \/ ClaimConnector(g) \/ CancelRunner(g) \/ Abandon(g) \/ Exit(g) \/ Crash(g)
          \/ \E m \in Messages : Redeliver(g, m) \/ \E kind \in Kind : Receive(g, m, kind)
          \/ Serve(g)
    \/ \E m \in Messages : ItemLeaseExpires(m) \/ DelayElapses(m)
    \/ \E r \in Request : RunAny(r) \/ CloseElsewhere(r)

Spec == Init /\ [][Next]_vars

\* The steps of a runner whose lease or version is gone.
Winds(g) == (CancelRunner(g) /\ UNCHANGED faults) \/ Abandon(g) \/ Exit(g)

\* Tickers, timers and workers go on; a run ends (its timeout sees to it).  No fault
\* is ever due.
FairSpec ==
    /\ Spec
    /\ WF_vars(ConnectorLeaseExpires /\ UNCHANGED faults)
    /\ WF_vars(\E g \in Gateways : ClaimConnector(g))
    /\ \A g \in Gateways : WF_vars(Winds(g)) /\ WF_vars(Serve(g))
    /\ \A m \in Messages : WF_vars(ItemLeaseExpires(m))
    /\ WF_vars(\E m \in Messages : DelayElapses(m))
    /\ WF_vars(\E r \in Request : RunAny(r))

-----------------------------------------------------------------------------
Begins(m) == \E k \in {"chat", "question"} :
                run[<<m, k>>].status = "none" /\ run'[<<m, k>>].status # "none"

(* postgres.go ClaimNextInbox: messages other than /stop reach the agent in  *)
(* the order they were received, also across retries and crashes: a run      *)
(* starts only when every earlier message has been answered, rejected or     *)
(* given up, but for the one whose row another gateway had locked when the   *)
(* item was claimed (FOR UPDATE SKIP LOCKED).                                *)
MessagesRunInOrder ==
    [][\A m \in Messages : Begins(m) =>
         \A n \in Earlier(m) :
            \/ Urgent(n) \/ Settled(n)
            \/ \E g \in Gateways : worker[g].item = m /\ n \in worker[g].skipped]_vars

(* docs/archive/feat-user-feishu-connector.md:29: ordinary messages run      *)
(* strictly from the head of the queue, and later ones never overtake one    *)
(* that waits for its next attempt.  Two gateways whose leases overlap do    *)
(* not keep this: the claim of one skips the head that the other has locked. *)
QueueHeadFirst ==
    [][\A m \in Messages : Begins(m) => \A n \in Earlier(m) : Urgent(n) \/ Settled(n)]_vars

(* manager.go processInbox: when a /stop has been carried out, by the gateway *)
(* that owns its item, no run goes on that went on when it was received and   *)
(* is of the conversation the command found, whoever followed that run, and   *)
(* however often the items were tried again.                                  *)
StopTakesEffect ==
    [][\A m \in Messages :
         Urgent(m) /\ inbox[m].status # "done" /\ inbox'[m].status = "done"
         => LET w == worker[inbox[m].owner]
            IN  /\ w.item = m
                /\ \A r \in heard[m] \cap InConversation(w.session.conversation) :
                      run[r].status # "running"]_vars

(* manager.go drainInbox: the inbox is worked off: whatever crashes, there   *)
(* comes a time when every message that was received has been answered,      *)
(* rejected or given up, as long as the connector stays enabled.             *)
MessagesSettle ==
    (\E m \in Messages : Open(m))
      ~> (~connector.enabled \/ \A m \in Messages : ~Open(m))

(* manager.go consumeAgentStream, docs/archive/feat-user-feishu-connector.md: *)
(* a message that is tried again is replayed to its own run; it never becomes *)
(* the answer to the question that run asked.                                 *)
RetriesReplayTheRun ==
    \A m \in Messages : run[<<m, "chat">>].answer # <<m, "question">>

(* manager.go processInbox: nothing that failed but the code's own calls,    *)
(* /stop and /new are carried out.                                           *)
CommandsSucceed ==
    \A m \in Messages : inbox[m].kind \in {"stop", "new"} => inbox[m].status # "failed"
=============================================================================
