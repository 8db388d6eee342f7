-------------------------- MODULE FeishuInboxProofs --------------------------
(***************************************************************************)
(* Proofs about FeishuInbox, for any gateways, messages, attempts and      *)
(* faults.                                                                 *)
(***************************************************************************)
EXTENDS FeishuInbox, TLAPS

-----------------------------------------------------------------------------
(***************************************************************************)
(* Types.  A message has a row exactly when it is in the queue, and the    *)
(* item of a worker has a row; only a text calls the agent.                *)
(***************************************************************************)

Received(m) == inbox[m].status # "none"
QueueInv == \A m \in Messages : Received(m) <=> \E i \in DOMAIN queue : queue[i] = m
WorkInv ==
    \A g \in Gateways :
        /\ Busy(g) => worker[g].item \in Messages /\ Received(worker[g].item)
        /\ worker[g].pc \in {"call", "stream"} => ~Urgent(worker[g].item)
InboxInv == TypeOK /\ QueueInv /\ WorkInv

\* The command is carried out, all but the reply.
Closing(w) == w.pc \in {"save", "send"} \/ (w.pc = "settle" /\ w.result = "done")

\* A step of a gateway that is not its worker's.
RunnerStep(g) ==
    \/ ClaimConnector(g) \/ CancelRunner(g) \/ Abandon(g) \/ Exit(g) \/ Crash(g)
    \/ \E m \in Messages : Redeliver(g, m)

\* The actions, by who takes them.
LEMMA InboxSteps ==
    ASSUME Next
    PROVE  \/ ConnectorLeaseExpires \/ \E enabled \in BOOLEAN : SetEnabled(enabled)
           \/ \E g \in Gateways : RunnerStep(g)
           \/ \E g \in Gateways, m \in Messages, kind \in Kind : Receive(g, m, kind)
           \/ \E g \in Gateways : Serve(g)
           \/ \E m \in Messages : ItemLeaseExpires(m) \/ DelayElapses(m)
           \/ \E r \in Request : RunAny(r) \/ CloseElsewhere(r)
  BY Zenon DEF Next, RunnerStep

\* A worker at rest.
LEMMA IdleFits == Idle \in Worker /\ NoItem \in Item /\ NoRun \in Run /\ Fresh \in Session
  BY BoundsAssumption DEF Idle, Worker, NoItem, Item, NoRun, Run, Fresh, Session, Kind,
                          Conversation

\* What a step of a worker leaves: a worker on the same item, with the session it had
\* loaded, or a worker that has claimed its next item.
LEMMA ServeFits ==
    ASSUME InboxInv, NEW g \in Gateways, Serve(g)
    PROVE  \E x \in Worker :
              /\ worker' = [worker EXCEPT ![g] = x]
              /\ x.pc # "idle" =>
                    \/ ClaimNextInbox(g, x.item) /\ x.item \in Messages /\ x.pc = "load"
                    \/ /\ Busy(g) /\ x.item = worker[g].item
                       /\ \/ x.pc = "settle"
                          \/ worker[g].pc # "settle" /\ x.skipped = worker[g].skipped
                       /\ \/ x.pc = "act"
                          \/ x.session.conversation = worker[g].session.conversation
              /\ Closing(x) => \/ Closing(worker[g]) \/ worker[g].pc = "stream"
                               \/ CancelActiveRun(g) \/ ~Urgent(worker[g].item)
              /\ x.pc \in {"call", "stream"} => ~Urgent(x.item)
  <1> DEFINE w == worker[g]
             Good(x) ==
                /\ x \in Worker
                /\ worker' = [worker EXCEPT ![g] = x]
                /\ x.pc # "idle" =>
                      \/ ClaimNextInbox(g, x.item) /\ x.item \in Messages /\ x.pc = "load"
                      \/ /\ Busy(g) /\ x.item = w.item
                         /\ x.pc = "settle" \/ (w.pc # "settle" /\ x.skipped = w.skipped)
                         /\ \/ x.pc = "act" \/ x.session.conversation = w.session.conversation
                /\ Closing(x) => \/ Closing(w) \/ w.pc = "stream"
                                 \/ CancelActiveRun(g) \/ ~Urgent(w.item)
                /\ x.pc \in {"call", "stream"} => ~Urgent(x.item)
  <1> SUFFICES \E x : Good(x)
    OBVIOUS
  <1> HIDE DEF w
  <1>1. w \in Worker /\ worker \in [Gateways -> Worker] /\ session \in Session /\ w = worker[g]
        /\ (w.pc \in {"call", "stream"} => ~Urgent(w.item))
    BY DEF InboxInv, TypeOK, WorkInv, w
  <1>2. Busy(g) <=> w.pc # "idle"
    BY DEF Busy, w
  <1>3. Idle \in Worker /\ Idle.pc = "idle" /\ ~Closing(Idle)
    BY IdleFits DEF Idle, Closing
  <1>4. CASE \E m \in Messages : ClaimNextInbox(g, m)
    <2> PICK m \in Messages : ClaimNextInbox(g, m)
      BY <1>4
    <2> PICK rows : worker' = [worker EXCEPT ![g] = [Idle EXCEPT !.pc = "load", !.item = m,
                                                              !.skipped = Earlier(m) \ rows]]
      BY DEF ClaimNextInbox
    <2> DEFINE x == [Idle EXCEPT !.pc = "load", !.item = m, !.skipped = Earlier(m) \ rows]
    <2>1. worker' = [worker EXCEPT ![g] = x]
      OBVIOUS
    <2>2. x \in Worker
      BY <1>3 DEF Worker, Earlier
    <2>3. x.pc = "load" /\ x.item = m
      BY DEF Idle
    <2> HIDE DEF x
    <2>4. Good(x)
      BY <2>1, <2>2, <2>3 DEF Closing
    <2> QED BY <2>4
  <1>5. ASSUME NEW result \in {"done", "rejected", "retry"}, worker' = SettledAs(g, result),
               w.pc # "idle", result = "done" => Closing(w)
        PROVE  \E x : Good(x)
    <2> DEFINE x == [w EXCEPT !.pc = "settle", !.result = result, !.request = Nil,
                              !.active = FALSE, !.stopped = FALSE, !.skipped = {}]
    <2>1. worker' = [worker EXCEPT ![g] = x]
      BY <1>1, <1>5 DEF SettledAs
    <2>2. /\ x \in Worker /\ x.pc = "settle" /\ x.result = result
          /\ x.item = w.item /\ x.session = w.session
      BY <1>1 DEF Worker
    <2> HIDE DEF x
    <2>3. Good(x)
      BY <1>2, <1>5, <2>1, <2>2 DEF Closing
    <2> QED BY <2>3
  <1>6. ASSUME NEW pc \in {"act", "call", "save", "stream", "send"}, w.pc \notin {"idle", "settle"},
               NEW x \in Worker, x.pc = pc, x.item = w.item, x.skipped = w.skipped,
               pc = "act" \/ x.session.conversation = w.session.conversation,
               pc \in {"save", "send"} =>
                  \/ Closing(w) \/ w.pc = "stream"
                  \/ CancelActiveRun(g) \/ ~Urgent(w.item),
               pc \in {"call", "stream"} => ~Urgent(w.item),
               worker' = [worker EXCEPT ![g] = x]
        PROVE  \E y : Good(y)
    <2>1. Good(x)
      BY <1>2, <1>6 DEF Closing
    <2> QED BY <2>1
  <1>7. ASSUME NEW pc \in {"save", "send"}, w.pc \notin {"idle", "settle"}, Goto(g, pc),
               Closing(w) \/ CancelActiveRun(g) \/ ~Urgent(w.item)
        PROVE  \E x : Good(x)
    <2> DEFINE x == [w EXCEPT !.pc = pc]
    <2>1. worker' = [worker EXCEPT ![g] = x]
      BY <1>1, <1>7 DEF Goto
    <2>2. /\ x \in Worker /\ x.pc = pc /\ x.item = w.item /\ x.session = w.session
          /\ x.skipped = w.skipped
      BY <1>1, <1>7 DEF Worker
    <2> HIDE DEF x, Good
    <2> QED BY <1>6, <1>7, <2>1, <2>2
  <1>8. CASE Load(g)
    <2>1. w.pc = "load"
      BY <1>1, <1>8 DEF Load, At
    <2>2. CASE worker' = [worker EXCEPT ![g].pc = "act", ![g].session = session]
      <3> DEFINE x == [w EXCEPT !.pc = "act", !.session = session]
      <3>1. worker' = [worker EXCEPT ![g] = x]
        BY <1>1, <2>2
      <3>2. x \in Worker /\ x.pc = "act" /\ x.item = w.item /\ x.skipped = w.skipped
        BY <1>1 DEF Worker
      <3> HIDE DEF x, Good
      <3> QED BY <1>6, <2>1, <3>1, <3>2
    <2>3. CASE worker' = SettledAs(g, "retry")
      <3> HIDE DEF Good
      <3> QED BY <1>5, <2>1, <2>3
    <2> HIDE DEF Good
    <2> QED BY <1>8, <2>2, <2>3 DEF Load
  <1>9. CASE BeginStream(g)
    <2> DEFINE x == [w EXCEPT !.pc = "call", !.active = TRUE, !.stopped = FALSE]
    <2>1. w.pc = "act" /\ ~Urgent(w.item) /\ worker' = [worker EXCEPT ![g] = x]
      BY <1>1, <1>9 DEF BeginStream, Doing, At, Urgent
    <2>2. /\ x \in Worker /\ x.pc = "call" /\ x.item = w.item /\ x.session = w.session
          /\ x.skipped = w.skipped
      BY <1>1 DEF Worker
    <2> HIDE DEF x, Good
    <2> QED BY <1>6, <2>1, <2>2
  <1>17. CASE CallAgent(g)
    <2>1. w.pc = "call"
      BY <1>1, <1>17 DEF CallAgent, At
    <2>2. CASE \E result \in {"rejected", "retry"} : worker' = SettledAs(g, result)
      <3> HIDE DEF Good
      <3> QED BY <1>5, <2>1, <2>2
    <2>3. CASE worker' = [worker EXCEPT ![g].pc = "stream", ![g].request = RequestOf(g)]
      <3> DEFINE x == [w EXCEPT !.pc = "stream", !.request = RequestOf(g)]
      <3>1. worker' = [worker EXCEPT ![g] = x]
        BY <1>1, <2>3
      <3>2. w.item \in Messages
        BY <1>1, <1>2, <2>1 DEF InboxInv, WorkInv
      <3>3. RequestOf(g) \in Request
        BY <1>1, <3>2 DEF RequestOf, Request
      <3>4. /\ x \in Worker /\ x.pc = "stream" /\ x.item = w.item /\ x.session = w.session
            /\ x.skipped = w.skipped
        BY <1>1, <3>3 DEF Worker
      <3> HIDE DEF x, Good
      <3> QED BY <1>1, <1>6, <2>1, <3>1, <3>4
    <2> HIDE DEF Good
    <2> QED BY <1>17, <2>2, <2>3 DEF CallAgent
  <1>10. CASE StreamEnds(g)
    <2> DEFINE asked == run[w.request].question = "open"
               s == [w.session EXCEPT !.question = IF asked THEN w.request ELSE Nil]
               x == [w EXCEPT !.pc = "send", !.session = s]
    <2>1. w.pc = "stream" /\ worker' = [worker EXCEPT ![g] = x]
      BY <1>1, <1>10 DEF StreamEnds, At
    <2>2. w.session \in Session /\ w.request \in Request \cup {Nil}
      BY <1>1 DEF Worker
    <2>3. s \in Session /\ s.conversation = w.session.conversation
      BY <2>2 DEF Session
    <2> HIDE DEF s
    <2>4. /\ x \in Worker /\ x.pc = "send" /\ x.item = w.item /\ x.session = s
          /\ x.skipped = w.skipped
      BY <1>1, <2>3 DEF Worker
    <2> HIDE DEF x, Good
    <2> QED BY <1>6, <2>1, <2>3, <2>4
  <1>11. CASE StreamBreaks(g)
    <2>1. w.pc = "stream" /\ \E result \in {"rejected", "retry"} : worker' = SettledAs(g, result)
      BY <1>1, <1>11 DEF StreamBreaks, At
    <2> HIDE DEF Good
    <2> QED BY <1>5, <2>1
  <1>12. CASE CancelActiveRun(g)
    <2>1. w.pc = "act" /\ (Goto(g, "save") \/ worker' = SettledAs(g, "retry"))
      BY <1>1, <1>12 DEF CancelActiveRun, Doing, At
    <2> HIDE DEF Good
    <2> QED BY <1>5, <1>7, <1>12, <2>1
  <1>13. CASE BeginNew(g)
    <2>1. w.pc = "act" /\ ~Urgent(w.item) /\ Goto(g, "save")
      BY <1>1, <1>13 DEF BeginNew, Doing, At, Urgent
    <2> HIDE DEF Good
    <2> QED BY <1>7, <2>1
  <1>14. CASE CloseQuestion(g)
    <2>1. w.pc = "save" /\ (Goto(g, "send") \/ worker' = SettledAs(g, "retry"))
      BY <1>1, <1>14 DEF CloseQuestion, At
    <2>2. Closing(w)
      BY <2>1 DEF Closing
    <2> HIDE DEF Good
    <2> QED BY <1>5, <1>7, <2>1, <2>2
  <1>15. CASE Send(g)
    <2>1. w.pc = "send" /\ \E result \in {"done", "retry"} : worker' = SettledAs(g, result)
      BY <1>1, <1>15 DEF Send, At
    <2>2. Closing(w)
      BY <2>1 DEF Closing
    <2> HIDE DEF Good
    <2> QED BY <1>5, <2>1, <2>2
  <1>16. CASE Settle(g)
    <2>1. worker' = [worker EXCEPT ![g] = Idle]
      BY <1>16 DEF Settle
    <2>2. Good(Idle)
      BY <1>3, <2>1
    <2> QED BY <2>2
  <1> HIDE DEF Good
  <1> QED BY <1>4, <1>8, <1>9, <1>10, <1>11, <1>12, <1>13, <1>14, <1>15, <1>16, <1>17
         DEF Serve

\* Faults stay within their bound.
LEMMA FaultsTyped ==
    ASSUME TypeOK, Fault \/ UNCHANGED faults
    PROVE  faults' \in 0..MaxFaults
  BY BoundsAssumption DEF TypeOK, Fault

\* What becomes of the rows of the runs: a run that was started belongs to its conversation
\* for good, and one that was asked to stop never goes on.
RunsMove ==
    /\ run' \in [Request -> Run]
    /\ \A r \in Request : run[r].status # "none" =>
          /\ run'[r].status # "none" /\ run'[r].conversation = run[r].conversation
          /\ run'[r].status = "running" => run[r].status = "running"

\* A step that leaves the runs alone.
LEMMA RunsStay == TypeOK /\ UNCHANGED run => RunsMove
  BY DEF TypeOK, RunsMove

\* A question that is closed.
LEMMA QuestionCloses ==
    ASSUME TypeOK, NEW r \in Request, run' = [run EXCEPT ![r].question = "closed"]
    PROVE  RunsMove
  <1> DEFINE x == [run[r] EXCEPT !.question = "closed"]
  <1>1. run[r] \in Run /\ run' = [run EXCEPT ![r] = x]
    BY DEF TypeOK
  <1>2. x \in Run /\ x.status = run[r].status /\ x.conversation = run[r].conversation
    BY <1>1 DEF Run
  <1> HIDE DEF x
  <1> QED BY <1>1, <1>2 DEF TypeOK, RunsMove

\* CancelQuestion.
LEMMA CancelsQuestionMoves ==
    ASSUME TypeOK, NEW s \in Session, CancelsQuestion(s)
    PROVE  RunsMove
  <1>1. CASE UNCHANGED run
    BY <1>1, RunsStay
  <1>2. CASE s.question # Nil /\ run' = [run EXCEPT ![s.question].question = "closed"]
    <2>1. s.question \in Request
      BY <1>2 DEF Session
    <2> QED BY <1>2, <2>1, QuestionCloses
  <1> QED BY <1>1, <1>2 DEF CancelsQuestion

\* Start, StartQuestionAnswer.
LEMMA StartRunMoves ==
    ASSUME TypeOK, NEW r \in Request, NEW s \in Session, run[r].status = "none", StartRun(r, s)
    PROVE  RunsMove
  <1> DEFINE new == [NoRun EXCEPT !.conversation = s.conversation, !.status = "running"]
             x(q) == IF q = r THEN new
                     ELSE IF q = s.question
                          THEN [run[q] EXCEPT !.question = "closed", !.answer = r]
                     ELSE run[q]
  <1>1. run' = [q \in Request |-> x(q)]
    BY DEF StartRun
  <1>2. new \in Run
    BY IdleFits DEF Run, Session
  <1>3. ASSUME NEW q \in Request
        PROVE  /\ x(q) \in Run
               /\ q # r => x(q).status = run[q].status /\ x(q).conversation = run[q].conversation
    <2>1. run[q] \in Run
      BY DEF TypeOK
    <2>2. [run[q] EXCEPT !.question = "closed", !.answer = r] \in Run
      BY <2>1 DEF Run
    <2>3. /\ [run[q] EXCEPT !.question = "closed", !.answer = r].status = run[q].status
          /\ [run[q] EXCEPT !.question = "closed", !.answer = r].conversation
                = run[q].conversation
      BY <2>1 DEF Run
    <2> HIDE DEF new
    <2> QED BY <1>2, <2>1, <2>2, <2>3
  <1> HIDE DEF x
  <1> QED BY <1>1, <1>3 DEF RunsMove

\* Finalize.
LEMMA EndRunMoves ==
    ASSUME TypeOK, NEW r \in Request, RunAny(r)
    PROVE  RunsMove
  <1> PICK asks \in BOOLEAN, accepted \in BOOLEAN : EndRun(r, asks, accepted)
    BY DEF RunAny
  <1> DEFINE x(q) ==
                IF q = r THEN [run[r] EXCEPT !.status = "ended",
                                             !.question = IF asks THEN "open" ELSE "none"]
                ELSE IF run[q].answer = r /\ ~accepted
                THEN [run[q] EXCEPT !.question = "open", !.answer = Nil]
                ELSE run[q]
  <1>1. run' = [q \in Request |-> x(q)]
    BY DEF EndRun
  <1>2. ASSUME NEW q \in Request
        PROVE  /\ x(q) \in Run /\ x(q).conversation = run[q].conversation
               /\ x(q).status = run[q].status \/ x(q).status = "ended"
    <2>1. run[q] \in Run
      BY DEF TypeOK
    <2>2. CASE q = r
      <3> DEFINE y == [run[r] EXCEPT !.status = "ended",
                                     !.question = IF asks THEN "open" ELSE "none"]
      <3>1. x(q) = y
        BY <2>2
      <3>2. y \in Run /\ y.conversation = run[r].conversation /\ y.status = "ended"
        BY <2>1, <2>2 DEF Run
      <3> QED BY <2>2, <3>1, <3>2
    <2>3. CASE q # r
      <3> DEFINE y == [run[q] EXCEPT !.question = "open", !.answer = Nil]
      <3>1. x(q) = y \/ x(q) = run[q]
        BY <2>3
      <3>2. y \in Run /\ y.conversation = run[q].conversation /\ y.status = run[q].status
        BY <2>1 DEF Run
      <3> QED BY <2>1, <3>1, <3>2
    <2> QED BY <2>2, <2>3
  <1> HIDE DEF x
  <1> QED BY <1>1, <1>2 DEF RunsMove

\* ActiveRun, CancelRun.
LEMMA CancelActiveRunMoves ==
    ASSUME TypeOK, NEW g \in Gateways, CancelActiveRun(g)
    PROVE  RunsMove
  <1> DEFINE here == InConversation(worker[g].session.conversation)
             x(r) == IF r \in here /\ Live(r) THEN [run[r] EXCEPT !.status = "cancelling"]
                     ELSE run[r]
  <1>1. CASE UNCHANGED run
    BY <1>1, RunsStay
  <1>2. CASE run' = [r \in Request |-> x(r)]
    <2>1. ASSUME NEW r \in Request
          PROVE  /\ x(r) \in Run /\ x(r).conversation = run[r].conversation
                 /\ x(r).status = run[r].status \/ x(r).status = "cancelling"
      <3>1. run[r] \in Run
        BY DEF TypeOK
      <3>2. /\ [run[r] EXCEPT !.status = "cancelling"] \in Run
            /\ [run[r] EXCEPT !.status = "cancelling"].conversation = run[r].conversation
            /\ [run[r] EXCEPT !.status = "cancelling"].status = "cancelling"
        BY <3>1 DEF Run
      <3> HIDE DEF here
      <3> QED BY <3>1, <3>2
    <2> HIDE DEF x
    <2> QED BY <1>2, <2>1 DEF RunsMove
  <1> QED BY <1>1, <1>2 DEF CancelActiveRun

\* Every step moves the runs so.
LEMMA NextMovesRuns ==
    ASSUME TypeOK, WorkInv, Next
    PROVE  RunsMove
  <1>1. CASE UNCHANGED run
    BY <1>1, RunsStay
  <1>2. ASSUME NEW g \in Gateways, Serve(g)
        PROVE  RunsMove
    <2>1. worker[g] \in Worker /\ worker[g].session \in Session
      BY DEF TypeOK, Worker
    <2>2. CASE CallAgent(g)
      <3>1. CASE Starts(RequestOf(g), worker[g].session)
                 /\ StartRun(RequestOf(g), worker[g].session)
        <4>1. worker[g].item \in Messages
          BY <2>2 DEF CallAgent, At, Busy, WorkInv
        <4>2. RequestOf(g) \in Request
          BY <4>1 DEF RequestOf, Request
        <4> QED BY <2>1, <3>1, <4>2, StartRunMoves DEF Starts
      <3> QED BY <1>1, <2>2, <3>1 DEF CallAgent
    <2>3. CASE CancelActiveRun(g)
      BY <2>3, CancelActiveRunMoves
    <2>4. CASE CloseQuestion(g)
      BY <1>1, <2>1, <2>4, CancelsQuestionMoves DEF CloseQuestion
    <2>5. CASE ~(CallAgent(g) \/ CancelActiveRun(g) \/ CloseQuestion(g))
      BY <1>1, <1>2, <2>5 DEF Serve, ClaimNextInbox, Load, BeginStream, StreamEnds,
                              StreamBreaks, BeginNew, Send, Settle
    <2> QED BY <2>2, <2>3, <2>4, <2>5
  <1>3. ASSUME NEW r \in Request, CloseElsewhere(r)
        PROVE  RunsMove
    BY <1>3, QuestionCloses DEF CloseElsewhere
  <1>4. CASE \/ ConnectorLeaseExpires \/ \E enabled \in BOOLEAN : SetEnabled(enabled)
             \/ \E g \in Gateways : RunnerStep(g)
             \/ \E g \in Gateways, m \in Messages, kind \in Kind : Receive(g, m, kind)
             \/ \E m \in Messages : ItemLeaseExpires(m) \/ DelayElapses(m)
    BY <1>1, <1>4 DEF ConnectorLeaseExpires, SetEnabled, RunnerStep, Receive, ItemLeaseExpires,
                      DelayElapses, ClaimConnector, CancelRunner, Abandon, Exit, Crash, Redeliver
  <1> QED BY <1>2, <1>3, <1>4, EndRunMoves, InboxSteps

\* What becomes of the inbox: messages join the end of the queue, a row stays, of its kind,
\* and what is settled stays settled.
InboxMoves ==
    /\ inbox' \in [Messages -> Item]
    /\ \/ UNCHANGED queue
       \/ \E m \in Messages : ~Received(m) /\ Received(m)' /\ queue' = Append(queue, m)
                              /\ \A n \in Messages \ {m} : inbox'[n] = inbox[n]
    /\ \A m \in Messages : Received(m) =>
          /\ Received(m)' /\ inbox'[m].kind = inbox[m].kind
          /\ Settled(m) => Settled(m)'
    /\ UNCHANGED queue => \A m \in Messages : Received(m)' => Received(m)

\* A step that leaves the inbox alone.
LEMMA InboxStays == TypeOK /\ UNCHANGED <<queue, inbox>> => InboxMoves
  BY DEF TypeOK, InboxMoves, Received, Settled

\* One row changes, from an open status to another.
LEMMA RowMoves ==
    ASSUME TypeOK, NEW m \in Messages, NEW x \in Item, inbox' = [inbox EXCEPT ![m] = x],
           UNCHANGED queue, x.kind = inbox[m].kind, x.status = "none" <=> ~Received(m),
           Settled(m) => x.status = inbox[m].status
    PROVE  InboxMoves
  <1>1. inbox \in [Messages -> Item]
    BY DEF TypeOK
  <1>2. inbox'[m] = x /\ \A n \in Messages : n # m => inbox'[n] = inbox[n]
    BY <1>1
  <1>3. inbox' \in [Messages -> Item]
    BY <1>1
  <1> QED BY <1>2, <1>3 DEF InboxMoves, Received, Settled

\* ClaimNextInbox takes a row that is open.
LEMMA ClaimMoves ==
    ASSUME InboxInv, NEW g \in Gateways, NEW m \in Messages, ClaimNextInbox(g, m)
    PROVE  InboxMoves /\ Open(m)
  <1>1. Open(m)
    <2>1. PICK rows : m \in Candidates(rows)
      BY DEF ClaimNextInbox
    <2> QED BY <2>1 DEF Candidates, Oldest
  <1> DEFINE x == [inbox[m] EXCEPT !.status = "processing", !.owner = g, !.expired = FALSE,
                                   !.waiting = FALSE,
                                   !.attempts = IF @ < AttemptLimit THEN @ + 1 ELSE @]
  <1>2. inbox[m] \in Item
    BY DEF InboxInv, TypeOK
  <1>3. inbox' = [inbox EXCEPT ![m] = x] /\ UNCHANGED queue
    BY DEF ClaimNextInbox, InboxInv, TypeOK
  <1>4. x.kind = inbox[m].kind /\ x.status = "processing"
    BY <1>2 DEF Item
  <1>5. x \in Item
    <2>1. inbox[m].attempts \in 0..AttemptLimit
      BY <1>2 DEF Item
    <2> DEFINE n == IF inbox[m].attempts < AttemptLimit THEN inbox[m].attempts + 1
                    ELSE inbox[m].attempts
    <2>2. n \in 0..AttemptLimit
      BY <2>1, BoundsAssumption
    <2>3. x = [inbox[m] EXCEPT !.status = "processing", !.owner = g, !.expired = FALSE,
                               !.waiting = FALSE, !.attempts = n]
      OBVIOUS
    <2> HIDE DEF x, n
    <2> QED BY <1>2, <2>2, <2>3 DEF Item
  <1>6. Received(m) /\ ~Settled(m)
    BY <1>1 DEF Open, Received, Settled
  <1> HIDE DEF x
  <1> QED BY <1>1, <1>3, <1>4, <1>5, <1>6, RowMoves DEF InboxInv

\* FinishInbox and RetryInbox write only the row that the gateway owns.
LEMMA SettleMoves ==
    ASSUME InboxInv, NEW g \in Gateways, Settle(g)
    PROVE  /\ InboxMoves
           /\ \A m \in Messages : inbox[m].status # "done" /\ inbox'[m].status = "done" =>
                 /\ inbox[m].owner = g /\ worker[g].item = m
                 /\ worker[g].pc = "settle" /\ worker[g].result = "done"
  <1> DEFINE m == worker[g].item
             kept == inbox[m].owner = g /\ inbox[m].status = "processing"
             x == IF worker[g].result # "retry" THEN Closed(m, worker[g].result)
                  ELSE IF inbox[m].attempts >= AttemptLimit THEN Closed(m, "failed")
                  ELSE [inbox[m] EXCEPT !.status = "retry", !.waiting = TRUE,
                                        !.owner = Nil, !.expired = FALSE]
  <1>1. /\ UNCHANGED queue /\ worker[g].pc = "settle"
        /\ (kept /\ inbox' = [inbox EXCEPT ![m] = x]) \/ UNCHANGED inbox
    BY DEF Settle, At
  <1>2. /\ m \in Messages /\ Received(m) /\ inbox[m] \in Item
        /\ worker[g].result \in {"done", "rejected", "retry"}
    BY <1>1 DEF InboxInv, WorkInv, Busy, TypeOK, Worker
  <1>3. CASE kept /\ inbox' = [inbox EXCEPT ![m] = x]
    <2>1. x \in Item /\ x.kind = inbox[m].kind /\ x.status # "none"
          /\ (x.status = "done" => worker[g].result = "done")
      <3>1. ASSUME NEW status \in {"done", "rejected", "failed"}
            PROVE  /\ Closed(m, status) \in Item /\ Closed(m, status).kind = inbox[m].kind
                   /\ Closed(m, status).status = status
        <4>1. inbox[m].kind \in Kind
          BY <1>2 DEF Item
        <4> QED BY <4>1, IdleFits DEF Closed, Item
      <3>2. CASE worker[g].result # "retry"
        BY <1>2, <3>1, <3>2
      <3>3. CASE worker[g].result = "retry" /\ inbox[m].attempts >= AttemptLimit
        BY <3>1, <3>3
      <3>4. CASE worker[g].result = "retry" /\ ~(inbox[m].attempts >= AttemptLimit)
        BY <1>2, <3>4 DEF Item
      <3> QED BY <3>2, <3>3, <3>4
    <2>3. ~Settled(m)
      BY <1>3 DEF Settled
    <2> HIDE DEF x, kept
    <2>4. InboxMoves
      <3> HIDE DEF m
      <3> QED BY <1>1, <1>2, <1>3, <2>1, <2>3, RowMoves DEF InboxInv
    <2>5. \A n \in Messages : n # m => inbox'[n] = inbox[n]
      BY <1>3 DEF InboxInv, TypeOK
    <2>6. inbox'[m].status = "done" => worker[g].result = "done"
      BY <1>2, <1>3, <2>1 DEF InboxInv, TypeOK
    <2>7. inbox[m].owner = g
      BY <1>3 DEF kept
    <2> HIDE DEF m
    <2> QED BY <1>1, <2>4, <2>5, <2>6, <2>7 DEF m
  <1>4. CASE UNCHANGED inbox
    BY <1>1, <1>4, InboxStays DEF InboxInv
  <1> QED BY <1>1, <1>3, <1>4

\* Every step moves the inbox so.
LEMMA NextMovesInbox ==
    ASSUME InboxInv, Next
    PROVE  InboxMoves
  <1>1. CASE UNCHANGED <<queue, inbox>>
    BY <1>1, InboxStays DEF InboxInv
  <1>2. ASSUME NEW g \in Gateways, Serve(g)
        PROVE  InboxMoves
    <2>1. CASE \E m \in Messages : ClaimNextInbox(g, m)
      BY <2>1, ClaimMoves
    <2>2. CASE Settle(g)
      BY <2>2, SettleMoves
    <2>3. CASE \/ Load(g) \/ BeginStream(g) \/ CallAgent(g) \/ StreamEnds(g) \/ StreamBreaks(g)
               \/ CancelActiveRun(g) \/ BeginNew(g) \/ CloseQuestion(g) \/ Send(g)
      BY <1>1, <2>3 DEF Load, BeginStream, CallAgent, StreamEnds, StreamBreaks,
                        CancelActiveRun, BeginNew, CloseQuestion, Send
    <2> QED BY <1>2, <2>1, <2>2, <2>3 DEF Serve
  <1>3. ASSUME NEW m \in Messages, ItemLeaseExpires(m) \/ DelayElapses(m)
        PROVE  InboxMoves
    <2>1. inbox[m] \in Item
      BY DEF InboxInv, TypeOK
    <2>2. CASE ItemLeaseExpires(m)
      <3> DEFINE x == [inbox[m] EXCEPT !.expired = TRUE]
      <3>1. inbox' = [inbox EXCEPT ![m] = x] /\ UNCHANGED queue
        BY <2>2 DEF ItemLeaseExpires, InboxInv, TypeOK
      <3>2. x \in Item /\ x.kind = inbox[m].kind /\ x.status = inbox[m].status
        BY <2>1 DEF Item
      <3> HIDE DEF x
      <3> QED BY <2>1, <3>1, <3>2, RowMoves DEF InboxInv, Received
    <2>3. CASE DelayElapses(m)
      <3> DEFINE x == [inbox[m] EXCEPT !.waiting = FALSE]
      <3>1. inbox' = [inbox EXCEPT ![m] = x] /\ UNCHANGED queue
        BY <2>3 DEF DelayElapses, InboxInv, TypeOK
      <3>2. x \in Item /\ x.kind = inbox[m].kind /\ x.status = inbox[m].status
        BY <2>1 DEF Item
      <3> HIDE DEF x
      <3> QED BY <2>1, <3>1, <3>2, RowMoves DEF InboxInv, Received
    <2> QED BY <1>3, <2>2, <2>3
  <1>4. ASSUME NEW g \in Gateways, NEW m \in Messages, NEW kind \in Kind, Receive(g, m, kind)
        PROVE  InboxMoves
    <2> DEFINE x == [NoItem EXCEPT !.status = "pending", !.kind = kind]
    <2>1. x \in Item /\ x.status = "pending"
      BY IdleFits DEF Item, NoItem
    <2>2. inbox' = [inbox EXCEPT ![m] = x] /\ queue' = Append(queue, m)
      BY <1>4 DEF Receive
    <2>3. ~Received(m)
      BY <1>4 DEF Receive, InboxInv, QueueInv, ToSet
    <2> HIDE DEF x
    <2>4. /\ inbox' \in [Messages -> Item] /\ inbox'[m] = x
          /\ \A n \in Messages \ {m} : inbox'[n] = inbox[n]
      BY <2>1, <2>2 DEF InboxInv, TypeOK
    <2>5. Received(m)'
      BY <2>1, <2>4 DEF Received
    <2>6. queue' # queue
      BY <2>2 DEF InboxInv, TypeOK
    <2> QED BY <2>2, <2>3, <2>4, <2>5, <2>6 DEF InboxMoves, Received, Settled
  <1>5. CASE \/ ConnectorLeaseExpires \/ \E enabled \in BOOLEAN : SetEnabled(enabled)
             \/ \E g \in Gateways : RunnerStep(g)
             \/ \E r \in Request : RunAny(r) \/ CloseElsewhere(r)
    BY <1>1, <1>5 DEF ConnectorLeaseExpires, SetEnabled, RunnerStep, RunAny, EndRun,
                      CloseElsewhere, ClaimConnector, CancelRunner, Abandon, Exit, Crash,
                      Redeliver
  <1> QED BY <1>2, <1>3, <1>4, <1>5, InboxSteps

\* What becomes of a worker that is not idle after the step.
WorkerMoves(g) ==
    worker'[g].pc # "idle" =>
        \/ /\ ClaimNextInbox(g, worker'[g].item) /\ worker'[g].item \in Messages
           /\ worker'[g].pc = "load"
        \/ /\ Busy(g) /\ worker'[g].item = worker[g].item
           /\ \/ worker'[g].pc = "settle"
              \/ worker[g].pc # "settle" /\ worker'[g].skipped = worker[g].skipped
           /\ \/ worker'[g].pc = "act"
              \/ worker'[g].session.conversation = worker[g].session.conversation
           /\ Closing(worker'[g]) => \/ Closing(worker[g]) \/ CancelActiveRun(g)
                                     \/ ~Urgent(worker[g].item)
           /\ worker'[g].pc \in {"call", "stream"} => ~Urgent(worker[g].item)
WorkersMove == worker' \in [Gateways -> Worker] /\ \A g \in Gateways : WorkerMoves(g)

\* One worker rests, or keeps its place, its item, its session and its result.
LEMMA WorkersStay ==
    ASSUME InboxInv, NEW h \in Gateways, NEW x \in Worker, worker' = [worker EXCEPT ![h] = x],
           \/ x.pc = "idle"
           \/ /\ x.pc = worker[h].pc /\ x.item = worker[h].item
              /\ x.session = worker[h].session /\ x.result = worker[h].result
              /\ x.skipped = worker[h].skipped
    PROVE  WorkersMove
  <1>1. worker' \in [Gateways -> Worker] /\ worker'[h] = x
        /\ \A g \in Gateways : g # h => worker'[g] = worker[g]
    BY DEF InboxInv, TypeOK
  <1>2. ASSUME NEW g \in Gateways
        PROVE  WorkerMoves(g)
    <2>1. \/ worker'[g].pc = "idle"
          \/ /\ worker'[g].pc = worker[g].pc /\ worker'[g].item = worker[g].item
             /\ worker'[g].session = worker[g].session
             /\ worker'[g].result = worker[g].result
             /\ worker'[g].skipped = worker[g].skipped
      BY <1>1
    <2>2. worker[g].pc \in {"call", "stream"} => ~Urgent(worker[g].item)
      BY DEF InboxInv, WorkInv
    <2> QED BY <2>1, <2>2 DEF WorkerMoves, Closing, Busy
  <1> QED BY <1>1, <1>2 DEF WorkersMove

\* stopActive.
LEMMA StoppedStays ==
    ASSUME InboxInv, NEW g \in Gateways, worker' = Stopped(g)
    PROVE  WorkersMove
  <1> DEFINE b == worker[g].stopped \/ worker[g].active
             x == [worker[g] EXCEPT !.stopped = b]
  <1>1. worker[g] \in Worker
    BY DEF InboxInv, TypeOK
  <1>2. worker' = [worker EXCEPT ![g] = x]
    BY DEF Stopped, InboxInv, TypeOK
  <1>3. b \in BOOLEAN
    OBVIOUS
  <1> HIDE DEF b
  <1>4. /\ x \in Worker /\ x.pc = worker[g].pc /\ x.item = worker[g].item
        /\ x.session = worker[g].session /\ x.result = worker[g].result
        /\ x.skipped = worker[g].skipped
    BY <1>1, <1>3 DEF Worker
  <1> HIDE DEF x
  <1> QED BY <1>2, <1>4, WorkersStay

\* Every step moves the workers so.
LEMMA NextMovesWorkers ==
    ASSUME InboxInv, Next
    PROVE  WorkersMove
  <1>1. CASE UNCHANGED worker
    <2>1. worker' \in [Gateways -> Worker]
      BY <1>1 DEF InboxInv, TypeOK
    <2>2. \A g \in Gateways :
             worker[g].pc \in {"call", "stream"} => ~Urgent(worker[g].item)
      BY DEF InboxInv, WorkInv
    <2> QED BY <1>1, <2>1, <2>2 DEF WorkersMove, WorkerMoves, Closing, Busy
  <1>2. ASSUME NEW h \in Gateways, worker' = [worker EXCEPT ![h] = Idle]
        PROVE  WorkersMove
    <2>1. Idle \in Worker /\ Idle.pc = "idle"
      BY IdleFits DEF Idle
    <2> QED BY <1>2, <2>1, WorkersStay
  <1>3. ASSUME NEW h \in Gateways, Serve(h)
        PROVE  WorkersMove
    <2>1. PICK x \in Worker :
              /\ worker' = [worker EXCEPT ![h] = x]
              /\ x.pc # "idle" =>
                    \/ ClaimNextInbox(h, x.item) /\ x.item \in Messages /\ x.pc = "load"
                    \/ /\ Busy(h) /\ x.item = worker[h].item
                       /\ \/ x.pc = "settle"
                          \/ worker[h].pc # "settle" /\ x.skipped = worker[h].skipped
                       /\ \/ x.pc = "act"
                          \/ x.session.conversation = worker[h].session.conversation
              /\ Closing(x) => \/ Closing(worker[h]) \/ worker[h].pc = "stream"
                               \/ CancelActiveRun(h) \/ ~Urgent(worker[h].item)
              /\ x.pc \in {"call", "stream"} => ~Urgent(x.item)
      BY <1>3, ServeFits
    <2>2. worker' \in [Gateways -> Worker] /\ worker'[h] = x
          /\ \A g \in Gateways : g # h => worker'[g] = worker[g]
      BY <2>1 DEF InboxInv, TypeOK
    <2>3. \A g \in Gateways :
             worker[g].pc \in {"call", "stream"} => ~Urgent(worker[g].item)
      BY DEF InboxInv, WorkInv
    <2>4. WorkerMoves(h)
      BY <2>1, <2>2, <2>3 DEF WorkerMoves
    <2>5. ASSUME NEW g \in Gateways, g # h
          PROVE  WorkerMoves(g)
      BY <2>2, <2>3, <2>5 DEF WorkerMoves, Busy
    <2> QED BY <2>2, <2>4, <2>5 DEF WorkersMove
  <1>4. ASSUME NEW g \in Gateways, RunnerStep(g)
        PROVE  WorkersMove
    <2>1. \/ UNCHANGED worker \/ worker' = [worker EXCEPT ![g] = Idle] \/ worker' = Stopped(g)
      BY <1>4 DEF RunnerStep, ClaimConnector, CancelRunner, Abandon, Exit, Crash, Redeliver
    <2> QED BY <1>1, <1>2, <2>1, StoppedStays
  <1>5. ASSUME NEW g \in Gateways, NEW m \in Messages, NEW kind \in Kind, Receive(g, m, kind)
        PROVE  WorkersMove
    BY <1>1, <1>5, StoppedStays DEF Receive
  <1>6. CASE \/ ConnectorLeaseExpires \/ \E enabled \in BOOLEAN : SetEnabled(enabled)
             \/ \E m \in Messages : ItemLeaseExpires(m) \/ DelayElapses(m)
             \/ \E r \in Request : RunAny(r) \/ CloseElsewhere(r)
    BY <1>1, <1>6 DEF ConnectorLeaseExpires, SetEnabled, ItemLeaseExpires, DelayElapses, RunAny,
                      EndRun, CloseElsewhere
  <1> QED BY <1>3, <1>4, <1>5, <1>6, InboxSteps

\* The connector, the runners, the session and what was heard.
LEMMA OthersTyped ==
    ASSUME InboxInv, Next
    PROVE  /\ connector' \in Connector
           /\ runner' \in [Gateways -> {"off", "on", "stale", "cancelled"}]
           /\ session' \in Session
           /\ heard' \in [Messages -> SUBSET Request]
           /\ faults' \in 0..MaxFaults
  <1> USE DEF InboxInv
  <1>1. connector' \in Connector /\ runner' \in [Gateways -> {"off", "on", "stale", "cancelled"}]
    <2>1. CASE UNCHANGED <<connector, runner>>
      BY <2>1 DEF TypeOK
    <2>2. CASE ConnectorLeaseExpires
      BY <2>2 DEF TypeOK, ConnectorLeaseExpires, Connector
    <2>3. ASSUME NEW enabled \in BOOLEAN, SetEnabled(enabled)
          PROVE  /\ connector' \in Connector
                 /\ runner' \in [Gateways -> {"off", "on", "stale", "cancelled"}]
      BY <2>3 DEF TypeOK, SetEnabled, Connector
    <2>4. ASSUME NEW g \in Gateways, RunnerStep(g)
          PROVE  /\ connector' \in Connector
                 /\ runner' \in [Gateways -> {"off", "on", "stale", "cancelled"}]
      <3>1. CASE ClaimConnector(g)
        BY <3>1 DEF TypeOK, ClaimConnector, Connector
      <3>2. CASE CancelRunner(g) \/ Crash(g)
        BY <3>2 DEF TypeOK, CancelRunner, Crash
      <3>3. CASE Exit(g)
        BY <3>3 DEF TypeOK, Exit, Connector
      <3>4. CASE Abandon(g) \/ \E m \in Messages : Redeliver(g, m)
        BY <2>1, <3>4 DEF Abandon, Redeliver
      <3> QED BY <2>4, <3>1, <3>2, <3>3, <3>4 DEF RunnerStep
    <2>5. ASSUME NEW g \in Gateways, Serve(g) PROVE UNCHANGED <<connector, runner>>
      BY <2>5 DEF Serve, ClaimNextInbox, Load, BeginStream, CallAgent, StreamEnds, StreamBreaks,
                  CancelActiveRun, BeginNew, CloseQuestion, Send, Settle
    <2>6. CASE \/ \E g \in Gateways, m \in Messages, kind \in Kind : Receive(g, m, kind)
               \/ \E m \in Messages : ItemLeaseExpires(m) \/ DelayElapses(m)
               \/ \E r \in Request : RunAny(r) \/ CloseElsewhere(r)
      BY <2>1, <2>6 DEF Receive, ItemLeaseExpires, DelayElapses, RunAny, EndRun, CloseElsewhere
    <2> QED BY <2>1, <2>2, <2>3, <2>4, <2>5, <2>6, InboxSteps
  <1>2. session' \in Session
    <2>1. CASE UNCHANGED session
      BY <2>1 DEF TypeOK
    <2>2. ASSUME NEW g \in Gateways, StreamEnds(g) PROVE session' \in Session
      <3>1. worker[g].session \in Session /\ worker[g].request \in Request \cup {Nil}
        BY DEF TypeOK, Worker
      <3>2. \/ UNCHANGED session
            \/ \E q \in Request \cup {Nil} :
                  session' = [worker[g].session EXCEPT !.question = q]
        BY <2>2, <3>1 DEF StreamEnds
      <3> QED BY <2>1, <3>1, <3>2 DEF Session
    <2>3. ASSUME NEW g \in Gateways, CloseQuestion(g) PROVE session' \in Session
      <3>1. worker[g].session \in Session /\ worker[g].item \in Messages
        BY <2>3 DEF TypeOK, Worker, CloseQuestion, At, WorkInv, Busy
      <3>2. \/ UNCHANGED session
            \/ \E c \in {worker[g].item, worker[g].session.conversation} :
                  session' = [question |-> Nil, conversation |-> c]
        BY <2>3 DEF CloseQuestion
      <3>3. worker[g].item \in Conversation /\ worker[g].session.conversation \in Conversation
        BY <3>1 DEF Session, Conversation
      <3> QED BY <2>1, <3>2, <3>3 DEF Session
    <2>4. ASSUME NEW g \in Gateways, Serve(g), ~StreamEnds(g), ~CloseQuestion(g)
          PROVE  session' \in Session
      <3>1. UNCHANGED session
        BY <2>4 DEF Serve, ClaimNextInbox, Load, BeginStream, CallAgent, StreamBreaks,
                    CancelActiveRun, BeginNew, Send, Settle
      <3> QED BY <2>1, <3>1
    <2>5. CASE ~\E g \in Gateways : Serve(g)
      <3>1. UNCHANGED session
        BY <2>5, InboxSteps DEF RunnerStep, ConnectorLeaseExpires, SetEnabled, Receive,
              ItemLeaseExpires, DelayElapses, RunAny, EndRun, CloseElsewhere, ClaimConnector,
              CancelRunner, Abandon, Exit, Crash, Redeliver
      <3> QED BY <2>1, <3>1
    <2> QED BY <2>2, <2>3, <2>4, <2>5
  <1>3. heard' \in [Messages -> SUBSET Request]
    <2>1. CASE UNCHANGED heard
      BY <2>1 DEF TypeOK
    <2>2. ASSUME NEW g \in Gateways, NEW m \in Messages, NEW kind \in Kind, Receive(g, m, kind)
          PROVE  heard' \in [Messages -> SUBSET Request]
      BY <2>2 DEF TypeOK, Receive, InConversation
    <2>3. ASSUME NEW g \in Gateways, Serve(g) PROVE UNCHANGED heard
      BY <2>3 DEF Serve, ClaimNextInbox, Load, BeginStream, CallAgent, StreamEnds, StreamBreaks,
                  CancelActiveRun, BeginNew, CloseQuestion, Send, Settle
    <2>4. CASE \/ ConnectorLeaseExpires \/ \E enabled \in BOOLEAN : SetEnabled(enabled)
               \/ \E g \in Gateways : RunnerStep(g)
               \/ \E m \in Messages : ItemLeaseExpires(m) \/ DelayElapses(m)
               \/ \E r \in Request : RunAny(r) \/ CloseElsewhere(r)
      BY <2>1, <2>4 DEF RunnerStep, ConnectorLeaseExpires, SetEnabled, ItemLeaseExpires,
              DelayElapses, RunAny, EndRun, CloseElsewhere, ClaimConnector, CancelRunner,
              Abandon, Exit, Crash, Redeliver
    <2> QED BY <2>1, <2>2, <2>3, <2>4, InboxSteps
  <1>4. faults' \in 0..MaxFaults
    <2>1. ASSUME NEW g \in Gateways, Serve(g) PROVE Fault \/ UNCHANGED faults
      BY <2>1 DEF Serve, ClaimNextInbox, Load, BeginStream, CallAgent, StreamEnds, StreamBreaks,
                  CancelActiveRun, BeginNew, CloseQuestion, Send, Settle
    <2>2. CASE ~\E g \in Gateways : Serve(g)
      <3>1. Fault \/ UNCHANGED faults
        BY <2>2, InboxSteps DEF RunnerStep, ConnectorLeaseExpires, SetEnabled, Receive,
              ItemLeaseExpires, DelayElapses, RunAny, EndRun, CloseElsewhere, ClaimConnector,
              CancelRunner, Abandon, Exit, Crash, Redeliver
      <3> QED BY <3>1, FaultsTyped
    <2> QED BY <2>1, <2>2, FaultsTyped
  <1> QED BY <1>1, <1>2, <1>3, <1>4

\* Only startChat and answerQuestion start a run, for the item of their worker.
LEMMA StartedByCall ==
    ASSUME TypeOK, Next, NEW q \in Request,
           run[q].status = "none", run'[q].status # "none"
    PROVE  \E g \in Gateways : CallAgent(g) /\ q = RequestOf(g)
  <1>1. UNCHANGED run => FALSE
    OBVIOUS
  <1>2. ASSUME NEW r \in Request, run' = [run EXCEPT ![r].question = "closed"]
        PROVE  FALSE
    <2>1. run'[q].status = run[q].status
      BY <1>2 DEF TypeOK, Run
    <2> QED BY <2>1
  <1>3. ASSUME NEW r \in Request, RunAny(r)
        PROVE  FALSE
    <2> PICK asks \in BOOLEAN, accepted \in BOOLEAN : EndRun(r, asks, accepted)
      BY <1>3 DEF RunAny
    <2>1. q # r
      BY DEF EndRun, Live
    <2>2. run[q] \in Run
      BY DEF TypeOK
    <2>3. run'[q] = IF run[q].answer = r /\ ~accepted
                    THEN [run[q] EXCEPT !.question = "open", !.answer = Nil] ELSE run[q]
      BY <2>1 DEF EndRun
    <2>4. [run[q] EXCEPT !.question = "open", !.answer = Nil].status = run[q].status
      BY <2>2 DEF Run
    <2> QED BY <2>3, <2>4
  <1>4. ASSUME NEW g \in Gateways, Serve(g)
        PROVE  CallAgent(g) /\ q = RequestOf(g)
    <2>1. CASE CallAgent(g)
      <3> DEFINE r == RequestOf(g)
                 s == worker[g].session
      <3>1. StartRun(r, s)
        BY <1>1, <2>1 DEF CallAgent
      <3>2. run[q] \in Run
        BY DEF TypeOK
      <3>3. q # r => \/ run'[q] = [run[q] EXCEPT !.question = "closed", !.answer = r]
                     \/ run'[q] = run[q]
        BY <3>1 DEF StartRun
      <3> HIDE DEF r
      <3>4. [run[q] EXCEPT !.question = "closed", !.answer = r].status = run[q].status
        BY <3>2 DEF Run
      <3> QED BY <2>1, <3>3, <3>4 DEF r
    <2>2. CASE CancelActiveRun(g)
      <3>1. run'[q] = run[q] \/ Live(q)
        BY <1>1, <2>2 DEF CancelActiveRun
      <3> QED BY <3>1 DEF Live
    <2>3. CASE CloseQuestion(g)
      <3>1. worker[g].session \in Session
        BY DEF TypeOK, Worker
      <3>2. worker[g].session.question \in Request \cup {Nil}
        BY <3>1 DEF Session
      <3>3. CancelsQuestion(worker[g].session)
        BY <1>1, <2>3 DEF CloseQuestion
      <3> QED BY <1>1, <1>2, <3>2, <3>3 DEF CancelsQuestion
    <2> QED BY <1>1, <1>4, <2>1, <2>2, <2>3 DEF Serve, ClaimNextInbox, Load, BeginStream,
                                                StreamEnds, StreamBreaks, BeginNew, Send, Settle
  <1>5. ASSUME NEW r \in Request, CloseElsewhere(r)
        PROVE  FALSE
    BY <1>2, <1>5 DEF CloseElsewhere
  <1>6. ~(\/ ConnectorLeaseExpires \/ \E enabled \in BOOLEAN : SetEnabled(enabled)
          \/ \E g \in Gateways : RunnerStep(g)
          \/ \E g \in Gateways, m \in Messages, kind \in Kind : Receive(g, m, kind)
          \/ \E m \in Messages : ItemLeaseExpires(m) \/ DelayElapses(m))
    BY <1>1 DEF ConnectorLeaseExpires, SetEnabled, RunnerStep, Receive, ItemLeaseExpires,
                DelayElapses, ClaimConnector, CancelRunner, Abandon, Exit, Crash, Redeliver
  <1> QED BY <1>3, <1>4, <1>5, <1>6, InboxSteps

\* Nothing is received and no worker is busy at first.
LEMMA InitInboxInv == Init => InboxInv
  <1> SUFFICES ASSUME Init PROVE InboxInv
    OBVIOUS
  <1>1. connector \in Connector /\ runner \in [Gateways -> {"off", "on", "stale", "cancelled"}]
    BY DEF Init, Connector
  <1>2. queue = <<>> /\ queue \in Seq(Messages) /\ IsInjective(queue)
    BY DEF Init, IsInjective
  <1>3. /\ inbox \in [Messages -> Item] /\ session \in Session
        /\ worker \in [Gateways -> Worker] /\ run \in [Request -> Run]
    BY IdleFits DEF Init
  <1>4. heard \in [Messages -> SUBSET Request] /\ faults \in 0..MaxFaults
    BY BoundsAssumption DEF Init
  <1>5. TypeOK
    BY <1>1, <1>2, <1>3, <1>4 DEF TypeOK
  <1>6. QueueInv
    BY <1>2 DEF Init, QueueInv, Received, NoItem
  <1>7. WorkInv
    BY DEF Init, WorkInv, Busy, Idle
  <1> QED BY <1>5, <1>6, <1>7 DEF InboxInv

\* The queue holds each message once.
LEMMA QueueKept ==
    ASSUME InboxInv, InboxMoves
    PROVE  queue' \in Seq(Messages) /\ IsInjective(queue)' /\ QueueInv'
  <1>1. queue \in Seq(Messages) /\ IsInjective(queue)
    BY DEF InboxInv, TypeOK
  <1>2. CASE UNCHANGED queue
    BY <1>1, <1>2 DEF InboxInv, QueueInv, InboxMoves, IsInjective
  <1>3. CASE \E m \in Messages : /\ ~Received(m) /\ Received(m)' /\ queue' = Append(queue, m)
                                 /\ \A n \in Messages \ {m} : inbox'[n] = inbox[n]
    <2> PICK m \in Messages : /\ ~Received(m) /\ Received(m)' /\ queue' = Append(queue, m)
                              /\ \A n \in Messages \ {m} : inbox'[n] = inbox[n]
      BY <1>3
    <2> DEFINE k == Len(queue) + 1
    <2>1. /\ queue' \in Seq(Messages) /\ DOMAIN queue' = 1..k /\ queue'[k] = m
          /\ DOMAIN queue = 1..Len(queue) /\ Len(queue) \in Nat
          /\ \A i \in DOMAIN queue : queue'[i] = queue[i]
      BY <1>1
    <2>2. \A i \in DOMAIN queue : queue[i] # m
      BY DEF InboxInv, QueueInv
    <2>3. \A i \in DOMAIN queue' : i = k \/ i \in DOMAIN queue
      BY <2>1
    <2>4. IsInjective(queue)'
      <3> SUFFICES ASSUME NEW a \in DOMAIN queue', NEW b \in DOMAIN queue',
                          queue'[a] = queue'[b]
                   PROVE  a = b
        BY DEF IsInjective
      <3> QED BY <1>1, <2>1, <2>2, <2>3 DEF IsInjective
    <2>5. ASSUME NEW n \in Messages
          PROVE  Received(n)' <=> \E i \in DOMAIN queue' : queue'[i] = n
      <3>1. CASE n = m
        <4>1. k \in DOMAIN queue'
          BY <2>1
        <4> QED BY <2>1, <3>1, <4>1
      <3>2. CASE n # m
        <4>1. Received(n)' <=> Received(n)
          BY <3>2 DEF Received
        <4>2. (\E i \in DOMAIN queue' : queue'[i] = n) <=> \E i \in DOMAIN queue : queue[i] = n
          BY <2>1, <2>3, <3>2
        <4> QED BY <4>1, <4>2 DEF InboxInv, QueueInv
      <3> QED BY <3>1, <3>2
    <2> QED BY <2>1, <2>4, <2>5 DEF QueueInv
  <1> QED BY <1>2, <1>3 DEF InboxMoves

\* Types, and rows for what is queued and worked on, are inductive.
LEMMA NextKeepsInboxInv == InboxInv /\ [Next]_vars => InboxInv'
  <1> SUFFICES ASSUME InboxInv, [Next]_vars PROVE InboxInv'
    OBVIOUS
  <1>1. CASE UNCHANGED vars
    BY <1>1 DEF vars, InboxInv, TypeOK, QueueInv, WorkInv, Received, Busy, Urgent, IsInjective
  <1>2. CASE Next
    <2>1. InboxMoves /\ WorkersMove /\ RunsMove
      BY <1>2, NextMovesInbox, NextMovesWorkers, NextMovesRuns DEF InboxInv
    <2>2. TypeOK'
      BY <1>2, <2>1, QueueKept, OthersTyped DEF TypeOK, InboxMoves, WorkersMove, RunsMove
    <2>3. ASSUME NEW g \in Gateways
          PROVE  /\ Busy(g)' => worker'[g].item \in Messages /\ (Received(worker[g].item))'
                 /\ worker'[g].pc \in {"call", "stream"} => ~(Urgent(worker[g].item))'
      <3>1. CASE worker'[g].pc = "idle"
        BY <3>1 DEF Busy
      <3>2. CASE ClaimNextInbox(g, worker'[g].item) /\ worker'[g].item \in Messages
                 /\ worker'[g].pc = "load"
        <4> PICK m \in Messages : m = worker'[g].item
          BY <3>2
        <4>1. Received(m)
          BY <3>2, ClaimMoves DEF Open, Received
        <4> QED BY <2>1, <3>2, <4>1 DEF InboxMoves, Received
      <3>3. CASE /\ Busy(g) /\ worker'[g].item = worker[g].item
                 /\ worker'[g].pc \in {"call", "stream"} => ~Urgent(worker[g].item)
        <4> PICK m \in Messages : m = worker[g].item /\ Received(m)
          BY <3>3 DEF InboxInv, WorkInv
        <4> QED BY <2>1, <3>3 DEF InboxMoves, Received, Urgent
      <3> QED BY <2>1, <3>1, <3>2, <3>3 DEF WorkersMove, WorkerMoves
    <2> QED BY <2>1, <2>2, <2>3, QueueKept DEF InboxInv, WorkInv
  <1> QED BY <1>1, <1>2

\* The rows of the connector, the inbox, the session and the runs, and what the gateways
\* hold in memory, whatever fails.
THEOREM InboxTypeCorrect == Spec => []TypeOK
  <1>1. InboxInv => TypeOK
    BY DEF InboxInv
  <1> QED BY <1>1, InitInboxInv, NextKeepsInboxInv, PTL DEF Spec

-----------------------------------------------------------------------------
(***************************************************************************)
(* Order.  Once a gateway has claimed a text or a /new, what is before it  *)
(* in the queue is settled, but for the row that the claim had to skip,    *)
(* and stays so: rows are only added at the end.                           *)
(***************************************************************************)

AllBefore(m, rows) == \A n \in Earlier(m) : Urgent(n) \/ Settled(n) \/ n \in rows
OrderInv ==
    \A g \in Gateways : Busy(g) /\ worker[g].pc # "settle" /\ ~Urgent(worker[g].item)
                         => AllBefore(worker[g].item, worker[g].skipped)

\* ClaimNextInbox passes over nothing but the locked row.
LEMMA ClaimedInOrder ==
    ASSUME InboxInv, NEW g \in Gateways, NEW m \in Messages,
           ClaimNextInbox(g, m), ~Urgent(m)
    PROVE  AllBefore(m, worker'[g].skipped)
  <1>1. PICK rows \in Visible(g) :
           /\ m \in Candidates(rows)
           /\ worker' = [worker EXCEPT ![g] = [Idle EXCEPT !.pc = "load", !.item = m,
                                                           !.skipped = Earlier(m) \ rows]]
    BY DEF ClaimNextInbox
  <1>2. worker'[g].skipped = Earlier(m) \ rows
    BY <1>1 DEF InboxInv, TypeOK, Idle
  <1>3. m \in Oldest({n \in rows : Open(n) /\ ~Urgent(n)})
    BY <1>1 DEF Candidates, Oldest
  <1> SUFFICES ASSUME NEW n \in Earlier(m), ~Urgent(n), n \in rows PROVE Settled(n)
    BY <1>2 DEF AllBefore
  <1>4. n \in Messages /\ Before(n, m) /\ \E i \in DOMAIN queue : queue[i] = n
    BY DEF Earlier, Before
  <1>5. ~Open(n)
    BY <1>3, <1>4 DEF Oldest
  <1>6. Received(n) /\ inbox[n] \in Item
    BY <1>4 DEF InboxInv, QueueInv, TypeOK
  <1> QED BY <1>5, <1>6 DEF Open, Received, Settled, Item

\* What is before a row does not change.
LEMMA EarlierStays ==
    ASSUME InboxInv, InboxMoves, NEW m \in Messages, Received(m), NEW rows, AllBefore(m, rows)
    PROVE  \A n \in Earlier(m)' : Urgent(n)' \/ Settled(n)' \/ n \in rows
  <1>1. Earlier(m)' \subseteq Earlier(m)
    <2>1. CASE UNCHANGED queue
      BY <2>1 DEF Earlier, Before
    <2>2. CASE \E k \in Messages : ~Received(k) /\ queue' = Append(queue, k)
      <3> PICK k \in Messages : ~Received(k) /\ queue' = Append(queue, k)
        BY <2>2
      <3>1. queue \in Seq(Messages)
        BY DEF InboxInv, TypeOK
      <3>2. /\ DOMAIN queue = 1..Len(queue) /\ Len(queue) \in Nat
            /\ DOMAIN queue' = 1..(Len(queue) + 1) /\ queue'[Len(queue) + 1] = k
            /\ \A i \in DOMAIN queue : queue'[i] = queue[i]
        BY <3>1
      <3> SUFFICES ASSUME NEW n \in Messages, NEW i \in DOMAIN queue', NEW j \in DOMAIN queue',
                          i < j, queue'[i] = n, queue'[j] = m
                   PROVE  Before(n, m)
        BY DEF Earlier, Before
      <3>3. j # Len(queue) + 1
        BY <3>2
      <3>4. i \in DOMAIN queue /\ j \in DOMAIN queue
        BY <3>2, <3>3
      <3> QED BY <3>2, <3>4 DEF Before
    <2> QED BY <2>1, <2>2 DEF InboxMoves
  <1>2. ASSUME NEW n \in Earlier(m)
        PROVE  Urgent(n)' \/ Settled(n)' \/ n \in rows
    <2>1. n \in Messages /\ \E i \in DOMAIN queue : queue[i] = n
      BY DEF Earlier, Before
    <2>2. Received(n)
      BY <2>1 DEF InboxInv, QueueInv
    <2> QED BY <1>2, <2>1, <2>2 DEF AllBefore, InboxMoves, Urgent
  <1> QED BY <1>1, <1>2

\* What a worker has claimed has nothing open before it but what it skipped, whoever
\* crashes or retries.
LEMMA NextKeepsOrderInv == InboxInv /\ OrderInv /\ [Next]_vars => OrderInv'
  <1> SUFFICES ASSUME InboxInv, OrderInv, [Next]_vars,
                      NEW g \in Gateways, Busy(g)', worker'[g].pc # "settle",
                      ~(Urgent(worker[g].item))'
               PROVE  AllBefore(worker[g].item, worker[g].skipped)'
    BY DEF OrderInv
  <1>1. CASE UNCHANGED vars
    BY <1>1 DEF vars, OrderInv, AllBefore, Earlier, Before, Urgent, Settled, Busy
  <1>2. CASE Next
    <2>1. InboxMoves /\ WorkersMove
      BY <1>2, NextMovesInbox, NextMovesWorkers
    <2> PICK rows : rows = worker'[g].skipped
      OBVIOUS
    <2>2. CASE ClaimNextInbox(g, worker'[g].item) /\ worker'[g].item \in Messages
      <3> PICK m \in Messages : m = worker'[g].item
        BY <2>2
      <3>1. Received(m)
        BY <2>2, ClaimMoves DEF Open, Received
      <3>2. ~Urgent(m)
        BY <2>1, <3>1 DEF InboxMoves, Urgent
      <3>3. AllBefore(m, rows)
        BY <2>2, <3>2, ClaimedInOrder
      <3>4. \A n \in Earlier(m)' : Urgent(n)' \/ Settled(n)' \/ n \in rows
        BY <2>1, <3>1, <3>3, EarlierStays
      <3> QED BY <3>4 DEF AllBefore
    <2>3. CASE Busy(g) /\ worker'[g].item = worker[g].item
               /\ worker'[g].skipped = worker[g].skipped /\ worker[g].pc # "settle"
      <3> PICK m \in Messages : m = worker[g].item /\ Received(m)
        BY <2>3 DEF InboxInv, WorkInv
      <3>1. ~Urgent(m)
        BY <2>1, <2>3 DEF InboxMoves, Urgent
      <3>2. AllBefore(m, rows)
        BY <2>3, <3>1 DEF OrderInv
      <3>3. \A n \in Earlier(m)' : Urgent(n)' \/ Settled(n)' \/ n \in rows
        BY <2>1, <3>2, EarlierStays
      <3> QED BY <2>3, <3>3 DEF AllBefore
    <2> QED BY <2>1, <2>2, <2>3 DEF WorkersMove, WorkerMoves, Busy
  <1> QED BY <1>1, <1>2

\* ClaimNextInbox, RetryInbox: texts reach the agent in the order they were received, for
\* any number of messages, gateways, retries, crashes and lost leases, but for the row
\* that another gateway has locked when the item is claimed (FOR UPDATE SKIP LOCKED).
THEOREM MessagesAreAnsweredInOrder == Spec => MessagesRunInOrder
  <1>1. Init => OrderInv
    BY DEF Init, OrderInv, Busy, Idle
  <1>2. InboxInv /\ OrderInv /\ [Next]_vars => OrderInv'
    BY NextKeepsOrderInv
  <1>3. InboxInv /\ OrderInv /\ [Next]_vars =>
           [\A m \in Messages : Begins(m) =>
              \A n \in Earlier(m) :
                 \/ Urgent(n) \/ Settled(n)
                 \/ \E g \in Gateways : worker[g].item = m /\ n \in worker[g].skipped]_vars
    <2> SUFFICES ASSUME InboxInv, OrderInv, Next, NEW m \in Messages,
                        NEW k \in {"chat", "question"},
                        run[<<m, k>>].status = "none", run'[<<m, k>>].status # "none"
                 PROVE  \E g \in Gateways : worker[g].item = m
                                             /\ AllBefore(m, worker[g].skipped)
      BY DEF AllBefore, Begins
    <2>1. <<m, k>> \in Request /\ run \in [Request -> Run]
      BY DEF Request, InboxInv, TypeOK
    <2>2. PICK g \in Gateways : CallAgent(g) /\ <<m, k>> = RequestOf(g)
      BY <2>1, StartedByCall DEF InboxInv
    <2>3. m = worker[g].item /\ worker[g].pc = "call"
      BY <2>2 DEF RequestOf, CallAgent, At
    <2>4. ~Urgent(m)
      BY <2>3 DEF InboxInv, WorkInv
    <2>5. AllBefore(m, worker[g].skipped)
      BY <2>3, <2>4 DEF OrderInv, Busy
    <2> QED BY <2>3, <2>5
  <1> QED BY <1>1, <1>2, <1>3, InitInboxInv, NextKeepsInboxInv, PTL
          DEF Spec, MessagesRunInOrder

-----------------------------------------------------------------------------
(***************************************************************************)
(* /stop.  Past CancelActiveRun, and until its item is settled, no run     *)
(* that was heard going on goes on in the conversation its worker found.   *)
(***************************************************************************)

Quiet(m, c) == \A r \in heard[m] \cap InConversation(c) : run[r].status # "running"
HeardInv == \A m \in Messages : \A r \in heard[m] : run[r].status # "none"
StopInv ==
    /\ HeardInv
    /\ \A g \in Gateways : Closing(worker[g]) /\ Urgent(worker[g].item)
                           => Quiet(worker[g].item, worker[g].session.conversation)

\* What a /stop heard is settled when it is received, and those runs have rows.
LEMMA HeardMoves ==
    ASSUME InboxInv, HeardInv, Next
    PROVE  HeardInv' /\ \A m \in Messages : Received(m) => heard'[m] = heard[m]
  <1>1. RunsMove /\ heard \in [Messages -> SUBSET Request]
    BY NextMovesRuns DEF InboxInv, TypeOK
  <1>2. CASE UNCHANGED heard
    BY <1>1, <1>2 DEF HeardInv, RunsMove
  <1>3. ASSUME NEW g \in Gateways, NEW m \in Messages, NEW kind \in Kind, Receive(g, m, kind)
        PROVE  HeardInv' /\ \A n \in Messages : Received(n) => heard'[n] = heard[n]
    <2>1. ~Received(m)
      BY <1>3 DEF Receive, InboxInv, QueueInv, ToSet
    <2>2. \A n \in Messages : n # m => heard'[n] = heard[n]
      BY <1>1, <1>3 DEF Receive
    <2>3. \A r \in heard'[m] : run[r].status = "running"
      BY <1>1, <1>3 DEF Receive
    <2>4. UNCHANGED run
      BY <1>3 DEF Receive
    <2> QED BY <2>1, <2>2, <2>3, <2>4 DEF HeardInv
  <1>4. ASSUME NEW g \in Gateways, Serve(g)
        PROVE  UNCHANGED heard
    BY <1>4 DEF Serve, ClaimNextInbox, Load, BeginStream, CallAgent, StreamEnds, StreamBreaks,
                CancelActiveRun, BeginNew, CloseQuestion, Send, Settle
  <1>5. CASE \/ ConnectorLeaseExpires \/ \E enabled \in BOOLEAN : SetEnabled(enabled)
             \/ \E g \in Gateways : RunnerStep(g)
             \/ \E m \in Messages : ItemLeaseExpires(m) \/ DelayElapses(m)
             \/ \E r \in Request : RunAny(r) \/ CloseElsewhere(r)
    BY <1>2, <1>5 DEF RunnerStep, ConnectorLeaseExpires, SetEnabled, ItemLeaseExpires,
              DelayElapses, RunAny, EndRun, CloseElsewhere, ClaimConnector, CancelRunner,
              Abandon, Exit, Crash, Redeliver
  <1> QED BY <1>2, <1>3, <1>4, <1>5, InboxSteps

\* A conversation that is quiet stays quiet: its runs are never resumed.
LEMMA QuietStays ==
    ASSUME RunsMove, HeardInv, NEW m \in Messages, heard'[m] = heard[m], NEW c, Quiet(m, c),
           heard[m] \in SUBSET Request,
           NEW r \in heard'[m], r \in InConversation(c)'
    PROVE  run'[r].status # "running"
  <1>1. r \in Request /\ r \in heard[m] /\ run[r].status # "none" /\ run'[r].conversation = c
    BY DEF HeardInv, InConversation
  <1>2. run[r].conversation = c /\ (run'[r].status = "running" => run[r].status = "running")
    BY <1>1 DEF RunsMove
  <1> QED BY <1>1, <1>2 DEF Quiet, InConversation

\* A worker that gets past ActiveRun and CancelRun has asked them all to stop.
LEMMA CancelledAreQuiet ==
    ASSUME InboxInv, NEW g \in Gateways, CancelActiveRun(g), Closing(worker'[g]),
           NEW r \in Request, r \in InConversation(worker[g].session.conversation)
    PROVE  run'[r].status # "running"
  <1>1. worker[g] \in Worker /\ worker \in [Gateways -> Worker]
    BY DEF InboxInv, TypeOK
  <1>2. CASE worker' = SettledAs(g, "retry")
    <2>1. worker'[g] = [worker[g] EXCEPT !.pc = "settle", !.result = "retry", !.request = Nil,
                                         !.active = FALSE, !.stopped = FALSE, !.skipped = {}]
      BY <1>1, <1>2 DEF SettledAs
    <2>2. worker'[g].pc = "settle" /\ worker'[g].result = "retry"
      BY <1>1, <2>1 DEF Worker
    <2> QED BY <2>2 DEF Closing
  <1>3. CASE run' = [q \in Request |->
                       IF q \in InConversation(worker[g].session.conversation) /\ Live(q)
                       THEN [run[q] EXCEPT !.status = "cancelling"] ELSE run[q]]
    <2>1. run[r] \in Run
      BY DEF InboxInv, TypeOK
    <2>2. CASE Live(r)
      <3>1. run'[r] = [run[r] EXCEPT !.status = "cancelling"]
        BY <1>3, <2>2
      <3> QED BY <2>1, <3>1 DEF Run
    <2>3. CASE ~Live(r)
      <3>1. run'[r] = run[r]
        BY <1>3, <2>3
      <3> QED BY <2>3, <3>1 DEF Live
    <2> QED BY <2>2, <2>3
  <1> QED BY <1>2, <1>3 DEF CancelActiveRun

\* No step undoes what a /stop has done.
LEMMA NextKeepsStopInv == InboxInv /\ StopInv /\ [Next]_vars => StopInv'
  <1> SUFFICES ASSUME InboxInv, StopInv, [Next]_vars PROVE StopInv'
    OBVIOUS
  <1>1. CASE UNCHANGED vars
    BY <1>1 DEF vars, StopInv, HeardInv, Closing, Urgent, Quiet, InConversation
  <1>2. CASE Next
    <2>1. InboxMoves /\ WorkersMove /\ RunsMove
      BY <1>2, NextMovesInbox, NextMovesWorkers, NextMovesRuns DEF InboxInv
    <2>2. HeardInv /\ HeardInv' /\ \A m \in Messages : Received(m) => heard'[m] = heard[m]
      BY <1>2, HeardMoves DEF StopInv
    <2>3. ASSUME NEW g \in Gateways, Closing(worker'[g]), (Urgent(worker[g].item))',
                 NEW r \in heard'[worker'[g].item],
                 r \in (InConversation(worker[g].session.conversation))'
          PROVE  run'[r].status # "running"
      <3>1. /\ Busy(g) /\ worker'[g].item = worker[g].item
            /\ worker'[g].session.conversation = worker[g].session.conversation
            /\ Closing(worker[g]) \/ CancelActiveRun(g) \/ ~Urgent(worker[g].item)
        BY <2>1, <2>3 DEF WorkersMove, WorkerMoves, Closing
      <3> PICK m \in Messages : m = worker[g].item /\ Received(m)
        BY <3>1 DEF InboxInv, WorkInv
      <3> PICK c : c = worker[g].session.conversation
        OBVIOUS
      <3>2. heard[m] \in SUBSET Request /\ heard'[m] = heard[m]
        BY <2>2 DEF InboxInv, TypeOK
      <3>3. Urgent(m)
        BY <2>1, <2>3, <3>1 DEF InboxMoves, Urgent
      <3>4. r \in heard[m] /\ r \in Request /\ r \in InConversation(c)'
        BY <2>3, <3>1, <3>2
      <3>5. CASE Closing(worker[g])
        <4>1. Quiet(m, c)
          BY <3>3, <3>5 DEF StopInv
        <4> QED BY <2>1, <2>2, <3>2, <3>4, <4>1, QuietStays
      <3>6. CASE CancelActiveRun(g)
        <4>1. run[r].status # "none" /\ run'[r].conversation = c
          BY <2>2, <3>4 DEF HeardInv, InConversation
        <4>2. r \in InConversation(c)
          BY <2>1, <3>4, <4>1 DEF RunsMove, InConversation
        <4> QED BY <2>3, <3>4, <3>6, <4>2, CancelledAreQuiet
      <3> QED BY <3>1, <3>3, <3>5, <3>6
    <2> QED BY <2>2, <2>3 DEF StopInv, Quiet
  <1> QED BY <1>1, <1>2

\* Only FinishInbox, by the gateway that owns the item, makes it done.
LEMMA DoneBySettle ==
    ASSUME InboxInv, Next, NEW m \in Messages,
           inbox[m].status # "done", inbox'[m].status = "done"
    PROVE  \E g \in Gateways : /\ inbox[m].owner = g /\ worker[g].item = m
                               /\ worker[g].pc = "settle" /\ worker[g].result = "done"
  <1>1. inbox \in [Messages -> Item]
    BY DEF InboxInv, TypeOK
  <1>2. UNCHANGED inbox => FALSE
    OBVIOUS
  <1>3. ASSUME NEW n \in Messages, NEW x, inbox' = [inbox EXCEPT ![n] = x],
               x.status = inbox[n].status \/ x.status # "done"
        PROVE  FALSE
    BY <1>1, <1>3
  <1>4. ASSUME NEW g \in Gateways, NEW n \in Messages, ClaimNextInbox(g, n)
        PROVE  FALSE
    <2> DEFINE x == [inbox[n] EXCEPT !.status = "processing", !.owner = g, !.expired = FALSE,
                                     !.waiting = FALSE,
                                     !.attempts = IF @ < AttemptLimit THEN @ + 1 ELSE @]
    <2>1. inbox' = [inbox EXCEPT ![n] = x]
      BY <1>1, <1>4 DEF ClaimNextInbox
    <2>2. x.status = "processing"
      BY <1>1 DEF Item
    <2> HIDE DEF x
    <2> QED BY <1>3, <2>1, <2>2
  <1>5. ASSUME NEW g \in Gateways, NEW n \in Messages, NEW kind \in Kind, Receive(g, n, kind)
        PROVE  FALSE
    <2> DEFINE x == [NoItem EXCEPT !.status = "pending", !.kind = kind]
    <2>1. inbox' = [inbox EXCEPT ![n] = x] /\ x.status = "pending"
      BY <1>5 DEF Receive, NoItem
    <2> HIDE DEF x
    <2> QED BY <1>3, <2>1
  <1>6. ASSUME NEW n \in Messages, ItemLeaseExpires(n) \/ DelayElapses(n)
        PROVE  FALSE
    <2>1. \E x : inbox' = [inbox EXCEPT ![n] = x] /\ x.status = inbox[n].status
      <3>1. CASE ItemLeaseExpires(n)
        <4> DEFINE x == [inbox[n] EXCEPT !.expired = TRUE]
        <4>1. inbox' = [inbox EXCEPT ![n] = x] /\ x.status = inbox[n].status
          BY <1>1, <3>1 DEF ItemLeaseExpires, Item
        <4> HIDE DEF x
        <4> QED BY <4>1
      <3>2. CASE DelayElapses(n)
        <4> DEFINE x == [inbox[n] EXCEPT !.waiting = FALSE]
        <4>1. inbox' = [inbox EXCEPT ![n] = x] /\ x.status = inbox[n].status
          BY <1>1, <3>2 DEF DelayElapses, Item
        <4> HIDE DEF x
        <4> QED BY <4>1
      <3> QED BY <1>6, <3>1, <3>2
    <2> QED BY <1>3, <2>1
  <1>7. ASSUME NEW g \in Gateways, Serve(g)
        PROVE  Settle(g)
    BY <1>2, <1>4, <1>7 DEF Serve, Load, BeginStream, CallAgent, StreamEnds, StreamBreaks,
                            CancelActiveRun, BeginNew, CloseQuestion, Send
  <1>8. ~(\/ ConnectorLeaseExpires \/ \E enabled \in BOOLEAN : SetEnabled(enabled)
          \/ \E g \in Gateways : RunnerStep(g)
          \/ \E r \in Request : RunAny(r) \/ CloseElsewhere(r))
    BY <1>2 DEF ConnectorLeaseExpires, SetEnabled, RunnerStep, RunAny, EndRun, CloseElsewhere,
                ClaimConnector, CancelRunner, Abandon, Exit, Crash, Redeliver
  <1>9. \E g \in Gateways : Settle(g)
    BY <1>5, <1>6, <1>7, <1>8, InboxSteps
  <1> QED BY <1>9, SettleMoves

\* processInbox, stopActive, CancelRun: however the worker of a /stop, the worker of the run
\* it stops, retries, crashes and changes of the gateway interleave, a /stop that is done has
\* stopped what it heard of the conversation it found.
THEOREM StopsAreCarriedOut == Spec => StopTakesEffect
  <1>1. Init => StopInv
    BY DEF Init, StopInv, HeardInv, Closing, Idle
  <1>2. InboxInv /\ StopInv /\ [Next]_vars =>
           [\A m \in Messages :
              Urgent(m) /\ inbox[m].status # "done" /\ inbox'[m].status = "done"
              => LET w == worker[inbox[m].owner]
                 IN  /\ w.item = m
                     /\ \A r \in heard[m] \cap InConversation(w.session.conversation) :
                           run[r].status # "running"]_vars
    <2> SUFFICES ASSUME InboxInv, StopInv, Next, NEW m \in Messages, Urgent(m),
                        inbox[m].status # "done", inbox'[m].status = "done"
                 PROVE  /\ worker[inbox[m].owner].item = m
                        /\ Quiet(m, worker[inbox[m].owner].session.conversation)
      BY DEF Quiet
    <2>1. PICK g \in Gateways : /\ inbox[m].owner = g /\ worker[g].item = m
                                /\ worker[g].pc = "settle" /\ worker[g].result = "done"
      BY DoneBySettle
    <2> QED BY <2>1 DEF StopInv, Closing
  <1> QED BY <1>1, <1>2, InitInboxInv, NextKeepsInboxInv, NextKeepsStopInv, PTL
          DEF Spec, StopTakesEffect
==============================================================================
