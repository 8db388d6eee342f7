--------------------------- MODULE RunSubscription ---------------------------
(***************************************************************************)
(* How browsers follow one run: the goroutine of the run applies each      *)
(* event to its reducer and then publishes it to bounded channels; the     *)
(* handlers of POST /v1/chat and GET /v1/chat/runs/{id} give a client a    *)
(* snapshot and then what the channel delivers, or the stored message once *)
(* the run is gone from the live map (apps/gateway/internal/httpapi/       *)
(* simple_chat.go).                                                        *)
(*                                                                         *)
(* The output is numbered: events 1, 2, ... while the agent streams and    *)
(* a few more (a card, the run summary) after the terminal state is saved. *)
(* What a client shows is how often it was given each event.  The failures *)
(* of the store and of the process are in RunController.                   *)
(***************************************************************************)
EXTENDS Integers, Sequences

CONSTANTS
    Clients,
    MaxStreamed,    \* bound: events the agent streams
    TailLength,     \* events published after the terminal state is saved
    BufferSize,     \* subscriberBuffer
    MaxDrops        \* bound: how often the network drops a client

ASSUME BoundsAssumption ==
    MaxStreamed \in Nat /\ TailLength \in Nat /\ BufferSize \in Nat \ {0} /\ MaxDrops \in Nat

VARIABLES
    row,        \* the status in conversation_runs
    saved,      \* how many events the stored assistant message holds
    worker,     \* where executeLiveRun is
    listed,     \* the run is in a.runs.live
    liveStatus, \* live.status
    applied,    \* events the reducer has applied
    subs,       \* live.subs
    channel,    \* the channel of each client: its events, and whether closed
    client      \* each client: where its handler is and what it shows

runVars == <<row, saved, worker, listed, liveStatus, applied>>
followVars == <<runVars, subs, channel, client>>

-----------------------------------------------------------------------------
TerminalStatus == {"success", "error", "cancelled", "interrupted", "waiting_input"}
Status == {"running"} \cup TerminalStatus
Event == 1..(MaxStreamed + TailLength)
Done == 0

\* "apply" and "publish": between two events, and between the two critical
\* sections of one event.  "unlist" .. "tail": the steps after the commit.
Worker == {"apply", "publish", "unlist", "settle", "tail", "tailPublish",
           "close", "gone"}

ClientPc == {"away", "read", "joining", "fetching", "following", "ended"}

Shows(n) == [e \in Event |-> IF e <= n THEN 1 ELSE 0]

FollowTypeOK ==
    /\ row \in Status /\ liveStatus \in Status
    /\ saved \in 0..(MaxStreamed + TailLength)
    /\ worker \in Worker
    /\ listed \in BOOLEAN
    /\ applied \in 0..(MaxStreamed + TailLength)
    /\ subs \in SUBSET Clients
    /\ channel \in [Clients -> [queue : Seq({Done} \cup Event), closed : BOOLEAN]]
    /\ \A c \in Clients : Len(channel[c].queue) <= BufferSize
    /\ client \in [Clients -> [pc : ClientPc, seen : Status, late : BOOLEAN,
                               view : [Event -> Nat], drops : Nat]]

FollowInit ==
    /\ row = "running" /\ liveStatus = "running"
    /\ saved = 0
    /\ worker = "apply"
    /\ listed = TRUE
    /\ applied = 0
    /\ subs = {}
    /\ channel = [c \in Clients |-> [queue |-> <<>>, closed |-> TRUE]]
    /\ client = [c \in Clients |-> [pc |-> "away", seen |-> "running", late |-> FALSE,
                                    view |-> Shows(0), drops |-> 0]]

-----------------------------------------------------------------------------
(* The goroutine of the run *)

Full(c) == Len(channel[c].queue) = BufferSize

\* Mutant: a subscriber that is too slow misses the event and goes on.
SendDropping(e) ==
    /\ channel' = [c \in Clients |->
            IF c \in subs /\ ~Full(c)
            THEN [channel[c] EXCEPT !.queue = Append(@, e)] ELSE channel[c]]
    /\ UNCHANGED subs

\* Mutant: a subscriber that is too slow is forgotten with its channel open.
SendForgetting(e) ==
    /\ channel' = [c \in Clients |->
            IF c \in subs /\ ~Full(c)
            THEN [channel[c] EXCEPT !.queue = Append(@, e)] ELSE channel[c]]
    /\ subs' = {c \in subs : ~Full(c)}

\* A channel that is full is closed and its subscriber removed.
Send(e) ==
    /\ channel' = [c \in Clients |->
            IF c \notin subs THEN channel[c]
            ELSE IF Full(c) THEN [channel[c] EXCEPT !.closed = TRUE]
            ELSE [channel[c] EXCEPT !.queue = Append(@, e)]]
    /\ subs' = {c \in subs : ~Full(c)}

Apply ==
    /\ worker = "apply"
    /\ applied < MaxStreamed
    /\ applied' = applied + 1
    /\ worker' = "publish"
    /\ UNCHANGED <<row, saved, listed, liveStatus, subs, channel, client>>

PublishEvent ==
    /\ worker = "publish"
    /\ Send(applied)
    /\ worker' = "apply"
    /\ UNCHANGED <<row, saved, listed, liveStatus, applied, client>>

\* persistRunDrafts, once per interval while the agent streams.
PersistRunDrafts ==
    /\ worker \in {"apply", "publish"}
    /\ saved' = applied
    /\ UNCHANGED <<row, worker, listed, liveStatus, applied, subs, channel, client>>

\* The transaction of Finalize: the terminal state and the whole output.
CommitOutput ==
    /\ worker = "apply"
    /\ row' \in TerminalStatus
    /\ saved' = applied + TailLength
    /\ worker' = "unlist"
    /\ UNCHANGED <<listed, liveStatus, applied, subs, channel, client>>

Unlist ==
    /\ worker = "unlist"
    /\ listed' = FALSE
    /\ worker' = "settle"
    /\ UNCHANGED <<row, saved, liveStatus, applied, subs, channel, client>>

Settle ==
    /\ worker = "settle"
    /\ liveStatus' = row
    /\ worker' = "tail"
    /\ UNCHANGED <<row, saved, listed, applied, subs, channel, client>>

TailApply ==
    /\ worker = "tail"
    /\ applied < saved
    /\ applied' = applied + 1
    /\ worker' = "tailPublish"
    /\ UNCHANGED <<row, saved, listed, liveStatus, subs, channel, client>>

TailPublish ==
    /\ worker = "tailPublish"
    /\ Send(applied)
    /\ worker' = "tail"
    /\ UNCHANGED <<row, saved, listed, liveStatus, applied, client>>

PublishDone ==
    /\ worker = "tail"
    /\ applied = saved
    /\ Send(Done)
    /\ worker' = "close"
    /\ UNCHANGED <<row, saved, listed, liveStatus, applied, client>>

CloseSubscribers ==
    /\ worker = "close"
    /\ channel' = [c \in Clients |->
            IF c \in subs THEN [channel[c] EXCEPT !.closed = TRUE] ELSE channel[c]]
    /\ subs' = {}
    /\ worker' = "gone"
    /\ UNCHANGED <<row, saved, listed, liveStatus, applied, client>>

-----------------------------------------------------------------------------
(* The handler of one client, and the browser behind it *)

Move(c, pc) == client' = [client EXCEPT ![c].pc = pc]

\* store.GetOwned, or the run that a replayed POST gets from store.Start.
ReadRow(c) ==
    /\ client[c].pc = "away"
    /\ client' = [client EXCEPT ![c].pc = "read", ![c].seen = row]
    /\ UNCHANGED <<runVars, subs, channel>>

GetLive(c) ==
    /\ client[c].pc = "read"
    /\ Move(c, IF listed THEN "joining" ELSE "fetching")
    /\ UNCHANGED <<runVars, subs, channel>>

\* One critical section of live.mu; a run whose live.status is already terminal
\* gives the late client "done" right after the snapshot.
Subscribe(c) ==
    /\ client[c].pc = "joining"
    /\ LET late == liveStatus \in TerminalStatus
       IN  /\ channel' = [channel EXCEPT ![c] =
                    IF late THEN [queue |-> <<Done>>, closed |-> TRUE]
                    ELSE [queue |-> <<>>, closed |-> FALSE]]
           /\ subs' = IF late THEN subs ELSE subs \cup {c}
           /\ client' = [client EXCEPT ![c].pc = "following", ![c].late = late,
                                       ![c].view = Shows(applied)]
    /\ UNCHANGED runVars

\* Mutant: the stored message of a terminal run misses what Finalize added to it.
ServeDraft(c) ==
    /\ client[c].pc = "fetching"
    /\ client' = [client EXCEPT ![c].pc = "ended", ![c].late = FALSE,
                                ![c].view = Shows(applied)]
    /\ UNCHANGED <<runVars, subs, channel>>

\* streamStoredRun: the message as it is now, "done" with the status read before.
ServeStored(c) ==
    /\ client[c].pc = "fetching"
    /\ client' = [client EXCEPT ![c].pc = "ended", ![c].late = FALSE,
                                ![c].view = Shows(saved)]
    /\ UNCHANGED <<runVars, subs, channel>>

\* "done" carries the status of live.run, which is the row's by then.
Receive(c) ==
    /\ client[c].pc = "following"
    /\ channel[c].queue # <<>>
    /\ LET e == Head(channel[c].queue)
       IN  client' = IF e = Done THEN [client EXCEPT ![c].pc = "ended", ![c].seen = row]
                     ELSE [client EXCEPT ![c].view[e] = @ + 1]
    /\ channel' = [channel EXCEPT ![c].queue = SubSeq(@, 2, Len(@))]
    /\ UNCHANGED <<runVars, subs>>

\* A closed channel ends the response without "done": the browser reconnects.
LoseChannel(c) ==
    /\ client[c].pc = "following"
    /\ channel[c].queue = <<>> /\ channel[c].closed
    /\ Move(c, "away")
    /\ UNCHANGED <<runVars, subs, channel>>

\* The connection breaks; the deferred unsubscribe forgets the channel.
Disconnect(c) ==
    /\ client[c].pc = "following"
    /\ client[c].drops < MaxDrops
    /\ client' = [client EXCEPT ![c].pc = "away", ![c].drops = @ + 1]
    /\ subs' = subs \ {c}
    /\ channel' = [channel EXCEPT ![c] = [queue |-> <<>>, closed |-> TRUE]]
    /\ UNCHANGED runVars

-----------------------------------------------------------------------------
WorkerStep ==
    \/ Apply \/ PublishEvent \/ CommitOutput \/ Unlist \/ Settle
    \/ TailApply \/ TailPublish \/ PublishDone \/ CloseSubscribers

HandlerStep(c) ==
    \/ ReadRow(c) \/ GetLive(c) \/ Subscribe(c) \/ ServeStored(c)
    \/ Receive(c) \/ LoseChannel(c)

FollowNext ==
    \/ WorkerStep \/ PersistRunDrafts
    \/ \E c \in Clients : HandlerStep(c) \/ Disconnect(c)

FollowSpec == FollowInit /\ [][FollowNext]_followVars

\* The goroutine of the run goes on and so do the handlers and the browsers,
\* which reconnect; here the agent's stream ends.
FairSpec ==
    /\ FollowSpec
    /\ WF_followVars(WorkerStep)
    /\ \A c \in Clients : WF_followVars(HandlerStep(c))

-----------------------------------------------------------------------------
(* Safety *)

Queued(c, e) == \E i \in 1..Len(channel[c].queue) : channel[c].queue[i] = e
PublishedUpTo == IF worker \in {"publish", "tailPublish"} THEN applied - 1 ELSE applied

\* A subscriber misses nothing: as long as its channel is open, every event
\* published so far was in its snapshot, was delivered or waits in the channel.
SubscribersMissNothing ==
    \A c \in Clients :
        client[c].pc = "following" /\ ~channel[c].closed =>
            \A e \in 1..PublishedUpTo : client[c].view[e] > 0 \/ Queued(c, e)

\* A client that was told of a terminal state shows the whole output, however
\* often it was dropped for being slow or lost its connection on the way.  The
\* exception is a client that subscribes after live.status is set: its snapshot
\* may lack the card that is applied after it.
DoneMeansComplete ==
    \A c \in Clients :
        client[c].pc = "ended" /\ client[c].seen \in TerminalStatus /\ ~client[c].late =>
            \A e \in 1..saved : client[c].view[e] > 0

\* An open channel has its subscriber: nobody waits for a channel that the run
\* no longer knows.
OpenChannelsAreSubscribed ==
    \A c \in Clients : client[c].pc = "following" /\ ~channel[c].closed => c \in subs

\* A client that follows the run is told of its end, although its channel may
\* overflow and the run may leave the live map while the client reconnects.
FollowersReachTheEnd ==
    \A c \in Clients : client[c].pc = "following" ~> client[c].pc = "ended"

-----------------------------------------------------------------------------
(* What docs/core-chat-reliability.md says and the code does not keep *)

\* "repeated reconnects do not duplicate content"
NoDuplicates == \A c \in Clients : \A e \in Event : client[c].view[e] <= 1

\* "done is the only terminal SSE event; its status is one of ..."
DoneIsTerminal ==
    \A c \in Clients : client[c].pc = "ended" => client[c].seen \in TerminalStatus
=============================================================================
