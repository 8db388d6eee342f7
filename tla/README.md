# cocola: verification project

cocola is a self-hosted platform on which users talk to coding agents. A browser
talks to a Go **gateway**; the gateway keeps conversations in PostgreSQL and opens
one gRPC stream per turn to the Python **agent runtime**; the runtime asks the Go
**sandbox manager** for the sandbox of the session and runs the agent in it; the
agent reaches models through the **LLM gateway**; an **admin API** configures all
of this and schedules tasks. This directory models the parts of that system whose
correctness rests on the order of concurrent steps, retries and crashes.

Paths below are relative to the root of the repository. Line numbers are in
`PROJECT.json` (`map`), one entry per definition.

## 1. Inventory

### Parts with a protocol of their own

| Part | State | Operations | Hard behaviour | What makes it correct |
|---|---|---|---|---|
| Chat run store (`apps/gateway/internal/chatrun`) | rows of `conversation_runs`, `conversation_plans`, `conversation_questions`, `messages` | Start, StartPlanExecution, StartQuestionAnswer, SaveDraft, AcceptQuestionAnswer, CancelPlan, CancelQuestion, Finalize, InterruptRunning | any two transactions in any order; one transaction writes rows of four tables; two of them also rewrite JSON cards in old messages | single flight; a plan is executing exactly while its run is; one open question, and it blocks; terminal states stay; the cards follow the rows |
| Run controller (`httpapi/simple_chat.go`, `plan_mode.go`, `question_mode.go`, `cmd/gateway/main.go`) | map of live runs, `liveRun` flags, one goroutine per run, `runs.shutting`, `runs.stop` | start a run, stream, drafts, accept an answer, finalize with retries, fallback, background recovery, cancel, shutdown, start | a store call fails, or commits and is reported as failed; cancel against the end of the stream; crash or shutdown at any step | every running row is owned by a goroutine or by the next start; an outcome has its output; a cancelled run ends |
| Run subscriptions (`simple_chat.go`) | `live.subs`, bounded channels, the reducer, the event coalescer | subscribe, apply, publish, terminal sequence, streamRun, streamStoredRun | apply and publish are two critical sections; full channels; a reconnect while the run leaves the live map | nobody misses an event; "done" comes with the whole output; nobody waits for ever |
| Sandbox binder (`apps/sandbox-manager/internal/orchestrator`) | four Redis keys per session, the provider's sandboxes | Acquire, LookupBinding, Release, Heartbeat, reaper, Drain | several replicas; TTL locks that run out under their holder; Redis and provider calls with lost answers; replicas that die | one session, one sandbox; no leased sandbox reaped; no sandbox lost |
| Session Storage (`sandbox-manager/internal/orchestrator`: `storage.go`, `binder.go`) | the row of `session_storage`, the volume claims in Kubernetes, beside the Redis binding | EnsurePVC, Create, PrepareReset, CommitReset, DiscardReset, Delete, inside Acquire, Release and the reaper | three stores written one after the other; lost answers; replicas that die; nodes that come and go | an Acquire answers with a sandbox on the durable claim; work goes only with a release or an allowed reset |
| Memory capture (`gateway/internal/memory`) | `memory_capture_jobs` with leases, epochs, sessions and tasks of the provider | schedule, claim, submit, poll, complete, retry, cancel, clean up, Clear, Reset | a worker outlives its claim; a commit whose answer is lost; Clear while a worker commits | nothing captured before a Clear comes back; no turn is submitted twice; cancellations stand and end |
| Feishu channel (`gateway/internal/channel/feishu`) | connector leases, inbox items, the session of a chat | receive, claim, process, settle, retry, /new, /stop | events delivered twice; a lease lost while a message is processed; a crash between run and reply | messages reach the agent in order; a /stop stops what it was sent for; every message settles |
| Projects and SCM broker (`gateway/internal/project`) | projects, attempts, repository tokens, approvals, token leases | provision, retry, archive, approve, mint, save, revoke, disconnect | an attempt taken for dead completes; revocation against minting; lost replies of Forgejo and GitHub | one token per approval; no token of finished work stays; the token in a ready row works |
| Model registry and calls (`apps/llm-gateway/cocola_llm_gateway`: `db_registry.py`, `service.py`, `middleware.py`, `server.py`) | the cached registry, its references, retired registries; per call: lease, attempt, usage; the ledger | acquire, refresh, release, close; resolve, validate, stream, retry, record, commit | a reload while streams run; tasks cancelled where they wait; a provider that fails or stalls; failed writes | no stream on a closed registry; every replaced registry is closed; one attempt shown; what ended is metered once |
| Revocation and quotas (`llm-gateway`: `auth/revocation.py`, `quota/`; `admin-api`: `store/mirror.go`, `redispub/`) | PostgreSQL rows, Redis keys, caches with a time to live, token counters | revoke, set and delete a quota, publish; look up, check, commit, mirror | slow look-ups; failed or reordered publications; loss of Redis; concurrent requests | a revocation takes effect within a time to live; the overshoot is what is in flight |
| Task scheduler (`apps/admin-api/internal/service`) | `scheduled_tasks`, `scheduled_task_runs` | sweep, list, claim, heartbeat, expire, finish; edit, pause, resume, enqueue, delete | replicas that die or lose heartbeats; an expired run finishes late; stale read-modify-writes | one run at a time; a due task starts |

How they interact: the controller calls the store (transactions, shared rows) and
publishes to the subscriptions (channels); the agent runtime, called by the
controller over gRPC, calls the binder; memory capture is scheduled by the
controller after Finalize committed; the Feishu channel and the scheduler start
turns through the same chat handler as a browser; the agent calls the LLM gateway, which
reads what the admin API wrote to PostgreSQL (routes, counters) and Redis (revocations, caps); the broker asks the store whether
a run is active. The agent runtime itself keeps no durable state of its own
besides a session map: it is the environment of the models, a stream that may end,
fail or be cancelled, and the caller of Acquire and Heartbeat.

### Parts without one

The conversation reducer (a pure fold), CRUD handlers of the gateway and of the
admin API, codecs of the LLM gateway, provider adapters, CLI, web UI,
storage probe, shared packages and deployment files. `PROJECT.json` lists each of
them with the reason why it is not modelled.

### Hazards

`PROJECT.json` lists, at the line where each bites, what can go wrong here and is
hard to test. The properties of section 4 are aimed at them; a hazard that nothing
covers yet says why.

## 2. Modules

| Module | Models |
|---|---|
| `ConversationTurns` | abstract: what one conversation promises its user, without tables |
| `ChatRunStore` | the transactions on the rows of one conversation; implements `ConversationTurns` |
| `RunController` | EXTENDS `ChatRunStore`: the gateway process around the store |
| `RunSubscription` | the browsers of one run |
| `SandboxBinder` | the Redis keys of one session and the replicas that work on them |
| `SessionStorage` | the workspace of one session: durable row, volumes, binding |
| `MemoryCapture` | capture jobs, the memory provider, Clear and Reset |
| `FeishuInbox` | one Feishu chat: connector lease, inbox, runs |
| `ScmBroker` | approvals, tokens and leases of one GitHub project and one run |
| `Projects` | EXTENDS `ScmBroker`: provisioning and archiving of the project around it |
| `TaskScheduler` | one scheduled task, its runs, the replicas, the users' requests |
| `ModelRegistry` | the registries of the LLM gateway, their leases and reloads |
| `ModelCalls` | EXTENDS `ModelRegistry`: chat and memory calls over leased registries |
| `TokenQuota` | revocation, caps and token counters of one caller, from the admin API to the request |
| `ChatRunProofs` | theorems about `ChatRunStore`, which implements `ConversationTurns`, about `RunController`, which implements `ChatRunStore`, and about `RunSubscription` |
| `SandboxBinderProofs` | theorems about `SandboxBinder` |
| `ProjectsProofs` | theorems about `Projects` and `ScmBroker` |
| `TaskSchedulerProofs` | theorems about `TaskScheduler` |
| `SessionStorageProofs` | theorems about `SessionStorage` |
| `LlmGatewayProofs` | theorems about `ModelCalls`, `ModelRegistry` and `TokenQuota` |
| `MemoryCaptureProofs` | theorems about `MemoryCapture` |
| `FeishuInboxProofs` | theorems about `FeishuInbox` |
| `MC...` | symmetry sets for TLC, where a run uses one; the `.cfg` files give the constants their values |

### ChatRunStore

One action is one PostgreSQL transaction. That is justified by the locks: every
transaction that starts a run holds the conversation row `FOR UPDATE`; the others
lock the row of the run, plan or question they change before they read its status;
`conversation_runs_single_flight`, `conversation_plans_one_current` and
`conversation_questions_one_current` are unique indexes, so a race they decide ends
in a rolled-back transaction, which changes nothing. What the lock order of single
statements could do (deadlocks that PostgreSQL resolves by aborting one side) is a
hazard of the list and not modelled.

`run`, `plan` and `question` are the tables; plans and questions are identified by
their `source_run_id`, which is unique in both. `message` is the assistant message
of each run, reduced to what kind of body it has and to the status its plan card
and its question card show. The guards are the conditions and early returns of the
Go code; a refused request, or one answered by replay of an existing run, is no
step. `Finalize` is one action with the parts of the transaction as operators, in the
order of the code: the question that was being answered is settled, a new question
or plan inserted, older plans superseded, the executed plan moved, the run ended,
messages written. Its inputs are exactly those `executeLiveRun` can build
(`FullInput`) and the fallback's (`FallbackInput`).

### RunController

Adds the process. A run's goroutine is `task[r]`: `pc` says where it is (handler
that passed the shutdown check, streaming, the foreground attempts of `finalizeRun`,
its fallback, the two alternating attempts of `recoverRunFinalization`, saved,
done), the rest are the flags of `liveRun` and the `FinalizeInput` it retries with.
Every store call has three outcomes: it commits and says so, it fails, or it commits
and the caller sees an error (`LostAcks`). `phase` is the process: serving,
`ShutdownRuns` before and after it collected the live runs, returned with or without
an error, down. `Crash` may happen at any time; `Restart` is `InterruptStaleRuns`,
without which `main` does not serve. `reached` is a history variable: the question
whose answer the runtime accepted, as far as the gateway has heard the event.

`shown` and `task.cards` count the cards appended to the message of a run. They
exist for `OneCardPerMessage` (section 4) and are capped by `CardBound`; with
`CardBound = 0` the counters do not grow and that effect is left out of the runs.

### RunSubscription

Output is numbered. `applied` is what the reducer holds, `saved` what the stored
message holds, `client[c].view[e]` how often client `c` was given event `e`.
`apply` and `publish` are separate steps, as in the code. After the commit the
goroutine unlists the run, sets `live.status`, applies and publishes the tail (a
card, the run summary), publishes "done" and closes the channels, one step each. A
handler reads the row, asks the live map, then subscribes or serves the stored
message, each a step of its own. A channel that is full is closed; a client whose
channel ends without "done", or whose connection breaks, starts again at the row.

### SandboxBinder

One step is one Redis command, one Lua script or one provider call: all that another
replica can see. `op[o]` is an operation of some replica: its kind, its place, the
sandbox at hand. The keys are `conv` (forward key), `meta` (records), `lease`,
`lock`. Commands fail with or without effect (`FailCommand`, the lost answers of
SetNX, scripts, Create and Destroy), replicas die (`Crash`), sandboxes fail
(`FailBox`), leases expire at any time, and a lock runs out when its holder is lost
(`ExpireLock`) or under a holder that is still at work (`OutliveLock`). The history `raced`
says that the lock has failed to keep operations apart: one has outlived it, or a
`LookupBinding`, which takes none, has deleted a key (`LookupDeletes`). Sandboxes whose creator crashed or did not learn their id
are `stranded`: the code has no record of them, by design of the providers' labels.
The branches of the managed k3s mode are in `SessionStorage`. The session's owner does
not change.

### SessionStorage

The managed k3s mode keeps a session in three systems: PostgreSQL names the durable claim
(`row`), Kubernetes has the volumes, Redis binds the session to a sandbox, and each sandbox
mounts the claim it was created with. One step is one call to one of them; any call may
fail, with or without its effect, and a replica may die at any step (`Crash`). The Redis
keys are one variable, `bound`: `SandboxBinder` has them one by one and shows that they
change together. `life` says what became of each claim name (a fresh one for every new
workspace), `away` which claims sit on a node that cannot take a sandbox now: `SelectNode`
and `runningSandboxReusable` ask for exactly that, and it changes freely. `op[o]` is an
operation, with the local variables of Acquire that later branches read (`preparedReset`,
the stale claim, whether the bind was lost or done). A lock runs out under a living holder only
while a sandbox is being created or bound ("create lock may expire during a long image
pull", `binder.go`). Histories: `given`, the sandboxes Acquire answered with; `work`, the
claims a turn wrote to; `disowned`, the claims whose commit was reported as an error.

### MemoryCapture

`row[j]` is the job of one finished turn, `worker[w]` the worker of a gateway with the copy
of the row it claimed, `wipe[c]` a call of Clear (user) or Reset (admin). The provider
(outside the repository, modelled from how `memory/openviking.go` and the worker use it) has
a session per job with its messages, a task per commit, and the memories a task wrote.
A worker's step is one statement or one call; a failed call may have had its effect, so the
retry has to find out. `settle` is the one UPDATE a worker ends with, named by `verdict`. Of the
times only the leases are kept. A worker gives up after 45 seconds and its
leases last one to two minutes, so a lease outlives its worker; a failed call has
no effect later on. `account` is the checkpoint of a Reset for the user's tenant
(`memory_reset_accounts`), which is made when the user has a settings row and is taken off the list
when the account has been deleted. Histories: `givenUp`, the jobs declared dead; `erased`, the jobs covered by
a Clear or Reset that reported success; `strays`, the jobs whose rows or account went with a Clear or Reset
that had begun before they were scheduled.

### FeishuInbox

The connector row, the runner and worker of each gateway, the inbox rows in the order of
their arrival, the session row of one chat, and the runs the gateway's own HTTP API made for
each message (`DeterministicRequestID`: one request id per message and purpose, so a replay
finds its run). Connector and item leases run out, gateways crash, deliver an event twice, or lose
a call with or without its effect. `ClaimNextInbox` takes rows with SKIP LOCKED, so a row that another
gateway claims or settles at that moment is passed over (`Visible`); `skipped` of a worker is a history, the
earlier rows its claim passed over so. A run is the active one of its runner before the call that starts it
is made (`BeginStream`, `CallAgent`), so a /stop may come in between. `heard[m]` is a history: the runs that went on in the current
conversation when the /stop `m` was received.

### ScmBroker and Projects

`Projects` is one project: two requests that provision it (Create and Retry), two that
archive it. The attempt id in the row fences a process that was overtaken, `stale` is the
fifteen minutes after which another may take over. Only the git push takes that
long. `ScmBroker` is the exchange of a run's credential for GitHub tokens: the checks, the
approval of a high-risk command, the mint, the lease row, and what revokes them: the
end of the command, of the run, of the project and of the connection. The two share the project
row and the fault bound. Histories name the exceptions the code makes: `overtaken` (an attempt
still at work when another took over), `unheard` (an attempt that completed and never heard
of it), `raced` (calls under way when the leases were collected).

### TaskScheduler

`sched[s]` is the loop of one replica: expire stale runs, expire tasks, list due tasks,
claim one by inserting a run (`TryStartScheduledTaskRun`), follow it with
heartbeats, write the outcome. The claim is two steps: its SELECT takes a snapshot of the task and of its runs
(`LookForTask`), then waits for the row of the task; what it finds under the lock is the current task,
but READ COMMITTED does not ask the NOT EXISTS about the runs again (`StartRun`). `rearmed` is a history: a
write left the task due for such a claim, beside a run. A replica works on the copy of the task it listed, and users work
on the copy they read: both write whole rows back. Time is a small number, the calendar
arithmetic is abstracted to "one unit from now" and to a fixed moment.

### ModelRegistry and ModelCalls

A registry is named by the edit of the rows it was built from. What `PostgresRegistrySource` does
under `_refresh_lock` is one step, the load of the rows included, since nobody else can see the
state in between; closing a registry comes after the lock and is a step of its own, with the task
(`lease[c]`) at "swap" or "last". The rows change freely; rows nothing can be built from are
"broken", rows without a provider "empty". A task may be cancelled where it waits: then its reference or its close is lost, and
`leaked` remembers the registry. `ModelCalls` puts the handler around the leases: a chat call takes
three (resolve, validate, stream), a memory call one. The provider sends its events in the order
`upstream/base.py` promises and may fail or stall anywhere; `attempt` and `produced` are the locals
of `ResilientStreamer`. The writes after the stream may fail with or without effect, or be cancelled
(`cut`). `upstream` is a history: what the provider reported per attempt. A chat call meters its stream
in a `finally` block, however it ended. A memory call writes a record only when its stream ended without an
error and brought a `text`; else it raises and leaves none, whatever it used (`Ended`).

### TokenQuota

One caller, that is one token, user and tenant. `db` and `redis` hold the revocation and the two
overrides, `used` and `fast` the counters per window. A request goes through look-ups (`Look`, `Ask`,
`Fill`: the cache under its lock, Redis, the cache again), the check of its two scopes and, when its stream has
ended, the commit. Two requests share the caches, so a slow look-up may store its answer after a
newer one. Calls of the admin API write PostgreSQL and then Redis, one step each. The clock ticks between any two steps;
a tick that begins a new day (`Rollover`) starts a new window, except between the two halves of one commit,
which computes its window once.
`revokedAt` is a history: when a call of the admin API put the revocation into a Redis that did not have it, and
succeeded. `RedisLosesData` takes the denylist with the counters; only another revocation brings the entry back.

## 3. Abstract specification

`ConversationTurns` has four variables: the active turn, the outcome of each turn, the
question and the plan in front of the user. `ImplementsTurns` in `ChatRunStore`
is its specification under the refinement mapping: the active turn is the running
row, a turn's outcome its terminal status, question and plan the open rows. It says
among others that an outcome is final, that a message never starts beside an open
question, and that a turn that ends leaves the conversation in one of the listed
states. TLC checks it on an instance, and `ChatRunProofs` proves it.

## 4. Runs

| Run | Instance | What it checks |
|---|---|---|
| `chat_run_store` | 4 runs, 1 retried request id, symmetric | plans, questions and cards agree with the runs; the refinement of `ConversationTurns` |
| `run_controller` | 2 runs, 2 attempts, lost acknowledgements | ownership of running rows, accepted answers, output of outcomes |
| `run_controller_live` | 1 run, every failure | cancelled runs end, ended streams settle, a shutdown settles |
| `run_subscription` | 2 clients, 2+1 events, channels of 2, 1 disconnect each | no event missed, "done" is complete, followers reach the end |
| `sandbox_binder` | 2 operations of any of the six kinds, 3 sandboxes, symmetric | no sandbox is lost; unless `raced`: one binding, Acquire returns it, the reaper spares leased sandboxes |
| `session_storage` | 2 operations, 2 sandboxes, 2 claims, symmetric | Acquire answers with a sandbox on the durable claim; work stays |
| `memory_capture` | 1 job, 2 workers, 1 Clear or Reset, 2 attempts, 2 faults | nothing comes back after a Clear, one submission, cancellations stand and end, captures settle |
| `feishu_inbox` | 2 gateways, 2 messages, 2 attempts, 1 fault | order of messages but for a skipped row, effect of /stop, the inbox is worked off |
| `projects` | 2 provisioning and 2 archiving requests, 3 token requests of which 2 risky, 2 faults | one token per approval, no lease or token of finished work, the token of a ready project |
| `task_scheduler` | 2 replicas, 2 runs, 1 request, times 0 to 2, 1 fault | unless `rearmed`: one run at a time; due tasks start |
| `model_calls` | 1 chat call, 1 memory call, 1 edit, 1 retry, 2 usage events, 1 fault | one attempt shown, ended chat streams and memory calls with a text metered once, no stream on a closed registry, replaced registries are closed |
| `token_quota` | 2 requests of one token, 1 call of the admin API, 2 moments, 1 fault | a revoked token stops within a time to live as long as Redis keeps the entry, the overshoot of a cap is what is in flight |

`SingleFlight`, `AtMostOneOpenQuestion`, `CurrentPlanIsTheLatest`, `FinalMessageStays` and
`PlanLifeCycle` of `ChatRunStore` are proved (section 5) and not listed by a run: what breaks one of
them breaks the refinement or `CardsFollowRows` too.

**Why the bounds are enough.** A conversation holds one running run, so an
interaction spans a short chain: a run proposes a plan or asks, a second executes or
answers, a third revises or continues, and a fourth shows that what they left behind
does not disturb a later one. Two runs are enough in `run_controller`, where the
question is what one goroutine does while another run of the conversation starts.
One is enough for liveness: the store lets only one run be active. Two attempts
distinguish the first, the retry and the last. A channel of two events overflows with
the third, and the output has three events and "done". Two clients of which each may be
dropped meet all of each other's steps, which touch only their own channels. In the
binder two operations race for one session; the third sandbox is the one a loser creates.
In `session_storage` one operation creates what the other finds, overtakes or deletes; two
claims are one workspace and its replacement. The run has no fault bound; with three
sandboxes (7.4 million states) it passes too. One job is enough for the memory properties: jobs
share only the settings row and the order of claims, which `CapturesSettleUnlessStarved`
sets aside, and two workers are what one job's lease can pass between. Two faults are a lost answer
and the crash that follows. Two Feishu messages are one and the next; the
constraint `NamedInOrder` keeps, of two behaviours that differ only in the names of the messages,
the one that receives the first name first (faster, and unlike SYMMETRY sound for liveness; without
it the run passes over 1.05 million states). Two attempts, two archives
and two faults let a slow attempt be overtaken, come back and fail; of three
calls two compete for an approval and one needs none. Two runs of a task are the one that
is given up and the one that starts in its place. In
`model_calls` the chat call and the memory call reload under each other, and either may hold the
last reference to what was replaced. Of the quotas two requests race for one cache and one counter;
with a time to live of one moment the second moment is when it has run out, and a cap of one token
is overrun by the second of two requests. The tenant has no cap in that run, so that `CommitUncapped` is
taken; `OvershootIsInFlight` says something of the user only. With a cap of 2 for the tenant (`BothCaps`)
the run passes too, over 6.2 million states.

Bounds that are not sizes of sets: `MaxAttempts`, `CardBound` (controller), `MaxStreamed`,
`TailLength`, `BufferSize`, `MaxDrops` (subscriptions), `AttemptLimit`, `MaxFaults` (memory),
`AttemptLimit`, `MaxPending`, `MaxFaults` (Feishu), `MaxFaults` (projects), `MaxTime`,
`MaxFaults` (scheduler), `MaxEdits`, `MaxUsage`, `MaxFaults` (models), `MaxTokens`, `MaxTime`,
`MaxOutages` (quotas). `AttemptLimit`, `MaxPending` and `MaxRetries` are settings of the code.

**Deadlock.** It is checked for the binder and Session Storage, whose operations can
always be started again, and for the model calls, which stop only when every call is done. The other systems stop when their runs, jobs, messages, requests
or time are used up, so their configurations say `CHECK_DEADLOCK FALSE`.

**Fairness.** *Controller*: goroutines that can go on do (the Go scheduler); an attempt
to save succeeds eventually if attempts are made again and again (strong fairness
of `GoodAttempt`: the database comes back); a stream whose context is cancelled
ends; a process that is down is started again (`restart: unless-stopped` in the compose
files). The agent may stream for ever: nothing is assumed of `EndStream` without a
cancellation. Nothing forces a crash or a user. *Subscriptions*: the run's goroutine and
the handlers go on, browsers reconnect, the agent's output is finite.
*Memory*: workers go on until they give up, calls of Clear and Reset go on until their deadline,
leases run out, tasks of the provider end; a claimable job is claimed if it is
claimable again and again, by the order of `next_attempt_at` (strong fairness, per job).
*Scheduler*: the loops go on, a turn ends within `RunTimeout`, a lease nobody renews runs out.
*Models*: a task that waits for a lock, a close or a write goes on, and `timeout_s` ends a stalled
stream. Nothing forces the provider to send anything.
*Feishu*: tickers, timers and workers go on, a run ends (its own timeout); no fault is ever due.
The binder, Session Storage, projects and quotas have no liveness property: an operation is over after
a fixed number of calls, and none waits for another except for a lock that Redis expires.

### What the code does and its documents do not say

The runs above are the properties the code keeps. Beside them are configurations, none of them a
run of `PROJECT.json`, whose one property states a sentence of the repository and which TLC refutes
within minutes:

| Configuration | What the code does |
|---|---|
| `MCGracefulShutdownStopsRuns.cfg` | a handler that passed the `shutting` check starts its run after `ShutdownRuns` collected the live runs; shutdown reports success with a running row, which the next start interrupts |
| `MCOneCardPerMessage.cfg` | a `Finalize` that fails after it appended the card to its caller's message makes the retry save two cards |
| `MCNoDuplicates.cfg` | a client that subscribes between `apply` and `publish` has the event in its snapshot and receives it again |
| `MCDoneIsTerminal.cfg` | a client whose handler read the row before the run left the live map is told "done" with status `running` |
| `MCOneBinding.cfg` | `LookupBinding`, which takes no lock, deletes a forward key that is newer than the one it read (`OneRecord`) |
| `MCClaimsRespectRuns.cfg` | docs/archive/fix-scheduled-task-run-lease.md:7 says that a later claim is refused while a run of the task is `running`. Two replicas claim a due task; one starts a run, a user enqueues the task again, the other gets the row lock: the task is due, its NOT EXISTS has an old snapshot, no unique index stops it, and a second run starts (`ClaimsRespectRuns`) |
| `MCActiveTasksAreScheduled.cfg` | a once task that is edited to an interval during its run gets the stale NULL `next_run_at` of the run that ends, and is active and never due |
| `MCCapturesStarve.cfg` | a cancelled row whose commit never happened is claimed again and again ahead of the pending captures |
| `MCOvertakenReset.cfg` | two Resets overlap; when the first has completed, Memory is enabled and a turn is captured, the second completes too: it deletes the row of the new job and the settings of its user, so a third Reset finds no account and reports success while the task of that job goes on to write its memories (`ResetIsABarrier`) |
| `MCCommittedWorkStays.cfg` | the answer of CommitReset is lost; an Acquire that lost its own lock while creating a sandbox answers with the one just bound; the clean-up of the first then deletes the volume of the committed claim |
| `MCStopUnblocksTheChat.cfg` | a /stop while the answer to a question runs leaves `PendingQuestionID` in the chat's session, because `consumeAgentStream` returns early for a stopped run; the next command calls CancelQuestion for it, is refused, and so is every later one (`CommandsSucceed`) |
| `MCQueueHeadFirst.cfg` | docs/archive/feat-user-feishu-connector.md:29 says that ordinary messages run strictly from the head of the queue. When a connector's lease runs out, two gateways may serve it at once; the claim of one skips the head that the other has locked (SKIP LOCKED), and the later message runs first (`QueueHeadFirst`) |
| `MCRoutedAsBilled.cfg` | the handler puts the model of one registry lease into the request and `chat_stream` resolves the alias again under a later one: after an edit in between the old model is asked of the new provider and the new one is billed |
| `MCPartialStreamsAreMetered.cfg` | service.py:18-20 says that records "happen even on error/partial streams so usage is captured for whatever the upstream already produced". A memory call that fails, or gets no text, after it used tokens raises before its record is written (service.py:195-217; `PartialStreamsAreMetered`) |
| `MCRevocationsSurviveLosses.cfg` | mirror.go:33-34 says that a revocation is only complete once every gateway can observe it, redispub.go:16-18 names a boot-time reconciliation that does not exist. A Redis that loses its data forgets a revocation the administrator was told has succeeded, nothing publishes it again, and the token is admitted (`RevocationsSurviveLosses`) |
| `MCOverridesTakeEffect.cfg` | two administrators set one cap at once, PostgreSQL is written in one order and Redis in the other, and nothing brings them together again |

Seen while modelling, and part of the models without a configuration of their own:

- *Controller*: startup recovery marks a question that was being answered as answered, whether or
  not the answer was accepted (`InterruptRunning`); a start whose commit was reported as an error
  leaves a running row that nobody owns until the next start (`unowned`).
- *Subscriptions*: a client that subscribes after `live.status` is set may miss the card that is
  applied after it (`late`).
- *Binder*: the reuse path of Acquire is not fenced by the lock token, so an Acquire that outlives
  its lock may return a sandbox that has been released (`raced`).
- *Session Storage*: a failed EnsurePVC, PrepareReset, discard or drop of the old volume leaves
  a volume nobody refers to; after a crash between CommitReset and the answer, the next Acquire
  reports the workspace as preserved although it was reset, so the agent runtime keeps its map of
  sessions.
- *Memory*: a job that is `submitting`, cancelled and without a provider task is claimed for
  ever and every Clear that waits for it times out (`Orphaned`); a dead job's task is neither
  cancelled nor waited for (`givenUp`); neither step that completes a Reset checks that the Reset is
  still the current one, so one that was overtaken takes the rows, the settings or the account checkpoint of
  later jobs with it (`strays`, `MCOvertakenReset.cfg`); Clear removes memories
  of the new epoch too.
- *Feishu*: a message whose run asked a question before the reply was sent is, when it is tried
  again, taken as the answer to that question (`RetriesReplayTheRun`); a question answered on
  the web leaves `PendingQuestionID`, and later messages fail on it; replies may be sent twice. The end of
  a stream writes the whole session row back as it was loaded (`UpsertSession`), also by a worker that has
  lost its connector lease. It can undo a /new of the next gateway between the start and the end of a /stop, which
  then stops nothing in the conversation that is current again; that is why `StopTakesEffect` is about the
  conversation the command found.
- *Projects*: a lost reply of CompleteLocalProject leaves a ready row whose token its attempt
  then deletes (`unheard`); an attempt overtaken while it pushes and then crashing leaves a live
  token after an archive (`overtaken`); a call that passed its checks saves a lease after the run
  or the project ended (`raced`).
- *LLM gateway*: a task cancelled while it waits for a lock or a close leaks its reference (`leaked`);
  a deleted override whose publication failed cannot be deleted again, because the second call
  finds no row and publishes nothing.
- *Scheduler*: a replica's write of the task it listed overwrites an edit made meanwhile; requests
  overwrite each other's edits; UpdateScheduledTaskRun has no guard on the status of the run; a transient
  error of GetAuthUser pauses the task; an enqueue-now during a run is lost.

## 5. Proofs

### The store

`ChatRunProofs` proves of `ChatRunStore`, for any set of runs and requests:

| Theorem | Says |
|---|---|
| `TypeCorrect` | every row keeps a legal shape |
| `OneRunningRun` | `SingleFlight` |
| `ExecutingPlansAreRunning` | `ExecutingPlanHasItsRun` |
| `OpenQuestionsBlock` | `OpenQuestionBlocksRuns` |
| `OneOpenQuestion` | `AtMostOneOpenQuestion` |
| `CurrentPlanIsUnique` | `CurrentPlanIsTheLatest` |
| `HistoryIsAuthoritative` | `CardsFollowRows` |
| `FinalMessagesStay` | `FinalMessageStays` |
| `PlanStatusIsTheSum` | `PlanStatusSumsUpExecutions` |
| `PlansKeepTheirLifeCycle` | `PlanLifeCycle` |
| `StoreImplementsTurns` | `ImplementsTurns` |

They assume only that `NoRun` is no run and `NoRequest` no request. The first four
safety properties are not inductive one by one: that Finalize of one run leaves no
other plan executing needs single flight, and that a start cannot take the
conversation from a question being answered needs the coupling of that question to
its run. Their conjunction `CouplingInv`, under `TypeOK`, is inductive; its proof has
one lemma per compound effect (`InsertedRunIsTheOnlyOne`, `FinalizeEffect`,
`InterruptEffect`), one step per action, and one step below it per conjunct.
`CurrentPlanIsTheLatest` is inductive with that. `CardsFollowRows` needs
`NothingBeforeTheEnd`: a run that has not ended has no plan and no question, so a
draft that replaces its message cannot lose a card. `PlanLifeCycle` follows from
the coupling and from `NothingBeforeTheEnd`. `SumInv` adds to `PlanStatusSumsUpExecutions` that a
run which has not begun names no plan, so a start only ever adds an execution; and by the coupling
an execution that ends finds its plan executing, that is without an outcome, and gives it its own.

The refinement uses all of them. `AtMostOneOpenQuestion` and `CurrentPlanIsTheLatest`
make the mapping a function of the rows: the one open question, the one current plan.
`CouplingInv` says which question and which plan the ending run was working on
(`AskWhileRunning`, `ExecutionEnds`), so Finalize and InterruptRunning are both one
`End` step. There is one lemma per transaction, and SaveDraft is invisible.

### The controller

`ChatRunProofs` proves of `RunController`, for any runs, any number of attempts and whatever calls fail or lose
their acknowledgement:

| Theorem | Says |
|---|---|
| `ControllerTypeCorrect` | `ControllerTypeOK` |
| `ControllerImplementsStore` | `ControllerSpec => Spec`: every step of the process is a transaction of the store or none |
| `ControllerImplementsTurns` | `ControllerSpec => ImplementsTurns`, end to end |
| `RunningRowsHaveOwners` | `RunningRunsAreOwned` |
| `AcceptedAnswersStay` | `AcceptedAnswersAreNotRepeated` |
| `OutcomesKeepTheirOutput` | `OutcomesHaveTheirOutput` |

The implementation rests on `InputInv`: what a goroutine keeps as its `FinalizeInput`, and what the
fallback makes of it, is an input of its run's mode, through every retry. Since the controller
implements the store, every theorem about the store holds of it, and
`OutcomesHaveTheirOutput` is one of them. `OwnedInv` adds to
`RunningRunsAreOwned` that a saved run is not running, so taking it out of the live map orphans
no row. `ReachedInv` couples an accepted answer to what its goroutine knows: while it streams,
`accepted` is set; while it saves, the input says so; afterwards nobody but the next
start settles the question. `AttemptShape` and `AttemptEffect` say once what the three places that
call the store have in common.

### The binder

`SandboxBinderProofs` proves, for any sets of operations and sandboxes and any choice of
lost answers, crashes and kinds of operation:

| Theorem | Says |
|---|---|
| `BinderTypeCorrect` | the keys, the sandboxes and the operations keep their types, and the sandbox at hand fits the place |
| `ForwardKeysHaveRecords` | `ForwardKeyHasRecord` |
| `NoSandboxIsLost` | `RunningSandboxesAreAccountedFor` |

and, as long as the lock has kept the operations apart (`~raced`):

| Theorem | Says |
|---|---|
| `SessionsAreBoundOnce` | `OneBinding` |
| `AcquireAnswersWithTheBinding` | `AcquireReturnsTheBinding` |
| `LeasedSandboxesAreSpared` | `ReaperSparesLeased` |

The first group needs no lock: the scripts write and delete the forward key and its record
together, and a sandbox is bound, in the hands of an operation, stranded or dead
(`AccountInv`; it needs that an operation unbinds only a sandbox that is gone, `UnbindsTheGone`). The second group
rests on `LockInv`, proved of `~raced`: the operations between lock and unlock exclude each other, so
what one has read of the forward key, the record and the lease is still so when it acts on it. A lookup
is no such operation: it moves through its own places (`LookupMoves`) and, unless it deletes a key,
changes nothing. The exception cannot be dropped: `MCOneBinding.cfg` checks `OneBinding` without it
and TLC refutes that.

### Subscriptions

`ChatRunProofs` proves of `RunSubscription`, for any number of clients and of broken connections, any length
of the output and any size of the channels:

| Theorem | Says |
|---|---|
| `SubscriptionTypeCorrect` | types, and no channel holds more than its buffer |
| `NobodyIsForgotten` | `OpenChannelsAreSubscribed` |
| `NothingIsMissed` | `SubscribersMissNothing` |
| `DoneIsComplete` | `DoneMeansComplete` |

`WorkerInv` is the order of the goroutine's steps: what is saved, listed and set at each place.
`ClientInv` says for one client that "done" is the last event of its channel and comes after
everything that is saved, unless the client was late; that is what makes "done" complete when it
is received. A client that is served from the stored message needs that it was `fetching`
because the run was unlisted, so the output was saved by then. The proof has one
lemma for the steps that leave the channels' events alone, one for those that send, one for the
client that takes a step and one for the others.

### Projects and the broker

`ProjectsProofs` proves, for any number of requests, calls and faults:

| Theorem | Says |
|---|---|
| `ProjectsTypeCorrect` | types |
| `OneTokenPerApproval` | `ApprovalsAreUsedOnce` |
| `RevocationIsComplete` | `FinishedWorkKeepsNoLease` |
| `NoTokenIsLeft` | `ArchivedProjectsKeepNoToken` |
| `ReadyProjectsWork` | `ReadyProjectHasItsToken` |

`ApprovalInv`: who was granted an approval consumed it, and nobody else holds it.
`LeaseInv`: once the leases were collected the credential is revoked, so whatever is still under way
overlapped the collection (`raced`). `AttemptInv`: an attempt before its push is the current one,
since only the push outlasts the fifteen minutes; afterwards it is current or `overtaken`.
`TokenInv`: while an attempt is current every other attempt's token is accounted for, which
is why neither an archive nor a late clean-up misses one or deletes the wrong one. `TokenInv` is
inductive only together with `AttemptInv`, `LeaseInv` and the types.

### The scheduler

`TaskSchedulerProofs` proves `SchedulerTypeCorrect` (types) and `TasksRunOnce` (`OneRunAtATime`) for
any number of replicas, runs and requests and any waits for the row lock. Its invariant, `ClaimsInv`, says: unless
`rearmed`, at most one run is running, and beside it no claim that saw none would still start
one, because whoever got the row first took the task out of the schedule. Only three steps can put it
back, a request, the late outcome of an earlier run and the start by an older claim; no other write of the
task's row does (`ClaimsStand`). The exception cannot be dropped: `MCClaimsRespectRuns.cfg`.

### Session Storage

`SessionStorageProofs` proves, for any sets of operations, sandboxes and claims, whatever calls
fail and replicas die:

| Theorem | Says |
|---|---|
| `StorageTypeCorrect` | types |
| `AcquiresAreOnTheDurableClaim` | `AcquireMountsTheDurableClaim` |
| `WorkIsKept` | `WorkStays` |

`StorageInv` has seven parts, each a lemma of preservation with one step per action.
`LockInv`: who has the lock, and where the flags of an operation can be set. `NameInv`: a name in
use was made by somebody. `PairInv`: two operations never prepare the same claim nor hold the same
new sandbox. `OwnInv`: what an operation knows with or without the lock, above all that a claim it
is about to discard was never committed, or that it did not hear so. `HolderInv`: what the holder of
the lock read of the binding and the row is still so when it acts. `UseInv`: sandboxes that
answered and run are bound and on the durable claim. None of them is inductive alone; even the
types need the others, because a commit writes the claim of the operation into the row, and only
`OwnInv` says that it has one.

### The model calls

`LlmGatewayProofs` proves of `ModelCalls`, for any clients, edits, retries and usage, whatever fails or is cancelled:

| Theorem | Says |
|---|---|
| `CallsTypeCorrect` | `CallsTypeOK` |
| `NoStreamIsCutOff` | `StreamsUseOpenRegistries` |
| `OneAttemptReachesTheClient` | `OneAttemptIsShown` |
| `StreamsAreMetered` | `EndedStreamsAreMetered` |

`RegistryInv` is about the leases: a registry is referenced at least as often as it is held
(cancelled tasks leak references, they never lose one), and a registry that was replaced is older than
the one loaded last, so it is never lent again; hence one that is closed, or about to be, has no
holder. `CallInv` is about the order of the handler: where a stream runs it holds the registry it
was routed by (`StreamOK`); only the attempt that is shown has produced output (`OutputOK`); and
what was counted and recorded follows the place of the call (`MeterOK`): before its record is written a call
has none, and only a call of which `Metered` holds gets there. What a memory call used that failed or brought no
text is recorded nowhere, and `StreamsAreMetered` says so. The proof has one lemma for
each operation of the registry and one for each stretch of the handler.

### Revocation and quotas

`LlmGatewayProofs` proves of `TokenQuota`, for any requests, calls of the admin API, caps, time to live
and length of time, whatever fails:

| Theorem | Says |
|---|---|
| `QuotaTypeCorrect` | types |
| `RevocationsAreHeard` | `RevokedTokensStop` |
| `OvershootsAreInFlight` | `OvershootIsInFlight` |

They assume that finitely many requests are served at a time and that each scope has a largest cap.
`RevocationsAreHeard` speaks of the times when Redis lists the token: while the entry is lost the token is
admitted (`MCRevocationsSurviveLosses.cfg`), and when it is published again the time to live starts anew.
`OvershootsAreInFlight` holds however often Redis loses its data.
`ShapeInv`: what a request looks up belongs to the place it is at. `RevokeInv`: while Redis lists the token, an
answer that does not say "revoked" was given before the revocation succeeded, to a look-up that began before; since the
time to live counts from before Redis is asked, the entry is gone a time to live after the revocation at the
latest, whoever stores it and when. `BudgetInv`: what a scope has counted and what requests in flight
may still add stay below its largest cap and the tokens of all requests together. A step does one of four things
to that sum: a request leaves (`Leaves`), is admitted below the cap (`Admits`), is counted
(`Counts`), or a new window begins (`Begins`); the budget stands whichever it is.

### Memory capture

`MemoryCaptureProofs` proves, for any jobs, workers, calls of Clear and Reset, attempts and faults:

| Theorem | Says |
|---|---|
| `CaptureTypeCorrect` | types |
| `TurnsAreSubmittedOnce` | `TurnSubmittedOnce` |
| `CancellationsStand` | `CancellationStands` |
| `ErasedMemoriesStayErased` | `ErasedStaysErased` |

The first three rest on `TurnInv`. A row without the cancellation flag is leased to the worker
that is at it; two workers meet at one job only when it is being cancelled, and at most one of them
submits it (`PairInv`); the provider has none or both messages of a turn, and a commit that took effect
made a task (`SubmittedInv`). `EraseInv` adds what a Clear or Reset relies on. A job whose row is
completed, cancelled or deleted is `Still`: its task has ended, or there is none and nobody will start one.
What a call of Clear or Reset covers has the flag from its beginning on, is settled when it has waited, and is clean once the
memories are removed (`WipesInv`). `AccountInv` carries a Reset over the account checkpoint: where there is no
account to delete, no job has left anything behind. The two exceptions of the property, `givenUp` and `strays`, are the
jobs for which that is false. The run has one Clear or Reset, so that `strays` stays empty there; the
theorem is about any number, overlapping as they may.

### The Feishu inbox

`FeishuInboxProofs` proves, for any gateways, messages, attempts and faults:

| Theorem | Says |
|---|---|
| `InboxTypeCorrect` | types |
| `StopsAreCarriedOut` | `StopTakesEffect` |
| `MessagesAreAnsweredInOrder` | `MessagesRunInOrder` |

The exception of the third, `skipped`, cannot be dropped: `MCQueueHeadFirst.cfg`.
Three lemmas say what any step does to the runs (`RunsMove`: a run keeps its conversation, and one that was
asked to stop never goes on), to the inbox (`InboxMoves`: rows join at the end, keep their kind,
and stay settled) and to a worker (`WorkerMoves`: it claims, loads, or goes on with the same item and
conversation). `OrderInv` then says that whatever is before the text a gateway has claimed is settled or was skipped:
the claim saw to it, and rows do not change places. `StopInv` says that from the
cancellation of the active run to the end of the item, no run that was heard going on goes on in the conversation
of the /stop. Another worker may start a run there meanwhile, but not one that was heard before.

### Only model-checked

Liveness, because fairness and ENABLED are out of the prover's reach: `CancelledRunsEnd`, `EndedStreamsSettle`,
`ShutdownSettles`, `FollowersReachTheEnd`, `CancellationsEnd`, `CapturesSettleUnlessStarved`,
`DueTasksStart`, `MessagesSettle` and `ReplacedRegistriesAreClosed`. Every invariant and every action
property that a run checks is proved.
The other way round `SingleFlight`, `AtMostOneOpenQuestion`, `CurrentPlanIsTheLatest`,
`FinalMessageStays`, `PlanLifeCycle`, `ForwardKeyHasRecord`, `OpenChannelsAreSubscribed` and the type
invariants are proved, and no run lists them.

## 6. What is left out

Within the models:

- *Store and controller*: conversation metadata, agent snapshots and project workspaces that Start
  writes; request validation, attachments, prompts and the agent's own behaviour; the
  deletion of a conversation; the watchdog's timing (a step timeout is one of the ways a stream
  ends); the database-unavailable flag of the readiness probe.
- *Binder and Session Storage*: checks of user ids; the choice among nodes (only whether one can take
  the sandbox); how Kubernetes tears a volume down.
- *Memory*: recall, listing and deletion of single memories.
- *Feishu*: registration and binding, media, reactions, /history, /status and /switch.
- *Projects*: OAuth and manifest flows, reconnection, task branches and workspaces, change requests.
- *LLM gateway*: codecs and provider adapters, embeddings, the token buckets of the rate limiter, the
  verification of a token before its revocation is looked up, usage reports.
- *Scheduler*: the arithmetic of calendars and time zones, the prompt and the agent of a task.

The map covers about a tenth of the lines of `src/`. Much of the rest has no protocol to model:
generated protobuf code, CRUD of the admin API and its two stores, adapters of the sandbox
providers, HTTP handlers that decode, check and call, the CLI and the web pages. Section 1 and
`PROJECT.json` name each of these parts.

## 7. Plan

Done: `ConversationTurns`, `ChatRunStore`, `RunController`, `RunSubscription`, `SandboxBinder`,
`SessionStorage`, `MemoryCapture`, `FeishuInbox`, `ScmBroker`, `Projects`, `TaskScheduler`,
`ModelRegistry`, `ModelCalls`, `TokenQuota`, and the proofs of the safety properties of all of them.

What is left, in this order:

1. Abstract specifications, and the proof that the modules implement them: for `MemoryCapture` a set of
   captured turns that Clear empties, for `FeishuInbox` a queue in which each event starts at most one run.
2. The deletion of a conversation beside its runs, and the composition of the controller with
   `MemoryCapture` (the capture that is scheduled after the commit).
3. Change requests, task branches and workspaces of projects.
4. `ChatRunLocks`: the row locks of the transactions of `chatrun` statement by statement,
   for lock-order deadlocks.
5. The conversation reducer against a reference definition over bounded event sequences.

The runs of new modules take two to three operations or workers, two jobs or items, and one
crash, as above; each gets a safety run and, where something must eventually happen, a
fair one.
