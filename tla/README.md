# Astra: models, checks and proofs

This directory holds TLA+ models of the parts of Astra whose correctness lies in
the order of steps: what several threads, a crash or a late answer can do to
them. Each module is translated from the Python source under `src/astra/`; line
numbers below are of those files.

How the code runs decides the grain of the models. Astra is one process. The web
server handles each request in a thread of its own; the scheduler, the health
probes, host commands and background processes have threads too. All persistent
state is one SQLite database behind `store.py`, whose calls take one lock each.
So **one store call, one RPC call, and one block under a component's lock is one
step**; everything between two such steps belongs to one of them, and other
threads run between the steps.

## 1. The system

| Component | State | Operations | Hard behaviour |
|---|---|---|---|
| Web3 transactions (`web3/transactions.py`) | `web3_transactions` rows, signing lock, emergency stop, mode | create, authorize, reject, sign_and_broadcast, confirm, recover, emergency stop/resume | a crash between send and record; a stop or an answer from another thread in the middle of signing; an RPC call that raises under the lock |
| Web3 policy (`web3/policy.py`) | mode, allow lists, limits | evaluate | the daily amount depends on other rows |
| Keystore, signer, RPC (`web3/keystore.py`, `signer.py`, `raw_tx.py`, `rpc.py`) | key file | sign, send, receipt | external |
| Host-fallback approvals (`terminal/approval.py`, `agent.py`, `web.py`, `ai/chat_pipeline.py`) | records, their order, the lock, transcript cards | request, attach, bind, decide, cancel, expire, prune, execute, resume | two answers at once, an answer racing the expiry, an executor that raises, a denial that resumes the chat under the lock |
| Workflow definitions (`workflows/engine.py`) | `workflow_definitions` | define, update, delete | probe of a name and write are apart; two algorithms must agree on what a cycle is |
| Workflow runs (`workflows/engine.py`) | `workflow_runs` | create_run, run, cancel_run, set_status | status is read and written in different calls; rows vanish during a run; one step of several fails |
| Scheduler (`workflows/scheduler.py`) | `schedules`, `last_handled`, the loop thread | add, set_enabled, delete, due, tick, fire, start, stop | two loops, an occurrence fired twice, a row that raises, deadlines that enter and leave the window |
| Shared health (`ai/shared_health.py`) | cached results, in-flight probes, waiters | run, invalidate | many callers, one probe; a probe that raises; a reset during a probe |
| Terminal sessions (`terminal/session.py`, `manager.py`) | sessions, processes, exit flags | exec, stop, close, probe, evict, reap | an exit seen by three threads, close during a start, eviction between lookup and use |
| Credential pools (`ai/credentials.py`) | per-key failures and cooldown | pick, report_success, report_failure | a late report about a key that changed state |
| Router (`ai/router.py`) | provider order, rows of keys and models, statistics | route_request, test_provider_model, reset, disable | failover; a Gateway that raises half-way; threads that share a pool |
| Gateway (`ai/gateway*.py`) | connections with key pools, routing state and its two tables | chat, stream, tests, supervise_task | a stream that breaks after it began; retries with keys that come back; cooldowns |
| Chat turn (`ai/chat_pipeline.py`, `agent_tool_loop.py`, `tools/registry.py`) | the turn's locals, execution history, operations in the activity log | run, tool calls, verification, correction, resume | failure at any point after there is an answer; corrections; operations that must end; a crash |
| Event bus (`core/events.py`) | event table, ring buffer, open operations | emit, history, since, clear, reconcile | a feed that reconnects, retention, operations a crash left open |
| Chat log (`chat_log.py`) | conversations, messages, the current one, pending turns | add_user, add_reply, new, switch, delete, clear, begin, end | the current conversation changes while the agent works; a retry of a running turn |
| Agent runtime and ptys (`runtime/*.py`) | state and its file, sessions, pty threads, descriptors | create, start, stop, reset, destroy, open, exec, close, install | threads that type into one shell; reader, reaper and close of one pty; reuse of descriptors; restart |
| Runtime files (`runtime/files.py`, `runtime/tools.py`) | workspace, staging directory | import, write, read, copy, move, remove, extract | no lock: system calls of two requests interleave; an archive that is bad half-way |
| Blobs, artifacts, attachments (`core/blob_store.py`, `artifacts.py`, `attachments.py`) | blob rows or memory, budget | append, put, read, evict | a store that fails once; pages of a text that grows |
| Browser sessions (`browser/*.py`) | session table | open, use, close idle | none that can be reached (section 7) |
| Task engine (`core/tasks.py`) | tasks | create, list | execution, claim and cancel have no caller |
| Store, migrations (`store.py`, `core/store_migrations.py`) | the database | every call | a migration cut short |
| Images (`ai/image_router.py`) | none | route | raises before the first call (section 7) |
| Memory, research, agents, classification, documents, adapters, catalogue, user interface, scripts | — | — | text, tables, one SQL statement or one HTTP request each |

`PROJECT.json` lists every component with its files, and under `hazards` every
place where the order of steps, a failure or a boundary can do harm.

Interactions that matter: a chat turn asks for an approval and ends; the answer
comes in another HTTP thread, which executes, resumes the operation of that turn
and writes the transcript. The scheduler starts workflow runs in threads of
their own; the runs call tools. Provider and Gateway both test models through
the shared health coordinator. A turn works through the router or the Gateway,
its tools run in terminal sessions or the runtime, what they print goes to blobs
and events, which the page follows over server-sent events while the reply is
written into the conversation it was asked in. Bootstrap recovers transactions and then starts
the web server and the scheduler.

What makes each part correct, in one line:

- Web3: one transaction is one raw on the network, whatever crashes and repeats;
  no send without the policy or the operator; final statuses are true.
- Approvals: one answer per request, one start per allowed request, nothing runs
  that was not allowed; the transcript does not lie.
- Workflows: what is stored can be ordered; tools run behind their dependencies;
  the outcome is honest; a cancelled run stops.
- Scheduler: one occurrence, one run; what is due fires (but for one kind of bad
  row that stops every schedule, section 7).
- Shared health: one probe at a time; everyone gets an answer.
- Gateway and turn: one answer from one source, one end; nothing that was
  already answered is lost; only what was verified is called complete.
- Conversations and streams: a reply stays where it was asked for; a reader gets
  each item once, in order, without gaps, and is told the truth about the end.
- Runtime: the exit status is that of the command; a descriptor belongs to one
  terminal; what ended stays ended; a file operation did what it answers.
- Routing: every usable candidate is tried before a request fails; a rejected key
  stays out; what is noted of a key is what was called with it.

## 2. Plan

Order: what moves money or runs commands first, then what runs unattended, then
what the user sees.

1. `Web3Transactions` with `Web3Policy` — done, with proofs.
2. `ApprovalProtocol` (abstract) and `HostApproval` (the manager with its
   callers), refinement — done, with proofs.
3. `WorkflowGraph`, `WorkflowDefinitions`, `WorkflowRuns`, `Scheduler` — done, with
   proofs.
4. `SharedHealth`, `ProviderRouting` — done, with proofs.
5. `TerminalSessions` — done, with proofs.
6. `OneAnswer` (abstract) with two implementations, `GatewayCalls` and `ChatTurn`
   — done, with proofs of both refinements and of the safety of each.
7. `Conversations`, `OutputStreams` — done, with proofs.
8. `AgentRuntime`, `RuntimeFiles` — done, with proofs.
9. Left: the rate limits of the tool registry, the scores of the router and the
   Gateway, the scheduler together with the runs it starts, and the reductions of
   `log_model.js` and `workflow_model.js` in the user interface.

Abstract specifications: `ApprovalProtocol` and `OneAnswer`, both refined by a
detailed module in a run. Worth stating next: "a process is running or has
exited, once", for terminal sessions and pseudo terminals alike.

## 3. Modules

| Module | Models |
|---|---|
| `Web3Policy` | the verdict of `PolicyEngine.evaluate` |
| `Web3Transactions` | `TransactionManager`, its callers in `web.py` and `web3/tools.py`, the chain, crash and start-up |
| `Web3Transactions_proof` | its theorems |
| `ApprovalProtocol` | what one approval promises: asked, answered once, run at most once |
| `HostApproval` | `ApprovalManager` with the chat turn, the HTTP handlers, executor, resume and transcript |
| `HostApproval_proof` | its theorems and the refinement |
| `WorkflowGraph` | `check_cycles` and `_topo`, as functions |
| `WorkflowDefinitions` | `normalize_steps`, `define`, `update_definition`, `delete_definition` |
| `WorkflowRuns` | `create_run`, `run`, `cancel_run`, `set_status`, `_condition_ok` |
| `Scheduler` | `Scheduler` and its loop |
| `Workflows_proof` | the theorems about these four |
| `SharedHealth` | `SharedHealthCoordinator` |
| `TerminalSessions` | `TerminalManager`, `TerminalSession`, `ProcessRecord` and the tools that call them |
| `TerminalSessions_proof` | its theorems |
| `ProviderRouting` | `AstraRouter` with `CredentialPool`, the answers of `BaseProvider.chat` and the Gateway's recovery and supervision |
| `OneAnswer` | what an operation promises: one voice, one end, nothing after it |
| `GatewayCalls` | the connections of the Gateway: `chat`, `stream`, tests, key pools, routing state |
| `GatewayTests` | these calls and `SharedHealth`, the coordinator of their tests, together |
| `GatewayCalls_proof` | the theorems about both and the refinement, and those about `ProviderRouting` |
| `ChatTurn` | `ChatPipeline.run` and `resume_host_fallback`, `AgentToolLoop`, `ToolRegistry.execute`, supervision, `reconcile_stale_operations` |
| `TurnsAndStreams` | `ChatTurn` and `OutputStreams` together |
| `ChatTurn_proof` | the theorems about both and about `Conversations`, and the refinement |
| `Conversations` | `ChatLog` and the chat handlers of `web.py` |
| `OutputStreams` | `BlobStore`, execution and terminal history, pty buffer, event table, with the pages and feeds that read them |
| `AgentRuntime` | `AgentRuntime`, `PtyProcess`, `WslPtyProcess` and its bridge, the backends, package installs |
| `RuntimeFiles` | `runtime/files.py`, imports and the staging directory |
| `RuntimeWithFiles` | the two together |
| `RuntimeFilesInv` | the inductive invariants of the files |
| `AgentRuntime_proof` | the theorems about terminals and commands |
| `RuntimeFiles_proof` | the theorems about the files |
| `MC*` | instances for TLC; those of several modules run one of them per behaviour |

### Web3Transactions

`row[x]` is the row of a transaction: its status, the raw sealed in it, the
verdict of PREPARE time. `lock`, `pc`, `cur`, `local` are the signing lock and the
threads in `sign_and_broadcast`; `sent` and `mined` are the network. `SignEnter` takes
the lock with the reads up to the first RPC call; `Check`, `Derive`, `Mark`, `Seal`,
`MarkSigned`, `Send`, `RecordBroadcast` are its store and RPC calls in order, each of
which may raise. `confirm()` takes no lock, so its three calls are steps with
other threads between them: `Poll` reads the row, `Ask` asks the chain for the
receipt of the hash that was read, as often as the caller likes, and
`WriteOutcome` writes the outcome by the row's id, whatever the row says by then. `Crash` may come
at any step and keeps rows and network; `RecoverNext` is the loop of `recover()`.
Two raws per transaction are enough to tell a second signing from a first one:
a signing chooses any raw, so a re-signing that yields other bytes is possible.
The branch of the check that finds the transaction on chain is in the model as
it is in the code, but no status that reaches it has a sealed raw.

### HostApproval

`status`, `kept`, `order` are the records; `late` are requests past their
`expires_at`; `chat` is the transcript, whose rows carry a card and the text
written back into it; `lock` is the manager's lock as far as it is held across
calls (a denial resumes the conversation inside it). Threads are chat turns and
deciders. A decider's `Claim` is the block of `decide()` that turns a pending
request into an approved one; `Execute`/`Executed` are `_execute` with an executor that
may raise, fail or succeed; `Persist`/`Bind` the reply and its binding; `Resume`
the continued turn. `Wired` are the requests that find an executor: without one
`NoExecutor` fails the request. `ApprovalProtocol` is instantiated with the statuses
mapped one to one and `ran` as the count of starts.

### WorkflowDefinitions and WorkflowRuns

A definition is a function from steps to the steps they depend on. `Submit`
normalizes, `Probe` looks for a free name, `Write` inserts or updates, `Return` ends a
call that was refused or failed; `DeleteDefinition` comes at any time. The two
algorithms stand in `WorkflowGraph`. `CheckCycles` is the depth-first search with its
grey and black sets: what is known goes through `VisitEach` from one step to the
next, and a visit may go as many calls deep as there are steps (`Visits`), since one
that went deeper has met a grey step. `Topo` are the passes of `_topo`.

In `WorkflowRuns` every store call of `run()` is a step: `Load` with its upsert,
`CheckQueued` and `MarkRunning`, the read of the status before each step (`NextStep`, which may
find the run `Interrupted`), the tool call and the save of its result (`StartStep`,
`EndStep`), the final read (`ReadFinal`), and the final write with the announcement
(`WriteFinal`). `CancelRead`/`CancelWrite` are the two calls of `cancel_run`. Nothing in the
application pauses or resumes a run; `Pause` and `Resume` stand for callers of the
engine's public `set_status` and `run(run_id=...)`, which the tests use. That a run
can order all its steps is not assumed: `RunsAssumption` says of them what `define()` has
checked, that they are distinct and pass `CheckCycles`.

### Scheduler

A row has a plan (oneshot, interval, daily, weekly or deadline), its next time,
`last` and whether it is enabled; calendar arithmetic is a clock of a few ticks with
a period for day and week. `due()` reads all rows at once, `Fire` writes `next_run` and
then starts the thread (`Launch`), so a crash can come between. `Raises` is the
`int()` of `due()` that no `try` encloses: an enabled deadline row whose window is no
number (`BadWindow`, which `add()` accepts) makes every tick fire nothing. The source of deadlines is injected
(`deadline_callback`); it is modelled by a set that gains and loses members (`Track`).
`StartLoop` and `Stop` are the two calls of the daemon; `Add`, `SetEnabled` and
`DeleteSchedule` are the requests that edit the table.

### SharedHealth

One identity; a probe is known by its number. Each block under the coordinator's lock
is one action. `window` is the set of results younger than the TTL, which `Expire`
shrinks at any moment. The upsert of a result may fail, as the code ignores it; a
failing DELETE in `invalidate()` is not modelled.

### TerminalSessions

`table` is `_sessions`; `active`, `records` and `turn` are `_active`, `_processes` and
`_exec_lock` of a session; `status` and `emitted` are those of a `ProcessRecord`. `alive`
is what the operating system runs. A thread is in one tool call: `inst` is the
session that `get()` gave it, `proc` the process it started, `doomed`, `todo` and `sweep`
what its loops still go through. `Get` and `Create` are the manager's block, with the
eviction of the least recently used sessions that can be reaped; what it evicts
is closed after the lock is left (`CloseSession`, `Kill`), as are the sessions of
`close`, `close_all` and `close_idle`. Starting a process (`Spawn`) and telling the session
of it (`Publish`) are two steps, since no lock is held across them. A refresh reads
the list of records under the session's lock and claims each exit under the
record's (`ClaimExit`). `Age` lets a session become idle, but not while a thread is
between two statements, since the code waits half an hour for it. Which of the
reapable sessions is the oldest is left open: any of them may be evicted. The
working directory, output buffers, probes and the history are left out. Callers
are the tools, the executor of approved commands (`bootstrap.py:312`), the chat
that ends (`_close_session`) and shutdown (`web_fastapi.py:313`); `close_idle` has no
caller in the application, only in its tests.

### ProviderRouting

`healthy`, `cooling` are the keys of the pools, `bad` the rows of `_key_model` that say
"failed" and are younger than `KEY_MODEL_TTL_S`, `cold` the targets the Gateway has cooled
down. The module extends `GatewayCalls`, whose
keys, key health and threads it shares and whose own calls rest meanwhile. A thread
serves requests or test buttons and is at a `stage` of its route; `ranked` is what `_candidates` and the
policy left, `tried`, `current` and `open` are the locals `tried`, `current` and `gateway_ok` of
`_route_via_gateway`, `pin` and `last` the two thread-locals of the pool. `Select` is the
choice of the next target, by the Gateway or, once it has raised (`GatewayRaises`),
in plain order. `PickKey`, `Answer`, `Record` are one round of `_attempt`: the key, the call
with its report to the pool, the row with the decision to retry. `Judge` is the
report of success and the supervision, which may send the text back to the same
target (again through `_attempt`) or refuse it; `Failed` is the report of
`recover_execution_target`. `BeginKeyTest` and `Share` are the two ends of
`test_provider_model` around its route; `Reuse` is the test that `SharedHealth` answers
without a call. Scores, the last successful target and the least recently used
key choose among candidates, so the choice is open. The text of a test is never
judged, because a reply is never empty (`base.py:246`) and a test has no contract. What
an answer may be is five classes: success, a rejected key (401, 403), a blocked
one (408, 429, 5xx, network), an error of the request or a socket timeout, which
say nothing of the key, and an exception that is no provider error, which is
not recorded. Left out: counters and latencies, streaming, image requests, the
loop without a Gateway, the set `_down` (section 7) and changes of the keys.

### OneAnswer and GatewayCalls

`OneAnswer` is what a caller is promised: an operation begins, gets the voice of
at most one source, ends once, returns; a crash leaves nothing of it.

In `GatewayCalls`, `healthy` and `cooling` are the keys of all pools, `cold` the targets in
cooldown, which `_persist_health` writes and a new process reads (`Restart` keeps
them and forgets the rest). `call[t]` is the call of a thread: routed over the ranked
list (`Ask`), for a model the user named (`AskNamed`), or a test; whole or streamed.
`NextTarget` is the head of the loop over targets, `Pick` that of the loop over keys.
`Rejected`, `Refused`, `Blocked` and `Answered` are the classes of what a connection says,
each with its report to the pool and the decision to retry; a stream goes through
`Chunk`, `StreamEnds` and `StreamBreaks`. `Served`, `Report`, `Fault` and `Return` note the
outcome and end the operation. The targets a call has handed text of are `heard`;
for `OneAnswer` they are the voice of a routed call. A call for a named model has
none there, because its stream goes on to the next connection after it has handed
on chunks (section 7). A score chooses among targets that are all possible
here.

### ChatTurn

`turn[a]` is a turn of `ChatPipeline.run` or of `resume_host_fallback`: where it is, whether
Gateway and tools are there (`wired`), who made its draft (`from`, through which
`port`), `steps` of the tool loop, `runs` of a tool, `fixes` made, and the draft by its
number: 0 the first answer, n the n-th correction. `judged` is the draft the verifier
called complete, `said` the one that is given. `log` holds the operations the turn
has open in the activity log. `Understand` and `Dispatch` are the analysis and the
choice of a path; `Route`, `RouteImage`, `Loop*` and `Tool*` the path; `Check`, `Judge`, `Fix` the
supervision with its rounds; `Settle` and `Reply` the end. `Breaks`, `VerifyBreaks` and
`ResumeBreaks` are the `except` blocks around them: any call inside may raise. `Boot` is
a crash together with `reconcile_stale_operations` of the next start. `history` says
that the conversation has an execution from an earlier turn, which the evidence
of a later one is read from; `Forget` clears it. The confirmation gate and the
events of `ToolRegistry.call` are in `ToolRefused`, `ToolStarts`, `ToolEnds` and `ToolAgain`.

### Conversations

`chats` is the table in the order of its last touch, `current` the row of the state
table, `ids` what AUTOINCREMENT gives next, `running` the pending tokens. A thread is
in a request; one action is one store call. `CheckDuplicate`,
`Save`, `Begin`, `Answer` or `Fails`, and `End` are the two-step send of `web.py`: the duplicate is judged, the question written
(judged again), the turn registered, the reply written to the chat the request
was pinned to. `ResumeIn` and `ResumeOpen` are the two ways in of `/api/chat/resume`: an
approval that is kept brings its own chat; any other id (unknown, pruned, or from
before a restart) is answered in the chat that is open now. `Make`, `Set`, `Prune`, `Succeed` and `Refill` are the calls of creating,
opening, deleting and clearing. `Age` is the 15 minutes after which a pending turn
is taken for dead, `Restart` a new process, whose `_bootstrap` makes chat 1 if it is
gone. `asked` is kept for the properties: pairs of a question and the chat it was
asked in; a turn and its reply carry such a pair (`of`), with question 0 for an
id that was nobody's question.

### OutputStreams

One channel per behaviour: an execution's output, a web page's content, the
execution log, the terminal history, the live screen of a pty, the event feed.
Items are numbers; `kept` is the window retention has left, `ends` where entries of
the log end, `store` whether the blob store works, `source` and `hand` the writer and
what its reader thread has not absorbed yet, `client` the reader with its offset, the
page it asked for and what it got, `told` how much was written when it was told that
there is no more, and `short` whether that page was of the capture, which the
server falls back to when a read of the blob fails. `LoadHistory`, `OpenFeed`, `Deliver` and `Break` are the
page's use of `/api/activity` and the event stream with `Last-Event-ID`; `OpenScreen`, `Poll`
and `Settle` the terminal's; `Takes` and `Lines` the paging of blobs and of log lines.

### AgentRuntime

`host` is the backend (proot or WSL2) and what its probe misses, `runtime` the state
and its file, `sessions` the table, `shell` the terminals with reader, reaper, and the
bridge of WSL2, `open` the descriptors and whose they are. `command` holds for each
command what it really exited with and what the caller was told; `guest` is what
package installation sees. An action is a block under the manager's or the
terminal's lock, or one system call outside: `Spawn`/`Register`, `Type`/`Send`, `Poll`/`Judge`,
`Pop`/`Shut`/`Grace`/`Down`/`Release`. `Read` and `Reap` are the two threads of a terminal,
`ShellRuns`, `ShellFinishes`, `ShellSwallows` and `ShellExits` what the shell does with what was
typed. A closed descriptor number is given to the next terminal. Installs are
requests of their own (`Detect`, `Bootstrap`, `Install`, `Verify`) and are not mixed with
shells, with which they share nothing but the backend.

### RuntimeFiles

`tree` maps paths of at most two names to what stands there, `node` holds the
contents of inodes, `uploads` the staging directory, `archive` what the archive of the
workspace holds, `req` the requests. `os`, `shutil`, `zipfile` and `tarfile` are taken apart into the system
calls another request can come between: opening truncates, bytes follow, a rename
is atomic, a recursive removal is not. Contents are told apart by who wrote them
and whether all of it is there. A request is `clean` as long as no other request
works on a path above or below its own, if those at work when it began were
clean too: `DoesWhatItAnswers` speaks about clean ones, since nobody promises more
about two writers of one file. The second half is about a writer whose open file is
renamed: it goes on writing under a path it never named, and a third request that
starts there once the rename has ended meets no one who names its path.

An archive is looked at as a whole before anything is written (`Refused`), and stays
open until its last member, so that a move of its name does not matter and a write
into it does (`src`, `Copy`). A member that is a link takes the place of what stood there,
in two system calls (`Member`, `MakeLink`); its target is judged by its text, so links
that each stay inside may together lead out. Where a link leads is therefore left
open: a request whose next path is over one (`Astray`) takes a step of `Strays`, which
may fail, go on with nothing done, or make, empty, write, replace or remove any file
or empty directory of the tree that the call could, or one outside, which has no
name here (the staging directory is outside as well). Whoever is at work then is no
longer `clean`. Nothing is moved in from outside, and a directory inside a
directory that is copied counts as an entry that cannot be copied.

### Composed instances

`MCWorkflow`, `GatewayTests`, `TurnsAndStreams` and `RuntimeWithFiles` hold modules that
share no state, as instances or, so that the theorems are about the very
definitions the run checks, by extending them (`MCWorkflow`). A
behaviour is one of the component that `part` names at the start, so that the states
add up and do not multiply. What these components do to each other is in the
modules: a chat turn sees a Gateway that may be absent, raise or answer; a test sees
a shared result or none; a scheduler sees that a workflow was started.

## 4. Runs

| Run | Instance | States | Shows |
|---|---|---|---|
| `web3` | 1 transaction, 2 threads and boot, 2 raws, 2 crashes | 15 thousand | one raw per transaction, the operator is asked, final statuses are those of the chain and stay, nobody is stuck |
| `approval` | 2 requests (one with an executor), 1 turn, 2 deciders, no room for closed records | 482 thousand | one start per allowed request, records and transcript agree, open requests stay, `ApprovalProtocol`, answers end |
| `routing` | 1 provider with 2 keys and 2 models, 1 request thread, 1 tester, 1 retry, 1 correction | 6.1 million | rejected keys, rows of keys, exhausted routes |
| `workflow` | 1 run of 3 steps, one conditional, 3 calls; or every graph over 3 steps beside a client that competes for the name; or 2 schedules, 1 crash, 2 starters, time 0..3 | 422 thousand | honest outcomes, cancellation, `check_cycles` against `_topo`, once per occurrence, what is due fires unless a bad row stands in the way |
| `gateway` | 2 connections (one of Bedrock, without retries), 2 keys and 1, 1 model, 1 request thread, 1 tester, 1 retry; or 3 callers of one probe, 4 resets | 437 thousand | `OneAnswer`, rejected keys, one probe, everyone returns |
| `terminal` | room for 1 session; 2 keys with 2 sessions and 1 process, or 1 session and 2 processes; 2 threads | 372 thousand | completion once, sessions and processes, the sweep, control returns |
| `chat` | 1 turn after the other, 2 providers, 2 corrections, 3 steps, 2 tries of a tool; or a stream of 6 items, windows of 2 to 4, 2 breaks; or 2 chat threads, 1 text, room for 1 chat and 2 messages, 2 ids of each | 531 thousand | `OneAnswer`, complete means verified, a draft is not lost, no operation stays open; readers get all, once, in order, are told the truth about the end, and catch up; replies and pending marks stay where they belong |
| `runtime` | 2 threads, 2 requests of 8 kinds, 1 session, 2 shells, 2 commands, 1 restart, both backends; or 2 names, 2 requests of 9 kinds, archives of up to 3 members where 2 are allowed, links among them | 3.6 million | exit statuses, states, descriptors; file operations and archives |
| `web3_recovery`, `workflow_cancel`, `scheduler_bad_row`, `terminal_orphan` | as above, some smaller | — | the code does something else than its text says (section 7) |

Why the bounds are enough: transactions, approval requests, schedules and health
identities share only their lock (and the daily amount), so one or two show
every interference; two threads plus one in the background give every pairwise
race; two crashes allow a crash during the recovery of a crash. Three steps are
the least with a chain, a diamond's half and a cycle that is not a pair.
`MaxRecords = 0` makes every request meet the pruning (the code keeps one record
more than the number says). Time runs past the second occurrence of every plan, a
day being 2 ticks and a week 3.
`MaxSessions = 1` with two keys makes every new session evict the other one, and two
session objects allow one to be closed and replaced under the same key; objects
and processes are never reused, so a run ends when they are used up. Two
processes are needed where one command starts while another ends, and there one
session is enough. Routes meet in the pool and the tables of health
only, so one request beside one test shows what each does to the other's key;
two keys and two models let both the key and the target be changed, and one
retry and one correction are the least that come back to `PickKey`. The same holds of
the Gateway, where the second connection is the one that does not retry. Turns
of a chat share nothing but the log and the history, so one asker that asks
again and again is enough; two corrections are the least where the second one
may be worse than the first. A stream of six items passes each window at least
once and each page limit twice. Room for one chat makes every new chat
drop another one, and two ids let a chat be deleted and replaced; the theorems
about chats hold for any number of ids. Two
shells are the least where a descriptor is reused; the session name is shared by
both, which is the harder case. An archive of three members is refused for its
number, one of two has something good in front of something bad, or a link that the
next member goes over. Members have one name and the workspace has two levels, the
least where a path can have a link on its way. The theorems cover any number of
members, names and requests, with two levels.

`CHECK_DEADLOCK FALSE` is set where the system may rest: callers make a bounded
number of calls, the clock stops at its bound, all requests are answered, all
session objects are used up, the stream is at its end.
In `web3` and `routing` deadlock is checked: the operator can always change the mode,
and a request can always be made.

Fairness: threads that are in the middle of a call go on (weak fairness on each
thread's own steps, since tools, RPC calls, model calls, executors and probes have
timeouts and return or raise). A thread that waits for a mutex other threads keep
taking gets it at some time (strong fairness on entering it). Nobody is obliged to
call, answer, mine, expire, crash or restart. `NobodyIsStuck` is about signers and
`recover()`; a `confirm()` without a timeout polls without bound, and is under no
obligation to end. The scheduler's loop is a thread that
sleeps and wakes, so its steps and the clock are fair. In `OutputStreams` the reader
thread of a terminal absorbs what it has read (`Absorb`), and a client that stays
connected goes on asking (`Read`, `Follow`); it may break off twice. In
`TerminalSessions` neither the end of a command nor its timeout is fair: control must
return without them. `AgentRuntime`, `RuntimeFiles`, `Conversations` and `ProviderRouting` are
checked for safety only and state no fairness.

## 5. Proofs

All theorems hold for any finite or infinite sets of transactions, threads,
requests and callers and any bounds; the assumptions are those named in the
modules (the markers such as `None` are no members of the sets, bounds are
naturals, no thread both makes requests and tests the Gateway, the steps of a
definition are distinct and those of a run pass `check_cycles`, a period of the
scheduler is a positive number).

- `Web3Transactions_proof`. `NeverSendTwice` is not inductive. `SigningInv` is:
  whoever is inside the block owns the lock, its transaction is unsent until the
  send, from the seal on its raw is the sealed one, and a transaction that was
  sent is past every status from which signing starts and has the sent raw
  sealed. A crash keeps it because the seal is written before the send.
  `ApprovalInv` adds that a row that was parked for the operator leaves for
  AUTHORIZED only with its approval recorded, which gives `ApprovalGate`.
  `OutcomeInv` is about what a row says of the chain: what is mined was sent, a row
  has a hash only after a send, and a thread inside the block works on a row
  that has neither a hash nor a final status (`FreshInBlock`). `PollInv` says what a poll that read the row long ago still has: a transaction
  whose row carries the hash it asks for, and the outcome that the chain has for
  that hash. So the poll, which takes no lock, and the signer, which read the row earlier,
  never write the same row, and what the poll writes late is what any other poll would
  write: `OutcomeIsOnChain` is part of it and `FinalStatusesStay` a step of it.
- `HostApproval_proof`. `ClaimInv` says that the thread that executes is alone with
  an approved request and has not started the command; `ExactlyOnce` and
  `OnlyAllowedRun` follow. `Implementation` shows that each action is a step or a
  stutter of `ApprovalProtocol`, under the same invariant. `IndexInv` is `IndexAgrees`
  with "what is listed was asked"; that a pruning pass keeps every open request
  (`OpenIsKept`) needs the first place where it stops, which is the smallest of a
  set of naturals (`Smallest`). `CardsInv` extends `CardsAreTrue` to the text a thread
  has yet to persist and to the bindings: a message that is bound, or about
  to be, is a message of that request. The two give `RecordsAgree`.
- `GatewayCalls_proof`. A call is `Sound` when it has a target while it works, a key of
  that connection while it uses one, and, if it is routed, was heard from no
  target but the present one. `GatewayInv` says that all calls are; each of the
  actions keeps the calls of its thread sound and makes of it one step of `OneAnswer`
  or none (`Told`), and the pool changes by one of a few kinds (`StepOK`). The
  soundness is what refinement needs: `NextTarget` moves on only when nothing was
  heard. `RejectedStaysOut` is a property of single steps: only the end of a test of
  the key and a new process add to `healthy`. Of `SharedHealth`, the coordinator of
  those tests (an instance in `GatewayTests`), there is `ProbeInv`: the probe in flight is
  the registered one and the last begun, and while one is in flight nothing is
  young; `OneProbe` follows.
  Of `ProviderRouting`, `RoutingTypeOK` is inductive: it holds that an idle thread keeps
  nothing of its last route and that, from the call to the record, the thread's
  last key is the key of the call. A step changes the variables of one caller
  (`OneCaller`), and only `Answer` can bring a key back, only a thread's own `Record`
  and `Select` end an attempt and a route (`OwnStep`); `RevokedStaysOut`,
  `RowsNameTheirKey` and `FailsWhenExhausted` follow as properties of single steps.
- `TerminalSessions_proof`. `TableInv`: every session is in one place, in the table, in
  the hand of one thread that closes it, or closed. `OwnInv`: a process belongs to
  one thread until it is in a record or over, nothing has been counted of it
  before, and what has been counted since agrees with its status and flag
  (`Counted`), from which `EndsOnce`. `TurnInv`: the thread that runs a foreground command
  has the turn of its session, and the session's `_active` is that thread's process
  or nothing, so that a command never overwrites another one's; without it a
  live process could be lost (`LiveIsKnown`). `SweepInv` bridges the three steps of the
  sweep: what `Check` found of a session (`Settled`) still holds when `Reap` takes it, for
  a thread that is about to register a process there has made the session used
  again, and a session is not unused (`Age`) while such a thread is under way. The
  four give `SessionsAreSound` and `SweepSparesServers`.
- `ChatTurn_proof`. `ChatInv` says what a turn holds at each place of the pipeline: a
  correction has a draft to correct, a verdict is about the draft that is there
  and is not blank, only the end has a terminal event. `CompleteIsVerified` and
  `GoodAnswerIsKept` are the parts of it that concern the reply. Each action again
  makes one step of `OneAnswer` (`Told`), and so does the crash. `LogInv` adds the event
  table: until a root of the request has ended there is no continuation, and
  the root of the turn is open for as long as the turn is worked on. An end of
  the turn, or the start after a crash, therefore ends it (`NothingRunsForever`).
  Of `OutputStreams` there is `ReaderInv`, one clause for each way to read: a pager of a blob
  holds exactly the items up to its offset (`Paged`); a screen and a feed hold, in
  order, everything up to the place the next request will name, but for what
  retention dropped or what was there before a feed without an id began
  (`Screened`, `Fed`). That place is not always `at`: a feed that was cut off in the
  middle of a batch goes on from the last id it received (`Cursor`). `Delivers` follows.
  A pager that is told that there is no more has everything up to the end of the text
  it was told of (`Complete`), unless that page was of the capture. The pages of a blob are claimed only while the store has not failed, for a blob
  that comes back in memory begins empty.
  Of `Conversations` there is `TurnInv`: from its question on a thread is pinned to a pair of
  a question and the chat it was asked in, or of no question and the chat that was open
  (`Pinned`), its token names that chat, and every message stands where its pair
  says. `TypingIsTrue` and `RepliesStayInTheirChat` follow.
  `IdsInv`: every chat that is listed, current, in the hand of a thread or asked in
  was given out, and a question asked in a chat is not older than the chat. With
  the place of every message this is `RepliesStayPut`.
- `Workflows_proof` is about the two algorithms first. Both are recursive functions, so
  each is shown to have values at all (`Rounds`: a function of the rounds exists, and what
  `CHOOSE` takes agrees with it round by round), and induction goes over the set of
  rounds for which a fact holds (`UpTo`, from the smallest number that is missing).
  `TopoInOrder`: a pass appends a step only behind what it waits for. `CheckAgreesWithOrder`
  closes a circle of three implications: what the search has coloured black
  waits for black steps only and has no knot in it (`Sane`), so an accepted graph has
  none; where there is none, some step that is missing waits for placed ones
  only and each pass places it or another, so that as many passes as steps
  complete the order (`TopoCompletes`); and a complete order ranks the steps, so that
  the search, which goes down in rank, never meets its own path (`RankedIsAccepted`).
  `DefinitionsInv` adds to the types that a request past its check holds a graph the
  check accepted, and with the circle gives `AcceptsExactly`.
  `RunsInv` says of a run that what a step waits for has a result or stands in front of
  it (`TodoInOrder`), that each step has been looked at or will be (`Covered`), why a thread
  may leave some out (`LeftOut`), that after a call for a cancelled run it ends
  (`LastCall`), and that the stored outcome agrees with the stored results
  (`RowIsHonest`); `RunsAreHonest` follows. `SchedulerInv` holds one loop that is alive (`OneLoop`), what it
  has in its queue against the rows (`Queued`, `Firing`), which edits may change under
  it, and of each row that its next time is later than its starts (`Waits`), that
  those differ (`Distinct`), that the record of deadlines is that of the last start, or
  of one that is about to be made (`Recorded`), and differs from it otherwise (`Changed`);
  `FiresOnce` follows.
- `AgentRuntime_proof` has two invariants. `StateInv` holds the types, what a thread
  has in hand at each place (`Fits`), and of the terminals that they are made in
  order and that each descriptor and its terminal name each other, before and
  after `kill()` (`TerminalInv`); `DescriptorsAreOwned`, `StatusIsFinal` and `RunningWasStarted`
  follow. `AnswersAreTrue` relates a command to what its caller reads from an output
  that others share. `AnswerInv` follows the command: it is in one place only, in
  the hand of the thread that is about to send it, in the input of one shell, or
  run by one shell, and its truth says in which (`BusyInv`); in the output of a terminal,
  read and unread, each marker is followed by the exit code of its own command
  (`StreamInv`); what was answered is that code (`ToldInv`). The handlers are first shown to
  be one of seven steps, `Quiet`, `Type`, `Send`, `Run`, `Finish`, `Swallow` and `Tell`, and the
  invariant is proved for those. It holds while no reader has read from a
  descriptor that is not its own any more, which the code does not exclude
  (section 7, `ReadsOnlyItsOwn`).
- `RuntimeFiles_proof` has two invariants, both in `RuntimeFilesInv`. `FilesInv` is about the files of the guest: directories, stagings and open requests name
  inodes that exist, and whoever has bytes in an inode has been made and, when it is an
  extraction, has seen that the archive is good (`Wrote`); so has whoever makes a link,
  hence where there is one there is no bad archive. An archive is read once
  and what the look at its members said holds for good (`Checked`). Other requests copy
  and empty inodes whose names move under them, but only pass on bytes that are
  there, so that `EscapeLeavesNothing` needs no assumption on who else is at work. Nor does
  it need to know where links lead.

  `DoesWhatItAnswers` is about one request among any number, and rests on `CalmInv`.
  A request that is clean and at work is
  `Calm`. Nobody else works on its paths (`AloneInv`), but that is not enough: an inode
  stays open when its name moves, so nobody may have open what stands below those
  paths either (`HeldInv`), and an inode must have one name, in the tree or in the
  staging directory, for a write elsewhere to be a write to something else (`OneName`).
  What is in a directory has one (`WellFormed`), so that making a file makes at most
  the directory it is in. `Sound` says how far a calm request has got: each file is
  copied or still in the list of what is left to copy, each member up to the n-th is
  there unless a later one has its name, an upload is in the staging directory whole,
  what a rename is to move stands where it was. A step over a link leaves nobody calm
  and the tree well formed, which is all `CalmInv` asks of it (`StraysTo`). The proof has
  three parts. Any
  step of a request changes only paths around its own and inodes it can reach
  (`Effect`), hence leaves what a calm other one relies on as it was (`Undisturbed`). Its
  own steps keep it `Sound`, kind by kind. And when it ends (`LastSteps`), nothing is left
  to do, so that `Sound` is `Did`. An early form of the invariant was not inductive, and
  that was a flaw of the model: for a request that began beside two that had met, the
  property holds of two requests and fails of three (see `clean` in section 3).

Only model-checked: liveness (fairness and ENABLED are outside the prover's
reach). Every safety property and action property that a passing run checks is
stated by a theorem.
Each module without proofs still states `TypeOK`; adding it to the INVARIANTS of its
cfg (through its instance, where a run composes several) checks it.

## 6. Not modelled

Cryptography, HTTP, wire formats, prompts, operating-system calls and pages: their
effect on the models is a choice of result. SQLite itself: a call is one atomic
step, durable when it returns. Approvals do not survive a restart, so there is no
crash in `HostApproval`. Further:

- Keystore, signer, raw transactions and RPC: cryptography and one HTTP call each;
  what they return or raise is in `Web3Transactions`.
- Store and migrations: one transaction of SQLite per call; the migrations run
  before anything else does.
- Browser sessions: cannot be reached in the application (section 7).
- Task engine: tasks are created and listed; execution, claiming and cancelling
  have no caller.
- Images: a request for an image raises before its first call (section 7).
- Memory, research, specialised agents, classification, built-in tools, document
  generation, catalogue and JSON extraction: a statement of SQL, an HTTP request
  or a function of text, with nothing that another thread or a crash could change.
- Provider adapters: wire formats; their classes of answers are in
  `ProviderRouting` and `GatewayCalls`.
- User interface and scripts: presentation and start-up. What the page does with
  offsets and event ids is in `OutputStreams`.
- Of modelled components: scores and statistics of models, rate limits of tools,
  calendar arithmetic beyond a small clock, resizing of terminals, search and
  export of chats, in-memory subscribers of events.

## 7. Where the code departs from its text

Runs with a counterexample:

- `recover()` goes through `sign_and_broadcast`, whose status guard raises before the
  chain is asked (`web3_recovery`).
- A cancellation between the check of the queued status and the write of
  "running" is lost (`workflow_cancel`).
- An enabled deadline row whose window is no number stops every schedule: `due()`
  raises in each tick and the loop swallows it (`scheduler_bad_row`). The passing run
  checks what is left of the promise, that what is due does not stay due while
  there is no such row.
- A session that is closed or evicted between the start of a background process
  and its registration leaves the process running, where nothing can find it
  (`terminal_orphan`).

Seen in the models and not kept as runs: `emergency_stop()` takes no lock and
signing reads the flag once, so what is past the read is still sent; a turn that
asked for nothing attaches itself to another turn's open approval; `stop` of a process that has
ended emits `terminal.stopped` after its completion event, and `close` marks the
event as emitted and emits nothing; the daily Web3 amount counts only
CONFIRMED rows, so two sends on their way may exceed it; a second answer to a
running approval takes over the message binding, and the first card stays
pending; an open request at the front of the order ends each pruning pass, so
closed records pile up behind it; two definitions of one name that probe together
end in an IntegrityError; `cancel_run` can turn a run that completed in between
into a cancelled one; a resumed run starts from its first step again; when one of
two handled deadlines passes, the remaining one fires again; a waiter that times
out may take a result that an earlier probe left behind; a run that reset all
health may be answered by a probe from before the reset (`invalidate()` leaves the
one in flight, `router.py:1717` calls the run "genuinely fresh"); a provider that the
operator disabled ("excluded from candidates", `router.py:1690`) is back with the next
request, whose `_candidates` clears the flag of every usable provider; a test of a
model that the Gateway has cooled down fails without a call, and the reset of
health does not end that cooldown (`router.py:1034` "A real, tiny request"); the loop
of `test_provider_model` over all keys writes the row of one key as often as there
are keys, since `_record_key_model` asks for the last key, not the pinned one; a
late success ends a cooldown that another call has begun meanwhile.

By component, in the rest of the modules. A name in parentheses is a definition
that states the claim; as an invariant of its run it is violated (where the run
has the component as an instance, it goes through a definition of the MC module).

- Gateway. A request for an image always raises a TypeError: `image_router.py:157`
  passes `category=`, which `gateway_routing.py:545` does not take. A stream of a named
  model goes on to the next connection after chunks were handed on
  (`gateway.py:1942-2010`). A target that was never sent anything is recorded as failed
  (239-248). `_last_auth_error` is never cleared (308-327). `last_model`, `last_connection`
  and `last_attempts` are shared by all threads (1664). Two objects write the one row
  of the routing state. A stream whose reader goes away has no terminal event.
- Chat turn. A `resume:` operation that a crash leaves open is never closed, since
  it counts as its own cover (`core/events.py:224`; `ResumedRowsEnd`). The evidence of an
  execution is read from the history of the whole scope, so that of an earlier
  turn counts (`chat_pipeline.py:684`; `EvidenceIsOfThisTurn`). A resumed turn that
  raises has two terminal events. A tool that runs into its timeout is tried again
  while the first try goes on (`registry.py:137-169`). A correction may be served by
  another provider than the one that is corrected.
- Conversations. A resumed id without a kept approval is answered in whatever chat is
  open (`web.py:1650-1652`, as its comment says; a pruned approval and one from before a
  restart are such ids), so that the reply need not be in the chat of the card. Deleting the only conversation while it is empty leaves `current`
  without a row (`CurrentExists`). The duplicate is judged and written in different
  calls, so two retries may both run (`NoTwinTurns`), and a pending turn of another
  text covers a repeated one (`web.py:1534-1538`; `DuplicateIsCovered`). `clear()` and
  `_bootstrap()` give id 1 out again. Pruned conversations leave their messages.
- Streams. When a read of a blob fails, the page is cut from the capture instead
  (`web.py:594-603`), and a reader ends where the capture does, with less than was
  written; `DoneIsAll` leaves such pages out (`short`). One failure of the store turns it off for good, and what was appended
  before is not read any more. `record()` appends to its blob outside its lock. A page
  of the log that begins with a line end joins two lines. The reaper closes
  a terminal whose last output is unread, and the exit event may precede it. A poll may
  cut a character in two. A page that reconnects gets the screen again
  (`terminal.js:719-720`; `ScreenIsNotRepeated`), and a feed that begins with an empty
  history has a gap (`astra.js:1137`; `FeedHasNoGap`).
- Runtime. `open_terminal` looks and makes in two steps, so one name may get two shells
  of which one is lost (`OneShellPerSession`). `start()` ignores a failed `prepare`
  (`base.py:363-364`). A reader may use the number of a descriptor that was closed
  (`ReadsOnlyItsOwn`). `close()` of proot never sends its SIGKILL. Half a marker at the
  end of a window makes "timeout" of a command that has finished. Exit codes 124
  and 137 of a command are taken for its timeout. A failed probe of the backend is
  believed for 60 seconds. The "started" event of the bootstrap has no end. `destroy` on
  WSL leaves the guest's files; `create(reset)` wipes them under live sessions.
- Files. `import_and_extract` always fails with SameFileError (`manager.py:733`;
  `ArchivesAreExtracted`). Two uploads of one name share their staging file. An archive
  over the size limit leaves its first part behind, and the directory is made before
  the names are judged. `write(overwrite=False)` looks and writes in two steps. A copy
  that is under way puts content back after a reset. `_safe_member` judges a member and
  the target of a link by their text (`files.py:304-316`, 392-394): where an archive first
  makes a link whose text stays inside and then names a member below it, the member
  goes where the link leads, which need not be inside the destination when links that
  each stay inside lead on to one another. The text of the module says that "any member
  that resolves outside the destination (`../`, or a symlink pointing out) is rejected"
  and that links are extracted "only when their target stays inside"
  (`files.py:22-25`). That holds of names, which is what `EscapeLeavesNothing` states; a
  link that points out by its text is skipped and the rest of its archive is
  extracted, and of what is written through links it does not hold. A hard link of a tar becomes a
  symbolic one with the archive's name for its target (490-492). Over a link, two paths are one file,
  and `DoesWhatItAnswers` says nothing then. There is no run with a counterexample, since
  where a link leads is left open in the model. Commands of the guest can make
  links too; they are not in the model of the files.
- Browser. `BrowserSession.available` is set by `_probe()`, which only the constructor calls,
  and every path to the constructor asks `available` first: the tools of
  `browser/__init__.py` always refuse. Were they reachable, a page that fails to open
  would leak its browser, `_pw.close()` does not exist, and a session that waits for
  the user has no way back.
