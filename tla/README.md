# Muqun Gateway: a verification project in TLA+

The gateway (`src/`, one Rust binary) lets a phone reach the terminals and the coding
agents of its owner's computer. What is hard in it is not the terminals: it is that a piece
of work handed to an agent (a *task*) is watched and moved by many parties at once -- the
call that dispatches it, a follower of the agent's events, a periodic pass, a caller that
waits, the agent's own report, the owner's phone -- each of which reads, awaits and writes.
Around it stand other parts with the same difficulty: a mirror of work done on another
computer, the copy of a session that phones follow, admission of encrypted requests, files
sent in pieces, the binary replaced under a running gateway, and the credential an agent's
service is started with. This project models those, checks them with TLC, and proves the
safety of all of them with TLAPS for every value of their constants.

    tlc -workers 2 -config MCTaskLedger.cfg MCTaskLedger     # any run: cfg and MC module
    tlapm TaskLedgerProofs.tla                               # the proofs

## 1. Inventory

Components, with the state they keep and what they do. Paths are under `src/src/`.

| Component | State | Operations | Made correct by |
|---|---|---|---|
| Task states (`tasks/domain.rs`) | none | `can_move_to`, `steps_between` (in `service.rs`) | a walk passes through open states only and by allowed moves |
| Ledger (`tasks/store_sqlite.rs`) | rows, event log, notice rows, one global sequence, restricted sessions | insert, transition, notices, purge, delete | versions name writes; log and row agree; final states are final; an ended task comes back only over the version that was read |
| Session delegation (`tasks/service.rs`, `tasks/driver.rs`) | the row, `Live` (in memory: `idled`, `busy`, bindings, progress) | delegate, follow, reconcile, wait, complete, confirm, cancel, reopen | done only when said; a block outlasts its turn; ended turns settle; no late observer revives a task |
| Notices (`tasks/notices.rs`, `told*` in `service.rs`, `mcp/tools.rs`) | `told_seq`, `Live::busy` | deliver, told, told_task | what counts as told was said, or the loss has a name; said once unless something failed; said eventually |
| Pane delegations, commands (`tasks/pane_agent.rs`, `run_command.rs`) | one follower per pane task, exit markers | follow, judge, poll | one follower; the pane is still the one launched |
| Peer mirrors (`fleet/mirror.rs`, `peer_client.rs`) | mirror rows, one socket per peer | delegate, apply, adopt, converge | an older generation never overwrites a newer; an unanswered create is adopted or fails |
| Linked computers (`fleet/peers*.rs`, `manifest.rs`) | peer rows, reachability, transport pin | link, unlink, check | a pin never goes back |
| Replay protection (`connectivity/replay_store.rs`) | nonces, version pin, pruning cutoff | accept | no envelope accepted twice, over restarts and clock changes |
| Devices, pairing, push (`connectivity/`) | device records, codes, push tokens | pair, revoke, register | a revoked device is out everywhere |
| Runtime credentials (`store_sqlite.rs` 667-907, `mcp/tokens_sqlite.rs`, `agents/runtime.rs`) | restrictions per agent session, tokens, the service and its saved env | retain, clear, issue, start, adopt, reconcile | a restriction outlives the task that made it, and goes with its session |
| State lock, lifecycle, update (`platform/`) | three lock files, the binary and its backup | start, stop, restart, install | locks come free; what ran can be put back; never an older binary |
| Uploads (`platform/chunked_uploads.rs`) | partial files on disk, a registry in memory | create, put, complete, abort, sweep | a finished file is the chunks that were taken; nothing stays behind |
| Session mirror (`agents/adapters/memory_mirror*`, `agents/use_cases/session_service.rs`, the pump of `agents/manager.rs`) | rows with sequence numbers, a replay log with a floor, an incarnation and a generation | pump events, cold read, pages, refresh, tail of a turn, delivered prompts, a user's revert, eviction | a client of the copy is told what it lacks, or told to start over; a removed row does not come back with an old read that is fenced |
| Agent adapters (`agents/adapters/`) | connections | attach, prompt, interrupt, events | order of events; out of reach as a whole, an environment here |
| Terminal plane (`terminal/`) | panes, scrollback, history | read, type, fold | an algorithm on screens and much I/O |
| Server, config, i18n, CLI, Home | -- | parsing, routing, files | not state machines |

How they interact: agent adapters emit `AgentDomainEvent`s on a tokio broadcast channel (a
slow subscriber loses the oldest and is told once); the task follower, every running
`tasks.wait` and the notices pass subscribe. Before that, the manager's pump puts the events
into the session mirror, which the routes read. `TaskService` writes the store, one transaction
per call on one worker thread, and publishes `TaskDomainEvent`s. `Live` is a mutex-guarded
map that a restart empties. MCP tools and HTTP routes call `TaskService`. Nothing locks a
task across a read and a write: the only guards are `can_move_to` and `expected_seq`.

The hard behaviours are listed one by one, with their lines, in `PROJECT.json` ("hazards").

## 2. What is modelled

| Module | Models | Role |
|---|---|---|
| `TaskStates` | `domain.rs`, `steps_between` | constants and operators shared by the task modules |
| `TaskLifecycle` | what a reader of a task may rely on | abstract specification; `TaskLedger` implements it, and `SessionDelegation` moves its row as it says |
| `TaskLedger` | `store_sqlite.rs`: one action per transaction that writes | detailed specification; implements `TaskLifecycle` |
| `SessionDelegation` | `service.rs`, `driver.rs`: one task, one session, seven actors | interleavings, crashes, lost events, liveness |
| `TaskNotices` | `notices.rs`, `told` and `told_task` | delivery to the parent |
| `PeerMirror` | `mirror.rs`: one mirror, three readers, one socket | lost answers and frames, late answers, liveness |
| `ReplayStore` | `replay_store.rs` and its callers | admission over clock changes and restarts |
| `ChunkedUpload` | `chunked_uploads.rs` | requests that break off, late writes, sweep, restart |
| `GatewayUpdate` | `update.rs`, `lifecycle.rs`, `setup.rs`, `state_lock.rs` | commands under locks, each step of which may fail or die |
| `RuntimeCredential` | `store_sqlite.rs` 667-907, `tokens_sqlite.rs`, `runtime.rs` | ledger, restrictions and the supervisor of a service, composed |
| `SessionMirror` | `memory_mirror.rs` and its parts, `session_service.rs`, the pump of `manager.rs` | a stream of events and six kinds of reads into one copy, and a client behind it |
| `*Proofs` | -- | inductive invariants, safety, refinement: one module for each of `TaskLedger`, `SessionDelegation`, `TaskNotices`, `PeerMirror`, `GatewayUpdate`, `RuntimeCredential`, `SessionMirror`, and `DeviceTrafficProofs` for what a device sends (`ReplayStore`, `ChunkedUpload`) |
| `MC*` | -- | instances for TLC, one module per specification |

Every property has a mutant, an operator beside the definition it replaces: the bug of the
code that would break it.

### TaskLedger

`row`, `log`, `noticed`/`told` are the tables `tasks`, `task_events`, `task_notices`; `used`
remembers ids ever inserted (an id is a fresh UUID); `seq` is `tasks_seq`. `seen` holds what
each observer last read: the interleaving the store must withstand is that whoever acts, acts
on an old read (`ReopenSeen`, `ReopenRemote`, `MarkTold`). A refused transition changes
nothing and is no action. The ledger's time is its sequence: `created_ms`, `updated_ms` and
the retention bound are sequence numbers, so a wall clock that goes back is outside it
(hazard at `store_sqlite.rs:258`). Titles, summaries, labels, mentions and exit codes are
left out: no guard of the store reads them.

### SessionDelegation

Each actor is a job with a program counter; a step of a job is what the code does between two
awaits. `hold`, `walk` and `step` are `settle` and `move_to`: is the task held, read it and
plan the walk, then one transition per state, any of which may be refused because somebody
moved the task (`Refused` is the error path of every caller). Reads that nothing separates
in effect are merged: `holds` and the read that plans the walk (a write between them could as
well come before or after), and `blocked_at` with the read of the row it is about.

The agent is the environment: it starts a turn on a prompt, ends it with a done marker, a
blocked marker, a message without one, or silently, asks and is answered, fails, is
interrupted, or its session vanishes. Turn `k` starts at time `2k-1` and ends at `2k`, so
every comparison of `updated_ms`, `reopened_ms`, `idle_since` and a message's time is one of
turns. A user types only into a session that already ran the goal. `inbox` and `heard` are
the follower's and the wait's receivers, which drop the oldest event beyond `InboxCap` and
then say `lagged`; `Crowd` is the same done by other sessions' events.

`idled`, `jobs`, the channels and `stale` die in `Restart`; the row, its log and the agent's
session survive. `stale` stands for `expected_seq`: the actors whose read a write has since
overtaken. `old` is `older_than(NEVER_DISPATCHED_AFTER)`. `word` and `blockedIn` are ghosts:
that somebody said done, and the turn that reported a block while all observers were at rest.

### TaskNotices

One child, one parent session. The child is moved by others, one version a move, within
`CanMoveTo` or a reopen. The delegating call records the target (`Notify`), a pass lists an
untold version, judges the parent (`Never`, `Ready` or not yet), sends the line and records
the version it had read. A `tasks.wait` or `tasks.cancel` of the parent goes the other way
about, as `mcp/tools.rs` 807-815 and 917-926 do: it has its answer (`WaitAnswers`,
`CancelAnswers`), re-reads the child and compares states (`CallChecks`), records (`Mark`), and
only then does the answer go out (`CallReplies`). In between its connection may break
(`CallBreaks`) or the gateway stop, and what it recorded stays recorded. `OtherWaits` is a
wait of another session under the same token, which owns the task as well: it records too,
and answers somebody else. `sess.shown` is `Live::busy`, fed only by events the follower
takes. `age` abstracts the two windows of the code: retried for an hour, listed for a day.
`said`, `dropped` and `unheard` are ghosts: what the parent was told, what the gateway gave
up, and what was recorded for an answer the parent never got.

### PeerMirror

`mirror` is the row here with its binding (none, bound with no remote id yet, bound), `there`
the task on the other computer as its snapshots, `sent` the create on its way, `socket` the
task socket with the frames on it, `link` what each side thinks of the other. `jobs` holds,
for each of the three readers (the delegating call, the follower, the pass), the row it read,
the answer it has, and the states its walk has yet to take the mirror to: between any two of
them the others move the mirror. `apply` is therefore several steps: what it ignores
(`ReaderDrops`), a newer generation (`ReaderReopens`), and the change, which reads the row once
more and plans (`ReaderMoves`), then makes one transition of `move_to` at a time
(`ReaderSteps`), the last of them with the line and the binding (`ReaderArrives`), and is
refused as soon as the row cannot make the next (`ReaderStops`). A failure recorded on a mirror
that is still queued has two (`DelegateRefused`, `DelegateFails`). The other computer is the
environment: it takes the create or answers nothing, moves or forgets its task, drops frames
and then sends a resync, revokes the link. `old` stands for `ADOPT_WITHIN` and
`NEVER_DISPATCHED_AFTER`. `shown` and `astray` are ghosts: the latest move of the task a reader
applied (0 once two readers got into each other's way), and that the follower's only read got
no answer (`owed`) or that a reader judged a row that had moved since (`raced`).

### ReplayStore

An envelope is its device, nonce, version and timestamp. `clock` is the wall clock, which any
step may set to any time. A request is judged by the clock where it is opened (`Open`) and
again in the transaction (`Admit`, `Refuse`), which waits in `queue` for the store's thread;
`Restart` empties the queue. `kept`, `pin` and `cutoff` are the three tables. `Verdict` is
the transaction's checks in their order, on the rows left after its own pruning. A version 1
envelope does not authenticate its timestamp, so `SameRequest` ignores it there. `ran`,
`twice` and `latest` are ghosts.

### ChunkedUpload

`uploads` is the registry, under its mutex and gone with a stop; `partial` the files under
`.partial`, `stored` the finished ones; a byte carries the request that wrote it, so the file
tells whose bytes it holds. `jobs` are the requests: create, put, complete and abort, cut at
each await, where a connection may break (`PutBreaksOff`, `CompleteBreaksOff`); what the
guard does in `drop` are steps of their own. `tokio::fs` hands a write to a pool of threads:
a write of a request that is gone may land later (`late`). The sweep takes the registry and
the directory one after the other. Ages count ticks against `CHUNKED_RECLAIM_AFTER` and
`CHUNKED_IDLE_TTL`. `taken` and `strayed` are ghosts.

### GatewayUpdate

A file is its image; a hard link is another name of it, and `rename` of one name of a file
onto another does nothing, as rename(2) has it. Each command runs once: an update through
plan, backup check, fresh check, staging, locks, link, stop, rename, start, and either
cleaning up or recovery (`update.rs` `install`); a start, stop or restart through
`Controller::control`. Each step can fail, which takes the error path the code has there, and
at each step the command can be killed, which frees its locks. `gateway` is the holder of the
state lock with the image it runs. Somebody else may start a gateway or publish a release,
and the user may follow the recovery the error names. `owed` and `trouble` are ghosts.

### RuntimeCredential

It composes three components over one set of sessions: the ledger's rows (`row`, `live`,
`open`), the tables of restricted sessions (`kept`, `cleared`, `unrecorded`), and the
supervisor of OpenCode's service (`starter`, `service`, `saved`, `tokens`). Dispatch checks
ancestry (`Asks`), much later inserts, creates the session and binds it; delete and purge
(`Forgets`) retain what they forget in their transaction; a device's delete, a loss in the
agent, the command line and the supervisor's reconciliation clear what is gone. The
supervisor mints (reading the restrictions in the same transaction), saves the env, launches,
waits, settles which token is revoked, decides whether to start once more, and attaches or
adopts. Dispatch today refuses the work in question, so the specification starts with an
earlier gateway that did not, and upgrades. `tainted`, `foreign`, `unnamed` and `unanswered`
are ghosts.

### SessionMirror

`agent` is the timeline as the agent has it, `wire` its events on their way to the pump,
`mirror` the copy (`SessionState`): each row with the number of the event that last wrote it,
`cur` the last number given, `log` the events kept for replay, all above `floor`, `inc` which
copy of this session it is, `gen` how many removals it took. A row is abstracted to how far it
is: the chunks of a text, a tool call that runs or finished, a prompt that is there. The pump
takes one event at a time and waits while it reads the tail of a turn, as the code does.

`jobs` are the reads in flight, at most one of each kind. Each is three steps: what it
captures of the copy, what the agent answers (the agent's timeline *then*), and the commit
under the lock. A cold read, a page back and a delivered prompt commit only into the same
copy with no removal since (`Fits`), and leave alone a row that was written after the
capture (`Unseen`); a refresh commits only if nothing at all happened (`Unmoved`), then
empties the log and moves the floor, so that everybody behind it has to start over
(`Replaced`); a page of one reader's window is stored without a number and without an event
(`Paged`); the tail of a turn is written whatever happened, and so is what a user's revert
reads afterwards (`RevertAsks`, `RevertCommits`: `session_service.rs` 481-496, on the
request's own task, beside the pump and with no fence at all). The tail's read is one the
pump waits for; the revert's is not, so its rows may be old when they are put in.

`held` is what one client has: a snapshot from any moment. `gone` and `doubt` are ghosts. `gone`
are the rows whose removal the pump took. `doubt` has four causes: an event of the row was
lost with the stream, its copy was evicted, a page older than a refresh overwrote it, or a
revert's read was put in after the agent had moved on from it. A row leaves `doubt` when it is
next read or told as a whole.

### Bounds

| Run | States | Bounds | Why they are enough for the question |
|---|---|---|---|
| `task_ledger` | 1.2 million | 2 tasks, 1 session, 1 remote task, 1 observer, 6 writes, 1 remote generation | a parent and a child, an older and a newer owner of a place, a read overtaken by a revival, a purge between read and write; the theorems remove the bounds |
| `delegation_report` | 1.2 million | 2 turns, 1 report, channel of 2 | the turn that reported and the one that answers, with dispatch, follower and driver in between |
| `delegation_wait` | 1.7 million | 1 turn, 1 request, 1 wait | three observers of one turn |
| `delegation_settles` | 557,000 | 1 turn, 1 confirm, 1 cancel, 1 restart, 1 fault, 1 lost event, channel of 1 | every way the follower can miss the end, and every single failure at each step of the dispatch |
| `notices` | 2.2 million | versions up to 3, 1 call (the parent's or another session's), 1 fault or broken connection, 1 lost event, 1 restart | a question, an answer and an end, with one trouble of each kind at once; the theorems remove the bounds |
| `replay_store` | 1.8 million | 2 devices, 2 nonces, both versions, 4 times, skew 1, 1 row each, 1 waiting | an envelope kept, pruned and repeated across a clock that leaves the window both ways, beside another device that moves the cutoff; a full table is one row; the theorems remove the bounds |
| `peer_mirror` | 813,000 | 4 moves of the task, 1 frame on the wire, 1 lost answer or socket, 1 act of the user | an end and a new turn after it, two walks of the mirror at once, with one loss anywhere and a cancel or an unlink between any two transitions |
| `chunked_upload` | 504,000 | 1 upload of 2 chunks, 2 requests at a time, 2 breaks, 1 stop | a chunk cut short, sent again and cut short again, while another request or the sweep passes |
| `gateway_update` | 210,000 | 2 commands, 3 versions, 3 faults, 1 outside start | an update that fails, whose recovery fails, beside another command; a newer release installed between plan and replacement; the theorems remove the bounds |
| `runtime_credential` | 1.4 million | 2 tasks, 1 session, 3 tokens, ancestry of 2, 1 failure, 1 outside event | a task and the parent its ancestry runs through, forgotten in either order; the service's token, the saved one and a new one; the theorems remove the bounds |
| `session_mirror` | 2.5 million | 1 text of 2 chunks, 1 tool call, 1 prompt, 2 events on the wire, 2 in the log, 4 acts of any kind together | a row streamed, read, removed and read again by a read that was answered before; a revert beside the stream; a log that overflows; a copy that is forgotten and made anew under a read; the theorems remove the bounds |

`CHECK_DEADLOCK FALSE` in the task, mirror, update and credential runs: with every bounded
thing spent and the work over, the system really has nothing to do. A replay store always
takes another request, and an upload registry another tick: their runs check deadlock.

### Fairness

Weak fairness, of the gateway's own tasks only. Nothing is asked of the agent, its user, a
device, a wait or a restart.

- `SessionDelegation`: the dispatching call, the follower, the driver and the clock (`Age`);
  `driver.rs` spawns the pass and the follower for the life of the gateway, and each actor is
  one sequential task, so one condition per actor covers all its steps.
- `TaskNotices`: `Notify`, the pass (every 30 s), a call that was begun, up to its reply, the
  record of another session's wait, and the follower.
- `PeerMirror`: the delegating call, each reader (its walk included), the follower and the pass,
  the clock, and that the other computer takes the create or answers a read *or* that the
  answer is lost: the client's request timeout makes either happen. Nothing is asked of a
  cancel that was begun: the mirror settles without it.
- `ChunkedUpload`: a request under way goes on or breaks off (hyper drops it when its
  connection closes), the pool does its writes, and the sweep comes every hour
  (`spawn_upload_gc`).
- `GatewayUpdate`: a command goes on until it is over or killed, and a gateway that started
  gets ready or dies.
- `RuntimeCredential`: the supervisor's loop (`spawn_supervisor`), its reconciliation, and a
  service that was started gets ready.

## 3. What the runs show

Passing runs:

- `task_ledger`: the log of a task ends with its row's version and state (`LogTellsRow`); a
  told version that still stands was told as it stands (`ToldIsWhatStands`); whoever brings an
  ended task back had read it as it ended this time, not before a turn that came and ended in
  between (`RevivesOnlyAsRead`, which fails without `expected_seq`); and the ledger implements
  `TaskLifecycle` (`KeepsLifecycle`).
- `delegation_report`: an ended task is taken up again only for a user message newer than its
  end, whoever is late (`ReopensOnlyOnNewTurn`, which fails without `expected_seq`), and a
  block reported by `tasks.complete` to this run of the gateway outlasts the turn that reported
  it (`BlockOutlastsItsTurn`, which fails when the idle seen before the call still counts; a
  gateway started since takes the next turn it sees as the answer, as `service.rs:2978` says).
- `delegation_wait`: done only when the agent, in a marker or by `tasks.complete`, or the
  owner said so (`DoneWasSaid`). What was said stays said: with one turn the run does not ask
  whether a later turn that ends in silence is judged by an older message, nor whether a done
  is of the turn that is over.
- `delegation_settles`: no task works, pauses or is done before its goal reached the agent
  (`WorksOnlyOnceSent`); an ended turn does not leave its task working, nor does a dispatch
  that stopped leave it dispatching with nothing running (`EndedTurnSettles`,
  `NeverStuckDispatching`).
- `notices`: a version that counts as told stands in a state that was said, or that the
  parent's call under way is about to answer (`ToldStateWasSaid`). Three kinds are excepted: a
  version the gateway gave up, one recorded for an answer that broke off before it got out,
  and one recorded for what another session's wait answered; without the last two it fails
  (`MCToldUnsaid`). While nothing failed, stopped or called meanwhile, a pass sends no line
  twice (`RepeatsOnlyAfterTrouble`): that is all it says, and it catches neither a stop
  between line and record (`MCSaidTwice`) nor an older record that lands late. A parent the
  follower saw come to rest is told within the day (`RestingParentIsTold`).
- `replay_store`: no request is admitted twice (`NothingRunsTwice`), and none of it costs an
  honest device anything: a clock that was not set back refuses nobody
  (`SteadyClockRefusesNone`), and a table full of legacy rows does not keep a device from
  upgrading (`UpgradeFindsRoom`).
- `peer_mirror`: an ended mirror comes back only for a newer turn and a cancelled one never
  (`OnlyANewTurnReopens`); infinitely often the mirror agrees with its task, or can no longer
  (`MirrorCatchesUp`), save for the two cases the ghost `astray` names; a mirror of an ended
  link or an unconfirmed create does not stay open (`NothingStaysUnread`).
- `chunked_upload`: a published file is the chunks that were taken, whoever broke off
  (`KeptAsTaken`), unless a write of a request that is gone landed over bytes that came after
  it: the ghost `strayed` excludes exactly that file, which the code publishes; an upload is
  not busy for ever (`NothingStaysBusy`); a file no upload owns
  is swept (`OrphansAreSwept`).
- `gateway_update`: wherever an update stops, killed or failed, the image that ran is at `exe`
  or is its backup, until the new one runs (`WayBack`); nothing installed is replaced by
  something older but its own backup (`NeverDowngrades`); an update that says it restored has
  (`RestoredAsBefore`); locks come free (`LocksComeFree`). That a killed command's locks are
  free is the kernel's doing and is assumed (`Killed`); the copy of the descriptor that a child
  holds between fork and exec (`state_lock.rs` 28-36) is not modelled.
- `runtime_credential`: no token of the service is live beside a session that can resume
  another computer's work (`NoCredentialBeside`); forgetting tasks releases none
  (`HeldUntilGone`); and a session that is gone stops withholding it (`GoneIsCleared`).
- `session_mirror`: a client with a snapshot of the copy that is there, and not told to start
  over, ends with the copy's rows by replaying events, and gets every row that is there by
  asking for the rows after its number (`ClientOfCopyIsTold`). It says nothing of a row paged
  in for another reader, of a row that is gone when the client asks for rows
  (`get_timeline_delta` never tells a removal: `MCRemovalUntold`), or of a client whose copy was
  forgotten and made anew, which numbers from 0 again and tells nobody to start over
  (`MCForgottenCopy`). A removed row does not come back with a read answered before, and a
  finished row ends as the agent has it, whatever fenced reads crossed with its events
  (`RowsAreTrue`); rows in `doubt` are excepted, among them what a revert's read put in after
  the agent moved on (`MCRevertCrosses`).

One run refutes what the sources say (`PROJECT.json`, "findings", with the quotation):

- `cancel_while_dispatching`: a cancel between the binding and the goal does not stop the
  goal; the dispatch then concludes that there is nothing to interrupt.

Other configurations beside the project show where a property stops: each checks one
definition of its module, which TLC finds violated. They are for the reader who asks why a
property above is stated as it is.

| Configuration (module) | Definition | What TLC finds |
|---|---|---|
| `MCRequestWhileDispatching` (`MCSessionDelegation`) | `PendingRequestWaits` | a request that beats the dispatch's move to working is lost from the task |
| `MCSkippedRequest` (`MCSessionDelegation`) | `DriverSettlesSkipped` | a request event lost to a lagged channel is settled by no pass |
| `MCSecondQuestion` (`MCTaskNotices`) | `ToldVersionWasSaid` | `told` compares states: a second question counts as told with the first |
| `MCSaidTwice` (`MCTaskNotices`) | `NotSentAgain` | a stop between the line and its record sends the line again |
| `MCToldUnsaid` (`MCTaskNotices`) | `ToldHasReached` | a version recorded for an answer that broke off, or for another session's wait, counts as told and its parent never heard it |
| `MCIdleUnseen` (`MCTaskNotices`) | `IdleParentIsTold` | a lost idle event leaves the parent busy in the eyes of the pass |
| `MCMirrorStale` (`MCPeerMirror`) | `AlwaysCatchesUp` | a resync's read without an answer is not tried again while the socket lives |
| `MCMirrorOlderTurn` (`MCPeerMirror`) | `OlderTurnMovesNothing` | an older answer judged against an older read moves a mirror in a newer turn |
| `MCUploadLeftBusy` (`MCChunkedUpload`) | `BusyMeansAtWork` | a `complete` cut short while it judges leaves its upload busy until the sweep |
| `MCUpdateLeavesBackup` (`MCGatewayUpdate`) | `BackupTellsTrouble` | an update whose rename failed says that all is restored and leaves its backup, which refuses the next update |
| `MCToolsReported` (`MCRuntimeCredential`) | `ToolsReportedWork` | a start that was given up on and came up later has a revoked token |
| `MCWithheldIsLost` (`MCRuntimeCredential`) | `WithheldIsNotLost` | a restriction cleared by another path during a start leaves that start without tools |
| `MCPlacedWithholds` (`MCRuntimeCredential`) | `PlacedNeverWithholds` | an assistant whom its token places, with no parent, is read as unattributed later |
| `MCRevertCrosses` (`MCSessionMirror`) | `RevertUndoesNothing` | what a revert read back is put over a row the copy had right |
| `MCRemovalUntold` (`MCSessionMirror`) | `RowsAfterSuffice` | the rows after a client's number do not tell it of a removal |
| `MCForgottenCopy` (`MCSessionMirror`) | `AnyClientIsTold` | a client of a copy that was evicted and made anew is neither brought up to date nor told to start over |

## 4. What is proved

For each specification there is one inductive invariant, `IInv`, one lemma per action, and
the theorems that follow from it; two properties need a second invariant on top (`BInv`,
`RInv`). Each proof assumes the one named assumption of its specification
(`LedgerAssumption`, `DelegationAssumption`, `NoticesAssumption`, `ReplayAssumption`,
`UploadAssumption`, `UpdateAssumption`, `CredentialAssumption`, and a `MirrorAssumption` of
`PeerMirror` and one of `SessionMirror`): bounds are naturals, names that mean "none" are
apart from the ids, there is a name for an upload, a socket holds at least one frame, and a
row of a session is a text, a tool call or a prompt, one of the three. Nothing is assumed of
how many tasks, turns, uploads, devices, requests, commands, sessions, tokens or rows there
are.

**`TaskLedgerProofs`**: `LedgerInvariant`, `LedgerTypes`, `VersionsAlwaysNameWrites`,
`LogAlwaysTellsRow`, `ToldAlwaysWhatStands`, `LogAlwaysUnbroken`, `CancelledStaysCancelled`,
`RevivalIsOfTheNewest`, `RevivalIsAsRead`, and `LedgerImplementsLifecycle`: initial
states map to initial states, and every step to a step of `TaskLifecycle` or to a stutter.
`IInv == TypeOK /\ VersionsNameWrites /\ SeenIsPast /\ ToldIsPast /\ LogTellsRow`. That a
told version was told *in the state that stands* is not inductive: `MarkTold` writes what an
observer read at some earlier time; it is sound only because the read was of a version
already written and because a row whose version is unchanged is unchanged altogether
(`SeenIsPast`). The same fact makes `expected_seq` mean something: equal numbers are equal
rows, which is `RevivalIsAsRead`. `ToldIsPast` carries it
over to what was recorded, and `VersionsNameWrites` gives that a new version is no older one.
`RevivesOnlyNewest` and `LogIsUnbroken` are proved and no run checks them.

**`SessionDelegationProofs`**: `Strengthening`, `DelegationTypes`, `OnlyWordsEnd`,
`NothingBeforeTheGoal`, `LateObserversReopenNothing`, `BlockAlwaysOutlasts`,
`DelegationImplementsLifecycle`. Seven actors judge an old read, so each
property needs to know what every job holds in between (`JobOK`): before the first turn no job
is about to move the task to a state that works or pauses (`Unsent`); a change to `done` is
only held once done was said; a job that will reopen holds the time of a user message that was
sent, and, unless a write has overtaken it (`stale`, which is `expected_seq`), one newer than
the row. The events a job judges come from its channel, so the same is said of both channels
(`QueueOK`). `MovePasses` is about the walks: what `StepsBetween` passes is open, and a task
that has not worked gets to `failed` or `cancelled` past `dispatching` only.

`BlockAlwaysOutlasts` needs `BInv` besides. A block counts as reported at rest (`blockedIn`)
only when no observer held anything; what has to be shown is that none of them comes to hold
anything that undoes it. So while the block stands no walk under way leads to a pause, nor, in
the block's own turn, to work (`Spares`), and until that turn is over no idle was seen and
none is in the channel (`Unidled`): without one `holds` refuses the sign of a running turn.
`Aims` says what each actor may be about to write at all, and `PlanIsStraight`
that what is planned from a block, or towards `done` once the task has begun, is one move.

`DelegationImplementsLifecycle` ties the service to the ledger: mapped to the state of its row,
every step of the delegation is a step of `TaskLifecycle` or a stutter (`KeepsLifecycle`, the
definition `TaskLedger` has for all its tasks). So what `TaskLedger` allows a task covers what
all these actors do to one.

**`TaskNoticesProofs`**: `Strengthening`, `NoticesTypes`, `NothingUnsaidIsTold`,
`OneLineAVersion`. What is recorded as told is a version read some time before, so the
invariant says where each reader stands: a version read is past and, if it is still the
child's, in the child's state (`ReadsArePast`, `ToldIsPast`). What backs a record differs
(`MarksAreBacked`): what the pass is about to record was said or given up; what the parent's
call recorded before its reply stands in the state it is going to answer. When that call
ends without its answer, what it recorded passes into `unheard`, and so does all that
another session's wait records. While nothing went wrong the pass is alone and ahead of all it
said (`PassIsAhead`), which is why no line repeats.

**`PeerMirrorProofs`**: `Strengthening`, `MirrorTypes`, `OverUnlessANewTurn`,
`TurnsAndBindingsStay`, `MirrorImplementsLifecycle`. Three readers judge a row they read before by an answer from some
other time, after frames that may be lost or from before a resync. The invariant
says three things of each. The row is the mirror's own as long as the two have one number,
and what it was bound to the mirror still is (`Current`): that is what `expected_seq` checks
before a reopen. The answer is of the task as it was (`Past`), so the turn a mirror takes over
is never one ahead of the task. And the reader is where it can be: the delegating call creates
and binds only while nobody else can have bound the mirror, and only a reader of an unbound
mirror can be told that there is no task (`JobOK`). From it every step is `Onward`: an ended
mirror moves only to a newer turn (`OnlyANewTurnReopens`), and its turn and its binding are
never taken back (`NothingGoesBack`, which is proved and which no run checks). A walk is planned
in one state and made in others; what a reader passes on its way is open states
(`StepsAreOpen`), and each transition asks again. So the mirror too is mapped to a task that
lives as `TaskLifecycle` says (`KeepsLifecycle`, which no run checks either): whoever comes
between two transitions, each is one the ledger accepts, and the one move out of an end is a new
turn of a mirror that was not cancelled.

**`DeviceTrafficProofs`, requests**: `ReplayTypes`, `AtMostOnce`, `Bounded`, `Forward`,
`SteadyClock`, `UpgradeHasRoom`, of `ReplaySpec`. `NothingRunsTwice` alone is not inductive,
since rows are pruned. What remembers a request is one of three things (`Remembered`): its
row, the cutoff above its timestamp, or a pin above its version. `PinCovers` keeps a device's
pin at the latest version it used, so a request that gets past the pin is remembered by one of
the first two; and `CutoffTrails` keeps the cutoff a whole skew behind the latest admission,
which is what a steady clock needs. Finiteness of the rows gives the cardinality bound.

**`DeviceTrafficProofs`, files**: `Strengthening`, `UploadTypes`, `FinishedIsWhatWasTaken`, of
`ChunkedUpload`'s `Spec`. A finished file is what was taken because of everything that happens
before it is finished. `busy` gives that one request at most has an upload in hand (`Alone`),
and `JobOK` says where that request stands: what it wrote begins at what the upload has
received (`base`) and stops at the declared size, all of it but the write the pool still has
is in the file (`Landed`), and a completing request holds as many bytes as were declared. So a
file of that length which begins with them is them (`WholeIs`), and a late write has no room
to make it longer. A step of one request leaves the others' uploads alone (`OwnStep`); one
that only forgets entries and removes files, as abort, sweep and stop do, breaks nothing
(`DropStep`).

**`GatewayUpdateProofs`**: `UpdateTypes`, `AlwaysAWayBack`, `NoDowngrade`,
`RestoredIsRestored`. `IInv == Typed /\ Kept /\ \A c \in Commands : CommandInv(c)`, where
`CommandInv` says for each phase of a command which locks it holds, what is at `exe`, what at
`backup`, and what the gateway runs. A frame lemma (`Spares`) states once what a step must
leave alone for another command's part to survive it; the two locks give that no two commands
are in phases that write.

**`RuntimeCredentialProofs`**: `CredentialTypes`, `NeverBeside`, `HeldTillGone`. The rows form
a tree (`Tree`, `Edges`), and what the ghost `tainted` marks runs along every chain of
parents (`Runs`), so a task whose ancestry ends at an owner within the depth is not tainted
and a tainted one is `Restricted`. `Withholds` then says that a session that ran such work and
is still there is among those that withhold the credential. It is kept by a dispatch under
way because that passed the check (`Clean`), by a clear under way because what it clears is
gone (`Gone`) and was made once (`Known`), and by the upgrade because before it every such
session still has its task (`Older`).

**`SessionMirrorProofs`**: `Strengthening`, `MirrorTypes`, `ClientOfCopyAlwaysTold`,
`RowsAlwaysTrue`. `IInv` adds to
what a client is told that the log holds numbers above its floor and up to the copy's own,
that no row is numbered beyond it (`CopyOK`), and that a client of this copy is not ahead of
it (`NotAhead`). Then each operation of the copy (`Upserted`, `Paged`, `Replaced`, `Removed`,
...) is one lemma, that it takes a copy which tells the client to one which does, and every
step of the specification is an instance of those.

`RowsAlwaysTrue` needs `RInv` besides, which is said of one row at a time and of one read at
a time. `AgentOK` and `WireOK` say which events of a row can be on the wire given how far the
agent has it: an end only of a row that ended, a removal last. `Right` then says what a version
in the copy may be: the agent's own, or behind it with the event that ends or removes the row
still to come. Each read is right in its own way (`HistoryRight`, `RefreshRight`, `TailRight`,
`InputRight`): what it captured of the copy is past, and what the agent answered is a version
whose end or removal is on the wire, was taken since the capture (so that `Unseen`, `Fits` or
`Unmoved` refuses the commit), or is the row's last. A revert's read needs nothing of the kind,
as nothing is promised of it: its row is right where the agent still has it so, and in `doubt`
where not (`RevertCommitsKeeps`). That the kinds of rows are apart is used
here: a prompt is not streamed, and a tool call has no chunks.

All invariants and action properties that a passing run checks are theorems. Left to TLC is
liveness and everything under fairness, which the prover does not reach, and the refuted
definitions of section 3. Nothing uses `RECURSIVE`.

## 5. What is not modelled, and why

- Pane delegations, commands and pane notices: what they decide is decided from text on a
  screen that other programs write.
- The text of summaries, markers, transcripts and titles. A marker is its meaning (`done`,
  `blocked` of a turn, none); how `pane_agent::marker` finds it in a message is not modelled.
- Owner checks and call lineage (`mcp/lineage.rs`): a report is taken to come from the agent
  of the task, in its running turn.
- A wait's deadline is any moment (`WaitEnds`), so no timing property is claimed.
- Two tasks at once in the service (a parent's `complete` checking its children): the ledger
  and the credential model have trees, the service model has one task, and a second one beside
  seven actors is past what TLC finishes.
- What an envelope's cryptography guarantees is taken as given; so is that a chunk sent again
  under an index already taken changes nothing.
- Managed services (launchd, systemd) in updates, and the download; the other agents' services
  in the supervisor.
- Of the session mirror: session info, pending requests, the texts of the inbox, the order of
  rows and its cap, window cursors, the live broadcast, the joining of small deltas, several
  refreshes (the code has four slots) or reverts at once, the limit on reads of delivered prompts, and
  the histories of adapters other than OpenCode's. Four things it does are modelled
  as they are and excepted from `RowsAreTrue` by the ghost `doubt`: a page answered before a
  refresh is put in after it; a stream that broke loses what it carried until the row is read
  whole; an eviction lets a read of the next copy meet events of the one before; and the read
  of a user's revert is put in beside the pump, unfenced, so that it may put older rows over
  newer ones or bring back rows whose removal was taken.
- Agent adapters, the terminal plane, HTTP and the CLI: see the inventory. They are most of
  the repository's lines, and are translation, input and output around the parts above.

## 6. Plan

What is left, the most important first.

1. `PaneFollower` (`pane_agent.rs`, `claim_follow`): one follower, a pane that is reused, a
   shell that died; then pane targets of the notices (`type_line`).
2. A parent and a child in one model: `complete(done)` against a child reopened meanwhile.
3. Devices and pairing (`connectivity/authority.rs`): a revoked device is out of every
   connection it had.
