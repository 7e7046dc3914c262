# A verification of codeterminal-core in TLA+

codeterminal-core is a coding assistant in four programs: a **daemon** that answers prompts, runs an
agent and edits files; the **clients** (terminal, editor extension, command line) that talk to it over a
local socket; an **embedder helper** the daemon starts and watches; and a **proxy** between the daemon
and the model providers that meters every API key. This directory models the parts of them where
several actors change the same state, model-checks them with TLC and proves what matters most with
TLAPS. Paths below are relative to `src/`.

Contents: [inventory](#inventory) · [hard behaviours](#hard-behaviours) · [modules](#modules) ·
[runs](#runs) · [fairness](#fairness) · [proofs](#proofs) · [findings](#findings) ·
[limits of the models](#limits-of-the-models) · [plan](#plan)

## Inventory

### How the parts interact

```
 TUI ──┐ applies edits in its own process ────────────► project files, .codeterminal/backups
       │                                                     ▲   ▲
 CLI ──┤ apply / undo in its own process ────────────────────┘   │  one flock per workspace
       │                                                          │
 ext ──┴─ socket ─► daemon ── handleApplyEdit / handleUndo ───────┘
                      │  turn: phases ─► model calls ─► questions on the client's connection ─► tools
                      │        working copy, checkpoints, judge ─► offers ─► a client's review
                      │  chat: one per workspace, its revision on every reply ─► every client's copy
                      │  address: socket file and lockfile ◄─ the supervisor of each editor window
                      ├─ helper process (embeddings) over its own socket
                      └─ HTTPS ─► proxy (replicas) ─► provider
                                    └─ RPCs ─► Postgres: reserve, correct, sweep
```

### Modelled components

| Component | State it keeps | Operations | What makes it correct |
|---|---|---|---|
| Quota ledger (`proxy/main.go`, `proxy/migrations/0002_pending_corrections.sql`) | `tokens_used` of a key, an outbox row per reservation, a correction goroutine per request, the sweeper of each replica | reserve, retry with the headroom left, correct with retries, sweep, drain, crash, restart | a reservation is settled or forfeit, once; no live reservation is swept; the limit is passed by corrections only; a stranded row is reported once |
| Edits and backup sessions (`editapply/`), undo (`daemon/apply_cmd.go`), apply requests (`daemon/server.go`) | files, `before/`, `after/` and the created-list of each session, its in-flight marker, the apply lock, the daemon's mutex | verify, choose or make a session and prune, lock, snapshot, write, undo | no edit that landed is overwritten by another run's; undo takes back only its own session's last work, and restores what the run found |
| Working copy, checkpoints, judge, file operations (`daemon/stage.go`, `stage_fileops.go`, `checkpoint.go`, `correction.go`, `fileops.go`) | the run's private copy, what is known of the user's files, the checkpoints, the judge's best, the trash | copy, edit, command, save, restore, judge, delete/move/restore a project file with the copy following, offer, review | an offer never undoes the user's own save; a restore brings back exactly what was saved; what was removed from the project with consent stays removed |
| Helper supervisor (`daemon/helperproc.go`) | the process, the restart count, the monitor, the stop channels | Start, restart after a death, poll readiness, Stop | after Stop nothing runs and nothing is started; never two helpers; Stop returns; a death is noticed |
| One address per workspace (`daemon/main.go`, `protocol/transport_unix.go`, `clients/vscode/src/daemonSupervisor.ts`) | socket file, lockfile; each window's own daemon, retry budget, timer and awaited probes | probe and remove a stale file, bind, publish, shut down; ensure, adopt, retry, restart, dispose | a window gets a daemon or is told, unless a signal ended its daemon; closing the windows leaves none, unless the restart command was used beside a call that awaits something |
| Agent turn (`daemon/agentloop.go`, `orchestrator.go`, `patience.go`, `sizelimit.go`, `turnreport.go`) | calls, steps, waits, repeats and bytes of a phase, what the phases share, the deadline | look at the ceilings, call the model, nudge, ask again, shrink, wait, run tools, sum up, go on to the next phase | the turn ends; it bills no more calls than configured, the summing up included; the phases before the answer leave it its bytes, but for one result that nothing cuts |
| Tool approval (`daemon/toolapproval.go`, `resolveExecutable`) | the question, answers under way, the latch, the turn's grants, the shutdown | refuse, allow, ask, read past, verify, grant, cancel | what runs is allowed or was approved, with these arguments; a yes is heard; a stop stops |
| Shared chat (`daemon/chatsync.go`, `memory.go`, `server.go`, `chatcompact.go`, `clients/tui/chatsync.go`) | stored turns, generation, epoch; each client's screen and revision, calls in flight | ask, save, catch up, ctrl+n, resume, compact, stop, restart | no revision claims a turn its client was not sent; no question is answered from a history that lacks stored turns |
| Gates of a key (`authorize` and `handleChatCompletions` in `proxy/main.go`, `authcache.go`, `ratelimit.go`) | the cached lookup of the key with its expiry, the token bucket with its debt, the slots in flight | look up, put, flush, ask the bucket, take a slot, charge, release | a revoked key is let in for less than the ttl and a lookup; what is charged over any time is less than what the bucket held and gained, two rounds of the slots, and two more for each burst gained where the rounds are larger than the burst |
| Spend ledger (`daemon/spend.go`, its callers in `server.go`, `agentloop.go`, `usage.go`) | a day's share per daemon, in memory and stored, session counts, held allotments, the date | refuse or admit a question, look before each step, bill a call, raise, roll the day, restart | past a limit goes only what was under way; a limit that was met holds until it is raised |

### Components that are not modelled

| Component | State, operations and what is hard | Correct when |
|---|---|---|
| Stream relay (`proxy/main.go`, `stagetimer.go`) | bytes relayed, the usage chunk, the budget, the stall timer | what is charged is the reported usage, else a bound on what was relayed, whatever ended the stream first |
| Index upkeep (`daemon/reindex.go`, `watcher.go`, `indexfreshness.go`) | vector and lexical store, the stamp; watcher and apply path re-index one file under different locks | at rest both stores hold the last content of each file |
| The drain (`WaitForDrain` in `daemon/server.go`), escalation and the retries inside a call (`retry.go`, `escalation.go`) | connections and tools in flight; backoffs within one call | a running tool gets its grace; a call returns |
| Long tasks, specs, plans | segments, the task ledger, workflow documents | sequential workflow, few interleavings |
| MCP runtime (`daemon/mcp/`, `mcpruntime.go`) | servers started and restarted, pending calls, policy | a call is answered or failed once |
| Retrieval, scrubbing, matching and parsing of edit blocks, command-line classification | pure functions of text and numbers | outside what bounded checking says anything useful about |
| Credentials, web tools, local models, language servers, GitHub | dialogues with other programs and files | pure I/O |
| The helper itself, protocol types, presentation of the clients, packaging | inference, message types, screens, build | – |

`PROJECT.json` lists all of them with their files.

## Hard behaviours

The properties are aimed at what a unit test of this code hardly reaches. In short (`PROJECT.json` has
each at its line):

- **Money.** A process ends between the response and the correction its goroutine still owes; two
  replicas sweep at once; an RPC commits after its caller gave up, and is retried; the stale window
  against the longest request.
- **Files.** Three programs edit one file under one advisory lock; an operation fails, or a process
  dies, between two of the five steps of an Apply, and the next block of the same review finds what is
  left; pruning removes the session another run is using; undo decides from two snapshots and a file
  that others have changed.
- **The working copy.** The user's editor saves at any moment, between two system calls of the copying
  too; edits, commands, checkpoints, the judge's restores, deletes and moves come in any order and each
  keeps records the others read.
- **A turn.** A provider answers with nothing, refuses for size or rate, is busy or fails; one reply calls many
  tools; a phase ends at any ceiling, and the next goes on with what is left; an answer to a question comes
  late, twice, for an earlier question, with other arguments, or beside a shutdown.
- **The chat.** Two terminals ask, clear, resume, compact and stop at once; the readers take no lock; the
  daemon dies with calls in flight, or saves an exchange whose client has gone.
- **The address.** Two windows start a daemon at once, the loser waits for a winner that fails, a starter
  removes a file that was stale when it looked, a window is closed or its restart command used while a probe,
  a timer or an exit is pending.
- **The gates of a key.** A lookup that was answered before a revocation or a flush is put in after it; requests
  pass the bucket together before the first of them is charged.
- **The day.** Several daemons bill one day, each counting the others by what they stored; midnight, a restart, a
  raise or a share that cannot be stored falls between a stop and the next question.
- **The helper.** Stop arrives while the monitor sleeps, spawns, polls or waits for an exit.

## Modules

| Module | Lines of the program it models |
|---|---|
| `QuotaAccount` | the promise: an account in which a reservation is held, settled or forfeit |
| `QuotaLedger` | the money path of `proxy/main.go` and the SQL functions |
| `QuotaLedgerProofs` | theorems about `QuotaLedger`, and that it implements `QuotaAccount` |
| `EditSessions` | `editapply/apply.go`, `backup.go`, `applylock*.go`; `runUndoSession`; the daemon's handlers |
| `EditSessionsProofs` | theorems about `EditSessions` |
| `WorkingCopy` | `daemon/stage.go`, `stage_fileops.go`, `checkpoint.go`, the judge's half of `correction.go`, `fileops.go` |
| `WorkingCopyProofs` | theorems about `WorkingCopy` |
| `HelperProcess` | `daemon/helperproc.go` |
| `DaemonAddress` | `reclaimStaleSocket`, start-up and shutdown in `daemon/main.go`; `listen`; `daemonSupervisor.ts` |
| `AgentTurn` | `runAgentLoop`, `budgetStop`, `dispatchToolCall`, `wrapUpAtLimit`; `runOrchestrated`; `waitOutProvider`, `fitToLimit` |
| `DaemonPartsProofs` | theorems about `HelperProcess`, `DaemonAddress` and `AgentTurn` |
| `ToolApproval` | `connApprover`, `verifyApproval`, `resolveExecutable`'s grants |
| `ToolApprovalProofs` | theorems about `ToolApproval` |
| `ChatSync` | `daemon/chatsync.go` and the writers it is called from; the terminal's side of them |
| `ChatSyncProofs` | theorems about `ChatSync` |
| `ProxyGates` | `authorize`, the gates of `handleChatCompletions`, `finalizeUsage`'s charge; `authcache.go`, `ratelimit.go` |
| `SpendLedger` | `daemon/spend.go`; the refusal in `handlePromptRequest`, `spendReached`, the bills of `usageTally` |
| `LimitsProofs` | theorems about `ProxyGates` and `SpendLedger` |
| `NumberTheorems` | lemmas about numbers and finite sums that the proof modules share |
| `QuotaLedgerMC`, `EditSessionsMC`, `WorkingCopyMC` | instances of one module for TLC (sets of model values, symmetry) |
| `QuotaPartsMC`, `SharedPartsMC`, `ProgressMC`, `WorkPartsMC`, `DaemonPartsMC` | several modules in one run, see [runs](#runs) |

The definitions marked "Mutant" in their comment (`...Late`, `...Always`, `...Never`, `PathsHeld` and the
like) are plausible bugs, each beside the definition it would replace. Putting it there breaks the property that
`PROJECT.json` pairs it with; nothing else uses them. They show that no property holds by the shape of
the model.

### QuotaLedger

*State.* `used` is `api_keys.tokens_used`; `row`, `amount` and `age` are the outbox
(`pending_corrections`): a row is none, open, closed (corrected) or swept. A row's id is `<<r, k>>` for
the first reservation of a request and its retry with the headroom ("tail"). `lateHold` and `lateFix`
are RPCs in flight whose caller has given up. `pc`, `home`, `attempt`, `reserved`, `outcome` and `tries`
are the handler and, after it, the correction goroutine; `proc`, `claimed`, `logged` and `exits` the
replicas, their sweeps and their ends.

*Actions.* `Arrive`; `ReserveGranted`, `ReserveRefused`, `ReserveAbandoned` (the RPC times out, and may
commit yet); `ReadHeadroom` and `HeadroomFailed` for the tail; `Finish` with any charge a stream can
report; `CorrectOk`, `CorrectFailed`, `CorrectRefused`, `CorrectAbandoned` for `correctUsage`'s loop;
`SweepClaim` (one DELETE ... RETURNING), `SweepReport`, `SweepReplyLost`; `Tick` ages rows, bounded by
the timeouts of live requests; `Crash`, `BeginDrain`, `CloseListener`, `ExitClean`, `DrainDeadline`,
`Restart`. A crash or an exit drops the correction goroutines and claims of that process, as no one
waits for them in the code.

*Assumption on time.* `Lifetime <= StaleAfter`: `staleCorrectionWindow` is derived in
`proxy/main.go:259` from the longest request plus its correction. The models and the proof need exactly
that, and nothing else about the numbers.

### EditSessions

*State.* A file's content is the sequence of the changes it is made of, so a lost edit is a change that
is no longer in it. `box[s]` is the directory of session `s`: `before`, `after` and the created-list;
`kept` are the sessions not pruned, `fresh` those whose in-flight marker is younger than two hours.
`lock` is the flock of the workspace, which the kernel releases when its holder dies; `mutex` is the
daemon's own per-workspace mutex, taken before it. A run is a review of `Blocks` blocks by one client, of
kind `cli`, `tui` or `daemon` (the extension). `found` and `landed` are history: what a run's first edit
of a file found, and which edits landed.

*Actions.* `Prepare` reads the file and computes the edit without a lock; `Decline`; `ReuseSession` or
`MintSession` (which prunes, sparing fresh sessions) or `MintFails`; `BeginApply` takes the lock and
verifies that the file is still what was read, `RefuseStale` when it is not; `SaveBefore`, `SaveAfter`,
`SaveCreated`, `WriteFile`, each a step of its own with `BackupFails` (which may leave a torn snapshot or a torn
created-list) and `WriteFails` (whose rollback may fail too). A CLI run stops at the first failure; the TUI and the
extension go on with the next block. `ResolveSession`, `GuardFiles` (the comparison with `after/`, and
the question it may ask), one `CommitRestore` per file, `UndoDone`, `UndoFails`. Around them:
`UserSaves`, `UserDeletes`, `MarkerAges`, `CrashProcess`, `CrashDaemon`.

`UndoStartsFromItsOwnEdit` excepts a file with nothing in it: the undo of a session whose snapshot was torn, forced by
the user, leaves one, and a later undo may find it equal to an `after/` that was torn in the same way. Of the
constants it is assumed that there is a file, that the runs are finitely many and that the user is not one of them.

### WorkingCopy

*State.* `real` are the user's files, `copy` the agent's, `known` what the copy was made from, `walk` how
far copying or comparing is with a file. `rewritten`, `touched`, `byCommand` and `reshaped` are the
records the code keeps to tell what a restore has to put back; `checkpoints`, `best`, `check` and `offer`
belong to the turn. `commands`, `savedSince`, `removed` (what was
removed from the project with the user's yes) and `discarded` (what was in the copy only, and removed with it) are
history.

*Actions.* `StatFile`/`CopyFile`/`CopyMade`; `Edit`; `Command`, any change of any files of the copy;
`SaveCheckpoint` and `RestoreCheckpoint` (a file may refuse to be put back); `CheckIsBest` and
`CheckPutsBack`, what the judge does to the code - its verdict is left open; `DeleteStaged`,
`MoveStaged` and their restore, each with the copy following inside the same step as in the code;
`EndTurn` or `Discard`; `LookAtReal`/`ReadReal`/`OffersMade` for `netChanges`; `Review` of an offer.
Tools of one turn run one after another; `UserWrites` may fall between any two steps.

### HelperProcess

*State.* `helper[h]` for the h-th process spawned: none, alive, exited, reaped; `killed`, `bound` (which one
answers on the endpoint); `start` is where Start is; `cmd`, `restarts`, `monitor`, `watched` the monitor
goroutine; `stopping`, `stopCall`, `target` the channels and the caller of Stop. `HelperExits` and `Bind` are the helper's
own; `Reap` is the goroutine that waits for it. The monitor is `ExitObserved`, `DelayOver`, `Respawn`,
`RespawnFails`, `PollReady`, `PollGivesUp`; Stop is `StopBegins`, `StopKills` after its grace, `StopReturns`.

### DaemonAddress

*State.* Daemons are numbered as they are spawned; `proc[p]` is how far its `main` has come (`starting`: before
the probe; `stale`: the probe was not answered; `clear`: about to bind; `bound`: before the lockfile; `serving`;
`draining`; `unlinked`) or its exit (`lost` is `exitAlreadyRunning`). `socket` and `lockfile` say whose the files
are. `window[w]` has the fields of a `DaemonSupervisor`: its own daemon, the retries `spent`, the one timer, and
the calls that wait for a probe (`ensuring`, `adopting`). `restart[r]` is one use of the restart command, and
`restart[r].beside` whether it was begun while another call of its window still awaited something (`Pending`).

*Actions.* `Reclaim...`, `Binds`/`BindLoses`, `Publishes`; `StopsListening` (which unlinks the path, whoever's
it is), `RemovesSocket`, `RemovesLock`; `Terminated` (SIGTERM before the handler is there); `Dies`
anywhere: of itself, killed by a signal, or because it could not be started (`unstarted`).
The supervisor: `EnsureEnds`/`EnsureSpawns`, `ExitDelivered` (`AfterExit`: nothing after a clean stop or a signal,
a look for the winner after a lost race, else `scheduleRetry`), `AdoptEnds`/`AdoptMisses`, `TimerFires`,
`RestartPressed`, `RestartWaited`, `RestartProbed`, `Disposes`. A probe is answered and used in one step; what
may change while it is awaited changes before that step.

### AgentTurn

*State.* `at` is where the loop is; `iteration`, `calls`, `empties`, `waits`, `repeats` are the phase's
(`agentTurn`), `prior` and `bytes` the turn's (`turnLedger`); `uncut` counts the bytes among them that nothing
cuts: the loop's own notes, `find_tools`' answers, and the markers of what was cut or redacted; `left` the tool calls of the reply that still have to run; `now` and
`deadline` the turn's clock; `billed` is history: requests the provider took. A turn without a pipeline is one
phase. Tokens, session and day limits are one flag that any call may set (`spent`); a stall stops the loop as
repeats do, and is counted with them.

*Actions.* `Asks`, `StopsWithAnswer`/`StopsWithout` are the top of the loop; `RepliesWithCalls`,
`RepliesWithAnswer`, `Nudged`, `RepliesEmpty`, `Shrinks`, `WaitsOut`, `Fails` what a call comes back with;
`ToolRuns` (a result cut to what is left), `ToolRunsWhole` (one whose frame takes all that is left, and which is then
not cut at all), `FindsTools`, `ToolRefused`, `ToolCancelled`, `BatchDone` its tools; `WrapUpEnds` the last call;
`NextPhase`, `TurnOver`, `Abandoned`.

### ToolApproval

*State.* `calls` and `outcome` of each; `wire`, answers sent and not yet read; `skipped`, `closed` and `grants` as
in the code; `down`, the cancelled context. `said`, `extra`, `garbled` and `late` are history: what the user said
to each question, what a client sent beyond that, and what began to run after the context was cancelled.

*Actions.* `CallBegins`; `ResolvedAlone`, `Asks`, `CannotAsk`, `NoAnswer`, `ReadsPast`, `Reads`; `CallEnds`,
`TurnEnds`; `Cancelled`; on the client's side `UserAnswers`, `ClientRepeats`, `ClientGarbles`.

### ChatSync

*State.* `chat` are the stored rows, `gen` and `epoch` the generation and the daemon's life, `holder` who has
`historyMu`. `call[i]` is a request from its sending to its reply: the revision sent with it, the generation read
before the turns, the revision and turns replied. `client[c]` is a terminal: what it shows, `rev` (`chatRev`),
`turnRev` and `pending` (`resetPending`). A turn's question and answer are named after its call.

*Actions.* `ReadsGen` and then `FetchReads` or `TurnReads`, without the lock; `SaveBegins`, `SavesQuestion`,
`SavesReply` and `SavesNothing` for `persistTurn`; `ReplacesRows` and then `ReplacesGen` for reset, resume and
compaction (`CompactBegins` keeps the lock over the model's call); `Restart`. The terminal: `CatchUp`/`CaughtUp`,
`Prompt`, `PromptLevel`, `PromptAnyway`, `PromptNow`, `TurnDone`, `TurnFails`, `Interrupts`,
`ClearConversation`/`ResetAnswered`, `Replace`/`ReplaceAnswered`.

### ProxyGates

*State.* One key in one proxy. `expires` is the cached entry's time, 0 where there is none; `tokens` the bucket of
the key, `inFlight` its slots; `pc[r]` where a request is, `since[r]` when it began to look up or to run; `active`
is the key's row in the database. `revokedAt`, `charged` and `flushed` (the cache was emptied since the key was
revoked) are history. A tick is a unit of the code's time.

*Actions.* `Hit` or `Miss`, `LooksUp` (the database answers), `LookupFails`, `Puts`; `RateRefuses`, `AsksBucket`,
`Acquires` or `NoSlot`; `BodyRefused`, `Charges`, `Releases`; `Flushes`, `Evicts`, `Revokes`, `Tick`.

### SpendLedger

*State.* `own[d]` is a daemon's share of the day, `stored[d]` what it last stored and the others read, `dayHeld`
and the sessions' `held` the allotments that stopped something. `turn[c]` is what a client's question has come to.
`billed`, `unseen`, `stopped` and the sessions' `stopped` are history.

*Actions.* `Refuses`, `Admits`; `Steps`, `StepStops`, `EndsOtherwise` at the top of a turn's step; `CallBilled`,
`CallUnreported`; `Looks` (/budget), `Raises` (/budget more), `NextDay`, `Restarts`.

## Runs

| Run | Instance | Question and answer |
|---|---|---|
| `ledger_sound` | 2 requests, 2 replicas, limit 4, reservations of 3, charge 4, 2 attempts, one crash or drain; beside it the same with RPCs that commit after their timeout, 1 attempt, no exits | While no RPC outlives its caller: the ledger implements `QuotaAccount`, no orphan row, no live row swept, reported at most once, the limit is passed by top-ups only; no row is reported twice even when replies are lost |
| `shared_parts` | chat: 2 terminals, 3 calls, 1 restart after two of them, connections that may break; gates: 3 requests, 1 slot, charges of 4, a burst of 3, a rate of 1, ttl 2, lookups of 1, 8 ticks; spend: 2 daemons, 2 clients of whom one names its session, limits of 3, bills of 2, 6 calls, 2 days, 1 raise, 1 restart or share not stored | No revision overstates what its client shows, no question is answered from a history that lacks stored turns; a revoked key is refused soon, what is charged keeps to the rate, though a round is larger than the burst; past a limit goes only what was under way, and a limit that was met holds until raised |
| `progress` | helper: 3 restarts as `defaultHelperMaxRestarts`; ledger: 1 replica, 1 attempt, one crash or drain; edits: TUI and extension, a CLI undo, 1 block, 1 fault or crash; all fair | All of the supervisor's properties, in every moment of Stop; every reservation is corrected or swept, and what a surviving process swept is reported; every Apply ends, whoever dies holding the lock |
| `ledger_refund_twice` | 1 replica, refunds, lossy | **Violation** of `NeverNegative` |
| `edits_faulty` | TUI and extension, CLI undo, 2 blocks, 1 session kept, 1 save or deletion of the user's, 1 fault or crash | No landed edit is lost; an unforced undo only takes back what its session did last |
| `edits_stale_snapshot` | TUI alone, 2 blocks, 1 fault | **Violation** of `BeforeIsWhatTheRunFound` |
| `work_parts` | approvals: 2 calls of 4 tools with 2 arguments, 2 answers the user did not give, 1 read past; copy: 2 files (one there, one not), 2 contents, 1 name and the judge's, 2 checkpoints, 4 tool calls, 1 user save, 1 refusal; edits: TUI and extension, a daemon's undo, 2 blocks, a file that does not exist at first, 1 user save, no faults | Nothing runs without a yes that speaks for it, a yes is heard, a stop stops; offers spare the user, removals stay, restores bring back what was saved, the judge's too; undo puts back exactly what the run found |
| `copy_removed_returns` | 1 name, 4 tool calls, no saves | **Violation** of `ConsentedRemovalsStay` |
| `daemon_parts` | address: 2 windows, 4 daemons, 1 retry, 1 look for the winner, one failure, kill, failed start, or use of the restart command; turn: 2 phases, 3 calls, 3 bytes in all, 2 a result, a frame of 1, 2 uncut, 1 wait, 2 tools a reply; fair | No daemon is orphaned but by a restart beside an awaited call, every window is served or told unless its daemon was killed; a turn ends within the calls it may bill and leaves the answer its bytes, but for one whole result |
| `gate_flush_overtaken` | 2 requests, ttl 2, lookups of 1, 3 ticks, no charges | **Violation** of `FlushRevokesAtOnce` |
| `turn_cancelled` | a turn of 2 phases | **Violation** of `CancelEndsTheTurn` |
| `address_orphaned` | 1 window, 3 daemons, one use of the restart command | **Violation** of `ClosingReachesItsDaemons` |

*Runs of several parts.* The parts of `ledger_sound`, `shared_parts`, `progress`, `work_parts` and `daemon_parts` share no
variable, so a behaviour of both together says nothing that one of each does not: `part` chooses, in the initial
state, which part the behaviour is of, and the others stay as they start. TLC thus checks each part's own state
graph, one after the other; each module's initial states, steps and properties are the module's own. `SharedPartsMC`,
`DaemonPartsMC` and `WorkPartsMC` extend the modules that the proofs are about, so that a run and a theorem state the
same definition, and TLC evaluates the assumptions the theorem rests on; only `EditSessions` in `WorkPartsMC`, and the
parts that a second run has with other constants (`QuotaPartsMC`, `ProgressMC`), are instances. For that the definitions
of modules that meet in one run have names of their own (`ChatNext`, `SpendNext`, `AddressNext`, `CopyNext`, `HelperNext`).

*Constraints.* Three break a symmetry by hand: in `shared_parts` the first call is the first terminal's
(`FirstCall`) and the requests come in their order (`InOrder`), in `daemon_parts` the first daemon is the first
window's (`FirstWindow`). The others leave cases out for the size of the graph. In `shared_parts` the daemon dies
after two calls at the earliest (`TwoCallsFirst`); the third call is made when one of the first two is over, and
one of the three is no question (`TwoAtATime`); of midnight, a raise and a failure two come in one behaviour
(`TwoTurnsOfFate`). In `edits_faulty` a save or deletion of the user's and a fault do not come together, and a
file is gone only while no run is past its first block (`OneMishap`).

*Why these bounds are enough.* Ledger: 2 replicas are what a double sweep takes; limit 4 with
reservations of 3 makes the second request fail its reservation and go through the tail with 1 left; a
request that finishes with a charge of 4 is topped up, by 3 after a tail, one that produced something but
reported nothing keeps its reservation, and one that produced nothing is refunded; 2 attempts contain a retry; `StaleAfter = Lifetime = 1` is the tightest case of the assumption, where a too early
sweep shows at once. Edits: 2 blocks are needed for a
block to find what the one before left, 2 runs and an undo for every pair of kinds to meet under the
lock, `Keep = 1` makes every new session prune, one user save or one fault may fall anywhere. Copy: four
tool calls hold a save, two changes and a restore, or a save, a move, a command and a restore; two files
are the least for a move. Helper: the constant is the code's. Chat: three calls are what it takes for a client to
hold a revision, another to change the chat and the first to ask again; a restart falls between any two steps
of two calls, and a third follows it. Gates: three charges on one slot, each larger
than the burst as the proxy's constants allow, are what it takes to pass the bound if every debt were forgiven;
in eight ticks a debt that was cut at its floor is paid off and met again; a ttl of
two ticks is the least in which a use could prolong an entry. Spend: with limits of a call and a half, the bill that
passes one, a step that looks before it and the summing up are three calls of one client, and the other does the same.
Approvals: two calls are needed for an answer to be stale and for a grant to be used; more extra
answers than the daemon reads past, so that the refusal is reached. Address: two windows race, a third daemon
follows a failure and a fourth a restart. Turn: three calls leave two phases one call and the summing up; a reply
with two tools exceeds the share of the first phase, if it could, and finds the frame larger than what is left; one wait and one repeat reach their limits.

`CHECK_DEADLOCK FALSE` in every run: each of these systems comes to rest (all requests resolved, all
runs and undos over, the turn over or reviewed, the supervisor stopped, no call left to make). That it does not rest too early is what
`EveryReservationResolves`, `EveryApplyEnds`, `StopEnds`, `DeathIsNoticed`, `Served` and `ThisTurnEnds` check.

## Fairness

- **Ledger** (`FairSpec`): weak fairness of the clock, of each request's reservation, stream and correction
  (every RPC has a client timeout and every stream a ceiling), of each process's sweep (a ticker), listener,
  exit (the drain has a deadline) and restart (the platform's restart policy). Arrivals, crashes and drains
  are not fair.
- **Edits**: weak fairness of the steps of an Apply once the user has said yes. A CLI undo is not fair: it may ask
  its question while it holds the lock (`daemon/apply_cmd.go:320`), so a client that waits for it waits for a
  person; `EveryApplyEnds` says so (`AtAPrompt`).
- **Helper**: weak fairness of the monitor, of Stop, of the exit of a helper that was killed and of the
  goroutine that reaps it. A helper that was only asked to end may ignore it; one that runs may run for ever.
- **Address**: weak fairness of each daemon's start and shutdown and of each window's awaited probes, timers and
  exit events. Opening, closing, the restart command and failures are not fair.
- **Turn**: weak fairness of its steps: a call returns (`streamWithRetry` bounds a silence), a tool returns (its
  context has the turn's deadline), the user answers or the question times out.

In `progress` and `daemon_parts` one condition on the disjunction of the fair actions stands for the separate ones: no
part comes back to a state it has left (TLC confirms `<>[][FALSE]_allVars` without any fairness), so every
behaviour comes to rest, and where it rests no fair action is enabled, which is what each separate condition asks.

## Proofs

TLAPS proves the following for every value of the constants. Nothing is assumed but the named
assumptions of the modules, which TLC evaluates in every run.

**`QuotaLedgerProofs`** (any requests, replicas, limit, sizes, attempts and times with `Lifetime <= StaleAfter`)

- `TypeCorrect` - `TypeOK`, with the bound on attempts.
- `LiveRowsAreNeverSwept` - lost replies, crashes and drains included.
- `StrandedRowsAreReportedOnce` - whatever number of replicas sweep.
- `OpenRowsAreDebts` - `NoOrphanRow`, and `LedgerImplementsAccount` - `Spec => Account!Spec`; both assume
  `~LoseReplies`, and are false without it (that is what `ledger_refund_twice` is about).
- `OverdraftIsToppedUp` - `OverdraftIsTopUp`, for any finite number of requests; it assumes `~LoseReplies` too, as a
  correction applied twice is a debt no request stands behind.

The invariant is `LedgerInv`. `LiveRowNeverSwept` alone is not inductive: that a row of a live request is
not stale needs `LiveRowsYoung` (its age is at most `Lifetime`, since `Tick` cannot pass a live request's
timeouts, and a row that is not open has age 0), and that a new reservation starts with age 0 needs `FreshRows`
(an attempt's row is absent until the attempt is granted). `ReportedAtMostOnce` needs `ClaimsExclusive`: a row
in one sweep's reply is swept, in no other reply, and not yet reported. The refinement needs `RowsMatchRequests`:
a request that is streaming or correcting has its row open, a row holds the amount its request reserved, and it
is deleted by a correction only when its request is done, by a sweep only when it is gone. Each is preserved
action by action; the refinement maps `ReserveGranted` to `Hold`, `CorrectOk` to `Settle`, a sweep's claim
to `Forfeit` of the claimed set, and every other action to a stutter.

`OverdraftIsTopUp` adds up what each correction found beyond its reservation. Its proof needs what a sum over a finite set
does: it changes by what one of its terms changes by (`SumChanges` of `NumberTheorems`), shown by induction over how many
elements the set has. An action then moves `used` and one term together, or lets `used` fall; an admission leaves `used` at most at
the limit, and no sum of top-ups is less than zero.

**`EditSessionsProofs`** (any runs, undos, blocks, files, user edits and faults)

- `SessionsAreCounted` - `TypeOK`; `AppliedEditsStay` - `NoAppliedEditLost`; `UndoKnowsItsOwnEdits` -
  `UndoStartsFromItsOwnEdit`; the last two are action properties.

That a session's number is one of `Sessions` rests on two facts: a run that is not over has a block to do, and a
session is minted only for a block that has none (`MintsAreCounted`). `LockInv` is the lock: whoever verifies, keeps
snapshots, writes or restores holds it, and a run that does still finds in its file every edit it read and no
other; this alone keeps the applied edits, crashes included. For the undo, `OnlyLanded` says that an edit that is
read anywhere has landed and that its run is past it, and `AfterInv` that a snapshot in `after/` ends with an edit
that landed in this file in this session, or will never land, or is the one its run is about to land - which is why
the comparison with `after/` tells an edit of the session from one of another.

**`WorkingCopyProofs`** (any files, contents, names, sizes, limits and number of tools, saves and refusals)

- `CopyIsTyped` - `CopyTypeOK`; `OffersSpareTheUser` - `OfferSparesTheUser`; `RemovedFilesStayRemoved` -
  `RemovedStaysRemoved`; `RestoresAreWhole` - `RestoreBringsBack`, an action property.

`Copying` and `Offering` say what is known of a file before and after the walk came to it, and `SavesShow` that a
save since then shows in its size or time: with them no offer is of a file that the user saved. For restores,
`OthersFollow` says that a file which no edit and no command changed is the project's own in the copy, and
`SnapshotsSound` what a checkpoint needs to be put back: nothing in it was removed since (a removal makes it
unrestorable, by `reshaped`), what it holds still counts as changed, and what it does not hold was the project's own when
it was taken and still is; for the judge's best code the same of what commands wrote (`SoundForJudge`). The list of
checkpoints is filtered in place and cut at its limits; what it may then hold is shown by following `Walk` along
it, one element at a time.

**`DaemonPartsProofs`**, the address (any windows, daemons, retries, looks for a winner, uses of the restart command,
failures)

- `AddressIsTyped` - `AddressTypeOK`; `NoDaemonIsOrphaned` - `NoOrphan`.

A window that starts a daemon forgets the one that was its own. That loses none because a window does one thing at
a time (`OneConcern`): it awaits the probe of `ensure`, owns a daemon, looks for the winner of a race, has a timer, or
waits for a daemon it asked to stop. Only the restart command, begun while another call of the window still awaits
something, breaks that (`Overlapped`): `OneConcern` is about every other window, whether or not it owned a daemon when
the command was used, and `NoOrphan` says that there is no orphan without such a use. With one there may be:
`address_orphaned`.

**`DaemonPartsProofs`**, the helper (any `HelperMaxRestarts \in Nat`)

- `TypeCorrect` - `HelperTypeOK`; `StopLeavesNothing` - `StoppedMeansGone`; `NeverTwoHelpers` - `OneHelper`;
  `StopEndsRestarts` - `NoRestartAfterStop`, an action property.

The invariant (`Supervised`) adds to the types that a running helper is supervised - it is the one Start waits for or
the one whose exit the monitor watches (`RunningIsSupervised`) - and how far Start and Stop are (`StartStages`,
`StopStages`): a helper is spawned only when the one watched has been reaped, and Stop returns only after
the monitor has.

**`DaemonPartsProofs`**, the turn (any number of phases, ceilings and durations)

- `TurnTypeCorrect` - `TypeOK`; `TurnBilledWithinCeiling` - `BilledWithinCeiling`; `TurnKeepsAnswersBytes` -
  `AnswerKeepsItsBytes`.

`BilledWithinCeiling` is not inductive. The invariant (`TurnInvHolds`) adds that the requests billed are the calls of this
phase and of the earlier ones, and one for a summing up (`Counted`); that a phase that answers and has called twice still
has a call left, which is what `budgetStop`'s reserve is for (`CallsBounded`); and that a summing up ends the turn, so
that no second one follows (`WrapsOnce`). `AnswerKeepsItsBytes` is: what a tool says is cut to what is left, or comes
whole once, and that it did is not forgotten (`WholeStays`).

**`ChatSyncProofs`** (any clients, any number of calls and restarts, connections that break)

- `ChatIsTyped` - `ChatTypeOK`; `NeverToldMore` - `NeverOverstated`; `AnswersFromAll` - `AnsweredFromAll`.

A client's revision claims turns of a chat that others append to, replace and number again while answers are on their
way. The invariant (`ChatInvHolds`) speaks of revisions apart from who holds them: `Known` - none is ahead of the chat,
in daemon's life, generation or row - and `Speaks` - of the chat as it is, what a revision covers is among these turns.
`Truths` are all that can be said so, and the step on which the proof rests is that they outlive whatever any call does to
the chat (`TruthsStay`): an append has a higher row id than any revision of this generation, and a replaced chat has
another generation or is a restarted daemon's. Between the replaced rows and the new generation, while the writer holds
`historyMu` (`Holding`), no revision speaks of the chat as it is (`Replacing`); what the readers read meanwhile carries the
generation before, because that is read before the turns, and speaks of no chat any more once the new one is counted. The rest, one conjunct per stage (`CallInv`), follows a question, a catch-up and a replacement
from where it is sent to where its answer is taken, and `Waiting` says that a client that replaces the chat does
nothing beside it. TLC found the invariant to hold on an instance with 2 clients, 3 calls, a restart and severed
connections (2.4 million states) before it was proved.

**`LimitsProofs`**, the gates (any requests, slots, rates, sizes and times)

- `SlotsAreCounted` - `TypeOK`; `RevocationIsSoon` - `RevokedIsRefusedSoon`, an action property;
  `ChargesAreWithinRate` - `ChargedWithinRate`.

`LookupInv` says how old an entry, and an answer that is not put in yet, can be once the key is revoked. `Budget` says what
the bucket still holds: enough for the debts of the slots when a request is about to take one - the bucket was asked at
this very tick, so only requests that ran before can have been charged since - and then no less than two rounds of debts,
of which those that run are not yet charged. A bucket may hold less than that: its debt is cut off at a burst below zero, and the rest is forgiven.
`Budget` therefore speaks of the balance `u` that the bucket would have if the debts since it last let a request through had no floor,
and of the number `k` of times that some were forgiven before (`Owed`): a bucket at its floor lets nothing in before it has gained more
than a burst, and what is forgiven each time is no more than two rounds (`Forgiven`). The theorem holds for any burst,
the proxy's 120000 with eight requests of 32768 and more included.

**`LimitsProofs`**, the spend ledger (any finite sets of daemons and clients, any limits but 0, any sizes of calls
that have a largest, any number of days, calls, raises, restarts and shares that could not be stored)

- `SpendIsTyped` - `SpendTypeOK`; `OverrunIsBounded` - `OverrunBounded`; `LimitsAreHeld` - `HeldUntilRaised`, an action
  property.

The invariant (`SpendInvHolds`) counts what was billed together with what the turns under way may still bill before they
ask the ledger again: two calls where one is under way, one before a step or a summing up (`Due`). A turn that asks
and passes was below the limit itself, so whatever all turns may then still bill is within the allowance; a call bills
no more than what was counted for it. `DayBounded` says that of the day, where every daemon's count is the sum of all
shares as long as each share was stored; `SessionBounded` says it of a session and its own turn. `StopsHeld` says that a
limit that stopped something is held by the allotment it used up: it holds until that is raised, whatever is billed,
looked at or rolled meanwhile. The sums are over any finite set of daemons and clients (`NumberTheorems`). TLC
met no violation of the invariant on over 6 million states of an instance with 3 clients and 2 daemons; it was
stopped before it had seen all of them.

**`ToolApprovalProofs`** (any tools, arguments, number of calls and of wrong, late or repeated answers)

- `ToolsRanOnlyApproved` - `RanOnlyApproved`; `ShutdownStartsOne` - `OneStartAfterShutdown`; `StopIsKept` -
  `StoppedMeansStopped`, an action property; `YesesAreHeard` - `YesIsHeard`.

The invariant says who stands behind what the daemon relies on: only the last call is undecided (`OneAtATime`), an
answer on the wire with its call's arguments is what the user said to that call (`AnswersAreTheUsers`), a grant is
what the user approved for the turn (`GrantsAreTheUsers`), a call that began under a shutdown is the last one
(`LateIsTheLast`), and with a client that sends nothing but the user's answers at most one answer is under way
(`OnlyTheAnswer`), which is why a stop that was answered was also read. For the yes, `HeardInv` adds that the answer
to the open question is still to be read, and that what lies before it, with what was read past, is no more than what
a client sent besides - so the daemon's patience for stale answers reaches as far as it.

**Only model-checked.** Liveness under fairness: `EveryReservationResolves`, `SweptIsReported`, `EveryApplyEnds`,
`StopEnds`, `DeathIsNoticed`, `Served`, `ThisTurnEnds` (the prover has no ENABLED). Of `EditSessions`,
`UndoRestoresWhatTheRunFound`, which only holds in instances without faults and deletions. `ReportedOnceThoughLost` of
`QuotaPartsMC` is `ReportedAtMostOnce` - which is proved - on an instance of its own, and `PartsTypeOK` of a run with several
parts joins the type invariants of its modules, each of which is proved. What a recursive
definition computes is proved nowhere in general; the sums and the walk along the checkpoints are followed by an induction stated
over a set of numbers (a set of naturals with 0 and every successor is all of them), from the well-foundedness of `<`.

## Findings

Each is a run TLC refutes; `PROJECT.json` quotes what the repository says of it.

1. `ledger_refund_twice` - `tryCorrectUsage` takes a timed-out `apply_correction` for one that did not happen
   and sends it again; the function adds its delta whether or not the row is still there. A refund that
   commits late is applied twice and `tokens_used` goes below zero (`proxy/main.go:2651`).
2. `edits_stale_snapshot` - a block that fails after its `before/` snapshot leaves it behind; a later block of
   the review keeps it, so undo restores content older than what the user saved in between
   (`editapply/apply.go:430`).
3. `copy_removed_returns` - the user is asked about a delete or a move of a file the run made, too, but the copy
   does not count it as one that a restore must not undo (`reshaped`): a restore of an older checkpoint brings the
   file back (`daemon/stage_fileops.go:164`).
4. `turn_cancelled` - the pipeline goes on after a phase that ended because the user stopped the task at a
   question: the next phase asks the model, though the user was told that nothing further ran
   (`daemon/orchestrator.go:254`).
5. `gate_flush_overtaken` - a lookup answered before a revocation is put in after the flush that was to make it
   immediate, and lets requests in for a ttl (`proxy/main.go:1383`).
6. `address_orphaned` - the restart command probes on its own before it joins `ensure()`: used while an `ensure()`
   is in flight, both start a daemon, and closing the window stops the second only
   (`clients/vscode/src/daemonSupervisor.ts:213`).

Six more comments of the code are stated in the modules, at the end of each, and TLC refutes them on a small
instance as well, without a run of their own: of the first three a property of some run says how far the code
goes, and the others are local to one call.

- `RevokedWithinTtl` (`ProxyGates`; 2 requests, ttl 2, lookups of 2): "A key revoked in the database keeps working for
  at most authCacheTTL" (`proxy/authcache.go:29`). `put` dates an entry from the end of its lookup (`:132`), not from
  when the database answered. `RevokedIsRefusedSoon` gives the bound that holds: less than the ttl and a lookup.
- `CapNeverInverts` (`AgentTurn`; 1 phase, 3 bytes, a frame of 1): "THE CAP MUST NOT INVERT INTO "NO LIMIT" WHEN THE
  BUDGET RUNS OUT." (`daemon/agentloop.go:1268`). Where no more is left than the frame of a third-party result takes, the
  result's own cap is 0 (`:1339`), which the renderer takes for none (`daemon/toolresult.go:63`): the whole result is
  sent. `AnswerKeepsItsBytes` says that this adds one result and its frame, and no more.
- `SilenceIsForStopsAskedFor` (`DaemonAddress`; 1 window): "A clean stop, or one we asked for."
  (`clients/vscode/src/daemonSupervisor.ts:283`). An exit by SIGKILL or SIGTERM is passed over whoever sent the signal: a
  daemon that the system kills is neither started again nor reported. `Served` holds in every other case.
- `SavedNamesStay` (`WorkingCopy`; 2 names, contents of sizes 1 and 3, 4 bytes of checkpoints): "keepCheckpoint adds cp to
  the run's checkpoints, replacing one of the same name" (`daemon/checkpoint.go:134`). It filters the list in place
  (`:139`) before it knows that the save fits; a refused replacement loses a saved name and doubles another.
- `RestoreWantsACheck` (`WorkingCopy`; 1 name, 4 tool calls): "a restore is an edit like any other"
  (`daemon/checkpoint.go:24`). A restore that only removes files adds no edit (`:256`), so an earlier passing check still
  satisfies the finish gate.
- `ShownOnce` (`ChatSync`; 1 terminal, 3 calls, nothing severed): "Level with the new, empty chat -- unless a turn has
  already finished since" (`clients/tui/chat.go:637`). A question asked beside an unanswered ctrl+n is sent with an
  empty revision and finishes with one; the late answer then sets the revision of the empty chat (`:639`), and the next
  catch-up shows the exchange a second time.

## Limits of the models

What the models leave out, and what was met and is not a run:

- A charge is an input of `QuotaLedger`; how the relay arrives at it is not modelled. One key is modelled,
  since keys share no state.
- A reservation that commits though its reply is lost is charged and then swept as the code intends
  (`proxy/main.go:1465`); a sweep whose reply is lost reports nothing (`:2779`); both are why `SweptIsReported`
  is checked without lost replies and for surviving processes.
- Edits of the user's home folder take only the per-workspace lock; sessions are ordered by name in the code,
  by number in the model. Directories, modes, links and the Windows lock are left out. A block is a change
  of a whole file.
- A file deleted by the user within a review and created again by a later block counts as created, and undo
  removes it (`daemon/apply_cmd.go:641`); a session pruned while its review is open for over two hours starts its
  snapshots over (`editapply/backup.go:111`). The edits in `work_parts` therefore exclude deletions and keep five sessions,
  and `edits_faulty`, which prunes, checks what still holds.
- The window between `netChanges`' comparison of a file and its read of it (`daemon/stage.go:508`) is accepted by
  the code: `OfferSparesTheUser` excludes exactly it. A move may overwrite a file that exists in the copy only
  (`daemon/stage_fileops.go:113`); the judge ignores a refused save at the limit (`daemon/correction.go:882`). The
  model does both; no property forbids them.
- The supervisor counts restarts over its whole life and never resets them; a second Stop that overlaps the
  first returns early; outside Windows a helper outlives a daemon that is killed. One Stop is modelled.
- `DaemonAddress`: a daemon that drains removes the socket file and the lockfile of the successor its window
  started after `RESTART_EXIT_GRACE_MS` (5 s, no longer than `shutdownGrace`, and shorter than `toolDrainGrace`), although
  `daemon/main.go:431` says that "from this point on losing the race is impossible". The model does it; `Served` is
  stated for windows that stopped no daemon, and whose daemon no signal ended (see `SilenceIsForStopsAskedFor`). Named pipes, the TCP transport, the terminal as a starter of
  daemons and a window's second workspace are left out.
- `AgentTurn`: what the model says, a long task's segments, the local model's guard, and the retries inside a
  call are left out. A ceiling may be passed by one call where the last phase begins with a single call left, and a
  phase of `max_iterations` 1 bills its summing up too; `BilledWithinCeiling` says so.
- `ToolApproval`: provider ids are taken to be unique within a turn, digests not to collide. Grants for a spec, for
  outside paths and for launches are left out.
- `ChatSync`: the prune at 200 turns, the start-up history, the archive's files, the extension's side, and other
  workspaces' rows are left out (ids are used again at once, which is the worst case); a compaction keeps two turns
  rather than four. A failure after the rows were replaced and committed (`daemon/memory.go:528`) leaves the
  generation as it was; and a stream error keeps the old revision though the daemon may save the exchange, so that it
  is added again. The first is not modelled; the second is (`TurnFails`), and `ShownOnce` is refuted in an instance
  without it.
- `ProxyGates`: the limits before the lookup, the bucket that counts requests (any request may be refused by it) and
  the sweep of idle buckets are left out; the slots of all keys together are a refusal that may come at any time.
  Between the question to the bucket and the one for a slot no tick passes.
- `SpendLedger`: dollars are held to limits of their own in the same way and are left out, as are the warnings and
  more than `maxSpendSessions` sessions. The date never goes back: in the code `rollDay` would then start that day
  over, and the next bill overwrite its stored share.
- A crash keeps everything a completed system call wrote (no torn directory, no lost rename).

## Plan

What is left, in order; each with its own module, instance and properties, and proofs where the state is simple
enough.

1. *Proofs about the modules that exist.* Of the invariants and action properties the runs check, one is not stated by a
   theorem: `UndoRestoresWhatTheRunFound`, for instances without faults and deletions.
2. The watcher, the apply path and the start-up catch-up over the two stores of the index.
3. The relay of a stream, composed with `QuotaLedger` through the charge.
4. The drain of the server, a long task's segments, the MCP client's pending calls.
