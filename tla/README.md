# TLA+ models of openmax

openmax is a coding agent: a Rust core (`crates/core`) that runs turns of a
conversation with a model, and front ends (`crates/tui`: a terminal app,
`--headless`, `--stdio`) that drive it. Several openmax processes share
one data directory. These modules model the parts of it in which order matters:
who may write a session, who works in it, what of a conversation is on disk,
what a tool call is run under, what a model's reply is taken to mean, which
processes are signalled, and what the records of a human's decisions can be
made to say by interrupted or concurrent writes.

Paths below are under `crates/`. `sessions.rs:1604` is line 1604 of
`core/src/sessions.rs`.

## The system

| Component | State | Operations | What makes it right |
|---|---|---|---|
| Session store (`sessions.rs`) | `index.json`, per session a transcript, events, sidecars and a lock file; per process `session_owners`, `StoreMemo`, the event logs | create, attach, fork, delete, discard, detach, save, bump, append a sidecar | one writer per session; nothing removed under its owner; nothing removed comes back; no index write loses another's |
| Turn admission (`agent.rs`, `state.rs`) | `running`, `cancel_flags`, `steers`, `sessions`, `message_restorations` | start a turn or a compaction, reload, cancel, steer, attach, detach, panic, settle | whatever runs can be cancelled; a transcript in memory is never behind the disk; every work settles, once |
| Conversation (`agent.rs`, `sessions.rs`, `compaction.rs`, `refreeze.rs`) | the messages, `persisted_count`, deferred edits; the file, `turn_ends`, `resume_points`, the archive | prompt, steer, note, request, answer, tool reply, refusal, prune, hydrate, reload, save | requests a provider accepts; the file is a prefix of memory; boundaries stay between turns; nothing durable is lost |
| Capability ledger (`ledger.rs`) | `log.jsonl`, `chain-head`, `chain-head.pending`, quarantined logs; each process's cache | approve, forget, repair, the gates' queries | what is pinned was approved to the end; what was approved stays; nothing is destroyed |
| Tool gate (`agent.rs`, `permissions.rs`) | a reply's calls, the card, the rules and mode as last read | evaluate, ask, answer, time out, run, cancel | a call runs under the narrowest mode and rules in force when it is decided, and each is answered once, in order |
| Hooks (`hooks.rs`, `handlers.rs`) | manifests, scripts, approved hashes and shapes | discover, judge a call, a prompt or an end | what blocks was approved, what was approved still blocks, and nobody is locked out of repairing it |
| Trust and modes (`trust.rs`, `state.rs`) | `trust.json`, its lock and stamp, each process's mode | trust, refresh, adopt, answer, select | no write is lost; only the user of a process loosens its mode |
| Provider client (`client.rs`, `client/`) | a stream's partial message, attempts | send, read, retry, cancel | a call that runs is one the server meant; nothing shown is sent for again; every request ends |
| Process execution (`execution.rs`) | process groups, the live registry, the record on disk, the watcher | spawn, time out, cancel, kill, record, reap | no group outlives its run, no stranger is signalled |
| Terminal app (`tui/src/app.rs`) | its own idea of the turn, queued prompts and steers | keys, events | agrees with the core; a typed text reaches it once |
| Machine front ends (`tui/src/stdio.rs`, `tui/src/headless.rs`, `tui/src/main.rs`) | commands, deadlines | submit, steer, stop | every submission is answered; a stop ends |
| MCP client (`tui/src/mcp.rs`) | none of its own: `--mcp-list` and `--mcp-call` are run as a process of their own | list, call | bounded by its timeouts |
| Subagents (`tui/src/subagent.rs`) | a worktree and its branch | create, finish | no work in a worktree is lost |
| Sign-in (`chatgpt.rs`) | a token file and its lock | login, refresh, logout | a rotated token is not lost |
| Prefix freeze (`refreeze.rs`, `prompt.rs`, `registry.rs`) | the frozen prompt, tools and their receipt | freeze, compare, reload | what is sent is what was frozen |
| Compaction (`compaction.rs`) | budgets | prune, summarize | stays inside the model's window |
| Tools, memory, recall, doctor, spec, skills, templates, providers, configuration | files | read, rank, report, edit | mostly functions of files |

They interact by calls inside one process (a front end calls `start_turn`,
`cancel`, `steer`, `attach`, `detach`; the turn loop calls the client, the gate,
the store and the ledger), by events the core sends to front ends, and by files
between processes: the index and the transcripts under flocks, the ledger's log
and the trust store under theirs. The hard behaviours are the interleavings of
processes on those files, of the tasks of one process on the four maps of
`state.rs`, of events a front end has not read yet with what it does meanwhile,
and writes that fail or are cut short. `PROJECT.json` lists each hazard at its line.

## Modules

| Module | What it is |
|---|---|
| `SessionLeases` | abstract specification: each session is leased to at most one process, which alone writes and removes it, and a removed one never returns |
| `SessionStore` | the store as code: two threads per process, calls as steps between locks, deaths, a damaged index, failing writes; refines `SessionLeases` (`ImplementsLeases`) |
| `SessionStoreInv`, `SessionStoreProofs` | its inductive invariant, in layers, the theorems, and that it implements the leases |
| `TurnContract` | abstract specification: what a front end is promised of the works it starts |
| `TurnAdmission`, `TurnAdmissionProofs` | one process: the inner task of a work with its `MessageGuard`, the outer one that settles it, and the front end around them; refines `TurnContract` (`KeepsContract` its steps, `WorkSettles` its fairness) |
| `TurnFrontend`, `TurnFrontendProofs` | the terminal app, over `TurnContract`, and its theorems |
| `TranscriptOps` | the pure algorithms on messages: completing and dropping tool replies, moving boundaries, pruning |
| `TurnTranscript`, `TurnTranscriptProofs` | one session's conversation, in memory and on disk, through the turn loop, and its theorems |
| `CapabilityLedger`, `CapabilityLedgerProofs` | the ledger, and its theorems |
| `ToolGate`, `ToolGateProofs` | the calls of one reply, from their receipt to their answers, and its theorems |
| `HookPolicy` | hooks discovered, changed, approved and consulted |
| `ApprovalModes` | the trust store and the modes of the processes that share it |
| `PolicyProofs` | the theorems of the modes and the hooks |
| `CallAssembly` | pure: tool calls put together from the fragments of seven dialects |
| `ClientStream` | one request: its attempts, its stream, its cancel |
| `ProcessGroups`, `ProcessGroupsProofs` | commands, their groups, and who may signal them, over a kernel that hands out numbers again |
| `MC*` | instances for TLC: the values of constants, symmetry, and in `MCPolicies` the union of parts that share nothing |

Each models what the one below it takes for granted. `TurnFrontend` is composed
with `TurnContract`, which `TurnAdmission` is shown to implement; the app is thus
checked against what the core does without the product of the two being built.
`TurnTranscript` has one actor because `TurnAdmission` shows one work at a time has a session's
transcript (`OneWorkOneTranscript`); `TurnAdmission` has one
process, and lets another one touch a transcript only while the session is
free, because `SessionStore` shows that of the claims (`OneOwner`,
`ImplementsLeases`). `ToolGate` takes one approval mode that may narrow at any moment,
which `ApprovalModes` explains (`OnlySelectionLoosens`), and one verdict per call from the
hooks, which `HookPolicy` explains; what a reply's calls are is `ClientStream`'s.

### SessionStore

Every process has a `ui` and a `turn` thread. A call is a record in `job`
moving through the places of `pc`; the places are where the code takes or
releases `index.lock` (`flock`), `Core::sessions_lock` (`memoLock`) or
`session_owners` (`ownersLock`), or where a file changes while none protects it. `Call` begins a call with
what its front end knows, `Step` moves it: `claim_session` is `own`, `again`,
`claim`, `open`, `try`; a removal goes on through `lock`, `read`, `write`,
`forget`, `erase`, `unlink`, `leave`. Taking the memo's mutex and the index
flock (`lock_store`) is one step: they are only ever taken together and in that order.
A lock file is `linked` (the one its name leads to) or `unlinked` (held open and
removed since), which is what a claim's re-check of the inode is about.

Constants that say which environment is meant: `Calls`, the kinds of call made;
`MaxCrashes`; `Faults`, whether the index may stop parsing and writes fail;
`LeftRemoval`, whether a front end removes a session it has just left while its turn is
still finishing. With `LeftRemoval` the store's claim is unsound, which is a
finding (below); the invariants about claims hold without it, those about
the index hold with it. A process runs one turn at a time here, though the core can run
one per session: turns of two sessions share only the locks. Session ids
are handed out once (they are UUIDs), so a behaviour ends when they are used
up, which is the deadlock the cfgs allow. An append that fails and whose cut-back fails
too is not modelled.

### TurnContract and TurnAdmission

`TurnContract` has, per session, whether a work is in it and what it is
(`working`) its pending steers (`pending`) and the receipts and reports not yet read (`mail`): an admitted work goes on, may
take steers, and settles once with a receipt, after which the next may be admitted.
`TurnAdmission` is the code. `work[w]` is a turn, a compaction or a reload: its place, its guard
(`take`, `text`), its steer queue. `events` is what the front end is told.
`finish_session_work` settles in one step because it holds `sessions` and
`running` from its first write to its last. Where the code uses `try_lock` the
model lets it fail at any time. Front ends await a reload and do nothing
else meanwhile, as all three do. A transcript is the sequence of the things
users said.

### TurnFrontend

`app` is the fields of `App` that say what runs and where typed texts are:
`running`, `compacting`, `queued`, `steered` (how many of the queue are sent as
steers), `flush`, `submit` (a prompt waiting for its session), `draft` (the composer) and
the sessions `left` while they worked. Events wait in `mail`, and the user does anything between
any two of them. Handing an event to the app (`Read`) is the whole handler, with the submissions
it leads to. Three histories say what a property is about: `said` and `gone`, the texts the
core took and the ones nobody holds; `insync`, that no receipt is unread of a
work the app does not know of; and `brought`, the texts left with a session though its turn may have
accepted them: the queue's steered ones, or, out of sync, all that was held. A text is the set of what was typed into it,
since the composer joins the texts it is handed back; the order of their lines is left out. `insync` is there because two of the app's shortcuts are visible:
a session resumed while its turn still runs shows as idle, so that the turn's `Done` ends the
next one on screen; and any error told during a compaction settles the app
early. That an idle session shows as idle (`IdleTrue`) and that no text goes to the core twice (`SentOnce`) are claimed while in sync, all else everywhere. Left
out: forks and rewinds, /reload, approval cards and quitting.

### TurnTranscript

A message is an id, a role, the calls it makes or answers, the turn it belongs
to, and whether it is truncated or carries a note. `phase` is the place in
`run_loop`; `file` and `synced` are the transcript and how much of it a power
cut leaves. `save_messages` is `SaveStep`, over all its outcomes: refused, failed, appended, an append that fell
back to a rewrite, with the deferred edits landing or not; a save and the
index write it may bring are one step, a death between them being one that
follows an index write that failed. `commit_compaction` is three steps (`Archive`, `Reindex`,
`Rewrite`). Two history variables set apart what the code accepts: `slipped`, a boundary left off
by a cut in `commit_compaction` that its comments accept, and `late`, an end recorded
while edits were deferred (below). `Keep` and `Whole` stand for the budgets that
decide how many of the last rounds a prune keeps.
`Starts` are what a session may be found as: none yet, and three shapes of earlier builds, one with a
stray reply, one without its prompt, and one that release 2026.10.0 shortened, whose note
stands ahead of the request (`compaction.rs:577`).

The repairs and the prune are written without loops, so that they can be proved
about. A place is a pair: `<<i, 0>>` is where message i is, `<<i, c>>` where the
stub for call c goes after the run that ends at i. `Completed` is all the places in their order
(`InOrder`), `Unstrayed` those of the messages that stay, and the edits of the
boundaries are the ranks of what came or went, in the order in which the
code's loops make them. A prune is named by what it truncates and where its drop loops stop (`Stops`): the first leaves `Keep`
messages, the second, which runs once the note is in, counts the note too and may take one round more. What it
pins is the opening run of plain users' messages (`PinnedHead`), which goes on over a note that tells only of
truncated outputs when a plain message follows it (`Pinned`).

### CapabilityLedger

A hash names a record and everything before it, so a head is modelled as the log
up to it. An append is `Vouch` (verify and decide, under the lock),
`WritePending`, `AppendRecord`, `Flush`, `Pin`, `Clear`; a repair is `Repair`
and then `Repin`, or `QuarantineTail` and `KeepPrefix`, or `Quarantine` and
`Unpin`, and `Repaired`. `safe` is what a power cut is sure to leave; `PowerCut`
chooses between it and `disk`, with a torn line in between. A gate's query is four
steps, as it reads without the lock: the pin, the log with the cache, the log, the
pin, the pending pin; `window` is a history of what the pin was meanwhile.
The pin is durable when `write_atomic` returns, which `sync_all` makes so; `append_chained` needs no barrier there
(`ledger.rs:535`), and on Apple its sync is only one of order (`sessions.rs:1107`). There a cut after a finished act may
still leave the old pin beside the pending one, which reads as an interrupted write until the next append or
repair pins it again, so `CompletedActsHold` and what rests on it are about the other platforms.
Left out: edits of the files by anything but openmax, a directory sync that fails in
the same run as a power cut, `approval_events`' ids, and the record's fields but
for kind, path and content. `Contents` are contents of different hook shapes,
so a new content at a path is always a new shape.

### ToolGate

A reply's calls are cut into batches and single ones (`partition`), each is judged: the
hooks' verdict, the permission rules as reread, the approval mode as reread, an
unapproved capability, and then a card that is answered, times out or is cancelled. What is reread
and when is the point, so the file of rules, the mode on disk and a tool's code have versions that change
between any two steps, and a decision carries the versions it was made under. At a reply's first call the two refreshes in a
row are one, and the wait for a post-hook belongs to `Run`. `AgentSpawned` is FALSE in the run: a subagent's calls
go through the same gate without a card.

### HookPolicy, ApprovalModes, CallAssembly and ClientStream

`HookPolicy`: manifests at places of the project and the data directory, which shadow one another by
stem, and beyond `Cap` are dropped; approved bytes and approved shapes; edits of a manifest or a script between discovery
and the moment a hook is consulted. Tool filters, the events that only observe,
and the wording are left out; checking a script and starting it is one step. `GatesHold`
excepts a gate whose own file now holds other bytes a human approved.

`ApprovalModes`: `trust.json` read and written under its flock by two processes, and by
something that writes it without (`Tamper`). A stamp never collides, an atomic write lands or does not,
and the default of the settings is a constant.

`CallAssembly` is the pure part of the three wires: what index a fragment has, to which call it belongs and when two calls
are the same, for servers that number calls, repeat the id, mint a new one per fragment, use one
index for all, give ids only, send calls whole or spell the name piece by piece. `ClientStream` is a request: attempts,
what may be sent again once something was shown, an event at a time until the
terminal one, with a cut, silence, garbage, a server's failure or a cancel at any place. Backoff lengths, keep-alives, redirects,
reasoning, serialization errors and the exchange for a ChatGPT token are left out. A Responses server's completed text
is assumed to be the one it streamed, if it streamed any; one that streams none has its text shown as it completes. A call whose reply
was capped before the first byte of its arguments runs with `{}`, as the code has it
(`agent.rs:2118`).

### ProcessGroups

A number is free, of a process of a command's group, of the watcher or of a stranger; the kernel gives
a freed one out again, except that one is not given out again before those who poll
it have looked. That is the assumption the code makes too, and the only one about reuse. A command is spawned, registered, recorded, timed out or cancelled
with its grace, and killed; the harness may exit, closing the registry, or die; the watcher then reads the end of its pipe,
and a later launch reads the record. A machine may start again, after which every number is a
stranger's. Left out: records that fail to be written or are cut by `RECORD_CUT_BYTES`, the inheritance
of the pipe on macOS, the spilled output and the sandbox's arguments.

## Runs

| Run | Bounds | Shows |
|---|---|---|
| `store_faults` | 2 processes (4 threads), 1 session, 8 calls, an index that stops parsing and failing writes | the error paths keep the claims and the refinement of `SessionLeases`, and a discard keeps history |
| `store_two` | 2 processes, 2 sessions, the calls that write the index | no index write loses an entry; a fork lists no session without history |
| `store_live` | 2 processes, 1 session, 4 calls, 1 death, fair | every call ends, deaths included; the inductive invariant of the proofs |
| `store_left` | `LeftRemoval` | finding 1 |
| `turns` | 1 session, 2 works of any kind, 2 steers, 2 iterations, another process once | one work, one transcript; steers in order; nothing said is lost |
| `turns_live` | the same without reloads, 1 steer, fair | the refinement of `TurnContract`: its steps (`KeepsContract`) and its liveness, by which a session left is let go of (`WorkSettles`) |
| `frontend` | 2 sessions, 2 texts, 1 compaction, 2 unread events, fair | the app's idea of the turn; texts reach the core once; the queue drains |
| `transcript` | 3 messages, 2 calls per answer, 2 failing writes, 2 deaths, 1 mode change, four starts | the conversation's properties |
| `ledger` | 2 acts on 0 to 2 old observations, 2 contents, 1 failing write, 2 deaths or power cuts, 1 gate | the ledger's properties |
| `gate` | 2 replies of up to 3 calls, 2 changes of mode, rules or code, batches of one at a time beside single calls | what may run and how it is answered |
| `policies` | 2 processes with 2 nested projects, 2 writes; 4 manifests in 3 places, 1 edit, 1 act, 2 calls; 4 replies over 3 wires and 7 dialects, 3 attempts | modes, hooks and requests |
| `processes` | 2 commands, 2 numbers, 2 launches | who is signalled, and what is left running |

Two processes are enough where a property is about a process and the others: each
holds locks that exclude all others alike. Two works show a work and the one that follows it or races it. Three messages,
not counting the replies, are a prompt, an answer with two calls and a next prompt, which is
what the repairs tell apart, or a prompt, an answer and a digest; the older starts add longer transcripts. One
writer is enough for the ledger because a writer holds the flock from its first read to its
last write, so a second one only ever continues from what the first one left, as the
same one does in its next act; a gate shares nothing with another process's. Two cuts
are an interrupted append and an interrupted repair of it. Two numbers for processes make a freed number
come back at once, which is the case that matters. Three manifests are the two that shadow each
other and one more, past the cap. The reply with a call too many is what the client's cap is about, and
three attempts are the first, a repeat and the last one that may be made.

`policies` is the union of three parts that share no state: a behaviour is of one of them.

Some cases are beyond a run's bounds and rest on the theorem: `store_two` has no failing writes or deaths, so that a
fork's entry is backed through those is `ForksListHistory`; `gate` starts one call at a time (`Parallelism` is 1), and its rules let
edits pass without a card, so that the answers of calls side by side come in order and that a call which changes something
is asked about are `AnswersInOrder` and `CallsBound`. The mutex of the running set, which a
start, a compaction, a settling and a detach take before the owners map and nothing takes after it, is
not a lock of `SessionStore`, so `CallsEnd` says nothing of it.

Fairness. In `store_live` each thread's `Step` and each process's `Finish` is strongly fair: a thread
inside a call goes on, and the mutexes and flocks it waits on are let go of again and again and
do not pass it over forever. No thread keeps one for longer than a call, so with the few callers of one
data directory this asks of the platform only that it starves nobody. Whether a front end calls at all is left open. In `turns_live` each work's
`Run` and each session's `Restore` is weakly fair: tokio runs a task that can run. Cancel, steer, attach and detach
are not fair, nor is a panic. In `frontend` the app reads its events and a session's work settles, the latter being what
`WorkSettles` shows in `turns_live`; the user is not fair. In `gate` the turn's own steps are, while the user, the files and the mode
are not: a card that nobody answers times out. In `policies` the client's own steps are
(`OwnSteps`: its timers among them), the server is not. In `processes` a command's own polls and timers, the watcher's read and
a launch's reaping are. No liveness is claimed of the ledger or the transcript.

Counterexamples to read. Five more cfgs are kept that show, each in a few seconds, what
the properties except by name; `tlc -config X.cfg M` runs one.

| cfg, module | Property | Shows |
|---|---|---|
| `FrontendDelete.cfg`, `MCTurnFrontend` | `SpinnerTrue` | deleting the session on screen while it works (`tui/src/app.rs:2282`) clears its id and leaves `running`; its `Done` is filtered out as another session's, and the spinner stays with prompts queueing behind it until /new |
| `FrontendCompact.cfg`, `MCTurnFrontend` | `SteersAreQueued` | /compact typed with the last `Done` unread (`tui/src/app.rs:2705`) leaves more steers counted than texts queued, which the slice at `tui/src/app.rs:3246` does not survive |
| `TranscriptReload.cfg`, `MCTurnTranscript` | `SavesGoThrough` | a /reload whose rewrite fails leaves `persisted_count` at 0 (`refreeze.rs:106`), and later saves of the sitting are refused |
| `TranscriptNote.cfg`, `MCTurnTranscript` | `ClosedIsSaved` | a note about a changed mode is appended to the last tool message, which may be on disk already (`agent.rs:1692`); the file never gets it |
| `LedgerFirst.cfg`, `MCCapabilityLedger` | `NoFalseTamper` | a death in a project's first append, between the record and `chain-head`, leaves a record and no pin; the pending pin is consulted only beside a pin (`ledger.rs:357`), so this reads as tampering |

## Proofs

Checked by TLAPS, for every value of the constants that the named assumptions
allow.

* `SessionStoreProofs`. None of the store's properties is inductive: that no index write
  loses an entry needs to know that the writer's snapshot is current (`SnapInv`), which needs to know
  that who is at a writing place holds the flock (`LockInv`); which ids are
  in use (`IdInv`) keeps a new session from colliding. Those layers (`StoreInv`) hold
  always, with faults, deaths and `LeftRemoval`. The claims' layers (`ClaimInv`, `RemovalInv`,
  `MemoInv`, `TurnInv`) are proved together from `~LeftRemoval`, since a removal's right to
  its session, the memo's truth and a turn's right to write each rest on the other two. `IInv` is
  their conjunction, which `store_live` checks with deaths. From them:
  `TypeCorrect`, `NoEntryIsLost`, `DiscardsKeepHistory`, `ForksListHistory`, `MemoIsTrue`,
  `OwnersExclude`, `EventLogsOwned`, `RemovalsOwn`, `RemovedStaysGone`. `StoreLeases` is the whole
  refinement of `SessionLeases`, step by step: the leases' holder of a session is the process whose claim its
  lock file names while the index lists it, so a claim, a write, a removal and a release each are one step
  of the leases, taken at the one file operation that makes it visible, and every other step of the store leaves what the leases show alone.
* `TurnAdmissionProofs`. `OneWorkOneTranscript` follows from `AdmissionInv`. A session is marked running exactly while one live
  work is in it, with that work's token and, if it is a turn, its queue (`OneInv`, `MarkInv`); what runs or is loaded is
  claimed (`ClaimInv`). Where a transcript is makes the rest: in the map, or taken
  by a work that is at a place its guard covers (`GuardInv`), or on its way back after a panic
  (`RestoringInv`), and the map's empty text means one of the last two (`RestInv`); without these a hydration
  could put the file's older text over what a panicked turn still holds. `TranscriptsGrow` adds that a turn at
  `resolve` has its own prompt last (`PromptInv`), the only thing ever taken back. `SteersAreTold` adds that queues
  rise, lie after what was accepted before them, share no steer and hold none that has been told (`OrderInv`, `ApartInv`, `ToldInv`).
  `TurnsKeepContract` is the refinement of `TurnContract`, step by step. The contract sees a session's work by its mark, its stop
  and whether it has told of a steer, the steers still pending as what the turn accepted, has taken and the queue, end to end, and the events as mail.
  A turn's steps at a boundary move steers along that line, which the frontend does not see, until one is told of or dropped. The receipt needs
  more than admission says: who has told of a steer is past its prompt's gate (`HeardInv`), so none that is heard ends as blocked, and
  one that ends as cancelled was cancelled (`EndsInv`). That a job is not the null is the one assumption it adds (`Jobs`).
* `CapabilityLedgerProofs`. That the pin never names a record the log lacks (`PinNamesLog`, `PinsNameTheLog`)
  is not inductive either. A power cut pairs the synced or the written log with the synced or
  the written pin, so every pair has to agree (`Paired`); the two pins differ only while a repair has taken the
  log away (`PinsInv`); the pin an append writes names the log its barrier has synced,
  which is what its place says (`PlaceInv`); and a repair may pin what follows the pin only because an
  unsynced tail ends in a human's act, which it refuses to pin (`TailInv`). `LedgerInv` joins them with the type.
  `DriveInv` adds, for `NothingIsDestroyed`, `RepairsHeal` and half of `OnlyFinishedActsCount`, that a
  finished act is under every pin there is or may be after a cut, or set aside, and that what is not synced is one append
  whose pending pin names it. The other half is about acts that fail: `FailInv` and `PinsClean` say that no pin a gate can meet
  holds a record that failed or may yet fail, because an append is refused over a tail that grants or retires something and
  each act has a number of its own; `ReadInv` that a pin read earlier is there still or has moved on for good, so a cache
  whose key is read again holds what it says.
* `PolicyProofs`, of `ApprovalModes`. That no write loses another's trust (`TrustIsKept`) needs who is between the load and the write to hold the lock
  and to have read what is kept (`LockInv`, `JobInv`, `KeptInv`). That a stamp kept as read is of modes applied (`ModesTold`) needs stamps never ahead
  of the store (`StampInv`) and a process to name every root the store names (`LiveInv`): without the second half, a selection of a
  mode the store already has could uncover a stricter one saved nearer. `SelectionLoosens` is proved of each step from the same invariant, along
  the chain of directories, whose nearest named root governs.
* `PolicyProofs`, of `HookPolicy`. What went through says nothing of how it came to. `Policy` is what a discovery makes sure of: each gate a human
  installed stands, or something fails closed, and what is kept was approved. `Progress` is what of a call, a prompt or an end
  has been judged and is still to come. From them `GatesAlwaysHold`, `OnlyApprovedRuns` and `AutoStaysOpen`.
* `ToolGateProofs`. `CallsBound` needs what was known of a call between its judgement and its start. What is closed is the
  replies' prefix, and how far past it a call can have begun is what the place says (`PlaceInv`, `AnswerInv`, `StateInv`); a call's mark, the
  loosest mode since it was reached, never exceeds the modes in force, but for the one call of a batch whose hook is awaited (`MarkInv`); every
  set of rules the calls wrote is among those looked at, and outside auto one of those allows nothing unvetted (`RulesInv`); a call that waits
  is still free of every rule it was let in under (`AdmitInv`); and what ran was bound as it started, which looser marks do not undo
  (`RanInv`). `BoundInv` joins them. `AnswersInOrder` adds that no event is sent twice and that which of a call's four were sent is a function of its
  state and the turn's place (`LogInv`), that a card is open exactly where one is awaited, and a yes is marked (`CardInv`), and
  that hooks have been asked of every call up to the place and none after (`HooksInv`). Its hard step is a batch refused half-way: the
  ends of what began, then a start and an end for each of the rest, which the code sends in one go.
* `ProcessGroupsProofs`. `StrangersAreSafe` rests on what every one that may signal knows of the number it holds: a call
  past its spawn leads its group, or its number is not given out until it has looked (`CallInv`, `ApartInv`); what a record of this boot lists, queued
  or written, has no stranger's start time (`RecordInv`); what a watcher or a launch set out to stop is a command's group, or
  one that fell free and it has yet to look at (`ReapInv`); and the start times of one boot do not repeat (`KernelInv`). `ExitsStopAll` rests on the list of live groups being that of the calls at
  the places in between (`ListInv`) and on whatever runs running under its call (`RunInv`). `ProcsInv` joins them.

* `TurnFrontendProofs`. What the app shows as running is so (`ShowsWhatIs`) because a turn shown has not settled or its receipt is unread
  (`TurnShown`), and while a compaction is shown only its own letters are, its success the last (`CompactShown`); in sync a turn's receipt
  is the last letter of its session and of the prompt the app submitted (`InSync`). `ScreenInv` joins them, with the types and what is steered
  (`QueueInv`). For `TextsReachOnce` the steers on their way are a line: the letters that tell of them, then the turn's pending ones (`Places`, `Line`). `OnceInv` says
  of an app in sync that no two of the line, the queue, the composer, the prompt of the turn and what the core has hold one text, but that a steer on its way is
  the queue's own entry among the steered (`LineQueue`), which is why looking a letter's text up there finds the right one; `TextInv` that what is accepted is said, and that each text typed is somewhere (`TextsKept`).
  The theorems assume `~DeletesRunning` and `~CompactsEarly`: these are the switches of the two counterexamples below `Runs`, in which the code breaks
  `SpinnerTrue` and `SteersAreQueued`, so they hold of the app but for those two sequences of keys.

* `TurnTranscriptProofs`. Three layers make `IInv`. `Kinds` is what a file may be at any time, a process or none: it starts with the prompt and a user's
  message or with the message alone, and its digests come right after the first users'. `Conversation` is what a transcript in memory is at each place of a
  turn (`Held`): each tool message is in the run of a message that made its call (`Placed`), and every call is answered in its run (`Settled`), but for the
  last run's while the calls run (`Open`); and what the file holds of it (`OnDisk`): the first messages up to the count, every whole message, every refusal.
  `Proposal` is the same of a prune under way, and that what it drops is archived before the file is touched. `RequestsAnswered`, `FileIsPrefix` and
  `RefusalsOnDisk` follow at once; `NothingLost` is of each step, from the same invariant: a repaired transcript has every message of the file but its strays,
  and a rewrite comes after the archive's write. That a repair leaves a settled transcript (`CompletedIs`, `UnstrayedIs`) is proved of
  transcripts of any length by the order of places: the k-th place has k - 1 before it, so the repaired transcript is known by what precedes and follows each place.
  `FilesResume` also needs that the boundaries lie between turns, and a boundary waits behind edits that have not landed: `Marks` are the
  boundaries as they will be. `TInv` says of them, while nothing `slipped` and no end came `late`, that each divides memory (`InMem`), that those in the
  index divide the file (`InFile`), and that those a prune has moved divide what it proposes (`InPrune`); and of the transcript that no message is of a turn
  to come and a reply is of its call's turn (`Clock`). Each edit of a repair is followed on its own (`Way`), the stubs' first and
  the strays' then, and where it leads is found by counting the places before it.

The assumptions are on the constants and named in the modules that declare them: the sorts share no value and no null, the bounds are
naturals, a directory's chain begins with itself and is its parent's with one more (`ChainAssumption`), a hook file is
known by its place and stem (`HooksAssumption`), numbers and calls are finitely many (`ProcsAssumption`), and a file of
rules that does not parse is none that does (`ToolGate`'s `ConstantsAssumption`). TLC evaluates each on the instance of its run.

Only model-checked: everything about `ClientStream`, and all liveness, `WorkSettles` and `QueueDrains` among it. Liveness under fairness and `ENABLED` are out of this prover's
reach, as is induction over data, which what an assembled call is for every input would need.

## Findings

1. `store_left`. `remove` claims with `claim_session(core, id, false, false)`,
   which takes a session its process has left (`detach` pending) as owned. The turn that is finishing then releases
   the claim under the removal, another process claims the session, and loses its files.

Seen while modelling, and kept out of the properties by name: the five counterexamples above; ends recorded while
edits were deferred are moved by those edits when they land (`late`; `agent.rs:2982` and `sessions.rs:1533`);
the append after a tail of an earlier build's observations replaces the pending pin that vouched
for it, so a death before its record is written reads as tampering; a repair that fails to rename `chain-head` reports success (`RepairHeals` is about repairs with
no failing write); a gate that reads the log and the pin around an append is
refused once for no reason; and a text waiting for its session (`pending_submit`) is kept when
another session is shown.

## Not modelled

`PROJECT.json` gives a reason per component. Rendering, completion, memory, recall, the doctor and
the printed contracts are functions of their input with no state to interleave. The MCP client is a
process with one request and a timeout. The rest is planned.

## Plan

1. `StdioSession`: the machine front ends over `TurnContract`: what each submission is answered with,
   and the stop with its deadline.
2. `ChatgptToken`: login, refresh and logout of several processes on one token file.
3. `Subagent`: a worktree's end; `Refreeze` and `Compaction`: the frozen prefix against the files, and the budgets.
4. Proofs: `ClientStream`'s `RepliesAreMeant`.
