----------------------------- MODULE ProcessGroups -----------------------------
(***************************************************************************)
(* The process groups a harness starts, and who stops them.                *)
(*                                                                         *)
(* A command leads a group; its call stops the group, the exit of the      *)
(* harness stops every group on its list, and what a killed harness leaves *)
(* is stopped, by the record it kept on disk, by its watcher or by a later *)
(* launch.  A number may name a stranger's group once the group it named   *)
(* is gone, and start times repeat after a reboot.                         *)
(***************************************************************************)
EXTENDS Naturals, Sequences, FiniteSets

CONSTANTS
    Pids,       \* the numbers groups may get
    Calls,      \* the commands run
    MaxStart,   \* bound on the start times in one boot
    None

ProcsAssumption ==
    /\ IsFiniteSet(Pids) /\ IsFiniteSet(Calls) /\ MaxStart \in Nat
    /\ None \notin Calls \cup Pids \cup Nat \cup {"stranger"}
    /\ {"stranger", "watcher", "launch"} \cap Calls = {}

VARIABLES
    \* the kernel
    group,      \* the group each number names, and its leader
    clock, boot,
    unseen,     \* <<poller, pid>>: a poller has yet to look at a pid that fell free
    hit,        \* history: a stranger's group was signalled
    \* the harness
    owner,      \* its process
    call,       \* where each command is, and its group
    live,       \* LIVE_GROUPS
    exiting,    \* EXITING
    exit,       \* how far its exit is
    gave_up,    \* history: the exit stopped waiting for a spawn
    \* its record
    queue,      \* the changes sent to the record's thread
    listed,     \* GroupRecord.live
    file,       \* the record on disk
    watching,   \* start_lifeline: not tried, due or tried
    \* who reads records: the watcher and a later launch
    reap

kernel == <<group, clock, boot, unseen, hit>>
record == <<queue, listed, file, watching>>
exits == <<exiting, exit, gave_up>>
vars == <<kernel, owner, call, live, exits, record, reap>>

-----------------------------------------------------------------------------
(* The kernel.                                                             *)

NoGroup == [by |-> None, leader |-> "gone", start |-> 0, members |-> FALSE]
Tidy(g) == IF g.leader = "gone" /\ ~g.members THEN NoGroup ELSE g
process_group_exists(p) == group[p] # NoGroup
Runs(p) == group[p].leader = "runs" \/ group[p].members
start_time(p) == IF group[p].leader = "gone" THEN None ELSE group[p].start

\* A dead leader keeps its number until its parent waits for it.
Waited(g) == Tidy([g EXCEPT !.leader = "gone"])
Dead(g) == IF g.by \in Calls /\ owner = "up" THEN [g EXCEPT !.leader = "zombie"] ELSE Waited(g)
Killed(g) == LET h == [g EXCEPT !.members = FALSE] IN IF h.leader = "runs" THEN Dead(h) ELSE Tidy(h)

\* Whose list a number is on while they wait between two looks at it.
Polls(w, p) ==
    IF w \in Calls THEN call[w] = [at |-> "remaining", pid |-> p]
    ELSE reap[w].at = "stops" /\ p \in {l[1] : l \in reap[w].list}
Reapers == {"watcher", "launch"}
Pollers == Calls \cup Reapers

\* The groups become g; `seen` have just looked at all of theirs.
Groups(g, seen) ==
    LET fell == {u \in Pollers \X Pids : Polls(u[1], u[2]) /\ process_group_exists(u[2]) /\ g[u[2]] = NoGroup}
    IN  group' = g /\ unseen' = {u \in unseen \cup fell : u[1] \notin seen}
Signalled(ps) == hit' = (hit \/ \E p \in ps : group[p].by = "stranger")

Starts(p, who) ==
    /\ ~process_group_exists(p) /\ clock < MaxStart /\ clock' = clock + 1
    /\ Groups([group EXCEPT ![p] = [by |-> who, leader |-> "runs", start |-> clock, members |-> FALSE]], {})

\* A number the harness used names a new group once whoever polls it has
\* looked: polls come every GROUP_EXIT_POLL.
Used ==
    live \cup {call[c].pid : c \in Calls} \cup {l[1] : l \in listed}
    \cup (IF file = None THEN {} ELSE {l[1] : l \in file.list}) \cup {l[1] : l \in reap["watcher"].list \cup reap["launch"].list}
StrangerStarts(p) ==
    /\ p \in Used /\ Starts(p, "stranger") /\ \A u \in unseen : u[2] # p
    /\ UNCHANGED <<boot, hit, owner, call, live, exits, record, reap>>

ProcessStep(p, g) ==
    /\ Groups([group EXCEPT ![p] = g], {})
    /\ UNCHANGED <<clock, boot, hit, owner, call, live, exits, record, reap>>
Backgrounds(p) == group[p].leader = "runs" /\ ~group[p].members /\ ProcessStep(p, [group[p] EXCEPT !.members = TRUE])
LeaderExits(p) == group[p].leader = "runs" /\ ProcessStep(p, Dead(group[p]))
MembersExit(p) == group[p].members /\ ProcessStep(p, Tidy([group[p] EXCEPT !.members = FALSE]))

-----------------------------------------------------------------------------
(* A command.                                                              *)

Init ==
    /\ group = [p \in Pids |-> NoGroup] /\ clock = 0 /\ boot = 0 /\ unseen = {} /\ hit = FALSE
    /\ owner = "up" /\ call = [c \in Calls |-> [at |-> "idle", pid |-> None]]
    /\ live = {} /\ exiting = FALSE /\ exit = "no" /\ gave_up = FALSE
    /\ queue = <<>> /\ listed = {} /\ file = None /\ watching = "not tried"
    /\ reap = [r \in Reapers |-> [at |-> "none", list |-> {}, inside |-> None, keeps |-> FALSE]]

Holders == {c \in Calls : call[c].at \in {"forking", "forked"}}
At(c, at) == owner = "up" /\ call[c].at = at
Goes(c, at, p) == call' = [call EXCEPT ![c] = [at |-> at, pid |-> p]]
Send(change) == queue' = Append(queue, change) /\ UNCHANGED <<listed, file, watching>>

\* Mutant: a command is spawned though the process exits.
BeginExiting(c) ==
    /\ At(c, "idle") /\ Holders = {} /\ Goes(c, "forking", None)
    /\ UNCHANGED <<kernel, owner, live, exits, record, reap>>

\* GroupGuard::spawn, under SPAWNING from its look at EXITING to the group's
\* registration.  The child may stall between fork and exec.
Begin(c) ==
    /\ At(c, "idle") /\ Holders = {} /\ (exit = "closing" => exiting)
    /\ Goes(c, IF exiting THEN "done" ELSE "forking", None)
    /\ UNCHANGED <<kernel, owner, live, exits, record, reap>>
Fork(c) ==
    /\ At(c, "forking")
    /\ \E p \in Pids : Starts(p, c) /\ (\A u \in unseen : u[2] # p) /\ Goes(c, "forked", p)
    /\ UNCHANGED <<boot, hit, owner, live, exits, record, reap>>
SpawnFails(c) ==
    /\ At(c, "forking") /\ Goes(c, "done", None)
    /\ UNCHANGED <<kernel, owner, live, exits, record, reap>>
Register(c) ==
    /\ At(c, "forked") /\ Goes(c, "running", call[c].pid)
    /\ live' = live \cup {call[c].pid}
    /\ Send([k |-> "add", of |-> <<call[c].pid, start_time(call[c].pid)>>])
    /\ UNCHANGED <<kernel, owner, exits, reap>>

\* GroupGuard::settled: the group is signalled no more.
Settled(c) ==
    /\ Goes(c, "draining", call[c].pid) /\ live' = live \ {call[c].pid}
    /\ Send([k |-> "strike", of |-> <<call[c].pid, 0>>])

\* The leader has been waited for: terminate_remaining_group.
Reaped(c, g) ==
    /\ Groups(g, {c}) /\ UNCHANGED <<clock, boot>>
    /\ IF g[call[c].pid] = NoGroup
       THEN Settled(c) /\ UNCHANGED hit
       ELSE Goes(c, "remaining", call[c].pid) /\ Signalled({call[c].pid}) /\ UNCHANGED <<live, record>>
LeaderWaited(c) ==
    /\ owner = "up" /\ call[c].at \in {"running", "terming", "killing"} /\ group[call[c].pid].leader = "zombie"
    /\ Reaped(c, [group EXCEPT ![call[c].pid] = Waited(@)])
    /\ UNCHANGED <<owner, exits, reap>>

\* Mutant: the second signal is the first again.
GraceEndsAgain(c) ==
    /\ At(c, "terming") /\ group[call[c].pid].leader = "runs"
    /\ Goes(c, "killing", call[c].pid) /\ Signalled({call[c].pid})
    /\ UNCHANGED <<group, clock, boot, unseen, owner, live, exits, record, reap>>

\* A cancel or the timeout: SIGTERM to the group, SIGKILL after the grace.
Stop(c) ==
    /\ At(c, "running") /\ Goes(c, "terming", call[c].pid) /\ Signalled({call[c].pid})
    /\ UNCHANGED <<group, clock, boot, unseen, owner, live, exits, record, reap>>
GraceEnds(c) ==
    /\ At(c, "terming") /\ group[call[c].pid].leader = "runs"
    /\ Goes(c, "killing", call[c].pid) /\ Signalled({call[c].pid})
    /\ Groups([group EXCEPT ![call[c].pid] = Killed(@)], {})
    /\ UNCHANGED <<clock, boot, owner, live, exits, record, reap>>

\* A look at what remains, and the kill that ends the looking.
Look(c) ==
    /\ At(c, "remaining") /\ process_group_exists(call[c].pid) /\ Groups(group, {c})
    /\ UNCHANGED <<clock, boot, hit, owner, call, live, exits, record, reap>>
FoundGone(c) ==
    /\ At(c, "remaining") /\ ~process_group_exists(call[c].pid)
    /\ Groups(group, {c}) /\ Settled(c)
    /\ UNCHANGED <<clock, boot, hit, owner, exits, reap>>
RemainingKilled(c) ==
    /\ At(c, "remaining") /\ process_group_exists(call[c].pid)
    /\ Groups([group EXCEPT ![call[c].pid] = Killed(@)], {c}) /\ Signalled({call[c].pid}) /\ Settled(c)
    /\ UNCHANGED <<clock, boot, owner, exits, reap>>

\* finish_stdin_task, join_streams: a process that left the group may hold a
\* pipe; both are waited for with a limit.
Drained(c) ==
    /\ At(c, "draining") /\ Goes(c, "done", None)
    /\ UNCHANGED <<kernel, owner, live, exits, record, reap>>

\* The call is dropped before it settles: GroupGuard::drop and kill_on_drop.
Dropped(c) ==
    /\ owner = "up" /\ call[c].at \in {"running", "terming", "killing", "remaining"}
    /\ LET p == call[c].pid IN
          /\ Signalled({p}) /\ Groups([group EXCEPT ![p] = Waited(Killed(@))], {c})
          /\ live' = live \ {p} /\ Send([k |-> "strike", of |-> <<p, 0>>])
    /\ Goes(c, "done", None)
    /\ UNCHANGED <<clock, boot, owner, exits, reap>>

-----------------------------------------------------------------------------
(* The exit of the harness.                                                *)

\* kill_process_groups: refuse new commands, wait for a spawn in flight for
\* at most EXIT_SPAWN_WAIT, and kill every group listed.
ExitBegins ==
    /\ owner = "up" /\ exit = "no" /\ exit' = "waiting" /\ exiting' = TRUE
    /\ UNCHANGED <<kernel, owner, call, live, gave_up, record, reap>>
ExitKills ==
    /\ owner = "up" /\ exit = "waiting" /\ exit' = "killed" /\ gave_up' = (Holders # {})
    /\ Signalled(live)
    /\ Groups([p \in Pids |-> IF p \in live THEN Killed(group[p]) ELSE group[p]], {})
    /\ Send([k |-> "clear"])
    /\ UNCHANGED <<clock, boot, owner, call, live, exiting, reap>>

\* The atexit handler closes the record, whether the exit killed the groups
\* or the runtime dropped its commands.
ExitCloses ==
    /\ owner = "up" /\ exit \in {"no", "killed"}
    /\ exit = "no" => \A c \in Calls : call[c].at \in {"idle", "draining", "done"}
    /\ exit' = "closing" /\ Send([k |-> "close"])
    /\ UNCHANGED <<kernel, owner, call, live, exiting, gave_up, reap>>

\* The process ends: its exit has waited for the record, or RECORD_CLOSE_WAIT;
\* or it was killed outright.
MemoryIsGone ==
    /\ call' = [c \in Calls |-> [at |-> "done", pid |-> None]]
    /\ live' = {} /\ queue' = <<>> /\ listed' = {} /\ watching' = "tried"
OwnerEnds ==
    /\ owner' = "zombie" /\ MemoryIsGone
    /\ Groups([p \in Pids |-> IF group[p].leader = "zombie" THEN Waited(group[p]) ELSE group[p]], Calls)
    /\ UNCHANGED <<clock, boot, hit, exits, file, reap>>
ExitEnds == owner = "up" /\ exit = "closing" /\ OwnerEnds
Crash == owner = "up" /\ exit # "closing" /\ OwnerEnds

OwnerWaited ==
    /\ owner = "zombie" /\ owner' = "gone"
    /\ UNCHANGED <<kernel, call, live, exits, record, reap>>
OwnerPidTaken ==
    /\ owner = "gone" /\ owner' = "taken"
    /\ UNCHANGED <<kernel, call, live, exits, record, reap>>

-----------------------------------------------------------------------------
(* The record.                                                             *)

\* keep_record: one change, in the order sent, and then the watcher.
Change(kind) == owner = "up" /\ queue # <<>> /\ watching # "due" /\ Head(queue).k = kind /\ queue' = Tail(queue)
Write(list) ==
    /\ listed' = list /\ file' = [list |-> list, boot |-> boot]
    /\ watching' = IF watching = "not tried" THEN "due" ELSE watching
Add == Change("add") /\ Write(listed \cup {Head(queue).of}) /\ UNCHANGED <<kernel, owner, call, live, exits, reap>>
Strike ==
    /\ Change("strike")
    /\ LET struck == {l \in listed : l[1] = Head(queue).of[1]}
       IN  IF struck = {} THEN UNCHANGED <<listed, file, watching>> ELSE Write(listed \ struck)
    /\ UNCHANGED <<kernel, owner, call, live, exits, reap>>
Clear ==
    /\ Change("clear") /\ listed' = {}
    /\ UNCHANGED <<file, watching, kernel, owner, call, live, exits, reap>>
Close ==
    /\ Change("close") /\ file' = IF listed = {} THEN None ELSE file
    /\ UNCHANGED <<listed, watching, kernel, owner, call, live, exits, reap>>

\* start_lifeline, under SPAWNING; the watcher may fail to start.
StartWatcher ==
    /\ owner = "up" /\ watching = "due" /\ Holders = {} /\ watching' = "tried"
    /\ \E at \in IF exiting THEN {"none"} ELSE {"none", "waits"} : reap' = [reap EXCEPT !["watcher"].at = at]
    /\ UNCHANGED <<kernel, owner, call, live, exits, queue, listed, file>>

-----------------------------------------------------------------------------
(* Stopping what a dead harness left.                                      *)

\* Mutant: the owner's number is taken for the owner.
OwnerByNumber == owner \in {"up", "taken"}

owner_is_running == owner = "up"
written_in == file.boot = boot

\* is_recorded_group: a live group's number is given to no process, so one
\* whose leader is gone is still the one recorded.
is_recorded_group(l) == process_group_exists(l[1]) /\ start_time(l[1]) \in {None, l[2]}

\* Mutant: a number is taken for the group it named.
ByNumber(list) == {l \in list : process_group_exists(l[1])}

\* reap_in_boot: the groups of the record whose leader started when it says,
\* but for the group the reader runs in, which keeps the record.
Ours(list) == {l \in list : start_time(l[1]) = l[2]}
Stale == file # None /\ (written_in => ~owner_is_running)
Reads(r, inside) ==
    LET ours == IF Stale /\ written_in THEN Ours(file.list) ELSE {}
        own == {l \in ours : l[1] = inside}
        others == ours \ own
    IN  /\ Signalled({l[1] : l \in others})
        /\ reap' = [reap EXCEPT ![r] = [at |-> "stops", list |-> others, inside |-> inside,
                                        keeps |-> ~Stale \/ own # {}]]
        /\ UNCHANGED <<group, clock, boot, unseen, owner, call, live, exits, record>>

\* The lifeline reads end of file when the owner is gone.
WatcherReads == reap["watcher"].at = "waits" /\ owner # "up" /\ Reads("watcher", None)
LaunchReads ==
    /\ reap["launch"].at = "none" /\ Stale
    /\ \E inside \in {None} \cup {p \in Pids : group[p].by \in Calls /\ Runs(p)} : Reads("launch", inside)

\* stop_groups: a group that does not read as recorded is dropped for good.
Kept(r) == {l \in reap[r].list : is_recorded_group(l)}
ReaperLooks(r) ==
    /\ reap[r].at = "stops" /\ Kept(r) # {}
    /\ Groups(group, {r}) /\ reap' = [reap EXCEPT ![r].list = Kept(r)]
    /\ UNCHANGED <<clock, boot, hit, owner, call, live, exits, record>>
ReaperEnds(r) ==
    /\ reap[r].at = "stops"
    /\ LET killed == {l[1] : l \in Kept(r)} IN
          /\ Signalled(killed)
          /\ Groups([p \in Pids |-> IF p \in killed THEN Killed(group[p]) ELSE group[p]], {r})
    /\ file' = IF reap[r].keeps THEN file ELSE None
    /\ reap' = [reap EXCEPT ![r] = [at |-> IF r = "launch" THEN "none" ELSE "done", list |-> {}, inside |-> None, keeps |-> FALSE]]
    /\ UNCHANGED <<clock, boot, owner, call, live, exits, queue, listed, watching>>
LaunchDies ==
    /\ reap["launch"].at = "stops"
    /\ reap' = [reap EXCEPT !["launch"] = [at |-> "none", list |-> {}, inside |-> None, keeps |-> FALSE]]
    /\ unseen' = {u \in unseen : u[1] # "launch"}
    /\ UNCHANGED <<group, clock, boot, hit, owner, call, live, exits, record>>

\* Every process is gone and start times begin again; the disk stays.
Reboot ==
    /\ boot = 0 /\ boot' = 1 /\ clock' = 0
    /\ group' = [p \in Pids |-> NoGroup] /\ unseen' = {} /\ owner' = "gone" /\ MemoryIsGone
    /\ reap' = [r \in DOMAIN reap |-> [at |-> "none", list |-> {}, inside |-> None, keeps |-> FALSE]]
    /\ UNCHANGED <<hit, exits, file>>

-----------------------------------------------------------------------------
Next ==
    \/ \E p \in Pids : StrangerStarts(p) \/ Backgrounds(p) \/ LeaderExits(p) \/ MembersExit(p)
    \/ \E c \in Calls :
          \/ Begin(c) \/ Fork(c) \/ SpawnFails(c) \/ Register(c) \/ LeaderWaited(c) \/ Stop(c) \/ GraceEnds(c)
          \/ Look(c) \/ FoundGone(c) \/ RemainingKilled(c) \/ Drained(c) \/ Dropped(c)
    \/ ExitBegins \/ ExitKills \/ ExitCloses \/ ExitEnds \/ Crash \/ OwnerWaited \/ OwnerPidTaken
    \/ Add \/ Strike \/ Clear \/ Close \/ StartWatcher
    \/ WatcherReads \/ LaunchReads \/ LaunchDies \/ Reboot
    \/ \E r \in Reapers : ReaperLooks(r) \/ ReaperEnds(r)

Proceeds(c) ==
    Stop(c) \/ LeaderWaited(c) \/ GraceEnds(c) \/ FoundGone(c) \/ RemainingKilled(c) \/ Drained(c)

\* Timers and threads run; processes need not exit, nor spawns return.
Fairness ==
    /\ \A c \in Calls : WF_vars(Proceeds(c))
    /\ WF_vars(WatcherReads \/ ReaperEnds("watcher")) /\ WF_vars(ReaperEnds("launch"))

Spec == Init /\ [][Next]_vars /\ Fairness

-----------------------------------------------------------------------------
(* Properties.                                                             *)

TypeOK ==
    /\ live = {call[c].pid : c \in {d \in Calls : call[d].at \in {"running", "terming", "killing", "remaining"}}}
    /\ unseen \subseteq Pollers \X Pids
    /\ owner \in {"up", "zombie", "gone", "taken"} /\ exit \in {"no", "waiting", "killed", "closing"}
    /\ \A p \in Pids : group[p] # NoGroup => group[p].by \in Calls \cup {"stranger"} /\ Tidy(group[p]) # NoGroup
    /\ \A c \in Calls : call[c].pid # None <=> call[c].at \notin {"idle", "forking", "done"}
    /\ file # None => file.list \subseteq Pids \X (0..MaxStart)

\* No group but one a command of the harness started is ever signalled, by a
\* call, an exit, a watcher or a launch, though numbers are given out again
\* and start times repeat after a reboot (execution.rs:1320, :1789, :1870).
NoStrangerSignalled == ~hit

\* When the exit has killed the groups, and did not give up on a spawn caught
\* between fork and exec, nothing a command started runs any more, and nothing
\* does later (execution.rs:1269).
ExitLeavesNothing ==
    exit \in {"killed", "closing"} /\ ~gave_up => \A p \in Pids : group[p].by \in Calls => ~Runs(p)

\* The list of live groups is that of the calls that have one to stop, and
\* the exit goes by it (execution.rs:1269, :1306).
ExitStopsAll == TypeOK /\ ExitLeavesNothing

\* A command past its spawn ends while the harness runs: cancelled, timed out
\* or left to end, deaf to SIGTERM or not (execution.rs:1138).
CommandsEnd ==
    \A c \in Calls : (owner = "up" /\ call[c].at = "running") ~> (call[c].at = "done" \/ owner # "up")

\* With a watcher, a group on the record of a harness that is gone stops, if
\* its leader has not been waited for before the record is read; and one the
\* watcher set out to stop does, to its last member (execution.rs:1596).
Orphan(p) ==
    /\ owner # "up" /\ reap["watcher"].at = "waits" /\ group[p].by \in Calls
    /\ file # None /\ written_in /\ <<p, start_time(p)>> \in file.list
Pursued(p) == reap["watcher"].at = "stops" /\ p \in {l[1] : l \in reap["watcher"].list} /\ group[p].by \in Calls

LeftBehindStops ==
    \A p \in Pids :
        /\ Orphan(p) ~> (group[p].by \notin Calls \/ group[p].leader = "gone")
        /\ Pursued(p) ~> group[p].by \notin Calls
=============================================================================
