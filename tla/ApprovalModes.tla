----------------------------- MODULE ApprovalModes -----------------------------
(***************************************************************************)
(* Which approval mode each openmax process applies to a project, and the  *)
(* trust store they share.                                                 *)
(*                                                                         *)
(* A process trusts its project (or is refused), takes the saved modes as  *)
(* its own at launch, and from then on only its own frontend's selection   *)
(* loosens them.  What others save is read back where it is stricter.  The *)
(* store is changed by openmax under trust.lock, and by anyone else, a     *)
(* tool of an agent included, without it.                                  *)
(***************************************************************************)
EXTENDS Naturals, Sequences, FiniteSets

CONSTANTS
    Roots,        \* canonical directories
    Chain,        \* Chain[r]: r and the directories that enclose it, nearest first
    Procs,        \* openmax processes
    Project,      \* the project each is started in
    Worktree,     \* the project in its worktree, where it is a subagent
    Teams,        \* which processes may be subagents
    Default,      \* approval_mode of settings.json
    Stores,       \* the trust stores a behaviour may start with
    MaxWrites     \* how often trust.json changes

ApprovalMode == {"readonly", "ask", "auto"}
Unset == "unset"
Saved == [Roots -> ApprovalMode \cup {Unset}] \* approval_modes, Unset where no entry
TrustFiles == [projects : SUBSET Roots, modes : Saved]
Missing == [projects |-> {}, modes |-> [r \in Roots |-> Unset]]

Nobody == "none"

ChainAssumption ==
    /\ Chain \in [Roots -> Seq(Roots)]
    /\ \A r \in Roots : Len(Chain[r]) > 0 /\ Chain[r][1] = r
    /\ \A r \in Roots : \A i \in 1..Len(Chain[r]) :
          Chain[Chain[r][i]] = SubSeq(Chain[r], i, Len(Chain[r]))

ProcsAssumption ==
    /\ Project \in [Procs -> Roots] /\ Worktree \in [Procs -> Roots]
    /\ Teams \subseteq SUBSET Procs /\ Default \in ApprovalMode
    /\ Stores \subseteq TrustFiles /\ MaxWrites \in Nat /\ Nobody \notin Procs

VARIABLES
    spawned,        \* the processes an agent started: they carry OPENMAX_SESSION
    exists, parses, \* whether trust.json is there, and is valid
    file,           \* what it holds, as serde would read it
    version,        \* its stamp: moves with every change
    locked,         \* trust.lock: who holds it, or Nobody
    place,          \* where each process is
    job,            \* the change it is making to the store
    seen,           \* the stamp it took before a read
    live, stamp,    \* ProjectModes, of each process
    kept            \* history: the store as calls alone would have it since
                    \* anyone else changed it

trust_json == <<spawned, exists, parses, file, version>>
trust_call == <<locked, job, kept>>
modes == <<seen, live, stamp>>
modes_vars == <<spawned, exists, parses, file, version, locked, place, job, seen, live, stamp, kept>>

-----------------------------------------------------------------------------
(* Which mode governs a path.                                              *)

Strictness(m) == CASE m = "readonly" -> 2 [] m = "ask" -> 1 [] OTHER -> 0
Stricter(m, n) == IF Strictness(m) >= Strictness(n) THEN m ELSE n

\* The places of a chain at which saved has an entry.
NamedAt(saved, r) == {i \in 1..Len(Chain[r]) : saved[Chain[r][i]] # Unset}

\* nearest_approval_mode, with the default its callers fall back on.
Governing(saved, r) ==
    IF NamedAt(saved, r) = {} THEN Default
    ELSE saved[Chain[r][CHOOSE i \in NamedAt(saved, r) : \A j \in NamedAt(saved, r) : i <= j]]

\* A merge of the two maps' own entries, which forgets what encloses them.
TightenedOwnEntries(mine, theirs) ==
    [r \in Roots |-> IF mine[r] = Unset THEN theirs[r]
                     ELSE IF theirs[r] = Unset THEN mine[r] ELSE Stricter(mine[r], theirs[r])]

\* tightened: every root either map names, at the stricter of the two modes
\* that govern it.
Tightened(mine, theirs) ==
    [r \in Roots |-> IF mine[r] = Unset /\ theirs[r] = Unset THEN Unset
                     ELSE Stricter(Governing(mine, r), Governing(theirs, r))]

Covered(f, r) == \E i \in 1..Len(Chain[r]) : Chain[r][i] \in f.projects

\* approval_modes: the entries of trusted roots.
Trusted(f) == [r \in Roots |-> IF Covered(f, r) THEN f.modes[r] ELSE Unset]

-----------------------------------------------------------------------------
(* The store.                                                              *)

\* load
Content == IF exists THEN file ELSE Missing
Readable == exists => parses
Stamp == IF exists THEN version ELSE 0

\* The change each kind of call makes: grant and set_approval_mode.
Change(f, j) ==
    [projects |-> IF j.kind = "grant" THEN f.projects \cup {j.root} ELSE f.projects,
     modes |-> IF j.kind = "grant" /\ Covered(f, j.root) THEN f.modes
               ELSE [f.modes EXCEPT ![j.root] = j.mode]]

Refuses(f, j) == j.kind = "set" /\ ~Covered(f, j.root)

NoJob == [kind |-> "none", root |-> CHOOSE r \in Roots : TRUE, mode |-> Default, found |-> Missing]
Job(kind, r, m) == [kind |-> kind, root |-> r, mode |-> m, found |-> Missing]

ModesTypeOK ==
    /\ spawned \in Teams /\ exists \in BOOLEAN /\ parses \in BOOLEAN /\ file \in TrustFiles
    /\ version \in 1..MaxWrites + 1
    /\ locked \in Procs \cup {Nobody}
    /\ place \in [Procs -> {"off", "asked", "lock", "load", "write", "stamp", "read", "up", "reread"}]
    /\ job \in [Procs -> [kind : {"none", "grant", "set"}, root : Roots, mode : ApprovalMode, found : TrustFiles]]
    /\ seen \in [Procs -> 0..MaxWrites + 1] /\ stamp \in [Procs -> 0..MaxWrites + 1]
    /\ live \in [Procs -> Saved]
    /\ kept \in TrustFiles

ModesInit ==
    /\ \/ exists = FALSE /\ file = Missing
       \/ exists = TRUE /\ file \in Stores
    /\ parses = TRUE /\ spawned \in Teams
    /\ version = 1 /\ locked = Nobody
    /\ place = [p \in Procs |-> "off"] /\ job = [p \in Procs |-> NoJob]
    /\ seen = [p \in Procs |-> 0] /\ stamp = [p \in Procs |-> 0]
    /\ live = [p \in Procs |-> Missing.modes]
    /\ kept = Content

Moves(p, to) == place' = [place EXCEPT ![p] = to]
Forget(p) == job' = [job EXCEPT ![p] = NoJob]
Release(p) == locked' = IF locked = p THEN Nobody ELSE locked

\* The process ends, its hold of the lock with it.
Leave(p) ==
    /\ Moves(p, "off") /\ Forget(p) /\ Release(p)
    /\ kept' = IF locked = p THEN Content ELSE kept
    /\ seen' = [seen EXCEPT ![p] = 0] /\ stamp' = [stamp EXCEPT ![p] = 0]
    /\ live' = [live EXCEPT ![p] = Missing.modes]
    /\ UNCHANGED trust_json

-----------------------------------------------------------------------------
(* Launch.                                                                 *)

\* ensure_project_trust.  --trust-project grants at once; otherwise a trusted
\* project starts and an untrusted one is put to a human, if there is one.
Trust(p) ==
    /\ place[p] = "off"
    /\ \/ /\ p \notin spawned
          /\ Moves(p, "lock") /\ job' = [job EXCEPT ![p] = Job("grant", Project[p], "auto")]
       \/ Readable /\ Covered(Content, Project[p]) /\ Moves(p, "stamp") /\ UNCHANGED job
       \/ /\ Readable /\ ~Covered(Content, Project[p]) /\ p \notin spawned
          /\ Moves(p, "asked") /\ UNCHANGED job
    /\ UNCHANGED <<trust_json, modes, locked, kept>>

\* prompt_trust: an answer that trusts the project picks its mode.
Answer(p, m) ==
    /\ place[p] = "asked"
    /\ Moves(p, "lock") /\ job' = [job EXCEPT ![p] = Job("grant", Project[p], m)]
    /\ UNCHANGED <<trust_json, modes, locked, kept>>

\* Core::new stamps the store, then reads it.
TakeStamp(p) == seen' = [seen EXCEPT ![p] = Stamp]

LaunchStamp(p) ==
    /\ place[p] = "stamp" /\ TakeStamp(p) /\ Moves(p, "read")
    /\ UNCHANGED <<trust_json, trust_call, live, stamp>>

\* hold_approval_mode: a subagent's worktree is held at its project's mode, or
\* its own if stricter.
Held(p, saved) ==
    IF p \notin spawned THEN saved
    ELSE [saved EXCEPT ![Worktree[p]] =
              Stricter(Governing(saved, Worktree[p]), Governing(saved, Project[p]))]

Launch(p) ==
    /\ place[p] = "read" /\ Readable /\ Moves(p, "up")
    /\ live' = [live EXCEPT ![p] = Held(p, Trusted(Content))]
    /\ stamp' = [stamp EXCEPT ![p] = seen[p]] /\ seen' = [seen EXCEPT ![p] = 0]
    /\ UNCHANGED <<trust_json, trust_call>>

\* A process ends: untrusted, its store unreadable, or at any time.
Quit(p) == place[p] # "off" /\ Leave(p)

-----------------------------------------------------------------------------
(* A running process.                                                      *)

\* refresh_saved_approval_modes.  It holds the modes' mutex, so nothing of
\* this process moves between the stamp and the read.
Refresh(p) ==
    /\ place[p] = "up" /\ (Stamp = 0 \/ Stamp # stamp[p])
    /\ TakeStamp(p) /\ Moves(p, "reread")
    /\ UNCHANGED <<trust_json, trust_call, live, stamp>>

Adopt(p) ==
    /\ place[p] = "reread" /\ Moves(p, "up")
    /\ live' = IF Readable THEN [live EXCEPT ![p] = Tightened(live[p], Trusted(Content))] ELSE live
    /\ stamp' = [stamp EXCEPT ![p] = seen[p]] /\ seen' = [seen EXCEPT ![p] = 0]
    /\ UNCHANGED <<trust_json, trust_call>>

\* set_project_approval_mode, from a selector, a card or a command.
Select(p, m) ==
    /\ place[p] = "up" /\ p \notin spawned
    /\ Moves(p, "lock") /\ job' = [job EXCEPT ![p] = Job("set", Project[p], m)]
    /\ UNCHANGED <<trust_json, modes, locked, kept>>

-----------------------------------------------------------------------------
(* update: lock, load, change, and write what changed.                     *)

\* A lock that lets a second one in.
LockShared(p) ==
    /\ place[p] = "lock"
    /\ locked' = p /\ Moves(p, "load")
    /\ UNCHANGED <<trust_json, modes, job, kept>>

Lock(p) ==
    /\ place[p] = "lock" /\ locked = Nobody
    /\ locked' = p /\ Moves(p, "load")
    /\ UNCHANGED <<trust_json, modes, job, kept>>

\* A selection that takes its own write for a read of the store.
AppliedAsRead(p) ==
    /\ live' = [live EXCEPT ![p][job[p].root] = job[p].mode]
    /\ stamp' = [stamp EXCEPT ![p] = version']

\* A call ends well: a grant goes on to the launch, a selection applies.
Applied(p) == live' = [live EXCEPT ![p][job[p].root] = job[p].mode] /\ UNCHANGED stamp

Return(p) ==
    /\ Forget(p) /\ Release(p) /\ UNCHANGED seen
    /\ \/ job[p].kind = "grant" /\ Moves(p, "stamp") /\ UNCHANGED <<live, stamp>>
       \/ job[p].kind = "set" /\ Moves(p, "up") /\ Applied(p)

\* A call that failed, and a store it left as it was: a launch is refused, a
\* selection changes nothing.
Fails(p) ==
    \/ job[p].kind = "grant" /\ Leave(p)
    \/ /\ job[p].kind = "set" /\ Moves(p, "up") /\ Forget(p) /\ Release(p) /\ kept' = Content
       /\ UNCHANGED <<trust_json, modes>>

Load(p) ==
    /\ place[p] = "load"
    /\ \/ (~Readable \/ Refuses(Content, job[p])) /\ Fails(p)
       \/ /\ Readable /\ ~Refuses(Content, job[p]) /\ Change(Content, job[p]) = Content
          /\ UNCHANGED <<trust_json, kept>> /\ Return(p)
       \/ /\ Readable /\ ~Refuses(Content, job[p]) /\ Change(Content, job[p]) # Content
          /\ Moves(p, "write") /\ job' = [job EXCEPT ![p].found = Content]
          /\ UNCHANGED <<trust_json, modes, locked, kept>>

Write(p) ==
    /\ place[p] = "write"
    /\ \/ Fails(p)
       \/ /\ version <= MaxWrites /\ version' = version + 1
          /\ exists' = TRUE /\ parses' = TRUE /\ spawned' = spawned /\ file' = Change(job[p].found, job[p])
          /\ kept' = Change(kept, job[p]) /\ Return(p)

\* Anyone else rewrites, removes or damages the file, without the lock.  What
\* lands while a call is about to replace it is as good as never written.
Tamper ==
    /\ version <= MaxWrites /\ version' = version + 1
    /\ \/ exists' = TRUE /\ parses' = TRUE /\ file' \in Stores /\ (exists /\ parses => file' # file)
       \/ exists /\ exists' = FALSE /\ file' = Missing /\ parses' = TRUE
       \/ exists /\ parses /\ parses' = FALSE /\ UNCHANGED <<exists, file>>
    /\ kept' = IF \E p \in Procs : locked = p /\ place[p] = "write" THEN kept ELSE Content'
    /\ UNCHANGED <<spawned, locked, place, job, modes>>

ModesNext ==
    \/ \E p \in Procs :
          \/ Trust(p) \/ LaunchStamp(p) \/ Launch(p) \/ Quit(p)
          \/ Refresh(p) \/ Adopt(p) \/ Lock(p) \/ Load(p) \/ Write(p)
          \/ \E m \in ApprovalMode : Answer(p, m) \/ Select(p, m)
    \/ Tamper

ModesSpec == ModesInit /\ [][ModesNext]_modes_vars

-----------------------------------------------------------------------------
(* Properties.                                                             *)

AtLeast(m, n) == Strictness(m) >= Strictness(n)
Running(p) == place[p] \notin {"off", "asked", "stamp", "read"} /\ job[p].kind # "grant"

\* A process that has read the store as it now is applies, at every path, a
\* mode at least as strict as the saved one: no stricter choice another
\* process saved is missed once the stamp says it was read (state.rs:311).
StampedIsApplied ==
    \A p \in Procs : Running(p) /\ stamp[p] # 0 /\ stamp[p] = Stamp /\ parses =>
        \A r \in Roots : AtLeast(Governing(live[p], r), Governing(Trusted(file), r))

\* A stamp a process keeps as read is of a store it applies, so that a mode
\* another process wrote is told at the next refresh (state.rs:302).
ModesAreTold == ModesTypeOK /\ StampedIsApplied

\* The store is exactly what the calls that succeeded made of it, unless
\* someone else changed it: no process's write of trust.json takes back the
\* trust or the mode another's has just recorded (trust.rs:188).
NoLostTrust == locked = Nobody /\ Readable => Content = kept

\* A running process's mode at a path becomes looser only by its own
\* frontend's selection there, once the store holds it; an agent-spawned one's
\* never does.  The store itself, which a tool can write, never loosens it
\* (state.rs:201).
LoosenedBySelection ==
    \A p \in Procs, r \in Roots :
        Running(p) /\ Running(p)' /\ ~AtLeast(Governing(live'[p], r), Governing(live[p], r)) =>
            /\ p \notin spawned /\ job[p].kind = "set"
            /\ \E i \in 1..Len(Chain[r]) : Chain[r][i] = job[p].root
            /\ Governing(live'[p], r) = job[p].mode
            /\ file'.modes[job[p].root] = job[p].mode

OnlySelectionLoosens == [][LoosenedBySelection]_modes_vars
=============================================================================
