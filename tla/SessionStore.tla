---------------------------- MODULE SessionStore ----------------------------
(***************************************************************************)
(* The on-disk session store (crates/core/src/sessions.rs) as several      *)
(* openmax processes share it: the index of sessions, each session's files *)
(* and lock file, and what each process keeps in memory about them - the   *)
(* claims (session_owners), StoreMemo and the event log's entries.         *)
(*                                                                         *)
(* Every process has two threads that call into the store: "ui", the       *)
(* frontend that creates, opens, leaves, forks and removes sessions, and   *)
(* "turn", the running turn that writes to one.  A call is a job that      *)
(* moves through program counters; between two of them any other thread    *)
(* may move and the process may die.                                       *)
(*                                                                         *)
(* A transcript's contents, a title and a turn's end are left out: what    *)
(* the store promises across processes is which entries and files exist    *)
(* and who may write them.                                                 *)
(***************************************************************************)
EXTENDS Naturals

CONSTANTS
    Procs,       \* the processes that share one data directory
    Sessions,    \* session ids; an id is handed out at most once (uuid v4)
    None,        \* no thread, no session
    Calls,       \* the kinds of calls the processes make
    MaxCrashes,  \* how many times processes die, over the whole behaviour
    Faults,      \* whether the index may be found damaged and writes may fail
    LeftRemoval  \* whether a frontend removes a session it has left while
                 \* the turn it left there has not finished

Thread == Procs \X {"ui", "turn"}

UiJobs    == {"attach", "start", "create", "fork", "delete", "discard", "detach"}
TurnJobs  == {"save", "bump", "sidecar"}

ASSUME ConstantsAssumption ==
    /\ None \notin Thread /\ None \notin Sessions
    /\ Calls \subseteq UiJobs \cup TurnJobs
    /\ MaxCrashes \in Nat
    /\ Faults \in BOOLEAN /\ LeftRemoval \in BOOLEAN

VARIABLES
    index,      \* sessions listed in index.json
    readable,   \* FALSE while index.json does not parse
    files,      \* files[s]: the files session s has, the lock file apart
    flock,      \* the thread holding index.lock
    memoLock,   \* memoLock[p]: the thread of p holding Core::sessions_lock
    ownersLock, \* ownersLock[p]: the thread of p holding session_owners
    owner,      \* owner[p][s]: p's entry for s in session_owners
    lockOf,     \* lockOf[p][s]: the lock file p's entry holds: the one its
                \* name leads to, or one that was unlinked since
    listed,     \* listed[p]: StoreMemo::listed
    removed,    \* removed[p]: StoreMemo::removed
    pending,    \* pending[p]: the sessions with an EventLog entry
    running,    \* running[p]: the session p's turn works in
    pc,         \* pc[t]: where thread t is in its job
    job,        \* job[t]: the call thread t is in
    snap,       \* snap[t]: the index as t last read it
    fd,         \* fd[t]: the lock file t has opened and not yet locked
    used,       \* ids handed out so far
    known,      \* history: the sessions that have been listed
    crashes     \* how many times a process has died

disk  == <<index, readable, files>>
locks == <<flock, memoLock, ownersLock>>
memo  == <<listed, removed, pending>>
claims == <<owner, lockOf>>
ctl   == <<pc, job, snap, fd>>
vars  == <<disk, locks, claims, memo, running, ctl, used, known, crashes>>

FileKinds == {"messages", "events", "sidecar"}
Job == [kind : {"create"}, s : {None}, c : Sessions]
       \cup [kind : {"fork"}, s : Sessions, c : Sessions]
       \cup [kind : {"attach", "start", "delete", "discard"} \cup TurnJobs, s : Sessions, c : {None}]
       \cup [kind : {"none", "detach", "finish"}, s : Sessions \cup {None}, c : {None}]
NoJob == [kind |-> "none", s |-> None, c |-> None]

StorePCs  == {"open", "try", "read", "write", "child", "forget", "erase", "unlink"}
MemoPCs   == {"check", "put"}
OwnersPCs == {"again", "claim", "open", "try", "release", "unclaim"}
PCs == {"idle", "own", "lock", "memo", "leave"} \cup StorePCs \cup MemoPCs \cup OwnersPCs

Removals == {"delete", "discard"}

\* claim_session's two flags, by the call that claims.
Validates(k)   == k \notin Removals
Reactivates(k) == k \in {"attach", "start"}

\* A thread in its removal of s.
Removing(t, s) == job[t].kind \in Removals /\ job[t].s = s

\* Mutant: try_lock's answer is not looked at.
LinkFreeUnchecked(s) == TRUE

\* No other process holds the lock file that session s's name leads to.
LinkFree(s) == \A q \in Procs : lockOf[q][s] # "linked"

\* Mutant: a write does not ask whether its session is still indexed.
IndexedUnchecked(p, s) == TRUE

\* indexed_locked: what the memo knows answers first, the index for the rest.
Indexed(p, s) ==
    /\ s \notin removed[p]
    /\ s \in listed[p] \/ (readable /\ s \in index)

\* backed: whether the session has history.
Backed(s) == "messages" \in files[s]

Goto(t, l) == pc' = [pc EXCEPT ![t] = l] /\ UNCHANGED <<job, snap, fd>>

\* A call ends.
Return(t) ==
    /\ pc' = [pc EXCEPT ![t] = "idle"] /\ job' = [job EXCEPT ![t] = NoJob]
    /\ snap' = [snap EXCEPT ![t] = {}] /\ fd' = [fd EXCEPT ![t] = "none"]

-----------------------------------------------------------------------------
(* lock_store: the process's sessions_lock, then the index flock.          *)

\* Mutant: only this process's lock is taken.
TakeStoreAlone(t) ==
    /\ memoLock[t[1]] = None
    /\ memoLock' = [memoLock EXCEPT ![t[1]] = t] /\ flock' = t

TakeStore(t) ==
    /\ memoLock[t[1]] = None /\ flock = None
    /\ memoLock' = [memoLock EXCEPT ![t[1]] = t] /\ flock' = t

FreeStore(t) ==
    /\ memoLock' = [memoLock EXCEPT ![t[1]] = None] /\ flock' = None

FreeOwners(t) == ownersLock' = [ownersLock EXCEPT ![t[1]] = None]

\* A call ends, and lets go of the store lock it holds.
EndStore(t) == Return(t) /\ FreeStore(t) /\ UNCHANGED ownersLock

Init ==
    /\ index = {} /\ readable = TRUE /\ files = [s \in Sessions |-> {}]
    /\ flock = None
    /\ memoLock = [p \in Procs |-> None] /\ ownersLock = [p \in Procs |-> None]
    /\ owner = [p \in Procs |-> [s \in Sessions |-> "no"]]
    /\ lockOf = [p \in Procs |-> [s \in Sessions |-> "none"]]
    /\ listed = [p \in Procs |-> {}] /\ removed = [p \in Procs |-> {}]
    /\ pending = [p \in Procs |-> {}]
    /\ running = [p \in Procs |-> None]
    /\ pc = [t \in Thread |-> "idle"] /\ job = [t \in Thread |-> NoJob]
    /\ snap = [t \in Thread |-> {}] /\ fd = [t \in Thread |-> "none"]
    /\ used = {} /\ known = {} /\ crashes = 0

-----------------------------------------------------------------------------
(* Calls begin.                                                            *)

Enter(t, k, s, c, l) ==
    /\ pc' = [pc EXCEPT ![t] = l]
    /\ job' = [job EXCEPT ![t] = [kind |-> k, s |-> s, c |-> c]]
    /\ UNCHANGED <<snap, fd>>

Begin(t, k, s, c, l) ==
    /\ k \in Calls
    /\ pc[t] = "idle" /\ Enter(t, k, s, c, l)
    /\ UNCHANGED <<disk, locks, claims, memo, running, known, crashes>>

\* attach, and start_turn, which attaches while it holds Core::running.
Attach(p, s) ==
    /\ s \in known
    /\ \/ Begin(<<p, "ui">>, "attach", s, None, "own")
       \/ running[p] = None /\ Begin(<<p, "ui">>, "start", s, None, "own")
    /\ UNCHANGED used

\* create: a fresh id, listed in one index write.
Create(p, c) ==
    /\ c \notin used /\ used' = used \cup {c}
    /\ Begin(<<p, "ui">>, "create", None, c, "lock")

\* fork: the parent is only read, and no claim is taken on it.
Fork(p, s, c) ==
    /\ s \in known /\ c \notin used /\ used' = used \cup {c}
    /\ Begin(<<p, "ui">>, "fork", s, c, "lock")

\* delete, and discard_if_empty, which looks for history before it claims.
Remove(p, s) ==
    /\ s \in known
    /\ LeftRemoval \/ owner[p][s] # "detaching"
    /\ \/ Begin(<<p, "ui">>, "delete", s, None, "own")
       \/ ~Backed(s) /\ Begin(<<p, "ui">>, "discard", s, None, "own")
    /\ UNCHANGED used

\* The turn's writes: save_messages; bump (touch, end_turn, a title, a resume
\* point); append_usage and save_manifest.
TurnWrite(p) ==
    /\ running[p] # None
    /\ \E k \in TurnJobs : Begin(<<p, "turn">>, k, running[p], None, "own")
    /\ UNCHANGED used

-----------------------------------------------------------------------------
(* claim_session.                                                          *)

\* Where a call goes once it holds its claim.
Claimed(t) ==
    LET k == job[t].kind IN
    /\ IF Reactivates(k) THEN Return(t)
       ELSE /\ pc' = [pc EXCEPT ![t] = IF k = "sidecar" THEN "memo" ELSE "lock"]
            /\ fd' = [fd EXCEPT ![t] = "none"] /\ UNCHANGED <<job, snap>>
    /\ running' = IF k = "start" THEN [running EXCEPT ![t[1]] = job[t].s] ELSE running

\* This process holds the session already.  A call that reactivates keeps the
\* owners lock while it waits for the store lock.
OwnHeld(t) ==
    LET p == t[1] IN
    /\ pc[t] = "own" /\ ownersLock[p] = None
    /\ owner[p][job[t].s] # "no"
    /\ IF Reactivates(job[t].kind)
       THEN /\ ownersLock' = [ownersLock EXCEPT ![p] = t]
            /\ Goto(t, "again") /\ UNCHANGED running
       ELSE Claimed(t) /\ UNCHANGED ownersLock
    /\ UNCHANGED <<disk, flock, memoLock, claims, memo, used, known, crashes>>

\* revalidate_if_changed refuses a transcript that no longer loads; else the
\* session is this process's again, even if it was being left.
Revalidate(t) ==
    /\ pc[t] = "again" /\ memoLock[t[1]] = None /\ flock = None
    /\ \/ owner' = [owner EXCEPT ![t[1]][job[t].s] = "held"] /\ Claimed(t)
       \/ Faults /\ Backed(job[t].s) /\ Return(t) /\ UNCHANGED <<owner, running>>
    /\ FreeOwners(t)
    /\ UNCHANGED <<disk, flock, memoLock, lockOf, memo, used, known, crashes>>

\* The owners lock stays held until the claim is settled.
OwnNew(t) ==
    /\ pc[t] = "own" /\ ownersLock[t[1]] = None
    /\ owner[t[1]][job[t].s] = "no"
    /\ ownersLock' = [ownersLock EXCEPT ![t[1]] = t]
    /\ Goto(t, "claim")
    /\ UNCHANGED <<disk, flock, memoLock, claims, memo, running, used, known, crashes>>

ClaimStore(t) ==
    /\ pc[t] = "claim" /\ TakeStore(t) /\ Goto(t, "open")
    /\ UNCHANGED <<disk, ownersLock, claims, memo, running, used, known, crashes>>

\* Open the lock file, created if its name leads to none.
OpenLock(t) ==
    /\ pc[t] = "open" /\ pc' = [pc EXCEPT ![t] = "try"]
    /\ fd' = [fd EXCEPT ![t] = "linked"]
    /\ UNCHANGED <<disk, locks, claims, memo, running, job, snap, used, known, crashes>>

\* Lock it, validate, look the session up in the index once, and own it.
TryLock(t) ==
    LET p == t[1]  s == job[t].s
        found == IF readable /\ s \in index THEN {s} ELSE {} IN
    /\ pc[t] = "try"
    /\ fd[t] = "linked" => LinkFree(s)
    /\ lockOf' = [lockOf EXCEPT ![p][s] = fd[t]]
    /\ owner' = [owner EXCEPT ![p][s] = "held"]
    /\ listed' = [listed EXCEPT ![p] = @ \cup found]
    /\ pending' = [pending EXCEPT ![p] = @ \cup found]
    /\ FreeStore(t) /\ FreeOwners(t) /\ Claimed(t)
    /\ UNCHANGED <<disk, removed, used, known, crashes>>

\* Mutant: a session open elsewhere is waited for.
ClaimRetried(t) ==
    /\ pc[t] = "try" /\ fd[t] = "linked" /\ ~LinkFree(job[t].s)
    /\ FreeStore(t) /\ FreeOwners(t)
    /\ pc' = [pc EXCEPT ![t] = "own"] /\ fd' = [fd EXCEPT ![t] = "none"]
    /\ UNCHANGED <<disk, claims, memo, running, job, snap, used, known, crashes>>

\* "already open in another process", or a transcript that does not load.
ClaimRefused(t) ==
    /\ pc[t] = "try"
    /\ \/ fd[t] = "linked" /\ ~LinkFree(job[t].s)
       \/ Faults /\ Validates(job[t].kind) /\ Backed(job[t].s)
    /\ FreeStore(t) /\ FreeOwners(t) /\ Return(t)
    /\ UNCHANGED <<disk, claims, memo, running, used, known, crashes>>

-----------------------------------------------------------------------------
(* Calls that read and write the index.                                    *)

LockStore(t) ==
    /\ pc[t] = "lock" /\ TakeStore(t) /\ Goto(t, "read")
    /\ UNCHANGED <<disk, ownersLock, claims, memo, running, used, known, crashes>>

\* Mutant: a discard trusts what it saw before its claim.
KeptBackedUnchecked(t) == FALSE

\* A discard looks again under the lock: history saved meanwhile keeps the
\* session (and the claim).
KeptBacked(t) == job[t].kind = "discard" /\ Backed(job[t].s)

\* What makes a call end at its index read: damage, or for a fork a parent
\* that is not listed or holds no message.
ReadRefused(t) ==
    \/ ~readable
    \/ job[t].kind = "fork" /\ (job[t].s \notin index \/ ~Backed(job[t].s))

Read(t) ==
    /\ pc[t] = "read" /\ job[t].kind # "save"
    /\ \/ /\ KeptBacked(t) \/ ReadRefused(t)
          /\ EndStore(t)
       \/ /\ ~KeptBacked(t) /\ ~ReadRefused(t)
          /\ snap' = [snap EXCEPT ![t] = index]
          /\ pc' = [pc EXCEPT ![t] = IF job[t].kind = "fork" THEN "child" ELSE "write"]
          /\ UNCHANGED <<locks, job, fd>>
    /\ UNCHANGED <<disk, claims, memo, running, used, known, crashes>>

\* Mutant: a fork goes on without its child's files.
WriteChildLater(t) ==
    /\ pc[t] = "child" /\ Goto(t, "write")
    /\ UNCHANGED <<disk, locks, claims, memo, running, used, known, crashes>>

\* fork: the child's files come before its index entry.  The transcript, or
\* the manifest or compaction log copied after it, may fail to be written.
WriteChild(t) ==
    LET child == [files EXCEPT ![job[t].c] = {"messages"}] IN
    /\ pc[t] = "child"
    /\ \/ files' = child /\ Goto(t, "write") /\ UNCHANGED locks
       \/ Faults /\ EndStore(t) /\ files' \in {files, child}
    /\ UNCHANGED <<index, readable, claims, memo, running, used, known, crashes>>

\* The index a call writes: its snapshot with its own change.
Written(t) ==
    CASE job[t].kind \in Removals -> snap[t] \ {job[t].s}
      [] job[t].kind \in {"create", "fork"} -> snap[t] \cup {job[t].c}
      [] OTHER -> snap[t]

\* save_index, atomic.  A removal then takes the session out of the memo,
\* which no other thread reads before the store lock is let go.
WriteIndex(t) ==
    LET p == t[1]  s == job[t].s IN
    /\ pc[t] = "write"
    /\ index' = Written(t) /\ readable' = TRUE /\ known' = known \cup index'
    /\ IF job[t].kind \in Removals
       THEN /\ listed' = [listed EXCEPT ![p] = @ \ {s}]
            /\ removed' = [removed EXCEPT ![p] = @ \cup {s}]
            /\ Goto(t, "forget") /\ UNCHANGED locks
       ELSE EndStore(t) /\ UNCHANGED <<listed, removed>>
    /\ UNCHANGED <<files, claims, pending, running, used, crashes>>

WriteIndexFails(t) ==
    /\ Faults /\ pc[t] = "write" /\ EndStore(t)
    /\ UNCHANGED <<disk, claims, memo, running, used, known, crashes>>

\* The rest of remove: the event log's entry, the files, the lock file.  A
\* file that cannot be removed is left behind.
Forget(t) ==
    /\ pc[t] = "forget" /\ Goto(t, "erase")
    /\ pending' = [pending EXCEPT ![t[1]] = @ \ {job[t].s}]
    /\ UNCHANGED <<disk, locks, claims, listed, removed, running, used, known, crashes>>

Erase(t) ==
    /\ pc[t] = "erase" /\ Goto(t, "unlink")
    /\ \/ files' = [files EXCEPT ![job[t].s] = {}]
       \/ Faults /\ UNCHANGED files
    /\ UNCHANGED <<index, readable, locks, claims, memo, running, used, known, crashes>>

Orphaned(h) == IF h = "linked" THEN "unlinked" ELSE h

Unlink(t) ==
    LET s == job[t].s IN
    /\ pc[t] = "unlink" /\ pc' = [pc EXCEPT ![t] = "leave"]
    /\ \/ /\ lockOf' = [q \in Procs |-> [lockOf[q] EXCEPT ![s] = Orphaned(@)]]
          /\ fd' = [u \in Thread |-> IF job[u].s = s THEN Orphaned(fd[u]) ELSE fd[u]]
       \/ Faults /\ UNCHANGED <<lockOf, fd>>
    /\ FreeStore(t)
    /\ UNCHANGED <<disk, ownersLock, owner, memo, running, job, snap, used, known, crashes>>

\* save_messages, once it holds the claim and the store lock.
Save(t) ==
    LET s == job[t].s IN
    /\ pc[t] = "read" /\ job[t].kind = "save"
    /\ \/ Indexed(t[1], s) /\ files' = [files EXCEPT ![s] = @ \cup {"messages"}]
       \/ (~Indexed(t[1], s) \/ Faults) /\ UNCHANGED files
    /\ EndStore(t)
    /\ UNCHANGED <<index, readable, claims, memo, running, used, known, crashes>>

\* append_usage and save_manifest hold sessions_lock and not the flock.
LockMemo(t) ==
    /\ pc[t] = "memo" /\ memoLock[t[1]] = None
    /\ memoLock' = [memoLock EXCEPT ![t[1]] = t] /\ Goto(t, "check")
    /\ UNCHANGED <<disk, flock, ownersLock, claims, memo, running, used, known, crashes>>

EndMemo(t) ==
    /\ memoLock' = [memoLock EXCEPT ![t[1]] = None] /\ Return(t)
    /\ UNCHANGED <<flock, ownersLock>>

CheckSidecar(t) ==
    /\ pc[t] = "check"
    /\ \/ Indexed(t[1], job[t].s) /\ Goto(t, "put") /\ UNCHANGED locks
       \/ ~Indexed(t[1], job[t].s) /\ EndMemo(t)
    /\ UNCHANGED <<disk, claims, memo, running, used, known, crashes>>

PutSidecar(t) ==
    /\ pc[t] = "put" /\ EndMemo(t)
    /\ \/ files' = [files EXCEPT ![job[t].s] = @ \cup {"sidecar"}]
       \/ Faults /\ UNCHANGED files
    /\ UNCHANGED <<index, readable, claims, memo, running, used, known, crashes>>

\* An append to a session's event log, while the log has an entry for it.
AppendEvents(p, s) ==
    \/ s \in pending[p] /\ files' = [files EXCEPT ![s] = @ \cup {"events"}]
    \/ (s \notin pending[p] \/ Faults) /\ UNCHANGED files

\* record_event and record_receipts write a session's log under
\* Core::event_log alone, and only while the log has an entry for it.
WriteEvents(p) ==
    /\ running[p] # None /\ running[p] \in pending[p]
    /\ AppendEvents(p, running[p])
    /\ UNCHANGED <<index, readable, locks, claims, memo, running, ctl, used, known, crashes>>

-----------------------------------------------------------------------------
(* Claims end.                                                             *)

\* Let go of s, or, while s's turn still works there, ask it to.
LetGo(t, s) ==
    LET p == t[1] IN
    /\ ownersLock[p] = None
    /\ IF running[p] = s
       THEN /\ owner' = [owner EXCEPT ![p][s] = IF @ = "no" THEN @ ELSE "detaching"]
            /\ Return(t) /\ UNCHANGED ownersLock
       ELSE /\ ownersLock' = [ownersLock EXCEPT ![p] = t]
            /\ Enter(t, "detach", s, None, "release") /\ UNCHANGED owner
    /\ UNCHANGED <<disk, flock, memoLock, lockOf, memo, running, used, known, crashes>>

\* detach, from the frontend; and at the end of remove, whose detach gives up
\* without a word when the session state is busy.
Detach(p, s) ==
    /\ "detach" \in Calls /\ pc[<<p, "ui">>] = "idle" /\ s \in known
    /\ LetGo(<<p, "ui">>, s)

Leave(t) ==
    /\ pc[t] = "leave"
    /\ \/ LetGo(t, job[t].s)
       \/ Return(t) /\ UNCHANGED <<disk, locks, claims, memo, running, used, known, crashes>>

\* finish_session_work: the turn leaves Core::running, its receipts go to the
\* event log, and a session left meanwhile is let go of (finish_detach).
Finish(p) ==
    LET t == <<p, "turn">>  s == running[p] IN
    /\ s # None /\ pc[t] = "idle" /\ ownersLock[p] = None
    /\ running' = [running EXCEPT ![p] = None]
    /\ AppendEvents(p, s)
    /\ IF owner[p][s] = "detaching"
       THEN /\ ownersLock' = [ownersLock EXCEPT ![p] = t]
            /\ Enter(t, "finish", s, None, "release")
       ELSE UNCHANGED <<ownersLock, ctl>>
    /\ UNCHANGED <<index, readable, flock, memoLock, claims, memo, used, known, crashes>>

\* Mutant: a release keeps what the claim let this process know.
DisownNothing(t) ==
    /\ pc[t] = "release" /\ memoLock[t[1]] = None /\ Goto(t, "unclaim")
    /\ UNCHANGED <<disk, locks, claims, memo, running, used, known, crashes>>

\* release's first half, under sessions_lock: what the claim let this process
\* know, and the event log's entry after a last write of what it held back.
Disown(t) ==
    LET p == t[1]  s == job[t].s IN
    /\ pc[t] = "release" /\ memoLock[p] = None /\ Goto(t, "unclaim")
    /\ listed' = [listed EXCEPT ![p] = @ \ {s}]
    /\ pending' = [pending EXCEPT ![p] = @ \ {s}]
    /\ AppendEvents(p, s) \/ UNCHANGED files
    /\ UNCHANGED <<index, readable, locks, claims, removed, running, used, known, crashes>>

\* release's second half: the owner's entry is dropped, and with it the lock.
Unclaim(t) ==
    LET p == t[1]  s == job[t].s IN
    /\ pc[t] = "unclaim"
    /\ owner' = [owner EXCEPT ![p][s] = "no"]
    /\ lockOf' = [lockOf EXCEPT ![p][s] = "none"]
    /\ FreeOwners(t) /\ Return(t)
    /\ UNCHANGED <<disk, flock, memoLock, memo, running, used, known, crashes>>

-----------------------------------------------------------------------------
(* What happens to a process and to the index file.                        *)

\* A process dies, wherever its threads are, and is started again: the kernel
\* drops its locks, and its memory is gone.
Crash(p) ==
    /\ crashes < MaxCrashes /\ crashes' = crashes + 1
    /\ flock' = IF flock \in {p} \X {"ui", "turn"} THEN None ELSE flock
    /\ memoLock' = [memoLock EXCEPT ![p] = None]
    /\ ownersLock' = [ownersLock EXCEPT ![p] = None]
    /\ owner' = [owner EXCEPT ![p] = [s \in Sessions |-> "no"]]
    /\ lockOf' = [lockOf EXCEPT ![p] = [s \in Sessions |-> "none"]]
    /\ listed' = [listed EXCEPT ![p] = {}] /\ removed' = [removed EXCEPT ![p] = {}]
    /\ pending' = [pending EXCEPT ![p] = {}]
    /\ running' = [running EXCEPT ![p] = None]
    /\ pc' = [t \in Thread |-> IF t[1] = p THEN "idle" ELSE pc[t]]
    /\ job' = [t \in Thread |-> IF t[1] = p THEN NoJob ELSE job[t]]
    /\ snap' = [t \in Thread |-> IF t[1] = p THEN {} ELSE snap[t]]
    /\ fd' = [t \in Thread |-> IF t[1] = p THEN "none" ELSE fd[t]]
    /\ UNCHANGED <<disk, used, known>>

\* The index stops parsing, and is later repaired to what it held.
Damage ==
    /\ Faults /\ readable' = ~readable
    /\ UNCHANGED <<index, files, locks, claims, memo, running, ctl, used, known, crashes>>

-----------------------------------------------------------------------------
\* One step of a call under way.
Step(t) ==
    \/ OwnHeld(t) \/ Revalidate(t) \/ OwnNew(t) \/ ClaimStore(t) \/ OpenLock(t) \/ TryLock(t) \/ ClaimRefused(t)
    \/ LockStore(t) \/ Read(t) \/ WriteChild(t) \/ WriteIndex(t) \/ WriteIndexFails(t)
    \/ Forget(t) \/ Erase(t) \/ Unlink(t) \/ Leave(t)
    \/ Save(t) \/ LockMemo(t) \/ CheckSidecar(t) \/ PutSidecar(t)
    \/ Disown(t) \/ Unclaim(t)

Call(p) ==
    \/ \E s \in Sessions : Attach(p, s) \/ Create(p, s) \/ Remove(p, s) \/ Detach(p, s)
    \/ \E s, c \in Sessions : Fork(p, s, c)
    \/ TurnWrite(p) \/ WriteEvents(p)

Next ==
    \/ \E t \in Thread : Step(t)
    \/ \E p \in Procs : Call(p) \/ Finish(p) \/ Crash(p)
    \/ Damage

Spec == Init /\ [][Next]_vars

-----------------------------------------------------------------------------
DiskOK ==
    /\ index \subseteq Sessions /\ readable \in BOOLEAN
    /\ files \in [Sessions -> SUBSET FileKinds]

LocksOK ==
    /\ flock \in Thread \cup {None}
    /\ memoLock \in [Procs -> Thread \cup {None}]
    /\ ownersLock \in [Procs -> Thread \cup {None}]

ClaimsOK ==
    /\ owner \in [Procs -> [Sessions -> {"no", "held", "detaching"}]]
    /\ lockOf \in [Procs -> [Sessions -> {"none", "linked", "unlinked"}]]
    /\ running \in [Procs -> Sessions \cup {None}]

MemoOK ==
    /\ listed \in [Procs -> SUBSET Sessions]
    /\ removed \in [Procs -> SUBSET Sessions]
    /\ pending \in [Procs -> SUBSET Sessions]

CtlOK ==
    /\ pc \in [Thread -> PCs] /\ job \in [Thread -> Job]
    /\ snap \in [Thread -> SUBSET Sessions]
    /\ fd \in [Thread -> {"none", "linked", "unlinked"}]

TypeOK ==
    /\ DiskOK /\ LocksOK /\ ClaimsOK /\ MemoOK /\ CtlOK
    /\ used \subseteq Sessions /\ known \subseteq Sessions /\ crashes \in Nat

\* StoreMemo says "no other process can remove one meanwhile": a session a
\* process wrote down as listed is listed for as long as it says so, so its
\* saves may trust the memo and never read the index.
ListedIndexed == \A p \in Procs : listed[p] \subseteq index

\* Two processes never own one session that is still in the index, however
\* their claims, removals, releases and deaths interleave.
OneOwner ==
    \A s \in index : \A p, q \in Procs :
        owner[p][s] # "no" /\ owner[q][s] # "no" => p = q

\* An event log has an entry only in the process that owns its session, and
\* only while the session is listed or that process is removing it: a log is
\* never written by two processes, nor after its removal.
EventLogOwned ==
    \A p \in Procs : \A s \in pending[p] :
        /\ owner[p][s] # "no"
        /\ s \in index \/ \E r \in {"ui", "turn"} : Removing(<<p, r>>, s)

\* An index write drops no entry but that of the session its call removes:
\* two processes' read-modify-writes never lose one another's sessions.
NoLostEntry ==
    [][\A s \in index \ index' : flock # None /\ Removing(flock, s)]_vars

\* "a session deleted mid-turn cannot be resurrected by an append that was
\* already in flight": once its removal is over, no file of it comes back.
NoResurrection ==
    [][\A s \in known \ index :
        (\A t \in Thread : ~Removing(t, s)) => files'[s] \subseteq files[s]]_vars

\* discard_if_empty, which looks for history before it claims, never takes a
\* transcript that a turn or another process saved since.
DiscardKeepsHistory ==
    [][\A s \in Sessions : Backed(s) /\ ~Backed(s)' =>
        flock # None /\ job[flock].kind = "delete" /\ job[flock].s = s]_vars

\* fork: "no reader ever sees it listed without its history".
ForkListedBacked ==
    [][\A s \in index' \ index :
        flock # None /\ job[flock].kind = "fork" => Backed(s)]_vars

\* remove: "Explicit deletion may remove damaged data, but never a foreign
\* writer."  When a session leaves the index no other process owns it.
NoForeignRemoval ==
    [][\A s \in index \ index' : \A q \in Procs :
        owner[q][s] # "no" => flock # None /\ flock[1] = q]_vars

-----------------------------------------------------------------------------
(* The store as leases: a session is live while it is indexed, and leased  *)
(* to the process that holds the lock file its name leads to.              *)

Holders(s) == {p \in Procs : lockOf[p][s] = "linked"}
Holder == [s \in Sessions |->
    IF s \in index /\ Holders(s) # {} THEN CHOOSE p \in Holders(s) : TRUE ELSE None]

Leases == INSTANCE SessionLeases WITH
    live <- index, gone <- known \ index,
    holder <- Holder, backed <- {s \in index : Backed(s)}

\* Every step of the store is a step of the leases: sessions appear with their
\* history, one holder at a time, and only the holder writes or removes.
ImplementsLeases == Leases!Spec

-----------------------------------------------------------------------------
(* A thread in a call gets the locks it waits for again and again, and a   *)
(* turn's loop ends.  No frontend has to make another call.                *)
Fairness ==
    /\ \A t \in Thread : SF_vars(Step(t))
    /\ \A p \in Procs : SF_vars(Finish(p))

FairSpec == Spec /\ Fairness

\* No call waits for ever: the owners lock, sessions_lock and the flock are
\* always taken in one order, and every early return lets go of them.
CallsEnd == \A t \in Thread : pc[t] # "idle" ~> pc[t] = "idle"

=============================================================================
