--------------------------- MODULE SessionStoreInv ---------------------------
(***************************************************************************)
(* The inductive invariant of SessionStore, in the layers it is proved in: *)
(* who holds which lock, what a thread's place says of its job, that an    *)
(* index snapshot is current, and what a claim guarantees.  Only the last  *)
(* layer needs ~LeftRemoval.                                               *)
(***************************************************************************)
EXTENDS SessionStore

Ui(p)   == <<p, "ui">>
\* A thread holds a lock exactly at the places that need it.
LockInv ==
    \A t \in Thread :
        /\ flock = t <=> pc[t] \in StorePCs
        /\ memoLock[t[1]] = t <=> pc[t] \in StorePCs \cup MemoPCs
        /\ ownersLock[t[1]] = t <=> pc[t] \in OwnersPCs
        /\ \A p \in Procs : (memoLock[p] = t \/ ownersLock[p] = t) => t[1] = p

RemovalTail == {"forget", "erase", "unlink", "leave"}

\* What a thread's place says of its job, and of the lock file it has open.
JobInv ==
    \A t \in Thread :
        LET k == job[t].kind IN
        /\ pc[t] = "idle" <=> k = "none"
        /\ k \in UiJobs => t[2] = "ui"
        /\ k \in TurnJobs \cup {"finish"} => t[2] = "turn"
        /\ pc[t] \in RemovalTail => k \in Removals
        /\ pc[t] \in MemoPCs \cup {"memo"} => k = "sidecar"
        /\ pc[t] = "child" => k = "fork"
        /\ pc[t] = "write" => k # "save"
        /\ pc[t] \in {"release", "unclaim"} <=> k \in {"detach", "finish"}
        /\ pc[t] = "again" => k \in {"attach", "start"}
        /\ k \in {"create", "fork"} => pc[t] \in {"lock", "read", "child", "write"}
        /\ k \in {"attach", "start"} => pc[t] \in {"own", "again", "claim", "open", "try"}
        /\ fd[t] = IF pc[t] = "try" THEN "linked" ELSE "none"

\* What is listed was handed out; a job names sessions that were listed, and
\* the id of a session being made is its maker's alone; so does a claim.
IndexIds == index \subseteq known /\ known \subseteq used

Makes(t) == job[t].kind \in {"create", "fork"}

JobIds ==
    /\ \A t \in Thread : job[t].kind \in {"none", "create"} \/ job[t].s \in known
    /\ \A t \in Thread : Makes(t) => job[t].c \in used \ known
    /\ \A t, u \in Thread : Makes(t) /\ Makes(u) /\ job[t].c = job[u].c => t = u

ClaimIds ==
    /\ \A p \in Procs : running[p] = None \/ running[p] \in known
    /\ \A p \in Procs, s \in Sessions : owner[p][s] # "no" => s \in known

IdInv == IndexIds /\ JobIds /\ ClaimIds

\* Nobody else has written the index since its holder read it.
SnapInv == \A t \in Thread : pc[t] \in {"child", "write"} => snap[t] = index

\* A discard that has looked for history under the lock still has none to
\* lose, and a fork about to list its child has written the child's history.
HistoryInv ==
    \A t \in Thread :
        /\ job[t].kind = "discard" /\ pc[t] \in {"write", "forget", "erase"} => ~Backed(job[t].s)
        /\ job[t].kind = "fork" /\ pc[t] = "write" => Backed(job[t].c)

StoreInv == TypeOK /\ LockInv /\ JobInv /\ IdInv /\ SnapInv

\* A claim and the lock file it holds.
ClaimLocks ==
    /\ \A p \in Procs, s \in Sessions : owner[p][s] = "no" <=> lockOf[p][s] = "none"
    /\ \A p, q \in Procs, s \in Sessions :
        lockOf[p][s] = "linked" /\ lockOf[q][s] = "linked" => p = q
    /\ \A p \in Procs, s \in index : lockOf[p][s] # "unlinked"

\* What a thread inside claim_session saw of its claim still holds.
ClaimPlaces ==
    \A t \in Thread :
        /\ pc[t] \in {"claim", "open", "try"} => owner[t[1]][job[t].s] = "no"
        /\ pc[t] = "again" => owner[t[1]][job[t].s] # "no"

ClaimInv == ClaimLocks /\ ClaimPlaces

\* A removal holds its session from its claim to its end, whatever the turn
\* does: only a session being left is let go of by a turn's end.
RemovalHolds(t) ==
    LET s == job[t].s  o == owner[t[1]][s] IN
    /\ job[t].kind \in Removals =>
        /\ pc[t] = "own" => o # "detaching"
        /\ pc[t] \in {"lock", "read", "write"} \cup RemovalTail => o = "held"
        /\ pc[t] \in {"forget", "erase", "unlink"} => s \notin index
    /\ job[t].kind = "finish" => o = "detaching"

RemovalInv == \A t \in Thread : RemovalHolds(t)

\* What a process remembers of a session, it remembers while it owns it.
MemoInv ==
    /\ ListedIndexed
    /\ \A p \in Procs : \A s \in listed[p] \cup pending[p] : owner[p][s] # "no"
    /\ \A p \in Procs : \A s \in pending[p] :
        s \in index \/ (pc[Ui(p)] = "forget" /\ job[Ui(p)].s = s)
    /\ \A t \in Thread : pc[t] = "unclaim" => job[t].s \notin listed[t[1]] \cup pending[t[1]]

\* A turn's write holds its session, which no detach lets go of meanwhile; a
\* sidecar's check holds at its write; and one turn is started at a time.
Writing == {"lock", "memo", "read", "write", "check", "put"}

TurnHolds(t) ==
    LET k == job[t].kind  s == job[t].s  p == t[1] IN
    /\ k \in TurnJobs =>
        /\ s = running[p]
        /\ pc[t] \in Writing => owner[p][s] # "no"
        /\ pc[t] = "put" => s \in index
    /\ k = "start" => running[p] = None
    /\ k = "detach" => running[p] # s

TurnInv == \A t \in Thread : TurnHolds(t)

IInv == StoreInv /\ HistoryInv /\ ClaimInv /\ RemovalInv /\ MemoInv /\ TurnInv
=============================================================================
