--------------------------- MODULE SessionStoreProofs ---------------------------
(***************************************************************************)
(* What holds of the store whatever the calls, the crashes, the faults and *)
(* the removals: the layers of the inductive invariant that say who holds  *)
(* which lock, what a thread's place says of its job, which ids are in     *)
(* use, that an index snapshot is current, and what a discard and a fork   *)
(* know of a session's history; then the theorems that follow.  The second *)
(* part is about claims, and ends with the refinement of SessionLeases.    *)
(***************************************************************************)
EXTENDS SessionStoreInv, TLAPS

\* A process has two threads, and no value of another sort is one.
LEMMA ThreadFacts ==
    /\ None \notin Thread /\ None \notin Sessions
    /\ \A t \in Thread : t[1] \in Procs /\ t[2] \in {"ui", "turn"} /\ t = <<t[1], t[2]>>
    /\ \A p \in Procs : /\ <<p, "ui">> \in Thread /\ <<p, "turn">> \in Thread
                        /\ <<p, "ui">>[1] = p /\ <<p, "turn">>[1] = p
                        /\ <<p, "ui">>[2] = "ui" /\ <<p, "turn">>[2] = "turn"
BY ConstantsAssumption DEF Thread

\* Updating one entry of a table of tables keeps its type.
LEMMA ExceptExcept ==
    ASSUME NEW A, NEW B, NEW V, NEW f \in [A -> [B -> V]], NEW a, NEW b, NEW v \in V
    PROVE  [f EXCEPT ![a][b] = v] \in [A -> [B -> V]]
<1>1. \A x \in A : [f[x] EXCEPT ![b] = v] \in [B -> V]
  OBVIOUS
<1> QED BY <1>1

\* A call that ends keeps the control state well typed.
LEMMA CtlReturn == ASSUME NEW t \in Thread, CtlOK, Return(t) PROVE CtlOK'
BY DEF CtlOK, Return, NoJob, Job, PCs

\* So does one that moves to another place.
LEMMA CtlGoto == ASSUME NEW t \in Thread, NEW l \in PCs, CtlOK, Goto(t, l) PROVE CtlOK'
BY DEF CtlOK, Goto

\* So does one that begins.
LEMMA CtlEnter ==
    ASSUME NEW t \in Thread, NEW k, NEW s, NEW c, NEW l \in PCs,
           [kind |-> k, s |-> s, c |-> c] \in Job, CtlOK, Enter(t, k, s, c, l)
    PROVE  CtlOK'
BY DEF CtlOK, Enter

\* What the type of the control state says of one thread.
LEMMA CtlFacts ==
    ASSUME CtlOK, NEW t \in Thread
    PROVE  /\ pc[t] \in PCs /\ job[t] \in Job /\ snap[t] \subseteq Sessions
           /\ job[t].s \in Sessions \cup {None} /\ job[t].c \in Sessions \cup {None}
           /\ job[t].kind \in {"create", "fork"} => job[t].c \in Sessions
           /\ job[t].kind \in Removals => job[t].s \in Sessions
BY DEF CtlOK, Job, Removals, TurnJobs

\* A call that has its claim keeps the control state and the claims well typed.
LEMMA CtlClaimed == ASSUME NEW t \in Thread, CtlOK, ClaimsOK, Claimed(t)
                    PROVE  CtlOK' /\ running' \in [Procs -> Sessions \cup {None}]
<1>1. CtlOK'
  BY CtlReturn DEF Claimed, CtlOK, PCs
<1>2. running' \in [Procs -> Sessions \cup {None}]
  BY CtlFacts DEF Claimed, ClaimsOK
<1> QED BY <1>1, <1>2

\* A call that ends and frees the store keeps the locks well typed.
LEMMA EndStoreType == ASSUME NEW t \in Thread, CtlOK, LocksOK, EndStore(t)
                      PROVE  CtlOK' /\ LocksOK'
BY CtlReturn DEF EndStore, FreeStore, LocksOK

\* A call that begins keeps everything well typed.
LEMMA BeginType ==
    ASSUME NEW t \in Thread, NEW k, NEW s, NEW c, NEW l \in {"own", "lock"},
           [kind |-> k, s |-> s, c |-> c] \in Job, TypeOK, Begin(t, k, s, c, l)
    PROVE  DiskOK' /\ LocksOK' /\ ClaimsOK' /\ MemoOK' /\ CtlOK' /\ known' = known /\ crashes' \in Nat
<1>1. l \in PCs
  BY DEF PCs
<1> QED BY <1>1, CtlEnter DEF Begin, TypeOK, DiskOK, LocksOK, ClaimsOK, MemoOK, disk, locks, claims, memo

\* Updating one process's sets of the memo keeps the memo well typed.
LEMMA MemoUpdate ==
    ASSUME MemoOK, NEW p, NEW F \in SUBSET Sessions,
           listed' = [listed EXCEPT ![p] = @ \cup F],
           pending' = [pending EXCEPT ![p] = @ \cup F], removed' = removed
    PROVE  MemoOK'
BY DEF MemoOK

FilesOK == files \in [Sessions -> SUBSET FileKinds]

\* Adding files to one session keeps the disk well typed.
LEMMA FilesUpdate ==
    ASSUME FilesOK, NEW s, NEW F \in SUBSET FileKinds,
           files' = [files EXCEPT ![s] = F] \/ files' = [files EXCEPT ![s] = @ \cup F] \/ files' = files
    PROVE  FilesOK'
BY DEF FilesOK

\* So does appending to its event log.
LEMMA AppendEventsType ==
    ASSUME FilesOK, NEW p, NEW s, AppendEvents(p, s) \/ UNCHANGED files
    PROVE  FilesOK'
BY FilesUpdate DEF AppendEvents, FileKinds

\* Letting go of a session keeps everything well typed.
LEMMA LetGoType ==
    ASSUME NEW t \in Thread, NEW s \in Sessions \cup {None}, TypeOK, LetGo(t, s)
    PROVE  TypeOK'
<1> USE ThreadFacts DEF TypeOK
<1>1. CASE running[t[1]] = s
  <2>1. DiskOK' /\ MemoOK' /\ LocksOK'
    BY <1>1 DEF LetGo, DiskOK, MemoOK, LocksOK, disk, memo
  <2>2. CtlOK'
    BY <1>1, CtlReturn DEF LetGo
  <2>3. ClaimsOK'
    <3>1. s \in Sessions \/ owner' = owner
      BY <1>1 DEF LetGo, ClaimsOK
    <3>2. \E o \in {"no", "held", "detaching"} : owner' = [owner EXCEPT ![t[1]][s] = o]
      BY <1>1, <3>1 DEF LetGo, ClaimsOK
    <3>3. owner' \in [Procs -> [Sessions -> {"no", "held", "detaching"}]]
      <4>1. PICK o \in {"no", "held", "detaching"} : owner' = [owner EXCEPT ![t[1]][s] = o]
        BY <3>2
      <4>2. owner \in [Procs -> [Sessions -> {"no", "held", "detaching"}]]
        BY DEF ClaimsOK
      <4> QED BY <4>1, <4>2, ExceptExcept
    <3> QED BY <1>1, <3>3 DEF LetGo, ClaimsOK
  <2> QED BY <2>1, <2>2, <2>3 DEF LetGo
<1>2. CASE running[t[1]] # s
  <2>1. DiskOK' /\ MemoOK'
    BY <1>2 DEF LetGo, DiskOK, MemoOK, disk, memo
  <2>2. "release" \in PCs /\ [kind |-> "detach", s |-> s, c |-> None] \in Job
    BY DEF PCs, OwnersPCs, Job
  <2>3. CtlOK'
    BY <1>2, <2>2, CtlEnter DEF LetGo
  <2>4. ClaimsOK' /\ LocksOK'
    BY <1>2 DEF LetGo, ClaimsOK, LocksOK
  <2> QED BY <2>1, <2>3, <2>4 DEF LetGo
<1> QED BY <1>1, <1>2

\* Every variable of the store keeps its type.
THEOREM TypeCorrect == Spec => []TypeOK
<1> USE DEF disk, locks, claims, memo, ctl
<1>1. Init => TypeOK
  BY ThreadFacts DEF Init, TypeOK, DiskOK, LocksOK, ClaimsOK, MemoOK, CtlOK, PCs, Job, NoJob
<1>2. TypeOK /\ [Next]_vars => TypeOK'
  <2> SUFFICES ASSUME TypeOK, [Next]_vars PROVE TypeOK'
    OBVIOUS
  <2> USE DEF TypeOK, DiskOK, LocksOK, ClaimsOK, MemoOK
  <2>1. ASSUME NEW t \in Thread, OwnHeld(t) PROVE TypeOK'
    <3>1. CtlOK' /\ running' \in [Procs -> Sessions \cup {None}]
      BY <2>1, CtlClaimed, CtlGoto DEF OwnHeld, PCs, OwnersPCs
    <3>2. LocksOK'
      <4>1. ownersLock' = ownersLock \/ ownersLock' = [ownersLock EXCEPT ![t[1]] = t]
        BY <2>1 DEF OwnHeld
      <4>2. ownersLock' \in [Procs -> Thread \cup {None}]
        BY <4>1
      <4> QED BY <2>1, <4>2 DEF OwnHeld
    <3> QED BY <2>1, <3>1, <3>2 DEF OwnHeld
  <2>1a. ASSUME NEW t \in Thread, Revalidate(t) PROVE TypeOK'
    <3>1. CtlOK' /\ running' \in [Procs -> Sessions \cup {None}]
      BY <2>1a, CtlClaimed, CtlReturn DEF Revalidate
    <3>2. owner' \in [Procs -> [Sessions -> {"no", "held", "detaching"}]]
      <4>1. \/ owner' = owner
            \/ owner' = [owner EXCEPT ![t[1]][job[t].s] = "held"]
        BY <2>1a DEF Revalidate
      <4>2. CASE owner' = [owner EXCEPT ![t[1]][job[t].s] = "held"]
        BY <4>2, ExceptExcept
      <4> QED BY <4>1, <4>2
    <3> QED BY <2>1a, <3>1, <3>2, ThreadFacts DEF Revalidate, FreeOwners
  <2>2. ASSUME NEW t \in Thread, OwnNew(t) PROVE TypeOK'
    BY <2>2, CtlGoto, ThreadFacts DEF OwnNew, PCs, StorePCs, MemoPCs, OwnersPCs
  <2>3. ASSUME NEW t \in Thread, ClaimStore(t) PROVE TypeOK'
    BY <2>3, CtlGoto, ThreadFacts DEF ClaimStore, TakeStore, PCs, StorePCs, MemoPCs, OwnersPCs
  <2>4. ASSUME NEW t \in Thread, OpenLock(t) PROVE TypeOK'
    BY <2>4, ThreadFacts DEF OpenLock, PCs, StorePCs, MemoPCs, OwnersPCs, UiJobs, TurnJobs, Removals, Job, CtlOK
  <2>5. ASSUME NEW t \in Thread, TryLock(t) PROVE TypeOK'
    <3>1. CtlOK' /\ running' \in [Procs -> Sessions \cup {None}]
      BY <2>5, CtlClaimed DEF TryLock
    <3>2. LocksOK'
      BY <2>5 DEF TryLock, FreeStore, FreeOwners
    <3>3. fd[t] \in {"none", "linked", "unlinked"}
      BY DEF CtlOK
    <3>4. ClaimsOK'
      <4>1. /\ lockOf' = [lockOf EXCEPT ![t[1]][job[t].s] = fd[t]]
            /\ owner' = [owner EXCEPT ![t[1]][job[t].s] = "held"]
        BY <2>5 DEF TryLock
      <4>2. lockOf' \in [Procs -> [Sessions -> {"none", "linked", "unlinked"}]]
        BY <4>1, <3>3, ExceptExcept
      <4>3. owner' \in [Procs -> [Sessions -> {"no", "held", "detaching"}]]
        BY <4>1, ExceptExcept
      <4> QED BY <3>1, <4>2, <4>3
    <3>5. MemoOK'
      <4> DEFINE F == IF readable /\ job[t].s \in index THEN {job[t].s} ELSE {}
      <4>1. /\ listed' = [listed EXCEPT ![t[1]] = @ \cup F]
            /\ pending' = [pending EXCEPT ![t[1]] = @ \cup F]
            /\ removed' = removed
        BY <2>5 DEF TryLock
      <4>2. F \in SUBSET Sessions
        OBVIOUS
      <4> HIDE DEF F
      <4> QED BY <4>1, <4>2, MemoUpdate
    <3> QED BY <2>5, <3>1, <3>2, <3>4, <3>5 DEF TryLock
  <2>6. ASSUME NEW t \in Thread, ClaimRefused(t) PROVE TypeOK'
    BY <2>6, CtlReturn, ThreadFacts DEF ClaimRefused, FreeStore, FreeOwners, LinkFree
  <2>7. ASSUME NEW t \in Thread, LockStore(t) PROVE TypeOK'
    BY <2>7, CtlGoto, ThreadFacts DEF LockStore, TakeStore, PCs, StorePCs, MemoPCs, OwnersPCs
  <2>8. ASSUME NEW t \in Thread, Read(t) PROVE TypeOK'
    <3>1. CtlOK' /\ LocksOK'
      <4>1. CASE EndStore(t)
        BY <4>1, EndStoreType
      <4>2. CASE /\ snap' = [snap EXCEPT ![t] = index] /\ UNCHANGED <<locks, job, fd>>
                 /\ pc' = [pc EXCEPT ![t] = IF job[t].kind = "fork" THEN "child" ELSE "write"]
        BY <4>2 DEF CtlOK, PCs, StorePCs
      <4> QED BY <2>8, <4>1, <4>2 DEF Read
    <3> QED BY <2>8, <3>1 DEF Read
  <2>9. ASSUME NEW t \in Thread, WriteChild(t) PROVE TypeOK'
    <3>1. CtlOK' /\ LocksOK'
      <4>1. CASE EndStore(t)
        BY <4>1, EndStoreType
      <4>2. CASE Goto(t, "write") /\ UNCHANGED locks
        BY <4>2, CtlGoto DEF PCs, StorePCs
      <4> QED BY <2>9, <4>1, <4>2 DEF WriteChild
    <3>2. DiskOK'
      <4>1. files' = files \/ files' = [files EXCEPT ![job[t].c] = {"messages"}]
        BY <2>9 DEF WriteChild
      <4> QED BY <2>9, <4>1, FilesUpdate DEF WriteChild, FilesOK, FileKinds
    <3> QED BY <2>9, <3>1, <3>2 DEF WriteChild
  <2>10. ASSUME NEW t \in Thread, WriteIndex(t) PROVE TypeOK'
    <3>1. CtlOK' /\ LocksOK'
      <4>1. CASE EndStore(t)
        BY <4>1, EndStoreType
      <4>2. CASE Goto(t, "forget") /\ UNCHANGED locks
        BY <4>2, CtlGoto DEF PCs, StorePCs
      <4> QED BY <2>10, <4>1, <4>2 DEF WriteIndex
    <3>2. index' \subseteq Sessions
      BY <2>10, CtlFacts DEF WriteIndex, Written
    <3>3. listed' \in [Procs -> SUBSET Sessions] /\ removed' \in [Procs -> SUBSET Sessions]
      <4>1. CASE job[t].kind \in Removals
        <5>1. job[t].s \in Sessions
          BY <4>1, CtlFacts
        <5>2. /\ listed' = [listed EXCEPT ![t[1]] = @ \ {job[t].s}]
              /\ removed' = [removed EXCEPT ![t[1]] = @ \cup {job[t].s}]
          BY <2>10, <4>1 DEF WriteIndex
        <5> QED BY <5>1, <5>2
      <4>2. CASE job[t].kind \notin Removals
        BY <2>10, <4>2 DEF WriteIndex
      <4> QED BY <4>1, <4>2
    <3> QED BY <2>10, <3>1, <3>2, <3>3 DEF WriteIndex
  <2>11. ASSUME NEW t \in Thread, WriteIndexFails(t) PROVE TypeOK'
    BY <2>11, CtlReturn, ThreadFacts DEF WriteIndexFails, EndStore, FreeStore
  <2>12. ASSUME NEW t \in Thread, Forget(t) PROVE TypeOK'
    BY <2>12, CtlGoto, ThreadFacts DEF Forget, PCs, StorePCs, MemoPCs, OwnersPCs, UiJobs, TurnJobs, Removals, Job, CtlOK
  <2>13. ASSUME NEW t \in Thread, Erase(t) PROVE TypeOK'
    <3>1. CtlOK'
      BY <2>13, CtlGoto DEF Erase, PCs, StorePCs
    <3>2. FilesOK'
      BY <2>13, FilesUpdate DEF Erase, FilesOK
    <3> QED BY <2>13, <3>1, <3>2 DEF Erase, FilesOK
  <2>14. ASSUME NEW t \in Thread, Unlink(t) PROVE TypeOK'
    <3>1. LocksOK'
      BY <2>14 DEF Unlink, FreeStore
    <3>2. CtlOK'
      BY <2>14 DEF Unlink, CtlOK, PCs, Orphaned
    <3>3. ClaimsOK'
      <4>1. CASE lockOf' = [q \in Procs |-> [lockOf[q] EXCEPT ![job[t].s] = Orphaned(@)]]
        <5>1. \A q \in Procs : [lockOf[q] EXCEPT ![job[t].s] = Orphaned(@)] \in [Sessions -> {"none", "linked", "unlinked"}]
          <6> SUFFICES ASSUME NEW q \in Procs
                       PROVE  [lockOf[q] EXCEPT ![job[t].s] = Orphaned(@)] \in [Sessions -> {"none", "linked", "unlinked"}]
            OBVIOUS
          <6>1. lockOf[q] \in [Sessions -> {"none", "linked", "unlinked"}]
            OBVIOUS
          <6>2. \A h \in {"none", "linked", "unlinked"} : Orphaned(h) \in {"none", "linked", "unlinked"}
            BY DEF Orphaned
          <6> QED BY <6>1, <6>2
        <5> QED BY <2>14, <4>1, <5>1 DEF Unlink
      <4>2. CASE lockOf' = lockOf
        BY <2>14, <4>2 DEF Unlink
      <4> QED BY <2>14, <4>1, <4>2 DEF Unlink
    <3> QED BY <2>14, <3>1, <3>2, <3>3 DEF Unlink
  <2>15. ASSUME NEW t \in Thread, Leave(t) PROVE TypeOK'
    <3>1. CASE LetGo(t, job[t].s)
      BY <3>1, CtlFacts, LetGoType
    <3>2. CASE Return(t) /\ UNCHANGED <<disk, locks, claims, memo, running, used, known, crashes>>
      BY <3>2, CtlReturn
    <3> QED BY <2>15, <3>1, <3>2 DEF Leave
  <2>16. ASSUME NEW t \in Thread, Save(t) PROVE TypeOK'
    <3>1. CtlOK' /\ LocksOK'
      BY <2>16, EndStoreType DEF Save
    <3>2. DiskOK'
      BY <2>16, SMTT(40) DEF Save, FileKinds
    <3> QED BY <2>16, <3>1, <3>2 DEF Save
  <2>17. ASSUME NEW t \in Thread, LockMemo(t) PROVE TypeOK'
    BY <2>17, CtlGoto, ThreadFacts DEF LockMemo, PCs, StorePCs, MemoPCs, OwnersPCs
  <2>18. ASSUME NEW t \in Thread, CheckSidecar(t) PROVE TypeOK'
    BY <2>18, CtlReturn, CtlGoto, ThreadFacts DEF CheckSidecar, EndMemo, Indexed, PCs, StorePCs, MemoPCs, OwnersPCs
  <2>19. ASSUME NEW t \in Thread, PutSidecar(t) PROVE TypeOK'
    <3>1. CtlOK' /\ LocksOK'
      BY <2>19, CtlReturn DEF PutSidecar, EndMemo
    <3>2. DiskOK'
      BY <2>19, SMTT(40) DEF PutSidecar, FileKinds
    <3> QED BY <2>19, <3>1, <3>2 DEF PutSidecar
  <2>19a. ASSUME NEW t \in Thread, Disown(t) PROVE TypeOK'
    <3>1. CtlOK'
      BY <2>19a, CtlGoto DEF Disown, PCs, OwnersPCs
    <3>2. DiskOK' /\ MemoOK'
      BY <2>19a, AppendEventsType DEF Disown, FilesOK
    <3> QED BY <2>19a, <3>1, <3>2 DEF Disown
  <2>20. ASSUME NEW t \in Thread, Unclaim(t) PROVE TypeOK'
    <3>1. CtlOK' /\ LocksOK'
      BY <2>20, CtlReturn DEF Unclaim, FreeOwners
    <3>2. ClaimsOK'
      BY <2>20, ExceptExcept DEF Unclaim
    <3> QED BY <2>20, <3>1, <3>2 DEF Unclaim
  <2>21. ASSUME NEW p \in Procs, NEW s \in Sessions, Attach(p, s) PROVE TypeOK'
    <3>1. <<p, "ui">> \in Thread
      BY ThreadFacts
    <3>2. \A k \in {"attach", "start"} : [kind |-> k, s |-> s, c |-> None] \in Job
      BY DEF Job
    <3> QED BY <2>21, <3>1, <3>2, BeginType DEF Attach
  <2>22. ASSUME NEW p \in Procs, NEW s \in Sessions, Create(p, s) PROVE TypeOK'
    <3>1. <<p, "ui">> \in Thread /\ [kind |-> "create", s |-> None, c |-> s] \in Job
      BY ThreadFacts DEF Job
    <3> QED BY <2>22, <3>1, BeginType DEF Create
  <2>23. ASSUME NEW p \in Procs, NEW s \in Sessions, Remove(p, s) PROVE TypeOK'
    <3>1. <<p, "ui">> \in Thread
      BY ThreadFacts
    <3>2. \A k \in {"delete", "discard"} : [kind |-> k, s |-> s, c |-> None] \in Job
      BY DEF Job
    <3> QED BY <2>23, <3>1, <3>2, BeginType DEF Remove
  <2>24. ASSUME NEW p \in Procs, NEW s \in Sessions, Detach(p, s) PROVE TypeOK'
    BY <2>24, LetGoType, ThreadFacts DEF Detach, UiJobs
  <2>25. ASSUME NEW p \in Procs, NEW s \in Sessions, NEW c \in Sessions, Fork(p, s, c) PROVE TypeOK'
    <3>1. <<p, "ui">> \in Thread /\ [kind |-> "fork", s |-> s, c |-> c] \in Job
      BY ThreadFacts DEF Job
    <3> QED BY <2>25, <3>1, BeginType DEF Fork
  <2>26. ASSUME NEW p \in Procs, TurnWrite(p) PROVE TypeOK'
    <3>1. <<p, "turn">> \in Thread
      BY ThreadFacts
    <3>2. \A k \in TurnJobs : [kind |-> k, s |-> running[p], c |-> None] \in Job
      BY <2>26 DEF Job, TurnWrite
    <3> QED BY <2>26, <3>1, <3>2, BeginType DEF TurnWrite
  <2>27. ASSUME NEW p \in Procs, WriteEvents(p) PROVE TypeOK'
    BY <2>27, AppendEventsType DEF WriteEvents, FilesOK, CtlOK
  <2>28. ASSUME NEW p \in Procs, Finish(p) PROVE TypeOK'
    <3> DEFINE t == <<p, "turn">>
    <3>1. t \in Thread /\ running[p] \in Sessions
      <4>1. running[p] # None
        BY <2>28 DEF Finish
      <4>2. running[p] \in Sessions \cup {None}
        OBVIOUS
      <4> QED BY <4>1, <4>2, ThreadFacts
    <3>2. running' \in [Procs -> Sessions \cup {None}]
      BY <2>28 DEF Finish
    <3>a. DiskOK' /\ MemoOK'
      BY <2>28, AppendEventsType DEF Finish, FilesOK
    <3>3. CASE owner[p][running[p]] = "detaching"
      <4>2. "release" \in PCs /\ [kind |-> "finish", s |-> running[p], c |-> None] \in Job
        BY <3>1 DEF PCs, OwnersPCs, Job
      <4>3. CtlOK'
        BY <2>28, <3>1, <3>3, <4>2, CtlEnter DEF Finish
      <4>4. LocksOK'
        <5>1. UNCHANGED <<flock, memoLock>> /\ ownersLock' = [ownersLock EXCEPT ![p] = t]
          BY <2>28, <3>3 DEF Finish
        <5> QED BY <3>1, <5>1
      <4>5. ClaimsOK'
        BY <2>28, <3>2 DEF Finish
      <4> QED BY <2>28, <3>a, <4>3, <4>4, <4>5 DEF Finish
    <3>4. CASE owner[p][running[p]] # "detaching"
      BY <2>28, <3>a, <3>2, <3>4 DEF Finish, CtlOK
    <3> QED BY <3>3, <3>4
  <2>29. ASSUME NEW p \in Procs, Crash(p) PROVE TypeOK'
    BY <2>29, ThreadFacts DEF Crash, UiJobs, TurnJobs, Removals, Job, CtlOK, NoJob, PCs
  <2>30. CASE Damage
    BY <2>30, ThreadFacts DEF Damage, UiJobs, TurnJobs, Removals, Job, CtlOK
  <2>31. CASE UNCHANGED vars
    BY <2>31 DEF vars, CtlOK
  <2> QED BY <2>1, <2>1a, <2>2, <2>3, <2>4, <2>5, <2>6, <2>7, <2>8, <2>9, <2>10, <2>11, <2>12, <2>13, <2>14, <2>15, <2>16, <2>17, <2>18, <2>19, <2>19a, <2>20, <2>21, <2>22, <2>23, <2>24, <2>25, <2>26, <2>27, <2>28, <2>29, <2>30, <2>31 DEF Next, Step, Call
<1> QED BY <1>1, <1>2, PTL DEF Spec

\* A call begins holding no lock.
LEMMA BeginLock ==
    ASSUME TypeOK, LockInv, NEW t \in Thread, NEW k, NEW s, NEW c, NEW l \in {"own", "lock"},
           Begin(t, k, s, c, l)
    PROVE  LockInv'
BY ThreadFacts DEF Begin, Enter, TypeOK, LocksOK, CtlOK, LockInv, StorePCs, MemoPCs, OwnersPCs, disk, locks, claims, memo, ctl

\* A thread that enters a release takes the owners lock alone.
LEMMA ReleaseLock ==
    ASSUME TypeOK, LockInv, NEW t \in Thread, pc[t] \in {"idle", "leave"}, ownersLock[t[1]] = None,
           pc' = [pc EXCEPT ![t] = "release"], ownersLock' = [ownersLock EXCEPT ![t[1]] = t],
           UNCHANGED <<flock, memoLock>>
    PROVE  LockInv'
BY ThreadFacts DEF TypeOK, LocksOK, CtlOK, LockInv, StorePCs, MemoPCs, OwnersPCs, disk, locks, claims, memo, ctl

\* Letting go of a session keeps the locks with the places.
LEMMA LetGoLock ==
    ASSUME TypeOK, LockInv, NEW t \in Thread, NEW s, pc[t] \in {"idle", "leave"}, LetGo(t, s)
    PROVE  LockInv'
<1> USE ThreadFacts DEF TypeOK, LocksOK, CtlOK, LockInv, StorePCs, MemoPCs, OwnersPCs, disk, locks, claims, memo, ctl
<1>1. CASE running[t[1]] = s
  BY <1>1 DEF LetGo, Return
<1>2. CASE running[t[1]] # s
  BY <1>2 DEF LetGo, Enter
<1> QED BY <1>1, <1>2

\* Every step keeps the locks with the places that hold them.
LEMMA LockStep == ASSUME TypeOK, LockInv, [Next]_vars PROVE LockInv'
<1> USE DEF TypeOK, LocksOK, CtlOK, LockInv, StorePCs, MemoPCs, OwnersPCs, disk, locks, claims, memo, ctl
<1>1. ASSUME NEW t \in Thread, OwnHeld(t) PROVE LockInv'
  BY <1>1, ThreadFacts DEF OwnHeld, Claimed, Reactivates, Return, Goto
<1>1a. ASSUME NEW t \in Thread, Revalidate(t) PROVE LockInv'
  BY <1>1a, ThreadFacts DEF Revalidate, Claimed, Reactivates, Return, FreeOwners
<1>2. ASSUME NEW t \in Thread, OwnNew(t) PROVE LockInv'
  BY <1>2, ThreadFacts DEF OwnNew, Goto
<1>3. ASSUME NEW t \in Thread, ClaimStore(t) PROVE LockInv'
  BY <1>3, ThreadFacts DEF ClaimStore, TakeStore, Goto
<1>4. ASSUME NEW t \in Thread, OpenLock(t) PROVE LockInv'
  BY <1>4, ThreadFacts DEF OpenLock
<1>5. ASSUME NEW t \in Thread, TryLock(t) PROVE LockInv'
  BY <1>5, ThreadFacts DEF TryLock, Claimed, Reactivates, Return, FreeStore, FreeOwners, LinkFree
<1>6. ASSUME NEW t \in Thread, ClaimRefused(t) PROVE LockInv'
  BY <1>6, ThreadFacts DEF ClaimRefused, Return, FreeStore, FreeOwners, LinkFree
<1>7. ASSUME NEW t \in Thread, LockStore(t) PROVE LockInv'
  BY <1>7, ThreadFacts DEF LockStore, TakeStore, Goto
<1>8. ASSUME NEW t \in Thread, Read(t) PROVE LockInv'
  BY <1>8, ThreadFacts DEF Read, EndStore, Return, FreeStore
<1>9. ASSUME NEW t \in Thread, WriteChild(t) PROVE LockInv'
  BY <1>9, ThreadFacts DEF WriteChild, EndStore, Return, FreeStore, Goto
<1>10. ASSUME NEW t \in Thread, WriteIndex(t) PROVE LockInv'
  BY <1>10, ThreadFacts DEF WriteIndex, Written, EndStore, Return, FreeStore, Goto
<1>11. ASSUME NEW t \in Thread, WriteIndexFails(t) PROVE LockInv'
  BY <1>11, ThreadFacts DEF WriteIndexFails, EndStore, Return, FreeStore
<1>12. ASSUME NEW t \in Thread, Forget(t) PROVE LockInv'
  BY <1>12, ThreadFacts DEF Forget, Goto
<1>13. ASSUME NEW t \in Thread, Erase(t) PROVE LockInv'
  BY <1>13, ThreadFacts DEF Erase, Goto
<1>14. ASSUME NEW t \in Thread, Unlink(t) PROVE LockInv'
  BY <1>14, ThreadFacts DEF Unlink, FreeStore, Orphaned
<1>15. ASSUME NEW t \in Thread, Leave(t) PROVE LockInv'
  <2>1. CASE LetGo(t, job[t].s)
    BY <1>15, <2>1, LetGoLock DEF Leave
  <2>2. CASE Return(t) /\ UNCHANGED <<disk, locks, claims, memo, running, used, known, crashes>>
    BY <1>15, <2>2, ThreadFacts DEF Leave, Return
  <2> QED BY <1>15, <2>1, <2>2 DEF Leave
<1>16. ASSUME NEW t \in Thread, Save(t) PROVE LockInv'
  BY <1>16, ThreadFacts DEF Save, EndStore, Return, FreeStore, Indexed
<1>17. ASSUME NEW t \in Thread, LockMemo(t) PROVE LockInv'
  BY <1>17, ThreadFacts DEF LockMemo, Goto
<1>18. ASSUME NEW t \in Thread, CheckSidecar(t) PROVE LockInv'
  BY <1>18, ThreadFacts DEF CheckSidecar, EndMemo, Return, Goto, Indexed
<1>19. ASSUME NEW t \in Thread, PutSidecar(t) PROVE LockInv'
  BY <1>19, ThreadFacts DEF PutSidecar, EndMemo, Return
<1>19a. ASSUME NEW t \in Thread, Disown(t) PROVE LockInv'
  BY <1>19a, ThreadFacts DEF Disown, Goto
<1>20. ASSUME NEW t \in Thread, Unclaim(t) PROVE LockInv'
  BY <1>20, ThreadFacts DEF Unclaim, FreeOwners, Return
<1>21. ASSUME NEW p \in Procs, NEW s \in Sessions, Attach(p, s) PROVE LockInv'
  <2>1. <<p, "ui">> \in Thread
    BY ThreadFacts
  <2> QED BY <1>21, <2>1, BeginLock DEF Attach
<1>22. ASSUME NEW p \in Procs, NEW s \in Sessions, Create(p, s) PROVE LockInv'
  <2>1. <<p, "ui">> \in Thread
    BY ThreadFacts
  <2> QED BY <1>22, <2>1, BeginLock DEF Create
<1>23. ASSUME NEW p \in Procs, NEW s \in Sessions, Remove(p, s) PROVE LockInv'
  <2>1. <<p, "ui">> \in Thread
    BY ThreadFacts
  <2> QED BY <1>23, <2>1, BeginLock DEF Remove
<1>24. ASSUME NEW p \in Procs, NEW s \in Sessions, Detach(p, s) PROVE LockInv'
  <2>1. <<p, "ui">> \in Thread /\ pc[<<p, "ui">>] = "idle" /\ LetGo(<<p, "ui">>, s)
    BY <1>24, ThreadFacts DEF Detach
  <2> QED BY <2>1, LetGoLock
<1>25. ASSUME NEW p \in Procs, NEW s \in Sessions, NEW c \in Sessions, Fork(p, s, c) PROVE LockInv'
  <2>1. <<p, "ui">> \in Thread
    BY ThreadFacts
  <2> QED BY <1>25, <2>1, BeginLock DEF Fork
<1>26. ASSUME NEW p \in Procs, TurnWrite(p) PROVE LockInv'
  <2>1. <<p, "turn">> \in Thread
    BY ThreadFacts
  <2> QED BY <1>26, <2>1, BeginLock DEF TurnWrite
<1>27. ASSUME NEW p \in Procs, WriteEvents(p) PROVE LockInv'
  BY <1>27, ThreadFacts DEF WriteEvents
<1>28. ASSUME NEW p \in Procs, Finish(p) PROVE LockInv'
  <2>1. <<p, "turn">> \in Thread /\ <<p, "turn">>[1] = p
    BY ThreadFacts
  <2>2. CASE owner[p][running[p]] = "detaching"
    <3> DEFINE t == <<p, "turn">>
    <3>1. /\ pc[t] = "idle" /\ ownersLock[p] = None /\ UNCHANGED <<flock, memoLock>>
          /\ pc' = [pc EXCEPT ![t] = "release"] /\ ownersLock' = [ownersLock EXCEPT ![p] = t]
      BY <1>28, <2>2 DEF Finish, Enter
    <3>2. t \in Thread /\ t[1] = p
      BY <2>1
    <3>3. /\ pc[t] = "idle" /\ ownersLock[t[1]] = None /\ flock' = flock /\ memoLock' = memoLock
          /\ pc' = [pc EXCEPT ![t] = "release"] /\ ownersLock' = [ownersLock EXCEPT ![t[1]] = t]
      BY <3>1, <3>2
    <3> HIDE DEF t, TypeOK, LockInv
    <3> QED BY <3>2, <3>3, ReleaseLock
  <2>3. CASE owner[p][running[p]] # "detaching"
    BY <1>28, <2>1, <2>3 DEF Finish
  <2> QED BY <2>2, <2>3
<1>29. ASSUME NEW p \in Procs, Crash(p) PROVE LockInv'
  BY <1>29, ThreadFacts DEF Crash
<1>30. CASE Damage
  BY <1>30, ThreadFacts DEF Damage
<1>31. CASE UNCHANGED vars
  BY <1>31 DEF vars
<1> QED BY <1>1, <1>1a, <1>2, <1>3, <1>4, <1>5, <1>6, <1>7, <1>8, <1>9, <1>10, <1>11, <1>12, <1>13, <1>14, <1>15, <1>16, <1>17, <1>18, <1>19, <1>19a, <1>20, <1>21, <1>22, <1>23, <1>24, <1>25, <1>26, <1>27, <1>28, <1>29, <1>30, <1>31 DEF Next, Step, Call

\* A call that has its claim is at a place its kind goes to.
LEMMA ClaimedJob ==
    ASSUME TypeOK, JobInv, NEW t \in Thread, pc[t] \in {"own", "try", "again"}, Claimed(t)
    PROVE  JobInv'
BY ThreadFacts DEF Claimed, Reactivates, Return, NoJob, TypeOK, CtlOK, JobInv, UiJobs, TurnJobs, Removals, RemovalTail, MemoPCs

\* Letting go of a session keeps jobs and places in agreement.
LEMMA LetGoJob ==
    ASSUME TypeOK, JobInv, NEW t \in Thread, t[2] = "ui", NEW s,
           pc[t] \in {"idle", "leave"}, LetGo(t, s)
    PROVE  JobInv'
<1> USE ThreadFacts DEF TypeOK, CtlOK, JobInv, UiJobs, TurnJobs, Removals, RemovalTail, MemoPCs
<1>1. CASE running[t[1]] = s
  BY <1>1 DEF LetGo, Return, NoJob
<1>2. CASE running[t[1]] # s
  BY <1>2 DEF LetGo, Enter
<1> QED BY <1>1, <1>2

\* A call begins at a place its kind goes to.
LEMMA BeginJob ==
    ASSUME TypeOK, JobInv, NEW t \in Thread, NEW k \in UiJobs \cup TurnJobs, NEW s, NEW c,
           NEW l \in {"own", "lock"}, Begin(t, k, s, c, l),
           k \in UiJobs \ {"detach"} => t[2] = "ui", k \in TurnJobs => t[2] = "turn", k # "detach",
           l = "lock" <=> k \in {"create", "fork"}
    PROVE  JobInv'
BY ThreadFacts DEF Begin, Enter, TypeOK, CtlOK, JobInv, UiJobs, TurnJobs, Removals, RemovalTail, MemoPCs

\* Every step keeps jobs and places in agreement.
LEMMA JobStep == ASSUME TypeOK, LockInv, JobInv, [Next]_vars PROVE JobInv'
<1> USE DEF TypeOK, CtlOK, JobInv, UiJobs, TurnJobs, Removals, RemovalTail, MemoPCs, NoJob, ctl
<1>1. ASSUME NEW t \in Thread, OwnHeld(t) PROVE JobInv'
  <2>1. CASE Claimed(t)
    BY <1>1, <2>1, ClaimedJob DEF OwnHeld
  <2>2. CASE Reactivates(job[t].kind) /\ Goto(t, "again")
    BY <1>1, <2>2, ThreadFacts DEF OwnHeld, Goto, Reactivates
  <2> QED BY <1>1, <2>1, <2>2 DEF OwnHeld
<1>1a. ASSUME NEW t \in Thread, Revalidate(t) PROVE JobInv'
  <2>1. CASE Claimed(t)
    BY <1>1a, <2>1, ClaimedJob DEF Revalidate
  <2>2. CASE Return(t)
    BY <1>1a, <2>2, ThreadFacts DEF Return
  <2> QED BY <1>1a, <2>1, <2>2 DEF Revalidate
<1>2. ASSUME NEW t \in Thread, OwnNew(t) PROVE JobInv'
  BY <1>2, ThreadFacts DEF OwnNew, Goto
<1>3. ASSUME NEW t \in Thread, ClaimStore(t) PROVE JobInv'
  BY <1>3, ThreadFacts DEF ClaimStore, TakeStore, Goto
<1>4. ASSUME NEW t \in Thread, OpenLock(t) PROVE JobInv'
  BY <1>4, ThreadFacts DEF OpenLock
<1>5. ASSUME NEW t \in Thread, TryLock(t) PROVE JobInv'
  BY <1>5, ClaimedJob DEF TryLock
<1>6. ASSUME NEW t \in Thread, ClaimRefused(t) PROVE JobInv'
  BY <1>6, ThreadFacts DEF ClaimRefused, Return, FreeStore, FreeOwners, LinkFree
<1>7. ASSUME NEW t \in Thread, LockStore(t) PROVE JobInv'
  BY <1>7, ThreadFacts DEF LockStore, TakeStore, Goto
<1>8. ASSUME NEW t \in Thread, Read(t) PROVE JobInv'
  BY <1>8, ThreadFacts DEF Read, EndStore, Return, FreeStore
<1>9. ASSUME NEW t \in Thread, WriteChild(t) PROVE JobInv'
  BY <1>9, ThreadFacts DEF WriteChild, EndStore, Return, FreeStore, Goto
<1>10. ASSUME NEW t \in Thread, WriteIndex(t) PROVE JobInv'
  BY <1>10, ThreadFacts DEF WriteIndex, Written, EndStore, Return, FreeStore, Goto
<1>11. ASSUME NEW t \in Thread, WriteIndexFails(t) PROVE JobInv'
  BY <1>11, ThreadFacts DEF WriteIndexFails, EndStore, Return, FreeStore
<1>12. ASSUME NEW t \in Thread, Forget(t) PROVE JobInv'
  BY <1>12, ThreadFacts DEF Forget, Goto
<1>13. ASSUME NEW t \in Thread, Erase(t) PROVE JobInv'
  BY <1>13, ThreadFacts DEF Erase, Goto
<1>14. ASSUME NEW t \in Thread, Unlink(t) PROVE JobInv'
  <2>1. flock = t
    BY <1>14 DEF Unlink, LockInv, StorePCs
  <2>2. \A u \in Thread : pc[u] = "try" => flock = u
    BY DEF LockInv, StorePCs
  <2>3. pc[t] = "unlink" /\ pc' = [pc EXCEPT ![t] = "leave"] /\ job' = job
    BY <1>14 DEF Unlink
  <2>4. \A u \in Thread : fd'[u] = fd[u]
    BY <1>14, <2>1, <2>2, <2>3 DEF Unlink, Orphaned
  <2> QED BY <2>3, <2>4
<1>15. ASSUME NEW t \in Thread, Leave(t) PROVE JobInv'
  BY <1>15, ThreadFacts DEF Leave, LetGo, Return, Enter
<1>16. ASSUME NEW t \in Thread, Save(t) PROVE JobInv'
  BY <1>16, ThreadFacts DEF Save, EndStore, Return, FreeStore, Indexed
<1>17. ASSUME NEW t \in Thread, LockMemo(t) PROVE JobInv'
  BY <1>17, ThreadFacts DEF LockMemo, Goto
<1>18. ASSUME NEW t \in Thread, CheckSidecar(t) PROVE JobInv'
  BY <1>18, ThreadFacts DEF CheckSidecar, EndMemo, Return, Goto, Indexed
<1>19. ASSUME NEW t \in Thread, PutSidecar(t) PROVE JobInv'
  BY <1>19, ThreadFacts DEF PutSidecar, EndMemo, Return
<1>19a. ASSUME NEW t \in Thread, Disown(t) PROVE JobInv'
  BY <1>19a, ThreadFacts DEF Disown, Goto
<1>20. ASSUME NEW t \in Thread, Unclaim(t) PROVE JobInv'
  BY <1>20, ThreadFacts DEF Unclaim, FreeOwners, Return
<1>21. ASSUME NEW p \in Procs, NEW s \in Sessions, Attach(p, s) PROVE JobInv'
  <2>1. <<p, "ui">> \in Thread /\ <<p, "ui">>[2] = "ui"
    BY ThreadFacts
  <2> QED BY <1>21, <2>1, BeginJob DEF Attach
<1>22. ASSUME NEW p \in Procs, NEW s \in Sessions, Create(p, s) PROVE JobInv'
  <2>1. <<p, "ui">> \in Thread /\ <<p, "ui">>[2] = "ui"
    BY ThreadFacts
  <2> QED BY <1>22, <2>1, BeginJob DEF Create
<1>23. ASSUME NEW p \in Procs, NEW s \in Sessions, Remove(p, s) PROVE JobInv'
  <2>1. <<p, "ui">> \in Thread /\ <<p, "ui">>[2] = "ui"
    BY ThreadFacts
  <2> QED BY <1>23, <2>1, BeginJob DEF Remove
<1>24. ASSUME NEW p \in Procs, NEW s \in Sessions, Detach(p, s) PROVE JobInv'
  <2>1. <<p, "ui">> \in Thread /\ <<p, "ui">>[2] = "ui"
    BY ThreadFacts
  <2>2. pc[<<p, "ui">>] = "idle" /\ LetGo(<<p, "ui">>, s)
    BY <1>24 DEF Detach
  <2> QED BY <2>1, <2>2, LetGoJob
<1>25. ASSUME NEW p \in Procs, NEW s \in Sessions, NEW c \in Sessions, Fork(p, s, c) PROVE JobInv'
  <2>1. <<p, "ui">> \in Thread /\ <<p, "ui">>[2] = "ui"
    BY ThreadFacts
  <2> QED BY <1>25, <2>1, BeginJob DEF Fork
<1>26. ASSUME NEW p \in Procs, TurnWrite(p) PROVE JobInv'
  <2>1. <<p, "turn">> \in Thread /\ <<p, "turn">>[2] = "turn"
    BY ThreadFacts
  <2> QED BY <1>26, <2>1, BeginJob DEF TurnWrite
<1>27. ASSUME NEW p \in Procs, WriteEvents(p) PROVE JobInv'
  BY <1>27, ThreadFacts DEF WriteEvents
<1>28. ASSUME NEW p \in Procs, Finish(p) PROVE JobInv'
  <2>1. <<p, "turn">> \in Thread /\ <<p, "turn">>[2] = "turn"
    BY ThreadFacts
  <2>2. CASE owner[p][running[p]] = "detaching"
    <3>1. Enter(<<p, "turn">>, "finish", running[p], None, "release") /\ pc[<<p, "turn">>] = "idle"
      BY <1>28, <2>2 DEF Finish
    <3> QED BY <2>1, <3>1 DEF Enter
  <2>3. CASE owner[p][running[p]] # "detaching"
    BY <1>28, <2>3 DEF Finish
  <2> QED BY <2>2, <2>3
<1>29. ASSUME NEW p \in Procs, Crash(p) PROVE JobInv'
  BY <1>29, ThreadFacts DEF Crash
<1>30. CASE Damage
  BY <1>30, ThreadFacts DEF Damage
<1>31. CASE UNCHANGED vars
  BY <1>31 DEF vars
<1> QED BY <1>1, <1>1a, <1>2, <1>3, <1>4, <1>5, <1>6, <1>7, <1>8, <1>9, <1>10, <1>11, <1>12, <1>13, <1>14, <1>15, <1>16, <1>17, <1>18, <1>19, <1>19a, <1>20, <1>21, <1>22, <1>23, <1>24, <1>25, <1>26, <1>27, <1>28, <1>29, <1>30, <1>31 DEF Next, Step, Call

JobKeeps ==
    \A u \in Thread :
        \/ job'[u] = job[u]
        \/ job'[u].kind = "none"
        \/ job'[u].kind \notin {"create", "fork"} /\ job'[u].s \in known

\* A thread that keeps its job, or ends it, names no new id.
LEMMA JobIdsKept ==
    ASSUME IdInv, JobKeeps, known' = known, used \subseteq used', index' = index, ClaimIds'
    PROVE  IdInv'
BY DEF IdInv, IndexIds, JobIds, JobKeeps, Makes

\* A call that begins names a listed session, or an id nobody has.
LEMMA BeginIds ==
    ASSUME TypeOK, IdInv, NEW t \in Thread, NEW k, NEW s \in known, NEW l, used' = used,
           k \notin {"create", "fork"}, Begin(t, k, s, None, l)
    PROVE  IdInv'
<1>1. JobKeeps
  BY DEF Begin, Enter, JobKeeps, TypeOK, CtlOK
<1>2. ClaimIds' /\ known' = known /\ used' = used /\ index' = index
  BY DEF Begin, ClaimIds, disk, claims, IdInv
<1> QED BY <1>1, <1>2, JobIdsKept

\* What a job that makes nothing names has been listed.
LEMMA NamedKnown ==
    ASSUME JobInv, JobIds, NEW t \in Thread, pc[t] \in {"own", "again", "claim", "open", "try", "leave"}
    PROVE  job[t].s \in known
BY DEF JobInv, JobIds, RemovalTail, Removals

\* Letting go of a session brings no id into use.
LEMMA LetGoIds ==
    ASSUME TypeOK, IdInv, NEW t \in Thread, NEW s \in known, LetGo(t, s)
    PROVE  IdInv'
<1> USE ThreadFacts DEF TypeOK, CtlOK, ClaimsOK, IdInv
<1>1. JobKeeps
  BY DEF LetGo, Return, Enter, JobKeeps, NoJob
<1>2. ClaimIds' /\ known' = known /\ used' = used /\ index' = index
  <2>1. known' = known /\ used' = used /\ index' = index /\ running' = running
    BY DEF LetGo, disk
  <2>2. owner' = owner \/ \E v : owner' = [owner EXCEPT ![t[1]][s] = v]
    BY DEF LetGo
  <2>3. \A p \in Procs, z \in Sessions : owner'[p][z] = owner[p][z] \/ z = s
    <3>1. SUFFICES ASSUME owner' # owner, NEW p \in Procs, NEW z \in Sessions, z # s
                   PROVE  owner'[p][z] = owner[p][z]
      OBVIOUS
    <3>2. PICK v : owner' = [owner EXCEPT ![t[1]][s] = v]
      BY <2>2, <3>1
    <3> QED BY <3>1, <3>2
  <2> QED BY <2>1, <2>3, SMTT(40) DEF ClaimIds
<1> QED BY <1>1, <1>2, JobIdsKept

\* Every step keeps the ids apart.
LEMMA IdStep == ASSUME TypeOK, JobInv, IdInv, SnapInv, [Next]_vars PROVE IdInv'
<1> USE DEF TypeOK, CtlOK, ClaimsOK, DiskOK, IdInv, IndexIds, ClaimIds, TurnJobs, UiJobs, Removals, RemovalTail, MemoPCs, disk, locks, claims, memo, ctl, NoJob
<1>1. ASSUME NEW t \in Thread, OwnHeld(t) PROVE IdInv'
  <2>0. job[t].s \in known
    BY <1>1, NamedKnown DEF OwnHeld
  <2>1. JobKeeps /\ known' = known /\ used \subseteq used' /\ index' = index
    BY <1>1, ThreadFacts DEF JobKeeps, OwnHeld, Claimed, Reactivates, Return, Goto
  <2>2. ClaimIds'
    BY <1>1, <2>0, ThreadFacts DEF OwnHeld, Claimed, Reactivates, Return, Goto
  <2> QED BY <2>1, <2>2, JobIdsKept
<1>1a. ASSUME NEW t \in Thread, Revalidate(t) PROVE IdInv'
  <2>0. job[t].s \in known
    BY <1>1a, NamedKnown DEF Revalidate
  <2>1. JobKeeps /\ known' = known /\ used \subseteq used' /\ index' = index
    BY <1>1a, ThreadFacts DEF JobKeeps, Revalidate, Claimed, Reactivates, Return
  <2>2. ClaimIds'
    <3>1. running' = running \/ running' = [running EXCEPT ![t[1]] = job[t].s]
      BY <1>1a DEF Revalidate, Claimed
    <3>2. owner' = owner \/ owner' = [owner EXCEPT ![t[1]][job[t].s] = "held"]
      BY <1>1a DEF Revalidate
    <3>3. \A p \in Procs, s \in Sessions : owner'[p][s] = owner[p][s] \/ s = job[t].s
      BY <3>2
    <3> QED BY <1>1a, <2>0, <3>1, <3>3 DEF Revalidate
  <2> QED BY <2>1, <2>2, JobIdsKept
<1>2. ASSUME NEW t \in Thread, OwnNew(t) PROVE IdInv'
  <2>1. JobKeeps /\ known' = known /\ used \subseteq used' /\ index' = index
    BY <1>2, ThreadFacts DEF JobKeeps, OwnNew, Goto
  <2>2. ClaimIds'
    BY <1>2, ThreadFacts DEF OwnNew, Goto
  <2> QED BY <2>1, <2>2, JobIdsKept
<1>3. ASSUME NEW t \in Thread, ClaimStore(t) PROVE IdInv'
  <2>1. JobKeeps /\ known' = known /\ used \subseteq used' /\ index' = index
    BY <1>3, ThreadFacts DEF JobKeeps, ClaimStore, TakeStore, Goto
  <2>2. ClaimIds'
    BY <1>3, ThreadFacts DEF ClaimStore, TakeStore, Goto
  <2> QED BY <2>1, <2>2, JobIdsKept
<1>4. ASSUME NEW t \in Thread, OpenLock(t) PROVE IdInv'
  <2>1. JobKeeps /\ known' = known /\ used \subseteq used' /\ index' = index
    BY <1>4, ThreadFacts DEF JobKeeps, OpenLock
  <2>2. ClaimIds'
    BY <1>4, ThreadFacts DEF OpenLock
  <2> QED BY <2>1, <2>2, JobIdsKept
<1>5. ASSUME NEW t \in Thread, TryLock(t) PROVE IdInv'
  <2>0. job[t].s \in known
    BY <1>5, NamedKnown DEF TryLock
  <2>1. JobKeeps /\ known' = known /\ used \subseteq used' /\ index' = index
    BY <1>5, ThreadFacts DEF JobKeeps, TryLock, Claimed, Reactivates, Return, FreeStore, FreeOwners, LinkFree
  <2>2. ClaimIds'
    BY <1>5, <2>0, ThreadFacts DEF TryLock, Claimed, Reactivates, Return, FreeStore, FreeOwners, LinkFree
  <2> QED BY <2>1, <2>2, JobIdsKept
<1>6. ASSUME NEW t \in Thread, ClaimRefused(t) PROVE IdInv'
  <2>1. JobKeeps /\ known' = known /\ used \subseteq used' /\ index' = index
    BY <1>6, ThreadFacts DEF JobKeeps, ClaimRefused, Return, FreeStore, FreeOwners, LinkFree
  <2>2. ClaimIds'
    BY <1>6, ThreadFacts DEF ClaimRefused, Return, FreeStore, FreeOwners, LinkFree
  <2> QED BY <2>1, <2>2, JobIdsKept
<1>7. ASSUME NEW t \in Thread, LockStore(t) PROVE IdInv'
  <2>1. JobKeeps /\ known' = known /\ used \subseteq used' /\ index' = index
    BY <1>7, ThreadFacts DEF JobKeeps, LockStore, TakeStore, Goto
  <2>2. ClaimIds'
    BY <1>7, ThreadFacts DEF LockStore, TakeStore, Goto
  <2> QED BY <2>1, <2>2, JobIdsKept
<1>8. ASSUME NEW t \in Thread, Read(t) PROVE IdInv'
  <2>1. JobKeeps /\ known' = known /\ used \subseteq used' /\ index' = index
    BY <1>8, ThreadFacts DEF JobKeeps, Read, EndStore, Return, FreeStore
  <2>2. ClaimIds'
    BY <1>8, ThreadFacts DEF Read, EndStore, Return, FreeStore
  <2> QED BY <2>1, <2>2, JobIdsKept
<1>9. ASSUME NEW t \in Thread, WriteChild(t) PROVE IdInv'
  <2>1. JobKeeps
    <3>1. CASE Return(t)
      BY <3>1 DEF JobKeeps, Return
    <3>2. CASE job' = job
      BY <3>2 DEF JobKeeps
    <3> QED BY <1>9, <3>1, <3>2 DEF WriteChild, EndStore, Goto
  <2>2. ClaimIds' /\ known' = known /\ used' = used /\ index' = index
    BY <1>9 DEF WriteChild
  <2> QED BY <2>1, <2>2, JobIdsKept
<1>10. ASSUME NEW t \in Thread, WriteIndex(t) PROVE IdInv'
  <2>1. index' \ index \subseteq (IF Makes(t) THEN {job[t].c} ELSE {}) /\ known' = known \cup index'
    BY <1>10 DEF WriteIndex, Written, SnapInv, Makes, Removals
  <2>2. IndexIds' /\ ClaimIds'
    BY <1>10, <2>1 DEF WriteIndex, JobIds
  <2>3. CASE Makes(t)
    <3>1. job' = [job EXCEPT ![t] = NoJob] /\ known \subseteq known' /\ known' \subseteq known \cup {job[t].c} /\ used' = used
      BY <1>10, <2>1, <2>3 DEF WriteIndex, EndStore, Return, Makes, Removals
    <3>2. \A u \in Thread : job'[u] = IF u = t THEN NoJob ELSE job[u]
      BY <3>1
    <3>3. \A u \in Thread : job'[u].kind \in {"none", "create"} \/ job'[u].s \in known'
      BY <3>1, <3>2 DEF JobIds, NoJob
    <3>4. \A u \in Thread : Makes(u)' => u # t /\ Makes(u) /\ job'[u] = job[u]
      BY <3>2 DEF Makes, NoJob
    <3>5. \A u \in Thread : Makes(u)' => job'[u].c \in used' \ known'
      BY <2>3, <3>1, <3>4 DEF JobIds
    <3>6. \A u, v \in Thread : Makes(u)' /\ Makes(v)' /\ job'[u].c = job'[v].c => u = v
      BY <3>4 DEF JobIds
    <3> QED BY <2>2, <3>3, <3>5, <3>6 DEF JobIds
  <2>4. CASE ~Makes(t)
    <3>1. known' = known /\ used' = used
      BY <1>10, <2>1, <2>4 DEF WriteIndex
    <3>2. JobKeeps
      <4>1. CASE Return(t)
        BY <4>1 DEF JobKeeps, Return
      <4>2. CASE job' = job
        BY <4>2 DEF JobKeeps
      <4> QED BY <1>10, <4>1, <4>2 DEF WriteIndex, EndStore, Goto
    <3>3. JobIds'
      BY <3>1, <3>2 DEF JobIds, JobKeeps, Makes
    <3> QED BY <2>2, <3>3
  <2> QED BY <2>3, <2>4
<1>11. ASSUME NEW t \in Thread, WriteIndexFails(t) PROVE IdInv'
  <2>1. JobKeeps /\ known' = known /\ used \subseteq used' /\ index' = index
    BY <1>11, ThreadFacts DEF JobKeeps, WriteIndexFails, EndStore, Return, FreeStore
  <2>2. ClaimIds'
    BY <1>11, ThreadFacts DEF WriteIndexFails, EndStore, Return, FreeStore
  <2> QED BY <2>1, <2>2, JobIdsKept
<1>12. ASSUME NEW t \in Thread, Forget(t) PROVE IdInv'
  <2>1. JobKeeps /\ known' = known /\ used \subseteq used' /\ index' = index
    BY <1>12, ThreadFacts DEF JobKeeps, Forget, Goto
  <2>2. ClaimIds'
    BY <1>12, ThreadFacts DEF Forget, Goto
  <2> QED BY <2>1, <2>2, JobIdsKept
<1>13. ASSUME NEW t \in Thread, Erase(t) PROVE IdInv'
  <2>1. JobKeeps /\ known' = known /\ used \subseteq used' /\ index' = index
    BY <1>13, ThreadFacts DEF JobKeeps, Erase, Goto
  <2>2. ClaimIds'
    BY <1>13, ThreadFacts DEF Erase, Goto
  <2> QED BY <2>1, <2>2, JobIdsKept
<1>14. ASSUME NEW t \in Thread, Unlink(t) PROVE IdInv'
  <2>1. JobKeeps /\ known' = known /\ used \subseteq used' /\ index' = index
    BY <1>14, ThreadFacts DEF JobKeeps, Unlink, FreeStore, Orphaned
  <2>2. ClaimIds'
    BY <1>14, ThreadFacts DEF Unlink, FreeStore, Orphaned
  <2> QED BY <2>1, <2>2, JobIdsKept
<1>15. ASSUME NEW t \in Thread, Leave(t) PROVE IdInv'
  <2>0. job[t].s \in known
    BY <1>15, NamedKnown DEF Leave
  <2>1. CASE LetGo(t, job[t].s)
    BY <2>0, <2>1, LetGoIds
  <2>2. CASE Return(t) /\ UNCHANGED <<disk, locks, claims, memo, running, used, known, crashes>>
    <3>1. JobKeeps
      BY <2>2 DEF JobKeeps, Return
    <3> QED BY <2>2, <3>1, JobIdsKept
  <2> QED BY <1>15, <2>1, <2>2 DEF Leave
<1>16. ASSUME NEW t \in Thread, Save(t) PROVE IdInv'
  <2>1. JobKeeps /\ known' = known /\ used \subseteq used' /\ index' = index
    BY <1>16, ThreadFacts DEF JobKeeps, Save, EndStore, Return, FreeStore, Indexed
  <2>2. ClaimIds'
    BY <1>16, ThreadFacts DEF Save, EndStore, Return, FreeStore, Indexed
  <2> QED BY <2>1, <2>2, JobIdsKept
<1>17. ASSUME NEW t \in Thread, LockMemo(t) PROVE IdInv'
  <2>1. JobKeeps /\ known' = known /\ used \subseteq used' /\ index' = index
    BY <1>17, ThreadFacts DEF JobKeeps, LockMemo, Goto
  <2>2. ClaimIds'
    BY <1>17, ThreadFacts DEF LockMemo, Goto
  <2> QED BY <2>1, <2>2, JobIdsKept
<1>18. ASSUME NEW t \in Thread, CheckSidecar(t) PROVE IdInv'
  <2>1. JobKeeps
    <3>1. CASE Return(t)
      BY <3>1 DEF JobKeeps, Return
    <3>2. CASE job' = job
      BY <3>2 DEF JobKeeps
    <3> QED BY <1>18, <3>1, <3>2 DEF CheckSidecar, EndMemo, Goto
  <2>2. ClaimIds' /\ known' = known /\ used' = used /\ index' = index
    BY <1>18 DEF CheckSidecar
  <2> QED BY <2>1, <2>2, JobIdsKept
<1>19. ASSUME NEW t \in Thread, PutSidecar(t) PROVE IdInv'
  <2>1. JobKeeps /\ known' = known /\ used \subseteq used' /\ index' = index
    BY <1>19, ThreadFacts DEF JobKeeps, PutSidecar, EndMemo, Return
  <2>2. ClaimIds'
    BY <1>19, ThreadFacts DEF PutSidecar, EndMemo, Return
  <2> QED BY <2>1, <2>2, JobIdsKept
<1>19a. ASSUME NEW t \in Thread, Disown(t) PROVE IdInv'
  <2>1. JobKeeps /\ known' = known /\ used \subseteq used' /\ index' = index
    BY <1>19a, ThreadFacts DEF JobKeeps, Disown, Goto
  <2>2. ClaimIds'
    BY <1>19a, ThreadFacts DEF Disown, Goto
  <2> QED BY <2>1, <2>2, JobIdsKept
<1>20. ASSUME NEW t \in Thread, Unclaim(t) PROVE IdInv'
  <2>1. JobKeeps /\ known' = known /\ used \subseteq used' /\ index' = index
    BY <1>20, ThreadFacts DEF JobKeeps, Unclaim, FreeOwners, Return
  <2>2. ClaimIds'
    BY <1>20, ThreadFacts DEF Unclaim, FreeOwners, Return
  <2> QED BY <2>1, <2>2, JobIdsKept
<1>21. ASSUME NEW p \in Procs, NEW s \in Sessions, Attach(p, s) PROVE IdInv'
  <2>1. <<p, "ui">> \in Thread
    BY ThreadFacts
  <2>2. s \in known /\ used' = used /\ \E k \in {"attach", "start"} : Begin(<<p, "ui">>, k, s, None, "own")
    BY <1>21 DEF Attach
  <2> QED BY <2>1, <2>2, BeginIds
<1>22. ASSUME NEW p \in Procs, NEW s \in Sessions, Create(p, s) PROVE IdInv'
  <2>1. <<p, "ui">> \in Thread
    BY ThreadFacts
  <2>2. IndexIds' /\ ClaimIds'
    BY <1>22 DEF Create, Begin
  <2>3. JobIds'
    BY <1>22, <2>1 DEF Create, Begin, Enter, JobIds, Makes
  <2> QED BY <2>2, <2>3
<1>23. ASSUME NEW p \in Procs, NEW s \in Sessions, Remove(p, s) PROVE IdInv'
  <2>1. <<p, "ui">> \in Thread
    BY ThreadFacts
  <2>2. s \in known /\ used' = used /\ \E k \in Removals : Begin(<<p, "ui">>, k, s, None, "own")
    BY <1>23 DEF Remove
  <2> QED BY <2>1, <2>2, BeginIds
<1>24. ASSUME NEW p \in Procs, NEW s \in Sessions, Detach(p, s) PROVE IdInv'
  <2>1. <<p, "ui">> \in Thread /\ s \in known /\ LetGo(<<p, "ui">>, s)
    BY <1>24, ThreadFacts DEF Detach
  <2> QED BY <2>1, LetGoIds
<1>25. ASSUME NEW p \in Procs, NEW s \in Sessions, NEW c \in Sessions, Fork(p, s, c) PROVE IdInv'
  <2>1. <<p, "ui">> \in Thread
    BY ThreadFacts
  <2>2. IndexIds' /\ ClaimIds'
    BY <1>25 DEF Fork, Begin
  <2>3. /\ s \in known /\ c \in Sessions \ used /\ used' = used \cup {c} /\ known' = known
        /\ job' = [job EXCEPT ![<<p, "ui">>] = [kind |-> "fork", s |-> s, c |-> c]]
    BY <1>25 DEF Fork, Begin, Enter
  <2>4. \A t \in Thread : job'[t].kind \in {"none", "create"} \/ job'[t].s \in known'
    BY <2>1, <2>3 DEF JobIds
  <2>5. \A t \in Thread : Makes(t)' => job'[t].c \in used' \ known'
    BY <2>1, <2>3 DEF JobIds, Makes
  <2>6. \A t, u \in Thread : Makes(t)' /\ Makes(u)' /\ job'[t].c = job'[u].c => t = u
    BY <2>1, <2>3, SMTT(40) DEF JobIds, Makes
  <2>7. JobIds'
    BY <2>4, <2>5, <2>6 DEF JobIds
  <2> QED BY <2>2, <2>7
<1>26. ASSUME NEW p \in Procs, TurnWrite(p) PROVE IdInv'
  <2>1. JobKeeps /\ known' = known /\ used \subseteq used' /\ index' = index
    BY <1>26, ThreadFacts DEF JobKeeps, TurnWrite, Begin, Enter
  <2>2. ClaimIds'
    BY <1>26, ThreadFacts DEF TurnWrite, Begin, Enter
  <2> QED BY <2>1, <2>2, JobIdsKept
<1>27. ASSUME NEW p \in Procs, WriteEvents(p) PROVE IdInv'
  <2>1. JobKeeps /\ known' = known /\ used \subseteq used' /\ index' = index
    BY <1>27, ThreadFacts DEF JobKeeps, WriteEvents
  <2>2. ClaimIds'
    BY <1>27, ThreadFacts DEF WriteEvents
  <2> QED BY <2>1, <2>2, JobIdsKept
<1>28. ASSUME NEW p \in Procs, Finish(p) PROVE IdInv'
  <2>1. <<p, "turn">> \in Thread
    BY ThreadFacts
  <2>2. known' = known /\ used' = used /\ index' = index
    BY <1>28 DEF Finish
  <2>3. JobKeeps
    <3>1. CASE Enter(<<p, "turn">>, "finish", running[p], None, "release")
      BY <1>28, <2>1, <3>1 DEF JobKeeps, Enter, Finish
    <3>2. CASE job' = job
      BY <3>2 DEF JobKeeps
    <3> QED BY <1>28, <3>1, <3>2 DEF Finish
  <2>4. ClaimIds'
    BY <1>28 DEF Finish
  <2> QED BY <2>2, <2>3, <2>4, JobIdsKept
<1>29. ASSUME NEW p \in Procs, Crash(p) PROVE IdInv'
  <2>1. JobKeeps /\ known' = known /\ used \subseteq used' /\ index' = index
    BY <1>29, ThreadFacts DEF JobKeeps, Crash
  <2>2. ClaimIds'
    BY <1>29, ThreadFacts DEF Crash
  <2> QED BY <2>1, <2>2, JobIdsKept
<1>30. CASE Damage
  <2>1. JobKeeps /\ known' = known /\ used \subseteq used' /\ index' = index
    BY <1>30, ThreadFacts DEF JobKeeps, Damage
  <2>2. ClaimIds'
    BY <1>30, ThreadFacts DEF Damage
  <2> QED BY <2>1, <2>2, JobIdsKept
<1>31. CASE UNCHANGED vars
  BY <1>31 DEF vars, JobIds, Makes
<1> QED BY <1>1, <1>1a, <1>2, <1>3, <1>4, <1>5, <1>6, <1>7, <1>8, <1>9, <1>10, <1>11, <1>12, <1>13, <1>14, <1>15, <1>16, <1>17, <1>18, <1>19, <1>19a, <1>20, <1>21, <1>22, <1>23, <1>24, <1>25, <1>26, <1>27, <1>28, <1>29, <1>30, <1>31 DEF Next, Step, Call

\* A call begins without a snapshot to keep.
LEMMA BeginSnap ==
    ASSUME TypeOK, SnapInv, NEW t \in Thread, NEW k, NEW s, NEW c, NEW l \in {"own", "lock"},
           Begin(t, k, s, c, l)
    PROVE  SnapInv'
BY ThreadFacts DEF Begin, Enter, TypeOK, CtlOK, DiskOK, SnapInv, LockInv, StorePCs, disk, locks, claims, memo, ctl, NoJob

\* Letting go of a session touches no snapshot.
LEMMA LetGoSnap ==
    ASSUME TypeOK, SnapInv, NEW t \in Thread, NEW s, LetGo(t, s)
    PROVE  SnapInv'
<1> USE ThreadFacts DEF TypeOK, CtlOK, DiskOK, SnapInv, LockInv, StorePCs, disk, locks, claims, memo, ctl, NoJob
<1>1. CASE running[t[1]] = s
  BY <1>1 DEF LetGo, Return
<1>2. CASE running[t[1]] # s
  BY <1>2 DEF LetGo, Enter
<1> QED BY <1>1, <1>2

\* Every step keeps the snapshot that is about to be written current.
LEMMA SnapStep == ASSUME TypeOK, LockInv, JobInv, SnapInv, [Next]_vars PROVE SnapInv'
<1> USE DEF TypeOK, CtlOK, DiskOK, SnapInv, LockInv, StorePCs, disk, locks, claims, memo, ctl, NoJob
<1>1. ASSUME NEW t \in Thread, OwnHeld(t) PROVE SnapInv'
  BY <1>1, ThreadFacts DEF OwnHeld, Claimed, Reactivates, Return, Goto
<1>1a. ASSUME NEW t \in Thread, Revalidate(t) PROVE SnapInv'
  BY <1>1a, ThreadFacts DEF Revalidate, Claimed, Reactivates, Return, FreeOwners
<1>2. ASSUME NEW t \in Thread, OwnNew(t) PROVE SnapInv'
  BY <1>2, ThreadFacts DEF OwnNew, Goto
<1>3. ASSUME NEW t \in Thread, ClaimStore(t) PROVE SnapInv'
  BY <1>3, ThreadFacts DEF ClaimStore, TakeStore, Goto
<1>4. ASSUME NEW t \in Thread, OpenLock(t) PROVE SnapInv'
  BY <1>4, ThreadFacts DEF OpenLock
<1>5. ASSUME NEW t \in Thread, TryLock(t) PROVE SnapInv'
  BY <1>5 DEF TryLock, Claimed, Return
<1>6. ASSUME NEW t \in Thread, ClaimRefused(t) PROVE SnapInv'
  BY <1>6, ThreadFacts DEF ClaimRefused, Return, FreeStore, FreeOwners, LinkFree
<1>7. ASSUME NEW t \in Thread, LockStore(t) PROVE SnapInv'
  BY <1>7, ThreadFacts DEF LockStore, TakeStore, Goto
<1>8. ASSUME NEW t \in Thread, Read(t) PROVE SnapInv'
  BY <1>8, ThreadFacts DEF Read, EndStore, Return, FreeStore
<1>9. ASSUME NEW t \in Thread, WriteChild(t) PROVE SnapInv'
  BY <1>9, ThreadFacts DEF WriteChild, EndStore, Return, FreeStore, Goto
<1>10. ASSUME NEW t \in Thread, WriteIndex(t) PROVE SnapInv'
  BY <1>10, ThreadFacts DEF WriteIndex, Written, EndStore, Return, FreeStore, Goto
<1>11. ASSUME NEW t \in Thread, WriteIndexFails(t) PROVE SnapInv'
  BY <1>11, ThreadFacts DEF WriteIndexFails, EndStore, Return, FreeStore
<1>12. ASSUME NEW t \in Thread, Forget(t) PROVE SnapInv'
  BY <1>12, ThreadFacts DEF Forget, Goto
<1>13. ASSUME NEW t \in Thread, Erase(t) PROVE SnapInv'
  BY <1>13, ThreadFacts DEF Erase, Goto
<1>14. ASSUME NEW t \in Thread, Unlink(t) PROVE SnapInv'
  BY <1>14, ThreadFacts DEF Unlink, FreeStore, Orphaned
<1>15. ASSUME NEW t \in Thread, Leave(t) PROVE SnapInv'
  BY <1>15, ThreadFacts DEF Leave, LetGo, Return, Enter
<1>16. ASSUME NEW t \in Thread, Save(t) PROVE SnapInv'
  BY <1>16, ThreadFacts DEF Save, EndStore, Return, FreeStore, Indexed
<1>17. ASSUME NEW t \in Thread, LockMemo(t) PROVE SnapInv'
  BY <1>17, ThreadFacts DEF LockMemo, Goto
<1>18. ASSUME NEW t \in Thread, CheckSidecar(t) PROVE SnapInv'
  BY <1>18, ThreadFacts DEF CheckSidecar, EndMemo, Return, Goto, Indexed
<1>19. ASSUME NEW t \in Thread, PutSidecar(t) PROVE SnapInv'
  BY <1>19, ThreadFacts DEF PutSidecar, EndMemo, Return
<1>19a. ASSUME NEW t \in Thread, Disown(t) PROVE SnapInv'
  BY <1>19a, ThreadFacts DEF Disown, Goto
<1>20. ASSUME NEW t \in Thread, Unclaim(t) PROVE SnapInv'
  BY <1>20, ThreadFacts DEF Unclaim, FreeOwners, Return
<1>21. ASSUME NEW p \in Procs, NEW s \in Sessions, Attach(p, s) PROVE SnapInv'
  <2>1. <<p, "ui">> \in Thread
    BY ThreadFacts
  <2> QED BY <1>21, <2>1, BeginSnap DEF Attach
<1>22. ASSUME NEW p \in Procs, NEW s \in Sessions, Create(p, s) PROVE SnapInv'
  BY <1>22, ThreadFacts DEF Create, Begin, Enter
<1>23. ASSUME NEW p \in Procs, NEW s \in Sessions, Remove(p, s) PROVE SnapInv'
  <2>1. <<p, "ui">> \in Thread
    BY ThreadFacts
  <2> QED BY <1>23, <2>1, BeginSnap DEF Remove
<1>24. ASSUME NEW p \in Procs, NEW s \in Sessions, Detach(p, s) PROVE SnapInv'
  <2>1. <<p, "ui">> \in Thread
    BY ThreadFacts
  <2>2. pc[<<p, "ui">>] = "idle" /\ LetGo(<<p, "ui">>, s)
    BY <1>24 DEF Detach
  <2> QED BY <2>1, <2>2, LetGoSnap
<1>25. ASSUME NEW p \in Procs, NEW s \in Sessions, NEW c \in Sessions, Fork(p, s, c) PROVE SnapInv'
  BY <1>25, ThreadFacts DEF Fork, Begin, Enter
<1>26. ASSUME NEW p \in Procs, TurnWrite(p) PROVE SnapInv'
  <2>1. <<p, "turn">> \in Thread
    BY ThreadFacts
  <2> QED BY <1>26, <2>1, BeginSnap DEF TurnWrite
<1>27. ASSUME NEW p \in Procs, WriteEvents(p) PROVE SnapInv'
  BY <1>27, ThreadFacts DEF WriteEvents
<1>28. ASSUME NEW p \in Procs, Finish(p) PROVE SnapInv'
  <2>1. <<p, "turn">> \in Thread
    BY ThreadFacts
  <2>2. CASE owner[p][running[p]] = "detaching"
    <3>1. Enter(<<p, "turn">>, "finish", running[p], None, "release") /\ index' = index
      BY <1>28, <2>2 DEF Finish
    <3> QED BY <2>1, <3>1 DEF Enter
  <2>3. CASE owner[p][running[p]] # "detaching"
    BY <1>28, <2>3 DEF Finish
  <2> QED BY <2>2, <2>3
<1>29. ASSUME NEW p \in Procs, Crash(p) PROVE SnapInv'
  BY <1>29, ThreadFacts DEF Crash
<1>30. CASE Damage
  BY <1>30, ThreadFacts DEF Damage
<1>31. CASE UNCHANGED vars
  BY <1>31 DEF vars
<1> QED BY <1>1, <1>1a, <1>2, <1>3, <1>4, <1>5, <1>6, <1>7, <1>8, <1>9, <1>10, <1>11, <1>12, <1>13, <1>14, <1>15, <1>16, <1>17, <1>18, <1>19, <1>19a, <1>20, <1>21, <1>22, <1>23, <1>24, <1>25, <1>26, <1>27, <1>28, <1>29, <1>30, <1>31 DEF Next, Step, Call

\* Only a call's WriteIndex changes the index.
LEMMA IndexStep ==
    ASSUME [Next]_vars PROVE index' = index \/ \E t \in Thread : WriteIndex(t)
<1> USE DEF disk
<1>1. ASSUME NEW t \in Thread, Step(t) PROVE index' = index \/ WriteIndex(t)
  BY <1>1 DEF Step, OwnHeld, Revalidate, OwnNew, ClaimStore, OpenLock, TryLock, ClaimRefused, LockStore, Read, WriteChild,
     WriteIndexFails, Forget, Erase, Unlink, Leave, LetGo, Disown, Save, LockMemo, CheckSidecar, PutSidecar, Disown, Unclaim
<1>2. ASSUME NEW p \in Procs, Call(p) \/ Finish(p) \/ Crash(p) PROVE index' = index
  BY <1>2 DEF Call, Attach, Create, Remove, Detach, Fork, TurnWrite, WriteEvents, Begin, LetGo, Disown, Finish, Crash
<1>3. Damage \/ UNCHANGED vars => index' = index
  BY DEF Damage, vars
<1> QED BY <1>1, <1>2, <1>3 DEF Next

-----------------------------------------------------------------------------
\* The store lock excludes, the places agree with the jobs, ids are never
\* shared, and an index snapshot is current until it is written: whatever the
\* calls, the crashes and the faults.
THEOREM StoreInvariant == Spec => []StoreInv
<1>1. Init => StoreInv
  <2> SUFFICES ASSUME Init PROVE StoreInv
    OBVIOUS
  <2>1. TypeOK
    BY DEF Init, TypeOK, DiskOK, LocksOK, ClaimsOK, MemoOK, CtlOK, PCs, Job, NoJob
  <2>2. LockInv
    BY ThreadFacts DEF Init, LockInv, StorePCs, MemoPCs, OwnersPCs
  <2>3. JobInv /\ SnapInv
    BY DEF Init, JobInv, SnapInv, NoJob, UiJobs, TurnJobs, RemovalTail, MemoPCs
  <2>4. IdInv
    BY DEF Init, IdInv, IndexIds, JobIds, ClaimIds, Makes, NoJob
  <2> QED BY <2>1, <2>2, <2>3, <2>4 DEF StoreInv
<1>2. StoreInv /\ [Next]_vars /\ TypeOK' => StoreInv'
  BY LockStep, JobStep, IdStep, SnapStep DEF StoreInv
<1> QED BY <1>1, <1>2, TypeCorrect, PTL DEF Spec

\* No process ever drops an index entry but that of the session it removes:
\* the index written is the snapshot, which nobody has outdated, with the
\* call's own change.
THEOREM NoEntryIsLost == Spec => NoLostEntry
<1> DEFINE Keeps == \A s \in index \ index' : flock # None /\ Removing(flock, s)
<1>1. StoreInv /\ [Next]_vars => [Keeps]_vars
  <2> SUFFICES ASSUME StoreInv, [Next]_vars PROVE index' = index \/ Keeps
    BY DEF disk
  <2>1. ASSUME NEW t \in Thread, WriteIndex(t) PROVE Keeps
    <3>1. flock = t /\ snap[t] = index /\ index' = Written(t) /\ t # None
      BY <2>1, ThreadFacts DEF WriteIndex, StoreInv, LockInv, SnapInv, StorePCs
    <3> QED BY <3>1 DEF Written, Removing
  <2> QED BY <2>1, IndexStep
<1> QED BY <1>1, StoreInvariant, PTL DEF Spec, NoLostEntry

\* Only these write files.
LEMMA FilesStep ==
    ASSUME [Next]_vars
    PROVE  \/ files' = files
           \/ \E t \in Thread : WriteChild(t) \/ Erase(t) \/ Save(t) \/ PutSidecar(t) \/ Disown(t)
           \/ \E p \in Procs : WriteEvents(p) \/ Finish(p)
<1> USE DEF disk
<1>1. ASSUME NEW t \in Thread, Step(t)
      PROVE  files' = files \/ WriteChild(t) \/ Erase(t) \/ Save(t) \/ PutSidecar(t) \/ Disown(t)
  BY <1>1 DEF Step, OwnHeld, Revalidate, OwnNew, ClaimStore, OpenLock, TryLock, ClaimRefused, LockStore, Read,
     WriteIndex, WriteIndexFails, Forget, Unlink, Leave, LetGo, LockMemo, CheckSidecar, Unclaim
<1>2. ASSUME NEW p \in Procs, Call(p) \/ Crash(p) PROVE files' = files \/ WriteEvents(p)
  BY <1>2 DEF Call, Attach, Create, Remove, Detach, Fork, TurnWrite, Begin, LetGo, Crash
<1>3. Damage \/ UNCHANGED vars => files' = files
  BY DEF Damage, vars
<1> QED BY <1>1, <1>2, <1>3 DEF Next

-----------------------------------------------------------------------------
\* Where a step may send a thread whose place says something of a history.
HistoryPlaces ==
    \A u \in Thread :
        \/ pc'[u] = pc[u] /\ job'[u] = job[u]
        \/ pc'[u] \notin {"write", "forget", "erase"}
        \/ Read(u) \/ WriteChild(u) \/ WriteIndex(u) \/ Forget(u)

\* A call begins before it looks at a history.
LEMMA BeginPlaces ==
    ASSUME StoreInv, NEW t \in Thread, NEW k, NEW s, NEW c, NEW l \in {"own", "lock"},
           Begin(t, k, s, c, l)
    PROVE  HistoryPlaces
BY DEF Begin, Enter, HistoryPlaces, StoreInv, TypeOK, CtlOK

\* Letting go of a session looks at no history.
LEMMA LetGoPlaces ==
    ASSUME StoreInv, NEW t \in Thread, NEW s, LetGo(t, s)
    PROVE  HistoryPlaces
<1>1. CASE running[t[1]] = s
  BY <1>1 DEF LetGo, Return, HistoryPlaces, StoreInv, TypeOK, CtlOK
<1>2. CASE running[t[1]] # s
  BY <1>2 DEF LetGo, Enter, HistoryPlaces, StoreInv, TypeOK, CtlOK
<1> QED BY <1>1, <1>2

\* Every step sends threads on as HistoryPlaces says.
LEMMA PlacesStep == ASSUME StoreInv, [Next]_vars PROVE HistoryPlaces
<1> USE DEF StoreInv, TypeOK, CtlOK, HistoryPlaces, ctl
<1>1. ASSUME NEW t \in Thread, OwnHeld(t) PROVE HistoryPlaces
  BY <1>1, ThreadFacts DEF OwnHeld, Claimed, Reactivates, Return, Goto
<1>2. ASSUME NEW t \in Thread, Revalidate(t) PROVE HistoryPlaces
  BY <1>2, ThreadFacts DEF Revalidate, Claimed, Reactivates, Return, FreeOwners
<1>3. ASSUME NEW t \in Thread, OwnNew(t) PROVE HistoryPlaces
  BY <1>3, ThreadFacts DEF OwnNew, Goto
<1>4. ASSUME NEW t \in Thread, ClaimStore(t) PROVE HistoryPlaces
  BY <1>4, ThreadFacts DEF ClaimStore, TakeStore, Goto
<1>5. ASSUME NEW t \in Thread, OpenLock(t) PROVE HistoryPlaces
  BY <1>5, ThreadFacts DEF OpenLock
<1>6. ASSUME NEW t \in Thread, TryLock(t) PROVE HistoryPlaces
  BY <1>6, ThreadFacts DEF TryLock, Claimed, Reactivates, Return, FreeStore, FreeOwners, LinkFree
<1>7. ASSUME NEW t \in Thread, ClaimRefused(t) PROVE HistoryPlaces
  BY <1>7, ThreadFacts DEF ClaimRefused, Return, FreeStore, FreeOwners
<1>8. ASSUME NEW t \in Thread, LockStore(t) PROVE HistoryPlaces
  BY <1>8, ThreadFacts DEF LockStore, TakeStore, Goto
<1>9. ASSUME NEW t \in Thread, Read(t) PROVE HistoryPlaces
  <2>1. \A u \in Thread : u # t => pc'[u] = pc[u] /\ job'[u] = job[u]
    BY <1>9 DEF Read, EndStore, Return, FreeStore
  <2> QED BY <1>9, <2>1
<1>10. ASSUME NEW t \in Thread, WriteChild(t) PROVE HistoryPlaces
  <2>1. \A u \in Thread : u # t => pc'[u] = pc[u] /\ job'[u] = job[u]
    BY <1>10 DEF WriteChild, EndStore, Return, FreeStore, Goto
  <2> QED BY <1>10, <2>1
<1>11. ASSUME NEW t \in Thread, WriteIndex(t) PROVE HistoryPlaces
  <2>1. \A u \in Thread : u # t => pc'[u] = pc[u] /\ job'[u] = job[u]
    BY <1>11 DEF WriteIndex, Written, EndStore, Return, FreeStore, Goto
  <2> QED BY <1>11, <2>1
<1>12. ASSUME NEW t \in Thread, WriteIndexFails(t) PROVE HistoryPlaces
  BY <1>12, ThreadFacts DEF WriteIndexFails, EndStore, Return, FreeStore
<1>13. ASSUME NEW t \in Thread, Forget(t) PROVE HistoryPlaces
  <2>1. \A u \in Thread : u # t => pc'[u] = pc[u] /\ job'[u] = job[u]
    BY <1>13 DEF Forget, Goto
  <2> QED BY <1>13, <2>1
<1>14. ASSUME NEW t \in Thread, Erase(t) PROVE HistoryPlaces
  BY <1>14, ThreadFacts DEF Erase, Goto
<1>15. ASSUME NEW t \in Thread, Unlink(t) PROVE HistoryPlaces
  BY <1>15, ThreadFacts DEF Unlink, FreeStore, Orphaned
<1>16. ASSUME NEW t \in Thread, Leave(t) PROVE HistoryPlaces
  <2>1. CASE LetGo(t, job[t].s)
    BY <2>1, LetGoPlaces
  <2>2. CASE Return(t)
    BY <2>2 DEF Return
  <2> QED BY <1>16, <2>1, <2>2 DEF Leave
<1>17. ASSUME NEW t \in Thread, Save(t) PROVE HistoryPlaces
  BY <1>17, ThreadFacts DEF Save, EndStore, Return, FreeStore
<1>18. ASSUME NEW t \in Thread, LockMemo(t) PROVE HistoryPlaces
  BY <1>18, ThreadFacts DEF LockMemo, Goto
<1>19. ASSUME NEW t \in Thread, CheckSidecar(t) PROVE HistoryPlaces
  BY <1>19, ThreadFacts DEF CheckSidecar, EndMemo, Return, Goto, Indexed
<1>20. ASSUME NEW t \in Thread, PutSidecar(t) PROVE HistoryPlaces
  BY <1>20, ThreadFacts DEF PutSidecar, EndMemo, Return
<1>21. ASSUME NEW t \in Thread, Disown(t) PROVE HistoryPlaces
  BY <1>21, ThreadFacts DEF Disown, Goto
<1>22. ASSUME NEW t \in Thread, Unclaim(t) PROVE HistoryPlaces
  BY <1>22, ThreadFacts DEF Unclaim, FreeOwners, Return
<1>23. ASSUME NEW p \in Procs, NEW s \in Sessions, Attach(p, s) PROVE HistoryPlaces
  <2>1. <<p, "ui">> \in Thread
    BY ThreadFacts
  <2> QED BY <1>23, <2>1, BeginPlaces DEF Attach
<1>24. ASSUME NEW p \in Procs, NEW s \in Sessions, Create(p, s) PROVE HistoryPlaces
  <2>1. <<p, "ui">> \in Thread
    BY ThreadFacts
  <2> QED BY <1>24, <2>1, BeginPlaces DEF Create
<1>25. ASSUME NEW p \in Procs, NEW s \in Sessions, Remove(p, s) PROVE HistoryPlaces
  <2>1. <<p, "ui">> \in Thread
    BY ThreadFacts
  <2> QED BY <1>25, <2>1, BeginPlaces DEF Remove
<1>26. ASSUME NEW p \in Procs, NEW s \in Sessions, Detach(p, s) PROVE HistoryPlaces
  <2>1. <<p, "ui">> \in Thread
    BY ThreadFacts
  <2> QED BY <1>26, <2>1, LetGoPlaces DEF Detach
<1>27. ASSUME NEW p \in Procs, NEW s \in Sessions, NEW c \in Sessions, Fork(p, s, c) PROVE HistoryPlaces
  <2>1. <<p, "ui">> \in Thread
    BY ThreadFacts
  <2> QED BY <1>27, <2>1, BeginPlaces DEF Fork
<1>28. ASSUME NEW p \in Procs, TurnWrite(p) PROVE HistoryPlaces
  <2>1. <<p, "turn">> \in Thread
    BY ThreadFacts
  <2> QED BY <1>28, <2>1, BeginPlaces DEF TurnWrite
<1>29. ASSUME NEW p \in Procs, WriteEvents(p) PROVE HistoryPlaces
  BY <1>29, ThreadFacts DEF WriteEvents
<1>30. ASSUME NEW p \in Procs, Finish(p) PROVE HistoryPlaces
  <2> DEFINE t == <<p, "turn">>
  <2>1. t \in Thread
    BY ThreadFacts
  <2>2. Enter(t, "finish", running[p], None, "release") \/ UNCHANGED ctl
    BY <1>30 DEF Finish
  <2> QED BY <2>1, <2>2 DEF Enter
<1>31. ASSUME NEW p \in Procs, Crash(p) PROVE HistoryPlaces
  BY <1>31, ThreadFacts DEF Crash
<1>32. CASE Damage
  BY <1>32, ThreadFacts DEF Damage
<1>33. CASE UNCHANGED vars
  BY <1>33 DEF vars, ctl
<1> QED BY <1>1, <1>2, <1>3, <1>4, <1>5, <1>6, <1>7, <1>8, <1>9, <1>10, <1>11, <1>12, <1>13, <1>14, <1>15, <1>16, <1>17, <1>18, <1>19, <1>20, <1>21, <1>22, <1>23, <1>24, <1>25, <1>26, <1>27, <1>28, <1>29, <1>30, <1>31, <1>32, <1>33 DEF Next, Step, Call

\* Only a save or a fork's copy gives a session its history, under the store
\* lock, and only a removal takes it.
LEMMA BackedStep ==
    ASSUME StoreInv, [Next]_vars
    PROVE  \A s \in Sessions :
             /\ Backed(s)' => \/ Backed(s)
                              \/ \E t \in Thread : (Save(t) /\ job[t].s = s) \/ (WriteChild(t) /\ job[t].c = s)
             /\ Backed(s) => Backed(s)' \/ \E t \in Thread : Erase(t) /\ job[t].s = s
<1> SUFFICES ASSUME NEW s \in Sessions
             PROVE  /\ Backed(s)' => \/ Backed(s)
                                     \/ \E t \in Thread : (Save(t) /\ job[t].s = s) \/ (WriteChild(t) /\ job[t].c = s)
                    /\ Backed(s) => Backed(s)' \/ \E t \in Thread : Erase(t) /\ job[t].s = s
  OBVIOUS
<1> DEFINE Given == \E t \in Thread : (Save(t) /\ job[t].s = s) \/ (WriteChild(t) /\ job[t].c = s)
           Taken == \E t \in Thread : Erase(t) /\ job[t].s = s
           Goal == (Backed(s)' => Backed(s) \/ Given) /\ (Backed(s) => Backed(s)' \/ Taken)
<1>0. files \in [Sessions -> SUBSET FileKinds]
  BY DEF StoreInv, TypeOK, DiskOK
<1>1. ASSUME NEW z, NEW f \in {"events", "sidecar"}, files' = [files EXCEPT ![z] = @ \cup {f}] PROVE Goal
  BY <1>0, <1>1 DEF Backed
<1>2. ASSUME files' = files PROVE Goal
  BY <1>2 DEF Backed
<1>3. ASSUME NEW p, NEW z, AppendEvents(p, z) PROVE Goal
  BY <1>1, <1>2, <1>3 DEF AppendEvents
<1>4. ASSUME NEW t \in Thread, WriteChild(t) PROVE Goal
  <2>1. Makes(t)
    BY <1>4 DEF WriteChild, StoreInv, JobInv, Makes
  <2>2. CASE job[t].c = s
    <3>1. files'[s] = files[s] \/ files'[s] = {"messages"}
      BY <1>0, <1>4, <2>2 DEF WriteChild
    <3> QED BY <1>4, <2>2, <3>1 DEF Backed
  <2>3. CASE job[t].c # s
    BY <1>0, <1>4, <2>3 DEF WriteChild, Backed
  <2> QED BY <2>2, <2>3
<1>5. ASSUME NEW t \in Thread, Erase(t) PROVE Goal
  BY <1>0, <1>5 DEF Erase, Backed
<1>6. ASSUME NEW t \in Thread, Save(t) PROVE Goal
  BY <1>0, <1>6 DEF Save, Backed
<1>7. ASSUME NEW t \in Thread, PutSidecar(t) PROVE Goal
  BY <1>1, <1>2, <1>7 DEF PutSidecar
<1>8. ASSUME NEW t \in Thread, Disown(t) PROVE Goal
  BY <1>2, <1>3, <1>8 DEF Disown
<1>9. ASSUME NEW p \in Procs, WriteEvents(p) \/ Finish(p) PROVE Goal
  BY <1>3, <1>9 DEF WriteEvents, Finish
<1> QED BY <1>2, <1>4, <1>5, <1>6, <1>7, <1>8, <1>9, FilesStep

\* Every step keeps what discards and forks know of a history.
LEMMA HistoryStep ==
    ASSUME StoreInv, HistoryInv, [Next]_vars
    PROVE  HistoryInv'
<1> DEFINE Ends(u) == /\ job[u].kind = "discard" /\ pc[u] \in {"write", "forget", "erase"} => ~Backed(job[u].s)
                      /\ job[u].kind = "fork" /\ pc[u] = "write" => Backed(job[u].c)
<1> SUFFICES ASSUME NEW u \in Thread PROVE Ends(u)'
  BY DEF HistoryInv
<1>1. Ends(u)
  BY DEF HistoryInv
<1>2. /\ job[u].kind = "discard" => job[u].s \in Sessions
      /\ job[u].kind = "fork" => job[u].c \in Sessions
  BY CtlFacts DEF StoreInv, TypeOK, Removals
<1>3. ASSUME NEW t \in Thread, Save(t) \/ WriteChild(t) \/ Erase(t), t # u
      PROVE  pc[u] \notin {"read", "child", "write", "forget", "erase"}
  BY <1>3 DEF Save, WriteChild, Erase, StoreInv, LockInv, StorePCs
<1>5. CASE pc'[u] = pc[u] /\ job'[u] = job[u]
  <2>1. ~Save(u) /\ ~WriteChild(u)
    BY <1>5 DEF Save, WriteChild, EndStore, Return, Goto, StoreInv, TypeOK, CtlOK
  <2>2. ~Erase(u)
    BY <1>5 DEF Erase, Goto, StoreInv, TypeOK, CtlOK
  <2>3. CASE job[u].kind = "discard" /\ pc[u] \in {"write", "forget", "erase"}
    <3>a. ~Backed(job[u].s) /\ job[u].s \in Sessions
      BY <1>1, <1>2, <2>3
    <3>2. \A t \in Thread : ~Save(t) /\ ~WriteChild(t)
      BY <1>3, <2>1, <2>3
    <3>3. \A s \in Sessions : Backed(s)' => Backed(s)
      BY <3>2, BackedStep
    <3>1. ~Backed(job[u].s)'
      BY <1>5, <3>a, <3>3 DEF Backed
    <3> QED BY <1>5, <2>3, <3>1 DEF Backed
  <2>4. CASE job[u].kind = "fork" /\ pc[u] = "write"
    <3>a. Backed(job[u].c) /\ job[u].c \in Sessions
      BY <1>1, <1>2, <2>4
    <3>2. \A t \in Thread : ~Erase(t)
      BY <1>3, <2>2, <2>4
    <3>3. \A s \in Sessions : Backed(s) => Backed(s)'
      BY <3>2, BackedStep
    <3>1. Backed(job[u].c)'
      BY <1>5, <3>a, <3>3 DEF Backed
    <3> QED BY <1>5, <2>4, <3>1 DEF Backed
  <2> QED BY <1>5, <2>3, <2>4
<1>6. CASE pc'[u] \notin {"write", "forget", "erase"}
  BY <1>6
<1>7. CASE Read(u)
  <2>1. (job'[u] = job[u] /\ pc'[u] \in {"child", "write"}) \/ pc'[u] = "idle"
    BY <1>7 DEF Read, EndStore, Return, StoreInv, TypeOK, CtlOK
  <2>2. CASE pc'[u] = "write"
    <3>1. job'[u] = job[u] /\ ~KeptBacked(u) /\ job[u].kind # "fork" /\ files' = files
      BY <1>7, <2>2 DEF Read, EndStore, Return, StoreInv, TypeOK, CtlOK, disk
    <3> QED BY <2>2, <3>1 DEF KeptBacked, Backed
  <2> QED BY <2>1, <2>2
<1>8. CASE WriteChild(u)
  <2>1. job[u].kind = "fork" /\ job[u].c \in Sessions /\ files \in [Sessions -> SUBSET FileKinds]
    BY <1>2, <1>8 DEF WriteChild, StoreInv, JobInv, TypeOK, DiskOK
  <2>2. CASE pc'[u] = "write"
    <3>1. job'[u] = job[u] /\ files' = [files EXCEPT ![job[u].c] = {"messages"}]
      BY <1>8, <2>2 DEF WriteChild, Goto, EndStore, Return, StoreInv, TypeOK, CtlOK
    <3> QED BY <2>1, <2>2, <3>1 DEF Backed
  <2>3. pc'[u] \in {"write", "idle"}
    BY <1>8 DEF WriteChild, Goto, EndStore, Return, StoreInv, TypeOK, CtlOK
  <2> QED BY <2>2, <2>3
<1>9. CASE WriteIndex(u) \/ Forget(u)
  <2>1. /\ files' = files /\ pc[u] \in {"write", "forget"} /\ pc'[u] \in {"idle", "forget", "erase"}
        /\ job'[u] = job[u] \/ pc'[u] = "idle"
    BY <1>9 DEF WriteIndex, Forget, EndStore, Return, Goto, StoreInv, TypeOK, CtlOK, disk
  <2> QED BY <1>1, <2>1 DEF Backed
<1> QED BY <1>5, <1>6, <1>7, <1>8, <1>9, PlacesStep DEF HistoryPlaces

\* What a discard or a fork learned of a session's history under the lock
\* holds until it acts on it.
THEOREM HistoryInvariant == Spec => []HistoryInv
<1>1. Init => HistoryInv
  BY DEF Init, HistoryInv
<1> QED BY <1>1, HistoryStep, StoreInvariant, PTL DEF Spec

\* No discard takes a transcript that a turn or another process saved after
\* the discard first looked for one.
THEOREM DiscardsKeepHistory == Spec => DiscardKeepsHistory
<1> DEFINE Kept == \A s \in Sessions : Backed(s) /\ ~Backed(s)' =>
                      flock # None /\ job[flock].kind = "delete" /\ job[flock].s = s
<1>1. StoreInv /\ HistoryInv /\ [Next]_vars => [Kept]_vars
  <2> SUFFICES ASSUME StoreInv, HistoryInv, [Next]_vars, NEW s \in Sessions, Backed(s), ~Backed(s)'
               PROVE  flock # None /\ job[flock].kind = "delete" /\ job[flock].s = s
    BY DEF vars, disk
  <2>1. PICK t \in Thread : Erase(t) /\ job[t].s = s
    BY BackedStep
  <2>2. flock = t /\ t # None /\ pc[t] = "erase"
    BY <2>1, ThreadFacts DEF Erase, StoreInv, LockInv, StorePCs
  <2>3. job[t].kind = "delete"
    BY <2>1, <2>2 DEF HistoryInv, StoreInv, JobInv, RemovalTail, Removals
  <2> QED BY <2>1, <2>2, <2>3
<1> QED BY <1>1, HistoryInvariant, StoreInvariant, PTL DEF Spec, DiscardKeepsHistory

\* A forked session is listed with its history.
THEOREM ForksListHistory == Spec => ForkListedBacked
<1> DEFINE Whole == \A s \in index' \ index : flock # None /\ job[flock].kind = "fork" => Backed(s)
<1>1. StoreInv /\ HistoryInv /\ [Next]_vars => [Whole]_vars
  <2> SUFFICES ASSUME StoreInv, HistoryInv, [Next]_vars, NEW s \in index' \ index,
                      flock # None /\ job[flock].kind = "fork"
               PROVE  Backed(s)
    BY DEF vars, disk
  <2>1. PICK t \in Thread : WriteIndex(t)
    BY IndexStep
  <2>2. flock = t /\ pc[t] = "write" /\ snap[t] = index /\ index' = Written(t)
    BY <2>1 DEF WriteIndex, StoreInv, LockInv, SnapInv, StorePCs
  <2>3. s = job[t].c
    BY <2>2 DEF Written, Removals
  <2> QED BY <2>2, <2>3 DEF HistoryInv
<1> QED BY <1>1, HistoryInvariant, StoreInvariant, PTL DEF Spec, ForkListedBacked

------------------------------------------------------------------------------
(***************************************************************************)
(* What a claim guarantees: the layers of the inductive invariant that     *)
(* need every removal to begin on a session that is not being left         *)
(* (~LeftRemoval), the theorems that follow from them, and that the store  *)
(* implements the leases of SessionLeases.                                 *)
(***************************************************************************)

Claiming == {"again", "claim", "open", "try"}

\* A step that leaves the claims and the index alone, and sends no thread to
\* a place inside claim_session.
LEMMA ClaimFrame ==
    ASSUME ClaimInv, UNCHANGED claims, index' \subseteq index,
           \A u \in Thread : \/ pc'[u] = pc[u] /\ job'[u] = job[u]
                           \/ pc'[u] \notin Claiming
    PROVE  ClaimInv'
BY DEF ClaimInv, ClaimLocks, ClaimPlaces, claims, Claiming

\* The thread that holds a process's owners lock is the only one of that
\* process inside claim_session or release.
LEMMA OwnersAlone ==
    ASSUME LockInv, NEW t \in Thread, NEW u \in Thread, u[1] = t[1],
           pc[u] \in OwnersPCs, ownersLock[t[1]] = None \/ pc[t] \in OwnersPCs
    PROVE  u = t
<1>1. ownersLock[t[1]] = u
  BY DEF LockInv
<1>2. u # None
  BY ThreadFacts
<1>3. pc[t] \in OwnersPCs => ownersLock[t[1]] = t
  BY DEF LockInv
<1> QED BY <1>1, <1>2, <1>3

\* A change of a claim that does not begin or end it.
LEMMA ClaimKept ==
    ASSUME StoreInv, ClaimInv, UNCHANGED <<lockOf, index>>,
           \A q \in Procs, z \in Sessions : owner'[q][z] = "no" <=> owner[q][z] = "no",
           \A u \in Thread : \/ pc'[u] = pc[u] /\ job'[u] = job[u]
                           \/ pc'[u] \notin Claiming
    PROVE  ClaimInv'
<1>1. \A u \in Thread : pc[u] \in Claiming => job[u].s \in Sessions /\ u[1] \in Procs
  BY ThreadFacts DEF StoreInv, JobInv, IdInv, JobIds, IndexIds, Claiming, TypeOK
<1>2. ClaimLocks'
  BY DEF ClaimInv, ClaimLocks
<1>3. ClaimPlaces'
  BY <1>1 DEF ClaimInv, ClaimPlaces, Claiming
<1> QED BY <1>2, <1>3 DEF ClaimInv

\* A call begins outside claim_session's places.
LEMMA BeginClaim ==
    ASSUME StoreInv, ClaimInv, NEW t \in Thread, NEW k, NEW s, NEW c, NEW l \in {"own", "lock"},
           Begin(t, k, s, c, l)
    PROVE  ClaimInv'
<1>1. \A u \in Thread : \/ pc'[u] = pc[u] /\ job'[u] = job[u]
                      \/ pc'[u] \notin Claiming
  BY DEF Begin, Enter, Claiming, StoreInv, TypeOK, CtlOK
<1>2. UNCHANGED claims /\ index' = index
  BY DEF Begin, disk
<1> QED BY <1>1, <1>2, ClaimFrame

\* A step that links no lock file anew and unlinks only those of sessions
\* out of the index.
LEMMA LocksUpdate ==
    ASSUME index \subseteq Sessions, ClaimLocks, index' = index,
           \A q \in Procs, z \in Sessions :
               /\ owner'[q][z] = "no" <=> lockOf'[q][z] = "none"
               /\ lockOf'[q][z] = "linked" => lockOf[q][z] = "linked"
               /\ lockOf'[q][z] = "unlinked" => lockOf[q][z] = "unlinked" \/ z \notin index
    PROVE  ClaimLocks'
BY DEF ClaimLocks

\* Letting go of a session begins and ends no claim.
LEMMA LetGoClaim ==
    ASSUME StoreInv, ClaimInv, NEW t \in Thread, NEW s \in Sessions, LetGo(t, s)
    PROVE  ClaimInv'
<1>1. \A u \in Thread : \/ pc'[u] = pc[u] /\ job'[u] = job[u]
                      \/ pc'[u] \notin Claiming
  BY DEF LetGo, Return, Enter, Claiming, StoreInv, TypeOK, CtlOK
<1>2. index' = index /\ lockOf' = lockOf
  BY DEF LetGo, disk
<1>3. \A q \in Procs, z \in Sessions : owner'[q][z] = "no" <=> owner[q][z] = "no"
  <2>1. owner' = owner \/ owner' = [owner EXCEPT ![t[1]][s] = IF owner[t[1]][s] = "no" THEN owner[t[1]][s] ELSE "detaching"]
    BY DEF LetGo
  <2>2. CASE owner' = owner
    BY <2>2
  <2>3. CASE owner' = [owner EXCEPT ![t[1]][s] = IF owner[t[1]][s] = "no" THEN owner[t[1]][s] ELSE "detaching"]
    <3>1. CASE owner[t[1]][s] = "no"
      <4>1. owner' = [owner EXCEPT ![t[1]][s] = "no"]
        BY <2>3, <3>1
      <4>2. \A q \in Procs, z \in Sessions : owner'[q][z] = IF q = t[1] /\ z = s THEN "no" ELSE owner[q][z]
        BY <4>1 DEF StoreInv, TypeOK, ClaimsOK
      <4> QED BY <3>1, <4>2
    <3>2. CASE owner[t[1]][s] # "no"
      <4>1. owner' = [owner EXCEPT ![t[1]][s] = "detaching"]
        BY <2>3, <3>2
      <4>2. \A q \in Procs, z \in Sessions : owner'[q][z] = IF q = t[1] /\ z = s THEN "detaching" ELSE owner[q][z]
        BY <4>1 DEF StoreInv, TypeOK, ClaimsOK
      <4> QED BY <3>2, <4>2
    <3> QED BY <3>1, <3>2
  <2> QED BY <2>1, <2>2, <2>3
<1> QED BY <1>1, <1>2, <1>3, ClaimKept

\* Every step keeps the claims and their lock files together.
LEMMA ClaimStep == ASSUME StoreInv, ClaimInv, RemovalInv, [Next]_vars PROVE ClaimInv'
<1> USE DEF StoreInv, TypeOK, CtlOK, ClaimsOK, LocksOK, DiskOK, ClaimInv, ClaimLocks, ClaimPlaces, disk, locks, claims, memo, ctl
<1>1. ASSUME NEW t \in Thread, OwnHeld(t) PROVE ClaimInv'
  <2>1. CASE Claimed(t)
    <3>1. \A u \in Thread : \/ pc'[u] = pc[u] /\ job'[u] = job[u]
                          \/ pc'[u] \notin Claiming
      BY <2>1 DEF Claimed, Return, Claiming
    <3> QED BY <1>1, <3>1, ClaimFrame DEF OwnHeld
  <2>2. CASE Goto(t, "again")
    BY <1>1, <2>2 DEF OwnHeld, Goto
  <2> QED BY <1>1, <2>1, <2>2 DEF OwnHeld
<1>2. ASSUME NEW t \in Thread, Revalidate(t) PROVE ClaimInv'
  <2>1. owner[t[1]][job[t].s] # "no" /\ t[1] \in Procs
    BY <1>2, ThreadFacts DEF Revalidate
  <2>2. \A u \in Thread : \/ pc'[u] = pc[u] /\ job'[u] = job[u]
                        \/ pc'[u] \notin Claiming
    BY <1>2 DEF Revalidate, Claimed, Return, Claiming
  <2>3. owner' = owner \/ owner' = [owner EXCEPT ![t[1]][job[t].s] = "held"]
    BY <1>2 DEF Revalidate
  <2>4. \A q \in Procs, z \in Sessions : owner'[q][z] = "no" <=> owner[q][z] = "no"
    <3>1. CASE owner' = owner
      BY <3>1
    <3>2. CASE owner' = [owner EXCEPT ![t[1]][job[t].s] = "held"]
      <4>1. \A q \in Procs, z \in Sessions : owner'[q][z] =
              IF q = t[1] /\ z = job[t].s THEN "held" ELSE owner[q][z]
        BY <3>2
      <4> QED BY <2>1, <4>1
    <3> QED BY <2>3, <3>1, <3>2
  <2>5. UNCHANGED <<lockOf, index>>
    BY <1>2 DEF Revalidate
  <2> QED BY <2>2, <2>4, <2>5, ClaimKept
<1>3. ASSUME NEW t \in Thread, OwnNew(t) PROVE ClaimInv'
  BY <1>3, ThreadFacts DEF OwnNew, Goto
<1>4. ASSUME NEW t \in Thread, ClaimStore(t) PROVE ClaimInv'
  BY <1>4, ThreadFacts DEF ClaimStore, TakeStore, Goto
<1>5. ASSUME NEW t \in Thread, OpenLock(t) PROVE ClaimInv'
  BY <1>5, ThreadFacts DEF OpenLock
<1>6. ASSUME NEW t \in Thread, TryLock(t) PROVE ClaimInv'
  <2>0. job[t].s \in Sessions /\ t[1] \in Procs
    BY <1>6, ThreadFacts DEF TryLock, JobInv, IdInv, JobIds, IndexIds
  <2>1. fd[t] = "linked" /\ LinkFree(job[t].s) /\ index' = index
    BY <1>6 DEF TryLock, JobInv
  <2>2. \A q \in Procs, z \in Sessions :
          /\ owner'[q][z] = IF q = t[1] /\ z = job[t].s THEN "held" ELSE owner[q][z]
          /\ lockOf'[q][z] = IF q = t[1] /\ z = job[t].s THEN "linked" ELSE lockOf[q][z]
    BY <1>6, <2>1 DEF TryLock
  <2>3. \A u \in Thread : u # t => pc'[u] = pc[u] /\ job'[u] = job[u]
    BY <1>6 DEF TryLock, Claimed, Return
  <2>4. pc'[t] \notin Claiming
    BY <1>6 DEF TryLock, Claimed, Return, Claiming
  <2>5. \A u \in Thread : u # t /\ pc[u] \in Claiming => u[1] # t[1]
    BY <1>6, OwnersAlone DEF TryLock, OwnersPCs, Claiming
  <2>6. \A u \in Thread : pc[u] \in Claiming => job[u].s \in Sessions
    BY DEF JobInv, IdInv, JobIds, IndexIds, Claiming
  <2>7. \A u \in Thread : pc'[u] \in Claiming => owner'[u[1]][job'[u].s] = owner[u[1]][job[u].s] /\ pc'[u] = pc[u]
    BY <2>2, <2>3, <2>4, <2>5, <2>6, ThreadFacts
  <2>8. \A q, r \in Procs, z \in Sessions : lockOf'[q][z] = "linked" /\ lockOf'[r][z] = "linked" => q = r
    <3>1. \A q \in Procs : lockOf'[q][job[t].s] = "linked" => q = t[1]
      BY <2>0, <2>1, <2>2 DEF LinkFree
    <3>2. \A q \in Procs, z \in Sessions : z # job[t].s => lockOf'[q][z] = lockOf[q][z]
      BY <2>2
    <3>3. \A q, r \in Procs, z \in Sessions : lockOf[q][z] = "linked" /\ lockOf[r][z] = "linked" => q = r
      BY DEF ClaimInv, ClaimLocks
    <3>4. ASSUME NEW q \in Procs, NEW r \in Procs, NEW z \in Sessions, lockOf'[q][z] = "linked", lockOf'[r][z] = "linked"
          PROVE  q = r
      <4>1. CASE z = job[t].s
        BY <3>1, <3>4, <4>1
      <4>2. CASE z # job[t].s
        BY <3>2, <3>3, <3>4, <4>2
      <4> QED BY <4>1, <4>2
    <3> QED BY <3>4
  <2>9. \A q \in Procs, z \in index' : lockOf'[q][z] # "unlinked"
    BY <2>1, <2>2
  <2>a. ClaimLocks'
    BY <2>2, <2>8, <2>9
  <2>b. ClaimPlaces'
    <3>1. \A u \in Thread : pc'[u] \in Claiming => pc[u] = pc'[u] /\ owner'[u[1]][job'[u].s] = owner[u[1]][job[u].s]
      BY <2>7
    <3> HIDE DEF StoreInv, TypeOK
    <3> QED BY <3>1 DEF Claiming
  <2> QED BY <2>a, <2>b
<1>7. ASSUME NEW t \in Thread, ClaimRefused(t) PROVE ClaimInv'
  BY <1>7, ThreadFacts DEF ClaimRefused, Return, FreeStore, FreeOwners
<1>8. ASSUME NEW t \in Thread, LockStore(t) PROVE ClaimInv'
  BY <1>8, ThreadFacts DEF LockStore, TakeStore, Goto
<1>9. ASSUME NEW t \in Thread, Read(t) PROVE ClaimInv'
  <2>1. \A u \in Thread : \/ pc'[u] = pc[u] /\ job'[u] = job[u]
                        \/ pc'[u] \notin Claiming
    BY <1>9, ThreadFacts DEF Read, EndStore, Return, FreeStore, Claiming
  <2>2. UNCHANGED claims /\ index' = index
    BY <1>9 DEF Read
  <2> QED BY <2>1, <2>2, ClaimFrame
<1>10. ASSUME NEW t \in Thread, WriteChild(t) PROVE ClaimInv'
  <2>1. \A u \in Thread : \/ pc'[u] = pc[u] /\ job'[u] = job[u]
                        \/ pc'[u] \notin Claiming
    BY <1>10, ThreadFacts DEF WriteChild, EndStore, Return, FreeStore, Goto, Claiming
  <2>2. UNCHANGED claims /\ index' = index
    BY <1>10 DEF WriteChild
  <2> QED BY <2>1, <2>2, ClaimFrame
<1>11. ASSUME NEW t \in Thread, WriteIndex(t) PROVE ClaimInv'
  <2>1. \A u \in Thread : \/ pc'[u] = pc[u] /\ job'[u] = job[u]
                        \/ pc'[u] \notin Claiming
    BY <1>11 DEF WriteIndex, EndStore, Return, Goto, Claiming
  <2>2. UNCHANGED claims
    BY <1>11 DEF WriteIndex
  <2>3. CASE Makes(t)
    <3>1. index' = index \cup {job[t].c} /\ job[t].c \notin known
      BY <1>11, <2>3 DEF WriteIndex, Written, SnapInv, IdInv, JobIds, Makes, Removals
    <3>2. \A q \in Procs, z \in Sessions : owner[q][z] # "no" => z # job[t].c
      BY <3>1 DEF IdInv, ClaimIds
    <3>3. \A q \in Procs, z \in index' : lockOf[q][z] # "unlinked"
      BY <3>1, <3>2, CtlFacts, <2>3 DEF Makes
    <3> QED BY <2>1, <2>2, <3>3 DEF Claiming
  <2>4. CASE ~Makes(t)
    <3>1. index' \subseteq index
      BY <1>11, <2>4 DEF WriteIndex, Written, SnapInv, Makes
    <3> QED BY <2>1, <2>2, <3>1, ClaimFrame
  <2> QED BY <2>3, <2>4
<1>12. ASSUME NEW t \in Thread, WriteIndexFails(t) PROVE ClaimInv'
  BY <1>12, ThreadFacts DEF WriteIndexFails, EndStore, Return, FreeStore
<1>13. ASSUME NEW t \in Thread, Forget(t) PROVE ClaimInv'
  BY <1>13, ThreadFacts DEF Forget, Goto
<1>14. ASSUME NEW t \in Thread, Erase(t) PROVE ClaimInv'
  BY <1>14, ThreadFacts DEF Erase, Goto
<1>15. ASSUME NEW t \in Thread, Unlink(t) PROVE ClaimInv'
  <2>1. job[t].s \notin index /\ index' = index /\ owner' = owner
    BY <1>15 DEF Unlink, RemovalInv, RemovalHolds, JobInv, RemovalTail
  <2>2. \A q \in Procs, z \in Sessions :
          lockOf'[q][z] = lockOf[q][z] \/ (z = job[t].s /\ lockOf[q][z] = "linked" /\ lockOf'[q][z] = "unlinked")
    <3>1. CASE lockOf' = lockOf
      BY <3>1
    <3>2. CASE lockOf' = [q \in Procs |-> [lockOf[q] EXCEPT ![job[t].s] = Orphaned(@)]]
      BY <3>2 DEF Orphaned
    <3> QED BY <1>15, <3>1, <3>2 DEF Unlink
  <2>3. \A u \in Thread : \/ pc'[u] = pc[u] /\ job'[u] = job[u]
                        \/ pc'[u] \notin Claiming
    BY <1>15 DEF Unlink, Claiming
  <2>4. ClaimLocks'
    <3>1. \A q \in Procs, z \in Sessions : owner'[q][z] = "no" <=> lockOf'[q][z] = "none"
      BY <2>1, <2>2
    <3>2. index \subseteq Sessions
      OBVIOUS
    <3> QED BY <2>1, <2>2, <3>1, <3>2, LocksUpdate
  <2>5. ClaimPlaces'
    BY <2>1, <2>3 DEF Claiming
  <2> QED BY <2>4, <2>5
<1>16. ASSUME NEW t \in Thread, Leave(t) PROVE ClaimInv'
  <2>1. CASE LetGo(t, job[t].s)
    <3>1. job[t].s \in Sessions
      BY <1>16, CtlFacts DEF Leave, JobInv, RemovalTail
    <3> QED BY <2>1, <3>1, LetGoClaim
  <2>2. CASE Return(t) /\ UNCHANGED <<disk, locks, claims, memo, running, used, known, crashes>>
    BY <2>2, ClaimFrame DEF Return, Claiming
  <2> QED BY <1>16, <2>1, <2>2 DEF Leave
<1>17. ASSUME NEW t \in Thread, Save(t) PROVE ClaimInv'
  BY <1>17, ThreadFacts DEF Save, EndStore, Return, FreeStore
<1>18. ASSUME NEW t \in Thread, LockMemo(t) PROVE ClaimInv'
  BY <1>18, ThreadFacts DEF LockMemo, Goto
<1>19. ASSUME NEW t \in Thread, CheckSidecar(t) PROVE ClaimInv'
  <2>1. \A u \in Thread : \/ pc'[u] = pc[u] /\ job'[u] = job[u]
                        \/ pc'[u] \notin Claiming
    BY <1>19, ThreadFacts DEF CheckSidecar, EndMemo, Return, Goto, Indexed, Claiming
  <2>2. UNCHANGED claims /\ index' = index
    BY <1>19 DEF CheckSidecar
  <2> QED BY <2>1, <2>2, ClaimFrame
<1>20. ASSUME NEW t \in Thread, PutSidecar(t) PROVE ClaimInv'
  BY <1>20, ThreadFacts DEF PutSidecar, EndMemo, Return
<1>21. ASSUME NEW t \in Thread, Disown(t) PROVE ClaimInv'
  BY <1>21, ThreadFacts DEF Disown, Goto
<1>22. ASSUME NEW t \in Thread, Unclaim(t) PROVE ClaimInv'
  <2>1. \A q \in Procs, z \in Sessions :
          /\ owner'[q][z] = IF q = t[1] /\ z = job[t].s THEN "no" ELSE owner[q][z]
          /\ lockOf'[q][z] = IF q = t[1] /\ z = job[t].s THEN "none" ELSE lockOf[q][z]
    BY <1>22 DEF Unclaim
  <2>2. \A u \in Thread : u # t => pc'[u] = pc[u] /\ job'[u] = job[u]
    BY <1>22 DEF Unclaim, Return
  <2>3. pc'[t] \notin Claiming /\ index' = index
    BY <1>22 DEF Unclaim, Return, Claiming
  <2>4. \A u \in Thread : u # t /\ pc[u] \in Claiming => u[1] # t[1]
    BY <1>22, OwnersAlone DEF Unclaim, OwnersPCs, Claiming
  <2>5. \A u \in Thread : pc[u] \in Claiming => job[u].s \in Sessions
    BY DEF JobInv, IdInv, JobIds, IndexIds, Claiming
  <2>6. \A u \in Thread : pc'[u] \in Claiming => owner'[u[1]][job'[u].s] = owner[u[1]][job[u].s] /\ pc'[u] = pc[u]
    BY <2>1, <2>2, <2>3, <2>4, <2>5, ThreadFacts
  <2>7. ClaimLocks'
    <3>1. \A q \in Procs, z \in Sessions : owner'[q][z] = "no" <=> lockOf'[q][z] = "none"
      BY <2>1
    <3>2. index \subseteq Sessions
      OBVIOUS
    <3> QED BY <2>1, <2>3, <3>1, <3>2, LocksUpdate
  <2>8. ClaimPlaces'
    <3>1. \A u \in Thread : pc'[u] \in Claiming => pc[u] = pc'[u] /\ owner'[u[1]][job'[u].s] = owner[u[1]][job[u].s]
      BY <2>6
    <3> HIDE DEF StoreInv, TypeOK
    <3> QED BY <3>1 DEF Claiming
  <2> QED BY <2>7, <2>8
<1>23. ASSUME NEW p \in Procs, NEW s \in Sessions, Attach(p, s) PROVE ClaimInv'
  <2>1. <<p, "ui">> \in Thread
    BY ThreadFacts
  <2> QED BY <1>23, <2>1, BeginClaim DEF Attach
<1>24. ASSUME NEW p \in Procs, NEW s \in Sessions, Create(p, s) PROVE ClaimInv'
  <2>1. <<p, "ui">> \in Thread
    BY ThreadFacts
  <2> QED BY <1>24, <2>1, BeginClaim DEF Create
<1>25. ASSUME NEW p \in Procs, NEW s \in Sessions, Remove(p, s) PROVE ClaimInv'
  <2>1. <<p, "ui">> \in Thread
    BY ThreadFacts
  <2> QED BY <1>25, <2>1, BeginClaim DEF Remove
<1>26. ASSUME NEW p \in Procs, NEW s \in Sessions, Detach(p, s) PROVE ClaimInv'
  <2>1. <<p, "ui">> \in Thread /\ LetGo(<<p, "ui">>, s)
    BY <1>26, ThreadFacts DEF Detach
  <2> QED BY <2>1, LetGoClaim
<1>27. ASSUME NEW p \in Procs, NEW s \in Sessions, NEW c \in Sessions, Fork(p, s, c) PROVE ClaimInv'
  <2>1. <<p, "ui">> \in Thread
    BY ThreadFacts
  <2> QED BY <1>27, <2>1, BeginClaim DEF Fork
<1>28. ASSUME NEW p \in Procs, TurnWrite(p) PROVE ClaimInv'
  <2>1. <<p, "turn">> \in Thread
    BY ThreadFacts
  <2> QED BY <1>28, <2>1, BeginClaim DEF TurnWrite
<1>29. ASSUME NEW p \in Procs, WriteEvents(p) PROVE ClaimInv'
  BY <1>29, ThreadFacts DEF WriteEvents
<1>30. ASSUME NEW p \in Procs, Finish(p) PROVE ClaimInv'
  <2> DEFINE t == <<p, "turn">>
  <2>1. t \in Thread
    BY ThreadFacts
  <2>2. Enter(t, "finish", running[p], None, "release") \/ UNCHANGED ctl
    BY <1>30 DEF Finish
  <2>3. \A u \in Thread : \/ pc'[u] = pc[u] /\ job'[u] = job[u]
                        \/ pc'[u] \notin Claiming
    <3>1. CASE Enter(t, "finish", running[p], None, "release")
      BY <2>1, <3>1 DEF Enter, Claiming
    <3>2. CASE UNCHANGED ctl
      BY <3>2
    <3> QED BY <2>2, <3>1, <3>2
  <2>4. UNCHANGED claims /\ index' = index
    BY <1>30 DEF Finish
  <2> QED BY <2>3, <2>4, ClaimFrame
<1>31. ASSUME NEW p \in Procs, Crash(p) PROVE ClaimInv'
  BY <1>31, ThreadFacts DEF Crash
<1>32. CASE Damage
  BY <1>32, ThreadFacts DEF Damage
<1>33. CASE UNCHANGED vars
  BY <1>33 DEF vars
<1> QED BY <1>1, <1>2, <1>3, <1>4, <1>5, <1>6, <1>7, <1>8, <1>9, <1>10, <1>11, <1>12, <1>13, <1>14, <1>15, <1>16, <1>17, <1>18, <1>19, <1>20, <1>21, <1>22, <1>23, <1>24, <1>25, <1>26, <1>27, <1>28, <1>29, <1>30, <1>31, <1>32, <1>33 DEF Next, Step, Call

\* A step that leaves the claims and the index alone.
LEMMA RemovalFrame ==
    ASSUME RemovalInv, UNCHANGED <<owner, index>>,
           \A u \in Thread : (pc'[u] = pc[u] /\ job'[u] = job[u]) \/ RemovalHolds(u)'
    PROVE  RemovalInv'
BY DEF RemovalInv, RemovalHolds

\* A call that begins disturbs no removal under way.
LEMMA BeginRemoval ==
    ASSUME StoreInv, RemovalInv, NEW t \in Thread, NEW k, NEW s, NEW c, NEW l \in {"own", "lock"},
           k # "finish", k \in Removals => l = "own" /\ owner[t[1]][s] # "detaching",
           Begin(t, k, s, c, l)
    PROVE  RemovalInv'
<1>1. UNCHANGED <<owner, index>>
  BY DEF Begin, claims, disk
<1>2. \A u \in Thread : (pc'[u] = pc[u] /\ job'[u] = job[u]) \/ u = t
  BY DEF Begin, Enter, StoreInv, TypeOK, CtlOK
<1>3. pc'[t] = l /\ job'[t] = [kind |-> k, s |-> s, c |-> c]
  BY DEF Begin, Enter, StoreInv, TypeOK, CtlOK
<1>4. RemovalHolds(t)'
  BY <1>1, <1>3 DEF RemovalHolds, RemovalTail
<1> QED BY <1>1, <1>2, <1>4, RemovalFrame

\* A step of one process that changes its claim on one session.
LEMMA RemovalOthers ==
    ASSUME RemovalInv, index' = index, NEW t \in Thread,
           \A u \in Thread : u # t => pc'[u] = pc[u] /\ job'[u] = job[u],
           \A q \in Procs : q # t[1] => owner'[q] = owner[q],
           RemovalHolds(t)',
           \A u \in Thread : u # t /\ u[1] = t[1] => RemovalHolds(u)'
    PROVE  RemovalInv'
BY ThreadFacts DEF RemovalInv, RemovalHolds

\* The two threads of a process make different calls.
LEMMA OtherThread ==
    ASSUME JobInv, NEW t \in Thread, NEW u \in Thread, u[1] = t[1], u # t
    PROVE  job[t].kind \in UiJobs => job[u].kind \notin UiJobs
<1>1. t[2] # u[2]
  BY ThreadFacts
<1> QED BY <1>1, ThreadFacts DEF JobInv

\* Neither does letting go of a session.
LEMMA LetGoRemoval ==
    ASSUME StoreInv, RemovalInv, NEW t \in Thread, NEW s \in Sessions, t[2] = "ui", LetGo(t, s)
    PROVE  RemovalInv'
<1> USE DEF StoreInv, TypeOK, CtlOK
<1>1. \A u \in Thread : u # t => pc'[u] = pc[u] /\ job'[u] = job[u]
  BY DEF LetGo, Return, Enter
<1>2. index' = index /\ \A q \in Procs : q # t[1] => owner'[q] = owner[q]
  BY DEF LetGo, disk, ClaimsOK
<1>3. job'[t].kind \in {"none", "detach"}
  BY DEF LetGo, Return, Enter, NoJob
<1>4. RemovalHolds(t)'
  BY <1>3 DEF RemovalHolds, Removals
<1>5. \A u \in Thread : u # t /\ u[1] = t[1] => job[u].kind \notin Removals \cup {"finish"}
  BY OwnersAlone, ThreadFacts DEF LetGo, JobInv, OwnersPCs, UiJobs, Removals
<1>6. \A u \in Thread : u # t /\ u[1] = t[1] => RemovalHolds(u)'
  BY <1>1, <1>5 DEF RemovalHolds
<1> QED BY <1>1, <1>2, <1>4, <1>6, RemovalOthers

\* Every step keeps removals in hold of their session.
LEMMA RemovalStep == ASSUME StoreInv, ClaimInv, RemovalInv, ~LeftRemoval, [Next]_vars PROVE RemovalInv'
<1> USE DEF StoreInv, TypeOK, CtlOK, DiskOK, disk, locks, claims, memo, ctl
<1>1. ASSUME NEW t \in Thread, OwnHeld(t) PROVE RemovalInv'
  <2>1. UNCHANGED <<owner, index>>
    BY <1>1 DEF OwnHeld
  <2>2. \A u \in Thread : (pc'[u] = pc[u] /\ job'[u] = job[u]) \/ u = t
    BY <1>1 DEF OwnHeld, Claimed, Return, Goto
  <2>3. RemovalHolds(t)'
    <3>1. CASE job'[t].kind \in Removals
      <4>1. job'[t] = job[t] /\ job[t].kind \in Removals
        BY <1>1, <3>1 DEF OwnHeld, Claimed, Return, Goto, NoJob, Removals
      <4>2. owner[t[1]][job[t].s] = "held"
        BY <1>1, <4>1, CtlFacts, ThreadFacts DEF OwnHeld, RemovalInv, RemovalHolds, ClaimsOK
      <4>3. pc'[t] = "lock"
        BY <1>1, <4>1 DEF OwnHeld, Claimed, Reactivates, Removals
      <4> QED BY <2>1, <4>1, <4>2, <4>3 DEF RemovalHolds, Removals
    <3>2. CASE job'[t].kind \notin Removals
      BY <1>1, <3>2 DEF OwnHeld, Claimed, Return, Goto, NoJob, RemovalHolds, JobInv
    <3> QED BY <3>1, <3>2
  <2> QED BY <2>1, <2>2, <2>3, RemovalFrame
<1>2. ASSUME NEW t \in Thread, Revalidate(t) PROVE RemovalInv'
  <2>1. \A u \in Thread : u # t => pc'[u] = pc[u] /\ job'[u] = job[u]
    BY <1>2 DEF Revalidate, Claimed, Return
  <2>2. index' = index /\ \A q \in Procs : q # t[1] => owner'[q] = owner[q]
    BY <1>2 DEF Revalidate, ClaimsOK
  <2>3. job'[t] = NoJob
    BY <1>2 DEF Revalidate, Claimed, Return, JobInv, Reactivates
  <2>4. \A u \in Thread : u # t /\ u[1] = t[1] => job[u].kind \notin Removals \cup {"finish"}
    BY <1>2, OtherThread, OwnersAlone DEF Revalidate, JobInv, OwnersPCs, UiJobs, Removals, TurnJobs
  <2>5. \A u \in Thread : u # t /\ u[1] = t[1] => RemovalHolds(u)'
    BY <2>1, <2>4 DEF RemovalHolds
  <2>6. RemovalHolds(t)'
    BY <2>3 DEF RemovalHolds, NoJob, Removals
  <2> QED BY <2>1, <2>2, <2>5, <2>6, RemovalOthers
<1>3. ASSUME NEW t \in Thread, OwnNew(t) PROVE RemovalInv'
  <2>1. \A u \in Thread : (pc'[u] = pc[u] /\ job'[u] = job[u]) \/ RemovalHolds(u)'
    BY <1>3, ThreadFacts DEF OwnNew, Goto, NoJob, RemovalInv, RemovalHolds, Removals, RemovalTail, JobInv
  <2>2. UNCHANGED <<owner, index>>
    BY <1>3 DEF OwnNew
  <2> QED BY <2>1, <2>2, RemovalFrame
<1>4. ASSUME NEW t \in Thread, ClaimStore(t) PROVE RemovalInv'
  <2>1. \A u \in Thread : (pc'[u] = pc[u] /\ job'[u] = job[u]) \/ RemovalHolds(u)'
    BY <1>4, ThreadFacts DEF ClaimStore, TakeStore, Goto, NoJob, RemovalInv, RemovalHolds, Removals, RemovalTail, JobInv
  <2>2. UNCHANGED <<owner, index>>
    BY <1>4 DEF ClaimStore
  <2> QED BY <2>1, <2>2, RemovalFrame
<1>5. ASSUME NEW t \in Thread, OpenLock(t) PROVE RemovalInv'
  <2>1. \A u \in Thread : (pc'[u] = pc[u] /\ job'[u] = job[u]) \/ RemovalHolds(u)'
    BY <1>5, ThreadFacts DEF OpenLock, NoJob, RemovalInv, RemovalHolds, Removals, RemovalTail, JobInv
  <2>2. UNCHANGED <<owner, index>>
    BY <1>5 DEF OpenLock
  <2> QED BY <2>1, <2>2, RemovalFrame
<1>6. ASSUME NEW t \in Thread, TryLock(t) PROVE RemovalInv'
  <2>1. \A u \in Thread : u # t => pc'[u] = pc[u] /\ job'[u] = job[u]
    BY <1>6 DEF TryLock, Claimed, Return
  <2>2. index' = index /\ \A q \in Procs : q # t[1] => owner'[q] = owner[q]
    BY <1>6 DEF TryLock, ClaimsOK
  <2>3. \A u \in Thread : u # t /\ u[1] = t[1] => job[u].kind # "finish"
    BY <1>6, OwnersAlone DEF TryLock, JobInv, OwnersPCs
  <2>4. owner'[t[1]][job[t].s] = "held" /\ \A z \in Sessions : z # job[t].s => owner'[t[1]][z] = owner[t[1]][z]
    BY <1>6, NamedKnown, ThreadFacts DEF TryLock, ClaimsOK, IdInv, IndexIds
  <2>5. \A u \in Thread : u # t /\ u[1] = t[1] => RemovalHolds(u)'
    <3> SUFFICES ASSUME NEW u \in Thread, u # t, u[1] = t[1] PROVE RemovalHolds(u)'
      OBVIOUS
    <3>1. job'[u] = job[u] /\ pc'[u] = pc[u] /\ job[u].kind # "finish" /\ job[u].s \in Sessions \cup {None}
      BY <2>1, <2>3, CtlFacts
    <3>2. CASE job[u].kind \in Removals
      BY <2>2, <2>4, <3>1, <3>2, CtlFacts DEF RemovalInv, RemovalHolds
    <3> QED BY <3>1, <3>2 DEF RemovalHolds
  <2>6. RemovalHolds(t)'
    <3>1. CASE job'[t].kind \in Removals
      <4>1. job'[t] = job[t] /\ job[t].kind \in Removals
        BY <1>6, <3>1 DEF TryLock, Claimed, Return, NoJob, Removals
      <4>2. pc'[t] = "lock"
        BY <1>6, <4>1 DEF TryLock, Claimed, Reactivates, Removals
      <4> QED BY <2>4, <4>1, <4>2 DEF RemovalHolds, Removals
    <3>2. CASE job'[t].kind \notin Removals
      BY <1>6, <3>2 DEF TryLock, Claimed, Return, NoJob, RemovalHolds, JobInv
    <3> QED BY <3>1, <3>2
  <2> QED BY <2>1, <2>2, <2>5, <2>6, RemovalOthers
<1>7. ASSUME NEW t \in Thread, ClaimRefused(t) PROVE RemovalInv'
  <2>1. \A u \in Thread : (pc'[u] = pc[u] /\ job'[u] = job[u]) \/ RemovalHolds(u)'
    BY <1>7, ThreadFacts DEF ClaimRefused, Return, FreeStore, FreeOwners, NoJob, RemovalInv, RemovalHolds, Removals, RemovalTail, JobInv
  <2>2. UNCHANGED <<owner, index>>
    BY <1>7 DEF ClaimRefused
  <2> QED BY <2>1, <2>2, RemovalFrame
<1>8. ASSUME NEW t \in Thread, LockStore(t) PROVE RemovalInv'
  <2>1. \A u \in Thread : (pc'[u] = pc[u] /\ job'[u] = job[u]) \/ RemovalHolds(u)'
    BY <1>8, ThreadFacts DEF LockStore, TakeStore, Goto, NoJob, RemovalInv, RemovalHolds, Removals, RemovalTail, JobInv
  <2>2. UNCHANGED <<owner, index>>
    BY <1>8 DEF LockStore
  <2> QED BY <2>1, <2>2, RemovalFrame
<1>9. ASSUME NEW t \in Thread, Read(t) PROVE RemovalInv'
  <2>1. \A u \in Thread : (pc'[u] = pc[u] /\ job'[u] = job[u]) \/ RemovalHolds(u)'
    BY <1>9, ThreadFacts DEF Read, EndStore, Return, FreeStore, NoJob, RemovalInv, RemovalHolds, Removals, RemovalTail, JobInv
  <2>2. UNCHANGED <<owner, index>>
    BY <1>9 DEF Read
  <2> QED BY <2>1, <2>2, RemovalFrame
<1>10. ASSUME NEW t \in Thread, WriteChild(t) PROVE RemovalInv'
  <2>1. \A u \in Thread : (pc'[u] = pc[u] /\ job'[u] = job[u]) \/ RemovalHolds(u)'
    BY <1>10, ThreadFacts DEF WriteChild, EndStore, Return, FreeStore, Goto, NoJob, RemovalInv, RemovalHolds, Removals, RemovalTail, JobInv
  <2>2. UNCHANGED <<owner, index>>
    BY <1>10 DEF WriteChild
  <2> QED BY <2>1, <2>2, RemovalFrame
<1>11. ASSUME NEW t \in Thread, WriteIndex(t) PROVE RemovalInv'
  <2>1. \A u \in Thread : u # t => pc'[u] = pc[u] /\ job'[u] = job[u] /\ pc[u] \notin StorePCs
    BY <1>11 DEF WriteIndex, EndStore, Return, Goto, LockInv, StorePCs
  <2>2. owner' = owner
    BY <1>11 DEF WriteIndex
  <2>3. \A u \in Thread : u # t => RemovalHolds(u)'
    BY <2>1, <2>2 DEF RemovalInv, RemovalHolds, StorePCs
  <2>4. RemovalHolds(t)'
    <3>1. CASE job[t].kind \in Removals
      BY <1>11, <2>2, <3>1 DEF WriteIndex, Written, Goto, RemovalInv, RemovalHolds, Removals
    <3>2. CASE job[t].kind \notin Removals
      BY <1>11, <3>2 DEF WriteIndex, EndStore, Return, NoJob, RemovalHolds, Removals
    <3> QED BY <3>1, <3>2
  <2> QED BY <2>3, <2>4 DEF RemovalInv
<1>12. ASSUME NEW t \in Thread, WriteIndexFails(t) PROVE RemovalInv'
  <2>1. \A u \in Thread : (pc'[u] = pc[u] /\ job'[u] = job[u]) \/ RemovalHolds(u)'
    BY <1>12, ThreadFacts DEF WriteIndexFails, EndStore, Return, FreeStore, NoJob, RemovalInv, RemovalHolds, Removals, RemovalTail, JobInv
  <2>2. UNCHANGED <<owner, index>>
    BY <1>12 DEF WriteIndexFails
  <2> QED BY <2>1, <2>2, RemovalFrame
<1>13. ASSUME NEW t \in Thread, Forget(t) PROVE RemovalInv'
  <2>1. \A u \in Thread : (pc'[u] = pc[u] /\ job'[u] = job[u]) \/ RemovalHolds(u)'
    BY <1>13, ThreadFacts DEF Forget, Goto, NoJob, RemovalInv, RemovalHolds, Removals, RemovalTail, JobInv
  <2>2. UNCHANGED <<owner, index>>
    BY <1>13 DEF Forget
  <2> QED BY <2>1, <2>2, RemovalFrame
<1>14. ASSUME NEW t \in Thread, Erase(t) PROVE RemovalInv'
  <2>1. \A u \in Thread : (pc'[u] = pc[u] /\ job'[u] = job[u]) \/ RemovalHolds(u)'
    BY <1>14, ThreadFacts DEF Erase, Goto, NoJob, RemovalInv, RemovalHolds, Removals, RemovalTail, JobInv
  <2>2. UNCHANGED <<owner, index>>
    BY <1>14 DEF Erase
  <2> QED BY <2>1, <2>2, RemovalFrame
<1>15. ASSUME NEW t \in Thread, Unlink(t) PROVE RemovalInv'
  <2>1. \A u \in Thread : (pc'[u] = pc[u] /\ job'[u] = job[u]) \/ RemovalHolds(u)'
    BY <1>15, ThreadFacts DEF Unlink, FreeStore, Orphaned, NoJob, RemovalInv, RemovalHolds, Removals, RemovalTail, JobInv
  <2>2. UNCHANGED <<owner, index>>
    BY <1>15 DEF Unlink
  <2> QED BY <2>1, <2>2, RemovalFrame
<1>16. ASSUME NEW t \in Thread, Leave(t) PROVE RemovalInv'
  <2>1. CASE LetGo(t, job[t].s)
    <3>1. job[t].s \in Sessions /\ t[2] = "ui"
      BY <1>16, CtlFacts DEF Leave, JobInv, RemovalTail, UiJobs, Removals
    <3> QED BY <2>1, <3>1, LetGoRemoval DEF StoreInv
  <2>2. CASE Return(t) /\ UNCHANGED <<disk, locks, claims, memo, running, used, known, crashes>>
    <3>1. \A u \in Thread : (pc'[u] = pc[u] /\ job'[u] = job[u]) \/ RemovalHolds(u)'
      BY <2>2 DEF Return, NoJob, RemovalHolds, Removals
    <3> QED BY <2>2, <3>1, RemovalFrame
  <2> QED BY <1>16, <2>1, <2>2 DEF Leave
<1>17. ASSUME NEW t \in Thread, Save(t) PROVE RemovalInv'
  <2>1. \A u \in Thread : (pc'[u] = pc[u] /\ job'[u] = job[u]) \/ RemovalHolds(u)'
    BY <1>17, ThreadFacts DEF Save, EndStore, Return, FreeStore, NoJob, RemovalInv, RemovalHolds, Removals, RemovalTail, JobInv
  <2>2. UNCHANGED <<owner, index>>
    BY <1>17 DEF Save
  <2> QED BY <2>1, <2>2, RemovalFrame
<1>18. ASSUME NEW t \in Thread, LockMemo(t) PROVE RemovalInv'
  <2>1. \A u \in Thread : (pc'[u] = pc[u] /\ job'[u] = job[u]) \/ RemovalHolds(u)'
    BY <1>18, ThreadFacts DEF LockMemo, Goto, NoJob, RemovalInv, RemovalHolds, Removals, RemovalTail, JobInv
  <2>2. UNCHANGED <<owner, index>>
    BY <1>18 DEF LockMemo
  <2> QED BY <2>1, <2>2, RemovalFrame
<1>19. ASSUME NEW t \in Thread, CheckSidecar(t) PROVE RemovalInv'
  <2>1. \A u \in Thread : (pc'[u] = pc[u] /\ job'[u] = job[u]) \/ RemovalHolds(u)'
    BY <1>19, ThreadFacts DEF CheckSidecar, EndMemo, Return, Goto, Indexed, NoJob, RemovalInv, RemovalHolds, Removals, RemovalTail, JobInv
  <2>2. UNCHANGED <<owner, index>>
    BY <1>19 DEF CheckSidecar
  <2> QED BY <2>1, <2>2, RemovalFrame
<1>20. ASSUME NEW t \in Thread, PutSidecar(t) PROVE RemovalInv'
  <2>1. \A u \in Thread : (pc'[u] = pc[u] /\ job'[u] = job[u]) \/ RemovalHolds(u)'
    BY <1>20, ThreadFacts DEF PutSidecar, EndMemo, Return, NoJob, RemovalInv, RemovalHolds, Removals, RemovalTail, JobInv
  <2>2. UNCHANGED <<owner, index>>
    BY <1>20 DEF PutSidecar
  <2> QED BY <2>1, <2>2, RemovalFrame
<1>21. ASSUME NEW t \in Thread, Disown(t) PROVE RemovalInv'
  <2>1. \A u \in Thread : (pc'[u] = pc[u] /\ job'[u] = job[u]) \/ RemovalHolds(u)'
    BY <1>21, ThreadFacts DEF Disown, Goto, NoJob, RemovalInv, RemovalHolds, Removals, RemovalTail, JobInv
  <2>2. UNCHANGED <<owner, index>>
    BY <1>21 DEF Disown
  <2> QED BY <2>1, <2>2, RemovalFrame
<1>22. ASSUME NEW t \in Thread, Unclaim(t) PROVE RemovalInv'
  <2>1. \A u \in Thread : u # t => pc'[u] = pc[u] /\ job'[u] = job[u]
    BY <1>22 DEF Unclaim, Return
  <2>2. index' = index /\ \A q \in Procs : q # t[1] => owner'[q] = owner[q]
    BY <1>22 DEF Unclaim, ClaimsOK
  <2>3. \A u \in Thread : u # t /\ u[1] = t[1] => job[u].kind # "finish"
    BY <1>22, OwnersAlone DEF Unclaim, JobInv, OwnersPCs
  <2>4. \A z \in Sessions : owner'[t[1]][z] = IF z = job[t].s THEN "no" ELSE owner[t[1]][z]
    BY <1>22, ThreadFacts DEF Unclaim, ClaimsOK
  <2>5. \A u \in Thread : u # t /\ u[1] = t[1] => RemovalHolds(u)'
    <3> SUFFICES ASSUME NEW u \in Thread, u # t, u[1] = t[1] PROVE RemovalHolds(u)'
      OBVIOUS
    <3>1. job'[u] = job[u] /\ pc'[u] = pc[u] /\ job[u].kind # "finish"
      BY <2>1, <2>3
    <3>2. CASE job[u].kind \in Removals
      <4>1. job[t].kind = "finish" /\ job[u].s \in Sessions
        BY <1>22, <3>2, CtlFacts, ThreadFacts DEF Unclaim, JobInv, UiJobs, Removals
      <4>2. owner[t[1]][job[t].s] = "detaching"
        BY <4>1 DEF RemovalInv, RemovalHolds
      <4> QED BY <2>2, <2>4, <3>1, <3>2, <4>1, <4>2 DEF RemovalInv, RemovalHolds
    <3> QED BY <3>1, <3>2 DEF RemovalHolds
  <2>6. RemovalHolds(t)'
    BY <1>22 DEF Unclaim, Return, NoJob, RemovalHolds, Removals
  <2> QED BY <2>1, <2>2, <2>5, <2>6, RemovalOthers
<1>23. ASSUME NEW p \in Procs, NEW s \in Sessions, Attach(p, s) PROVE RemovalInv'
  <2>1. <<p, "ui">> \in Thread /\ <<p, "ui">>[1] = p
    BY ThreadFacts
  <2> QED BY <1>23, <2>1, BeginRemoval DEF Attach, Removals
<1>24. ASSUME NEW p \in Procs, NEW s \in Sessions, Create(p, s) PROVE RemovalInv'
  <2>1. \A u \in Thread : (pc'[u] = pc[u] /\ job'[u] = job[u]) \/ RemovalHolds(u)'
    BY <1>24, ThreadFacts DEF Create, Begin, Enter, NoJob, RemovalInv, RemovalHolds, Removals, RemovalTail, JobInv
  <2>2. UNCHANGED <<owner, index>>
    BY <1>24 DEF Create, Begin
  <2> QED BY <2>1, <2>2, RemovalFrame
<1>25. ASSUME NEW p \in Procs, NEW s \in Sessions, Remove(p, s) PROVE RemovalInv'
  <2>1. <<p, "ui">> \in Thread /\ <<p, "ui">>[1] = p
    BY ThreadFacts
  <2> QED BY <1>25, <2>1, BeginRemoval DEF Remove, Removals
<1>26. ASSUME NEW p \in Procs, NEW s \in Sessions, Detach(p, s) PROVE RemovalInv'
  <2>1. <<p, "ui">> \in Thread /\ <<p, "ui">>[2] = "ui" /\ LetGo(<<p, "ui">>, s)
    BY <1>26, ThreadFacts DEF Detach
  <2> QED BY <2>1, LetGoRemoval DEF StoreInv
<1>27. ASSUME NEW p \in Procs, NEW s \in Sessions, NEW c \in Sessions, Fork(p, s, c) PROVE RemovalInv'
  <2>1. \A u \in Thread : (pc'[u] = pc[u] /\ job'[u] = job[u]) \/ RemovalHolds(u)'
    BY <1>27, ThreadFacts DEF Fork, Begin, Enter, NoJob, RemovalInv, RemovalHolds, Removals, RemovalTail, JobInv
  <2>2. UNCHANGED <<owner, index>>
    BY <1>27 DEF Fork, Begin
  <2> QED BY <2>1, <2>2, RemovalFrame
<1>28. ASSUME NEW p \in Procs, TurnWrite(p) PROVE RemovalInv'
  <2>1. <<p, "turn">> \in Thread /\ <<p, "turn">>[1] = p
    BY ThreadFacts
  <2> QED BY <1>28, <2>1, BeginRemoval DEF TurnWrite, Removals, TurnJobs
<1>29. ASSUME NEW p \in Procs, WriteEvents(p) PROVE RemovalInv'
  <2>1. \A u \in Thread : (pc'[u] = pc[u] /\ job'[u] = job[u]) \/ RemovalHolds(u)'
    BY <1>29, ThreadFacts DEF WriteEvents, NoJob, RemovalInv, RemovalHolds, Removals, RemovalTail, JobInv
  <2>2. UNCHANGED <<owner, index>>
    BY <1>29 DEF WriteEvents
  <2> QED BY <2>1, <2>2, RemovalFrame
<1>30. ASSUME NEW p \in Procs, Finish(p) PROVE RemovalInv'
  <2> DEFINE t == <<p, "turn">>
  <2>1. t \in Thread /\ t[1] = p
    BY ThreadFacts
  <2>2. UNCHANGED <<owner, index>>
    BY <1>30 DEF Finish
  <2>3. CASE owner[p][running[p]] = "detaching"
    <3>1. Enter(t, "finish", running[p], None, "release")
      BY <1>30, <2>3 DEF Finish
    <3>2. \A u \in Thread : (pc'[u] = pc[u] /\ job'[u] = job[u]) \/ u = t
      BY <2>1, <3>1 DEF Enter
    <3>3. RemovalHolds(t)'
      BY <2>1, <2>2, <2>3, <3>1 DEF Enter, RemovalHolds, Removals
    <3> QED BY <2>2, <3>2, <3>3, RemovalFrame
  <2>4. CASE UNCHANGED ctl
    BY <2>2, <2>4, RemovalFrame
  <2> QED BY <1>30, <2>3, <2>4 DEF Finish
<1>31. ASSUME NEW p \in Procs, Crash(p) PROVE RemovalInv'
  BY <1>31, ThreadFacts DEF Crash, RemovalInv, RemovalHolds, Removals, RemovalTail, JobInv, NoJob
<1>32. CASE Damage
  <2>1. \A u \in Thread : (pc'[u] = pc[u] /\ job'[u] = job[u]) \/ RemovalHolds(u)'
    BY <1>32, ThreadFacts DEF Damage, NoJob, RemovalInv, RemovalHolds, Removals, RemovalTail, JobInv
  <2>2. UNCHANGED <<owner, index>>
    BY <1>32 DEF Damage
  <2> QED BY <2>1, <2>2, RemovalFrame
<1>33. CASE UNCHANGED vars
  BY <1>33 DEF vars, RemovalInv, RemovalHolds
<1> QED BY <1>1, <1>2, <1>3, <1>4, <1>5, <1>6, <1>7, <1>8, <1>9, <1>10, <1>11, <1>12, <1>13, <1>14, <1>15, <1>16, <1>17, <1>18, <1>19, <1>20, <1>21, <1>22, <1>23, <1>24, <1>25, <1>26, <1>27, <1>28, <1>29, <1>30, <1>31, <1>32, <1>33 DEF Next, Step, Call

\* A step that leaves the index and what processes remember alone, and ends
\* no claim.
MemoStays ==
    /\ UNCHANGED <<listed, pending, index>>
    /\ \A q \in Procs, z \in Sessions : owner[q][z] # "no" => owner'[q][z] # "no"
    /\ \A u \in Thread : (pc'[u] = pc[u] /\ job'[u] = job[u]) \/ (pc[u] # "forget" /\ pc'[u] # "unclaim")

\* Such a step keeps what processes remember true.
LEMMA MemoFrame ==
    ASSUME MemoInv, MemoOK, MemoStays
    PROVE  MemoInv'
<1>1. \A p \in Procs : listed[p] \subseteq Sessions /\ pending[p] \subseteq Sessions
  BY DEF MemoOK
<1>2. \A p \in Procs : Ui(p) \in Thread
  BY ThreadFacts DEF Ui
<1> QED BY <1>1, <1>2 DEF MemoInv, ListedIndexed, MemoStays

\* A call that begins is such a step.
LEMMA BeginMemo ==
    ASSUME StoreInv, MemoInv, NEW t \in Thread, NEW k, NEW s, NEW c, NEW l \in {"own", "lock"},
           Begin(t, k, s, c, l)
    PROVE  MemoInv'
<1> USE DEF StoreInv, TypeOK, CtlOK
<1>1. \A u \in Thread : (pc'[u] = pc[u] /\ job'[u] = job[u]) \/ (pc[u] # "forget" /\ pc'[u] # "unclaim")
  BY DEF Begin, Enter
<1>2. UNCHANGED <<listed, pending, index>> /\ UNCHANGED owner
  BY DEF Begin, memo, disk, claims
<1>3. \A q \in Procs, z \in Sessions : owner[q][z] # "no" => owner'[q][z] # "no"
  BY <1>2
<1>9. MemoStays
  BY <1>1, <1>2, <1>3 DEF MemoStays
<1> QED BY <1>9, MemoFrame

\* So is letting go of a session.
LEMMA LetGoMemo ==
    ASSUME StoreInv, MemoInv, NEW t \in Thread, NEW s \in Sessions, pc[t] # "forget", LetGo(t, s)
    PROVE  MemoInv'
<1> USE DEF StoreInv, TypeOK, CtlOK
<1>1. \A u \in Thread : (pc'[u] = pc[u] /\ job'[u] = job[u]) \/ (pc[u] # "forget" /\ pc'[u] # "unclaim")
  BY DEF LetGo, Return, Enter
<1>2. UNCHANGED <<listed, pending, index>>
  BY DEF LetGo, memo, disk
<1>3. \A q \in Procs, z \in Sessions : owner[q][z] # "no" => owner'[q][z] # "no"
  BY DEF LetGo, ClaimsOK
<1>9. MemoStays
  BY <1>1, <1>2, <1>3 DEF MemoStays
<1> QED BY <1>9, MemoFrame

\* A process that dies remembers nothing.
LEMMA CrashMemo ==
    ASSUME StoreInv, MemoInv, NEW p \in Procs, Crash(p)
    PROVE  MemoInv'
<1>1. /\ \A u \in Thread : u[1] = p => pc'[u] = "idle"
      /\ \A u \in Thread : u[1] # p => pc'[u] = pc[u] /\ job'[u] = job[u]
  BY DEF Crash
<1>2. /\ listed'[p] = {} /\ pending'[p] = {} /\ index' = index
      /\ \A q \in Procs : q # p => listed'[q] = listed[q] /\ pending'[q] = pending[q] /\ owner'[q] = owner[q]
  BY DEF Crash, StoreInv, TypeOK, MemoOK, ClaimsOK, disk
<1>3. \A q \in Procs : Ui(q) \in Thread /\ Ui(q)[1] = q
  BY ThreadFacts DEF Ui
<1>4. \A q \in Procs : \A z \in listed'[q] \cup pending'[q] : owner'[q][z] # "no"
  BY <1>2 DEF MemoInv
<1>5. \A q \in Procs : \A z \in pending'[q] : z \in index' \/ (pc'[Ui(q)] = "forget" /\ job'[Ui(q)].s = z)
  BY <1>1, <1>2, <1>3 DEF MemoInv
<1>6. \A u \in Thread : pc'[u] = "unclaim" => job'[u].s \notin listed'[u[1]] \cup pending'[u[1]]
  <2> SUFFICES ASSUME NEW u \in Thread, pc'[u] = "unclaim"
               PROVE  job'[u].s \notin listed'[u[1]] \cup pending'[u[1]]
    OBVIOUS
  <2>1. u[1] # p /\ u[1] \in Procs
    BY <1>1, ThreadFacts
  <2>2. pc[u] = "unclaim" /\ job'[u] = job[u]
    BY <1>1, <2>1
  <2> QED BY <1>2, <2>1, <2>2 DEF MemoInv
<1>7. ListedIndexed'
  BY <1>2 DEF MemoInv, ListedIndexed
<1> QED BY <1>4, <1>5, <1>6, <1>7 DEF MemoInv

\* Every step keeps what processes remember true.
LEMMA MemoStep == ASSUME StoreInv, ClaimInv, RemovalInv, MemoInv, [Next]_vars PROVE MemoInv'
<1> USE DEF StoreInv, TypeOK, CtlOK, DiskOK, disk, locks, claims, memo, ctl
<1>1. ASSUME NEW t \in Thread, OwnHeld(t) PROVE MemoInv'
  <2>1. \A u \in Thread : (pc'[u] = pc[u] /\ job'[u] = job[u]) \/ (pc[u] # "forget" /\ pc'[u] # "unclaim")
    BY <1>1, ThreadFacts DEF OwnHeld, Claimed, Reactivates, Return, Goto
  <2>2. UNCHANGED <<listed, pending, index>> /\ \A q \in Procs, z \in Sessions : owner[q][z] # "no" => owner'[q][z] # "no"
    BY <1>1 DEF OwnHeld
  <2>9. MemoStays
    BY <2>1, <2>2 DEF MemoStays
  <2> QED BY <2>9, MemoFrame
<1>2. ASSUME NEW t \in Thread, Revalidate(t) PROVE MemoInv'
  <2>1. \A u \in Thread : (pc'[u] = pc[u] /\ job'[u] = job[u]) \/ (pc[u] # "forget" /\ pc'[u] # "unclaim")
    BY <1>2 DEF Revalidate, Claimed, Return
  <2>2. UNCHANGED <<listed, pending, index>> /\ \A q \in Procs, z \in Sessions : owner[q][z] # "no" => owner'[q][z] # "no"
    BY <1>2 DEF Revalidate, ClaimsOK
  <2>9. MemoStays
    BY <2>1, <2>2 DEF MemoStays
  <2> QED BY <2>9, MemoFrame
<1>3. ASSUME NEW t \in Thread, OwnNew(t) PROVE MemoInv'
  <2>1. \A u \in Thread : (pc'[u] = pc[u] /\ job'[u] = job[u]) \/ (pc[u] # "forget" /\ pc'[u] # "unclaim")
    BY <1>3, ThreadFacts DEF OwnNew, Goto
  <2>2. UNCHANGED <<listed, pending, index>> /\ \A q \in Procs, z \in Sessions : owner[q][z] # "no" => owner'[q][z] # "no"
    BY <1>3 DEF OwnNew
  <2>9. MemoStays
    BY <2>1, <2>2 DEF MemoStays
  <2> QED BY <2>9, MemoFrame
<1>4. ASSUME NEW t \in Thread, ClaimStore(t) PROVE MemoInv'
  <2>1. \A u \in Thread : (pc'[u] = pc[u] /\ job'[u] = job[u]) \/ (pc[u] # "forget" /\ pc'[u] # "unclaim")
    BY <1>4, ThreadFacts DEF ClaimStore, TakeStore, Goto
  <2>2. UNCHANGED <<listed, pending, index>> /\ \A q \in Procs, z \in Sessions : owner[q][z] # "no" => owner'[q][z] # "no"
    BY <1>4 DEF ClaimStore
  <2>9. MemoStays
    BY <2>1, <2>2 DEF MemoStays
  <2> QED BY <2>9, MemoFrame
<1>5. ASSUME NEW t \in Thread, OpenLock(t) PROVE MemoInv'
  <2>1. \A u \in Thread : (pc'[u] = pc[u] /\ job'[u] = job[u]) \/ (pc[u] # "forget" /\ pc'[u] # "unclaim")
    BY <1>5, ThreadFacts DEF OpenLock
  <2>2. UNCHANGED <<listed, pending, index>> /\ \A q \in Procs, z \in Sessions : owner[q][z] # "no" => owner'[q][z] # "no"
    BY <1>5 DEF OpenLock
  <2>9. MemoStays
    BY <2>1, <2>2 DEF MemoStays
  <2> QED BY <2>9, MemoFrame
<1>6. ASSUME NEW t \in Thread, TryLock(t) PROVE MemoInv'
  <2>u. \A q \in Procs : Ui(q) \in Thread /\ Ui(q)[1] = q
    BY ThreadFacts DEF Ui
  <2>v. \A q \in Procs : listed[q] \subseteq Sessions /\ pending[q] \subseteq Sessions
    BY DEF MemoOK
  <2>1. \A u \in Thread : u # t => pc'[u] = pc[u] /\ job'[u] = job[u]
    BY <1>6 DEF TryLock, Claimed, Return
  <2>2. pc[t] = "try" /\ pc'[t] \notin {"forget", "unclaim"} /\ index' = index /\ t[1] \in Procs
    BY <1>6, ThreadFacts DEF TryLock, Claimed, Return
  <2>3. PICK F : F \subseteq index \cap {job[t].s} /\ listed' = [listed EXCEPT ![t[1]] = @ \cup F]
                /\ pending' = [pending EXCEPT ![t[1]] = @ \cup F]
    BY <1>6 DEF TryLock
  <2>4. \A q \in Procs : listed'[q] \subseteq listed[q] \cup F /\ pending'[q] \subseteq pending[q] \cup F
                       /\ (q # t[1] => listed'[q] = listed[q] /\ pending'[q] = pending[q])
    BY <2>3 DEF MemoOK
  <2>5. \A q \in Procs, z \in Sessions : owner'[q][z] = IF q = t[1] /\ z = job[t].s THEN "held" ELSE owner[q][z]
    BY <1>6 DEF TryLock, ClaimsOK
  <2>6. \A u \in Thread : u # t /\ pc[u] = "unclaim" => u[1] # t[1]
    BY <1>6, OwnersAlone DEF TryLock, OwnersPCs
  <2>7. ListedIndexed'
    BY <2>2, <2>3, <2>4 DEF MemoInv, ListedIndexed
  <2>8. \A q \in Procs : \A z \in listed'[q] \cup pending'[q] : owner'[q][z] # "no"
    <3> SUFFICES ASSUME NEW q \in Procs, NEW z \in listed'[q] \cup pending'[q] PROVE owner'[q][z] # "no"
      OBVIOUS
    <3>1. CASE z \in listed[q] \cup pending[q]
      BY <2>5, <2>v, <3>1 DEF MemoInv
    <3>2. CASE z \notin listed[q] \cup pending[q]
      BY <2>3, <2>4, <2>5, <3>2
    <3> QED BY <3>1, <3>2
  <2>9. \A q \in Procs : \A z \in pending'[q] : z \in index' \/ (pc'[Ui(q)] = "forget" /\ job'[Ui(q)].s = z)
    BY <2>1, <2>2, <2>3, <2>4, <2>u DEF MemoInv
  <2>10. \A u \in Thread : pc'[u] = "unclaim" => job'[u].s \notin listed'[u[1]] \cup pending'[u[1]]
    BY <2>1, <2>2, <2>4, <2>6, ThreadFacts DEF MemoInv
  <2> QED BY <2>7, <2>8, <2>9, <2>10 DEF MemoInv
<1>7. ASSUME NEW t \in Thread, ClaimRefused(t) PROVE MemoInv'
  <2>1. \A u \in Thread : (pc'[u] = pc[u] /\ job'[u] = job[u]) \/ (pc[u] # "forget" /\ pc'[u] # "unclaim")
    BY <1>7, ThreadFacts DEF ClaimRefused, Return, FreeStore, FreeOwners
  <2>2. UNCHANGED <<listed, pending, index>> /\ \A q \in Procs, z \in Sessions : owner[q][z] # "no" => owner'[q][z] # "no"
    BY <1>7 DEF ClaimRefused
  <2>9. MemoStays
    BY <2>1, <2>2 DEF MemoStays
  <2> QED BY <2>9, MemoFrame
<1>8. ASSUME NEW t \in Thread, LockStore(t) PROVE MemoInv'
  <2>1. \A u \in Thread : (pc'[u] = pc[u] /\ job'[u] = job[u]) \/ (pc[u] # "forget" /\ pc'[u] # "unclaim")
    BY <1>8, ThreadFacts DEF LockStore, TakeStore, Goto
  <2>2. UNCHANGED <<listed, pending, index>> /\ \A q \in Procs, z \in Sessions : owner[q][z] # "no" => owner'[q][z] # "no"
    BY <1>8 DEF LockStore
  <2>9. MemoStays
    BY <2>1, <2>2 DEF MemoStays
  <2> QED BY <2>9, MemoFrame
<1>9. ASSUME NEW t \in Thread, Read(t) PROVE MemoInv'
  <2>1. \A u \in Thread : (pc'[u] = pc[u] /\ job'[u] = job[u]) \/ (pc[u] # "forget" /\ pc'[u] # "unclaim")
    BY <1>9, ThreadFacts DEF Read, EndStore, Return, FreeStore
  <2>2. UNCHANGED <<listed, pending, index>> /\ \A q \in Procs, z \in Sessions : owner[q][z] # "no" => owner'[q][z] # "no"
    BY <1>9 DEF Read
  <2>9. MemoStays
    BY <2>1, <2>2 DEF MemoStays
  <2> QED BY <2>9, MemoFrame
<1>10. ASSUME NEW t \in Thread, WriteChild(t) PROVE MemoInv'
  <2>1. \A u \in Thread : (pc'[u] = pc[u] /\ job'[u] = job[u]) \/ (pc[u] # "forget" /\ pc'[u] # "unclaim")
    BY <1>10, ThreadFacts DEF WriteChild, EndStore, Return, FreeStore, Goto
  <2>2. UNCHANGED <<listed, pending, index>> /\ \A q \in Procs, z \in Sessions : owner[q][z] # "no" => owner'[q][z] # "no"
    BY <1>10 DEF WriteChild
  <2>9. MemoStays
    BY <2>1, <2>2 DEF MemoStays
  <2> QED BY <2>9, MemoFrame
<1>11. ASSUME NEW t \in Thread, WriteIndex(t) PROVE MemoInv'
  <2>u. \A q \in Procs : Ui(q) \in Thread /\ Ui(q)[1] = q
    BY ThreadFacts DEF Ui
  <2>v. \A q \in Procs : listed[q] \subseteq Sessions /\ pending[q] \subseteq Sessions
    BY DEF MemoOK
  <2>1. \A u \in Thread : u # t => pc'[u] = pc[u] /\ job'[u] = job[u] /\ pc[u] # "forget"
    BY <1>11 DEF WriteIndex, EndStore, Return, Goto, LockInv, StorePCs
  <2>2. pc[t] = "write" /\ pc'[t] # "unclaim" /\ UNCHANGED <<owner, pending>> /\ snap[t] = index /\ t[1] \in Procs
    BY <1>11, ThreadFacts DEF WriteIndex, EndStore, Return, Goto, SnapInv
  <2>3. CASE job[t].kind \in Removals
    <3> DEFINE s == job[t].s
    <3>1. /\ index' = index \ {s} /\ listed' = [listed EXCEPT ![t[1]] = @ \ {s}]
          /\ pc'[t] = "forget" /\ job'[t] = job[t] /\ t = Ui(t[1]) /\ s \in Sessions
      BY <1>11, <2>2, <2>3, CtlFacts, ThreadFacts DEF WriteIndex, Written, Goto, JobInv, UiJobs, Removals, Ui
    <3>2. s \in index => \A q \in Procs : owner[q][s] # "no" => q = t[1]
      <4>1. owner[t[1]][s] = "held"
        BY <2>2, <2>3, <3>1 DEF RemovalInv, RemovalHolds
      <4>2. s \in index => \A q \in Procs : owner[q][s] # "no" => lockOf[q][s] = "linked"
        BY <3>1 DEF ClaimInv, ClaimLocks, ClaimsOK
      <4> QED BY <2>2, <3>1, <4>1, <4>2 DEF ClaimInv, ClaimLocks
    <3>3. \A q \in Procs : listed'[q] = listed[q] \ (IF q = t[1] THEN {s} ELSE {})
      BY <3>1 DEF MemoOK
    <3>4. ListedIndexed'
      BY <2>2, <3>1, <3>2, <3>3, <2>v DEF MemoInv, ListedIndexed
    <3>5. \A q \in Procs : \A z \in pending'[q] : z \in index' \/ (pc'[Ui(q)] = "forget" /\ job'[Ui(q)].s = z)
      <4> SUFFICES ASSUME NEW q \in Procs, NEW z \in pending[q]
                   PROVE  z \in index' \/ (pc'[Ui(q)] = "forget" /\ job'[Ui(q)].s = z)
        BY <2>2
      <4>1. CASE z # s
        BY <2>1, <2>2, <2>u, <3>1, <4>1 DEF MemoInv
      <4>2. CASE z = s
        <5>1. z \in index \/ q = t[1]
          BY <2>1, <2>2, <2>u, <3>1 DEF MemoInv
        <5>2. q = t[1]
          BY <3>2, <4>2, <5>1 DEF MemoInv
        <5> QED BY <3>1, <4>2, <5>2
      <4> QED BY <4>1, <4>2
    <3>6. \A q \in Procs : \A z \in listed'[q] \cup pending'[q] : owner'[q][z] # "no"
      BY <2>2, <3>3 DEF MemoInv
    <3>7. \A u \in Thread : pc'[u] = "unclaim" => job'[u].s \notin listed'[u[1]] \cup pending'[u[1]]
      BY <2>1, <2>2, <3>3, ThreadFacts DEF MemoInv
    <3> QED BY <3>4, <3>5, <3>6, <3>7 DEF MemoInv
  <2>4. CASE job[t].kind \notin Removals
    <3>1. index \subseteq index' /\ listed' = listed
      BY <1>11, <2>2, <2>4 DEF WriteIndex, Written
    <3>2. ListedIndexed'
      BY <3>1 DEF MemoInv, ListedIndexed
    <3>3. \A q \in Procs : \A z \in pending'[q] : z \in index' \/ (pc'[Ui(q)] = "forget" /\ job'[Ui(q)].s = z)
      BY <2>1, <2>2, <2>u, <3>1 DEF MemoInv
    <3>4. \A u \in Thread : pc'[u] = "unclaim" => job'[u].s \notin listed'[u[1]] \cup pending'[u[1]]
      BY <2>1, <2>2, <3>1 DEF MemoInv
    <3> QED BY <2>2, <3>1, <3>2, <3>3, <3>4 DEF MemoInv
  <2> QED BY <2>3, <2>4
<1>12. ASSUME NEW t \in Thread, WriteIndexFails(t) PROVE MemoInv'
  <2>1. \A u \in Thread : (pc'[u] = pc[u] /\ job'[u] = job[u]) \/ (pc[u] # "forget" /\ pc'[u] # "unclaim")
    BY <1>12, ThreadFacts DEF WriteIndexFails, EndStore, Return, FreeStore
  <2>2. UNCHANGED <<listed, pending, index>> /\ \A q \in Procs, z \in Sessions : owner[q][z] # "no" => owner'[q][z] # "no"
    BY <1>12 DEF WriteIndexFails
  <2>9. MemoStays
    BY <2>1, <2>2 DEF MemoStays
  <2> QED BY <2>9, MemoFrame
<1>13. ASSUME NEW t \in Thread, Forget(t) PROVE MemoInv'
  <2>u. \A q \in Procs : Ui(q) \in Thread /\ Ui(q)[1] = q
    BY ThreadFacts DEF Ui
  <2>v. \A q \in Procs : listed[q] \subseteq Sessions /\ pending[q] \subseteq Sessions
    BY DEF MemoOK
  <2>1. \A u \in Thread : u # t => pc'[u] = pc[u] /\ job'[u] = job[u] /\ pc[u] # "forget"
    BY <1>13 DEF Forget, Goto, LockInv, StorePCs
  <2>2. /\ pc[t] = "forget" /\ pc'[t] = "erase" /\ job'[t] = job[t] /\ UNCHANGED <<owner, listed, index>>
        /\ t[2] = "ui" /\ t = Ui(t[1]) /\ t[1] \in Procs
    BY <1>13, ThreadFacts DEF Forget, Goto, JobInv, RemovalTail, Removals, UiJobs, Ui
  <2>3. \A q \in Procs : pending'[q] = pending[q] \ (IF q = t[1] THEN {job[t].s} ELSE {})
    BY <1>13 DEF Forget, MemoOK
  <2>4. \A q \in Procs : \A z \in pending'[q] : z \in index' \/ (pc'[Ui(q)] = "forget" /\ job'[Ui(q)].s = z)
    BY <2>1, <2>2, <2>3, <2>u DEF MemoInv
  <2>5. \A u \in Thread : pc'[u] = "unclaim" => job'[u].s \notin listed'[u[1]] \cup pending'[u[1]]
    BY <2>1, <2>2, <2>3, ThreadFacts DEF MemoInv
  <2> QED BY <2>2, <2>3, <2>4, <2>5 DEF MemoInv, ListedIndexed
<1>14. ASSUME NEW t \in Thread, Erase(t) PROVE MemoInv'
  <2>1. \A u \in Thread : (pc'[u] = pc[u] /\ job'[u] = job[u]) \/ (pc[u] # "forget" /\ pc'[u] # "unclaim")
    BY <1>14, ThreadFacts DEF Erase, Goto
  <2>2. UNCHANGED <<listed, pending, index>> /\ \A q \in Procs, z \in Sessions : owner[q][z] # "no" => owner'[q][z] # "no"
    BY <1>14 DEF Erase
  <2>9. MemoStays
    BY <2>1, <2>2 DEF MemoStays
  <2> QED BY <2>9, MemoFrame
<1>15. ASSUME NEW t \in Thread, Unlink(t) PROVE MemoInv'
  <2>1. \A u \in Thread : (pc'[u] = pc[u] /\ job'[u] = job[u]) \/ (pc[u] # "forget" /\ pc'[u] # "unclaim")
    BY <1>15, ThreadFacts DEF Unlink, FreeStore, Orphaned
  <2>2. UNCHANGED <<listed, pending, index>> /\ \A q \in Procs, z \in Sessions : owner[q][z] # "no" => owner'[q][z] # "no"
    BY <1>15 DEF Unlink
  <2>9. MemoStays
    BY <2>1, <2>2 DEF MemoStays
  <2> QED BY <2>9, MemoFrame
<1>16. ASSUME NEW t \in Thread, Leave(t) PROVE MemoInv'
  <2>1. CASE LetGo(t, job[t].s)
    <3>1. job[t].s \in Sessions
      BY <1>16, CtlFacts DEF Leave, JobInv, RemovalTail
    <3> QED BY <1>16, <2>1, <3>1, LetGoMemo DEF Leave
  <2>2. CASE Return(t) /\ UNCHANGED <<disk, locks, claims, memo, running, used, known, crashes>>
    <3>1. \A u \in Thread : (pc'[u] = pc[u] /\ job'[u] = job[u]) \/ (pc[u] # "forget" /\ pc'[u] # "unclaim")
      BY <1>16, <2>2 DEF Leave, Return
    <3>2. UNCHANGED <<listed, pending, index>> /\ \A q \in Procs, z \in Sessions : owner[q][z] # "no" => owner'[q][z] # "no"
      BY <2>2
    <3>9. MemoStays
      BY <3>1, <3>2 DEF MemoStays
    <3> QED BY <3>9, MemoFrame
  <2> QED BY <1>16, <2>1, <2>2 DEF Leave
<1>17. ASSUME NEW t \in Thread, Save(t) PROVE MemoInv'
  <2>1. \A u \in Thread : (pc'[u] = pc[u] /\ job'[u] = job[u]) \/ (pc[u] # "forget" /\ pc'[u] # "unclaim")
    BY <1>17, ThreadFacts DEF Save, EndStore, Return, FreeStore
  <2>2. UNCHANGED <<listed, pending, index>> /\ \A q \in Procs, z \in Sessions : owner[q][z] # "no" => owner'[q][z] # "no"
    BY <1>17 DEF Save
  <2>9. MemoStays
    BY <2>1, <2>2 DEF MemoStays
  <2> QED BY <2>9, MemoFrame
<1>18. ASSUME NEW t \in Thread, LockMemo(t) PROVE MemoInv'
  <2>1. \A u \in Thread : (pc'[u] = pc[u] /\ job'[u] = job[u]) \/ (pc[u] # "forget" /\ pc'[u] # "unclaim")
    BY <1>18, ThreadFacts DEF LockMemo, Goto
  <2>2. UNCHANGED <<listed, pending, index>> /\ \A q \in Procs, z \in Sessions : owner[q][z] # "no" => owner'[q][z] # "no"
    BY <1>18 DEF LockMemo
  <2>9. MemoStays
    BY <2>1, <2>2 DEF MemoStays
  <2> QED BY <2>9, MemoFrame
<1>19. ASSUME NEW t \in Thread, CheckSidecar(t) PROVE MemoInv'
  <2>1. \A u \in Thread : (pc'[u] = pc[u] /\ job'[u] = job[u]) \/ (pc[u] # "forget" /\ pc'[u] # "unclaim")
    BY <1>19, ThreadFacts DEF CheckSidecar, EndMemo, Return, Goto, Indexed
  <2>2. UNCHANGED <<listed, pending, index>> /\ \A q \in Procs, z \in Sessions : owner[q][z] # "no" => owner'[q][z] # "no"
    BY <1>19 DEF CheckSidecar
  <2>9. MemoStays
    BY <2>1, <2>2 DEF MemoStays
  <2> QED BY <2>9, MemoFrame
<1>20. ASSUME NEW t \in Thread, PutSidecar(t) PROVE MemoInv'
  <2>1. \A u \in Thread : (pc'[u] = pc[u] /\ job'[u] = job[u]) \/ (pc[u] # "forget" /\ pc'[u] # "unclaim")
    BY <1>20, ThreadFacts DEF PutSidecar, EndMemo, Return
  <2>2. UNCHANGED <<listed, pending, index>> /\ \A q \in Procs, z \in Sessions : owner[q][z] # "no" => owner'[q][z] # "no"
    BY <1>20 DEF PutSidecar
  <2>9. MemoStays
    BY <2>1, <2>2 DEF MemoStays
  <2> QED BY <2>9, MemoFrame
<1>21. ASSUME NEW t \in Thread, Disown(t) PROVE MemoInv'
  <2>u. \A q \in Procs : Ui(q) \in Thread /\ Ui(q)[1] = q
    BY ThreadFacts DEF Ui
  <2>v. \A q \in Procs : listed[q] \subseteq Sessions /\ pending[q] \subseteq Sessions
    BY DEF MemoOK
  <2>1. \A u \in Thread : u # t => pc'[u] = pc[u] /\ job'[u] = job[u]
    BY <1>21 DEF Disown, Goto
  <2>2. /\ pc[t] = "release" /\ pc'[t] = "unclaim" /\ job'[t] = job[t] /\ UNCHANGED <<owner, index>>
        /\ t[1] \in Procs
    BY <1>21, ThreadFacts DEF Disown, Goto
  <2>3. \A q \in Procs : /\ pending'[q] = pending[q] \ (IF q = t[1] THEN {job[t].s} ELSE {})
                        /\ listed'[q] = listed[q] \ (IF q = t[1] THEN {job[t].s} ELSE {})
    BY <1>21 DEF Disown, MemoOK
  <2>4. \A q \in Procs : \A z \in pending'[q] : z \in index' \/ (pc'[Ui(q)] = "forget" /\ job'[Ui(q)].s = z)
    BY <2>1, <2>2, <2>3, <2>u DEF MemoInv
  <2>5. \A u \in Thread : pc'[u] = "unclaim" => job'[u].s \notin listed'[u[1]] \cup pending'[u[1]]
    BY <2>1, <2>2, <2>3, ThreadFacts DEF MemoInv
  <2> QED BY <2>2, <2>3, <2>4, <2>5 DEF MemoInv, ListedIndexed
<1>22. ASSUME NEW t \in Thread, Unclaim(t) PROVE MemoInv'
  <2>u. \A q \in Procs : Ui(q) \in Thread /\ Ui(q)[1] = q
    BY ThreadFacts DEF Ui
  <2>v. \A q \in Procs : listed[q] \subseteq Sessions /\ pending[q] \subseteq Sessions
    BY DEF MemoOK
  <2>1. \A u \in Thread : u # t => pc'[u] = pc[u] /\ job'[u] = job[u]
    BY <1>22 DEF Unclaim, Return
  <2>2. /\ pc[t] = "unclaim" /\ pc'[t] = "idle" /\ UNCHANGED <<listed, pending, index>> /\ t[1] \in Procs
    BY <1>22, ThreadFacts DEF Unclaim, Return
  <2>3. \A q \in Procs, z \in Sessions : owner'[q][z] = IF q = t[1] /\ z = job[t].s THEN "no" ELSE owner[q][z]
    BY <1>22 DEF Unclaim, ClaimsOK
  <2>4. job[t].s \notin listed[t[1]] \cup pending[t[1]]
    BY <2>2 DEF MemoInv
  <2>5. \A q \in Procs : \A z \in listed'[q] \cup pending'[q] : owner'[q][z] # "no"
    BY <2>2, <2>3, <2>4, <2>v DEF MemoInv
  <2>6. \A q \in Procs : \A z \in pending'[q] : z \in index' \/ (pc'[Ui(q)] = "forget" /\ job'[Ui(q)].s = z)
    BY <2>1, <2>2, <2>u DEF MemoInv
  <2>7. \A u \in Thread : pc'[u] = "unclaim" => job'[u].s \notin listed'[u[1]] \cup pending'[u[1]]
    BY <2>1, <2>2 DEF MemoInv
  <2> QED BY <2>2, <2>5, <2>6, <2>7 DEF MemoInv, ListedIndexed
<1>23. ASSUME NEW p \in Procs, NEW s \in Sessions, Attach(p, s) PROVE MemoInv'
  <2>1. <<p, "ui">> \in Thread
    BY ThreadFacts
  <2> QED BY <1>23, <2>1, BeginMemo DEF Attach
<1>24. ASSUME NEW p \in Procs, NEW s \in Sessions, Create(p, s) PROVE MemoInv'
  <2>1. <<p, "ui">> \in Thread
    BY ThreadFacts
  <2> QED BY <1>24, <2>1, BeginMemo DEF Create
<1>25. ASSUME NEW p \in Procs, NEW s \in Sessions, Remove(p, s) PROVE MemoInv'
  <2>1. <<p, "ui">> \in Thread
    BY ThreadFacts
  <2> QED BY <1>25, <2>1, BeginMemo DEF Remove
<1>26. ASSUME NEW p \in Procs, NEW s \in Sessions, Detach(p, s) PROVE MemoInv'
  <2>1. <<p, "ui">> \in Thread /\ pc[<<p, "ui">>] = "idle" /\ LetGo(<<p, "ui">>, s)
    BY <1>26, ThreadFacts DEF Detach
  <2> QED BY <2>1, LetGoMemo
<1>27. ASSUME NEW p \in Procs, NEW s \in Sessions, NEW c \in Sessions, Fork(p, s, c) PROVE MemoInv'
  <2>1. <<p, "ui">> \in Thread
    BY ThreadFacts
  <2> QED BY <1>27, <2>1, BeginMemo DEF Fork
<1>28. ASSUME NEW p \in Procs, TurnWrite(p) PROVE MemoInv'
  <2>1. <<p, "turn">> \in Thread
    BY ThreadFacts
  <2> QED BY <1>28, <2>1, BeginMemo DEF TurnWrite
<1>29. ASSUME NEW p \in Procs, WriteEvents(p) PROVE MemoInv'
  <2>1. \A u \in Thread : (pc'[u] = pc[u] /\ job'[u] = job[u]) \/ (pc[u] # "forget" /\ pc'[u] # "unclaim")
    BY <1>29, ThreadFacts DEF WriteEvents
  <2>2. UNCHANGED <<listed, pending, index>> /\ \A q \in Procs, z \in Sessions : owner[q][z] # "no" => owner'[q][z] # "no"
    BY <1>29 DEF WriteEvents
  <2>9. MemoStays
    BY <2>1, <2>2 DEF MemoStays
  <2> QED BY <2>9, MemoFrame
<1>30. ASSUME NEW p \in Procs, Finish(p) PROVE MemoInv'
  <2> DEFINE t == <<p, "turn">>
  <2>1. t \in Thread /\ t[1] = p
    BY ThreadFacts
  <2>2. (Enter(t, "finish", running[p], None, "release") /\ pc[t] = "idle") \/ UNCHANGED ctl
    BY <1>30 DEF Finish
  <2>3. \A u \in Thread : (pc'[u] = pc[u] /\ job'[u] = job[u]) \/ (pc[u] # "forget" /\ pc'[u] # "unclaim")
    BY <2>1, <2>2 DEF Enter
  <2>4. UNCHANGED <<listed, pending, index>> /\ \A q \in Procs, z \in Sessions : owner[q][z] # "no" => owner'[q][z] # "no"
    BY <1>30 DEF Finish
  <2>9. MemoStays
    BY <2>3, <2>4 DEF MemoStays
  <2> QED BY <2>9, MemoFrame
<1>31. ASSUME NEW p \in Procs, Crash(p) PROVE MemoInv'
  BY <1>31, CrashMemo
<1>32. CASE Damage
  <2>1. \A u \in Thread : (pc'[u] = pc[u] /\ job'[u] = job[u]) \/ (pc[u] # "forget" /\ pc'[u] # "unclaim")
    BY <1>32, ThreadFacts DEF Damage
  <2>2. UNCHANGED <<listed, pending, index>> /\ \A q \in Procs, z \in Sessions : owner[q][z] # "no" => owner'[q][z] # "no"
    BY <1>32 DEF Damage
  <2>9. MemoStays
    BY <2>1, <2>2 DEF MemoStays
  <2> QED BY <2>9, MemoFrame
<1>33. CASE UNCHANGED vars
  BY <1>33 DEF vars, MemoInv, ListedIndexed
<1> QED BY <1>1, <1>2, <1>3, <1>4, <1>5, <1>6, <1>7, <1>8, <1>9, <1>10, <1>11, <1>12, <1>13, <1>14, <1>15, <1>16, <1>17, <1>18, <1>19, <1>20, <1>21, <1>22, <1>23, <1>24, <1>25, <1>26, <1>27, <1>28, <1>29, <1>30, <1>31, <1>32, <1>33 DEF Next, Step, Call

\* A step that begins no turn, ends no claim and keeps the index.
TurnStays ==
    /\ running' = running
    /\ index \subseteq index'
    /\ \A q \in Procs, z \in Sessions : owner[q][z] # "no" => owner'[q][z] # "no"
    /\ \A u \in Thread :
        \/ pc'[u] = pc[u] /\ job'[u] = job[u]
        \/ job'[u].kind \notin TurnJobs \cup {"start", "detach"}
        \/ /\ job'[u] = job[u]
           /\ pc'[u] # "put" /\ (pc'[u] \in Writing => pc[u] \in Writing)
        \/ TurnHolds(u)'

\* Such a step keeps what turns hold.
LEMMA TurnFrame ==
    ASSUME TurnInv, CtlOK, TurnStays
    PROVE  TurnInv'
<1> SUFFICES ASSUME NEW u \in Thread PROVE TurnHolds(u)'
  BY DEF TurnInv
<1>1. TurnHolds(u) /\ u[1] \in Procs
  BY ThreadFacts DEF TurnInv
<1>2. job[u].kind \in TurnJobs => job[u].s \in Sessions
  BY DEF CtlOK, Job, TurnJobs
<1>3. CASE pc'[u] = pc[u] /\ job'[u] = job[u]
  BY <1>1, <1>2, <1>3 DEF TurnStays, TurnHolds
<1>4. CASE job'[u].kind \notin TurnJobs \cup {"start", "detach"}
  BY <1>4 DEF TurnHolds
<1>5. CASE job'[u] = job[u] /\ pc'[u] # "put" /\ (pc'[u] \in Writing => pc[u] \in Writing)
  BY <1>1, <1>2, <1>5 DEF TurnStays, TurnHolds
<1> QED BY <1>3, <1>4, <1>5 DEF TurnStays

\* A call that begins is such a step.
LEMMA BeginTurn ==
    ASSUME StoreInv, TurnInv, NEW t \in Thread, NEW k, NEW s, NEW c, NEW l \in {"own", "lock"},
           k \in TurnJobs => s = running[t[1]] /\ l = "own",
           k = "start" => running[t[1]] = None, k # "detach",
           Begin(t, k, s, c, l)
    PROVE  TurnInv'
<1>1. \A u \in Thread : u # t => pc'[u] = pc[u] /\ job'[u] = job[u]
  BY DEF Begin, Enter, StoreInv, TypeOK, CtlOK
<1>2. pc'[t] = l /\ job'[t] = [kind |-> k, s |-> s, c |-> c]
  BY DEF Begin, Enter, StoreInv, TypeOK, CtlOK
<1>3. running' = running /\ index' = index /\ owner' = owner
  BY DEF Begin, disk, claims
<1>4. TurnHolds(t)'
  BY <1>2, <1>3 DEF TurnHolds, TurnJobs, Writing
<1>5. TurnStays
  BY <1>1, <1>3, <1>4 DEF TurnStays
<1> QED BY <1>5, TurnFrame DEF StoreInv, TypeOK

\* So is letting go of a session, which a running turn prevents.
LEMMA LetGoTurn ==
    ASSUME StoreInv, TurnInv, NEW t \in Thread, NEW s \in Sessions, LetGo(t, s)
    PROVE  TurnInv'
<1> USE DEF StoreInv, TypeOK, CtlOK
<1>1. \A u \in Thread : u # t => pc'[u] = pc[u] /\ job'[u] = job[u]
  BY DEF LetGo, Return, Enter
<1>2. running' = running /\ index' = index
  BY DEF LetGo, disk
<1>3. \A q \in Procs, z \in Sessions : owner[q][z] # "no" => owner'[q][z] # "no"
  <2>1. CASE running[t[1]] = s
    <3>1. owner' = [owner EXCEPT ![t[1]][s] = IF @ = "no" THEN @ ELSE "detaching"]
      BY <2>1 DEF LetGo
    <3> QED BY <3>1, ThreadFacts DEF ClaimsOK
  <2>2. CASE running[t[1]] # s
    BY <2>2 DEF LetGo
  <2> QED BY <2>1, <2>2
<1>4. TurnHolds(t)'
  <2>1. CASE running[t[1]] = s
    BY <2>1 DEF LetGo, Return, NoJob, TurnHolds, TurnJobs
  <2>2. CASE running[t[1]] # s
    BY <1>2, <2>2 DEF LetGo, Enter, TurnHolds, TurnJobs
  <2> QED BY <2>1, <2>2
<1>5. TurnStays
  BY <1>1, <1>2, <1>3, <1>4 DEF TurnStays
<1> QED BY <1>5, TurnFrame

\* A process's other thread has no part in the start of a turn.
LEMMA StartTurn ==
    ASSUME StoreInv, TurnInv, NEW t \in Thread, job[t].kind = "start", job'[t] = NoJob,
           running' = [running EXCEPT ![t[1]] = job[t].s], UNCHANGED index,
           \A q \in Procs, z \in Sessions : owner[q][z] # "no" => owner'[q][z] # "no",
           \A u \in Thread : u # t => pc'[u] = pc[u] /\ job'[u] = job[u]
    PROVE  TurnInv'
<1> SUFFICES ASSUME NEW u \in Thread PROVE TurnHolds(u)'
  BY DEF TurnInv
<1>1. TurnHolds(u) /\ TurnHolds(t) /\ u[1] \in Procs /\ t[1] \in Procs
  BY ThreadFacts DEF TurnInv
<1>2. job[u].kind \in TurnJobs => job[u].s \in Sessions
  BY DEF StoreInv, TypeOK, CtlOK, Job, TurnJobs
<1>3. CASE u = t
  BY <1>3 DEF TurnHolds, NoJob, TurnJobs
<1>4. CASE u # t /\ u[1] # t[1]
  <2>1. running'[u[1]] = running[u[1]]
    BY <1>1, <1>4 DEF StoreInv, TypeOK, ClaimsOK
  <2> QED BY <1>1, <1>2, <1>4, <2>1 DEF TurnHolds
<1>5. CASE u # t /\ u[1] = t[1]
  <2>1. job[u].kind \notin UiJobs
    BY <1>5, OtherThread DEF StoreInv, UiJobs
  <2>2. job[u].kind \notin TurnJobs
    BY <1>1, <1>2, <1>5, ThreadFacts DEF TurnHolds
  <2>3. job'[u].kind \notin TurnJobs \cup {"start", "detach"}
    BY <1>5, <2>1, <2>2 DEF UiJobs
  <2> QED BY <2>3 DEF TurnHolds
<1> QED BY <1>3, <1>4, <1>5

\* A process that dies has no turn.
LEMMA CrashTurn ==
    ASSUME StoreInv, TurnInv, NEW p \in Procs, Crash(p)
    PROVE  TurnInv'
<1> SUFFICES ASSUME NEW u \in Thread PROVE TurnHolds(u)'
  BY DEF TurnInv
<1>1. TurnHolds(u) /\ u[1] \in Procs
  BY ThreadFacts DEF TurnInv
<1>2. CASE u[1] = p
  BY <1>2 DEF Crash, TurnHolds, NoJob, TurnJobs
<1>3. CASE u[1] # p
  <2>1. /\ pc'[u] = pc[u] /\ job'[u] = job[u] /\ index' = index
        /\ running'[u[1]] = running[u[1]] /\ owner'[u[1]] = owner[u[1]]
    BY <1>1, <1>3 DEF Crash, StoreInv, TypeOK, ClaimsOK, disk
  <2> QED BY <1>1, <2>1 DEF TurnHolds
<1> QED BY <1>2, <1>3

\* A turn that settles writes no more.
LEMMA FinishTurn ==
    ASSUME StoreInv, TurnInv, NEW p \in Procs, Finish(p)
    PROVE  TurnInv'
<1> SUFFICES ASSUME NEW u \in Thread PROVE TurnHolds(u)'
  BY DEF TurnInv
<1> DEFINE t == <<p, "turn">>
<1>1. TurnHolds(u) /\ u[1] \in Procs /\ t \in Thread /\ t[1] = p /\ t[2] = "turn"
  BY ThreadFacts DEF TurnInv
<1>2. /\ running' = [running EXCEPT ![p] = None] /\ index' = index /\ owner' = owner
      /\ Enter(t, "finish", running[p], None, "release") \/ UNCHANGED ctl
      /\ job[t].kind = "none"
  BY <1>1 DEF Finish, claims, StoreInv, JobInv
<1>3. \A v \in Thread : v # t => pc'[v] = pc[v] /\ job'[v] = job[v]
  BY <1>1, <1>2 DEF Enter, ctl, StoreInv, TypeOK, CtlOK
<1>4. CASE u = t
  <2>1. job'[t].kind \in {"none", "finish"}
    BY <1>1, <1>2 DEF Enter, ctl, StoreInv, TypeOK, CtlOK
  <2> QED BY <1>4, <2>1 DEF TurnHolds, TurnJobs
<1>5. CASE u # t /\ u[1] # p
  <2>1. running'[u[1]] = running[u[1]]
    BY <1>1, <1>2, <1>5 DEF StoreInv, TypeOK, ClaimsOK
  <2> QED BY <1>1, <1>2, <1>3, <1>5, <2>1 DEF TurnHolds
<1>6. CASE u # t /\ u[1] = p
  <2>1. u[2] # "turn"
    BY <1>1, <1>6, ThreadFacts
  <2>2. job[u].kind \notin TurnJobs
    BY <2>1 DEF StoreInv, JobInv
  <2>3. job[u].kind = "detach" => job[u].s # None
    BY ThreadFacts DEF StoreInv, IdInv, JobIds, TypeOK
  <2>4. running'[p] = None /\ job'[u] = job[u]
    BY <1>2, <1>3, <1>6 DEF StoreInv, TypeOK, ClaimsOK
  <2> QED BY <1>6, <2>2, <2>3, <2>4 DEF TurnHolds
<1> QED BY <1>4, <1>5, <1>6

\* Every step keeps what turns hold.
LEMMA TurnStep == ASSUME StoreInv, ClaimInv, RemovalInv, MemoInv, TurnInv, [Next]_vars PROVE TurnInv'
<1>1. ASSUME NEW t \in Thread, OwnHeld(t) PROVE TurnInv'
  <2>1. \A u \in Thread : u # t => pc'[u] = pc[u] /\ job'[u] = job[u]
    BY <1>1 DEF OwnHeld, Claimed, Return, Goto, StoreInv, TypeOK, CtlOK
  <2>2. running' = running /\ index' = index /\ owner' = owner
    BY <1>1 DEF OwnHeld, Claimed, Reactivates, disk, claims
  <2>3. TurnHolds(t) /\ owner[t[1]][job[t].s] # "no"
    BY <1>1 DEF OwnHeld, TurnInv
  <2>4. job'[t] \in {job[t], NoJob} /\ pc'[t] # "put"
    BY <1>1 DEF OwnHeld, Claimed, Return, Goto, StoreInv, TypeOK, CtlOK
  <2>5. TurnHolds(t)'
    BY <2>2, <2>3, <2>4 DEF TurnHolds, NoJob, TurnJobs
  <2>6. TurnStays
    BY <2>1, <2>2, <2>5 DEF TurnStays
  <2> QED BY <2>6, TurnFrame DEF StoreInv, TypeOK
<1>2. ASSUME NEW t \in Thread, Revalidate(t) PROVE TurnInv'
  <2>1. \A u \in Thread : u # t => pc'[u] = pc[u] /\ job'[u] = job[u]
    BY <1>2 DEF Revalidate, Claimed, Return, StoreInv, TypeOK, CtlOK
  <2>2. /\ index' = index
        /\ \A q \in Procs, z \in Sessions : owner[q][z] # "no" => owner'[q][z] # "no"
    BY <1>2, SMTT(40) DEF Revalidate, disk, StoreInv, TypeOK, ClaimsOK
  <2>3. pc[t] = "again" /\ job[t].kind \in {"attach", "start"}
    BY <1>2 DEF Revalidate, StoreInv, JobInv
  <2>4. job'[t] = NoJob
    BY <1>2, <2>3 DEF Revalidate, Claimed, Reactivates, Return, StoreInv, TypeOK, CtlOK
  <2>5. CASE running' = running
    <3>1. job'[t].kind \notin TurnJobs \cup {"start", "detach"}
      BY <2>4 DEF NoJob, TurnJobs
    <3>2. TurnStays
      BY <2>1, <2>2, <2>5, <3>1 DEF TurnStays
    <3> QED BY <3>2, TurnFrame DEF StoreInv, TypeOK
  <2>6. CASE running' # running
    <3>1. job[t].kind = "start" /\ running' = [running EXCEPT ![t[1]] = job[t].s]
      BY <1>2, <2>6 DEF Revalidate, Claimed
    <3> QED BY <2>1, <2>2, <2>4, <3>1, StartTurn
  <2> QED BY <2>5, <2>6
<1>3. ASSUME NEW t \in Thread, OwnNew(t) PROVE TurnInv'
  <2>1. \A u \in Thread : u # t => pc'[u] = pc[u] /\ job'[u] = job[u]
    BY <1>3 DEF StoreInv, TypeOK, CtlOK, disk, claims, JobInv, OwnNew, Goto
  <2>2. job'[t] = job[t] /\ pc'[t] # "put" /\ (pc'[t] \in Writing => pc[t] \in Writing)
    BY <1>3, ThreadFacts DEF StoreInv, TypeOK, CtlOK, disk, claims, JobInv, OwnNew, Goto, Writing
  <2>3. running' = running /\ index' = index /\ owner' = owner
    BY <1>3 DEF StoreInv, TypeOK, CtlOK, disk, claims, JobInv, OwnNew, Goto
  <2>4. TurnStays
    BY <2>1, <2>2, <2>3 DEF TurnStays, Writing, NoJob, TurnJobs, Removals
  <2> QED BY <2>4, TurnFrame DEF StoreInv, TypeOK
<1>4. ASSUME NEW t \in Thread, ClaimStore(t) PROVE TurnInv'
  <2>1. \A u \in Thread : u # t => pc'[u] = pc[u] /\ job'[u] = job[u]
    BY <1>4 DEF StoreInv, TypeOK, CtlOK, disk, claims, JobInv, ClaimStore, TakeStore, Goto
  <2>2. job'[t] = job[t] /\ pc'[t] # "put" /\ (pc'[t] \in Writing => pc[t] \in Writing)
    BY <1>4, ThreadFacts DEF StoreInv, TypeOK, CtlOK, disk, claims, JobInv, ClaimStore, TakeStore, Goto, Writing
  <2>3. running' = running /\ index' = index /\ owner' = owner
    BY <1>4 DEF StoreInv, TypeOK, CtlOK, disk, claims, JobInv, ClaimStore, TakeStore, Goto
  <2>4. TurnStays
    BY <2>1, <2>2, <2>3 DEF TurnStays, Writing, NoJob, TurnJobs, Removals
  <2> QED BY <2>4, TurnFrame DEF StoreInv, TypeOK
<1>5. ASSUME NEW t \in Thread, OpenLock(t) PROVE TurnInv'
  <2>1. \A u \in Thread : u # t => pc'[u] = pc[u] /\ job'[u] = job[u]
    BY <1>5 DEF StoreInv, TypeOK, CtlOK, disk, claims, JobInv, OpenLock
  <2>2. job'[t] = job[t] /\ pc'[t] # "put" /\ (pc'[t] \in Writing => pc[t] \in Writing)
    BY <1>5, ThreadFacts DEF StoreInv, TypeOK, CtlOK, disk, claims, JobInv, OpenLock, Writing
  <2>3. running' = running /\ index' = index /\ owner' = owner
    BY <1>5 DEF StoreInv, TypeOK, CtlOK, disk, claims, JobInv, OpenLock
  <2>4. TurnStays
    BY <2>1, <2>2, <2>3 DEF TurnStays, Writing, NoJob, TurnJobs, Removals
  <2> QED BY <2>4, TurnFrame DEF StoreInv, TypeOK
<1>6. ASSUME NEW t \in Thread, TryLock(t) PROVE TurnInv'
  <2>1. \A u \in Thread : u # t => pc'[u] = pc[u] /\ job'[u] = job[u]
    BY <1>6 DEF TryLock, Claimed, Return, StoreInv, TypeOK, CtlOK
  <2>2. /\ index' = index
        /\ \A q \in Procs, z \in Sessions : owner[q][z] # "no" => owner'[q][z] # "no"
    BY <1>6 DEF TryLock, disk, StoreInv, TypeOK, ClaimsOK
  <2>3. job[t].kind \in TurnJobs => owner'[t[1]][job[t].s] # "no"
    <3>1. job[t].kind \in TurnJobs => job[t].s \in Sessions
      BY DEF StoreInv, TypeOK, CtlOK, Job, TurnJobs
    <3> QED BY <1>6, <3>1, ThreadFacts DEF TryLock, StoreInv, TypeOK, ClaimsOK
  <2>4. CASE job[t].kind = "start"
    <3>1. job'[t] = NoJob /\ running' = [running EXCEPT ![t[1]] = job[t].s]
      BY <1>6, <2>4 DEF TryLock, Claimed, Reactivates, Return, StoreInv, TypeOK, CtlOK
    <3> QED BY <2>1, <2>2, <2>4, <3>1, StartTurn
  <2>5. CASE job[t].kind # "start"
    <3>1. running' = running /\ job'[t] \in {job[t], NoJob} /\ pc'[t] # "put"
      BY <1>6, <2>5 DEF TryLock, Claimed, Return, StoreInv, TypeOK, CtlOK
    <3>2. TurnHolds(t) /\ t[1] \in Procs
      BY ThreadFacts DEF TurnInv
    <3>3. TurnHolds(t)'
      BY <2>2, <2>3, <3>1, <3>2 DEF TurnHolds, NoJob, TurnJobs
    <3>4. TurnStays
      BY <2>1, <2>2, <3>1, <3>3 DEF TurnStays
    <3> QED BY <3>4, TurnFrame DEF StoreInv, TypeOK
  <2> QED BY <2>4, <2>5
<1>7. ASSUME NEW t \in Thread, ClaimRefused(t) PROVE TurnInv'
  <2>1. \A u \in Thread : u # t => pc'[u] = pc[u] /\ job'[u] = job[u]
    BY <1>7 DEF StoreInv, TypeOK, CtlOK, disk, claims, JobInv, ClaimRefused, Return, FreeStore, FreeOwners, NoJob
  <2>2. job'[t] = NoJob
    BY <1>7, ThreadFacts DEF StoreInv, TypeOK, CtlOK, disk, claims, JobInv, ClaimRefused, Return, FreeStore, FreeOwners, NoJob, Writing
  <2>3. running' = running /\ index' = index /\ owner' = owner
    BY <1>7 DEF StoreInv, TypeOK, CtlOK, disk, claims, JobInv, ClaimRefused, Return, FreeStore, FreeOwners, NoJob
  <2>4. TurnStays
    BY <2>1, <2>2, <2>3 DEF TurnStays, Writing, NoJob, TurnJobs, Removals
  <2> QED BY <2>4, TurnFrame DEF StoreInv, TypeOK
<1>8. ASSUME NEW t \in Thread, LockStore(t) PROVE TurnInv'
  <2>1. \A u \in Thread : u # t => pc'[u] = pc[u] /\ job'[u] = job[u]
    BY <1>8 DEF StoreInv, TypeOK, CtlOK, disk, claims, JobInv, LockStore, TakeStore, Goto
  <2>2. job'[t] = job[t] /\ pc'[t] # "put" /\ (pc'[t] \in Writing => pc[t] \in Writing)
    BY <1>8, ThreadFacts DEF StoreInv, TypeOK, CtlOK, disk, claims, JobInv, LockStore, TakeStore, Goto, Writing
  <2>3. running' = running /\ index' = index /\ owner' = owner
    BY <1>8 DEF StoreInv, TypeOK, CtlOK, disk, claims, JobInv, LockStore, TakeStore, Goto
  <2>4. TurnStays
    BY <2>1, <2>2, <2>3 DEF TurnStays, Writing, NoJob, TurnJobs, Removals
  <2> QED BY <2>4, TurnFrame DEF StoreInv, TypeOK
<1>9. ASSUME NEW t \in Thread, Read(t) PROVE TurnInv'
  <2>1. \A u \in Thread : u # t => pc'[u] = pc[u] /\ job'[u] = job[u]
    BY <1>9 DEF StoreInv, TypeOK, CtlOK, disk, claims, JobInv, Read, EndStore, Return, FreeStore, NoJob
  <2>2. job'[t] = NoJob \/ (job'[t] = job[t] /\ pc'[t] # "put" /\ (pc'[t] \in Writing => pc[t] \in Writing))
    BY <1>9, ThreadFacts DEF StoreInv, TypeOK, CtlOK, disk, claims, JobInv, Read, EndStore, Return, FreeStore, NoJob, Writing
  <2>3. running' = running /\ index' = index /\ owner' = owner
    BY <1>9 DEF StoreInv, TypeOK, CtlOK, disk, claims, JobInv, Read, EndStore, Return, FreeStore, NoJob
  <2>4. TurnStays
    BY <2>1, <2>2, <2>3 DEF TurnStays, Writing, NoJob, TurnJobs, Removals
  <2> QED BY <2>4, TurnFrame DEF StoreInv, TypeOK
<1>10. ASSUME NEW t \in Thread, WriteChild(t) PROVE TurnInv'
  <2>1. \A u \in Thread : u # t => pc'[u] = pc[u] /\ job'[u] = job[u]
    BY <1>10 DEF StoreInv, TypeOK, CtlOK, WriteChild, EndStore, Return, Goto
  <2>2. job[t].kind = "fork" /\ job'[t] \in {job[t], NoJob}
    BY <1>10 DEF StoreInv, TypeOK, CtlOK, JobInv, WriteChild, EndStore, Return, Goto
  <2>3. job'[t].kind \notin TurnJobs \cup {"start", "detach"}
    BY <2>2 DEF NoJob, TurnJobs
  <2>4. running' = running /\ index' = index /\ owner' = owner
    BY <1>10 DEF WriteChild, claims
  <2>5. TurnStays
    BY <2>1, <2>3, <2>4 DEF TurnStays
  <2> QED BY <2>5, TurnFrame DEF StoreInv, TypeOK
<1>11. ASSUME NEW t \in Thread, WriteIndex(t) PROVE TurnInv'
  <2>1. \A u \in Thread : u # t => pc'[u] = pc[u] /\ job'[u] = job[u]
    BY <1>11 DEF WriteIndex, EndStore, Return, Goto, StoreInv, TypeOK, CtlOK
  <2>2. pc[t] = "write" /\ snap[t] = index /\ running' = running /\ owner' = owner /\ t[1] \in Procs
    BY <1>11, ThreadFacts DEF WriteIndex, StoreInv, SnapInv, claims
  <2>3. CASE job[t].kind \notin Removals
    <3>1. index \subseteq index' /\ job'[t] = NoJob
      BY <1>11, <2>2, <2>3 DEF WriteIndex, Written, EndStore, Return, StoreInv, TypeOK, CtlOK
    <3>2. TurnStays
      BY <2>1, <2>2, <3>1 DEF TurnStays, NoJob, TurnJobs
    <3> QED BY <3>2, TurnFrame DEF StoreInv, TypeOK
  <2>4. CASE job[t].kind \in Removals
    <3> DEFINE s == job[t].s
    <3>0. index' = index \ {s} /\ job'[t] = job[t]
      <4>1. Written(t) = index \ {s}
        BY <2>2, <2>4 DEF Written, Removals
      <4> QED BY <1>11, <2>4, <4>1 DEF WriteIndex, Goto
    <3>1. index' = index \ {s} /\ job'[t] = job[t] /\ s \in Sessions
      BY <2>4, <3>0, CtlFacts DEF StoreInv, TypeOK
    <3>2. s \in index => \A q \in Procs : owner[q][s] # "no" => q = t[1]
      <4>1. owner[t[1]][s] = "held"
        BY <2>2, <2>4 DEF RemovalInv, RemovalHolds
      <4>2. s \in index => \A q \in Procs : owner[q][s] # "no" => lockOf[q][s] = "linked"
        BY <3>1 DEF ClaimInv, ClaimLocks, StoreInv, TypeOK, ClaimsOK
      <4> QED BY <2>2, <3>1, <4>1, <4>2 DEF ClaimInv, ClaimLocks
    <3> SUFFICES ASSUME NEW u \in Thread PROVE TurnHolds(u)'
      BY DEF TurnInv
    <3>3. TurnHolds(u) /\ u[1] \in Procs
      BY ThreadFacts DEF TurnInv
    <3>4. CASE u = t
      BY <2>4, <3>1, <3>4 DEF TurnHolds, Removals, TurnJobs
    <3>5. CASE u # t
      <4>1. u[1] = t[1] => pc[u] # "put"
        BY <2>2, <3>5, ThreadFacts DEF StoreInv, LockInv, StorePCs, MemoPCs
      <4>2. job[u].kind \in TurnJobs /\ pc[u] = "put" => job[u].s \in index'
        BY <3>1, <3>2, <3>3, <4>1 DEF TurnHolds, Writing
      <4> QED BY <2>1, <2>2, <3>3, <3>5, <4>2 DEF TurnHolds
    <3> QED BY <3>4, <3>5
  <2> QED BY <2>3, <2>4
<1>12. ASSUME NEW t \in Thread, WriteIndexFails(t) PROVE TurnInv'
  <2>1. \A u \in Thread : u # t => pc'[u] = pc[u] /\ job'[u] = job[u]
    BY <1>12 DEF StoreInv, TypeOK, CtlOK, disk, claims, JobInv, WriteIndexFails, EndStore, Return, FreeStore, NoJob
  <2>2. job'[t] = NoJob
    BY <1>12, ThreadFacts DEF StoreInv, TypeOK, CtlOK, disk, claims, JobInv, WriteIndexFails, EndStore, Return, FreeStore, NoJob, Writing
  <2>3. running' = running /\ index' = index /\ owner' = owner
    BY <1>12 DEF StoreInv, TypeOK, CtlOK, disk, claims, JobInv, WriteIndexFails, EndStore, Return, FreeStore, NoJob
  <2>4. TurnStays
    BY <2>1, <2>2, <2>3 DEF TurnStays, Writing, NoJob, TurnJobs, Removals
  <2> QED BY <2>4, TurnFrame DEF StoreInv, TypeOK
<1>13. ASSUME NEW t \in Thread, Forget(t) PROVE TurnInv'
  <2>1. \A u \in Thread : u # t => pc'[u] = pc[u] /\ job'[u] = job[u]
    BY <1>13 DEF StoreInv, TypeOK, CtlOK, disk, claims, JobInv, Forget, Goto
  <2>2. job'[t] = job[t] /\ pc'[t] # "put" /\ (pc'[t] \in Writing => pc[t] \in Writing)
    BY <1>13, ThreadFacts DEF StoreInv, TypeOK, CtlOK, disk, claims, JobInv, Forget, Goto, Writing
  <2>3. running' = running /\ index' = index /\ owner' = owner
    BY <1>13 DEF StoreInv, TypeOK, CtlOK, disk, claims, JobInv, Forget, Goto
  <2>4. TurnStays
    BY <2>1, <2>2, <2>3 DEF TurnStays, Writing, NoJob, TurnJobs, Removals
  <2> QED BY <2>4, TurnFrame DEF StoreInv, TypeOK
<1>14. ASSUME NEW t \in Thread, Erase(t) PROVE TurnInv'
  <2>1. \A u \in Thread : u # t => pc'[u] = pc[u] /\ job'[u] = job[u]
    BY <1>14 DEF StoreInv, TypeOK, CtlOK, disk, claims, JobInv, Erase, Goto
  <2>2. job'[t] = job[t] /\ pc'[t] # "put" /\ (pc'[t] \in Writing => pc[t] \in Writing)
    BY <1>14, ThreadFacts DEF StoreInv, TypeOK, CtlOK, disk, claims, JobInv, Erase, Goto, Writing
  <2>3. running' = running /\ index' = index /\ owner' = owner
    BY <1>14 DEF StoreInv, TypeOK, CtlOK, disk, claims, JobInv, Erase, Goto
  <2>4. TurnStays
    BY <2>1, <2>2, <2>3 DEF TurnStays, Writing, NoJob, TurnJobs, Removals
  <2> QED BY <2>4, TurnFrame DEF StoreInv, TypeOK
<1>15. ASSUME NEW t \in Thread, Unlink(t) PROVE TurnInv'
  <2>1. \A u \in Thread : u # t => pc'[u] = pc[u] /\ job'[u] = job[u]
    BY <1>15 DEF StoreInv, TypeOK, CtlOK, disk, claims, JobInv, Unlink, FreeStore, Orphaned
  <2>2. job'[t] = job[t] /\ pc'[t] # "put" /\ (pc'[t] \in Writing => pc[t] \in Writing)
    BY <1>15, ThreadFacts DEF StoreInv, TypeOK, CtlOK, disk, claims, JobInv, Unlink, FreeStore, Orphaned, Writing
  <2>3. running' = running /\ index' = index /\ owner' = owner
    BY <1>15 DEF StoreInv, TypeOK, CtlOK, disk, claims, JobInv, Unlink, FreeStore, Orphaned
  <2>4. TurnStays
    BY <2>1, <2>2, <2>3 DEF TurnStays, Writing, NoJob, TurnJobs, Removals
  <2> QED BY <2>4, TurnFrame DEF StoreInv, TypeOK
<1>16. ASSUME NEW t \in Thread, Leave(t) PROVE TurnInv'
  <2>1. CASE LetGo(t, job[t].s)
    <3>1. job[t].s \in Sessions
      BY <1>16, CtlFacts DEF Leave, StoreInv, TypeOK, JobInv, RemovalTail
    <3> QED BY <2>1, <3>1, LetGoTurn
  <2>2. CASE Return(t) /\ UNCHANGED <<disk, locks, claims, memo, running, used, known, crashes>>
    <3>1. /\ \A u \in Thread : u # t => pc'[u] = pc[u] /\ job'[u] = job[u]
          /\ job'[t] = NoJob /\ running' = running /\ index' = index /\ owner' = owner
      BY <2>2 DEF Return, disk, claims, StoreInv, TypeOK, CtlOK
    <3>2. TurnStays
      BY <3>1 DEF TurnStays, NoJob, TurnJobs
    <3> QED BY <3>2, TurnFrame DEF StoreInv, TypeOK
  <2> QED BY <1>16, <2>1, <2>2 DEF Leave
<1>17. ASSUME NEW t \in Thread, Save(t) PROVE TurnInv'
  <2>1. \A u \in Thread : u # t => pc'[u] = pc[u] /\ job'[u] = job[u]
    BY <1>17 DEF StoreInv, TypeOK, CtlOK, disk, claims, JobInv, Save, EndStore, Return, FreeStore, NoJob
  <2>2. job'[t] = NoJob
    BY <1>17, ThreadFacts DEF StoreInv, TypeOK, CtlOK, disk, claims, JobInv, Save, EndStore, Return, FreeStore, NoJob, Writing
  <2>3. running' = running /\ index' = index /\ owner' = owner
    BY <1>17 DEF StoreInv, TypeOK, CtlOK, disk, claims, JobInv, Save, EndStore, Return, FreeStore, NoJob
  <2>4. TurnStays
    BY <2>1, <2>2, <2>3 DEF TurnStays, Writing, NoJob, TurnJobs, Removals
  <2> QED BY <2>4, TurnFrame DEF StoreInv, TypeOK
<1>18. ASSUME NEW t \in Thread, LockMemo(t) PROVE TurnInv'
  <2>1. \A u \in Thread : u # t => pc'[u] = pc[u] /\ job'[u] = job[u]
    BY <1>18 DEF StoreInv, TypeOK, CtlOK, disk, claims, JobInv, LockMemo, Goto
  <2>2. job'[t] = job[t] /\ pc'[t] # "put" /\ (pc'[t] \in Writing => pc[t] \in Writing)
    BY <1>18, ThreadFacts DEF StoreInv, TypeOK, CtlOK, disk, claims, JobInv, LockMemo, Goto, Writing
  <2>3. running' = running /\ index' = index /\ owner' = owner
    BY <1>18 DEF StoreInv, TypeOK, CtlOK, disk, claims, JobInv, LockMemo, Goto
  <2>4. TurnStays
    BY <2>1, <2>2, <2>3 DEF TurnStays, Writing, NoJob, TurnJobs, Removals
  <2> QED BY <2>4, TurnFrame DEF StoreInv, TypeOK
<1>19. ASSUME NEW t \in Thread, CheckSidecar(t) PROVE TurnInv'
  <2>1. \A u \in Thread : u # t => pc'[u] = pc[u] /\ job'[u] = job[u]
    BY <1>19 DEF CheckSidecar, EndMemo, Return, Goto, StoreInv, TypeOK, CtlOK
  <2>2. running' = running /\ index' = index /\ owner' = owner
    BY <1>19 DEF CheckSidecar, disk, claims
  <2>3. TurnHolds(t) /\ pc[t] = "check" /\ t[1] \in Procs
    BY <1>19, ThreadFacts DEF CheckSidecar, TurnInv
  <2>4. job'[t] = NoJob \/ (job'[t] = job[t] /\ pc'[t] = "put" /\ job[t].s \in index)
    BY <1>19, <2>3 DEF CheckSidecar, EndMemo, Return, Goto, Indexed, StoreInv, TypeOK, CtlOK, MemoInv, ListedIndexed
  <2>5. TurnHolds(t)'
    BY <2>2, <2>3, <2>4 DEF TurnHolds, NoJob, TurnJobs, Writing
  <2>6. TurnStays
    BY <2>1, <2>2, <2>5 DEF TurnStays
  <2> QED BY <2>6, TurnFrame DEF StoreInv, TypeOK
<1>20. ASSUME NEW t \in Thread, PutSidecar(t) PROVE TurnInv'
  <2>1. \A u \in Thread : u # t => pc'[u] = pc[u] /\ job'[u] = job[u]
    BY <1>20 DEF StoreInv, TypeOK, CtlOK, disk, claims, JobInv, PutSidecar, EndMemo, Return, NoJob
  <2>2. job'[t] = NoJob
    BY <1>20, ThreadFacts DEF StoreInv, TypeOK, CtlOK, disk, claims, JobInv, PutSidecar, EndMemo, Return, NoJob, Writing
  <2>3. running' = running /\ index' = index /\ owner' = owner
    BY <1>20 DEF StoreInv, TypeOK, CtlOK, disk, claims, JobInv, PutSidecar, EndMemo, Return, NoJob
  <2>4. TurnStays
    BY <2>1, <2>2, <2>3 DEF TurnStays, Writing, NoJob, TurnJobs, Removals
  <2> QED BY <2>4, TurnFrame DEF StoreInv, TypeOK
<1>21. ASSUME NEW t \in Thread, Disown(t) PROVE TurnInv'
  <2>1. \A u \in Thread : u # t => pc'[u] = pc[u] /\ job'[u] = job[u]
    BY <1>21 DEF StoreInv, TypeOK, CtlOK, disk, claims, JobInv, Disown, Goto
  <2>2. job'[t] = job[t] /\ pc'[t] # "put" /\ (pc'[t] \in Writing => pc[t] \in Writing)
    BY <1>21, ThreadFacts DEF StoreInv, TypeOK, CtlOK, disk, claims, JobInv, Disown, Goto, Writing
  <2>3. running' = running /\ index' = index /\ owner' = owner
    BY <1>21 DEF StoreInv, TypeOK, CtlOK, disk, claims, JobInv, Disown, Goto
  <2>4. TurnStays
    BY <2>1, <2>2, <2>3 DEF TurnStays, Writing, NoJob, TurnJobs, Removals
  <2> QED BY <2>4, TurnFrame DEF StoreInv, TypeOK
<1>22. ASSUME NEW t \in Thread, Unclaim(t) PROVE TurnInv'
  <2> SUFFICES ASSUME NEW u \in Thread PROVE TurnHolds(u)'
    BY DEF TurnInv
  <2>1. \A v \in Thread : v # t => pc'[v] = pc[v] /\ job'[v] = job[v]
    BY <1>22 DEF Unclaim, Return
  <2>2. job'[t] = NoJob /\ running' = running /\ index' = index
    BY <1>22 DEF Unclaim, Return, disk, StoreInv, TypeOK, CtlOK
  <2>3. \A q \in Procs, z \in Sessions : q # t[1] \/ z # job[t].s => owner'[q][z] = owner[q][z]
    BY <1>22 DEF Unclaim, StoreInv, TypeOK, ClaimsOK
  <2>4. TurnHolds(u) /\ TurnHolds(t) /\ u[1] \in Procs
    BY ThreadFacts DEF TurnInv
  <2>5. job[u].kind \in TurnJobs => job[u].s \in Sessions
    BY DEF StoreInv, TypeOK, CtlOK, Job, TurnJobs
  <2>6. CASE u = t
    BY <2>2, <2>6 DEF TurnHolds, NoJob, TurnJobs
  <2>7. CASE u # t
    <3>1. u[1] = t[1] /\ job[u].kind \in TurnJobs => job[u].s # job[t].s
      <4> SUFFICES ASSUME u[1] = t[1], job[u].kind \in TurnJobs PROVE job[u].s # job[t].s
        OBVIOUS
      <4>1. t[2] # u[2] /\ u[2] = "turn"
        BY <2>7, ThreadFacts DEF StoreInv, JobInv
      <4>2. job[t].kind = "detach"
        BY <1>22, <4>1 DEF Unclaim, StoreInv, JobInv
      <4> QED BY <2>4, <4>2 DEF TurnHolds, TurnJobs
    <3>2. job[u].kind \in TurnJobs => owner'[u[1]][job[u].s] = owner[u[1]][job[u].s]
      BY <2>3, <2>4, <2>5, <3>1
    <3> QED BY <2>1, <2>2, <2>4, <2>7, <3>2 DEF TurnHolds
  <2> QED BY <2>6, <2>7
<1>23. ASSUME NEW p \in Procs, NEW s \in Sessions, Attach(p, s) PROVE TurnInv'
  <2>1. <<p, "ui">> \in Thread /\ <<p, "ui">>[1] = p
    BY ThreadFacts
  <2> QED BY <1>23, <2>1, BeginTurn DEF Attach, TurnJobs
<1>24. ASSUME NEW p \in Procs, NEW s \in Sessions, Create(p, s) PROVE TurnInv'
  <2>1. <<p, "ui">> \in Thread /\ <<p, "ui">>[1] = p
    BY ThreadFacts
  <2> QED BY <1>24, <2>1, BeginTurn DEF Create, TurnJobs
<1>25. ASSUME NEW p \in Procs, NEW s \in Sessions, Remove(p, s) PROVE TurnInv'
  <2>1. <<p, "ui">> \in Thread /\ <<p, "ui">>[1] = p
    BY ThreadFacts
  <2> QED BY <1>25, <2>1, BeginTurn DEF Remove, TurnJobs
<1>26. ASSUME NEW p \in Procs, NEW s \in Sessions, Detach(p, s) PROVE TurnInv'
  <2>1. <<p, "ui">> \in Thread /\ LetGo(<<p, "ui">>, s)
    BY <1>26, ThreadFacts DEF Detach
  <2> QED BY <2>1, LetGoTurn
<1>27. ASSUME NEW p \in Procs, NEW s \in Sessions, NEW c \in Sessions, Fork(p, s, c) PROVE TurnInv'
  <2>1. <<p, "ui">> \in Thread /\ <<p, "ui">>[1] = p
    BY ThreadFacts
  <2> QED BY <1>27, <2>1, BeginTurn DEF Fork, TurnJobs
<1>28. ASSUME NEW p \in Procs, TurnWrite(p) PROVE TurnInv'
  <2>1. <<p, "turn">> \in Thread /\ <<p, "turn">>[1] = p
    BY ThreadFacts
  <2> QED BY <1>28, <2>1, BeginTurn DEF TurnWrite, TurnJobs
<1>29. ASSUME NEW p \in Procs, WriteEvents(p) PROVE TurnInv'
  <2>1. TurnStays
    BY <1>29 DEF WriteEvents, TurnStays, ctl, claims
  <2> QED BY <2>1, TurnFrame DEF StoreInv, TypeOK
<1>30. ASSUME NEW p \in Procs, Finish(p) PROVE TurnInv'
  BY <1>30, FinishTurn
<1>31. ASSUME NEW p \in Procs, Crash(p) PROVE TurnInv'
  BY <1>31, CrashTurn
<1>32. CASE Damage
  <2>1. TurnStays
    BY <1>32 DEF Damage, TurnStays, ctl, claims
  <2> QED BY <2>1, TurnFrame DEF StoreInv, TypeOK
<1>33. CASE UNCHANGED vars
  BY <1>33 DEF vars, ctl, claims, disk, TurnInv, TurnHolds
<1> QED BY <1>1, <1>2, <1>3, <1>4, <1>5, <1>6, <1>7, <1>8, <1>9, <1>10, <1>11, <1>12, <1>13, <1>14, <1>15, <1>16, <1>17, <1>18, <1>19, <1>20, <1>21, <1>22, <1>23, <1>24, <1>25, <1>26, <1>27, <1>28, <1>29, <1>30, <1>31, <1>32, <1>33 DEF Next, Step, Call

-----------------------------------------------------------------------------
\* Unless a frontend removes a session it has left while its turn still works
\* there, a claim means what it says, for any processes, sessions and calls:
\* locks exclude, removals hold their session to their end, and what a process
\* remembers of a session it remembers while it owns it.
THEOREM ClaimsInvariant == ASSUME ~LeftRemoval PROVE Spec => []IInv
<1>1. Init => ClaimInv /\ RemovalInv /\ MemoInv /\ TurnInv
  <2> SUFFICES ASSUME Init PROVE ClaimInv /\ RemovalInv /\ MemoInv /\ TurnInv
    OBVIOUS
  <2>1. \A t \in Thread : pc[t] = "idle" /\ job[t].kind = "none" /\ t[1] \in Procs
    BY ThreadFacts DEF Init, NoJob
  <2>2. ClaimInv
    BY <2>1 DEF Init, ClaimInv, ClaimLocks, ClaimPlaces
  <2>3. RemovalInv /\ TurnInv
    BY <2>1 DEF RemovalInv, RemovalHolds, Removals, TurnInv, TurnHolds, TurnJobs
  <2>4. MemoInv
    BY <2>1 DEF Init, MemoInv, ListedIndexed
  <2> QED BY <2>2, <2>3, <2>4
<1>2. StoreInv /\ ClaimInv /\ RemovalInv /\ MemoInv /\ TurnInv /\ [Next]_vars
      => ClaimInv' /\ RemovalInv' /\ MemoInv' /\ TurnInv'
  BY ClaimStep, RemovalStep, MemoStep, TurnStep
<1> QED BY <1>1, <1>2, StoreInvariant, HistoryInvariant, PTL DEF Spec, IInv

\* What a process wrote down as listed is listed: its saves need not read the
\* index again.
THEOREM MemoIsTrue == ASSUME ~LeftRemoval PROVE Spec => []ListedIndexed
<1>1. IInv => ListedIndexed
  BY DEF IInv, MemoInv
<1> QED BY <1>1, ClaimsInvariant, PTL

\* Two processes never own one listed session.
THEOREM OwnersExclude == ASSUME ~LeftRemoval PROVE Spec => []OneOwner
<1>1. IInv => OneOwner
  <2> SUFFICES ASSUME IInv, NEW s \in index, NEW p \in Procs, NEW q \in Procs,
                      owner[p][s] # "no", owner[q][s] # "no"
               PROVE  p = q
    BY DEF OneOwner
  <2>1. s \in Sessions
    BY DEF IInv, StoreInv, TypeOK, DiskOK
  <2>2. lockOf[p][s] = "linked" /\ lockOf[q][s] = "linked"
    BY <2>1 DEF IInv, ClaimInv, ClaimLocks, StoreInv, TypeOK, ClaimsOK
  <2> QED BY <2>1, <2>2 DEF IInv, ClaimInv, ClaimLocks
<1> QED BY <1>1, ClaimsInvariant, PTL

\* An event log is written by its session's owner alone, while the session is
\* listed or that owner is removing it.
THEOREM EventLogsOwned == ASSUME ~LeftRemoval PROVE Spec => []EventLogOwned
<1>1. IInv => EventLogOwned
  <2> SUFFICES ASSUME IInv, NEW p \in Procs, NEW s \in pending[p]
               PROVE  /\ owner[p][s] # "no"
                      /\ s \in index \/ \E r \in {"ui", "turn"} : Removing(<<p, r>>, s)
    BY DEF EventLogOwned
  <2>1. owner[p][s] # "no"
    BY DEF IInv, MemoInv
  <2>2. s \in index \/ (pc[Ui(p)] = "forget" /\ job[Ui(p)].s = s)
    BY DEF IInv, MemoInv
  <2>3. pc[Ui(p)] = "forget" => job[Ui(p)].kind \in Removals
    BY ThreadFacts DEF IInv, StoreInv, JobInv, RemovalTail, Ui
  <2> QED BY <2>1, <2>2, <2>3 DEF Removing, Ui
<1> QED BY <1>1, ClaimsInvariant, PTL

\* A session leaves the index only by a removal whose process is its one owner.
THEOREM RemovalsOwn == ASSUME ~LeftRemoval PROVE Spec => NoForeignRemoval
<1> DEFINE Own == \A s \in index \ index' : \A q \in Procs :
                    owner[q][s] # "no" => flock # None /\ flock[1] = q
<1>1. IInv /\ [Next]_vars => [Own]_vars
  <2> SUFFICES ASSUME IInv, [Next]_vars, NEW s \in index \ index', NEW q \in Procs, owner[q][s] # "no"
               PROVE  flock # None /\ flock[1] = q
    BY DEF disk
  <2>1. PICK t \in Thread : WriteIndex(t)
    BY IndexStep
  <2>2. flock = t /\ pc[t] = "write" /\ snap[t] = index /\ index' = Written(t) /\ t # None
    BY <2>1, ThreadFacts DEF WriteIndex, IInv, StoreInv, LockInv, SnapInv, StorePCs
  <2>3. job[t].kind \in Removals /\ job[t].s = s
    BY <2>2 DEF Written
  <2>4. owner[t[1]][s] = "held"
    BY <2>2, <2>3 DEF IInv, RemovalInv, RemovalHolds
  <2>5. OneOwner
    <3>1. s \in Sessions
      BY DEF IInv, StoreInv, TypeOK, DiskOK
    <3> QED BY DEF OneOwner, IInv, ClaimInv, ClaimLocks, StoreInv, TypeOK, ClaimsOK, DiskOK
  <2>6. t[1] = q
    BY <2>4, <2>5, ThreadFacts DEF OneOwner
  <2> QED BY <2>2, <2>6
<1> QED BY <1>1, ClaimsInvariant, PTL DEF Spec, NoForeignRemoval

\* Once a session is out of the index and its removal is over, no turn's late
\* write brings a file of it back.
THEOREM RemovedStaysGone == ASSUME ~LeftRemoval PROVE Spec => NoResurrection
<1> DEFINE Gone == \A s \in known \ index :
                     (\A t \in Thread : ~Removing(t, s)) => files'[s] \subseteq files[s]
<1>1. IInv /\ [Next]_vars => [Gone]_vars
  <2> SUFFICES ASSUME IInv, [Next]_vars, NEW s \in known \ index, \A t \in Thread : ~Removing(t, s)
               PROVE  files'[s] \subseteq files[s]
    BY DEF disk
  <2>1. s \in Sessions /\ files \in [Sessions -> SUBSET FileKinds]
    BY DEF IInv, StoreInv, TypeOK, DiskOK
  <2>3. ASSUME NEW p \in Procs, NEW z, AppendEvents(p, z) PROVE files'[s] = files[s]
    <3>1. z \in pending[p] => z # s
      <4> SUFFICES ASSUME s \in pending[p] PROVE FALSE
        OBVIOUS
      <4>1. pc[Ui(p)] = "forget" /\ job[Ui(p)].s = s
        BY DEF IInv, MemoInv
      <4>2. Ui(p) \in Thread
        BY ThreadFacts DEF Ui
      <4> QED BY <4>1, <4>2 DEF IInv, StoreInv, JobInv, RemovalTail, Removing
    <3> QED BY <2>1, <2>3, <3>1 DEF AppendEvents
  <2>4. ASSUME NEW t \in Thread, WriteChild(t) PROVE files'[s] \subseteq files[s]
    <3>1. Makes(t)
      BY <2>4 DEF WriteChild, IInv, StoreInv, JobInv, Makes
    <3>2. job[t].c # s
      BY <3>1 DEF IInv, StoreInv, IdInv, JobIds
    <3> QED BY <2>1, <2>4, <3>2 DEF WriteChild
  <2>5. ASSUME NEW t \in Thread, Erase(t) PROVE files'[s] \subseteq files[s]
    BY <2>1, <2>5 DEF Erase
  <2>6. ASSUME NEW t \in Thread, Save(t) PROVE files'[s] \subseteq files[s]
    <3>1. Indexed(t[1], job[t].s) => job[t].s # s
      BY ThreadFacts DEF Indexed, IInv, MemoInv, ListedIndexed
    <3> QED BY <2>1, <2>6, <3>1 DEF Save
  <2>7. ASSUME NEW t \in Thread, PutSidecar(t) PROVE files'[s] \subseteq files[s]
    <3>1. job[t].kind \in TurnJobs
      BY <2>7 DEF PutSidecar, IInv, StoreInv, JobInv, MemoPCs, TurnJobs
    <3>2. job[t].s \in index
      BY <2>7, <3>1 DEF PutSidecar, IInv, TurnInv, TurnHolds
    <3> QED BY <2>1, <2>7, <3>2 DEF PutSidecar
  <2>8. ASSUME NEW t \in Thread, Disown(t) PROVE files'[s] \subseteq files[s]
    BY <2>3, <2>8, ThreadFacts DEF Disown
  <2>9. ASSUME NEW p \in Procs, WriteEvents(p) \/ Finish(p) PROVE files'[s] \subseteq files[s]
    BY <2>3, <2>9 DEF WriteEvents, Finish
  <2> QED BY <2>4, <2>5, <2>6, <2>7, <2>8, <2>9, FilesStep
<1> QED BY <1>1, ClaimsInvariant, PTL DEF Spec, NoResurrection

-----------------------------------------------------------------------------
(* The store implements the leases.                                        *)

\* The map of the leases' holders and of the sessions with a transcript.
Leased(ix, links) == [s \in Sessions |->
    IF s \in ix /\ {p \in Procs : links[p][s] = "linked"} # {}
    THEN CHOOSE p \in {p \in Procs : links[p][s] = "linked"} : TRUE ELSE None]
Gone == known \ index
Listed == {s \in index : Backed(s)}

\* No two processes hold one lock file.
Exclusive(links) ==
    \A p, q \in Procs, s \in Sessions : links[p][s] = "linked" /\ links[q][s] = "linked" => p = q

\* A session that is listed is leased to the process whose claim's lock file
\* its name leads to, and to no other.
LeasedRight(ix, links) ==
    /\ \A s \in ix : \A p \in Procs : links[p][s] = "linked" => Leased(ix, links)[s] = p
    /\ \A s \in Sessions : s \notin ix \/ (\A p \in Procs : links[p][s] # "linked")
         => Leased(ix, links)[s] = None

\* The store's holders are such a map, before and after a step.
LEMMA HolderIsLeased == Holder = Leased(index, lockOf) /\ Holder' = Leased(index', lockOf')
BY DEF Holder, Holders, Leased

\* Such a map is right when lock files exclude.
LEMMA LeasedTo ==
    ASSUME NEW ix \in SUBSET Sessions, NEW links, Exclusive(links)
    PROVE  LeasedRight(ix, links)
<1>1. ASSUME NEW s \in ix, NEW p \in Procs, links[p][s] = "linked" PROVE Leased(ix, links)[s] = p
  <2>1. {q \in Procs : links[q][s] = "linked"} = {p}
    BY <1>1 DEF Exclusive
  <2> QED BY <1>1, <2>1 DEF Leased
<1>2. ASSUME NEW s \in Sessions, s \notin ix \/ (\A p \in Procs : links[p][s] # "linked")
      PROVE  Leased(ix, links)[s] = None
  BY <1>2 DEF Leased
<1> QED BY <1>1, <1>2 DEF LeasedRight

\* Two maps of the leases that agree for every session are one.
LEMMA LeasedSame ==
    ASSUME NEW a, NEW b, NEW f, NEW g, \A s \in Sessions : Leased(a, f)[s] = Leased(b, g)[s]
    PROVE  Leased(a, f) = Leased(b, g)
BY DEF Leased

\* Who holds a session changes only with the index and the lock files.
LEMMA LeaseFrame ==
    ASSUME ClaimLocks, ClaimLocks', index \subseteq Sessions, index' = index,
           \A s \in index, p \in Procs : lockOf'[p][s] = "linked" <=> lockOf[p][s] = "linked"
    PROVE  Holder' = Holder
<1>1. LeasedRight(index, lockOf)
  <2>1. Exclusive(lockOf) /\ index \in SUBSET Sessions
    BY DEF ClaimLocks, Exclusive
  <2> QED BY <2>1, LeasedTo
<1>2. LeasedRight(index, lockOf')
  <2>1. Exclusive(lockOf') /\ index \in SUBSET Sessions
    BY DEF ClaimLocks, Exclusive
  <2> QED BY <2>1, LeasedTo
<1>3. \A s \in Sessions : Leased(index, lockOf')[s] = Leased(index, lockOf)[s]
  <2> TAKE s \in Sessions
  <2>1. CASE s \in index /\ \E p \in Procs : lockOf[p][s] = "linked"
    BY <1>1, <1>2, <2>1 DEF LeasedRight
  <2>2. CASE s \notin index \/ \A p \in Procs : lockOf[p][s] # "linked"
    BY <1>1, <1>2, <2>2 DEF LeasedRight
  <2> QED BY <2>1, <2>2
<1> QED BY <1>3, LeasedSame, HolderIsLeased

\* What else may change what is listed or claimed.
LEMMA LinksStep ==
    ASSUME [Next]_vars
    PROVE  \/ lockOf' = lockOf
           \/ \E t \in Thread : TryLock(t) \/ Unlink(t) \/ Unclaim(t)
           \/ \E p \in Procs : Crash(p)
<1> USE DEF claims
<1>1. ASSUME NEW t \in Thread, Step(t) PROVE lockOf' = lockOf \/ TryLock(t) \/ Unlink(t) \/ Unclaim(t)
  BY <1>1 DEF Step, OwnHeld, Revalidate, OwnNew, ClaimStore, OpenLock, ClaimRefused, LockStore, Read,
     WriteChild, WriteIndex, WriteIndexFails, Forget, Erase, Leave, LetGo, Save, LockMemo, CheckSidecar, PutSidecar,
     Disown
<1>2. ASSUME NEW p \in Procs, Call(p) \/ Finish(p) PROVE lockOf' = lockOf
  BY <1>2 DEF Call, Attach, Create, Remove, Detach, Fork, TurnWrite, WriteEvents, Begin, LetGo, Finish
<1>3. Damage \/ UNCHANGED vars => lockOf' = lockOf
  BY DEF Damage, vars
<1> QED BY <1>1, <1>2, <1>3 DEF Next

\* Only a call's WriteIndex changes what was ever listed.
LEMMA KnownStep ==
    ASSUME [Next]_vars PROVE (index' = index /\ known' = known) \/ \E t \in Thread : WriteIndex(t)
<1> USE DEF disk
<1>1. ASSUME NEW t \in Thread, Step(t) PROVE (index' = index /\ known' = known) \/ WriteIndex(t)
  BY <1>1 DEF Step, OwnHeld, Revalidate, OwnNew, ClaimStore, OpenLock, TryLock, ClaimRefused, LockStore, Read, WriteChild,
     WriteIndexFails, Forget, Erase, Unlink, Leave, LetGo, Save, LockMemo, CheckSidecar, PutSidecar, Disown, Unclaim
<1>2. ASSUME NEW p \in Procs, Call(p) \/ Finish(p) \/ Crash(p) PROVE index' = index /\ known' = known
  BY <1>2 DEF Call, Attach, Create, Remove, Detach, Fork, TurnWrite, WriteEvents, Begin, LetGo, Finish, Crash
<1>3. Damage \/ UNCHANGED vars => index' = index /\ known' = known
  BY DEF Damage, vars
<1> QED BY <1>1, <1>2, <1>3 DEF Next

\* The listed sessions' histories change only by a save.
LEMMA ListedStep ==
    ASSUME IInv, [Next]_vars, index' = index
    PROVE  \/ Listed' = Listed
           \/ \E t \in Thread : /\ Save(t) /\ job[t].s \in index /\ lockOf[t[1]][job[t].s] = "linked"
                                /\ Listed' = Listed \cup {job[t].s}
<1> USE DEF IInv
<1>1. index \subseteq Sessions /\ files \in [Sessions -> SUBSET FileKinds]
  BY DEF StoreInv, TypeOK, DiskOK
<1>2. \A t \in Thread : Erase(t) => job[t].s \notin index
  <2> SUFFICES ASSUME NEW t \in Thread, Erase(t) PROVE job[t].s \notin index
    OBVIOUS
  <2>1. pc[t] = "erase"
    BY DEF Erase
  <2>2. job[t].kind \in Removals
    BY <2>1 DEF StoreInv, JobInv, RemovalTail
  <2> QED BY <2>1, <2>2 DEF RemovalInv, RemovalHolds
<1>3. \A t \in Thread : WriteChild(t) => job[t].c \notin index
  BY DEF WriteChild, StoreInv, JobInv, Makes, IdInv, JobIds, IndexIds
<1>4. \A s \in index : /\ Backed(s) => Backed(s)'
                       /\ Backed(s)' => Backed(s) \/ \E t \in Thread : Save(t) /\ job[t].s = s
  BY <1>1, <1>2, <1>3, BackedStep
<1>5. CASE \A s \in index : Backed(s)' => Backed(s)
  <2>1. \A s \in index : Backed(s)' <=> Backed(s)
    BY <1>4, <1>5
  <2> QED BY <2>1 DEF Listed
<1>6. ASSUME NEW s \in index, Backed(s)', ~Backed(s)
      PROVE  \E t \in Thread : /\ Save(t) /\ job[t].s \in index /\ lockOf[t[1]][job[t].s] = "linked"
                               /\ Listed' = Listed \cup {job[t].s}
  <2>1. PICK t \in Thread : Save(t) /\ job[t].s = s
    BY <1>4, <1>6
  <2>2. owner[t[1]][s] # "no" /\ t[1] \in Procs
    BY <2>1, ThreadFacts DEF Save, TurnInv, TurnHolds, TurnJobs, Writing
  <2>3. lockOf[t[1]][s] = "linked"
    BY <1>1, <2>2 DEF ClaimInv, ClaimLocks, StoreInv, TypeOK, ClaimsOK
  <2>4. \A x \in index \ {s} : Backed(x)' <=> Backed(x)
    <3>1. \A x \in index \ {s} : files'[x] = files[x]
      BY <1>1, <2>1 DEF Save
    <3> QED BY <3>1 DEF Backed
  <2>5. Listed' = Listed \cup {s}
    BY <1>6, <2>4 DEF Listed
  <2> QED BY <2>1, <2>3, <2>5
<1> QED BY <1>5, <1>6

-----------------------------------------------------------------------------
\* What every step of the store has to be.
LeaseStep == [Leases!Next]_(Leases!vars)

\* The claims make it right in every state.
LEMMA LeasesRight == ASSUME IInv PROVE LeasedRight(index, lockOf)
<1>1. Exclusive(lockOf) /\ index \in SUBSET Sessions
  BY DEF IInv, ClaimInv, ClaimLocks, Exclusive, StoreInv, TypeOK, DiskOK
<1> QED BY <1>1, LeasedTo

\* And in the next.
LEMMA LeasesRightNext == ASSUME IInv' PROVE LeasedRight(index', lockOf')
<1>1. Exclusive(lockOf') /\ index' \in SUBSET Sessions
  BY DEF IInv, ClaimInv, ClaimLocks, Exclusive, StoreInv, TypeOK, DiskOK
<1> QED BY <1>1, LeasedTo

\* The holders are a function of the sessions.
LEMMA HolderMap == Holder = [s \in Sessions |-> Holder[s]] /\ Holder' = [s \in Sessions |-> Holder'[s]]
BY DEF Holder

\* What changes nothing the leases see is no step of theirs.
LEMMA QuietLeases ==
    ASSUME index' = index, Gone' = Gone, Holder' = Holder, Listed' = Listed PROVE LeaseStep
BY DEF LeaseStep, Leases!vars, Gone, Listed

\* A save is a write of its session's holder.
LEMMA SaveLeases ==
    ASSUME IInv, NEW t \in Thread, Save(t), job[t].s \in index, lockOf[t[1]][job[t].s] = "linked",
           Listed' = Listed \cup {job[t].s}, index' = index, Gone' = Gone, Holder' = Holder
    PROVE  LeaseStep
<1>1. t[1] \in Procs /\ job[t].s \in Sessions
  BY ThreadFacts DEF IInv, StoreInv, TypeOK, DiskOK
<1>2. Holder[job[t].s] = t[1]
  <2>1. LeasedRight(index, lockOf)
    BY LeasesRight
  <2> QED BY <1>1, <2>1, HolderIsLeased DEF LeasedRight
<1>3. Leases!Write(t[1], job[t].s)
  BY <1>2 DEF Leases!Write, Gone, Listed
<1> QED BY <1>1, <1>3 DEF LeaseStep, Leases!Next

\* A claim takes a lease.
LEMMA TryLockLeases ==
    ASSUME IInv, IInv', NEW t \in Thread, TryLock(t), index' = index, Gone' = Gone, Listed' = Listed
    PROVE  LeaseStep
<1> DEFINE p == t[1]
           s == job[t].s
<1>1. p \in Procs
  BY ThreadFacts
<1>2. fd[t] = "linked" /\ LinkFree(s) /\ lockOf' = [lockOf EXCEPT ![p][s] = "linked"]
  BY DEF TryLock, IInv, StoreInv, JobInv
<1>3. lockOf \in [Procs -> [Sessions -> {"none", "linked", "unlinked"}]] /\ index \subseteq Sessions
  BY DEF IInv, StoreInv, TypeOK, ClaimsOK, DiskOK
<1>4. CASE s \notin index
  <2>1. \A x \in index, q \in Procs : lockOf'[q][x] = "linked" <=> lockOf[q][x] = "linked"
    BY <1>2, <1>3, <1>4
  <2>2. Holder' = Holder
    BY <1>3, <2>1, LeaseFrame DEF IInv, ClaimInv
  <2> QED BY <2>2, QuietLeases
<1>5. CASE s \in index
  <2>1. s \in Sessions
    BY <1>3, <1>5
  <2>2. \A x \in Sessions \ {s} : \A q \in Procs : lockOf'[q][x] = lockOf[q][x]
    BY <1>2, <1>3
  <2>3. lockOf'[p][s] = "linked"
    BY <1>1, <1>2, <1>3, <2>1
  <2>4. LeasedRight(index, lockOf) /\ LeasedRight(index, lockOf')
    BY LeasesRight, LeasesRightNext
  <2>5. Leased(index, lockOf)[s] = None /\ Leased(index, lockOf')[s] = p
    BY <1>1, <1>2, <1>5, <2>1, <2>3, <2>4 DEF LeasedRight, LinkFree
  <2>6. \A x \in Sessions \ {s} : Leased(index, lockOf')[x] = Leased(index, lockOf)[x]
    <3> TAKE x \in Sessions \ {s}
    <3>1. CASE x \in index /\ \E q \in Procs : lockOf[q][x] = "linked"
      BY <2>2, <2>4, <3>1 DEF LeasedRight
    <3>2. CASE x \notin index \/ \A q \in Procs : lockOf[q][x] # "linked"
      BY <2>2, <2>4, <3>2 DEF LeasedRight
    <3> QED BY <3>1, <3>2
  <2>7. Holder[s] = None /\ Holder' = [Holder EXCEPT ![s] = p]
    <3>1. Holder[s] = None /\ Holder'[s] = p /\ \A x \in Sessions \ {s} : Holder'[x] = Holder[x]
      BY <2>5, <2>6, HolderIsLeased
    <3> QED BY <2>1, <3>1, HolderMap
  <2>8. Leases!Acquire(p, s)
    BY <1>5, <2>7 DEF Leases!Acquire, Gone, Listed
  <2> QED BY <1>1, <2>1, <2>8 DEF LeaseStep, Leases!Next
<1> QED BY <1>4, <1>5

\* The sessions a process holds are let go of together.
LEMMA ReleaseLeases ==
    ASSUME IInv, IInv', NEW p \in Procs, NEW S \in SUBSET index, index' = index, Gone' = Gone, Listed' = Listed,
           \A s \in S : lockOf[p][s] = "linked",
           \A s \in S, q \in Procs : lockOf'[q][s] # "linked",
           \A s \in index \ S : \A q \in Procs : lockOf'[q][s] = "linked" <=> lockOf[q][s] = "linked"
    PROVE  LeaseStep
<1>1. LeasedRight(index, lockOf) /\ LeasedRight(index, lockOf') /\ index \subseteq Sessions
  BY LeasesRight, LeasesRightNext DEF IInv, StoreInv, TypeOK, DiskOK
<1>2. \A s \in S : Leased(index, lockOf)[s] = p /\ Leased(index, lockOf')[s] = None
  BY <1>1 DEF LeasedRight
<1>3. \A s \in Sessions \ S : Leased(index, lockOf')[s] = Leased(index, lockOf)[s]
  <2> TAKE s \in Sessions \ S
  <2>1. CASE s \in index /\ \E q \in Procs : lockOf[q][s] = "linked"
    BY <1>1, <2>1 DEF LeasedRight
  <2>2. CASE s \notin index \/ \A q \in Procs : lockOf[q][s] # "linked"
    BY <1>1, <2>2 DEF LeasedRight
  <2> QED BY <2>1, <2>2
<1>4. /\ \A s \in S : Holder[s] = p /\ Holder'[s] = None
      /\ \A s \in Sessions \ S : Holder'[s] = Holder[s]
  BY <1>2, <1>3, HolderIsLeased
<1>5. Holder' = [s \in Sessions |-> IF s \in S THEN None ELSE Holder[s]]
  BY <1>1, <1>4, HolderMap
<1>6. Leases!Release(p, S)
  BY <1>4, <1>5 DEF Leases!Release, Gone, Listed
<1>7. S \in SUBSET Sessions
  BY <1>1
<1> QED BY <1>6, <1>7 DEF LeaseStep, Leases!Next

\* A release lets go of one session.
LEMMA UnclaimLeases ==
    ASSUME IInv, IInv', NEW t \in Thread, Unclaim(t), index' = index, Gone' = Gone, Listed' = Listed
    PROVE  LeaseStep
<1> DEFINE p == t[1]
           s == job[t].s
           S == {x \in index : x = s /\ lockOf[p][x] = "linked"}
<1>1. p \in Procs /\ lockOf' = [lockOf EXCEPT ![p][s] = "none"]
  BY ThreadFacts DEF Unclaim
<1>2. lockOf \in [Procs -> [Sessions -> {"none", "linked", "unlinked"}]] /\ index \subseteq Sessions
      /\ \A q, r \in Procs, x \in Sessions : lockOf[q][x] = "linked" /\ lockOf[r][x] = "linked" => q = r
  BY DEF IInv, StoreInv, TypeOK, ClaimsOK, DiskOK, ClaimInv, ClaimLocks
<1>3. \A x \in S, q \in Procs : lockOf[p][x] = "linked" /\ lockOf'[q][x] # "linked"
  <2> TAKE x \in S, q \in Procs
  <2>1. x = s /\ x \in Sessions /\ lockOf[p][x] = "linked"
    BY <1>2
  <2>2. CASE q = p
    BY <1>1, <1>2, <2>1, <2>2
  <2>3. CASE q # p
    BY <1>1, <1>2, <2>1, <2>3
  <2> QED BY <2>1, <2>2, <2>3
<1>4. \A x \in index \ S : \A q \in Procs : lockOf'[q][x] = "linked" <=> lockOf[q][x] = "linked"
  BY <1>1, <1>2
<1>5. S \in SUBSET index /\ \A x \in S : lockOf[p][x] = "linked"
  OBVIOUS
<1> HIDE DEF S
<1> QED BY <1>1, <1>3, <1>4, <1>5, ReleaseLeases

\* A death lets go of all.
LEMMA CrashLeases ==
    ASSUME IInv, IInv', NEW p \in Procs, Crash(p), index' = index, Gone' = Gone, Listed' = Listed
    PROVE  LeaseStep
<1> DEFINE S == {x \in index : lockOf[p][x] = "linked"}
<1>1. lockOf' = [lockOf EXCEPT ![p] = [s \in Sessions |-> "none"]]
  BY DEF Crash
<1>2. lockOf \in [Procs -> [Sessions -> {"none", "linked", "unlinked"}]] /\ index \subseteq Sessions
      /\ \A q, r \in Procs, x \in Sessions : lockOf[q][x] = "linked" /\ lockOf[r][x] = "linked" => q = r
  BY DEF IInv, StoreInv, TypeOK, ClaimsOK, DiskOK, ClaimInv, ClaimLocks
<1>3. \A x \in S, q \in Procs : lockOf[p][x] = "linked" /\ lockOf'[q][x] # "linked"
  BY <1>1, <1>2
<1>4. \A x \in index \ S : \A q \in Procs : lockOf'[q][x] = "linked" <=> lockOf[q][x] = "linked"
  BY <1>1, <1>2
<1>5. S \in SUBSET index /\ \A x \in S : lockOf[p][x] = "linked"
  OBVIOUS
<1> HIDE DEF S
<1> QED BY <1>3, <1>4, <1>5, ReleaseLeases

\* A name that leads nowhere is no lease: its session has left the index.
LEMMA UnlinkLeases ==
    ASSUME IInv, IInv', NEW t \in Thread, Unlink(t), index' = index, Gone' = Gone, Listed' = Listed
    PROVE  LeaseStep
<1>1. job[t].s \notin index
  <2>1. pc[t] = "unlink"
    BY DEF Unlink
  <2>2. job[t].kind \in Removals
    BY <2>1 DEF IInv, StoreInv, JobInv, RemovalTail
  <2> QED BY <2>1, <2>2 DEF IInv, RemovalInv, RemovalHolds
<1>2. lockOf \in [Procs -> [Sessions -> {"none", "linked", "unlinked"}]] /\ index \subseteq Sessions
  BY DEF IInv, StoreInv, TypeOK, ClaimsOK, DiskOK
<1>3. \A x \in index, q \in Procs : lockOf'[q][x] = lockOf[q][x]
  BY <1>1, <1>2 DEF Unlink
<1>4. Holder' = Holder
  BY <1>2, <1>3, LeaseFrame DEF IInv, ClaimInv
<1> QED BY <1>4, QuietLeases

\* A session that is listed has a holder nobody had.
LEMMA ListLeases ==
    ASSUME IInv, IInv', [Next]_vars, NEW t \in Thread, WriteIndex(t), Makes(t) PROVE LeaseStep
<1> DEFINE c == job[t].c
<1>1. c \in used \ known /\ index \subseteq known /\ index \subseteq Sessions /\ c \in Sessions
  BY DEF IInv, StoreInv, IdInv, JobIds, IndexIds, TypeOK, DiskOK
<1>2. /\ pc[t] = "write" /\ index' = index \cup {c} /\ known' = known \cup index'
      /\ files' = files /\ lockOf' = lockOf
  BY DEF WriteIndex, Written, Makes, Removals, IInv, StoreInv, SnapInv, claims
<1>3. \A q \in Procs : lockOf[q][c] # "linked"
  <2>1. \A q \in Procs : owner[q][c] = "no"
    BY <1>1 DEF IInv, StoreInv, IdInv, ClaimIds
  <2> QED BY <1>1, <2>1 DEF IInv, ClaimInv, ClaimLocks
<1>4. LeasedRight(index, lockOf) /\ LeasedRight(index', lockOf)
  BY <1>2, LeasesRight, LeasesRightNext
<1>5. \A x \in Sessions : Leased(index', lockOf)[x] = Leased(index, lockOf)[x]
  <2> TAKE x \in Sessions
  <2>1. CASE x \in index /\ \E q \in Procs : lockOf[q][x] = "linked"
    BY <1>2, <1>4, <2>1 DEF LeasedRight
  <2>2. CASE x \notin index \/ \A q \in Procs : lockOf[q][x] # "linked"
    BY <1>2, <1>3, <1>4, <2>2 DEF LeasedRight
  <2> QED BY <2>1, <2>2
<1>6. Holder' = Holder
  BY <1>2, <1>5, LeasedSame, HolderIsLeased
<1>7. Listed' = Listed \cup (IF Backed(c) THEN {c} ELSE {}) /\ Gone' = Gone /\ c \notin Gone
  BY <1>1, <1>2 DEF Listed, Gone, Backed
<1>8. Leases!Create(c, Backed(c))
  BY <1>1, <1>2, <1>6, <1>7 DEF Leases!Create, Gone, Listed
<1>9. Backed(c) \in BOOLEAN
  BY DEF Backed
<1> QED BY <1>1, <1>8, <1>9 DEF LeaseStep, Leases!Next

\* A session that leaves the index was leased to the process that removes it.
LEMMA UnlistLeases ==
    ASSUME IInv, IInv', NEW t \in Thread, WriteIndex(t), job[t].kind \in Removals PROVE LeaseStep
<1> DEFINE p == t[1]
           s == job[t].s
<1>1. /\ index \subseteq known /\ index \subseteq Sessions /\ p \in Procs
      /\ lockOf \in [Procs -> [Sessions -> {"none", "linked", "unlinked"}]]
  BY ThreadFacts DEF IInv, StoreInv, IdInv, IndexIds, TypeOK, DiskOK, ClaimsOK
<1>2. /\ pc[t] = "write" /\ index' = index \ {s} /\ known' = known \cup index'
      /\ files' = files /\ lockOf' = lockOf
  BY DEF WriteIndex, Written, Removals, IInv, StoreInv, SnapInv, claims
<1>3. known' = known /\ LeasedRight(index, lockOf) /\ LeasedRight(index', lockOf)
  BY <1>1, <1>2, LeasesRight, LeasesRightNext
<1>4. CASE s \notin index
  <2>1. index' = index
    BY <1>2, <1>4
  <2>2. Holder' = Holder
    BY <1>2, <2>1, HolderIsLeased
  <2>3. Gone' = Gone /\ Listed' = Listed
    BY <1>2, <1>3, <2>1 DEF Gone, Listed, Backed
  <2> QED BY <2>1, <2>2, <2>3, QuietLeases
<1>5. CASE s \in index
  <2>1. s \in Sessions
    BY <1>1, <1>5
  <2>2. lockOf[p][s] = "linked"
    <3>1. owner[p][s] = "held"
      BY <1>2 DEF IInv, RemovalInv, RemovalHolds
    <3> QED BY <1>1, <1>5, <2>1, <3>1 DEF IInv, ClaimInv, ClaimLocks
  <2>3. Leased(index, lockOf)[s] = p /\ Leased(index', lockOf)[s] = None
    BY <1>1, <1>2, <1>3, <1>5, <2>1, <2>2 DEF LeasedRight
  <2>4. \A x \in Sessions \ {s} : Leased(index', lockOf)[x] = Leased(index, lockOf)[x]
    <3> TAKE x \in Sessions \ {s}
    <3>1. CASE x \in index /\ \E q \in Procs : lockOf[q][x] = "linked"
      BY <1>2, <1>3, <3>1 DEF LeasedRight
    <3>2. CASE x \notin index \/ \A q \in Procs : lockOf[q][x] # "linked"
      BY <1>2, <1>3, <3>2 DEF LeasedRight
    <3> QED BY <3>1, <3>2
  <2>5. Holder[s] = p /\ Holder' = [Holder EXCEPT ![s] = None]
    <3>1. Holder[s] = p /\ Holder'[s] = None /\ \A x \in Sessions \ {s} : Holder'[x] = Holder[x]
      BY <1>2, <2>3, <2>4, HolderIsLeased
    <3> QED BY <2>1, <3>1, HolderMap
  <2>6. Gone' = Gone \cup {s} /\ Listed' = Listed \ {s}
    BY <1>1, <1>2, <1>3, <1>5 DEF Gone, Listed, Backed
  <2>7. Leases!Remove(p, s)
    BY <1>2, <1>5, <2>5, <2>6 DEF Leases!Remove, Gone, Listed
  <2> QED BY <1>1, <2>1, <2>7 DEF LeaseStep, Leases!Next
<1> QED BY <1>4, <1>5

\* Any other index write is of the index as it was.
LEMMA RewriteLeases ==
    ASSUME IInv, IInv', NEW t \in Thread, WriteIndex(t), job[t].kind \notin Removals, ~Makes(t) PROVE LeaseStep
<1>1. /\ pc[t] = "write" /\ index' = index /\ known' = known \cup index'
      /\ files' = files /\ lockOf' = lockOf
  BY DEF WriteIndex, Written, Makes, IInv, StoreInv, SnapInv, claims
<1>2. Gone' = Gone /\ Listed' = Listed
  BY <1>1 DEF Gone, Listed, Backed, IInv, StoreInv, IdInv, IndexIds
<1>3. Holder' = Holder
  BY <1>1, HolderIsLeased
<1> QED BY <1>1, <1>2, <1>3, QuietLeases

\* Every step of the store is a step of the leases, or none.
LEMMA StepLeases == ASSUME IInv, IInv', [Next]_vars PROVE LeaseStep
<1>1. ASSUME NEW t \in Thread, WriteIndex(t) PROVE LeaseStep
  BY <1>1, ListLeases, UnlistLeases, RewriteLeases
<1>2. CASE index' = index /\ known' = known
  <2>1. Gone' = Gone
    BY <1>2 DEF Gone
  <2>2. CASE Listed' # Listed
    <3>1. PICK t \in Thread : /\ Save(t) /\ job[t].s \in index /\ lockOf[t[1]][job[t].s] = "linked"
                              /\ Listed' = Listed \cup {job[t].s}
      BY <1>2, <2>2, ListedStep
    <3>2. lockOf' = lockOf
      BY <3>1 DEF Save, claims
    <3>3. Holder' = Holder
      BY <1>2, <3>2, HolderIsLeased
    <3> QED BY <1>2, <2>1, <3>1, <3>3, SaveLeases
  <2>3. CASE Listed' = Listed
    <3>1. CASE lockOf' = lockOf
      <4>1. Holder' = Holder
        BY <1>2, <3>1, HolderIsLeased
      <4> QED BY <1>2, <2>1, <2>3, <4>1, QuietLeases
    <3> QED BY <1>2, <2>1, <2>3, <3>1, LinksStep, TryLockLeases, UnlinkLeases, UnclaimLeases, CrashLeases
  <2> QED BY <2>2, <2>3
<1> QED BY <1>1, <1>2, KnownStep

\* The store implements the leases: whatever the processes call and wherever
\* they die, a session has one holder at a time, only its holder writes or
\* removes it, and one that was removed never returns.
THEOREM StoreLeases == ASSUME ~LeftRemoval PROVE Spec => ImplementsLeases
<1>1. Init => Leases!Init
  BY DEF Init, Leases!Init, Holder, Holders
<1>2. IInv /\ IInv' /\ [Next]_vars => [Leases!Next]_(Leases!vars)
  BY StepLeases DEF LeaseStep
<1> QED BY <1>1, <1>2, ClaimsInvariant, PTL DEF Spec, ImplementsLeases, Leases!Spec
================================================================================
