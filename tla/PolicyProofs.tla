------------------------------ MODULE PolicyProofs ------------------------------
(***************************************************************************)
(* What holds of the two policies a tool call meets, the approval modes    *)
(* and the hooks, which share nothing.                                     *)
(*                                                                         *)
(* The modes, for any directories, processes, saved modes, writers and     *)
(* deaths: a process applies what its stamp says it has read, no writer    *)
(* takes back another's trust, and nothing but a selection of a human's    *)
(* own frontend loosens a mode.  None of the three is inductive.  That a   *)
(* write keeps what others recorded rests on who holds trust.lock and on   *)
(* what the holder has read (LockInv, JobInv, KeptInv); that a stamp is of *)
(* modes applied rests on stamps never being ahead of the store (StampInv) *)
(* and on a process naming every root the store names (Honours): without   *)
(* the second, a selection of a mode the store already has could uncover a *)
(* stricter one saved nearer.                                              *)
(*                                                                         *)
(* The hooks, for every set of hook files and contents.  What went through *)
(* says nothing of how it came to: GatesHold is not inductive.  Policy     *)
(* adds what a discovery makes sure of, that each gate a human installed   *)
(* stands or something fails closed, and that what is kept was approved;   *)
(* nothing but the next discovery touches that.  Progress adds who has     *)
(* judged and who is still to judge while a call, a prompt or an end is    *)
(* put to the hooks one by one.                                            *)
(***************************************************************************)
EXTENDS ApprovalModes, HookPolicy, WellFoundedInduction, TLAPS

-----------------------------------------------------------------------------
(* The approval modes.                                                     *)

\* A process is between load and write exactly while it holds trust.lock.
LockInv == \A p \in Procs : locked = p <=> place[p] \in {"load", "write"}

\* A change is under way from the wait for the lock on, and never for a process
\* an agent spawned.
JobInv ==
    \A p \in Procs :
        /\ job[p].kind # "none" <=> place[p] \in {"lock", "load", "write"}
        /\ job[p].kind # "none" \/ place[p] = "asked" => p \notin spawned
        /\ job[p].kind = "none" => job[p] = NoJob

\* The calls' own history is what the store holds, but while one is about to
\* replace it; that one has read the history.
KeptInv ==
    /\ (\A p \in Procs : place[p] # "write") => Content = kept
    /\ \A p \in Procs : place[p] = "write" => job[p].found = kept

\* No stamp is of a store that is yet to come.
StampInv == \A p \in Procs : seen[p] <= version /\ stamp[p] <= version

\* A process's modes stand up to saved ones: they name every root those name,
\* and govern no path more loosely.  That they name as much is what a selection
\* of a mode already saved needs.
Honours(mine, theirs) ==
    \A r \in Roots : /\ theirs[r] # Unset => mine[r] # Unset
                     /\ AtLeast(Governing(mine, r), Governing(theirs, r))

LiveInv ==
    \A p \in Procs : Running(p) /\ stamp[p] # 0 /\ stamp[p] = Stamp /\ parses =>
        Honours(live[p], Trusted(file))

ModesInv == ModesTypeOK /\ LockInv /\ JobInv /\ KeptInv /\ StampInv /\ LiveInv

------------------------------------------------------------------------------
(* Which mode governs *)

\* A set of numbers that is not empty has a least one.
LEMMA LeastNumber ==
    ASSUME NEW S \in SUBSET Nat, S # {}
    PROVE  \E i \in S : \A j \in S : i <= j
<1>1. PICK i \in S : \A j \in S : <<j, i>> \notin OpToRel(<, Nat)
  BY NatLessThanWellFounded, WFMin, Zenon
<1>2. \A j \in S : ~(j < i)
  BY <1>1, Zenon DEF OpToRel
<1> QED BY <1>2

\* The nearest entry of a chain governs, and only the default where there is none.
LEMMA GoverningNone ==
    ASSUME NEW saved, NEW r \in Roots, NamedAt(saved, r) = {}
    PROVE  Governing(saved, r) = Default
BY DEF Governing

LEMMA GoverningAt ==
    ASSUME ChainAssumption, NEW saved, NEW r \in Roots, NEW i \in NamedAt(saved, r),
           \A j \in NamedAt(saved, r) : i <= j
    PROVE  Governing(saved, r) = saved[Chain[r][i]]
<1>1. NamedAt(saved, r) \subseteq Nat
  BY DEF NamedAt, ChainAssumption
<1>2. \A k \in NamedAt(saved, r) : (\A j \in NamedAt(saved, r) : k <= j) => k = i
  BY <1>1
<1>3. i = CHOOSE k \in NamedAt(saved, r) : \A j \in NamedAt(saved, r) : k <= j
  BY <1>2
<1> QED BY <1>3 DEF Governing

LEMMA Nearest ==
    ASSUME ChainAssumption, NEW saved, NEW r \in Roots, NamedAt(saved, r) # {}
    PROVE  \E i \in NamedAt(saved, r) :
              /\ i \in 1..Len(Chain[r]) /\ saved[Chain[r][i]] # Unset
              /\ \A j \in NamedAt(saved, r) : i <= j
              /\ Governing(saved, r) = saved[Chain[r][i]]
<1>1. NamedAt(saved, r) \in SUBSET Nat
  BY DEF NamedAt, ChainAssumption
<1>2. PICK i \in NamedAt(saved, r) : \A j \in NamedAt(saved, r) : i <= j
  BY <1>1, LeastNumber
<1>3. i \in 1..Len(Chain[r]) /\ saved[Chain[r][i]] # Unset
  BY DEF NamedAt
<1> QED BY <1>2, <1>3, GoverningAt

\* What a chain's directory is governed by, where nothing nearer has an entry.
LEMMA GoverningFrom ==
    ASSUME ChainAssumption, NEW saved, NEW r \in Roots, NEW i \in 1..Len(Chain[r]),
           \A j \in NamedAt(saved, r) : i <= j
    PROVE  /\ Chain[r][i] \in Roots
           /\ Governing(saved, r) = Governing(saved, Chain[r][i])
<1> DEFINE q == Chain[r][i]
<1>1. q \in Roots /\ Chain[r] \in Seq(Roots) /\ Chain[q] = SubSeq(Chain[r], i, Len(Chain[r]))
  <2>1. Chain[r] \in Seq(Roots)
    BY DEF ChainAssumption
  <2>2. Chain[r][i] \in Roots
    BY <2>1
  <2>3. Chain[Chain[r][i]] = SubSeq(Chain[r], i, Len(Chain[r]))
    BY DEF ChainAssumption
  <2> QED BY <2>1, <2>2, <2>3
<1>2. Len(Chain[q]) = Len(Chain[r]) - i + 1 /\ \A k \in 1..Len(Chain[q]) : Chain[q][k] = Chain[r][i + k - 1]
  BY <1>1
<1>3. ASSUME NEW k \in NamedAt(saved, q) PROVE i + k - 1 \in NamedAt(saved, r)
  <2>1. k \in 1..Len(Chain[q]) /\ saved[Chain[q][k]] # Unset
    BY DEF NamedAt
  <2> QED BY <1>1, <1>2, <2>1 DEF NamedAt
<1>4. ASSUME NEW k \in NamedAt(saved, r) PROVE k - i + 1 \in NamedAt(saved, q)
  <2>1. k \in 1..Len(Chain[r]) /\ saved[Chain[r][k]] # Unset /\ i <= k
    BY DEF NamedAt
  <2>2. k - i + 1 \in 1..Len(Chain[q]) /\ i + (k - i + 1) - 1 = k
    BY <1>1, <1>2, <2>1
  <2>3. Chain[q][k - i + 1] = Chain[r][k]
    BY <1>2, <2>2
  <2> QED BY <2>1, <2>2, <2>3 DEF NamedAt
<1>5. CASE NamedAt(saved, r) = {}
  <2>1. NamedAt(saved, q) = {}
    BY <1>3, <1>5
  <2> QED BY <1>1, <1>5, <2>1, GoverningNone
<1>6. CASE NamedAt(saved, r) # {}
  <2>1. PICK n \in NamedAt(saved, r) : /\ n \in 1..Len(Chain[r])
                                       /\ \A j \in NamedAt(saved, r) : n <= j
                                       /\ Governing(saved, r) = saved[Chain[r][n]]
    BY <1>6, Nearest
  <2>2. n - i + 1 \in NamedAt(saved, q)
    BY <1>4, <2>1
  <2>3. n - i + 1 \in 1..Len(Chain[q]) /\ i + (n - i + 1) - 1 = n
    BY <1>1, <1>2, <2>1, <2>2 DEF NamedAt
  <2>4. ASSUME NEW j \in NamedAt(saved, q) PROVE n - i + 1 <= j
    <3>1. j \in 1..Len(Chain[q]) /\ n <= i + j - 1
      BY <1>3, <2>1 DEF NamedAt
    <3> QED BY <1>1, <1>2, <2>1, <3>1
  <2>5. Governing(saved, q) = saved[Chain[q][n - i + 1]]
    BY <1>1, <2>2, <2>4, GoverningAt
  <2> QED BY <1>1, <1>2, <2>1, <2>3, <2>5
<1> QED BY <1>5, <1>6

\* The mode that governs is one of the map's entries, or the default.
LEMMA GoverningMode ==
    ASSUME ChainAssumption, ProcsAssumption, NEW saved \in Saved, NEW r \in Roots
    PROVE  Governing(saved, r) \in ApprovalMode
<1>1. CASE NamedAt(saved, r) = {}
  BY <1>1, GoverningNone DEF ProcsAssumption
<1>2. CASE NamedAt(saved, r) # {}
  <2>1. PICK i \in NamedAt(saved, r) : /\ i \in 1..Len(Chain[r]) /\ saved[Chain[r][i]] # Unset
                                       /\ Governing(saved, r) = saved[Chain[r][i]]
    BY <1>2, Nearest
  <2>2. Chain[r] \in Seq(Roots)
    BY DEF ChainAssumption
  <2>3. Chain[r][i] \in Roots
    BY <2>1, <2>2
  <2> QED BY <2>1, <2>3 DEF Saved
<1> QED BY <1>1, <1>2

\* Strictness orders the modes, and Stricter takes the stricter of two.
LEMMA StricterBounds ==
    ASSUME NEW m \in ApprovalMode, NEW n \in ApprovalMode
    PROVE  /\ Stricter(m, n) \in ApprovalMode
           /\ AtLeast(Stricter(m, n), m) /\ AtLeast(Stricter(m, n), n)
BY DEF ApprovalMode, Stricter, AtLeast, Strictness

LEMMA AtLeastOrder ==
    ASSUME NEW l \in ApprovalMode, NEW m \in ApprovalMode, NEW n \in ApprovalMode
    PROVE  /\ AtLeast(m, m)
           /\ AtLeast(l, m) /\ AtLeast(m, n) => AtLeast(l, n)
BY DEF ApprovalMode, AtLeast, Strictness

\* What a merge names, and that at every root it is governed by the stricter of
\* the modes that governed there (tightened).
LEMMA TightenedGoverns ==
    ASSUME ChainAssumption, ProcsAssumption, NEW mine \in Saved, NEW theirs \in Saved
    PROVE  /\ Tightened(mine, theirs) \in Saved
           /\ \A r \in Roots : theirs[r] # Unset => Tightened(mine, theirs)[r] # Unset
           /\ \A r \in Roots :
                 Governing(Tightened(mine, theirs), r) = Stricter(Governing(mine, r), Governing(theirs, r))
<1> DEFINE both == Tightened(mine, theirs)
<1>1. \A r \in Roots : Stricter(Governing(mine, r), Governing(theirs, r)) \in ApprovalMode
  BY GoverningMode, StricterBounds
<1>2. both \in Saved
  BY <1>1 DEF Tightened, Saved
<1>3. Unset \notin ApprovalMode
  BY DEF Unset, ApprovalMode
<1>4. \A r \in Roots : both[r] = Unset <=> mine[r] = Unset /\ theirs[r] = Unset
  BY <1>1, <1>3 DEF Tightened
<1>5. ASSUME NEW r \in Roots
      PROVE  Governing(both, r) = Stricter(Governing(mine, r), Governing(theirs, r))
  <2>1. Chain[r] \in Seq(Roots) /\ \A i \in 1..Len(Chain[r]) : Chain[r][i] \in Roots
    BY DEF ChainAssumption
  <2>2. NamedAt(both, r) = NamedAt(mine, r) \cup NamedAt(theirs, r)
    BY <1>4, <2>1 DEF NamedAt
  <2>3. CASE NamedAt(both, r) = {}
    <3>1. NamedAt(mine, r) = {} /\ NamedAt(theirs, r) = {}
      BY <2>2, <2>3
    <3>2. Stricter(Default, Default) = Default
      BY DEF Stricter
    <3> QED BY <2>3, <3>1, <3>2, GoverningNone
  <2>4. CASE NamedAt(both, r) # {}
    <3>1. PICK i \in NamedAt(both, r) :
             /\ i \in 1..Len(Chain[r]) /\ both[Chain[r][i]] # Unset
             /\ \A j \in NamedAt(both, r) : i <= j
             /\ Governing(both, r) = both[Chain[r][i]]
      BY <2>4, Nearest
    <3>2. Governing(mine, r) = Governing(mine, Chain[r][i])
      BY <2>2, <3>1, GoverningFrom
    <3>3. Governing(theirs, r) = Governing(theirs, Chain[r][i])
      BY <2>2, <3>1, GoverningFrom
    <3>4. both[Chain[r][i]] = Stricter(Governing(mine, Chain[r][i]), Governing(theirs, Chain[r][i]))
      BY <1>4, <2>1, <3>1 DEF Tightened
    <3> QED BY <3>1, <3>2, <3>3, <3>4
  <2> QED BY <2>3, <2>4
<1> QED BY <1>2, <1>4, <1>5

\* root is in r's chain, and nothing nearer has an entry.
Reaches(saved, root, r) ==
    \E i \in 1..Len(Chain[r]) : Chain[r][i] = root /\ \A j \in NamedAt(saved, r) : i <= j

\* An entry set at one root governs where it is the nearest, and changes
\* nothing elsewhere.
LEMMA EntryGoverns ==
    ASSUME ChainAssumption, ProcsAssumption, NEW saved \in Saved,
           NEW root \in Roots, NEW m \in ApprovalMode, NEW r \in Roots
    PROVE  /\ [saved EXCEPT ![root] = m] \in Saved
           /\ \/ Governing([saved EXCEPT ![root] = m], r) = Governing(saved, r)
              \/ Reaches(saved, root, r) /\ Governing([saved EXCEPT ![root] = m], r) = m
<1> DEFINE set == [saved EXCEPT ![root] = m]
<1>1. set \in Saved
  BY DEF Saved
<1>2. Chain[r] \in Seq(Roots) /\ \A i \in 1..Len(Chain[r]) : Chain[r][i] \in Roots
  BY DEF ChainAssumption
<1>3. \A q \in Roots : set[q] = IF q = root THEN m ELSE saved[q]
  BY DEF Saved
<1>4. m # Unset
  BY DEF Unset, ApprovalMode
<1>5. NamedAt(saved, r) \subseteq NamedAt(set, r)
  BY <1>2, <1>3, <1>4 DEF NamedAt
<1>6. CASE NamedAt(set, r) = {}
  <2>1. NamedAt(saved, r) = {}
    BY <1>5, <1>6
  <2> QED BY <1>1, <1>6, <2>1, GoverningNone
<1>7. CASE NamedAt(set, r) # {}
  <2>1. PICK i \in NamedAt(set, r) :
           /\ i \in 1..Len(Chain[r]) /\ set[Chain[r][i]] # Unset
           /\ \A j \in NamedAt(set, r) : i <= j
           /\ Governing(set, r) = set[Chain[r][i]]
    BY <1>7, Nearest
  <2>2. CASE Chain[r][i] = root
    BY <1>1, <1>2, <1>3, <1>5, <2>1, <2>2 DEF Reaches
  <2>3. CASE Chain[r][i] # root
    <3>1. saved[Chain[r][i]] = set[Chain[r][i]]
      BY <1>2, <1>3, <2>1, <2>3
    <3>2. i \in NamedAt(saved, r) /\ \A j \in NamedAt(saved, r) : i <= j
      BY <1>5, <2>1, <3>1 DEF NamedAt
    <3>3. Governing(saved, r) = saved[Chain[r][i]]
      BY <3>2, GoverningAt
    <3> QED BY <1>1, <2>1, <3>1, <3>3
  <2> QED BY <2>2, <2>3
<1> QED BY <1>6, <1>7

------------------------------------------------------------------------------
(* Types *)

Jobs == [kind : {"none", "grant", "set"}, root : Roots, mode : ApprovalMode, found : TrustFiles]

LEMMA FilesTyped ==
    ASSUME ProcsAssumption
    PROVE  /\ Missing \in TrustFiles /\ Stores \subseteq TrustFiles
           /\ \A f \in TrustFiles : /\ f = [projects |-> f.projects, modes |-> f.modes]
                                    /\ f.modes \in Saved /\ Trusted(f) \in Saved
           /\ \A f \in TrustFiles, j \in Jobs : Change(f, j) \in TrustFiles
<1>1. Missing \in TrustFiles /\ Stores \subseteq TrustFiles
  BY DEF Missing, TrustFiles, Saved, ProcsAssumption
<1>2. \A f \in TrustFiles : /\ f = [projects |-> f.projects, modes |-> f.modes]
                            /\ f.modes \in Saved /\ Trusted(f) \in Saved
  BY DEF TrustFiles, Saved, Trusted
<1>3. ASSUME NEW f \in TrustFiles, NEW j \in Jobs PROVE Change(f, j) \in TrustFiles
  <2>1. f.projects \cup {j.root} \in SUBSET Roots /\ f.projects \in SUBSET Roots /\ f.modes \in Saved
    BY DEF TrustFiles, Jobs
  <2>2. [f.modes EXCEPT ![j.root] = j.mode] \in Saved
    BY <2>1 DEF Saved, Jobs
  <2> QED BY <2>1, <2>2 DEF Change, TrustFiles
<1> QED BY <1>1, <1>2, <1>3

LEMMA JobsTyped ==
    ASSUME ProcsAssumption, NEW p \in Procs
    PROVE  /\ NoJob \in Jobs /\ NoJob.kind = "none"
           /\ Project[p] \in Roots /\ Worktree[p] \in Roots
           /\ \A k \in {"grant", "set"}, r \in Roots, m \in ApprovalMode :
                 Job(k, r, m) \in Jobs /\ Job(k, r, m).kind = k /\ Job(k, r, m).root = r /\ Job(k, r, m).mode = m
           /\ \A j \in Jobs, f \in TrustFiles :
                 /\ [j EXCEPT !.found = f] \in Jobs
                 /\ [j EXCEPT !.found = f].kind = j.kind /\ [j EXCEPT !.found = f].found = f
                 /\ \A g \in TrustFiles : Change(g, [j EXCEPT !.found = f]) = Change(g, j)
<1>1. Project[p] \in Roots /\ Worktree[p] \in Roots /\ Default \in ApprovalMode /\ Missing \in TrustFiles
  BY FilesTyped DEF ProcsAssumption
<1>2. (CHOOSE r \in Roots : TRUE) \in Roots
  BY <1>1
<1>3. NoJob \in Jobs /\ NoJob.kind = "none"
  BY <1>1, <1>2 DEF NoJob, Jobs
<1>4. \A k \in {"grant", "set"}, r \in Roots, m \in ApprovalMode :
         Job(k, r, m) \in Jobs /\ Job(k, r, m).kind = k /\ Job(k, r, m).root = r /\ Job(k, r, m).mode = m
  BY <1>1 DEF Job, Jobs
<1>5. \A j \in Jobs, f \in TrustFiles :
         /\ [j EXCEPT !.found = f] \in Jobs
         /\ [j EXCEPT !.found = f].kind = j.kind /\ [j EXCEPT !.found = f].found = f
         /\ \A g \in TrustFiles : Change(g, [j EXCEPT !.found = f]) = Change(g, j)
  BY DEF Jobs, Change
<1> QED BY <1>1, <1>3, <1>4, <1>5

LEMMA StateTyped ==
    ASSUME ProcsAssumption, ModesTypeOK
    PROVE  /\ Content \in TrustFiles /\ Trusted(Content) \in Saved
           /\ Stamp \in 0..MaxWrites + 1 /\ version \in Nat /\ MaxWrites \in Nat
           /\ job \in [Procs -> Jobs] /\ Nobody \notin Procs
<1>1. Content \in TrustFiles
  BY FilesTyped DEF Content, ModesTypeOK
<1>2. Stamp \in 0..MaxWrites + 1 /\ version \in Nat /\ MaxWrites \in Nat
  BY DEF Stamp, ModesTypeOK, ProcsAssumption
<1> QED BY <1>1, <1>2, FilesTyped DEF ModesTypeOK, Jobs, ProcsAssumption

\* The modes a launch may take are modes.
LEMMA HeldTyped ==
    ASSUME ChainAssumption, ProcsAssumption, NEW p \in Procs, NEW saved \in Saved
    PROVE  Held(p, saved) \in Saved
<1>1. Worktree[p] \in Roots /\ Project[p] \in Roots
  BY DEF ProcsAssumption
<1>2. Stricter(Governing(saved, Worktree[p]), Governing(saved, Project[p])) \in ApprovalMode
  BY <1>1, GoverningMode, StricterBounds
<1> QED BY <1>1, <1>2 DEF Held, Saved

Places == {"off", "asked", "lock", "load", "write", "stamp", "read", "up", "reread"}

LEMMA LeaveTyped ==
    ASSUME ProcsAssumption, ModesTypeOK, NEW p \in Procs, Leave(p)
    PROVE  ModesTypeOK'
<1>1. NoJob \in Jobs /\ Content \in TrustFiles /\ job \in [Procs -> Jobs] /\ Missing.modes \in Saved
  BY JobsTyped, StateTyped, FilesTyped
<1>2. job' \in [Procs -> Jobs] /\ locked' \in Procs \cup {Nobody} /\ kept' \in TrustFiles
  BY <1>1 DEF Leave, Forget, Release, ModesTypeOK
<1>3. live' \in [Procs -> Saved] /\ seen' \in [Procs -> 0..MaxWrites + 1] /\ stamp' \in [Procs -> 0..MaxWrites + 1]
  BY <1>1, StateTyped DEF Leave, ModesTypeOK
<1>4. place' \in [Procs -> Places]
  BY DEF Leave, Moves, Places, ModesTypeOK
<1> QED BY <1>2, <1>3, <1>4 DEF Leave, trust_json, ModesTypeOK, Jobs, Places

\* A call's return, and its failure, keep the type of what they change.
LEMMA ReturnTyped ==
    ASSUME ProcsAssumption, ModesTypeOK, NEW p \in Procs, Return(p)
    PROVE  /\ job' \in [Procs -> Jobs] /\ locked' \in Procs \cup {Nobody}
           /\ live' \in [Procs -> Saved] /\ stamp' = stamp /\ seen' = seen
           /\ place' \in [Procs -> Places]
<1>1. NoJob \in Jobs /\ job \in [Procs -> Jobs]
  BY JobsTyped, StateTyped
<1>2. job' \in [Procs -> Jobs] /\ locked' \in Procs \cup {Nobody}
  BY <1>1 DEF Return, Forget, Release, ModesTypeOK
<1>3. stamp' = stamp /\ seen' = seen
  BY DEF Return, Applied
<1>4. place' \in [Procs -> Places]
  BY DEF Return, Moves, Places, ModesTypeOK
<1>5. job[p].root \in Roots /\ job[p].mode \in ApprovalMode
  BY <1>1 DEF Jobs
<1>6. [live[p] EXCEPT ![job[p].root] = job[p].mode] \in Saved
  BY <1>5 DEF ModesTypeOK, Saved
<1>7. live' \in [Procs -> Saved]
  BY <1>6 DEF Return, Applied, ModesTypeOK
<1> QED BY <1>2, <1>3, <1>4, <1>7

LEMMA FailTyped ==
    ASSUME ProcsAssumption, ModesTypeOK, NEW p \in Procs, Fails(p)
    PROVE  ModesTypeOK'
<1>1. CASE Leave(p)
  BY <1>1, LeaveTyped
<1>2. CASE /\ Moves(p, "up") /\ Forget(p) /\ Release(p) /\ kept' = Content
           /\ UNCHANGED <<trust_json, modes>>
  <2>1. NoJob \in Jobs /\ job \in [Procs -> Jobs] /\ Content \in TrustFiles
    BY JobsTyped, StateTyped
  <2>2. job' \in [Procs -> Jobs] /\ locked' \in Procs \cup {Nobody} /\ kept' \in TrustFiles
    BY <1>2, <2>1 DEF Forget, Release, ModesTypeOK
  <2>3. place' \in [Procs -> Places]
    BY <1>2 DEF Moves, Places, ModesTypeOK
  <2> QED BY <1>2, <2>2, <2>3 DEF trust_json, modes, ModesTypeOK, Jobs, Places
<1> QED BY <1>1, <1>2 DEF Fails

LEMMA TypeStep == ASSUME ChainAssumption, ProcsAssumption, ModesTypeOK, [ModesNext]_modes_vars PROVE ModesTypeOK'
<1> USE DEF Places
<1>1. job \in [Procs -> Jobs] /\ Content \in TrustFiles /\ Trusted(Content) \in Saved
  BY StateTyped
<1>2. Stamp \in 0..MaxWrites + 1 /\ version \in Nat /\ MaxWrites \in Nat
  BY StateTyped
<1>3. ASSUME NEW p \in Procs, Trust(p) PROVE ModesTypeOK'
  <2>1. Project[p] \in Roots
    BY DEF ProcsAssumption
  <2>2. Job("grant", Project[p], "auto") \in Jobs
    BY <2>1, JobsTyped DEF ApprovalMode
  <2>3. job' \in [Procs -> Jobs] /\ place' \in [Procs -> Places]
    BY <1>1, <1>3, <2>2 DEF Trust, Moves, ModesTypeOK
  <2> QED BY <1>3, <2>3 DEF Trust, trust_json, modes, ModesTypeOK, Jobs
<1>4. ASSUME NEW p \in Procs, NEW m \in ApprovalMode, Answer(p, m) PROVE ModesTypeOK'
  <2>1. Job("grant", Project[p], m) \in Jobs
    BY JobsTyped
  <2>2. job' \in [Procs -> Jobs] /\ place' \in [Procs -> Places]
    BY <1>1, <1>4, <2>1 DEF Answer, Moves, ModesTypeOK
  <2> QED BY <1>4, <2>2 DEF Answer, trust_json, modes, ModesTypeOK, Jobs
<1>5. ASSUME NEW p \in Procs, LaunchStamp(p) PROVE ModesTypeOK'
  BY <1>2, <1>5 DEF LaunchStamp, TakeStamp, Moves, trust_json, trust_call, ModesTypeOK
<1>6. ASSUME NEW p \in Procs, Launch(p) PROVE ModesTypeOK'
  <2>1. Held(p, Trusted(Content)) \in Saved
    BY <1>1, HeldTyped
  <2>2. live' \in [Procs -> Saved] /\ place' \in [Procs -> Places]
    BY <1>6, <2>1 DEF Launch, Moves, ModesTypeOK
  <2>3. seen' \in [Procs -> 0..MaxWrites + 1] /\ stamp' \in [Procs -> 0..MaxWrites + 1]
    BY <1>2, <1>6 DEF Launch, ModesTypeOK
  <2> QED BY <1>6, <2>2, <2>3 DEF Launch, trust_json, trust_call, ModesTypeOK
<1>7. ASSUME NEW p \in Procs, Quit(p) PROVE ModesTypeOK'
  BY <1>7, LeaveTyped DEF Quit
<1>8. ASSUME NEW p \in Procs, Refresh(p) PROVE ModesTypeOK'
  BY <1>2, <1>8 DEF Refresh, TakeStamp, Moves, trust_json, trust_call, ModesTypeOK
<1>9. ASSUME NEW p \in Procs, Adopt(p) PROVE ModesTypeOK'
  <2>1. Tightened(live[p], Trusted(Content)) \in Saved
    BY <1>1, TightenedGoverns DEF ModesTypeOK
  <2>2. live' \in [Procs -> Saved] /\ place' \in [Procs -> Places]
    BY <1>9, <2>1 DEF Adopt, Moves, ModesTypeOK
  <2>3. seen' \in [Procs -> 0..MaxWrites + 1] /\ stamp' \in [Procs -> 0..MaxWrites + 1]
    BY <1>2, <1>9 DEF Adopt, ModesTypeOK
  <2> QED BY <1>9, <2>2, <2>3 DEF Adopt, trust_json, trust_call, ModesTypeOK
<1>10. ASSUME NEW p \in Procs, NEW m \in ApprovalMode, Select(p, m) PROVE ModesTypeOK'
  <2>1. Project[p] \in Roots
    BY DEF ProcsAssumption
  <2>2. Job("set", Project[p], m) \in Jobs
    BY <2>1, JobsTyped
  <2>3. job' \in [Procs -> Jobs] /\ place' \in [Procs -> Places]
    BY <1>1, <1>10, <2>2 DEF Select, Moves, ModesTypeOK
  <2> QED BY <1>10, <2>3 DEF Select, trust_json, modes, ModesTypeOK, Jobs
<1>11. ASSUME NEW p \in Procs, Lock(p) PROVE ModesTypeOK'
  BY <1>11 DEF Lock, Moves, trust_json, modes, ModesTypeOK
<1>12. ASSUME NEW p \in Procs, Load(p) PROVE ModesTypeOK'
  <2>1. CASE Fails(p)
    BY <2>1, FailTyped
  <2>2. CASE UNCHANGED <<trust_json, kept>> /\ Return(p)
    BY <2>2, ReturnTyped DEF trust_json, ModesTypeOK, Jobs
  <2>3. CASE /\ Moves(p, "write") /\ job' = [job EXCEPT ![p].found = Content]
             /\ UNCHANGED <<trust_json, modes, locked, kept>>
    <3>1. [job[p] EXCEPT !.found = Content] \in Jobs
      BY <1>1, JobsTyped
    <3>2. job' \in [Procs -> Jobs] /\ place' \in [Procs -> Places]
      BY <1>1, <2>3, <3>1 DEF Moves, ModesTypeOK
    <3> QED BY <2>3, <3>2 DEF trust_json, modes, ModesTypeOK, Jobs
  <2> QED BY <1>12, <2>1, <2>2, <2>3 DEF Load
<1>13. ASSUME NEW p \in Procs, Write(p) PROVE ModesTypeOK'
  <2>1. CASE Fails(p)
    BY <2>1, FailTyped
  <2>2. CASE /\ version <= MaxWrites /\ version' = version + 1
             /\ exists' = TRUE /\ parses' = TRUE /\ spawned' = spawned /\ file' = Change(job[p].found, job[p])
             /\ kept' = Change(kept, job[p]) /\ Return(p)
    <3>1. job[p] \in Jobs /\ job[p].found \in TrustFiles /\ kept \in TrustFiles
      BY <1>1 DEF Jobs, ModesTypeOK
    <3>2. file' \in TrustFiles /\ kept' \in TrustFiles
      BY <2>2, <3>1, FilesTyped
    <3>3. version' \in 1..MaxWrites + 1 /\ spawned' \in Teams /\ exists' \in BOOLEAN /\ parses' \in BOOLEAN
      BY <1>2, <2>2 DEF ModesTypeOK
    <3> QED BY <2>2, <3>2, <3>3, ReturnTyped DEF ModesTypeOK, Jobs
  <2> QED BY <1>13, <2>1, <2>2 DEF Write
<1>14. ASSUME Tamper PROVE ModesTypeOK'
  <2>1. file' \in TrustFiles /\ exists' \in BOOLEAN /\ parses' \in BOOLEAN
    BY <1>14, FilesTyped DEF Tamper, ModesTypeOK
  <2>2. kept' \in TrustFiles
    BY <1>14, <2>1, FilesTyped DEF Tamper, Content, ModesTypeOK
  <2>3. version' \in 1..MaxWrites + 1
    BY <1>2, <1>14 DEF Tamper, ModesTypeOK
  <2> QED BY <1>14, <2>1, <2>2, <2>3 DEF Tamper, modes, ModesTypeOK
<1>15. CASE UNCHANGED modes_vars
  BY <1>15 DEF modes_vars, ModesTypeOK
<1> QED BY <1>3, <1>4, <1>5, <1>6, <1>7, <1>8, <1>9, <1>10, <1>11, <1>12, <1>13, <1>14, <1>15 DEF ModesNext

------------------------------------------------------------------------------
(* Who holds the lock, and what each process is making *)

Control == LockInv /\ JobInv

LEMMA ControlStep ==
    ASSUME ChainAssumption, ProcsAssumption, ModesTypeOK, Control, [ModesNext]_modes_vars
    PROVE  Control'
<1> USE DEF Control, LockInv, JobInv
<1>1. job \in [Procs -> Jobs] /\ Nobody \notin Procs /\ place \in [Procs -> Places]
  BY StateTyped DEF ModesTypeOK, Places
<1>2. \A p \in Procs : NoJob \in Jobs /\ NoJob.kind = "none"
  BY JobsTyped
<1>3. ASSUME NEW p \in Procs, Leave(p) PROVE Control'
  BY <1>1, <1>2, <1>3 DEF Leave, Moves, Forget, Release, trust_json
<1>4. ASSUME NEW p \in Procs, Trust(p) PROVE Control'
  <2>1. Job("grant", Project[p], "auto").kind = "grant"
    BY DEF Job
  <2> QED BY <1>1, <1>4, <2>1 DEF Trust, Moves, trust_json
<1>5. ASSUME NEW p \in Procs, NEW m \in ApprovalMode, Answer(p, m) PROVE Control'
  <2>1. Job("grant", Project[p], m).kind = "grant"
    BY DEF Job
  <2> QED BY <1>1, <1>5, <2>1 DEF Answer, Moves, trust_json
<1>6. ASSUME NEW p \in Procs, NEW m \in ApprovalMode, Select(p, m) PROVE Control'
  <2>1. Job("set", Project[p], m).kind = "set"
    BY DEF Job
  <2> QED BY <1>1, <1>6, <2>1 DEF Select, Moves, trust_json
<1>7. ASSUME NEW p \in Procs, LaunchStamp(p) \/ Launch(p) \/ Refresh(p) \/ Adopt(p) PROVE Control'
  BY <1>1, <1>7 DEF LaunchStamp, Launch, Refresh, Adopt, Moves, trust_json, trust_call
<1>8. ASSUME NEW p \in Procs, Lock(p) PROVE Control'
  BY <1>1, <1>8 DEF Lock, Moves, trust_json
<1>9. ASSUME NEW p \in Procs, Return(p), spawned' = spawned PROVE Control'
  BY <1>1, <1>2, <1>9 DEF Return, Moves, Forget, Release
<1>10. ASSUME NEW p \in Procs, Fails(p) PROVE Control'
  BY <1>1, <1>2, <1>3, <1>10 DEF Fails, Moves, Forget, Release, trust_json
<1>11. ASSUME NEW p \in Procs, Load(p) PROVE Control'
  <2>1. CASE /\ Moves(p, "write") /\ job' = [job EXCEPT ![p].found = Content]
             /\ UNCHANGED <<trust_json, modes, locked, kept>>
    <3>1. [job[p] EXCEPT !.found = Content].kind = job[p].kind
      BY <1>1 DEF Jobs
    <3>2. place[p] = "load"
      BY <1>11 DEF Load
    <3> QED BY <1>1, <2>1, <3>1, <3>2 DEF Moves, trust_json
  <2> QED BY <1>9, <1>10, <1>11, <2>1 DEF Load, trust_json
<1>12. ASSUME NEW p \in Procs, Write(p) PROVE Control'
  BY <1>9, <1>10, <1>12 DEF Write
<1>13. ASSUME Tamper PROVE Control'
  BY <1>13 DEF Tamper
<1>14. CASE UNCHANGED modes_vars
  BY <1>14 DEF modes_vars
<1> QED BY <1>3, <1>4, <1>5, <1>6, <1>7, <1>8, <1>11, <1>12, <1>13, <1>14 DEF ModesNext, Quit

------------------------------------------------------------------------------
(* The store *)

\* What a call's write and history come to, where the call has found the
\* history.
LEMMA KeptStep ==
    ASSUME ChainAssumption, ProcsAssumption, ModesTypeOK, Control, KeptInv, [ModesNext]_modes_vars
    PROVE  KeptInv'
<1> USE DEF Control, LockInv, JobInv, KeptInv
<1>1. job \in [Procs -> Jobs] /\ Nobody \notin Procs /\ place \in [Procs -> Places]
  BY StateTyped DEF ModesTypeOK, Places
<1>2. \A p, q \in Procs : place[p] = "write" /\ place[q] \in {"load", "write"} => p = q
  BY <1>1
<1>3. ASSUME UNCHANGED trust_json, UNCHANGED kept, UNCHANGED job,
             \A p \in Procs : place'[p] = "write" <=> place[p] = "write"
      PROVE  KeptInv'
  BY <1>3 DEF Content, trust_json
<1>4. ASSUME NEW p \in Procs, UNCHANGED <<trust_json, kept>>, place' = [place EXCEPT ![p] = place'[p]],
             job' = [job EXCEPT ![p] = job'[p]], place'[p] # "write", place[p] # "write"
      PROVE  KeptInv'
  BY <1>1, <1>4 DEF Content, trust_json
<1>5. ASSUME NEW p \in Procs, Leave(p) PROVE KeptInv'
  <2>1. Content' = Content
    BY <1>5 DEF Leave, trust_json, Content
  <2>2. CASE locked = p
    <3>1. \A q \in Procs : place'[q] # "write"
      BY <1>1, <1>2, <1>5, <2>2 DEF Leave, Moves
    <3> QED BY <1>5, <2>1, <2>2, <3>1 DEF Leave
  <2>3. CASE locked # p
    BY <1>1, <1>5, <2>3, <1>4 DEF Leave, Moves, Forget
  <2> QED BY <2>2, <2>3
<1>6. ASSUME NEW p \in Procs, Trust(p) PROVE KeptInv'
  BY <1>1, <1>4, <1>6 DEF Trust, Moves
<1>7. ASSUME NEW p \in Procs, NEW m \in ApprovalMode, Answer(p, m) \/ Select(p, m) PROVE KeptInv'
  BY <1>1, <1>4, <1>7 DEF Answer, Select, Moves
<1>8. ASSUME NEW p \in Procs, LaunchStamp(p) \/ Launch(p) \/ Refresh(p) \/ Adopt(p) PROVE KeptInv'
  BY <1>1, <1>3, <1>8 DEF LaunchStamp, Launch, Refresh, Adopt, Moves, trust_call
<1>9. ASSUME NEW p \in Procs, Lock(p) PROVE KeptInv'
  BY <1>1, <1>3, <1>9 DEF Lock, Moves
<1>10. ASSUME NEW p \in Procs, place[p] \in {"load", "write"}, Fails(p) PROVE KeptInv'
  <2>1. CASE Leave(p)
    BY <2>1, <1>5
  <2>2. CASE Moves(p, "up") /\ kept' = Content /\ UNCHANGED trust_json
    <3>1. Content' = Content
      BY <2>2 DEF trust_json, Content
    <3>2. \A q \in Procs : place'[q] # "write"
      BY <1>1, <1>2, <1>10, <2>2 DEF Moves
    <3> QED BY <2>2, <3>1, <3>2
  <2> QED BY <1>10, <2>1, <2>2 DEF Fails
<1>11. ASSUME NEW p \in Procs, Load(p) PROVE KeptInv'
  <2>1. place[p] = "load"
    BY <1>11 DEF Load
  <2>2. CASE UNCHANGED <<trust_json, kept>> /\ Return(p)
    BY <1>1, <1>4, <2>1, <2>2 DEF Return, Moves, Forget
  <2>3. CASE /\ Moves(p, "write") /\ job' = [job EXCEPT ![p].found = Content]
             /\ UNCHANGED <<trust_json, modes, locked, kept>>
    <3>1. \A q \in Procs : place[q] # "write"
      BY <1>1, <1>2, <2>1
    <3>2. Content = kept /\ Content' = Content /\ kept' = kept
      BY <2>3, <3>1 DEF trust_json, Content
    <3>3. \A q \in Procs : place'[q] = "write" => q = p
      BY <1>1, <2>3, <3>1 DEF Moves
    <3>4. place'[p] = "write" /\ job'[p].found = Content
      BY <1>1, <2>3 DEF Moves, Jobs
    <3> QED BY <3>2, <3>3, <3>4
  <2> QED BY <1>10, <1>11, <2>1, <2>2, <2>3 DEF Load
<1>12. ASSUME NEW p \in Procs, Write(p) PROVE KeptInv'
  <2>1. place[p] = "write"
    BY <1>12 DEF Write
  <2>2. CASE /\ exists' = TRUE /\ file' = Change(job[p].found, job[p])
             /\ kept' = Change(kept, job[p]) /\ Return(p)
    <3>1. \A q \in Procs : place'[q] # "write"
      BY <1>1, <1>2, <2>1, <2>2 DEF Return, Moves
    <3>2. Content' = kept'
      BY <2>1, <2>2 DEF Content
    <3> QED BY <3>1, <3>2
  <2> QED BY <1>10, <1>12, <2>1, <2>2 DEF Write
<1>13. ASSUME Tamper PROVE KeptInv'
  <2>1. CASE \E p \in Procs : locked = p /\ place[p] = "write"
    BY <1>13, <2>1 DEF Tamper
  <2>2. CASE ~\E p \in Procs : locked = p /\ place[p] = "write"
    <3>1. \A q \in Procs : place'[q] # "write"
      BY <1>1, <1>13, <2>2 DEF Tamper
    <3> QED BY <1>13, <2>2, <3>1 DEF Tamper
  <2> QED BY <2>1, <2>2
<1>14. CASE UNCHANGED modes_vars
  BY <1>3, <1>14 DEF modes_vars, trust_json
<1> QED BY <1>5, <1>6, <1>7, <1>8, <1>9, <1>11, <1>12, <1>13, <1>14 DEF ModesNext, Quit

------------------------------------------------------------------------------
(* What each process applies *)

LEMMA StampStep ==
    ASSUME ProcsAssumption, ModesTypeOK, StampInv, [ModesNext]_modes_vars
    PROVE  StampInv' /\ version <= version' /\ (version' = version => UNCHANGED <<exists, parses, file>>)
<1> USE DEF StampInv
<1>1. Stamp \in Nat /\ version \in Nat /\ Stamp <= version /\ 0 <= version
  BY StateTyped DEF Stamp, ModesTypeOK
<1>2. /\ seen \in [Procs -> 0..MaxWrites + 1] /\ stamp \in [Procs -> 0..MaxWrites + 1]
      /\ \A q \in Procs : seen[q] \in Nat /\ stamp[q] \in Nat
  BY StateTyped DEF ModesTypeOK
<1>3. ASSUME NEW p \in Procs, Leave(p) PROVE StampInv' /\ UNCHANGED trust_json
  BY <1>1, <1>2, <1>3 DEF Leave, trust_json
<1>4. ASSUME NEW p \in Procs, LaunchStamp(p) \/ Refresh(p) PROVE StampInv' /\ UNCHANGED trust_json
  BY <1>1, <1>2, <1>4 DEF LaunchStamp, Refresh, TakeStamp, trust_json
<1>5. ASSUME NEW p \in Procs, Launch(p) \/ Adopt(p) PROVE StampInv' /\ UNCHANGED trust_json
  BY <1>1, <1>2, <1>5 DEF Launch, Adopt, trust_json
<1>6. ASSUME UNCHANGED <<trust_json, seen, stamp>> PROVE StampInv' /\ UNCHANGED trust_json
  BY <1>6 DEF trust_json
<1>7. ASSUME NEW p \in Procs, Trust(p) \/ Lock(p) \/ \E m \in ApprovalMode : Answer(p, m) \/ Select(p, m)
      PROVE  StampInv' /\ UNCHANGED trust_json
  BY <1>6, <1>7 DEF Trust, Lock, Answer, Select, modes
<1>8. ASSUME NEW p \in Procs, Return(p) PROVE UNCHANGED <<seen, stamp>>
  BY <1>8 DEF Return, Applied
<1>9. ASSUME NEW p \in Procs, Fails(p) PROVE StampInv' /\ UNCHANGED trust_json
  BY <1>3, <1>6, <1>9 DEF Fails, modes
<1>10. ASSUME NEW p \in Procs, Load(p) PROVE StampInv' /\ UNCHANGED trust_json
  BY <1>6, <1>8, <1>9, <1>10 DEF Load, modes
<1>11. ASSUME version' = version + 1, UNCHANGED <<seen, stamp>> PROVE StampInv'
  BY <1>1, <1>2, <1>11
<1>12. ASSUME NEW p \in Procs, Write(p) PROVE StampInv' /\ (UNCHANGED trust_json \/ version' = version + 1)
  BY <1>8, <1>9, <1>11, <1>12 DEF Write
<1>13. ASSUME Tamper PROVE StampInv' /\ version' = version + 1
  BY <1>11, <1>13 DEF Tamper, modes
<1>14. CASE UNCHANGED modes_vars
  BY <1>1, <1>6, <1>14 DEF modes_vars, trust_json
<1> QED BY <1>1, <1>3, <1>4, <1>5, <1>7, <1>10, <1>12, <1>13, <1>14 DEF ModesNext, Quit, trust_json

\* What a launch takes of the saved modes, and what a refresh makes of them,
\* stands up to them; so does a selection of a mode that is saved already.
LEMMA HeldHonours ==
    ASSUME ChainAssumption, ProcsAssumption, NEW p \in Procs, NEW saved \in Saved
    PROVE  Honours(Held(p, saved), saved)
<1>1. \A r \in Roots : AtLeast(Governing(saved, r), Governing(saved, r))
  BY GoverningMode, AtLeastOrder
<1>2. CASE p \notin spawned
  BY <1>1, <1>2 DEF Held, Honours
<1>3. CASE p \in spawned
  <2> DEFINE root == Worktree[p]
             m == Stricter(Governing(saved, Worktree[p]), Governing(saved, Project[p]))
  <2>1. Worktree[p] \in Roots /\ Project[p] \in Roots
    BY DEF ProcsAssumption
  <2>2. m \in ApprovalMode /\ AtLeast(m, Governing(saved, root))
    BY <2>1, GoverningMode, StricterBounds
  <2>3. Held(p, saved) = [saved EXCEPT ![root] = m]
    BY <1>3 DEF Held
  <2>4. ASSUME NEW r \in Roots PROVE AtLeast(Governing(Held(p, saved), r), Governing(saved, r))
    <3>1. CASE Governing(Held(p, saved), r) = Governing(saved, r)
      BY <1>1, <3>1
    <3>2. CASE Reaches(saved, root, r) /\ Governing(Held(p, saved), r) = m
      <4>1. PICK i \in 1..Len(Chain[r]) : Chain[r][i] = root /\ \A j \in NamedAt(saved, r) : i <= j
        BY <3>2 DEF Reaches
      <4>2. Governing(saved, r) = Governing(saved, root)
        BY <4>1, GoverningFrom
      <4> QED BY <2>2, <3>2, <4>2
    <3>3. root \in Roots
      BY <2>1
    <3> HIDE DEF root, m
    <3>4. \/ Governing([saved EXCEPT ![root] = m], r) = Governing(saved, r)
          \/ Reaches(saved, root, r) /\ Governing([saved EXCEPT ![root] = m], r) = m
      BY <2>2, <3>3, EntryGoverns
    <3> QED BY <2>3, <3>1, <3>2, <3>4, Zenon
  <2>5. Unset \notin ApprovalMode
    BY DEF Unset, ApprovalMode
  <2>6. \A r \in Roots : saved[r] # Unset => Held(p, saved)[r] # Unset
    <3> HIDE DEF root, m
    <3> QED BY <2>1, <2>2, <2>3, <2>5 DEF Saved
  <2> QED BY <2>4, <2>6 DEF Honours
<1> QED BY <1>2, <1>3

LEMMA TightenedHonours ==
    ASSUME ChainAssumption, ProcsAssumption, NEW mine \in Saved, NEW theirs \in Saved
    PROVE  Honours(Tightened(mine, theirs), theirs)
BY TightenedGoverns, GoverningMode, StricterBounds DEF Honours

LEMMA SelectedHonours ==
    ASSUME ChainAssumption, ProcsAssumption, NEW mine \in Saved, NEW theirs \in Saved,
           NEW root \in Roots, NEW m \in ApprovalMode, Honours(mine, theirs), theirs[root] = m
    PROVE  Honours([mine EXCEPT ![root] = m], theirs)
<1> DEFINE set == [mine EXCEPT ![root] = m]
<1>1. Unset \notin ApprovalMode
  BY DEF Unset, ApprovalMode
<1>2. \A r \in Roots : theirs[r] # Unset => set[r] # Unset
  BY <1>1 DEF Honours, Saved
<1>3. ASSUME NEW r \in Roots PROVE AtLeast(Governing(set, r), Governing(theirs, r))
  <2>1. CASE Governing(set, r) = Governing(mine, r)
    BY <2>1 DEF Honours
  <2>2. CASE Reaches(mine, root, r) /\ Governing(set, r) = m
    <3>1. PICK i \in 1..Len(Chain[r]) : Chain[r][i] = root /\ \A j \in NamedAt(mine, r) : i <= j
      BY <2>2 DEF Reaches
    <3>2. NamedAt(theirs, r) \subseteq NamedAt(mine, r)
      <4>1. \A j \in 1..Len(Chain[r]) : Chain[r][j] \in Roots
        BY DEF ChainAssumption
      <4> QED BY <4>1 DEF NamedAt, Honours
    <3>3. i \in NamedAt(theirs, r)
      BY <1>1, <3>1 DEF NamedAt
    <3>4. Governing(theirs, r) = theirs[Chain[r][i]]
      BY <3>1, <3>2, <3>3, GoverningAt
    <3> QED BY <2>2, <3>1, <3>4, AtLeastOrder
  <2>3. set = [mine EXCEPT ![root] = m]
    OBVIOUS
  <2> HIDE DEF set
  <2> QED BY <2>1, <2>2, <2>3, EntryGoverns
<1> QED BY <1>2, <1>3 DEF Honours

\* What a selection that finds its mode saved already says of the store.
LEMMA AlreadySaved ==
    ASSUME ProcsAssumption, ModesTypeOK, NEW p \in Procs, job[p].kind = "set",
           ~Refuses(Content, job[p]), Change(Content, job[p]) = Content
    PROVE  /\ exists /\ Content = file
           /\ file.modes[job[p].root] = job[p].mode /\ Trusted(file)[job[p].root] = job[p].mode
<1>1. job[p] \in Jobs /\ Content \in TrustFiles
  BY StateTyped
<1>2. job[p].root \in Roots /\ Content.modes \in Saved
  BY <1>1, FilesTyped DEF Jobs
<1>3. Covered(Content, job[p].root)
  BY DEF Refuses
<1>4. exists /\ Content = file
  BY <1>3 DEF Content, Covered, Missing
<1>5. [Content.modes EXCEPT ![job[p].root] = job[p].mode] = Content.modes
  BY <1>1 DEF Change, TrustFiles
<1>6. Content.modes[job[p].root] = job[p].mode
  BY <1>2, <1>5 DEF Saved
<1> QED BY <1>2, <1>3, <1>4, <1>6 DEF Trusted

\* What a step does to the modes of a process: nothing, or it launches, reads the
\* store again, has a selection end well, or ends.
Untouched(p) == UNCHANGED <<live[p], stamp[p]>> /\ (Running(p)' => Running(p))
Launched(p) ==
    /\ ~Running(p) /\ Readable /\ UNCHANGED trust_json
    /\ live'[p] = Held(p, Trusted(Content))
Reread(p) ==
    /\ UNCHANGED trust_json
    /\ \/ Readable /\ live'[p] = Tightened(live[p], Trusted(Content))
       \/ ~Readable /\ live'[p] = live[p]
Selected(p) ==
    /\ Running(p) /\ job[p].kind = "set" /\ stamp'[p] = stamp[p]
    /\ live'[p] = [live[p] EXCEPT ![job[p].root] = job[p].mode]
    /\ \/ UNCHANGED trust_json /\ ~Refuses(Content, job[p]) /\ Change(Content, job[p]) = Content
       \/ version' = version + 1 /\ file' = Change(job[p].found, job[p])

LEMMA ModeSteps ==
    ASSUME ProcsAssumption, ModesTypeOK, Control, [ModesNext]_modes_vars, NEW q \in Procs
    PROVE  Untouched(q) \/ Launched(q) \/ Reread(q) \/ Selected(q) \/ place'[q] = "off"
<1>1. /\ job \in [Procs -> Jobs] /\ place \in [Procs -> Places]
      /\ live \in [Procs -> Saved] /\ DOMAIN stamp = Procs
  BY StateTyped DEF ModesTypeOK, Places
<1>2. ASSUME NEW p \in Procs, Leave(p) PROVE Untouched(q) \/ place'[q] = "off"
  BY <1>1, <1>2 DEF Leave, Moves, Forget, Untouched, Running
<1>3. ASSUME NEW p \in Procs, Trust(p) PROVE Untouched(q)
  <2>1. Job("grant", Project[p], "auto").kind = "grant"
    BY DEF Job
  <2> QED BY <1>1, <1>3, <2>1 DEF Trust, Moves, modes, Untouched, Running, Control, JobInv
<1>4. ASSUME NEW p \in Procs, NEW m \in ApprovalMode, Answer(p, m) PROVE Untouched(q)
  <2>1. Job("grant", Project[p], m).kind = "grant"
    BY DEF Job
  <2> QED BY <1>1, <1>4, <2>1 DEF Answer, Moves, modes, Untouched, Running
<1>5. ASSUME NEW p \in Procs, NEW m \in ApprovalMode, Select(p, m) PROVE Untouched(q)
  BY <1>1, <1>5 DEF Select, Moves, modes, Untouched, Running, Control, JobInv
<1>6. ASSUME NEW p \in Procs, LaunchStamp(p) \/ Refresh(p) \/ Lock(p) PROVE Untouched(q)
  BY <1>1, <1>6 DEF LaunchStamp, Refresh, Lock, Moves, trust_call, modes, Untouched, Running
<1>7. ASSUME NEW p \in Procs, Launch(p) PROVE Untouched(q) \/ Launched(q)
  BY <1>1, <1>7 DEF Launch, Moves, trust_call, Untouched, Launched, Running
<1>8. ASSUME NEW p \in Procs, Adopt(p) PROVE Untouched(q) \/ Reread(q)
  BY <1>1, <1>8 DEF Adopt, Moves, trust_call, Untouched, Reread, Running
<1>9. ASSUME NEW p \in Procs, Return(p)
      PROVE  \/ Untouched(q)
             \/ /\ q = p /\ job[p].kind = "set" /\ stamp'[q] = stamp[q]
                /\ live'[q] = [live[q] EXCEPT ![job[q].root] = job[q].mode]
  BY <1>1, <1>9 DEF Return, Moves, Forget, Applied, Untouched, Running
<1>10. ASSUME NEW p \in Procs, place[p] \in {"load", "write"}, Fails(p)
       PROVE  Untouched(q) \/ place'[q] = "off"
  BY <1>1, <1>2, <1>10 DEF Fails, Moves, Forget, modes, Untouched, Running
<1>11. ASSUME NEW p \in Procs, Load(p) PROVE Untouched(q) \/ Selected(q) \/ place'[q] = "off"
  <2>1. CASE Fails(p)
    BY <1>10, <1>11, <2>1 DEF Load
  <2>2. CASE /\ ~Refuses(Content, job[p]) /\ Change(Content, job[p]) = Content
             /\ UNCHANGED <<trust_json, kept>> /\ Return(p)
    BY <1>9, <1>11, <2>2 DEF Load, Selected, Running
  <2>3. CASE /\ Moves(p, "write") /\ job' = [job EXCEPT ![p].found = Content]
             /\ UNCHANGED <<trust_json, modes, locked, kept>>
    <3>1. [job[p] EXCEPT !.found = Content].kind = job[p].kind
      BY <1>1 DEF Jobs
    <3> QED BY <1>1, <1>11, <2>3, <3>1 DEF Load, Moves, modes, Untouched, Running
  <2> QED BY <1>11, <2>1, <2>2, <2>3 DEF Load
<1>12. ASSUME NEW p \in Procs, Write(p) PROVE Untouched(q) \/ Selected(q) \/ place'[q] = "off"
  BY <1>9, <1>10, <1>12 DEF Write, Selected, Running
<1>13. ASSUME Tamper PROVE Untouched(q)
  BY <1>13 DEF Tamper, modes, Untouched, Running
<1>14. CASE UNCHANGED modes_vars
  BY <1>14 DEF modes_vars, Untouched, Running
<1> QED BY <1>2, <1>3, <1>4, <1>5, <1>6, <1>7, <1>8, <1>11, <1>12, <1>13, <1>14 DEF ModesNext, Quit

LEMMA LiveStep ==
    ASSUME ChainAssumption, ProcsAssumption, ModesTypeOK, Control, StampInv, LiveInv, [ModesNext]_modes_vars
    PROVE  LiveInv'
<1> SUFFICES ASSUME NEW p \in Procs, Running(p)', stamp'[p] # 0, stamp'[p] = Stamp', parses'
             PROVE  Honours(live'[p], Trusted(file'))
  BY DEF LiveInv
<1>1. exists' /\ stamp'[p] = version'
  BY DEF Stamp
<1>2. /\ version \in Nat /\ stamp[p] \in Nat /\ stamp[p] <= version
      /\ live[p] \in Saved /\ Trusted(Content) \in Saved /\ job[p] \in Jobs
  BY StateTyped DEF ModesTypeOK, StampInv
<1>3. place'[p] # "off" /\ version <= version'
  BY StampStep DEF Running
<1>4. ASSUME UNCHANGED trust_json PROVE Content = file /\ Trusted(file') = Trusted(Content) /\ Readable /\ Stamp' = Stamp
  BY <1>1, <1>4 DEF trust_json, Content, Readable, Stamp
<1>5. CASE Untouched(p)
  <2>1. version' = version
    BY <1>1, <1>2, <1>3, <1>5 DEF Untouched
  <2>2. UNCHANGED <<exists, parses, file>>
    BY <2>1, StampStep
  <2>3. Stamp' = Stamp
    BY <2>1, <2>2 DEF Stamp
  <2> QED BY <1>5, <2>2, <2>3 DEF Untouched, LiveInv
<1>6. CASE Launched(p)
  BY <1>2, <1>4, <1>6, HeldHonours DEF Launched
<1>7. CASE Reread(p)
  BY <1>2, <1>4, <1>7, TightenedHonours DEF Reread
<1>8. CASE Selected(p)
  <2>1. version' = version
    BY <1>1, <1>2, <1>3, <1>8 DEF Selected
  <2>2. UNCHANGED trust_json /\ ~Refuses(Content, job[p]) /\ Change(Content, job[p]) = Content
    BY <1>2, <1>8, <2>1 DEF Selected
  <2>3. Trusted(file)[job[p].root] = job[p].mode /\ job[p].root \in Roots /\ job[p].mode \in ApprovalMode
    BY <1>2, <1>8, <2>2, AlreadySaved DEF Selected, Jobs
  <2>4. Honours(live[p], Trusted(file))
    <3>1. stamp[p] = Stamp /\ stamp[p] # 0 /\ parses
      BY <1>4, <1>8, <2>2 DEF Selected, trust_json
    <3> QED BY <1>8, <3>1 DEF Selected, LiveInv
  <2>5. Trusted(file) \in Saved /\ Trusted(file') = Trusted(file)
    BY <1>2, <1>4, <2>2 DEF trust_json
  <2> QED BY <1>2, <1>8, <2>3, <2>4, <2>5, SelectedHonours DEF Selected
<1> QED BY <1>3, <1>5, <1>6, <1>7, <1>8, ModeSteps

LEMMA LoosenStep ==
    ASSUME ChainAssumption, ProcsAssumption, ModesTypeOK, Control, [ModesNext]_modes_vars
    PROVE  LoosenedBySelection
<1> SUFFICES ASSUME NEW p \in Procs, NEW r \in Roots, Running(p), Running(p)',
                    ~AtLeast(Governing(live'[p], r), Governing(live[p], r))
             PROVE  /\ p \notin spawned /\ job[p].kind = "set"
                    /\ \E i \in 1..Len(Chain[r]) : Chain[r][i] = job[p].root
                    /\ Governing(live'[p], r) = job[p].mode
                    /\ file'.modes[job[p].root] = job[p].mode
  BY DEF LoosenedBySelection
<1>1. live[p] \in Saved /\ Trusted(Content) \in Saved /\ job[p] \in Jobs /\ place'[p] # "off"
  BY StateTyped DEF ModesTypeOK, Running
<1>2. live'[p] # live[p]
  BY <1>1, GoverningMode, AtLeastOrder
<1>3. ~Reread(p)
  <2>1. AtLeast(Governing(Tightened(live[p], Trusted(Content)), r), Governing(live[p], r))
    <3>1. Governing(live[p], r) \in ApprovalMode /\ Governing(Trusted(Content), r) \in ApprovalMode
      BY <1>1, GoverningMode
    <3>2. Governing(Tightened(live[p], Trusted(Content)), r)
            = Stricter(Governing(live[p], r), Governing(Trusted(Content), r))
      BY <1>1, TightenedGoverns
    <3> QED BY <3>1, <3>2, StricterBounds
  <2> QED BY <1>2, <2>1 DEF Reread
<1>4. Selected(p)
  BY <1>1, <1>2, <1>3, ModeSteps DEF Untouched, Launched
<1>5. p \notin spawned /\ job[p].kind = "set"
  BY <1>4 DEF Selected, Control, JobInv
<1>6. job[p].root \in Roots /\ job[p].mode \in ApprovalMode /\ job[p].found \in TrustFiles
  BY <1>1 DEF Jobs
<1>7. /\ Reaches(live[p], job[p].root, r)
      /\ Governing([live[p] EXCEPT ![job[p].root] = job[p].mode], r) = job[p].mode
  <2>1. \/ Governing([live[p] EXCEPT ![job[p].root] = job[p].mode], r) = Governing(live[p], r)
        \/ /\ Reaches(live[p], job[p].root, r)
           /\ Governing([live[p] EXCEPT ![job[p].root] = job[p].mode], r) = job[p].mode
    BY <1>1, <1>6, EntryGoverns
  <2>2. AtLeast(Governing(live[p], r), Governing(live[p], r))
    BY <1>1, GoverningMode, AtLeastOrder
  <2>3. live'[p] = [live[p] EXCEPT ![job[p].root] = job[p].mode]
    BY <1>4 DEF Selected
  <2> QED BY <2>1, <2>2, <2>3, Zenon
<1>8. file'.modes[job[p].root] = job[p].mode
  <2>1. CASE UNCHANGED trust_json /\ ~Refuses(Content, job[p]) /\ Change(Content, job[p]) = Content
    BY <1>5, <2>1, AlreadySaved DEF trust_json
  <2>2. CASE file' = Change(job[p].found, job[p])
    <3>1. file'.modes = [job[p].found.modes EXCEPT ![job[p].root] = job[p].mode]
      BY <1>5, <2>2 DEF Change
    <3> QED BY <1>6, <3>1, FilesTyped DEF Saved
  <2> QED BY <1>4, <2>1, <2>2 DEF Selected
<1> QED BY <1>4, <1>5, <1>7, <1>8 DEF Selected, Reaches

------------------------------------------------------------------------------
(* Theorems *)

LEMMA InitModes == ASSUME ProcsAssumption, ModesInit PROVE ModesInv
<1>1. Content \in TrustFiles /\ file \in TrustFiles
  BY FilesTyped DEF ModesInit, Content
<1>2. ModesTypeOK
  <2>1. \A p \in Procs : NoJob \in Jobs
    BY JobsTyped
  <2>2. Missing.modes \in Saved /\ MaxWrites \in Nat
    BY FilesTyped DEF ProcsAssumption
  <2>3. job \in [Procs -> Jobs]
    BY <2>1 DEF ModesInit
  <2>4. version \in 1..MaxWrites + 1 /\ seen \in [Procs -> 0..MaxWrites + 1] /\ stamp \in [Procs -> 0..MaxWrites + 1]
    BY <2>2 DEF ModesInit
  <2>5. exists \in BOOLEAN /\ parses \in BOOLEAN /\ spawned \in Teams /\ locked \in Procs \cup {Nobody}
    BY DEF ModesInit
  <2>6. live \in [Procs -> Saved] /\ kept \in TrustFiles /\ place \in [Procs -> Places]
    BY <1>1, <2>2 DEF ModesInit, Places
  <2> QED BY <1>1, <2>3, <2>4, <2>5, <2>6 DEF ModesTypeOK, Jobs, Places
<1>3. LockInv /\ JobInv
  <2>1. \A p \in Procs : NoJob.kind = "none" /\ Nobody # p
    BY JobsTyped DEF ProcsAssumption
  <2> QED BY <2>1 DEF ModesInit, LockInv, JobInv
<1>4. KeptInv /\ StampInv /\ LiveInv
  BY DEF ModesInit, KeptInv, StampInv, LiveInv, Running
<1> QED BY <1>2, <1>3, <1>4 DEF ModesInv

\* The inductive invariant of the processes and their store: who holds the
\* lock, what a call under it has read, and that a process whose stamp is the
\* store's applies modes that stand up to it (trust.rs, state.rs).
THEOREM ModesInvariant == ChainAssumption /\ ProcsAssumption /\ ModesSpec => []ModesInv
<1> SUFFICES ASSUME ChainAssumption, ProcsAssumption PROVE ModesSpec => []ModesInv
  OBVIOUS
<1>1. ModesInit => ModesInv
  BY InitModes
<1>2. ModesInv /\ [ModesNext]_modes_vars => ModesInv'
  <2> SUFFICES ASSUME ModesInv, [ModesNext]_modes_vars PROVE ModesInv'
    OBVIOUS
  <2>1. ModesTypeOK /\ Control /\ KeptInv /\ StampInv /\ LiveInv
    BY DEF ModesInv, Control
  <2>2. ModesTypeOK'
    BY <2>1, TypeStep
  <2>3. Control'
    BY <2>1, ControlStep
  <2>4. KeptInv'
    BY <2>1, KeptStep
  <2>5. StampInv'
    BY <2>1, StampStep
  <2>6. LiveInv'
    BY <2>1, LiveStep
  <2> QED BY <2>2, <2>3, <2>4, <2>5, <2>6 DEF ModesInv, Control
<1> QED BY <1>1, <1>2, PTL DEF ModesSpec

\* A process whose stamp is the store's applies, at every path, a mode at least
\* as strict as the saved one (state.rs:302).
THEOREM ModesTold == ChainAssumption /\ ProcsAssumption /\ ModesSpec => []ModesAreTold
<1>1. ModesInv => ModesAreTold
  BY DEF ModesInv, ModesAreTold, StampedIsApplied, LiveInv, Honours
<1> QED BY <1>1, ModesInvariant, PTL

\* No process's write of the store takes back what another's has recorded
\* (trust.rs:188).
THEOREM TrustIsKept == ChainAssumption /\ ProcsAssumption /\ ModesSpec => []NoLostTrust
<1> SUFFICES ASSUME ChainAssumption, ProcsAssumption PROVE ModesSpec => []NoLostTrust
  OBVIOUS
<1>1. ModesInv => NoLostTrust
  <2> SUFFICES ASSUME ModesInv, locked = Nobody PROVE Content = kept
    BY DEF NoLostTrust
  <2>1. \A p \in Procs : place[p] # "write"
    BY DEF ModesInv, LockInv, ProcsAssumption
  <2> QED BY <2>1 DEF ModesInv, KeptInv
<1> QED BY <1>1, ModesInvariant, PTL

\* A running process's mode at a path is loosened only by its own frontend's
\* selection there, once the store holds it (state.rs:288).
THEOREM SelectionLoosens == ChainAssumption /\ ProcsAssumption /\ ModesSpec => OnlySelectionLoosens
<1> SUFFICES ASSUME ChainAssumption, ProcsAssumption PROVE ModesSpec => OnlySelectionLoosens
  OBVIOUS
<1>1. ModesInv /\ [ModesNext]_modes_vars => [LoosenedBySelection]_modes_vars
  BY LoosenStep DEF ModesInv, Control
<1>2. ModesSpec => []ModesInv
  BY ModesInvariant
<1> QED BY <1>1, <1>2, PTL DEF ModesSpec, OnlySelectionLoosens

-----------------------------------------------------------------------------
(* The hooks.                                                              *)

\* What a discovery gives a turn.
HooksShape(h) ==
    /\ h.auto \in BOOLEAN /\ h.unverifiable \in BOOLEAN
    /\ h.live \subseteq Files /\ h.spec \in [h.live -> Manifests]
    /\ DOMAIN h.bound = {Script[h.spec[f]] : f \in h.live} \ {None}
    /\ h.closed \subseteq Files /\ h.repair \subseteq Targets
    /\ h.auto => h.repair = h.closed /\ ~h.unverifiable
    /\ h.unverifiable => h.repair = {}

Calls == [kind : {"none", "tool", "prompt", "end"}, target : Targets \cup {None}, todo : SUBSET Files,
          judged : SUBSET Files, unverified : BOOLEAN]
Lasts == [kind : {"none", "tool", "prompt", "end"},
          how : {"none", "passed", "blocked", "cancelled", "refused", "unverified"},
          target : Targets \cup {None}, judged : SUBSET Files]

\* A gate that was installed at discovery is in force, or what a human approved
\* has taken its place.
Standing(h, d, f) ==
    \/ f \in h.live /\ h.spec[f] = d[f].was
    \/ d[f].overridden
    \/ d[f].now \notin {None, d[f].was}

\* The gates that were installed stand, unless something fails closed.
StandInv(h, d) ==
    ~h.auto /\ ~h.unverifiable /\ h.closed = {} => \A f \in DOMAIN d : Standing(h, d, f)

\* Who has still to judge what is being put to the hooks.
CallInv ==
    /\ call.kind = "tool" => (FailsClosed => RepairsFailed(call.target))
    /\ call.kind = "tool" /\ (~hooks.auto \/ call.target = None) =>
         Chosen("pre_tool_use") \subseteq call.judged \cup call.todo
    /\ call.kind = "end" /\ ~call.unverified =>
         \A f \in hooks.live : hooks.spec[f] \in Blocking => f \in call.judged \cup call.todo

\* The same of what went through last.
LastInv ==
    /\ Passed("tool") => (FailsClosed => RepairsFailed(last.target))
    /\ Passed("tool") /\ (~hooks.auto \/ last.target = None) => Chosen("pre_tool_use") \subseteq last.judged
    /\ Passed("end") => \A f \in hooks.live : hooks.spec[f] \in Blocking => f \in last.judged

\* Outside auto, what may run was approved.
ApprovedInv(h) ==
    ~h.auto =>
        \A f \in h.live :
            /\ h.spec[f] \in hashes
            /\ Script[h.spec[f]] # None => h.bound[Script[h.spec[f]]] \in hashes

\* The files, the ledger and what this turn keeps of them ...
Policy ==
    /\ manifest \in [Files -> Manifests \cup {Absent, Junk}]
    /\ code \in [Scripts -> Bodies \cup {Absent}]
    /\ hashes \subseteq Manifests \cup Bodies /\ shape \in [Files -> Manifests \cup {None}]
    /\ readable \in BOOLEAN
    /\ HooksShape(hooks) /\ DOMAIN due \subseteq Files
    /\ StandInv(hooks, due) /\ ApprovedInv(hooks)

\* ... and how far it is with what is put to them.
Progress ==
    /\ call \in Calls /\ last \in Lasts /\ refusals \in 0..MaxRefusals
    /\ call.kind = "none" => call = Idle
    /\ call.kind # "none" => call.todo \subseteq Chosen(EventOf(call.kind))
    /\ call.judged \subseteq hooks.live
    /\ CallInv /\ LastInv

HookInv == Policy /\ Progress /\ UnapprovedNeverRuns

------------------------------------------------------------------------------
(* Discovery *)

\* What is known of the files and the ledger.
FilesOK ==
    /\ manifest \in [Files -> Manifests \cup {Absent, Junk}]
    /\ code \in [Scripts -> Bodies \cup {Absent}]
    /\ hashes \subseteq Manifests \cup Bodies /\ shape \in [Files -> Manifests \cup {None}]
    /\ readable \in BOOLEAN

\* What a turn that keeps these hooks holds of them.
LEMMA LoadedShape ==
    ASSUME HooksAssumption, NEW auto \in BOOLEAN, NEW alive \in SUBSET Parsed,
           NEW closed \in SUBSET Files, NEW repair \in SUBSET Targets, auto => repair = closed
    PROVE  HooksShape(Loaded(auto, alive, closed, repair))
<1> DEFINE h == Loaded(auto, alive, closed, repair)
<1>1. /\ h.auto = auto /\ h.live = alive /\ h.closed = closed /\ h.repair = repair /\ h.unverifiable = FALSE
      /\ h.spec \in [alive -> Manifests] /\ \A f \in alive : h.spec[f] = manifest[f]
      /\ DOMAIN h.bound = {Script[manifest[f]] : f \in alive} \ {None}
  BY DEF Loaded, Parsed
<1>2. alive \subseteq Files
  BY DEF Parsed, Considered
<1> HIDE DEF h
<1>3. {Script[h.spec[f]] : f \in alive} = {Script[manifest[f]] : f \in alive}
  BY <1>1
<1>4. HooksShape(h)
  BY <1>1, <1>2, <1>3 DEF HooksShape
<1> QED BY <1>4 DEF h

\* What mends a hook that fails closed is a hook file or its code.
LEMMA RepairTargets ==
    ASSUME HooksAssumption, FilesOK, NEW f \in Files
    PROVE  Repair(f) \subseteq Targets
BY DEF HooksAssumption, FilesOK, Repair, Winners, Considered, Targets

\* The parts of what a turn keeps outside auto.
Lapsing ==
    [broken |-> (Considered \ Parsed) \cap WasLive,
     missing |-> {f \in WasLive : manifest[f] = Absent},
     shadowed |-> {f \in WasLive \ Considered : manifest[f] # Absent /\ Winners(f) \cap Kept = {}}]

\* What discovery outside auto makes of the files, part by part.
LEMMA DiscoverApprovedParts ==
    /\ DiscoverApproved.auto = FALSE /\ DiscoverApproved.unverifiable = FALSE
    /\ DiscoverApproved.live = Kept \ PastCap(Kept)
    /\ DiscoverApproved.closed =
         Lapsing.broken \cup Revoked \cup Lapsing.missing \cup (Lapsing.shadowed \cap LiveGates) \cup OverGates(Kept)
    /\ \A f \in Kept \ PastCap(Kept) :
         /\ DiscoverApproved.spec[f] = manifest[f]
         /\ Script[manifest[f]] # None =>
              DiscoverApproved.bound[Script[manifest[f]]] = code[Script[manifest[f]]]
<1> DEFINE broken == (Considered \ Parsed) \cap WasLive
           missing == {f \in WasLive : manifest[f] = Absent}
           shadowed == {f \in WasLive \ Considered : manifest[f] # Absent /\ Winners(f) \cap Kept = {}}
           closed == broken \cup Revoked \cup missing \cup (shadowed \cap LiveGates) \cup OverGates(Kept)
           repair == UNION {Repair(f) : f \in ((Parsed \ Kept) \cap WasLive) \cup broken \cup missing \cup shadowed}
           alive == Kept \ PastCap(Kept)
<1>1. DiscoverApproved = Loaded(FALSE, alive, closed, repair)
  BY DEF DiscoverApproved
<1>2. closed = Lapsing.broken \cup Revoked \cup Lapsing.missing \cup (Lapsing.shadowed \cap LiveGates) \cup OverGates(Kept)
  BY DEF Lapsing
<1> HIDE DEF alive, closed, repair
<1>3. /\ Loaded(FALSE, alive, closed, repair).auto = FALSE
      /\ Loaded(FALSE, alive, closed, repair).unverifiable = FALSE
      /\ Loaded(FALSE, alive, closed, repair).live = alive
      /\ Loaded(FALSE, alive, closed, repair).closed = closed
  BY DEF Loaded
<1>4. Loaded(FALSE, alive, closed, repair).spec = [f \in alive |-> manifest[f]]
  BY DEF Loaded
<1>5. Loaded(FALSE, alive, closed, repair).bound
        = [s \in {Script[manifest[f]] : f \in alive} \ {None} |-> IF FALSE THEN None ELSE code[s]]
  BY DEF Loaded
<1>6. \A f \in alive : /\ DiscoverApproved.spec[f] = manifest[f]
                       /\ Script[manifest[f]] # None =>
                            DiscoverApproved.bound[Script[manifest[f]]] = code[Script[manifest[f]]]
  BY <1>1, <1>4, <1>5
<1> QED BY <1>1, <1>2, <1>3, <1>6 DEF alive

\* Every discovery gives hooks of one shape.
LEMMA DiscoverShape ==
    ASSUME HooksAssumption, FilesOK, NEW auto \in BOOLEAN
    PROVE  HooksShape(Discover(auto)) /\ Discover(auto).auto = auto
<1>1. CASE auto
  <2> DEFINE broken == (Considered \ Parsed) \cup OverGates(Parsed)
             alive == Parsed \ PastCap(Parsed)
  <2>1. broken \in SUBSET Files /\ broken \in SUBSET Targets /\ alive \in SUBSET Parsed
    BY DEF Considered, Parsed, OverGates, PastCap, Targets
  <2>2. Discover(auto) = Loaded(TRUE, alive, broken, broken)
    BY <1>1 DEF Discover, DiscoverAuto
  <2> HIDE DEF broken, alive
  <2>3. HooksShape(Loaded(TRUE, alive, broken, broken)) /\ Loaded(TRUE, alive, broken, broken).auto = TRUE
    <3>1. Loaded(TRUE, alive, broken, broken).auto = TRUE
      BY DEF Loaded
    <3> QED BY <2>1, <3>1, LoadedShape
  <2> QED BY <1>1, <2>2, <2>3
<1>2. CASE ~auto /\ readable
  <2> DEFINE broken == (Considered \ Parsed) \cap WasLive
             missing == {f \in WasLive : manifest[f] = Absent}
             shadowed == {f \in WasLive \ Considered : manifest[f] # Absent /\ Winners(f) \cap Kept = {}}
             lapsed == ((Parsed \ Kept) \cap WasLive) \cup broken \cup missing \cup shadowed
             closed == broken \cup Revoked \cup missing \cup (shadowed \cap LiveGates) \cup OverGates(Kept)
             repair == UNION {Repair(f) : f \in lapsed}
             alive == Kept \ PastCap(Kept)
  <2>1. closed \in SUBSET Files /\ alive \in SUBSET Parsed
    BY DEF Considered, Parsed, WasLive, Revoked, OverGates, PastCap, Kept
  <2>2. repair \in SUBSET Targets
    <3>1. lapsed \subseteq Files
      BY DEF Considered, Parsed, WasLive
    <3> QED BY <3>1, RepairTargets
  <2>3. Discover(auto) = Loaded(auto, alive, closed, repair)
    <3>1. auto = FALSE /\ Discover(auto) = Loaded(FALSE, alive, closed, repair)
      BY <1>2 DEF Discover, DiscoverApproved
    <3> QED BY <3>1
  <2> HIDE DEF closed, repair, alive
  <2>4. HooksShape(Loaded(auto, alive, closed, repair)) /\ Loaded(auto, alive, closed, repair).auto = auto
    <3>1. HooksShape(Loaded(auto, alive, closed, repair))
      BY <1>2, <2>1, <2>2, LoadedShape
    <3>2. Loaded(auto, alive, closed, repair).auto = auto
      BY DEF Loaded
    <3> QED BY <3>1, <3>2
  <2> QED BY <1>2, <2>3, <2>4
<1>3. CASE ~auto /\ ~readable
  <2>1. NoHooks.auto = FALSE /\ NoHooks.unverifiable = TRUE /\ NoHooks.live = {} /\ NoHooks.closed = {}
        /\ NoHooks.repair = {}
    BY DEF NoHooks, Loaded
  <2>2. NoHooks.spec = [f \in {} |-> manifest[f]] /\ NoHooks.bound = [s \in {Script[manifest[f]] : f \in {}} \ {None} |-> IF FALSE THEN None ELSE code[s]]
    BY DEF NoHooks, Loaded
  <2>3. NoHooks.spec \in [NoHooks.live -> Manifests]
    BY <2>1, <2>2
  <2>4. DOMAIN NoHooks.bound = {Script[NoHooks.spec[f]] : f \in NoHooks.live} \ {None}
    BY <2>1, <2>2
  <2>5. Discover(auto) = NoHooks
    BY <1>3 DEF Discover
  <2> QED BY <1>3, <2>1, <2>3, <2>4, <2>5 DEF HooksShape
<1> QED BY <1>1, <1>2, <1>3

\* Outside auto, what a discovery keeps was approved, and so was the code bound.
LEMMA DiscoverApproves ==
    ASSUME HooksAssumption, FilesOK, NEW f \in Discover(FALSE).live
    PROVE  /\ Discover(FALSE).spec[f] \in hashes
           /\ Script[Discover(FALSE).spec[f]] # None =>
                 Discover(FALSE).bound[Script[Discover(FALSE).spec[f]]] \in hashes
<1> DEFINE h == Discover(FALSE)
<1>1. CASE readable
  <2>1. h = DiscoverApproved
    BY <1>1 DEF Discover
  <2>2. f \in Kept /\ h.spec[f] = manifest[f]
    BY <2>1, DiscoverApprovedParts
  <2>3. Script[manifest[f]] # None => h.bound[Script[manifest[f]]] = code[Script[manifest[f]]]
    BY <2>1, DiscoverApprovedParts
  <2> HIDE DEF h
  <2>4. h.spec[f] \in hashes /\ (Script[h.spec[f]] # None => h.bound[Script[h.spec[f]]] \in hashes)
    BY <2>2, <2>3 DEF Kept, Approved
  <2> QED BY <2>4 DEF h
<1>2. CASE ~readable
  BY <1>2 DEF Discover, NoHooks, Loaded
<1> QED BY <1>1, <1>2

\* Where nothing fails closed, every gate a human had installed stands: an edit,
\* a deletion, a shadow or the cap each put it among what fails closed.
LEMMA DiscoverStands ==
    ASSUME HooksAssumption, FilesOK, readable, Discover(FALSE).closed = {}, NEW f \in DOMAIN Due
    PROVE  Standing(Discover(FALSE), Due, f)
<1> DEFINE h == Discover(FALSE)
<1>1. h = DiscoverApproved
  BY DEF Discover
<1>2. /\ Lapsing.broken = {} /\ Revoked = {} /\ Lapsing.missing = {}
      /\ Lapsing.shadowed \cap LiveGates = {} /\ OverGates(Kept) = {}
  BY <1>1, DiscoverApprovedParts
<1>3. f \in LiveGates /\ f \in WasLive /\ f \in Files /\ shape[f] # None /\ IsGate(shape[f])
  BY DEF Due, LiveGates, WasLive
<1>4. /\ Due[f].was = shape[f] /\ Due[f].now = IF f \in Kept THEN manifest[f] ELSE None
      /\ Due[f].overridden = (Winners(f) \cap Kept # {} /\ f \notin Considered)
  BY <1>3 DEF Due
<1>5. CASE f \notin Considered
  BY <1>2, <1>3, <1>4, <1>5 DEF Lapsing, Standing
<1>6. CASE f \in Considered
  <2>1. f \in Parsed
    BY <1>2, <1>3, <1>6 DEF Lapsing
  <2>2. f \in Kept
    BY <1>2, <1>3, <2>1 DEF Revoked
  <2>3. manifest[f] # None
    BY <2>1 DEF Parsed, HooksAssumption
  <2>4. CASE manifest[f] = shape[f]
    <3>1. f \notin PastCap(Kept)
      BY <1>2, <1>3, <2>4 DEF OverGates
    <3>2. f \in h.live /\ h.spec[f] = manifest[f]
      BY <1>1, <2>2, <3>1, DiscoverApprovedParts
    <3> QED BY <1>4, <2>4, <3>2 DEF Standing
  <2>5. CASE manifest[f] # shape[f]
    BY <1>4, <2>2, <2>3, <2>5 DEF Standing
  <2> QED BY <2>4, <2>5
<1> QED BY <1>5, <1>6

\* The hook that comes next is one of those to come.
LEMMA CurrentIsNext ==
    ASSUME HooksAssumption, call.todo \subseteq Files, call.todo # {}
    PROVE  Current \in call.todo
<1> DEFINE stems == {Stem[f] : f \in call.todo}
<1>1. stems \in SUBSET Nat /\ stems # {}
  BY DEF HooksAssumption
<1>2. PICK i \in stems : \A j \in stems : i <= j
  BY <1>1, LeastNumber
<1>3. PICK f \in call.todo : Stem[f] = i
  BY <1>2
<1>4. \A g \in call.todo : Stem[f] <= Stem[g]
  BY <1>2, <1>3
<1> QED BY <1>3, <1>4 DEF Current

------------------------------------------------------------------------------
(* The files and the turn's policy *)

\* The gates a human installed are hook files.
LEMMA DueShape == ASSUME FilesOK PROVE DOMAIN Due \subseteq Files
BY DEF Due, LiveGates, WasLive

\* A turn begins with what the invariant asks of its hooks.
LEMMA Discovered ==
    ASSUME HooksAssumption, FilesOK, NEW auto \in BOOLEAN
    PROVE  /\ HooksShape(Discover(auto)) /\ DOMAIN Due \subseteq Files
           /\ StandInv(Discover(auto), Due) /\ ApprovedInv(Discover(auto))
<1>1. HooksShape(Discover(auto)) /\ Discover(auto).auto = auto /\ DOMAIN Due \subseteq Files
  BY DiscoverShape, DueShape
<1>2. CASE auto
  BY <1>1, <1>2 DEF StandInv, ApprovedInv
<1>3. CASE auto = FALSE
  <2>1. ApprovedInv(Discover(FALSE))
    BY DiscoverApproves DEF ApprovedInv
  <2>2. readable \/ Discover(FALSE).unverifiable
    BY DEF Discover, NoHooks, Loaded
  <2>3. StandInv(Discover(FALSE), Due)
    BY <2>2, DiscoverStands DEF StandInv
  <2> QED BY <1>1, <1>3, <2>1, <2>3
<1> QED BY <1>1, <1>2, <1>3

\* A step that leaves the turn's hooks alone and forgets no approval.
LEMMA PolicyKept ==
    ASSUME Policy, UNCHANGED <<hooks, due>>, FilesOK', hashes \subseteq hashes'
    PROVE  Policy'
BY DEF Policy, FilesOK, StandInv, Standing, ApprovedInv

\* No step, not an edit of the files nor an act of a human, undoes it: only a
\* discovery changes the hooks of a turn, and no approval is forgotten.
LEMMA PolicyStep ==
    ASSUME HooksAssumption, Policy, [Next]_vars
    PROVE  Policy'
<1>1. FilesOK
  BY DEF Policy, FilesOK
<1>2. ASSUME NEW auto \in BOOLEAN, Start(auto) PROVE Policy'
  <2>1. /\ hooks' = Discover(auto) /\ due' = Due
        /\ UNCHANGED <<manifest, code, hashes, shape, readable>>
    BY <1>2 DEF Start, disk, ledger
  <2>2. FilesOK'
    BY <1>1, <2>1 DEF FilesOK
  <2>3. /\ HooksShape(hooks') /\ DOMAIN due' \subseteq Files
        /\ StandInv(hooks', due') /\ ApprovedInv(hooks')
    BY <1>1, <2>1, Discovered
  <2> QED BY <2>1, <2>2, <2>3 DEF Policy, FilesOK, ApprovedInv
<1>3. ASSUME UNCHANGED <<disk, ledger, hooks, due>> PROVE Policy'
  <2>1. FilesOK' /\ hashes \subseteq hashes'
    BY <1>1, <1>3 DEF FilesOK, disk, ledger
  <2> QED BY <1>3, <2>1, PolicyKept
<1>4. ASSUME NEW kind, NEW t, Put(kind, t) PROVE Policy'
  BY <1>3, <1>4 DEF Put
<1>5. ASSUME Skip \/ RunHook \/ Cancelled \/ Pass PROVE Policy'
  BY <1>3, <1>5 DEF Skip, RunHook, Cancelled, Pass
<1>6. ASSUME Edit PROVE Policy'
  <2>1. FilesOK' /\ hashes \subseteq hashes'
    BY <1>1, <1>6 DEF Edit, FilesOK, ledger
  <2> QED BY <1>6, <2>1, PolicyKept DEF Edit
<1>7. ASSUME NEW f \in Files, Approve(f) PROVE Policy'
  <2>1. manifest[f] \in Manifests
    BY <1>7 DEF Approve
  <2>2. Script[manifest[f]] # None => code[Script[manifest[f]]] \in Bodies \cup {Absent}
    BY <1>1, <2>1 DEF FilesOK, HooksAssumption
  <2>3. FilesOK' /\ hashes \subseteq hashes'
    BY <1>1, <1>7, <2>1, <2>2 DEF Approve, FilesOK, disk
  <2> QED BY <1>7, <2>3, PolicyKept DEF Approve
<1>8. ASSUME NEW f \in Files, Retire(f) PROVE Policy'
  <2>1. FilesOK' /\ hashes \subseteq hashes'
    BY <1>1, <1>8 DEF Retire, FilesOK, disk
  <2> QED BY <1>8, <2>1, PolicyKept DEF Retire
<1>9. ASSUME Damage PROVE Policy'
  <2>1. FilesOK' /\ hashes \subseteq hashes'
    BY <1>1, <1>9 DEF Damage, FilesOK, disk
  <2> QED BY <1>9, <2>1, PolicyKept DEF Damage
<1>10. CASE UNCHANGED vars
  BY <1>3, <1>10 DEF vars, disk, ledger
<1> QED BY <1>2, <1>4, <1>5, <1>6, <1>7, <1>8, <1>9, <1>10 DEF Next

------------------------------------------------------------------------------
(* What is put to the hooks *)

\* What a turn's hooks say of a tool call or an end is a matter of its hooks
\* and of how far it is.
LEMMA ProgressKept == ASSUME Progress, UNCHANGED <<hooks, call, last, refusals>> PROVE Progress'
BY DEF Progress, Chosen, CallInv, LastInv, FailsClosed, RepairsFailed, Passed

\* A call, a prompt or an end that is over.
LEMMA EndStep ==
    ASSUME Policy, Progress, call.kind # "none", UNCHANGED hooks, refusals' \in 0..MaxRefusals,
           NEW how \in {"passed", "blocked", "cancelled", "refused", "unverified"}, End(how),
           how = "passed" => call.todo = {} /\ ~call.unverified
    PROVE  Progress'
<1>1. call' = Idle /\ Idle \in Calls
  BY DEF End, Idle, Calls
<1>2. /\ last'.kind = call.kind /\ last'.how = how
      /\ how = "passed" => last'.target = call.target /\ last'.judged = call.judged
  BY DEF End
<1>3. last' \in Lasts
  <2>1. call.kind \in {"none", "tool", "prompt", "end"} /\ call.target \in Targets \cup {None} /\ call.judged \subseteq Files
    BY DEF Progress, Calls
  <2> QED BY <2>1 DEF End, Lasts
<1>4. call'.kind = "none" /\ call'.judged = {}
  BY <1>1 DEF Idle
<1>5. LastInv'
  BY <1>2 DEF Progress, CallInv, LastInv, Passed, FailsClosed, RepairsFailed, Chosen
<1>6. CallInv'
  BY <1>4 DEF CallInv
<1> QED BY <1>1, <1>3, <1>4, <1>5, <1>6 DEF Progress

\* One hook has had its say, judged or not.
LEMMA NextStep ==
    ASSUME HooksAssumption, Policy, Progress, call.kind # "none", call.todo # {}, UNCHANGED <<hooks, refusals>>,
           NEW J \in SUBSET {Current}, NEW u \in BOOLEAN, NextHook(J, u),
           call.kind = "tool" /\ (~hooks.auto \/ call.target = None) => J = {Current},
           call.kind = "end" /\ hooks.spec[Current] \in Blocking => J = {Current} \/ u
    PROVE  Progress'
<1>1. /\ call.kind \in {"none", "tool", "prompt", "end"} /\ call.target \in Targets \cup {None}
      /\ call.todo \subseteq Files /\ call.judged \subseteq Files /\ call.unverified \in BOOLEAN
      /\ call.todo \subseteq Chosen(EventOf(call.kind)) /\ call.judged \subseteq hooks.live
  BY DEF Progress, Calls
<1>2. Current \in call.todo /\ Current \in hooks.live
  BY <1>1, CurrentIsNext DEF Chosen
<1>3. call' = [call EXCEPT !.todo = @ \ {Current}, !.judged = @ \cup J, !.unverified = @ \/ u] /\ last' = last
  BY DEF NextHook
<1>4. /\ call'.kind = call.kind /\ call'.target = call.target
      /\ call'.todo = call.todo \ {Current} /\ call'.judged = call.judged \cup J
      /\ call'.unverified = (call.unverified \/ u)
      /\ call' \in Calls
  <2>1. call \in Calls
    BY DEF Progress
  <2> HIDE DEF Current
  <2> QED BY <1>1, <1>2, <1>3, <2>1 DEF Calls
<1>5. call'.judged \subseteq hooks.live /\ call'.todo \subseteq Chosen(EventOf(call.kind))
  BY <1>1, <1>2, <1>4
<1>6. CallInv'
  <2>1. call.kind = "tool" => (FailsClosed => RepairsFailed(call.target))
    BY DEF Progress, CallInv
  <2>2. call.kind = "tool" /\ (~hooks.auto \/ call.target = None) =>
          Chosen("pre_tool_use") \subseteq call'.judged \cup call'.todo
    BY <1>4 DEF Progress, CallInv
  <2>3. call.kind = "end" /\ ~call'.unverified =>
          \A f \in hooks.live : hooks.spec[f] \in Blocking => f \in call'.judged \cup call'.todo
    BY <1>4 DEF Progress, CallInv
  <2> QED BY <1>4, <2>1, <2>2, <2>3 DEF CallInv, FailsClosed, RepairsFailed, Chosen
<1>7. LastInv'
  BY <1>3 DEF Progress, LastInv, Passed, FailsClosed, RepairsFailed, Chosen
<1> QED BY <1>3, <1>4, <1>5, <1>6, <1>7 DEF Progress, Chosen, EventOf

\* A refusal ends what was put to the hooks, or counts as a judgement.
LEMMA BlockedStep ==
    ASSUME HooksAssumption, Policy, Progress, call.kind # "none", call.todo # {}, UNCHANGED hooks, Blocked(Current)
    PROVE  Progress'
<1>1. refusals \in 0..MaxRefusals /\ MaxRefusals \in Nat
  BY DEF Progress, HooksAssumption
<1>2. CASE End("blocked") /\ UNCHANGED refusals
  BY <1>1, <1>2, EndStep
<1>3. CASE call.kind = "end" /\ NextHook({Current}, FALSE) /\ UNCHANGED refusals
  BY <1>3, NextStep
<1>4. CASE MayRefuse /\ End("refused") /\ refusals' = refusals + 1
  BY <1>1, <1>4, EndStep DEF MayRefuse
<1>5. CASE End("unverified") /\ UNCHANGED refusals
  BY <1>1, <1>5, EndStep
<1>6. CASE call.kind = "end" /\ NextHook({Current}, TRUE) /\ UNCHANGED refusals
  BY <1>6, NextStep
<1> QED BY <1>2, <1>3, <1>4, <1>5, <1>6 DEF Blocked

\* So does a hook that could not be started, but for a repair or a prompt in auto.
LEMMA UnstartedStep ==
    ASSUME HooksAssumption, Policy, Progress, call.kind # "none", call.todo # {}, UNCHANGED <<hooks, refusals>>,
           Unstarted(Current)
    PROVE  Progress'
<1>1. refusals \in 0..MaxRefusals
  BY DEF Progress
<1>2. CASE End("blocked")
  BY <1>1, <1>2, EndStep
<1>3. CASE call.kind = "tool" /\ hooks.auto /\ RepairsBroken(call.target) /\ NextHook({}, FALSE)
  <2>1. call.target # None
    BY <1>3 DEF RepairsBroken, RepairsOwn, IsOwnRepair, RepairsFailed
  <2> QED BY <1>3, <2>1, NextStep
<1>4. CASE call.kind = "prompt" /\ NextHook({}, FALSE)
  BY <1>4, NextStep
<1>5. CASE call.kind = "end" /\ NextHook({}, IsGate(hooks.spec[Current]))
  <2>1. IsGate(hooks.spec[Current]) \in BOOLEAN /\ (hooks.spec[Current] \in Blocking => IsGate(hooks.spec[Current]))
    BY DEF IsGate
  <2> HIDE DEF IsGate
  <2> QED BY <1>5, <2>1, NextStep
<1>6. call.kind \in {"tool", "prompt", "end"}
  BY DEF Progress, Calls
<1> QED BY <1>2, <1>3, <1>4, <1>5, <1>6 DEF Unstarted

\* No step lets anything past a hook that gates it.
LEMMA ProgressStep ==
    ASSUME HooksAssumption, Policy, Progress, [Next]_vars
    PROVE  Progress'
<1>1. ASSUME NEW auto \in BOOLEAN, Start(auto) PROVE Progress'
  <2>1. call' = Idle /\ last' = NotAsked /\ refusals' = 0
    BY <1>1 DEF Start
  <2>2. /\ Idle \in Calls /\ Idle.kind = "none" /\ Idle.judged = {}
        /\ NotAsked \in Lasts /\ NotAsked.kind = "none" /\ 0 \in 0..MaxRefusals
    BY DEF Idle, Calls, NotAsked, Lasts, HooksAssumption
  <2> QED BY <2>1, <2>2 DEF Progress, CallInv, LastInv, Passed
<1>2. ASSUME NEW kind \in {"tool", "prompt", "end"}, NEW t \in Targets \cup {None}, Put(kind, t) PROVE Progress'
  <2>1. hooks' = hooks /\ refusals' = refusals /\ call = Idle
    BY <1>2 DEF Put
  <2>2. CASE last' = [kind |-> kind, how |-> "blocked", target |-> None, judged |-> {}] /\ call' = call
    <3>1. last' \in Lasts /\ last'.how = "blocked"
      BY <2>2 DEF Lasts
    <3> QED BY <2>1, <2>2, <3>1 DEF Progress, Chosen, CallInv, LastInv, FailsClosed, RepairsFailed, Passed
  <2>3. CASE /\ ~(kind = "tool" /\ FailsClosed /\ ~RepairsFailed(t)) /\ ~(kind = "prompt" /\ hooks.unverifiable)
             /\ call' = [kind |-> kind, target |-> t, todo |-> Chosen(EventOf(kind)), judged |-> {},
                         unverified |-> FALSE]
             /\ last' = last
    <3>1. Chosen(EventOf(kind)) \subseteq hooks.live /\ hooks.live \subseteq Files
      BY DEF Policy, HooksShape, Chosen
    <3>2. /\ call'.kind = kind /\ call'.target = t /\ call'.todo = Chosen(EventOf(kind))
          /\ call'.judged = {} /\ call'.unverified = FALSE /\ call' \in Calls
      BY <2>3, <3>1 DEF Calls
    <3>3. CallInv'
      <4>1. kind = "tool" => EventOf(kind) = "pre_tool_use"
        BY DEF EventOf
      <4>2. kind = "end" => \A f \in hooks.live : hooks.spec[f] \in Blocking => f \in Chosen(EventOf(kind))
        BY DEF EventOf, Chosen, HooksAssumption
      <4> QED BY <2>1, <2>3, <3>2, <4>1, <4>2 DEF CallInv, FailsClosed, RepairsFailed, Chosen
    <3>4. LastInv'
      BY <2>1, <2>3 DEF Progress, LastInv, Passed, FailsClosed, RepairsFailed, Chosen
    <3> QED BY <2>1, <2>3, <3>2, <3>3, <3>4 DEF Progress, Chosen, EventOf
  <2> QED BY <1>2, <2>2, <2>3 DEF Put
<1>3. ASSUME call.todo # {} PROVE call.kind # "none"
  BY <1>3 DEF Progress, Idle
<1>4. ASSUME Skip PROVE Progress'
  <2>1. call.kind = "tool" /\ hooks.auto /\ call.target # None /\ NextHook({}, FALSE)
    BY <1>4 DEF Skip, IsOwnRepair
  <2> QED BY <1>3, <1>4, <2>1, NextStep DEF Skip
<1>5. ASSUME RunHook PROVE Progress'
  <2>1. call.todo # {} /\ call.kind # "none" /\ hooks' = hooks
    BY <1>3, <1>5 DEF RunHook
  <2>2. CASE Blocked(Current)
    BY <2>1, <2>2, BlockedStep
  <2>3. CASE Unstarted(Current) /\ UNCHANGED refusals
    BY <2>1, <2>3, UnstartedStep
  <2>4. CASE NextHook({Current}, FALSE) /\ UNCHANGED refusals
    BY <2>1, <2>4, NextStep
  <2> QED BY <1>5, <2>2, <2>3, <2>4 DEF RunHook
<1>6. ASSUME Cancelled PROVE Progress'
  BY <1>3, <1>6, EndStep DEF Cancelled, Progress
<1>7. ASSUME Pass PROVE Progress'
  <2>1. CASE call.unverified
    BY <1>7, <2>1, EndStep DEF Pass, Progress
  <2>2. CASE ~call.unverified
    BY <1>7, <2>2, EndStep DEF Pass, Progress
  <2> QED BY <2>1, <2>2
<1>8. ASSUME Edit \/ Damage \/ \E f \in Files : Approve(f) \/ Retire(f) PROVE Progress'
  BY <1>8, ProgressKept DEF Edit, Damage, Approve, Retire
<1>9. CASE UNCHANGED vars
  BY <1>9, ProgressKept DEF vars
<1> QED BY <1>1, <1>2, <1>4, <1>5, <1>6, <1>7, <1>8, <1>9 DEF Next

\* What runs outside auto is what was approved at discovery.
LEMMA RanStep ==
    ASSUME HooksAssumption, Policy, Progress, UnapprovedNeverRuns, [Next]_vars
    PROVE  UnapprovedNeverRuns'
<1>1. ASSUME ran' = {} PROVE UnapprovedNeverRuns'
  BY <1>1 DEF UnapprovedNeverRuns
<1>2. ASSUME RunHook, ran' # {} PROVE UnapprovedNeverRuns'
  <2>1. /\ ~CodeChanged(Current) /\ hooks' = hooks /\ hashes' = hashes
        /\ ran' = {[spec |-> hooks.spec[Current], body |-> Body(Current)]}
    BY <1>2 DEF RunHook, ledger
  <2>2. Current \in hooks.live
    <3>1. call.todo # {} /\ call.kind # "none"
      BY <1>2 DEF RunHook, Progress, Idle
    <3>2. call.todo \subseteq hooks.live /\ call.todo \subseteq Files
      BY <3>1 DEF Progress, Calls, Chosen
    <3> QED BY <3>1, <3>2, CurrentIsNext
  <2>3. ~hooks.auto => hooks.spec[Current] \in hashes /\ Body(Current) \in hashes \cup {None}
    BY <2>1, <2>2 DEF Policy, ApprovedInv, CodeChanged, Body
  <2> QED BY <2>1, <2>3 DEF UnapprovedNeverRuns
<1>3. CASE UNCHANGED vars
  BY <1>3 DEF vars, ledger, UnapprovedNeverRuns
<1> QED BY <1>1, <1>2, <1>3 DEF Next, Start, Put, Skip, Cancelled, Pass, Edit, Damage, Approve, Retire

\* The first discovery establishes all of it.
LEMMA InitHooks == ASSUME HooksAssumption, Init PROVE HookInv
<1>1. FilesOK
  <2>1. PICK A \in SUBSET {f \in Files : manifest[f] \in Manifests} :
          /\ shape = [f \in Files |-> IF f \in A THEN manifest[f] ELSE None]
          /\ hashes = {manifest[f] : f \in A} \cup
                      {code[Script[manifest[f]]] : f \in {g \in A : Script[manifest[g]] # None}}
    BY DEF Init
  <2>2. /\ manifest \in [Files -> Manifests \cup {Absent, Junk}] /\ readable \in BOOLEAN
        /\ code \in [Scripts -> Bodies] /\ code \in [Scripts -> Bodies \cup {Absent}]
    BY DEF Init, HooksAssumption
  <2>3. \A f \in A : manifest[f] \in Manifests
    BY <2>1
  <2>4. \A f \in A : Script[manifest[f]] # None => code[Script[manifest[f]]] \in Bodies
    BY <2>2, <2>3 DEF HooksAssumption
  <2>5. hashes \subseteq Manifests \cup Bodies
    BY <2>1, <2>3, <2>4
  <2>6. shape \in [Files -> Manifests \cup {None}]
    BY <2>1, <2>3
  <2> QED BY <2>2, <2>5, <2>6 DEF FilesOK
<1>2. PICK auto \in BOOLEAN : hooks = Discover(auto)
  BY DEF Init
<1>3. Policy
  <2>1. /\ HooksShape(Discover(auto)) /\ DOMAIN Due \subseteq Files
        /\ StandInv(Discover(auto), Due) /\ ApprovedInv(Discover(auto))
    BY <1>1, Discovered
  <2>2. HooksShape(hooks) /\ DOMAIN due \subseteq Files /\ StandInv(hooks, due) /\ ApprovedInv(hooks)
    BY <1>2, <2>1 DEF Init
  <2> QED BY <1>1, <2>2 DEF Policy, FilesOK
<1>4. Progress
  <2>1. call = Idle /\ last = NotAsked /\ refusals = 0
    BY DEF Init
  <2>2. /\ Idle \in Calls /\ Idle.kind = "none" /\ Idle.judged = {}
        /\ NotAsked \in Lasts /\ NotAsked.kind = "none" /\ 0 \in 0..MaxRefusals
    BY DEF Idle, Calls, NotAsked, Lasts, HooksAssumption
  <2> QED BY <2>1, <2>2 DEF Progress, CallInv, LastInv, Passed
<1>5. UnapprovedNeverRuns
  BY DEF Init, UnapprovedNeverRuns
<1> QED BY <1>3, <1>4, <1>5 DEF HookInv

\* In every reachable state the turn's hooks are what its discovery made of the
\* files and the ledger, nothing that gates what is under way was passed over,
\* and what ran was approved.
THEOREM HooksInvariant == HooksAssumption /\ Spec => []HookInv
<1> SUFFICES ASSUME HooksAssumption PROVE Spec => []HookInv
  OBVIOUS
<1>1. Init => HookInv
  BY InitHooks
<1>2. HookInv /\ [Next]_vars => HookInv'
  BY PolicyStep, ProgressStep, RanStep DEF HookInv
<1> QED BY <1>1, <1>2, PTL DEF Spec

------------------------------------------------------------------------------
(* What follows *)

\* While something fails closed only a repair goes through; otherwise every gate
\* that was installed stands, and was asked.
LEMMA InvariantGates == ASSUME HooksAssumption, HookInv PROVE GatesHold
<1>1. Policy /\ Progress /\ HooksShape(hooks)
  BY DEF HookInv, Policy
<1>2. TypeOK
  BY <1>1 DEF Policy, Progress, HooksShape, Calls, Lasts, TypeOK
<1>3. ASSUME Passed("tool"), ~hooks.auto, ~RepairsFailed(last.target), NEW f \in DOMAIN due
      PROVE  InForce(f) \/ due[f].overridden \/ due[f].now \notin {None, due[f].was}
  <2>1. ~FailsClosed
    BY <1>1, <1>3 DEF Progress, LastInv
  <2>2. Standing(hooks, due, f)
    BY <1>1, <1>3, <2>1 DEF Policy, StandInv, FailsClosed
  <2>3. Chosen("pre_tool_use") \subseteq last.judged
    BY <1>1, <1>3 DEF Progress, LastInv
  <2>4. f \in hooks.live /\ hooks.spec[f] = due[f].was => InForce(f)
    BY <2>3 DEF InForce, Chosen
  <2> QED BY <2>2, <2>4 DEF Standing
<1>4. Passed("tool") /\ last.target = None =>
        \A f \in hooks.live : Event[hooks.spec[f]] = "pre_tool_use" => f \in last.judged
  BY <1>1 DEF Progress, LastInv, Chosen
<1>5. Passed("end") => \A f \in hooks.live : hooks.spec[f] \in Blocking => f \in last.judged
  BY <1>1 DEF Progress, LastInv
<1> QED BY <1>2, <1>3, <1>4, <1>5 DEF GatesHold, EveryGateJudges

\* For every set of hook files, whatever they hold and whenever they change, and
\* for every cap: no tool call goes through outside auto while a gate a human
\* installed is out of force, and no end while a blocking hook was not asked.
THEOREM GatesAlwaysHold == HooksAssumption /\ Spec => []GatesHold
<1> SUFFICES ASSUME HooksAssumption PROVE Spec => []GatesHold
  OBVIOUS
<1>1. Spec => []HookInv
  BY HooksInvariant
<1>2. HookInv => GatesHold
  BY InvariantGates
<1> QED BY <1>1, <1>2, PTL

\* Whatever the agent writes between a discovery and a run, no hook process
\* outside auto runs a manifest or code that no human approved.
THEOREM OnlyApprovedRuns == HooksAssumption /\ Spec => []UnapprovedNeverRuns
<1> SUFFICES ASSUME HooksAssumption PROVE Spec => []UnapprovedNeverRuns
  OBVIOUS
<1>1. Spec => []HookInv
  BY HooksInvariant
<1>2. HookInv => UnapprovedNeverRuns
  BY DEF HookInv
<1> QED BY <1>1, <1>2, PTL

\* In auto what fails closed is what may be mended; a live hook that cannot
\* start is mended by its own file.
LEMMA InvariantOpens == ASSUME HooksAssumption, HookInv PROVE AutoNeverLocksOut
<1> SUFFICES ASSUME hooks.auto, hooks.closed \cap Global = {}, Broken \ Global # {}
             PROVE  \E t \in Targets \ Global :
                       Open(t) /\ (t \in hooks.closed \/ \E f \in Broken \ hooks.closed : IsOwnRepair(f, t))
  BY DEF AutoNeverLocksOut
<1>1. /\ hooks.live \subseteq Files /\ hooks.closed \subseteq Files
      /\ hooks.repair = hooks.closed /\ ~hooks.unverifiable
  BY DEF HookInv, Policy, HooksShape
<1>2. CASE hooks.closed # {}
  <2>1. PICK t \in hooks.closed : TRUE
    BY <1>2
  <2>2. t \in Targets \ Global /\ t # None
    BY <1>1, <2>1 DEF Targets, HooksAssumption
  <2>3. RepairsFailed(t)
    BY <1>1, <2>1, <2>2 DEF RepairsFailed, InProject
  <2>4. Open(t)
    BY <2>3 DEF Open, RepairsBroken
  <2> QED BY <2>1, <2>2, <2>4
<1>3. CASE hooks.closed = {}
  <2>1. PICK f \in hooks.live : Event[hooks.spec[f]] = "pre_tool_use" /\ CannotStart(f) /\ f \notin Global
    BY <1>3 DEF Broken
  <2>2. f \in Targets \ Global /\ f # None
    BY <1>1, <2>1 DEF Targets, HooksAssumption
  <2>3. IsOwnRepair(f, f)
    BY <2>1, <2>2 DEF IsOwnRepair, InProject
  <2>4. RepairsOwn(f)
    BY <2>1, <2>3 DEF RepairsOwn
  <2>5. Open(f)
    BY <1>1, <1>3, <2>4 DEF Open, RepairsBroken, FailsClosed
  <2>6. f \in Broken \ hooks.closed
    BY <1>3, <2>1 DEF Broken
  <2> QED BY <2>2, <2>3, <2>5, <2>6
<1> QED BY <1>2, <1>3

\* However many hooks the agent breaks in auto mode, one of the files that mend
\* them stays open to it: the hooks never lock each other's repair out.
THEOREM AutoStaysOpen == HooksAssumption /\ Spec => []AutoNeverLocksOut
<1> SUFFICES ASSUME HooksAssumption PROVE Spec => []AutoNeverLocksOut
  OBVIOUS
<1>1. Spec => []HookInv
  BY HooksInvariant
<1>2. HookInv => AutoNeverLocksOut
  BY InvariantOpens
<1> QED BY <1>1, <1>2, PTL
=============================================================================
