------------------------ MODULE CapabilityLedgerProofs ------------------------
(***************************************************************************)
(* What holds of the ledger for any acts, failing writes, deaths and power *)
(* cuts: its type, that no pin names a record its log does not have, and,  *)
(* in the second part, that only acts that finished are ever approved.     *)
(*                                                                         *)
(* PinNamesLog is not inductive.  A power cut pairs either log with either *)
(* pin, so every pair has to agree (Paired); the pin an append writes      *)
(* names the log its barrier has synced, which its place says              *)
(* (PlaceInv); and a repair may pin a tail only because what is not synced *)
(* ends in an approval or a retirement, which it refuses to pin (TailInv). *)
(***************************************************************************)
EXTENDS CapabilityLedger, TLAPS

\* Any pin there may be after a power cut names any log there may be.
Paired ==
    \A p \in {disk.pin, safe.pin}, l \in {disk.log, safe.log} :
        p # None /\ l # <<>> => IsPrefix(p, l)

\* The two pins differ only while a repair has taken the log away.
PinsInv == disk.pin = safe.pin \/ (disk.pin = None /\ disk.log = <<>>)

\* What an append left without syncing it ends in an act of a human.
TailInv ==
    disk.log # safe.log /\ disk.log # <<>> => disk.log[Len(disk.log)].kind # "change"

\* What a writer's place says of the directory.
PlaceInv ==
    \A w \in Writers :
        LET j == job[w] IN
        /\ j.at \in {"pend", "append"} =>
             /\ j.head = Append(disk.log, j.record) /\ j.record.kind # "change"
             /\ disk.pin # None => IsPrefix(disk.pin, disk.log)
        /\ j.at \in {"append", "flush", "pin", "clear"} => disk.pin = safe.pin
        /\ j.at = "append" => disk.log = safe.log
        /\ j.at \in {"flush", "pin", "clear"} => disk.log = j.head
        /\ j.at \in {"pin", "clear"} => safe.log = j.head
        /\ j.at = "repin" => disk.log # <<>> /\ disk.log[Len(disk.log)].kind = "change"
        /\ j.at \in {"tail", "prefix"} => j.head = disk.pin /\ disk.pin # None /\ disk.pin = safe.pin
        /\ j.at = "unpin" => disk.log = <<>>

PinInv == Paired /\ PinsInv /\ TailInv /\ PlaceInv
LedgerInv == TypeOK /\ PinInv

------------------------------------------------------------------------------
(* Prefixes *)

LEMMA PrefixItself == ASSUME NEW S, NEW s \in Seq(S) PROVE IsPrefix(s, s)
BY DEF IsPrefix

LEMMA PrefixAppend ==
    ASSUME NEW S, NEW s \in Seq(S), NEW t \in Seq(S), NEW x \in S, IsPrefix(s, t)
    PROVE  IsPrefix(s, Append(t, x))
<1>1. Len(s) <= Len(t) /\ SubSeq(s, 1, Len(s)) = SubSeq(t, 1, Len(s))
  BY DEF IsPrefix
<1>2. Len(s) <= Len(Append(t, x))
  BY <1>1
<1>3. SubSeq(Append(t, x), 1, Len(s)) = SubSeq(t, 1, Len(s))
  BY <1>1
<1> QED BY <1>1, <1>2, <1>3 DEF IsPrefix

LEMMA PrefixShorter ==
    ASSUME NEW S, NEW s \in Seq(S), NEW t \in Seq(S), IsPrefix(s, t), s # t
    PROVE  Len(s) < Len(t) /\ t # <<>>
<1>1. Len(s) <= Len(t) /\ SubSeq(s, 1, Len(s)) = SubSeq(t, 1, Len(s))
  BY DEF IsPrefix
<1>2. SUFFICES ASSUME Len(s) = Len(t) PROVE s = t
  BY <1>1
<1>3. SubSeq(s, 1, Len(s)) = s /\ SubSeq(t, 1, Len(t)) = t
  OBVIOUS
<1> QED BY <1>1, <1>2, <1>3

------------------------------------------------------------------------------
(* What the type says of a place *)

LEMMA JobFacts ==
    ASSUME NEW j \in Jobs
    PROVE  /\ j.at \in {"pend", "append", "flush", "pin", "clear"} =>
                /\ j \in [at : {"pend", "append", "flush", "pin", "clear"}, record : Records, head : Logs]
           /\ j.at \in {"repin", "tail", "prefix", "quarantine", "unpin", "cleared"} =>
                j \in [at : {"repin", "tail", "prefix", "quarantine", "unpin", "cleared"}, head : Logs]
           /\ j.at = "idle" => j = Idle
BY DEF Jobs, Idle

\* The writer that is not idle holds the lock, so every other one is idle.
LEMMA OneWriter ==
    ASSUME TypeOK, NEW w \in Writers, job[w].at # "idle"
    PROVE  lock = w /\ \A v \in Writers \ {w} : job[v].at = "idle"
BY DEF TypeOK

\* A closure's return keeps the type of the jobs and the lock.
LEMMA ReturnType ==
    ASSUME TypeOK, NEW w \in Writers, job[w].at # "idle", Return(w)
    PROVE  /\ job' \in [Writers -> Jobs]
           /\ \A v \in Writers : job'[v] = Idle /\ lock' # v
BY OneWriter, JobFacts, ConstantsAssumption DEF TypeOK, Return, Idle, Jobs

\* So does moving on, in an append or in a repair.
LEMMA ToType ==
    ASSUME TypeOK, NEW w \in Writers, NEW at, To(w, at), lock' = lock,
           \/ /\ job[w].at \in {"pend", "append", "flush", "pin", "clear"}
              /\ at \in {"pend", "append", "flush", "pin", "clear"}
           \/ /\ job[w].at \in {"repin", "tail", "prefix", "quarantine", "unpin", "cleared"}
              /\ at \in {"repin", "tail", "prefix", "quarantine", "unpin", "cleared"}
    PROVE  /\ job' \in [Writers -> Jobs]
           /\ job'[w].at = at /\ job'[w].head = job[w].head
           /\ job[w].at \in {"pend", "append", "flush", "pin", "clear"} => job'[w].record = job[w].record
           /\ \A v \in Writers \ {w} : job'[v] = job[v] /\ job'[v].at = "idle"
           /\ \A v \in Writers : job'[v].at = "idle" <=> lock' # v
<1>1. job[w] \in Jobs /\ job' = [job EXCEPT ![w].at = at]
  BY DEF TypeOK, To
<1>2. [job[w] EXCEPT !.at = at] \in Jobs
  BY <1>1, JobFacts DEF Jobs
<1>3. job' \in [Writers -> Jobs] /\ job'[w] = [job[w] EXCEPT !.at = at]
  BY <1>1, <1>2 DEF TypeOK
<1>4. \A v \in Writers \ {w} : job'[v] = job[v] /\ job[v].at = "idle" /\ lock # v
  BY <1>1, OneWriter DEF TypeOK
<1>5. /\ job'[w].at = at /\ job'[w].head = job[w].head
      /\ job[w].at \in {"pend", "append", "flush", "pin", "clear"} => job'[w].record = job[w].record
  BY <1>1, <1>3, JobFacts
<1>6. lock = w
  BY OneWriter
<1> QED BY <1>3, <1>4, <1>5, <1>6

\* A writer that is not in a job asks nothing of the directory.
LEMMA Resting ==
    ASSUME \A v \in Writers : job[v].at = "idle" PROVE PlaceInv
BY DEF PlaceInv

------------------------------------------------------------------------------
(* The initial states *)

LEMMA InitInv == Init => LedgerInv
<1> SUFFICES ASSUME Init PROVE LedgerInv
  OBVIOUS
<1>1. PICK k \in 0..Observed :
        LET old == [i \in 1..k |-> Change(i)]
            pinned == IF k < 2 THEN k ELSE 1 IN
        disk = Directory(old, FALSE, IF k = 0 THEN None ELSE SubSeq(old, 1, pinned),
                         IF k > pinned THEN old ELSE None, <<>>)
  BY DEF Init
<1> DEFINE old == [i \in 1..k |-> Change(i)]
           pinned == IF k < 2 THEN k ELSE 1
<1>2. old \in Logs /\ Len(old) = k
  <2>1. \A i \in 1..k : Change(i) \in Records
    BY ConstantsAssumption DEF Change, Record, Records, Kinds
  <2> QED BY <2>1, ConstantsAssumption DEF Logs
<1>3. SubSeq(old, 1, pinned) \in Logs /\ (k > 0 => IsPrefix(SubSeq(old, 1, pinned), old))
  <2>1. pinned \in Nat /\ pinned <= k
    BY ConstantsAssumption
  <2>2. SubSeq(old, 1, pinned) \in Logs
    BY <1>2, <2>1 DEF Logs
  <2>3. Len(SubSeq(old, 1, pinned)) = pinned
    BY <1>2, <2>1 DEF Logs
  <2>4. SubSeq(SubSeq(old, 1, pinned), 1, pinned) = SubSeq(old, 1, pinned)
    BY <1>2, <2>1 DEF Logs
  <2> HIDE DEF old, pinned
  <2> QED BY <1>2, <2>1, <2>2, <2>3, <2>4 DEF IsPrefix
<1> HIDE DEF old
<1>4. /\ disk = [log |-> old, torn |-> FALSE, pin |-> IF k = 0 THEN None ELSE SubSeq(old, 1, pinned),
                 pend |-> IF k > pinned THEN old ELSE None, quar |-> <<>>]
      /\ safe = disk
  BY <1>1 DEF Directory, Init, old
<1>5. disk \in Directories
  BY <1>2, <1>3, <1>4 DEF Directories
<1>6. TypeOK
  <2>1. job \in [Writers -> Jobs] /\ \A w \in Writers : job[w].at = "idle" /\ lock # w
    BY ConstantsAssumption DEF Init, Jobs, Idle
  <2>2. /\ done = {} /\ failed = {} /\ acts = 0 /\ faults = 0 /\ cuts = 0
        /\ MaxActs \in Nat /\ MaxFaults \in Nat /\ MaxCuts \in Nat
    BY ConstantsAssumption DEF Init
  <2> QED BY <1>4, <1>5, <2>1, <2>2 DEF TypeOK
<1>7. Paired /\ PinsInv /\ TailInv
  BY <1>2, <1>3, <1>4 DEF Paired, PinsInv, TailInv
<1>8. PlaceInv
  BY Resting DEF Init, Idle
<1> QED BY <1>6, <1>7, <1>8 DEF LedgerInv, PinInv

------------------------------------------------------------------------------
(* Appends *)

LEMMA VouchInv ==
    ASSUME LedgerInv, NEW w \in Writers, Vouch(w) PROVE LedgerInv'
<1> DEFINE v == OnDisk
<1>1. /\ lock = None /\ lock' = w /\ job[w].at = "idle" /\ acts < MaxActs /\ acts' = acts + 1
      /\ disk' = disk /\ safe' = safe /\ done' = done /\ failed' = failed
      /\ faults' = faults /\ cuts' = cuts
      /\ Verifiable(v)
  BY DEF Vouch, Acquire, bounds
<1>2. PICK record \in Records :
        /\ record.kind # "change"
        /\ job' = [job EXCEPT ![w] = [at |-> "pend", record |-> record,
                                      head |-> Append(disk.log, record)]]
  <2> DEFINE known == ApprovalsFrom(v.pinned)
             granted(p) == {Record("approval", p, c, acts + 1) :
                             c \in {c \in Contents : "approve" \in Acts
                                            /\ (c \notin known.hashes \/ known.live[p] # c)}}
             ended(p) == {Record("retired", p, None, acts + 1) :
                         x \in {x \in {p} : "forget" \in Acts /\ known.live[x] # None}}
  <2>1. PICK p \in Paths : \E record \in granted(p) \cup ended(p) :
          job' = [job EXCEPT ![w] = [at |-> "pend", record |-> record,
                                     head |-> Append(disk.log, record)]]
    BY Zenon DEF Vouch
  <2>2. acts + 1 \in 1..MaxActs + Observed
    BY <1>1, ConstantsAssumption DEF LedgerInv, TypeOK
  <2> HIDE DEF known
  <2>3. \A record \in granted(p) \cup ended(p) : record \in Records /\ record.kind # "change"
    BY <2>2 DEF Record, Records, Kinds
  <2> QED BY <2>1, <2>3
<1>3. disk.pin # None => IsPrefix(disk.pin, disk.log)
  <2>1. disk.pin \in Logs \cup {None} /\ disk.log \in Logs
    BY DEF LedgerInv, TypeOK, Directories
  <2>2. disk.pin = None \/ disk.pin = disk.log \/ IsPrefix(disk.pin, disk.log)
    BY <1>1 DEF OnDisk, Verified, Verifiable
  <2> QED BY <2>1, <2>2, PrefixItself DEF Logs
<1>4. TypeOK'
  <2>1. Append(disk.log, record) \in Logs
    BY <1>2 DEF LedgerInv, TypeOK, Directories, Logs
  <2>2. [at |-> "pend", record |-> record, head |-> Append(disk.log, record)] \in Jobs
    BY <1>2, <2>1 DEF Jobs
  <2>3. job' \in [Writers -> Jobs] /\ job'[w].at = "pend" /\ \A u \in Writers \ {w} : job'[u] = job[u]
    BY <1>2, <2>2 DEF LedgerInv, TypeOK
  <2>4. \A u \in Writers \ {w} : job[u].at = "idle"
    BY <1>1, ConstantsAssumption DEF LedgerInv, TypeOK
  <2> QED BY <1>1, <2>3, <2>4, ConstantsAssumption DEF LedgerInv, TypeOK
<1>5. Paired' /\ PinsInv' /\ TailInv'
  BY <1>1 DEF LedgerInv, PinInv, Paired, PinsInv, TailInv
<1>6. PlaceInv'
  <2>1. job'[w] = [at |-> "pend", record |-> record, head |-> Append(disk.log, record)]
    BY <1>2 DEF LedgerInv, TypeOK
  <2>2. \A u \in Writers \ {w} : job'[u] = job[u]
    BY <1>2 DEF LedgerInv, TypeOK
  <2>3. PlaceInv
    BY DEF LedgerInv, PinInv
  <2> QED BY <1>1, <1>2, <1>3, <2>1, <2>2, <2>3 DEF PlaceInv
<1> QED BY <1>4, <1>5, <1>6 DEF LedgerInv, PinInv

\* A record's act ends, with its record done or failed, while the directory
\* keeps its pins and its logs, or only gets a torn line.
LEMMA SameLogs ==
    ASSUME disk'.log = disk.log, safe'.log = safe.log, disk'.pin = disk.pin, safe'.pin = safe.pin
    PROVE  /\ Paired /\ PinsInv /\ TailInv => Paired' /\ PinsInv' /\ TailInv'
           /\ PlaceInv /\ job' = job => PlaceInv'
BY DEF Paired, PinsInv, TailInv, PlaceInv

\* What is typed besides the directory and the jobs, when a step of a job that
\* carries a record ends or goes on.
Counters ==
    /\ done \subseteq Records /\ failed \subseteq Records
    /\ acts \in 0..MaxActs /\ faults \in 0..MaxFaults /\ cuts \in 0..MaxCuts

LEMMA TypeParts ==
    TypeOK <=> /\ disk \in Directories /\ safe \in Directories
               /\ job \in [Writers -> Jobs] /\ Counters
               /\ \A w \in Writers : (job[w].at = "idle") <=> (lock # w)
BY DEF TypeOK, Counters

LEMMA FaultsCount ==
    ASSUME TypeOK, Fails \/ Goes PROVE faults' \in 0..MaxFaults
BY ConstantsAssumption DEF TypeOK, Fails, Goes

LEMMA WritePendingInv ==
    ASSUME LedgerInv, NEW w \in Writers, WritePending(w) PROVE LedgerInv'
<1>1. /\ job[w].at = "pend" /\ acts' = acts /\ cuts' = cuts
      /\ Fails \/ Goes
  BY DEF WritePending
<1>2. job[w] \in [at : {"pend", "append", "flush", "pin", "clear"}, record : Records, head : Logs]
  BY <1>1, JobFacts DEF LedgerInv, TypeOK
<1>3. faults' \in 0..MaxFaults
  BY <1>1, FaultsCount DEF LedgerInv
<1>4. CASE Fails /\ Fail(w) /\ UNCHANGED <<disk, safe>>
  <2>1. job' \in [Writers -> Jobs] /\ \A v \in Writers : job'[v] = Idle /\ lock' # v
    BY <1>1, <1>4, ReturnType DEF Fail, LedgerInv
  <2>2. TypeOK'
    BY <1>1, <1>2, <1>3, <1>4, <2>1 DEF TypeOK, LedgerInv, Fail, Idle
  <2>3. PlaceInv'
    BY <2>1 DEF PlaceInv, Idle
  <2> QED BY <1>4, <2>2, <2>3, SameLogs DEF LedgerInv, PinInv
<1>5. CASE /\ disk' = [disk EXCEPT !.pend = job[w].head]
           /\ safe' = disk'
           /\ To(w, "append") /\ UNCHANGED <<lock, done, failed>>
  <2>1. /\ job' \in [Writers -> Jobs]
        /\ job'[w].at = "append" /\ job'[w].head = job[w].head /\ job'[w].record = job[w].record
        /\ \A v \in Writers \ {w} : job'[v].at = "idle"
        /\ \A v \in Writers : job'[v].at = "idle" <=> lock' # v
    BY <1>1, <1>5, ToType DEF LedgerInv
  <2>2. /\ disk' \in Directories /\ safe' = disk'
        /\ disk'.log = disk.log /\ disk'.pin = disk.pin
    BY <1>2, <1>5 DEF LedgerInv, TypeOK, Directories
  <2>3. TypeOK'
    BY <1>1, <1>3, <1>5, <2>1, <2>2 DEF TypeOK, LedgerInv
  <2>4. Paired' /\ PinsInv' /\ TailInv'
    BY <2>2 DEF LedgerInv, PinInv, Paired, PinsInv, TailInv
  <2>5. PlaceInv'
    BY <1>1, <2>1, <2>2 DEF LedgerInv, PinInv, PlaceInv
  <2> QED BY <2>3, <2>4, <2>5 DEF LedgerInv, PinInv
<1> QED BY <1>4, <1>5 DEF WritePending

LEMMA AppendRecordInv ==
    ASSUME LedgerInv, NEW w \in Writers, AppendRecord(w) PROVE LedgerInv'
<1>1. /\ job[w].at = "append" /\ acts' = acts /\ cuts' = cuts /\ safe' = safe
      /\ Fails \/ Goes
  BY DEF AppendRecord
<1>2. job[w] \in [at : {"pend", "append", "flush", "pin", "clear"}, record : Records, head : Logs]
  BY <1>1, JobFacts DEF LedgerInv, TypeOK
<1>3. faults' \in 0..MaxFaults
  BY <1>1, FaultsCount DEF LedgerInv
<1>4. CASE Fail(w) /\ disk' \in {disk, [disk EXCEPT !.torn = TRUE]}
  <2>1. job' \in [Writers -> Jobs] /\ \A v \in Writers : job'[v] = Idle /\ lock' # v
    BY <1>1, <1>4, ReturnType DEF Fail, LedgerInv
  <2>2. disk' \in Directories /\ disk'.log = disk.log /\ disk'.pin = disk.pin
    BY <1>4 DEF LedgerInv, TypeOK, Directories
  <2>3. TypeOK'
    BY <1>1, <1>2, <1>3, <1>4, <2>1, <2>2 DEF TypeOK, LedgerInv, Fail, Idle
  <2>4. PlaceInv'
    BY <2>1 DEF PlaceInv, Idle
  <2> QED BY <1>1, <2>2, <2>3, <2>4, SameLogs DEF LedgerInv, PinInv
<1>5. CASE /\ disk' = [disk EXCEPT !.log = job[w].head]
           /\ To(w, "flush") /\ UNCHANGED <<lock, done, failed>>
  <2>1. /\ job' \in [Writers -> Jobs]
        /\ job'[w].at = "flush" /\ job'[w].head = job[w].head /\ job'[w].record = job[w].record
        /\ \A v \in Writers \ {w} : job'[v].at = "idle"
        /\ \A v \in Writers : job'[v].at = "idle" <=> lock' # v
    BY <1>1, <1>5, ToType DEF LedgerInv
  <2>2. /\ disk' \in Directories
        /\ disk'.log = job[w].head /\ disk'.pin = disk.pin
    BY <1>2, <1>5 DEF LedgerInv, TypeOK, Directories
  <2>3. TypeOK'
    BY <1>1, <1>3, <1>5, <2>1, <2>2 DEF TypeOK, LedgerInv
  <2>4. /\ job[w].head = Append(disk.log, job[w].record) /\ job[w].record.kind # "change"
        /\ disk.pin # None => IsPrefix(disk.pin, disk.log)
        /\ disk.pin = safe.pin /\ disk.log = safe.log
    BY <1>1 DEF LedgerInv, PinInv, PlaceInv
  <2>5. disk.log \in Logs /\ disk.pin \in Logs \cup {None} /\ job[w].record \in Records
    BY <1>2 DEF LedgerInv, TypeOK, Directories
  <2>6. disk.pin # None => IsPrefix(disk.pin, job[w].head)
    BY <2>4, <2>5, PrefixAppend DEF Logs
  <2>7. job[w].head[Len(job[w].head)] = job[w].record
    BY <2>4, <2>5 DEF Logs
  <2>8. Paired' /\ PinsInv' /\ TailInv'
    BY <1>1, <2>2, <2>4, <2>6, <2>7 DEF LedgerInv, PinInv, Paired, PinsInv, TailInv
  <2>9. PlaceInv'
    BY <1>1, <2>1, <2>2, <2>4 DEF PlaceInv
  <2> QED BY <2>3, <2>8, <2>9 DEF LedgerInv, PinInv
<1> QED BY <1>4, <1>5 DEF AppendRecord

\* A job that ends leaves nothing to say of its place.
LEMMA Ended ==
    ASSUME LedgerInv, NEW w \in Writers, job[w].at # "idle", Return(w),
           disk' \in Directories, safe' \in Directories, Counters',
           Paired', PinsInv', TailInv'
    PROVE  LedgerInv'
<1>1. job' \in [Writers -> Jobs] /\ \A v \in Writers : job'[v] = Idle /\ lock' # v
  BY ReturnType DEF LedgerInv
<1>2. TypeOK'
  BY <1>1 DEF TypeOK, Counters, Idle
<1>3. PlaceInv'
  BY <1>1 DEF PlaceInv, Idle
<1> QED BY <1>2, <1>3 DEF LedgerInv, PinInv

\* One that fails leaves the directory as it is.
LEMMA Failed ==
    ASSUME LedgerInv, NEW w \in Writers, job[w].at \in {"pend", "append", "flush", "pin", "clear"},
           Fail(w), Fails, UNCHANGED <<disk, safe, acts, cuts>>
    PROVE  LedgerInv'
<1>1. job[w].record \in Records
  BY JobFacts DEF LedgerInv, TypeOK
<1>2. faults' \in 0..MaxFaults
  BY FaultsCount DEF LedgerInv
<1>3. Counters' /\ Return(w)
  BY <1>1, <1>2 DEF Fail, Counters, LedgerInv, TypeOK
<1>4. Paired' /\ PinsInv' /\ TailInv' /\ disk' \in Directories /\ safe' \in Directories
  BY SameLogs DEF LedgerInv, PinInv, TypeOK
<1> QED BY <1>3, <1>4, Ended

LEMMA FlushInv ==
    ASSUME LedgerInv, NEW w \in Writers, Flush(w) PROVE LedgerInv'
<1>1. job[w].at = "flush" /\ acts' = acts /\ cuts' = cuts /\ disk' = disk
  BY DEF Flush
<1>2. CASE Fails /\ Fail(w) /\ UNCHANGED safe
  BY <1>1, <1>2, Failed
<1>3. CASE /\ safe' = [safe EXCEPT !.log = disk.log]
           /\ To(w, "pin") /\ Goes /\ UNCHANGED <<lock, done, failed>>
  <2>1. /\ job' \in [Writers -> Jobs]
        /\ job'[w].at = "pin" /\ job'[w].head = job[w].head
        /\ \A v \in Writers \ {w} : job'[v].at = "idle"
        /\ \A v \in Writers : job'[v].at = "idle" <=> lock' # v
    BY <1>1, <1>3, ToType DEF LedgerInv
  <2>2. safe' \in Directories /\ safe'.log = disk.log /\ safe'.pin = safe.pin
    BY <1>3 DEF LedgerInv, TypeOK, Directories
  <2>3. TypeOK'
    BY <1>1, <1>3, <2>1, <2>2, FaultsCount DEF TypeOK, LedgerInv
  <2>4. disk.pin = safe.pin /\ disk.log = job[w].head
    BY <1>1 DEF LedgerInv, PinInv, PlaceInv
  <2>5. Paired' /\ PinsInv' /\ TailInv'
    BY <1>1, <2>2, <2>4 DEF LedgerInv, PinInv, Paired, PinsInv, TailInv
  <2>6. PlaceInv'
    BY <1>1, <2>1, <2>2, <2>4 DEF PlaceInv
  <2> QED BY <2>3, <2>5, <2>6 DEF LedgerInv, PinInv
<1> QED BY <1>2, <1>3 DEF Flush

LEMMA MovePin ==
    ASSUME LedgerInv, NEW w \in Writers, Pin(w) PROVE LedgerInv'
<1>1. job[w].at = "pin" /\ acts' = acts /\ cuts' = cuts
  BY DEF Pin
<1>2. CASE Fails /\ Fail(w) /\ UNCHANGED <<disk, safe>>
  BY <1>1, <1>2, Failed
<1>3. CASE /\ disk' = [disk EXCEPT !.pin = job[w].head]
           /\ safe' = [safe EXCEPT !.pin = job[w].head]
           /\ To(w, "clear") /\ Goes /\ UNCHANGED <<lock, done, failed>>
  <2>1. /\ job' \in [Writers -> Jobs]
        /\ job'[w].at = "clear" /\ job'[w].head = job[w].head
        /\ \A v \in Writers \ {w} : job'[v].at = "idle"
        /\ \A v \in Writers : job'[v].at = "idle" <=> lock' # v
    BY <1>1, <1>3, ToType DEF LedgerInv
  <2>2. job[w].head \in Logs /\ disk.log = job[w].head /\ safe.log = job[w].head
    BY <1>1, JobFacts DEF LedgerInv, TypeOK, PinInv, PlaceInv
  <2>3. /\ disk' \in Directories /\ disk'.log = disk.log /\ disk'.pin = job[w].head
        /\ safe' \in Directories /\ safe'.log = safe.log /\ safe'.pin = job[w].head
    BY <1>3, <2>2 DEF LedgerInv, TypeOK, Directories
  <2>4. TypeOK'
    BY <1>1, <1>3, <2>1, <2>3, FaultsCount DEF TypeOK, LedgerInv
  <2>5. Paired' /\ PinsInv' /\ TailInv'
    BY <2>2, <2>3, PrefixItself DEF Paired, PinsInv, TailInv, Logs
  <2>6. PlaceInv'
    BY <2>1, <2>2, <2>3 DEF PlaceInv
  <2> QED BY <2>4, <2>5, <2>6 DEF LedgerInv, PinInv
<1> QED BY <1>2, <1>3 DEF Pin

LEMMA ClearInv ==
    ASSUME LedgerInv, NEW w \in Writers, Clear(w) PROVE LedgerInv'
<1>1. /\ job[w].at = "clear" /\ Return(w) /\ acts' = acts /\ cuts' = cuts /\ safe' = safe
      /\ failed' = failed /\ done' = done \cup {job[w].record}
  BY DEF Clear, Succeed
<1>2. faults' \in 0..MaxFaults
  BY FaultsCount DEF Clear, LedgerInv
<1>3. job[w].record \in Records
  BY <1>1, JobFacts DEF LedgerInv, TypeOK
<1>4. Counters'
  BY <1>1, <1>2, <1>3 DEF Counters, LedgerInv, TypeOK
<1>5. disk' \in Directories /\ disk'.log = disk.log /\ disk'.pin = disk.pin
  BY DEF Clear, LedgerInv, TypeOK, Directories
<1>6. Paired' /\ PinsInv' /\ TailInv' /\ safe' \in Directories
  BY <1>1, <1>5, SameLogs DEF LedgerInv, PinInv, TypeOK
<1> QED BY <1>1, <1>4, <1>5, <1>6, Ended

------------------------------------------------------------------------------
(* Repairs *)

\* A repair that gives up leaves the directory as it is.
LEMMA GivenUp ==
    ASSUME LedgerInv, NEW w \in Writers, job[w].at # "idle", Return(w), Fails,
           UNCHANGED <<disk, safe, done, failed, acts, cuts>>
    PROVE  LedgerInv'
<1>1. Counters'
  BY FaultsCount DEF Counters, LedgerInv, TypeOK
<1>2. Paired' /\ PinsInv' /\ TailInv' /\ disk' \in Directories /\ safe' \in Directories
  BY SameLogs DEF LedgerInv, PinInv, TypeOK
<1> QED BY <1>1, <1>2, Ended

LEMMA RepairInv ==
    ASSUME LedgerInv, NEW w \in Writers, Repair(w) PROVE LedgerInv'
<1> DEFINE v == OnDisk
           at == IF ~Verifiable(v) THEN "quarantine"
                 ELSE IF UnpinnedAuthority(disk.log, v) THEN "tail" ELSE "repin"
<1>1. /\ lock = None /\ lock' = w /\ job[w].at = "idle" /\ v.pin \notin {"matches", "fresh"}
      /\ job' = [job EXCEPT ![w] = [at |-> at, head |-> v.pinned]]
      /\ UNCHANGED <<disk, safe, done, failed, acts, faults, cuts>>
  BY DEF Repair, Acquire, bounds
<1>2. disk.log \in Logs /\ disk.pin \in Logs \cup {None}
  BY DEF LedgerInv, TypeOK, Directories
<1>3. v.pinned \in Logs
  BY <1>2 DEF OnDisk, Verified, Logs
<1>4. at # "quarantine" => /\ v.pinned = disk.pin /\ disk.pin # None /\ disk.pin # disk.log
                           /\ disk.log # <<>> /\ IsPrefix(disk.pin, disk.log)
  BY <1>1, <1>2 DEF OnDisk, Verified, Verifiable
<1>5. at = "repin" => disk.log[Len(disk.log)].kind = "change"
  <2> SUFFICES ASSUME at = "repin" PROVE disk.log[Len(disk.log)].kind = "change"
    OBVIOUS
  <2>1. ~UnpinnedAuthority(disk.log, v)
    BY <1>1
  <2>2. Len(disk.pin) < Len(disk.log)
    BY <1>2, <1>4, PrefixShorter DEF Logs
  <2>3. Len(disk.log) \in Len(v.pinned) + 1..Len(disk.log)
    BY <1>2, <1>4, <2>2 DEF Logs
  <2> HIDE DEF v, at
  <2> QED BY <2>1, <2>3 DEF UnpinnedAuthority
<1>6. TypeOK'
  <2>1. [at |-> at, head |-> v.pinned] \in Jobs
    BY <1>3 DEF Jobs
  <2> HIDE DEF v, at
  <2>2. job' \in [Writers -> Jobs] /\ job'[w] = [at |-> at, head |-> v.pinned]
        /\ \A u \in Writers \ {w} : job'[u] = job[u]
    BY <1>1, <2>1 DEF LedgerInv, TypeOK
  <2>3. at # "idle"
    BY DEF at
  <2>4. \A u \in Writers : job[u].at = "idle"
    BY <1>1, ConstantsAssumption DEF LedgerInv, TypeOK
  <2> QED BY <1>1, <2>2, <2>3, <2>4, ConstantsAssumption DEF LedgerInv, TypeOK
<1>7. Paired' /\ PinsInv' /\ TailInv'
  BY <1>1, SameLogs DEF LedgerInv, PinInv
<1>8. PlaceInv'
  <2> HIDE DEF v
  <2>1. job'[w] = [at |-> at, head |-> v.pinned] /\ \A u \in Writers \ {w} : job'[u].at = "idle"
    BY <1>1, ConstantsAssumption DEF LedgerInv, TypeOK
  <2>2. disk' = disk /\ safe' = safe /\ at \in {"quarantine", "tail", "repin"}
    BY <1>1
  <2>3. at # "quarantine" => disk.pin = safe.pin
    BY <1>4 DEF LedgerInv, PinInv, PinsInv
  <2> HIDE DEF at
  <2> QED BY <1>4, <1>5, <2>1, <2>2, <2>3 DEF PlaceInv
<1> QED BY <1>6, <1>7, <1>8 DEF LedgerInv, PinInv

RepairPlaces == {"repin", "tail", "prefix", "quarantine", "unpin", "cleared"}

\* A repair that goes on keeps its head.
LEMMA GoesOn ==
    ASSUME LedgerInv, NEW w \in Writers, NEW at \in RepairPlaces, job[w].at \in RepairPlaces,
           To(w, at), lock' = lock, Fails \/ Goes, UNCHANGED <<done, failed, acts, cuts>>,
           disk' \in Directories, safe' \in Directories
    PROVE  /\ TypeOK'
           /\ job'[w].at = at /\ job'[w].head = job[w].head
           /\ \A v \in Writers \ {w} : job'[v].at = "idle"
<1>1. /\ job' \in [Writers -> Jobs]
      /\ job'[w].at = at /\ job'[w].head = job[w].head
      /\ \A v \in Writers \ {w} : job'[v].at = "idle"
      /\ \A v \in Writers : job'[v].at = "idle" <=> lock' # v
  BY ToType DEF LedgerInv, RepairPlaces
<1>2. TypeOK'
  BY <1>1, FaultsCount DEF TypeOK, LedgerInv
<1> QED BY <1>1, <1>2

LEMMA RepinInv ==
    ASSUME LedgerInv, NEW w \in Writers, Repin(w) PROVE LedgerInv'
<1>1. job[w].at = "repin" /\ UNCHANGED <<done, failed, acts, cuts>>
  BY DEF Repin
<1>2. CASE Fails /\ Return(w) /\ UNCHANGED <<disk, safe>>
  BY <1>1, <1>2, GivenUp
<1>3. CASE /\ disk' = [disk EXCEPT !.pin = disk.log] /\ safe' = [safe EXCEPT !.pin = disk.log]
           /\ To(w, "cleared") /\ Goes /\ UNCHANGED lock
  <2>1. disk.log \in Logs /\ disk.log = safe.log
    BY <1>1 DEF LedgerInv, TypeOK, Directories, PinInv, PlaceInv, TailInv
  <2>2. /\ disk' \in Directories /\ disk'.log = disk.log /\ disk'.pin = disk.log
        /\ safe' \in Directories /\ safe'.log = disk.log /\ safe'.pin = disk.log
    BY <1>3, <2>1 DEF LedgerInv, TypeOK, Directories
  <2>3. /\ TypeOK' /\ job'[w].at = "cleared"
        /\ \A v \in Writers \ {w} : job'[v].at = "idle"
    BY <1>1, <1>3, <2>2, GoesOn DEF RepairPlaces
  <2>4. Paired' /\ PinsInv' /\ TailInv'
    BY <2>1, <2>2, PrefixItself DEF Paired, PinsInv, TailInv, Logs
  <2>5. PlaceInv'
    BY <2>3 DEF PlaceInv
  <2> QED BY <2>3, <2>4, <2>5 DEF LedgerInv, PinInv
<1> QED BY <1>2, <1>3 DEF Repin

LEMMA QuarantineTailInv ==
    ASSUME LedgerInv, NEW w \in Writers, QuarantineTail(w) PROVE LedgerInv'
<1>1. job[w].at = "tail" /\ UNCHANGED <<done, failed, acts, cuts>>
  BY DEF QuarantineTail
<1>2. CASE Fails /\ Return(w) /\ UNCHANGED <<disk, safe>>
  BY <1>1, <1>2, GivenUp
<1>3. CASE /\ disk' = [disk EXCEPT !.quar = Append(@, ToSet(disk.log) \ ToSet(job[w].head))]
           /\ safe' = [safe EXCEPT !.quar = disk'.quar]
           /\ To(w, "prefix") /\ Goes /\ UNCHANGED lock
  <2>1. ToSet(disk.log) \ ToSet(job[w].head) \in SUBSET Records
    BY DEF ToSet, LedgerInv, TypeOK, Directories, Logs
  <2>2. Append(disk.quar, ToSet(disk.log) \ ToSet(job[w].head)) \in Seq(SUBSET Records)
    BY <2>1 DEF LedgerInv, TypeOK, Directories
  <2>3. /\ disk' \in Directories /\ disk'.log = disk.log /\ disk'.pin = disk.pin
        /\ safe' \in Directories /\ safe'.log = safe.log /\ safe'.pin = safe.pin
    BY <1>3, <2>2 DEF LedgerInv, TypeOK, Directories
  <2>4. /\ TypeOK' /\ job'[w].at = "prefix" /\ job'[w].head = job[w].head
        /\ \A v \in Writers \ {w} : job'[v].at = "idle"
    BY <1>1, <1>3, <2>3, GoesOn DEF RepairPlaces
  <2>5. Paired' /\ PinsInv' /\ TailInv'
    BY <2>3, SameLogs DEF LedgerInv, PinInv
  <2>6. PlaceInv'
    BY <1>1, <2>3, <2>4 DEF LedgerInv, PinInv, PlaceInv
  <2> QED BY <2>4, <2>5, <2>6 DEF LedgerInv, PinInv
<1> QED BY <1>2, <1>3 DEF QuarantineTail

LEMMA KeepPrefixInv ==
    ASSUME LedgerInv, NEW w \in Writers, KeepPrefix(w) PROVE LedgerInv'
<1>1. job[w].at = "prefix" /\ UNCHANGED <<done, failed, acts, cuts>>
  BY DEF KeepPrefix
<1>2. CASE Fails /\ Return(w) /\ UNCHANGED <<disk, safe>>
  BY <1>1, <1>2, GivenUp
<1>3. CASE /\ disk' = [disk EXCEPT !.log = job[w].head] /\ safe' = [safe EXCEPT !.log = job[w].head]
           /\ To(w, "cleared") /\ Goes /\ UNCHANGED lock
  <2>1. /\ job[w].head \in Logs /\ job[w].head = disk.pin /\ disk.pin = safe.pin
    BY <1>1, JobFacts DEF LedgerInv, TypeOK, PinInv, PlaceInv
  <2>2. /\ disk' \in Directories /\ disk'.log = disk.pin /\ disk'.pin = disk.pin
        /\ safe' \in Directories /\ safe'.log = disk.pin /\ safe'.pin = disk.pin
    BY <1>3, <2>1 DEF LedgerInv, TypeOK, Directories
  <2>3. /\ TypeOK' /\ job'[w].at = "cleared"
        /\ \A v \in Writers \ {w} : job'[v].at = "idle"
    BY <1>1, <1>3, <2>2, GoesOn DEF RepairPlaces
  <2>4. Paired' /\ PinsInv' /\ TailInv'
    BY <2>1, <2>2, PrefixItself DEF Paired, PinsInv, TailInv, Logs
  <2>5. PlaceInv'
    BY <2>3 DEF PlaceInv
  <2> QED BY <2>3, <2>4, <2>5 DEF LedgerInv, PinInv
<1> QED BY <1>2, <1>3 DEF KeepPrefix

LEMMA QuarantineInv ==
    ASSUME LedgerInv, NEW w \in Writers, Quarantine(w) PROVE LedgerInv'
<1>1. job[w].at = "quarantine" /\ safe' = safe /\ UNCHANGED <<done, failed, acts, cuts>>
  BY DEF Quarantine
<1>2. CASE Fails /\ Return(w) /\ UNCHANGED disk
  BY <1>1, <1>2, GivenUp
<1>3. CASE /\ disk' = IF disk.log = <<>> /\ ~disk.torn THEN disk
                      ELSE [disk EXCEPT !.log = <<>>, !.torn = FALSE,
                                        !.quar = Append(@, ToSet(disk.log))]
           /\ To(w, "unpin") /\ Goes /\ UNCHANGED lock
  <2>1. ToSet(disk.log) \in SUBSET Records
    BY DEF ToSet, LedgerInv, TypeOK, Directories, Logs
  <2>2. Append(disk.quar, ToSet(disk.log)) \in Seq(SUBSET Records) /\ <<>> \in Logs
    BY <2>1 DEF LedgerInv, TypeOK, Directories, Logs
  <2>3. disk' \in Directories /\ disk'.log = <<>> /\ disk'.pin = disk.pin
    BY <1>3, <2>2 DEF LedgerInv, TypeOK, Directories
  <2>4. /\ TypeOK' /\ job'[w].at = "unpin"
        /\ \A v \in Writers \ {w} : job'[v].at = "idle"
    BY <1>1, <1>3, <2>3, GoesOn DEF RepairPlaces, LedgerInv, TypeOK
  <2>5. Paired' /\ PinsInv' /\ TailInv'
    BY <1>1, <2>3 DEF LedgerInv, PinInv, Paired, PinsInv, TailInv
  <2>6. PlaceInv'
    BY <2>3, <2>4 DEF PlaceInv
  <2> QED BY <2>4, <2>5, <2>6 DEF LedgerInv, PinInv
<1> QED BY <1>2, <1>3 DEF Quarantine

LEMMA UnpinInv ==
    ASSUME LedgerInv, NEW w \in Writers, Unpin(w) PROVE LedgerInv'
<1>1. /\ job[w].at = "unpin" /\ To(w, "cleared") /\ safe' = safe /\ lock' = lock
      /\ UNCHANGED <<done, failed, acts, cuts>>
      /\ Fails \/ Goes
  BY DEF Unpin
<1>2. disk.log = <<>>
  BY <1>1 DEF LedgerInv, PinInv, PlaceInv
<1>3. disk' \in Directories /\ disk'.log = <<>> /\ disk'.pin \in {disk.pin, None}
  BY <1>2 DEF Unpin, LedgerInv, TypeOK, Directories
<1>4. /\ TypeOK' /\ job'[w].at = "cleared"
      /\ \A v \in Writers \ {w} : job'[v].at = "idle"
  BY <1>1, <1>3, GoesOn DEF RepairPlaces, LedgerInv, TypeOK
<1>5. Paired' /\ PinsInv' /\ TailInv'
  BY <1>1, <1>2, <1>3 DEF LedgerInv, PinInv, Paired, PinsInv, TailInv
<1>6. PlaceInv'
  BY <1>4 DEF PlaceInv
<1> QED BY <1>4, <1>5, <1>6 DEF LedgerInv, PinInv

LEMMA RepairedInv ==
    ASSUME LedgerInv, NEW w \in Writers, Repaired(w) PROVE LedgerInv'
<1>1. /\ job[w].at = "cleared" /\ Return(w) /\ safe' = safe
      /\ UNCHANGED <<done, failed, acts, cuts>>
      /\ Fails \/ Goes
  BY DEF Repaired
<1>2. disk' \in Directories /\ disk'.log = disk.log /\ disk'.pin = disk.pin
  BY DEF Repaired, LedgerInv, TypeOK, Directories
<1>3. Counters'
  BY <1>1, FaultsCount DEF Counters, LedgerInv, TypeOK
<1>4. Paired' /\ PinsInv' /\ TailInv' /\ safe' \in Directories
  BY <1>1, <1>2, SameLogs DEF LedgerInv, PinInv, TypeOK
<1> QED BY <1>1, <1>2, <1>3, <1>4, Ended

------------------------------------------------------------------------------
(* Cuts *)

\* The writer whose act is under way when its process dies has a record.
LEMMA DieInv ==
    ASSUME LedgerInv, NEW w \in Writers, Die(w) PROVE LedgerInv'
<1>1. /\ job[w].at # "idle" /\ cuts < MaxCuts /\ cuts' = cuts + 1 /\ Return(w)
      /\ safe' = safe /\ UNCHANGED <<done, acts, faults>>
  BY DEF Die
<1>2. disk' \in Directories /\ disk'.log = disk.log /\ disk'.pin = disk.pin
  <2>1. disk' = disk \/ disk' = [disk EXCEPT !.torn = TRUE]
    BY DEF Die
  <2> QED BY <2>1 DEF LedgerInv, TypeOK, Directories
<1>3. failed' \subseteq Records
  <2>1. job[w].at \in {"pend", "append", "flush", "pin"} => job[w].record \in Records
    BY JobFacts DEF LedgerInv, TypeOK
  <2> QED BY <2>1 DEF Die, LedgerInv, TypeOK
<1>4. Counters'
  BY <1>1, <1>3, ConstantsAssumption DEF Counters, LedgerInv, TypeOK
<1>5. Paired' /\ PinsInv' /\ TailInv' /\ safe' \in Directories
  BY <1>1, <1>2, SameLogs DEF LedgerInv, PinInv, TypeOK
<1> QED BY <1>1, <1>2, <1>4, <1>5, Ended

LEMMA PowerCutInv ==
    ASSUME LedgerInv, PowerCut PROVE LedgerInv'
<1>1. PICK l \in LogsLeft, pin \in {disk.pin, safe.pin}, pend \in {disk.pend, safe.pend} :
        disk' = Directory(l[1], l[2], pin, pend, l[3])
  BY DEF PowerCut
<1>2. /\ safe' = disk' /\ lock' = None /\ job' = [w \in Writers |-> Idle]
      /\ cuts < MaxCuts /\ cuts' = cuts + 1 /\ UNCHANGED <<done, acts, faults>>
  BY DEF PowerCut
<1>3. /\ l[1] \in {disk.log, safe.log} /\ l[2] \in BOOLEAN /\ l[3] \in Seq(SUBSET Records)
      /\ disk.log \in Logs /\ safe.log \in Logs
      /\ pin \in Logs \cup {None} /\ pend \in Logs \cup {None}
  <2>1. \A d \in {disk, safe} : /\ d.log \in Logs /\ d.torn \in BOOLEAN
                                /\ d.quar \in Seq(SUBSET Records)
                                /\ d.pin \in Logs \cup {None} /\ d.pend \in Logs \cup {None}
    BY DEF LedgerInv, TypeOK, Directories
  <2>2. \E d \in {disk, safe}, e \in {disk, safe}, torn \in BOOLEAN : l = <<d.log, torn, e.quar>>
    <3>1. l = <<disk.log, disk.torn, disk.quar>> \/ l = <<safe.log, safe.torn, safe.quar>>
          \/ l = <<safe.log, TRUE, disk.quar>>
      BY DEF LogsLeft
    <3> QED BY <2>1, <3>1, Zenon
  <2>3. PICK d \in {disk, safe}, e \in {disk, safe}, torn \in BOOLEAN : l = <<d.log, torn, e.quar>>
    BY <2>2
  <2>4. l[1] = d.log /\ l[2] = torn /\ l[3] = e.quar
    BY <2>3
  <2> QED BY <2>1, <2>4
<1>4. disk' \in Directories /\ disk'.log = l[1] /\ disk'.pin = pin
  BY <1>1, <1>3 DEF Directory, Directories
<1>5. failed' \subseteq Records
  <2>1. \A w \in Writers : job[w].at \in {"pend", "append", "flush", "pin"} => job[w].record \in Records
    BY JobFacts DEF LedgerInv, TypeOK
  <2> QED BY <2>1 DEF PowerCut, LedgerInv, TypeOK
<1>6. TypeOK'
  <2>1. job' \in [Writers -> Jobs] /\ \A w \in Writers : job'[w].at = "idle" /\ lock' # w
    BY <1>2, ConstantsAssumption DEF Idle, Jobs
  <2> QED BY <1>2, <1>4, <1>5, <2>1, ConstantsAssumption DEF TypeOK, LedgerInv
<1>7. Paired' /\ PinsInv' /\ TailInv'
  BY <1>2, <1>3, <1>4 DEF LedgerInv, PinInv, Paired, PinsInv, TailInv
<1>8. PlaceInv'
  BY <1>2 DEF PlaceInv, Idle
<1> QED BY <1>6, <1>7, <1>8 DEF LedgerInv, PinInv

------------------------------------------------------------------------------
(* The theorems *)

\* What a gate's query leaves alone.
LEMMA ReadingInv ==
    ASSUME LedgerInv, UNCHANGED <<disk, safe, lock, job, done, failed, acts, faults, cuts>>
    PROVE  LedgerInv'
<1>1. TypeOK'
  BY DEF LedgerInv, TypeOK
<1>2. PinInv'
  BY SameLogs DEF LedgerInv, PinInv
<1> QED BY <1>1, <1>2 DEF LedgerInv

LEMMA StepInv == LedgerInv /\ [Next]_vars => LedgerInv'
<1> SUFFICES ASSUME LedgerInv, [Next]_vars PROVE LedgerInv'
  OBVIOUS
<1>1. ASSUME NEW w \in Writers, Vouch(w) \/ WritePending(w) \/ AppendRecord(w) PROVE LedgerInv'
  BY <1>1, VouchInv, WritePendingInv, AppendRecordInv
<1>2. ASSUME NEW w \in Writers, Flush(w) \/ Pin(w) \/ Clear(w) PROVE LedgerInv'
  BY <1>2, FlushInv, MovePin, ClearInv
<1>3. ASSUME NEW w \in Writers, Repair(w) \/ Repin(w) \/ QuarantineTail(w) \/ KeepPrefix(w)
      PROVE LedgerInv'
  BY <1>3, RepairInv, RepinInv, QuarantineTailInv, KeepPrefixInv
<1>4. ASSUME NEW w \in Writers, Quarantine(w) \/ Unpin(w) \/ Repaired(w) \/ Die(w)
      PROVE LedgerInv'
  BY <1>4, QuarantineInv, UnpinInv, RepairedInv, DieInv
<1>5. ASSUME NEW r \in Readers, Ask(r) \/ AskKey(r) \/ AskLog(r) \/ AskPin(r) \/ AskPending(r)
      PROVE LedgerInv'
  <2>1. UNCHANGED <<disk, safe, lock, job, done, failed, acts, faults, cuts>>
    BY <1>5 DEF Ask, AskKey, AskLog, AskPin, AskPending, bounds
  <2> QED BY <2>1, ReadingInv
<1>6. CASE PowerCut
  BY <1>6, PowerCutInv
<1>7. CASE UNCHANGED vars
  BY <1>7, ReadingInv DEF vars, bounds
<1> QED BY <1>1, <1>2, <1>3, <1>4, <1>5, <1>6, <1>7 DEF Next

\* The invariant of the ledger's directory and its writers: append_chained and
\* repair keep it wherever they are cut.
THEOREM LedgerInvariant == Spec => []LedgerInv
BY InitInv, StepInv, PTL DEF Spec

\* Every reachable state of the ledger has its type.
THEOREM LedgerTyped == Spec => []TypeOK
<1>1. LedgerInv => TypeOK
  BY DEF LedgerInv
<1> QED BY <1>1, LedgerInvariant, PTL

\* "The pin can never name a record the log does not have" (append_chained),
\* for any writers, acts, failing writes, deaths and power cuts.
THEOREM PinsNameTheLog == Spec => []PinNamesLog
<1>1. LedgerInv => PinNamesLog
  BY DEF LedgerInv, PinInv, Paired, PinNamesLog
<1> QED BY <1>1, LedgerInvariant, PTL

------------------------------------------------------------------------------
(***************************************************************************)
(* That what is approved is exactly what a human's finished act put under  *)
(* the pin, to whoever asks: for any number of writers and readers, and    *)
(* any failing writes, deaths and power cuts.                              *)
(*                                                                         *)
(* The invariant has three parts on top of LedgerInv.  DriveInv is about   *)
(* the directory: a finished act is under every pin a cut may leave or set *)
(* aside, what is not synced is one append whose pending pin names it, and *)
(* what each place of an append or a repair says of both.  FailInv and     *)
(* PinsClean are about the acts that fail: no pin a gate has seen names a  *)
(* record that failed or may yet fail (Bad), which holds because an append *)
(* is refused over a tail that grants or retires something and because     *)
(* every act takes a number of its own.  ReadInv is about the gates: a pin *)
(* that a reader has read is there still or has moved on for good (Dead),  *)
(* which is why a cache entry whose key is read again holds what the pin   *)
(* named.                                                                  *)
(***************************************************************************)

\* The pins a power cut may leave.
PinsLeft == {disk.pin, safe.pin}

\* Past the pin p the log l is settled when it is not an append alone that is
\* there: the log is the pin, or an earlier build's observations follow.
Settled(p, l) ==
    p # None /\ l # <<>> /\ (\A i \in Len(p) + 1..Len(l) : l[i].kind # "change") => p = l

\* What is not synced is one append whose pin to come names it.
Unsynced ==
    disk.log # safe.log /\ disk.log # <<>> =>
        /\ ToSet(safe.log) \subseteq ToSet(disk.log) /\ disk.quar = safe.quar
        /\ ~disk.torn /\ disk.pend = disk.log /\ safe.pend = disk.log

\* Nothing is only where a power cut may undo a rename.
KeptInv ==
    /\ Held(safe) \subseteq Held(disk)
    /\ UNION ToSet(safe.quar) \subseteq UNION ToSet(disk.quar)

\* The finished acts are on the drive, under the pin or set aside.
DoneInv ==
    /\ done \subseteq Held(safe)
    /\ \A p \in PinsLeft, d \in {disk, safe} :
         p # None /\ d.log # <<>> => done \subseteq ToSet(p) \cup UNION ToSet(d.quar)

\* An interrupted append can be told from tampering in whatever a cut leaves.
RecogniseInv ==
    \A p \in PinsLeft :
        /\ ~disk.torn => Settled(p, disk.log) \/ (disk.pend = disk.log /\ safe.pend = disk.log)
        /\ ~safe.torn => Settled(p, safe.log) \/ (disk.pend = safe.log /\ safe.pend = safe.log)
        /\ ~safe.torn /\ (disk.torn \/ disk.log = <<>>) => Settled(p, safe.log)

\* What a writer's place says beyond PlaceInv.
WorkInv ==
    \A w \in Writers :
        LET j == job[w] IN
        /\ j.at # "idle" /\ j.at # "quarantine" => ~disk.torn
        /\ j.at \in {"pend", "append"} => \A p \in PinsLeft : Settled(p, disk.log)
        /\ j.at \in {"append", "flush", "pin", "clear"} => safe.quar = disk.quar /\ ~safe.torn
        /\ j.at \in {"append", "flush", "pin"} =>
             disk.pend = j.head /\ safe.pend = j.head /\ j.head # <<>>
        /\ j.at = "flush" => ToSet(safe.log) \subseteq ToSet(disk.log)
        /\ j.at \in {"flush", "pin", "clear"} => j.record \in ToSet(j.head)
        /\ j.at = "clear" => disk.pin = j.head
        /\ j.at = "quarantine" => ~Verifiable(OnDisk)
        /\ j.at \in {"tail", "prefix"} => disk.log # <<>>
        /\ j.at = "prefix" => safe.quar = disk.quar
                              /\ ToSet(disk.log) \subseteq ToSet(j.head) \cup UNION ToSet(disk.quar)
        /\ j.at = "cleared" =>
             \/ disk.pin # None /\ disk.pin = disk.log /\ safe.pin = disk.log /\ safe.log = disk.log
             \/ disk.log = <<>> /\ (disk.pin = None \/ faults > 0)

\* A pin names at least one record.
NonEmpty == \A p \in PinsLeft : p # None => p # <<>>

\* What holds of the directory and of what a power cut leaves of it.
DirInv == NonEmpty /\ Unsynced /\ KeptInv /\ DoneInv /\ RecogniseInv
DriveInv == DirInv /\ WorkInv

\* The places of an append whose act may yet fail.
Acting == {"pend", "append", "flush", "pin"}

\* The records of the acts that failed, or that may yet fail.
Bad == failed \cup {job[w].record : w \in {w \in Writers : job[w].at \in Acting}}

\* A human's acts are numbered as they come.
Old(S, n) == \A x \in S : x.kind = "change" \/ x.n <= n

\* A pin names no record of an act that failed or may yet fail.
Clean(p, bad, n) == p # None => p \in Logs /\ p # <<>> /\ bad \cap ToSet(p) = {} /\ Old(ToSet(p), n)

\* No number is taken twice, and what a writer is about to pin holds no act
\* that failed.
FailInv ==
    /\ Old(Bad, acts) /\ Old(ToSet(disk.log), acts) /\ Old(ToSet(safe.log), acts)
    /\ \A x \in Bad : x.kind # "change"
    /\ \A w \in Writers :
         /\ job[w].at \in Acting => failed \cap ToSet(job[w].head) = {}
         /\ job[w].at = "repin" => failed \cap ToSet(disk.log) = {}

\* Every pin there may be, that a query has seen or a cache is keyed by, is
\* clean.
PinsClean ==
    /\ \A p \in PinsLeft : Clean(p, Bad, acts)
    /\ \A r \in Readers :
         /\ ask[r].at # "idle" => \A p \in ask[r].window : Clean(p, Bad, acts)
         /\ answer[r] # None => \A p \in answer[r].window : Clean(p, Bad, acts)
         /\ cache[r] # None => Clean(cache[r].key[1], Bad, acts)

\* A pin that has moved on, and never comes back.
Dead(p, pin, log) ==
    \/ pin # None /\ IsStrictPrefix(p, pin)
    \/ p[1] \notin ToSet(log) /\ pin # p
\* A pin that has been read: it is there, or never comes back.
Live(p, pin, log) == pin = p \/ Dead(p, pin, log)

\* What a reader has in hand: pins, cache keys and queries.
AnyPin == Logs \cup {None}
Keys == (Logs \X Logs \X BOOLEAN)
Asks ==
    {Unasked}
    \cup [at : {"key"}, key : {<<p>> : p \in AnyPin}, window : SUBSET AnyPin]
    \cup [at : {"log"}, key : Keys \cup {None}, window : SUBSET AnyPin]
    \cup [at : {"pin"}, key : Keys \cup {None}, window : SUBSET AnyPin, log : Logs, torn : BOOLEAN]
    \cup [at : {"pending"}, key : Keys \cup {None}, window : SUBSET AnyPin, log : Logs, torn : BOOLEAN,
          pin : AnyPin]
ReadType ==
    /\ ask \in [Readers -> Asks]
    /\ cache \in [Readers -> {None} \cup [key : Keys, records : Logs]]
    /\ answer \in [Readers -> {None} \cup [ok : BOOLEAN, window : SUBSET AnyPin, records : Logs]]

\* A cache entry holds what its pin named, or its pin is gone for good.
CacheInv ==
    \A r \in Readers :
        cache[r] # None =>
            /\ cache[r].key[1] # None
            /\ cache[r].records = cache[r].key[1] \/ Dead(cache[r].key[1], disk.pin, disk.log)

\* A query has the pin in its window, and its key was read in it.
AskInv ==
    \A r \in Readers :
        LET a == ask[r] IN
        /\ a.at # "idle" => disk.pin \in a.window
        /\ a.at = "key" =>
             /\ a.key[1] \in a.window /\ (a.key[1] # None => Live(a.key[1], disk.pin, disk.log))
             /\ cache[r] # None /\ cache[r].key[1] = a.key[1] => cache[r].records = a.key[1]
        /\ a.at \in {"log", "pin", "pending"} /\ a.key # None =>
             a.key[1] # None /\ a.key[1] \in a.window /\ Live(a.key[1], disk.pin, disk.log)
        /\ a.at = "pending" => a.pin \in a.window
        /\ a.at = "pending" /\ a.key # None => a.pin = a.key[1] \/ Dead(a.key[1], disk.pin, disk.log)

\* An answer is what a pin of its window named, or nothing when there was none.
AnswerInv ==
    \A r \in Readers :
        answer[r] # None =>
            IF answer[r].ok THEN \/ answer[r].records # None /\ answer[r].records \in answer[r].window
                                 \/ answer[r].records = <<>> /\ None \in answer[r].window
            ELSE answer[r].records = <<>>

\* What holds of the gates.
ReadInv == ReadType /\ CacheInv /\ AskInv /\ AnswerInv

------------------------------------------------------------------------------
(* The records of a log *)

\* Appending adds one record.
LEMMA SetOfAppend ==
    ASSUME NEW S, NEW s \in Seq(S), NEW x \in S PROVE ToSet(Append(s, x)) = ToSet(s) \cup {x}
<1>1. /\ DOMAIN Append(s, x) = 1..Len(s) + 1 /\ DOMAIN s = 1..Len(s) /\ Len(s) \in Nat
      /\ \A i \in 1..Len(s) : Append(s, x)[i] = s[i]
      /\ Append(s, x)[Len(s) + 1] = x
  OBVIOUS
<1>2. \A i \in 1..Len(s) + 1 : i \in 1..Len(s) \/ i = Len(s) + 1
  BY <1>1
<1> QED BY <1>1, <1>2 DEF ToSet

\* A prefix has no other records.
LEMMA SetOfPrefix ==
    ASSUME NEW S, NEW s \in Seq(S), NEW t \in Seq(S), IsPrefix(s, t) PROVE ToSet(s) \subseteq ToSet(t)
<1>1. Len(s) <= Len(t) /\ SubSeq(s, 1, Len(s)) = SubSeq(t, 1, Len(s))
  BY DEF IsPrefix
<1>2. \A i \in 1..Len(s) : s[i] = t[i] /\ i \in 1..Len(t)
  <2> TAKE i \in 1..Len(s)
  <2>1. SubSeq(s, 1, Len(s))[i] = s[i] /\ SubSeq(t, 1, Len(s))[i] = t[i]
    BY <1>1
  <2> QED BY <1>1, <2>1
<1> QED BY <1>2 DEF ToSet

\* Nothing begins with something.
LEMMA PrefixOfNothing ==
    ASSUME NEW S, NEW s \in Seq(S), IsPrefix(s, <<>>) PROVE s = <<>>
BY DEF IsPrefix

\* No log, no records.
LEMMA SetOfNothing == ToSet(<<>>) = {}
BY DEF ToSet

\* Setting a log aside adds its records to those set aside.
LEMMA AsideAppend ==
    ASSUME NEW q \in Seq(SUBSET Records), NEW X \in SUBSET Records
    PROVE  UNION ToSet(Append(q, X)) = X \cup UNION ToSet(q)
<1>1. ToSet(Append(q, X)) = ToSet(q) \cup {X}
  BY SetOfAppend
<1> QED BY <1>1

\* The directory's types.
LEMMA DriveTypes ==
    ASSUME TypeOK
    PROVE  \A d \in {disk, safe} :
             /\ d \in [log : Logs, torn : BOOLEAN, pin : Logs \cup {None}, pend : Logs \cup {None},
                       quar : Seq(SUBSET Records)]
             /\ d.log \in Logs /\ d.torn \in BOOLEAN /\ d.pin \in Logs \cup {None}
             /\ d.pend \in Logs \cup {None} /\ d.quar \in Seq(SUBSET Records)
BY DEF TypeOK, Directories

------------------------------------------------------------------------------
(* The drive *)

\* The same directory, and the same acts.
LEMMA SameDirs ==
    ASSUME DirInv, UNCHANGED <<disk, safe, done>> PROVE DirInv'
BY DEF DirInv, NonEmpty, Unsynced, KeptInv, DoneInv, RecogniseInv, PinsLeft, Settled, Held

\* A closure that gives up leaves the drive as it is.
LEMMA GivenUpDrive ==
    ASSUME LedgerInv, DriveInv, NEW w \in Writers, job[w].at # "idle", Return(w), UNCHANGED <<disk, safe, done>>
    PROVE  DriveInv'
<1>1. \A v \in Writers : job'[v].at = "idle"
  BY ReturnType DEF LedgerInv, Idle
<1>2. WorkInv'
  BY <1>1 DEF WorkInv
<1> QED BY <1>2, SameDirs DEF DriveInv

\* A log that verifies without authority past its pin is settled.
LEMMA VouchDrive ==
    ASSUME LedgerInv, LedgerInv', DriveInv, NEW w \in Writers, Vouch(w) PROVE DriveInv'
<1> DEFINE v == OnDisk
<1>1. /\ lock = None /\ disk' = disk /\ safe' = safe /\ done' = done
      /\ Verifiable(v) /\ ~UnpinnedAuthority(disk.log, v)
  BY DEF Vouch, Acquire
<1>2. PICK record, head : job' = [job EXCEPT ![w] = [at |-> "pend", record |-> record, head |-> head]]
  BY Zenon DEF Vouch
<1>3. job'[w].at = "pend" /\ \A u \in Writers \ {w} : job'[u].at = "idle"
  <2>1. job \in [Writers -> Jobs] /\ \A u \in Writers : job[u].at = "idle"
    BY <1>1, ConstantsAssumption DEF LedgerInv, TypeOK
  <2> QED BY <1>2, <2>1
<1>4. disk.log \in Logs /\ disk.pin \in Logs \cup {None} /\ disk.torn \in BOOLEAN
  BY DriveTypes DEF LedgerInv
<1>5. ~disk.torn
  BY <1>1, <1>4 DEF OnDisk, Verified, Verifiable
<1>6. Settled(disk.pin, disk.log)
  <2> SUFFICES ASSUME disk.pin # None, disk.log # <<>>, disk.pin # disk.log,
                      \A i \in Len(disk.pin) + 1..Len(disk.log) : disk.log[i].kind # "change"
               PROVE  FALSE
    BY DEF Settled
  <2>1. v.pinned = disk.pin /\ IsPrefix(disk.pin, disk.log)
    BY <1>1, <1>4 DEF OnDisk, Verified, Verifiable
  <2>2. Len(disk.pin) < Len(disk.log)
    BY <1>4, <2>1, PrefixShorter DEF Logs
  <2>3. Len(disk.log) \in Len(disk.pin) + 1..Len(disk.log)
    BY <1>4, <2>2 DEF Logs
  <2> HIDE DEF v
  <2> QED BY <1>1, <2>1, <2>3 DEF UnpinnedAuthority
<1>7. \A p \in PinsLeft : Settled(p, disk.log)
  BY <1>6 DEF LedgerInv, PinInv, PinsInv, PinsLeft, Settled
<1>8. PinsLeft' = PinsLeft
  BY <1>1 DEF PinsLeft
<1>9. WorkInv'
  BY <1>1, <1>3, <1>5, <1>7, <1>8 DEF WorkInv, Settled
<1> QED BY <1>1, <1>9, SameDirs DEF DriveInv

\* The pin to come is on the drive before the record is.
LEMMA WritePendingDrive ==
    ASSUME LedgerInv, LedgerInv', DriveInv, NEW w \in Writers, WritePending(w) PROVE DriveInv'
<1>1. job[w].at = "pend"
  BY DEF WritePending
<1>2. CASE Fail(w) /\ UNCHANGED <<disk, safe>>
  BY <1>1, <1>2, GivenUpDrive DEF Fail
<1>3. CASE /\ disk' = [disk EXCEPT !.pend = job[w].head]
           /\ safe' = disk'
           /\ To(w, "append") /\ UNCHANGED <<lock, done, failed>>
  <2>1. /\ job'[w].at = "append" /\ job'[w].head = job[w].head
        /\ \A v \in Writers \ {w} : job'[v].at = "idle"
    BY <1>1, <1>3, ToType DEF LedgerInv
  <2>2. /\ disk'.log = disk.log /\ disk'.torn = disk.torn /\ disk'.pin = disk.pin
        /\ disk'.pend = job[w].head /\ disk'.quar = disk.quar /\ safe' = disk'
    BY <1>3, DriveTypes DEF LedgerInv
  <2>3. ~disk.torn /\ \A p \in PinsLeft : Settled(p, disk.log)
    BY <1>1 DEF DriveInv, WorkInv
  <2>4. PinsLeft' = {disk.pin}
    BY <2>2 DEF PinsLeft
  <2>5. NonEmpty' /\ Unsynced' /\ KeptInv'
    BY <2>2, <2>4 DEF DriveInv, DirInv, NonEmpty, PinsLeft, Unsynced, KeptInv
  <2>6. DoneInv'
    BY <1>3, <2>2, <2>4 DEF DriveInv, DirInv, DoneInv, KeptInv, Held, PinsLeft
  <2>7. RecogniseInv'
    BY <2>2, <2>3, <2>4 DEF RecogniseInv, PinsLeft, Settled
  <2>8. job[w].head # <<>>
    <3>1. job[w].head = Append(disk.log, job[w].record) /\ disk.log \in Logs /\ job[w].record \in Records
      BY <1>1, DriveTypes, JobFacts DEF LedgerInv, PinInv, PlaceInv, TypeOK
    <3> QED BY <3>1 DEF Logs
  <2>9. WorkInv'
    BY <2>1, <2>2, <2>3, <2>4, <2>8 DEF WorkInv, PinsLeft, Settled
  <2> QED BY <2>5, <2>6, <2>7, <2>9 DEF DriveInv, DirInv
<1> QED BY <1>2, <1>3 DEF WritePending

\* What a torn line, or none, does when the append is over.
LEMMA TornDrive ==
    ASSUME LedgerInv, DriveInv, NEW w \in Writers, job[w].at = "append", Return(w), UNCHANGED <<safe, done>>,
           disk' \in {disk, [disk EXCEPT !.torn = TRUE]}
    PROVE  DriveInv'
<1>1. CASE disk' = disk
  BY <1>1, GivenUpDrive
<1>2. CASE disk' = [disk EXCEPT !.torn = TRUE]
  <2>1. /\ disk'.log = disk.log /\ disk'.torn = TRUE /\ disk'.pin = disk.pin
        /\ disk'.pend = disk.pend /\ disk'.quar = disk.quar /\ PinsLeft' = PinsLeft
    BY <1>2, DriveTypes DEF LedgerInv, PinsLeft
  <2>2. /\ disk.log = safe.log /\ ~safe.torn
        /\ \A p \in PinsLeft : Settled(p, disk.log)
    BY DEF LedgerInv, PinInv, PlaceInv, DriveInv, WorkInv
  <2>3. NonEmpty' /\ Unsynced' /\ KeptInv' /\ DoneInv'
    BY <2>1, <2>2 DEF DriveInv, DirInv, NonEmpty, Unsynced, KeptInv, DoneInv, Held
  <2>4. RecogniseInv'
    BY <2>1, <2>2 DEF RecogniseInv, Settled
  <2>5. WorkInv'
    <3>1. \A v \in Writers : job'[v].at = "idle"
      BY ReturnType DEF LedgerInv, Idle
    <3> QED BY <3>1 DEF WorkInv
  <2> QED BY <2>3, <2>4, <2>5 DEF DriveInv, DirInv
<1> QED BY <1>1, <1>2

\* The record may be lost until the barrier, and the pending pin names it.
LEMMA AppendRecordDrive ==
    ASSUME LedgerInv, LedgerInv', DriveInv, NEW w \in Writers, AppendRecord(w) PROVE DriveInv'
<1>1. job[w].at = "append" /\ safe' = safe
  BY DEF AppendRecord
<1>2. CASE Fail(w) /\ disk' \in {disk, [disk EXCEPT !.torn = TRUE]}
  BY <1>1, <1>2, TornDrive DEF Fail
<1>3. CASE /\ disk' = [disk EXCEPT !.log = job[w].head]
           /\ To(w, "flush") /\ UNCHANGED <<lock, done, failed>>
  <2>1. /\ job'[w].at = "flush" /\ job'[w].head = job[w].head /\ job'[w].record = job[w].record
        /\ \A v \in Writers \ {w} : job'[v].at = "idle"
    BY <1>1, <1>3, ToType DEF LedgerInv
  <2>2. /\ disk'.log = job[w].head /\ disk'.torn = disk.torn /\ disk'.pin = disk.pin
        /\ disk'.pend = disk.pend /\ disk'.quar = disk.quar /\ PinsLeft' = PinsLeft
    BY <1>1, <1>3, DriveTypes DEF LedgerInv, PinsLeft
  <2>3. /\ disk.log = safe.log /\ disk.pin = safe.pin
        /\ job[w].head = Append(disk.log, job[w].record)
        /\ disk.pin # None => IsPrefix(disk.pin, disk.log)
    BY <1>1 DEF LedgerInv, PinInv, PlaceInv
  <2>4. /\ ~disk.torn /\ ~safe.torn /\ safe.quar = disk.quar
        /\ disk.pend = job[w].head /\ safe.pend = job[w].head
        /\ \A p \in PinsLeft : Settled(p, disk.log)
    BY <1>1 DEF DriveInv, WorkInv
  <2>5. disk.log \in Logs /\ job[w].record \in Records /\ disk.pin \in Logs \cup {None}
    BY <1>1, DriveTypes, JobFacts DEF LedgerInv, TypeOK
  <2>6. ToSet(job[w].head) = ToSet(disk.log) \cup {job[w].record} /\ job[w].head # <<>>
    BY <2>3, <2>5, SetOfAppend DEF Logs
  <2>7. NonEmpty' /\ Unsynced' /\ KeptInv'
    BY <1>1, <2>2, <2>3, <2>4, <2>6 DEF DriveInv, DirInv, NonEmpty, Unsynced, KeptInv, Held
  <2>8. DoneInv'
    <3>1. disk.pin # None => disk.log # <<>>
      <4> SUFFICES ASSUME disk.pin # None, disk.log = <<>> PROVE FALSE
        OBVIOUS
      <4>1. IsPrefix(disk.pin, <<>>) /\ disk.pin # <<>> /\ disk.pin \in Logs
        BY <2>3, <2>5 DEF DriveInv, DirInv, NonEmpty, PinsLeft
      <4> QED BY <4>1, PrefixOfNothing DEF Logs
    <3>2. done' \subseteq Held(safe)'
      BY <1>1, <1>3 DEF DriveInv, DirInv, DoneInv, Held
    <3>3. \A p \in PinsLeft, d \in {disk', safe'} :
            p # None /\ d.log # <<>> => done \subseteq ToSet(p) \cup UNION ToSet(d.quar)
      BY <1>1, <2>2, <2>3, <3>1 DEF DriveInv, DirInv, DoneInv, PinsLeft
    <3> QED BY <1>3, <2>2, <3>2, <3>3 DEF DoneInv
  <2>9. RecogniseInv'
    BY <1>1, <2>2, <2>3, <2>4, <2>6 DEF RecogniseInv, Settled
  <2>10. WorkInv'
    BY <1>1, <2>1, <2>2, <2>3, <2>4, <2>6 DEF WorkInv, PinsLeft, Settled
  <2> QED BY <2>7, <2>8, <2>9, <2>10 DEF DriveInv, DirInv
<1> QED BY <1>2, <1>3 DEF AppendRecord

\* After the barrier the drive has the record.
LEMMA FlushDrive ==
    ASSUME LedgerInv, LedgerInv', DriveInv, NEW w \in Writers, Flush(w) PROVE DriveInv'
<1>1. job[w].at = "flush" /\ disk' = disk
  BY DEF Flush
<1>2. CASE Fail(w) /\ UNCHANGED safe
  BY <1>1, <1>2, GivenUpDrive DEF Fail
<1>3. CASE /\ safe' = [safe EXCEPT !.log = disk.log]
           /\ To(w, "pin") /\ UNCHANGED <<lock, done, failed>>
  <2>1. /\ job'[w].at = "pin" /\ job'[w].head = job[w].head /\ job'[w].record = job[w].record
        /\ \A v \in Writers \ {w} : job'[v].at = "idle"
    BY <1>1, <1>3, ToType DEF LedgerInv
  <2>2. /\ safe'.log = disk.log /\ safe'.torn = safe.torn /\ safe'.pin = safe.pin
        /\ safe'.pend = safe.pend /\ safe'.quar = safe.quar /\ PinsLeft' = PinsLeft
    BY <1>1, <1>3, DriveTypes DEF LedgerInv, PinsLeft
  <2>3. disk.pin = safe.pin /\ disk.log = job[w].head
    BY <1>1 DEF LedgerInv, PinInv, PlaceInv
  <2>4. /\ ~disk.torn /\ ~safe.torn /\ safe.quar = disk.quar
        /\ disk.pend = job[w].head /\ safe.pend = job[w].head
        /\ ToSet(safe.log) \subseteq ToSet(disk.log) /\ job[w].head # <<>>
        /\ job[w].record \in ToSet(job[w].head)
    BY <1>1 DEF DriveInv, WorkInv
  <2>5. NonEmpty' /\ Unsynced' /\ KeptInv'
    BY <1>1, <2>2, <2>3, <2>4 DEF DriveInv, DirInv, NonEmpty, Unsynced, KeptInv, Held
  <2>6. DoneInv'
    BY <1>1, <1>3, <2>2, <2>3, <2>4 DEF DriveInv, DirInv, DoneInv, Held, PinsLeft
  <2>7. RecogniseInv'
    <3>1. \A p \in PinsLeft : disk.log = <<>> => Settled(p, disk.log)
      BY DEF Settled
    <3> QED BY <1>1, <2>2, <2>3, <2>4, <3>1 DEF RecogniseInv, Settled
  <2>8. WorkInv'
    BY <1>1, <2>1, <2>2, <2>3, <2>4 DEF WorkInv, PinsLeft
  <2> QED BY <2>5, <2>6, <2>7, <2>8 DEF DriveInv, DirInv
<1> QED BY <1>2, <1>3 DEF Flush

\* The pin names what the barrier has synced.
LEMMA PinDrive ==
    ASSUME LedgerInv, LedgerInv', DriveInv, NEW w \in Writers, Pin(w) PROVE DriveInv'
<1>1. job[w].at = "pin"
  BY DEF Pin
<1>2. CASE Fail(w) /\ UNCHANGED <<disk, safe>>
  BY <1>1, <1>2, GivenUpDrive DEF Fail
<1>3. CASE /\ disk' = [disk EXCEPT !.pin = job[w].head]
           /\ safe' = [safe EXCEPT !.pin = job[w].head]
           /\ To(w, "clear") /\ UNCHANGED <<lock, done, failed>>
  <2>1. /\ job'[w].at = "clear" /\ job'[w].head = job[w].head /\ job'[w].record = job[w].record
        /\ \A v \in Writers \ {w} : job'[v].at = "idle"
    BY <1>1, <1>3, ToType DEF LedgerInv
  <2>2. /\ disk'.log = disk.log /\ disk'.torn = disk.torn /\ disk'.pin = job[w].head
        /\ disk'.pend = disk.pend /\ disk'.quar = disk.quar
        /\ safe'.log = safe.log /\ safe'.torn = safe.torn /\ safe'.pin = job[w].head
        /\ safe'.pend = safe.pend /\ safe'.quar = safe.quar
        /\ PinsLeft' = {job[w].head}
    BY <1>3, DriveTypes DEF LedgerInv, PinsLeft
  <2>3. disk.log = job[w].head /\ safe.log = job[w].head
    BY <1>1 DEF LedgerInv, PinInv, PlaceInv
  <2>4. ~disk.torn /\ ~safe.torn /\ safe.quar = disk.quar /\ disk.pend = job[w].head
    BY <1>1 DEF DriveInv, WorkInv
  <2>5. job[w].head # <<>> /\ job[w].record \in ToSet(job[w].head)
    BY <1>1 DEF DriveInv, WorkInv
  <2>6. NonEmpty' /\ Unsynced' /\ KeptInv'
    BY <2>2, <2>3, <2>4, <2>5 DEF DriveInv, DirInv, NonEmpty, PinsLeft, Unsynced, KeptInv, Held
  <2>7. DoneInv'
    BY <1>3, <2>2, <2>3, <2>4 DEF DriveInv, DirInv, DoneInv, Held
  <2>8. RecogniseInv'
    BY <2>2, <2>3 DEF RecogniseInv, Settled
  <2>9. WorkInv'
    BY <2>1, <2>2, <2>4, <2>5 DEF WorkInv
  <2> QED BY <2>6, <2>7, <2>8, <2>9 DEF DriveInv, DirInv
<1> QED BY <1>2, <1>3 DEF Pin

\* The act is finished: its record is under the pin of every cut.
LEMMA ClearDrive ==
    ASSUME LedgerInv, LedgerInv', DriveInv, NEW w \in Writers, Clear(w) PROVE DriveInv'
<1>1. job[w].at = "clear" /\ Return(w) /\ safe' = safe /\ done' = done \cup {job[w].record}
  BY DEF Clear, Succeed
<1>2. \A v \in Writers : job'[v].at = "idle"
  BY <1>1, ReturnType DEF LedgerInv, Idle
<1>3. /\ disk'.log = disk.log /\ disk'.torn = disk.torn /\ disk'.pin = disk.pin
      /\ disk'.quar = disk.quar /\ PinsLeft' = PinsLeft
  BY <1>1, DriveTypes DEF Clear, LedgerInv, PinsLeft
<1>4. disk.log = job[w].head /\ safe.log = job[w].head /\ disk.pin = safe.pin
  BY <1>1 DEF LedgerInv, PinInv, PlaceInv
<1>5. safe.quar = disk.quar /\ disk.pin = job[w].head
  BY <1>1 DEF DriveInv, WorkInv
<1>6. NonEmpty' /\ Unsynced' /\ KeptInv'
  BY <1>1, <1>3, <1>4, <1>5 DEF DriveInv, DirInv, NonEmpty, Unsynced, KeptInv, Held
<1>7. job[w].record \in ToSet(job[w].head)
  BY <1>1 DEF DriveInv, WorkInv
<1>8. DoneInv'
  BY <1>1, <1>3, <1>4, <1>5, <1>7 DEF DriveInv, DirInv, DoneInv, Held, PinsLeft
<1>9. RecogniseInv'
  BY <1>1, <1>3, <1>4, <1>5 DEF RecogniseInv, PinsLeft, Settled
<1>10. WorkInv'
  BY <1>2 DEF WorkInv
<1> QED BY <1>6, <1>8, <1>9, <1>10 DEF DriveInv, DirInv

------------------------------------------------------------------------------
(* Repairs *)

\* A repair begins on a directory it does not change.
LEMMA RepairDrive ==
    ASSUME LedgerInv, LedgerInv', DriveInv, NEW w \in Writers, Repair(w) PROVE DriveInv'
<1> DEFINE v == OnDisk
           at == IF ~Verifiable(v) THEN "quarantine"
                 ELSE IF UnpinnedAuthority(disk.log, v) THEN "tail" ELSE "repin"
<1>1. /\ lock = None /\ disk' = disk /\ safe' = safe /\ done' = done /\ v.pin \notin {"matches", "fresh"}
      /\ job' = [job EXCEPT ![w] = [at |-> at, head |-> v.pinned]]
  BY DEF Repair, Acquire
<1>2. job'[w].at = at /\ \A u \in Writers \ {w} : job'[u].at = "idle"
  <2>1. job \in [Writers -> Jobs] /\ \A u \in Writers : job[u].at = "idle"
    BY <1>1, ConstantsAssumption DEF LedgerInv, TypeOK
  <2> HIDE DEF at, v
  <2> QED BY <1>1, <2>1
<1>3. disk.torn \in BOOLEAN
  BY DriveTypes DEF LedgerInv
<1>4. at # "quarantine" => ~disk.torn /\ disk.log # <<>>
  BY <1>1, <1>3 DEF OnDisk, Verified, Verifiable
<1>5. OnDisk' = OnDisk
  BY <1>1 DEF OnDisk
<1>6. at \in {"quarantine", "tail", "repin"} /\ (at = "quarantine" => ~Verifiable(OnDisk))
  OBVIOUS
<1> HIDE DEF at, v
<1>7. WorkInv'
  BY <1>1, <1>2, <1>4, <1>5, <1>6 DEF WorkInv, Verifiable
<1> QED BY <1>1, <1>7, SameDirs DEF DriveInv

\* Vouching for a tail leaves every finished act under the pin.
LEMMA RepinDrive ==
    ASSUME LedgerInv, LedgerInv', DriveInv, NEW w \in Writers, Repin(w) PROVE DriveInv'
<1>1. job[w].at = "repin" /\ done' = done
  BY DEF Repin
<1>2. CASE Return(w) /\ UNCHANGED <<disk, safe>>
  BY <1>1, <1>2, GivenUpDrive
<1>3. CASE /\ disk' = [disk EXCEPT !.pin = disk.log] /\ safe' = [safe EXCEPT !.pin = disk.log]
           /\ To(w, "cleared") /\ lock' = lock
  <2>1. job'[w].at = "cleared" /\ \A v \in Writers \ {w} : job'[v].at = "idle"
    BY <1>1, <1>3, ToType DEF LedgerInv
  <2>2. /\ disk'.log = disk.log /\ disk'.torn = disk.torn /\ disk'.pin = disk.log
        /\ disk'.pend = disk.pend /\ disk'.quar = disk.quar
        /\ safe'.log = safe.log /\ safe'.torn = safe.torn /\ safe'.pin = disk.log
        /\ safe'.pend = safe.pend /\ safe'.quar = safe.quar
        /\ PinsLeft' = {disk.log}
    BY <1>3, DriveTypes DEF LedgerInv, PinsLeft
  <2>3. disk.log = safe.log /\ disk.log # <<>>
    BY <1>1 DEF LedgerInv, PinInv, PlaceInv, TailInv
  <2>4. ~disk.torn
    BY <1>1 DEF DriveInv, WorkInv
  <2>5. NonEmpty' /\ Unsynced' /\ KeptInv'
    BY <2>2, <2>3 DEF DriveInv, DirInv, NonEmpty, Unsynced, KeptInv, Held
  <2>6. DoneInv'
    BY <1>1, <2>2, <2>3 DEF DriveInv, DirInv, DoneInv, KeptInv, Held
  <2>7. RecogniseInv'
    BY <2>2, <2>3 DEF RecogniseInv, Settled
  <2>8. disk.log # None
    BY DriveTypes, NoneAssumption DEF LedgerInv
  <2>9. WorkInv'
    BY <2>1, <2>2, <2>3, <2>4, <2>8 DEF WorkInv
  <2> QED BY <2>5, <2>6, <2>7, <2>9 DEF DriveInv, DirInv
<1> QED BY <1>2, <1>3 DEF Repin

\* The tail is on the drive twice before it leaves the log.
LEMMA QuarantineTailDrive ==
    ASSUME LedgerInv, LedgerInv', DriveInv, NEW w \in Writers, QuarantineTail(w) PROVE DriveInv'
<1>1. job[w].at = "tail" /\ done' = done
  BY DEF QuarantineTail
<1>2. CASE Return(w) /\ UNCHANGED <<disk, safe>>
  BY <1>1, <1>2, GivenUpDrive
<1>3. CASE /\ disk' = [disk EXCEPT !.quar = Append(@, ToSet(disk.log) \ ToSet(job[w].head))]
           /\ safe' = [safe EXCEPT !.quar = disk'.quar]
           /\ To(w, "prefix") /\ lock' = lock
  <2>1. /\ job'[w].at = "prefix" /\ job'[w].head = job[w].head
        /\ \A v \in Writers \ {w} : job'[v].at = "idle"
    BY <1>1, <1>3, ToType DEF LedgerInv
  <2>2. /\ disk'.log = disk.log /\ disk'.torn = disk.torn /\ disk'.pin = disk.pin
        /\ disk'.pend = disk.pend /\ disk'.quar = Append(disk.quar, ToSet(disk.log) \ ToSet(job[w].head))
        /\ safe'.log = safe.log /\ safe'.torn = safe.torn /\ safe'.pin = safe.pin
        /\ safe'.pend = safe.pend /\ safe'.quar = disk'.quar
        /\ PinsLeft' = PinsLeft
    BY <1>3, DriveTypes DEF LedgerInv, PinsLeft
  <2>3. UNION ToSet(disk'.quar) = (ToSet(disk.log) \ ToSet(job[w].head)) \cup UNION ToSet(disk.quar)
    <3>1. ToSet(disk.log) \ ToSet(job[w].head) \in SUBSET Records /\ disk.quar \in Seq(SUBSET Records)
      BY DriveTypes DEF LedgerInv, ToSet, Logs
    <3> QED BY <2>2, <3>1, AsideAppend
  <2>4. ~disk.torn /\ disk.log # <<>>
    BY <1>1 DEF DriveInv, WorkInv
  <2>5. NonEmpty' /\ Unsynced' /\ KeptInv'
    BY <2>2, <2>3 DEF DriveInv, DirInv, NonEmpty, Unsynced, KeptInv, Held
  <2>6. DoneInv'
    BY <1>1, <2>2, <2>3 DEF DriveInv, DirInv, DoneInv, KeptInv, Held
  <2>7. RecogniseInv'
    BY <2>2 DEF DriveInv, DirInv, RecogniseInv, Settled
  <2>8. WorkInv'
    BY <2>1, <2>2, <2>3, <2>4 DEF WorkInv
  <2> QED BY <2>5, <2>6, <2>7, <2>8 DEF DriveInv, DirInv
<1> QED BY <1>2, <1>3 DEF QuarantineTail

\* What leaves the log is set aside on the drive.
LEMMA KeepPrefixDrive ==
    ASSUME LedgerInv, LedgerInv', DriveInv, NEW w \in Writers, KeepPrefix(w) PROVE DriveInv'
<1>1. job[w].at = "prefix" /\ done' = done
  BY DEF KeepPrefix
<1>2. CASE Return(w) /\ UNCHANGED <<disk, safe>>
  BY <1>1, <1>2, GivenUpDrive
<1>3. CASE /\ disk' = [disk EXCEPT !.log = job[w].head] /\ safe' = [safe EXCEPT !.log = job[w].head]
           /\ To(w, "cleared") /\ lock' = lock
  <2>1. job'[w].at = "cleared" /\ \A v \in Writers \ {w} : job'[v].at = "idle"
    BY <1>1, <1>3, ToType DEF LedgerInv
  <2>2. job[w].head = disk.pin /\ disk.pin # None /\ disk.pin = safe.pin
    BY <1>1 DEF LedgerInv, PinInv, PlaceInv
  <2>3. /\ disk'.log = disk.pin /\ disk'.torn = disk.torn /\ disk'.pin = disk.pin
        /\ disk'.pend = disk.pend /\ disk'.quar = disk.quar
        /\ safe'.log = disk.pin /\ safe'.torn = safe.torn /\ safe'.pin = disk.pin
        /\ safe'.pend = safe.pend /\ safe'.quar = safe.quar
        /\ PinsLeft' = PinsLeft
    BY <1>3, <2>2, DriveTypes DEF LedgerInv, PinsLeft
  <2>4. /\ ~disk.torn /\ disk.log # <<>> /\ safe.quar = disk.quar
        /\ ToSet(disk.log) \subseteq ToSet(disk.pin) \cup UNION ToSet(disk.quar)
    BY <1>1, <2>2 DEF DriveInv, WorkInv
  <2>5. disk.pin # <<>>
    BY <2>2 DEF DriveInv, DirInv, NonEmpty, PinsLeft
  <2>6. NonEmpty' /\ Unsynced' /\ KeptInv'
    BY <2>3, <2>4 DEF DriveInv, DirInv, NonEmpty, Unsynced, KeptInv, Held
  <2>7. DoneInv'
    BY <1>1, <2>2, <2>3, <2>4 DEF DriveInv, DirInv, DoneInv, Held, PinsLeft
  <2>8. RecogniseInv'
    BY <2>2, <2>3 DEF RecogniseInv, Settled, PinsLeft
  <2>9. WorkInv'
    BY <2>1, <2>2, <2>3, <2>4 DEF WorkInv
  <2> QED BY <2>6, <2>7, <2>8, <2>9 DEF DriveInv, DirInv
<1> QED BY <1>2, <1>3 DEF KeepPrefix

\* A log that is renamed away still holds what it held.
LEMMA QuarantineDrive ==
    ASSUME LedgerInv, LedgerInv', DriveInv, NEW w \in Writers, Quarantine(w) PROVE DriveInv'
<1>1. job[w].at = "quarantine" /\ done' = done /\ safe' = safe
  BY DEF Quarantine
<1>2. CASE Return(w) /\ UNCHANGED disk
  BY <1>1, <1>2, GivenUpDrive
<1>3. CASE /\ disk' = IF disk.log = <<>> /\ ~disk.torn THEN disk
                      ELSE [disk EXCEPT !.log = <<>>, !.torn = FALSE,
                                        !.quar = Append(@, ToSet(disk.log))]
           /\ To(w, "unpin") /\ lock' = lock
  <2>1. job'[w].at = "unpin" /\ \A v \in Writers \ {w} : job'[v].at = "idle"
    BY <1>1, <1>3, ToType DEF LedgerInv
  <2>2. /\ disk'.log = <<>> /\ disk'.torn = FALSE /\ disk'.pin = disk.pin /\ disk'.pend = disk.pend
        /\ PinsLeft' = PinsLeft
    BY <1>1, <1>3, DriveTypes DEF LedgerInv, PinsLeft
  <2>3. UNION ToSet(disk'.quar) = ToSet(disk.log) \cup UNION ToSet(disk.quar)
    <3>1. ToSet(disk.log) \in SUBSET Records /\ disk.quar \in Seq(SUBSET Records)
      BY DriveTypes DEF LedgerInv, ToSet, Logs
    <3>2. CASE disk.log = <<>> /\ ~disk.torn
      BY <1>3, <3>2, SetOfNothing
    <3>3. CASE ~(disk.log = <<>> /\ ~disk.torn)
      <4>1. disk'.quar = Append(disk.quar, ToSet(disk.log))
        BY <1>3, <3>3, DriveTypes DEF LedgerInv
      <4> QED BY <3>1, <4>1, AsideAppend
    <3> QED BY <3>2, <3>3
  <2>4. NonEmpty' /\ Unsynced' /\ KeptInv'
    BY <1>1, <2>2, <2>3, SetOfNothing DEF DriveInv, DirInv, NonEmpty, Unsynced, KeptInv, Held
  <2>5. DoneInv'
    BY <1>1, <2>2 DEF DriveInv, DirInv, DoneInv, Held
  <2>6. ~safe.torn => \A p \in PinsLeft : Settled(p, safe.log)
    <3> SUFFICES ASSUME ~safe.torn, NEW p \in PinsLeft PROVE Settled(p, safe.log)
      OBVIOUS
    <3>1. RecogniseInv
      BY DEF DriveInv, DirInv
    <3>2. CASE disk.torn \/ disk.log = <<>>
      BY <3>1, <3>2 DEF RecogniseInv
    <3>3. CASE ~disk.torn /\ disk.log # <<>>
      <4>1. disk.pin = safe.pin /\ p = disk.pin
        BY <3>3 DEF LedgerInv, PinInv, PinsInv, PinsLeft
      <4>2. CASE p = None
        BY <4>2 DEF Settled
      <4>3. CASE p # None
        <5>1. disk.pin # disk.log /\ disk.pend # disk.log
          <6>1. IsPrefix(disk.pin, disk.log)
            BY <3>3, <4>1, <4>3 DEF LedgerInv, PinInv, Paired
          <6>2. ~Verifiable(OnDisk)
            BY <1>1 DEF DriveInv, WorkInv
          <6> QED BY <3>3, <4>1, <4>3, <6>1, <6>2 DEF OnDisk, Verified, Verifiable
        <5>2. Settled(p, disk.log)
          BY <3>1, <3>3, <5>1 DEF RecogniseInv
        <5>3. safe.log = disk.log
          BY <3>3, <5>1 DEF DriveInv, DirInv, Unsynced
        <5> QED BY <5>2, <5>3
      <4> QED BY <4>2, <4>3
    <3> QED BY <3>2, <3>3, DriveTypes DEF LedgerInv
  <2>7. RecogniseInv'
    BY <1>1, <2>2, <2>6 DEF RecogniseInv, Settled
  <2>8. WorkInv'
    BY <2>1, <2>2 DEF WorkInv
  <2> QED BY <2>4, <2>5, <2>7, <2>8 DEF DriveInv, DirInv
<1> QED BY <1>2, <1>3 DEF Quarantine

\* With no log, no pin names one.
LEMMA UnpinDrive ==
    ASSUME LedgerInv, LedgerInv', DriveInv, NEW w \in Writers, Unpin(w) PROVE DriveInv'
<1>1. /\ job[w].at = "unpin" /\ To(w, "cleared") /\ safe' = safe /\ lock' = lock /\ done' = done
      /\ \/ disk' = [disk EXCEPT !.pin = None]
         \/ Fails /\ UNCHANGED disk
  BY DEF Unpin
<1>2. job'[w].at = "cleared" /\ \A v \in Writers \ {w} : job'[v].at = "idle"
  BY <1>1, ToType DEF LedgerInv
<1>3. disk.log = <<>> /\ ~disk.torn
  BY <1>1 DEF LedgerInv, PinInv, PlaceInv, DriveInv, WorkInv
<1>4. /\ disk'.log = disk.log /\ disk'.torn = disk.torn /\ disk'.pin \in {disk.pin, None}
      /\ disk'.pend = disk.pend /\ disk'.quar = disk.quar
      /\ disk'.pin # None => faults' > 0
  <2>1. Fails => faults' > 0
    BY ConstantsAssumption DEF Fails, LedgerInv, TypeOK
  <2> QED BY <1>1, <2>1, DriveTypes DEF LedgerInv
<1>5. NonEmpty' /\ Unsynced' /\ KeptInv'
  BY <1>1, <1>3, <1>4 DEF DriveInv, DirInv, NonEmpty, PinsLeft, Unsynced, KeptInv, Held
<1>6. DoneInv'
  BY <1>1, <1>3, <1>4 DEF DriveInv, DirInv, DoneInv, Held, PinsLeft
<1>7. RecogniseInv'
  BY <1>1, <1>4 DEF DriveInv, DirInv, RecogniseInv, PinsLeft, Settled
<1>8. WorkInv'
  BY <1>2, <1>3, <1>4 DEF WorkInv
<1> QED BY <1>5, <1>6, <1>7, <1>8 DEF DriveInv, DirInv

\* The end of a repair takes only the pending pin.
LEMMA RepairedDrive ==
    ASSUME LedgerInv, LedgerInv', DriveInv, NEW w \in Writers, Repaired(w) PROVE DriveInv'
<1>1. job[w].at = "cleared" /\ Return(w) /\ safe' = safe /\ done' = done
  BY DEF Repaired
<1>2. CASE disk' = disk
  BY <1>1, <1>2, GivenUpDrive
<1>3. CASE disk' = [disk EXCEPT !.pend = None]
  <2>1. \A v \in Writers : job'[v].at = "idle"
    BY <1>1, ReturnType DEF LedgerInv, Idle
  <2>2. /\ disk'.log = disk.log /\ disk'.torn = disk.torn /\ disk'.pin = disk.pin
        /\ disk'.quar = disk.quar /\ PinsLeft' = PinsLeft
    BY <1>1, <1>3, DriveTypes DEF LedgerInv, PinsLeft
  <2>3. \/ disk.pin = disk.log /\ safe.pin = disk.log /\ safe.log = disk.log
        \/ disk.log = <<>>
    BY <1>1 DEF DriveInv, WorkInv
  <2>4. NonEmpty' /\ Unsynced' /\ KeptInv' /\ DoneInv'
    BY <1>1, <2>2, <2>3 DEF DriveInv, DirInv, NonEmpty, Unsynced, KeptInv, DoneInv, Held
  <2>5. RecogniseInv'
    BY <1>1, <2>2, <2>3 DEF DriveInv, DirInv, RecogniseInv, PinsLeft, Settled
  <2>6. WorkInv'
    BY <2>1 DEF WorkInv
  <2> QED BY <2>4, <2>5, <2>6 DEF DriveInv, DirInv
<1> QED BY <1>2, <1>3 DEF Repaired

------------------------------------------------------------------------------
(* Cuts *)

\* A death leaves what its writer had written.
LEMMA DieDrive ==
    ASSUME LedgerInv, LedgerInv', DriveInv, NEW w \in Writers, Die(w) PROVE DriveInv'
<1>1. job[w].at # "idle" /\ Return(w) /\ UNCHANGED <<safe, done>>
  BY DEF Die
<1>2. CASE disk' = disk
  BY <1>1, <1>2, GivenUpDrive
<1>3. CASE job[w].at = "append" /\ disk' \in {disk, [disk EXCEPT !.torn = TRUE]}
  BY <1>1, <1>3, TornDrive
<1> QED BY <1>2, <1>3 DEF Die

\* Whatever a power cut leaves, the pins agree with it.
LEMMA PowerCutDrive ==
    ASSUME LedgerInv, LedgerInv', DriveInv, PowerCut PROVE DriveInv'
<1>1. PICK l \in LogsLeft, pin \in {disk.pin, safe.pin}, pend \in {disk.pend, safe.pend} :
        disk' = Directory(l[1], l[2], pin, pend, l[3])
  BY DEF PowerCut
<1>2. safe' = disk' /\ done' = done /\ \A w \in Writers : job'[w].at = "idle"
  BY DEF PowerCut, Idle
<1>3. \/ l[1] = disk.log /\ l[2] = disk.torn /\ l[3] = disk.quar
      \/ l[1] = safe.log /\ l[2] = safe.torn /\ l[3] = safe.quar
      \/ l[1] = safe.log /\ l[2] = TRUE /\ l[3] = disk.quar
  <2>1. l = <<disk.log, disk.torn, disk.quar>> \/ l = <<safe.log, safe.torn, safe.quar>>
        \/ l = <<safe.log, TRUE, disk.quar>>
    BY DEF LogsLeft
  <2>2. CASE l = <<disk.log, disk.torn, disk.quar>>
    BY <2>2
  <2>3. CASE l = <<safe.log, safe.torn, safe.quar>>
    BY <2>3
  <2>4. CASE l = <<safe.log, TRUE, disk.quar>>
    BY <2>4
  <2> QED BY <2>1, <2>2, <2>3, <2>4
<1>4. /\ disk'.log = l[1] /\ disk'.torn = l[2] /\ disk'.pin = pin /\ disk'.pend = pend /\ disk'.quar = l[3]
      /\ PinsLeft' = {pin} /\ pin \in PinsLeft
  BY <1>1, <1>2 DEF Directory, PinsLeft
<1>5. NonEmpty' /\ Unsynced' /\ KeptInv'
  BY <1>2, <1>4 DEF DriveInv, DirInv, NonEmpty, Unsynced, KeptInv
<1>6. DoneInv'
  BY <1>2, <1>3, <1>4 DEF DriveInv, DirInv, KeptInv, DoneInv, Held
<1>7. RecogniseInv'
  BY <1>2, <1>3, <1>4 DEF DriveInv, DirInv, RecogniseInv, Settled
<1>8. WorkInv'
  BY <1>2 DEF WorkInv
<1> QED BY <1>5, <1>6, <1>7, <1>8 DEF DriveInv, DirInv

\* What an earlier build left.
LEMMA InitDrive == ASSUME Init PROVE DriveInv
<1>1. PICK k \in 0..Observed :
        LET old == [i \in 1..k |-> Change(i)]
            pinned == IF k < 2 THEN k ELSE 1 IN
        disk = Directory(old, FALSE, IF k = 0 THEN None ELSE SubSeq(old, 1, pinned),
                         IF k > pinned THEN old ELSE None, <<>>)
  BY DEF Init
<1> DEFINE old == [i \in 1..k |-> Change(i)]
           pinned == IF k < 2 THEN k ELSE 1
           pin == IF k = 0 THEN None ELSE SubSeq(old, 1, pinned)
<1>2. /\ disk.log = old /\ disk.torn = FALSE /\ disk.pin = pin /\ disk.quar = <<>> /\ safe = disk
      /\ disk.pend = IF k > pinned THEN old ELSE None
      /\ done = {} /\ \A w \in Writers : job[w].at = "idle"
  BY <1>1 DEF Init, Directory, Idle
<1>3. k \in Nat /\ old \in Seq({Change(i) : i \in 1..k}) /\ Len(old) = k
  BY ConstantsAssumption
<1>4. pin # None => pin # <<>>
  BY <1>3
<1>5. pin = old \/ pin = None \/ k > pinned
  BY <1>3
<1> HIDE DEF old, pin, pinned
<1>6. NonEmpty /\ Unsynced /\ KeptInv /\ DoneInv
  BY <1>2, <1>4 DEF NonEmpty, PinsLeft, Unsynced, KeptInv, DoneInv
<1>7. RecogniseInv
  BY <1>2, <1>4, <1>5 DEF RecogniseInv, PinsLeft, Settled
<1>8. WorkInv
  BY <1>2 DEF WorkInv
<1> QED BY <1>6, <1>7, <1>8 DEF DriveInv, DirInv

\* A query leaves the drive and the writers alone.
LEMMA SameDrive ==
    ASSUME DriveInv, UNCHANGED <<disk, safe, done, job, faults>> PROVE DriveInv'
<1>1. WorkInv'
  BY DEF DriveInv, WorkInv, PinsLeft, Settled, OnDisk
<1> QED BY <1>1, SameDirs DEF DriveInv

\* No step loses a finished act.
LEMMA DriveStep ==
    ASSUME LedgerInv, DriveInv, [Next]_vars PROVE DriveInv'
<1> LedgerInv'
  BY StepInv
<1>1. ASSUME NEW w \in Writers, Vouch(w) \/ WritePending(w) \/ AppendRecord(w) PROVE DriveInv'
  BY <1>1, VouchDrive, WritePendingDrive, AppendRecordDrive
<1>2. ASSUME NEW w \in Writers, Flush(w) \/ Pin(w) \/ Clear(w) PROVE DriveInv'
  BY <1>2, FlushDrive, PinDrive, ClearDrive
<1>3. ASSUME NEW w \in Writers, Repair(w) \/ Repin(w) \/ QuarantineTail(w) \/ KeepPrefix(w)
      PROVE DriveInv'
  BY <1>3, RepairDrive, RepinDrive, QuarantineTailDrive, KeepPrefixDrive
<1>4. ASSUME NEW w \in Writers, Quarantine(w) \/ Unpin(w) \/ Repaired(w) \/ Die(w)
      PROVE DriveInv'
  BY <1>4, QuarantineDrive, UnpinDrive, RepairedDrive, DieDrive
<1>5. ASSUME NEW r \in Readers, Ask(r) \/ AskKey(r) \/ AskLog(r) \/ AskPin(r) \/ AskPending(r)
      PROVE DriveInv'
  <2>1. UNCHANGED <<disk, safe, done, job, faults>>
    BY <1>5 DEF Ask, AskKey, AskLog, AskPin, AskPending, bounds
  <2> QED BY <2>1, SameDrive
<1>6. CASE PowerCut
  BY <1>6, PowerCutDrive
<1>7. CASE UNCHANGED vars
  BY <1>7, SameDrive DEF vars, bounds
<1> QED BY <1>1, <1>2, <1>3, <1>4, <1>5, <1>6, <1>7 DEF Next

\* The directory is right through any failing write, death and power cut: a
\* finished act is under every pin a cut may leave, or set aside.
THEOREM DriveInvariant == Spec => [](LedgerInv /\ DriveInv)
<1>1. Init => LedgerInv /\ DriveInv
  BY InitInv, InitDrive
<1>2. LedgerInv /\ DriveInv /\ [Next]_vars => (LedgerInv /\ DriveInv)'
  BY StepInv, DriveStep
<1> QED BY <1>1, <1>2, PTL DEF Spec

------------------------------------------------------------------------------
(* What the drive holds *)

\* A record leaves what is synced only for a log set aside that is synced too.
LEMMA StepDestroysNothing ==
    ASSUME LedgerInv, DriveInv, [Next]_vars PROVE Held(safe) \subseteq Held(safe')
<1>1. CASE safe' = safe
  BY <1>1
<1>2. ASSUME NEW w \in Writers, WritePending(w), safe' # safe PROVE Held(safe) \subseteq Held(safe')
  <2>1. safe'.log = disk.log /\ safe'.quar = disk.quar
    BY <1>2, DriveTypes DEF WritePending, LedgerInv
  <2> QED BY <2>1 DEF DriveInv, DirInv, KeptInv, Held
<1>3. ASSUME NEW w \in Writers, Flush(w), safe' # safe PROVE Held(safe) \subseteq Held(safe')
  <2>1. job[w].at = "flush" /\ safe'.log = disk.log /\ safe'.quar = safe.quar
    BY <1>3, DriveTypes DEF Flush, LedgerInv
  <2> QED BY <2>1 DEF DriveInv, WorkInv, Held
<1>4. ASSUME NEW w \in Writers, Pin(w) \/ Repin(w), safe' # safe PROVE Held(safe) \subseteq Held(safe')
  <2>1. safe'.log = safe.log /\ safe'.quar = safe.quar
    BY <1>4, DriveTypes DEF Pin, Repin, LedgerInv
  <2> QED BY <2>1 DEF Held
<1>5. ASSUME NEW w \in Writers, QuarantineTail(w), safe' # safe PROVE Held(safe) \subseteq Held(safe')
  <2>1. /\ safe'.log = safe.log
        /\ safe'.quar = Append(disk.quar, ToSet(disk.log) \ ToSet(job[w].head))
    BY <1>5, DriveTypes DEF QuarantineTail, LedgerInv
  <2>2. ToSet(disk.log) \ ToSet(job[w].head) \in SUBSET Records /\ disk.quar \in Seq(SUBSET Records)
    BY DriveTypes DEF LedgerInv, ToSet, Logs
  <2>3. UNION ToSet(safe'.quar) = (ToSet(disk.log) \ ToSet(job[w].head)) \cup UNION ToSet(disk.quar)
    BY <2>1, <2>2, AsideAppend
  <2> QED BY <2>1, <2>3 DEF DriveInv, DirInv, KeptInv, Held
<1>6. ASSUME NEW w \in Writers, KeepPrefix(w), safe' # safe PROVE Held(safe) \subseteq Held(safe')
  <2>1. job[w].at = "prefix" /\ safe'.log = job[w].head /\ safe'.quar = safe.quar
    BY <1>6, DriveTypes DEF KeepPrefix, LedgerInv
  <2>2. /\ safe.quar = disk.quar /\ disk.log # <<>>
        /\ ToSet(disk.log) \subseteq ToSet(job[w].head) \cup UNION ToSet(disk.quar)
    BY <2>1 DEF DriveInv, WorkInv
  <2>3. ToSet(safe.log) \subseteq ToSet(disk.log)
    BY <2>2 DEF DriveInv, DirInv, Unsynced
  <2> QED BY <2>1, <2>2, <2>3 DEF Held
<1>7. CASE PowerCut
  <2>1. PICK l \in LogsLeft, pin \in {disk.pin, safe.pin}, pend \in {disk.pend, safe.pend} :
          disk' = Directory(l[1], l[2], pin, pend, l[3])
    BY <1>7 DEF PowerCut
  <2>2. safe'.log = l[1] /\ safe'.quar = l[3]
    BY <1>7, <2>1 DEF PowerCut, Directory
  <2>3. l \in {<<disk.log, disk.torn, disk.quar>>, <<safe.log, safe.torn, safe.quar>>, <<safe.log, TRUE, disk.quar>>}
    BY DEF LogsLeft
  <2>4. CASE l = <<disk.log, disk.torn, disk.quar>>
    BY <2>2, <2>4 DEF DriveInv, DirInv, KeptInv, Held
  <2>5. CASE l = <<safe.log, safe.torn, safe.quar>>
    BY <2>2, <2>5 DEF Held
  <2>6. CASE l = <<safe.log, TRUE, disk.quar>>
    BY <2>2, <2>6 DEF DriveInv, DirInv, KeptInv, Held
  <2> QED BY <2>3, <2>4, <2>5, <2>6
<1> QED BY <1>1, <1>2, <1>3, <1>4, <1>5, <1>6, <1>7
        DEF Next, vars, Vouch, AppendRecord, Clear, Repair, Quarantine, Unpin, Repaired, Die,
            Ask, AskKey, AskLog, AskPin, AskPending

\* No repair, failing write, death or power cut takes a record off the drive
\* that was on it.
THEOREM NothingIsDestroyed == Spec => NothingDestroyed
<1>1. LedgerInv /\ DriveInv /\ [Next]_vars => [Held(safe) \subseteq Held(safe')]_vars
  BY StepDestroysNothing
<1> QED BY <1>1, DriveInvariant, PTL DEF Spec, NothingDestroyed

\* The last step of a repair that nothing failed leaves a log that verifies.
LEMMA StepHeals ==
    ASSUME LedgerInv, DriveInv, [Next]_vars, NEW w \in Writers,
           job[w].at = "cleared", job'[w].at = "idle", faults' = 0, cuts' = cuts
    PROVE  Verified(disk'.log, disk'.torn, disk'.pin, disk'.pend).pin \in {"matches", "fresh"}
<1>1. lock = w /\ \A v \in Writers \ {w} : job[v].at = "idle"
  BY OneWriter DEF LedgerInv
<1>2. job' # job
  OBVIOUS
<1>3. cuts \in Nat /\ faults \in Nat
  BY ConstantsAssumption DEF LedgerInv, TypeOK
<1>4. Repaired(w)
  <2>1. \A v \in Writers : ~Vouch(v) /\ ~Repair(v)
    BY <1>1, ConstantsAssumption DEF Vouch, Repair, Acquire
  <2>2. \A v \in Writers : ~Die(v)
    BY <1>3 DEF Die
  <2>3. ~PowerCut
    BY <1>3 DEF PowerCut
  <2>4. \A v \in Writers \ {w} : ~(\/ WritePending(v) \/ AppendRecord(v) \/ Flush(v) \/ Pin(v) \/ Clear(v)
                                   \/ Repin(v) \/ QuarantineTail(v) \/ KeepPrefix(v)
                                   \/ Quarantine(v) \/ Unpin(v) \/ Repaired(v))
    BY <1>1 DEF WritePending, AppendRecord, Flush, Pin, Clear, Repin, QuarantineTail, KeepPrefix,
                Quarantine, Unpin, Repaired
  <2>5. ~(\/ WritePending(w) \/ AppendRecord(w) \/ Flush(w) \/ Pin(w) \/ Clear(w)
          \/ Repin(w) \/ QuarantineTail(w) \/ KeepPrefix(w) \/ Quarantine(w) \/ Unpin(w))
    BY DEF WritePending, AppendRecord, Flush, Pin, Clear, Repin, QuarantineTail, KeepPrefix,
           Quarantine, Unpin
  <2>6. \A r \in Readers : ~(Ask(r) \/ AskKey(r) \/ AskLog(r) \/ AskPin(r) \/ AskPending(r))
    BY <1>2 DEF Ask, AskKey, AskLog, AskPin, AskPending
  <2> QED BY <1>2, <2>1, <2>2, <2>3, <2>4, <2>5, <2>6 DEF Next, vars
<1>5. disk' = [disk EXCEPT !.pend = None] /\ faults = 0
  BY <1>3, <1>4 DEF Repaired, Fails, Goes
<1>6. /\ disk'.log = disk.log /\ disk'.torn = disk.torn /\ disk'.pin = disk.pin
      /\ disk.log \in Logs /\ disk.torn \in BOOLEAN
  BY <1>5, DriveTypes DEF LedgerInv
<1>7. /\ ~disk.torn
      /\ \/ disk.pin # None /\ disk.pin = disk.log
         \/ disk.log = <<>> /\ disk.pin = None
  BY <1>5 DEF DriveInv, WorkInv
<1> QED BY <1>6, <1>7 DEF Verified

\* A repair that nothing cuts short leaves a ledger that takes appends again.
THEOREM RepairsHeal == Spec => RepairHeals
<1> DEFINE Heals == \A w \in Writers : job[w].at = "cleared" /\ job'[w].at = "idle"
                                       /\ faults' = 0 /\ cuts' = cuts =>
                     LET v == Verified(disk'.log, disk'.torn, disk'.pin, disk'.pend) IN
                     v.pin \in {"matches", "fresh"}
<1>1. LedgerInv /\ DriveInv /\ [Next]_vars => [Heals]_vars
  BY StepHeals
<1> QED BY <1>1, DriveInvariant, PTL DEF Spec, RepairHeals

\* A finished act is on record, and under the pin unless it was set aside.
LEMMA DriveCompletes == ASSUME LedgerInv, DriveInv PROVE CompletedActsHold
<1>1. /\ disk.log \in Logs /\ disk.torn \in BOOLEAN /\ disk.pin \in Logs \cup {None}
      /\ done \subseteq Held(disk)
      /\ disk.pin # None /\ disk.log # <<>> => done \subseteq ToSet(disk.pin) \cup UNION ToSet(disk.quar)
  BY DriveTypes DEF LedgerInv, DriveInv, DirInv, KeptInv, DoneInv, PinsLeft
<1>2. CASE OnDisk.pin = "matches"
  <2>1. OnDisk.pinned = disk.log
    BY <1>1, <1>2 DEF OnDisk, Verified
  <2> QED BY <1>1, <2>1 DEF CompletedActsHold, Held
<1>3. CASE OnDisk.pin = "fresh"
  <2>1. disk.log = <<>>
    BY <1>1, <1>3 DEF OnDisk, Verified
  <2> QED BY <1>1, <2>1, SetOfNothing DEF CompletedActsHold, Held
<1>4. CASE OnDisk.pin = "interrupted"
  <2>1. OnDisk.pinned = disk.pin /\ disk.pin # None /\ disk.log # <<>>
    BY <1>1, <1>4 DEF OnDisk, Verified
  <2> QED BY <1>1, <2>1 DEF CompletedActsHold
<1> QED BY <1>1, <1>2, <1>3, <1>4 DEF CompletedActsHold, Verifiable

\* What an append alone left past the pin, its pending pin names.
LEMMA DriveRecognises == ASSUME LedgerInv, DriveInv PROVE InterruptedIsRecognised
<1> SUFFICES ASSUME ~disk.torn, disk.log # <<>>, disk.pin # None,
                    \A i \in Len(disk.pin) + 1..Len(disk.log) : disk.log[i].kind # "change"
             PROVE  Verifiable(OnDisk)
  BY DEF InterruptedIsRecognised
<1>1. disk.pin = disk.log \/ disk.pend = disk.log
  BY DEF DriveInv, DirInv, RecogniseInv, PinsLeft, Settled
<1>2. IsPrefix(disk.pin, disk.log)
  BY DEF LedgerInv, PinInv, Paired
<1> QED BY <1>1, <1>2 DEF OnDisk, Verified, Verifiable

------------------------------------------------------------------------------
(* What pins name *)

\* In a log that verifies and carries no authority past its pin, every act of a
\* human is under the pin.
LEMMA NoAuthorityPast ==
    ASSUME LedgerInv, Verifiable(OnDisk), ~UnpinnedAuthority(disk.log, OnDisk),
           NEW x \in ToSet(disk.log), x.kind # "change"
    PROVE  disk.pin # None /\ x \in ToSet(disk.pin)
<1>1. disk.log \in Logs /\ disk.torn \in BOOLEAN /\ disk.pin \in Logs \cup {None} /\ disk.log # <<>>
  BY DriveTypes, SetOfNothing DEF LedgerInv
<1>2. disk.pin # None /\ OnDisk.pinned = disk.pin /\ IsPrefix(disk.pin, disk.log)
  <2>1. disk.pin # None /\ OnDisk.pinned = disk.pin
    BY <1>1 DEF OnDisk, Verified, Verifiable
  <2> QED BY <1>1, <2>1 DEF LedgerInv, PinInv, Paired
<1>3. PICK i \in 1..Len(disk.log) : disk.log[i] = x
  BY <1>1 DEF ToSet, Logs
<1>4. i \in 1..Len(disk.pin)
  <2>1. Len(disk.pin) \in Nat /\ Len(disk.log) \in Nat
    BY <1>1, <1>2 DEF Logs
  <2>2. i \notin Len(disk.pin) + 1..Len(disk.log)
    BY <1>2, <1>3 DEF UnpinnedAuthority
  <2> QED BY <2>1, <2>2
<1>5. disk.pin[i] = disk.log[i]
  <2>1. SubSeq(disk.pin, 1, Len(disk.pin)) = SubSeq(disk.log, 1, Len(disk.pin)) /\ Len(disk.pin) <= Len(disk.log)
    BY <1>2 DEF IsPrefix
  <2>2. SubSeq(disk.pin, 1, Len(disk.pin))[i] = disk.pin[i] /\ SubSeq(disk.log, 1, Len(disk.pin))[i] = disk.log[i]
    BY <1>1, <1>2, <1>4, <2>1 DEF Logs
  <2> QED BY <2>1, <2>2
<1> QED BY <1>1, <1>2, <1>3, <1>4, <1>5 DEF ToSet, Logs

\* The records of the writers at work, and of the acts that failed.
LEMMA ActingRecord ==
    ASSUME NEW w \in Writers, job[w].at \in Acting PROVE job[w].record \in Bad
BY DEF Bad

\* They are records.
LEMMA BadRecords == ASSUME TypeOK PROVE Bad \subseteq Records
BY JobFacts DEF TypeOK, Bad, Acting

\* No act joins those that may fail but by starting.
LEMMA BadShrinks ==
    ASSUME failed' \subseteq Bad,
           \A w \in Writers : job'[w].at \in Acting => job[w].at \in Acting /\ job'[w].record = job[w].record
    PROVE  Bad' \subseteq Bad
BY DEF Bad

\* A closure that returns adds its record to those of the acts that failed, or none.
LEMMA ReturnBad ==
    ASSUME LedgerInv, NEW w \in Writers, job[w].at # "idle", Return(w),
           \/ failed' = failed
           \/ job[w].at \in Acting /\ failed' = failed \cup {job[w].record}
    PROVE  Bad' \subseteq Bad
<1>1. \A v \in Writers : job'[v].at = "idle"
  BY ReturnType DEF LedgerInv, Idle
<1>2. failed' \subseteq Bad
  BY ActingRecord DEF Bad
<1>3. \A v \in Writers : job'[v].at \notin Acting
  BY <1>1 DEF Acting
<1> QED BY <1>2, <1>3, BadShrinks

\* Moving on to the next place adds none.
LEMMA GoesOnBad ==
    ASSUME LedgerInv, NEW w \in Writers, NEW at, To(w, at), lock' = lock, failed' = failed,
           \/ job[w].at \in Acting /\ at \in {"pend", "append", "flush", "pin", "clear"}
           \/ job[w].at \in RepairPlaces /\ at \in RepairPlaces
    PROVE  Bad' \subseteq Bad
<1>1. /\ job'[w].at = at
      /\ job[w].at \in Acting => job'[w].record = job[w].record
      /\ \A v \in Writers \ {w} : job'[v].at = "idle"
  BY ToType DEF LedgerInv, Acting, RepairPlaces
<1>2. failed' \subseteq Bad
  BY DEF Bad
<1>3. at \in Acting => job[w].at \in Acting
  BY DEF Acting, RepairPlaces
<1>4. "idle" \notin Acting
  BY DEF Acting
<1> QED BY <1>1, <1>2, <1>3, <1>4, BadShrinks

\* Only starting an act adds to them.
LEMMA BadStep ==
    ASSUME LedgerInv, [Next]_vars, \A w \in Writers : ~Vouch(w)
    PROVE  Bad' \subseteq Bad /\ acts' = acts
<1>1. ASSUME NEW w \in Writers, WritePending(w) \/ AppendRecord(w) \/ Flush(w) \/ Pin(w)
      PROVE  Bad' \subseteq Bad /\ acts' = acts
  <2>1. acts' = acts /\ job[w].at \in Acting /\ job[w].at # "idle"
    BY <1>1 DEF WritePending, AppendRecord, Flush, Pin, Acting
  <2>2. CASE Fail(w)
    BY <2>1, <2>2, ReturnBad DEF Fail
  <2>3. CASE ~Fail(w)
    <3>1. \E at \in {"append", "flush", "pin", "clear"} : To(w, at) /\ lock' = lock /\ failed' = failed
      BY <1>1, <2>3 DEF WritePending, AppendRecord, Flush, Pin
    <3> QED BY <2>1, <3>1, GoesOnBad
  <2> QED BY <2>2, <2>3
<1>2. ASSUME NEW w \in Writers, Clear(w) \/ Repaired(w) PROVE Bad' \subseteq Bad /\ acts' = acts
  <2>1. acts' = acts /\ job[w].at # "idle" /\ Return(w) /\ failed' = failed
    BY <1>2 DEF Clear, Repaired, Succeed
  <2> QED BY <2>1, ReturnBad
<1>3. ASSUME NEW w \in Writers, Repin(w) \/ QuarantineTail(w) \/ KeepPrefix(w) \/ Quarantine(w) \/ Unpin(w)
      PROVE  Bad' \subseteq Bad /\ acts' = acts
  <2>1. acts' = acts /\ job[w].at \in RepairPlaces /\ job[w].at # "idle" /\ failed' = failed
    BY <1>3 DEF Repin, QuarantineTail, KeepPrefix, Quarantine, Unpin, RepairPlaces
  <2>2. Return(w) \/ \E at \in RepairPlaces : To(w, at) /\ lock' = lock
    BY <1>3 DEF Repin, QuarantineTail, KeepPrefix, Quarantine, Unpin, RepairPlaces
  <2> QED BY <2>1, <2>2, ReturnBad, GoesOnBad
<1>4. ASSUME NEW w \in Writers, Repair(w) PROVE Bad' \subseteq Bad /\ acts' = acts
  <2>1. PICK at \in {"quarantine", "tail", "repin"} : \E head :
          job' = [job EXCEPT ![w] = [at |-> at, head |-> head]]
    BY <1>4 DEF Repair
  <2>2. failed' = failed /\ acts' = acts
    BY <1>4 DEF Repair
  <2>3. \A v \in Writers : job'[v].at \in Acting => v # w /\ job'[v] = job[v]
    BY <2>1 DEF LedgerInv, TypeOK, Acting
  <2> QED BY <2>2, <2>3, BadShrinks DEF Bad
<1>5. ASSUME NEW w \in Writers, Die(w) PROVE Bad' \subseteq Bad /\ acts' = acts
  <2>1. job[w].at # "idle" /\ Return(w) /\ acts' = acts
        /\ (failed' = failed \/ (job[w].at \in Acting /\ failed' = failed \cup {job[w].record}))
    <3>1. job[w].at # "idle" /\ Return(w) /\ acts' = acts
      BY <1>5 DEF Die
    <3>2. failed' = IF job[w].at \in {"pend", "append", "flush", "pin"} THEN failed \cup {job[w].record} ELSE failed
      BY <1>5 DEF Die
    <3>3. failed' = failed \/ (job[w].at \in Acting /\ failed' = failed \cup {job[w].record})
      BY <3>2 DEF Acting
    <3> QED BY <3>1, <3>3, Zenon
  <2> QED BY <2>1, ReturnBad
<1>6. ASSUME PowerCut PROVE Bad' \subseteq Bad /\ acts' = acts
  <2>1. failed' = Bad /\ acts' = acts /\ \A w \in Writers : job'[w].at \notin Acting
    BY <1>6 DEF PowerCut, Bad, Acting, Idle
  <2> QED BY <2>1, BadShrinks
<1>7. ASSUME NEW r \in Readers, Ask(r) \/ AskKey(r) \/ AskLog(r) \/ AskPin(r) \/ AskPending(r)
      PROVE Bad' \subseteq Bad /\ acts' = acts
  BY <1>7 DEF Ask, AskKey, AskLog, AskPin, AskPending, Bad
<1>8. CASE UNCHANGED vars
  BY <1>8 DEF vars, Bad
<1> QED BY <1>1, <1>2, <1>3, <1>4, <1>5, <1>6, <1>7, <1>8 DEF Next

\* Every record of a log was in a log before, or is of an act under way.
LEMMA LogsStep ==
    ASSUME LedgerInv, DriveInv, [Next]_vars
    PROVE  \A d \in {disk', safe'} : ToSet(d.log) \subseteq ToSet(disk.log) \cup ToSet(safe.log) \cup Bad
<1> DEFINE all == ToSet(disk.log) \cup ToSet(safe.log) \cup Bad
<1>1. ASSUME disk'.log = disk.log, safe'.log \in {disk.log, safe.log}
      PROVE  \A d \in {disk', safe'} : ToSet(d.log) \subseteq all
  BY <1>1
<1>2. ASSUME NEW w \in Writers, WritePending(w) \/ Flush(w) \/ Pin(w) \/ Clear(w) \/ Repin(w)
                                 \/ QuarantineTail(w) \/ Unpin(w) \/ Repaired(w) \/ Die(w)
      PROVE  \A d \in {disk', safe'} : ToSet(d.log) \subseteq all
  <2>1. disk'.log = disk.log
    BY <1>2, DriveTypes DEF LedgerInv, WritePending, Flush, Pin, Clear, Repin, QuarantineTail, Unpin, Repaired, Die
  <2>2. safe'.log \in {disk.log, safe.log}
    BY <1>2, <2>1, DriveTypes
       DEF LedgerInv, WritePending, Flush, Pin, Clear, Repin, QuarantineTail, Unpin, Repaired, Die
  <2> QED BY <1>1, <2>1, <2>2
<1>3. ASSUME NEW w \in Writers, AppendRecord(w)
      PROVE  \A d \in {disk', safe'} : ToSet(d.log) \subseteq all
  <2>1. job[w].at = "append" /\ safe' = safe
    BY <1>3 DEF AppendRecord
  <2>2. disk'.log = disk.log \/ disk'.log = job[w].head
    BY <1>3, DriveTypes DEF LedgerInv, AppendRecord
  <2>3. ToSet(job[w].head) = ToSet(disk.log) \cup {job[w].record}
    <3>1. job[w].head = Append(disk.log, job[w].record) /\ disk.log \in Logs /\ job[w].record \in Records
      BY <2>1, DriveTypes, JobFacts DEF LedgerInv, PinInv, PlaceInv, TypeOK
    <3> QED BY <3>1, SetOfAppend DEF Logs
  <2>4. job[w].record \in Bad
    BY <2>1, ActingRecord DEF Acting
  <2> QED BY <2>1, <2>2, <2>3, <2>4
<1>4. ASSUME NEW w \in Writers, KeepPrefix(w)
      PROVE  \A d \in {disk', safe'} : ToSet(d.log) \subseteq all
  <2>1. job[w].at = "prefix" /\ job[w].head = disk.pin /\ disk.pin # None /\ disk.log # <<>>
    BY <1>4 DEF KeepPrefix, LedgerInv, PinInv, PlaceInv, DriveInv, WorkInv
  <2>2. disk.pin \in Logs /\ disk.log \in Logs /\ IsPrefix(disk.pin, disk.log)
    BY <2>1, DriveTypes DEF LedgerInv, PinInv, Paired
  <2>3. ToSet(disk.pin) \subseteq ToSet(disk.log)
    BY <2>2, SetOfPrefix DEF Logs
  <2>4. \/ disk'.log = disk.pin /\ safe'.log = disk.pin
        \/ disk' = disk /\ safe' = safe
    BY <1>4, <2>1, DriveTypes DEF LedgerInv, KeepPrefix
  <2> QED BY <2>3, <2>4
<1>5. ASSUME NEW w \in Writers, Quarantine(w)
      PROVE  \A d \in {disk', safe'} : ToSet(d.log) \subseteq all
  <2>1. safe' = safe /\ (disk' = disk \/ disk'.log = <<>>)
    BY <1>5, DriveTypes DEF LedgerInv, Quarantine
  <2> QED BY <2>1, SetOfNothing
<1>6. ASSUME PowerCut PROVE \A d \in {disk', safe'} : ToSet(d.log) \subseteq all
  <2>1. PICK l \in LogsLeft, pin \in {disk.pin, safe.pin}, pend \in {disk.pend, safe.pend} :
          disk' = Directory(l[1], l[2], pin, pend, l[3])
    BY <1>6 DEF PowerCut
  <2>2. safe' = disk' /\ disk'.log = l[1]
    BY <1>6, <2>1 DEF PowerCut, Directory
  <2>3. l = <<disk.log, disk.torn, disk.quar>> \/ l = <<safe.log, safe.torn, safe.quar>>
        \/ l = <<safe.log, TRUE, disk.quar>>
    BY DEF LogsLeft
  <2>4. l[1] \in {disk.log, safe.log}
    <3>1. l = <<disk.log, disk.torn, disk.quar>> => l[1] = disk.log
      OBVIOUS
    <3>2. l = <<safe.log, safe.torn, safe.quar>> => l[1] = safe.log
      OBVIOUS
    <3>3. l = <<safe.log, TRUE, disk.quar>> => l[1] = safe.log
      OBVIOUS
    <3> QED BY <2>3, <3>1, <3>2, <3>3
  <2> QED BY <2>2, <2>4
<1>7. CASE disk' = disk /\ safe' = safe
  BY <1>7
<1> QED BY <1>2, <1>3, <1>4, <1>5, <1>6, <1>7
        DEF Next, vars, Vouch, Repair, Ask, AskKey, AskLog, AskPin, AskPending

\* What a human puts on record takes a number of its own.
LEMMA VouchRecord ==
    ASSUME NEW w \in Writers, Vouch(w)
    PROVE  \E x : /\ x.kind # "change" /\ x.n = acts + 1
                 /\ job' = [job EXCEPT ![w] = [at |-> "pend", record |-> x, head |-> Append(disk.log, x)]]
<1> DEFINE known == ApprovalsFrom(OnDisk.pinned)
           granted(p) == {Record("approval", p, c, acts + 1) :
                           c \in {c \in Contents : "approve" \in Acts
                                          /\ (c \notin known.hashes \/ known.live[p] # c)}}
           ended(p) == {Record("retired", p, None, acts + 1) :
                       x \in {x \in {p} : "forget" \in Acts /\ known.live[x] # None}}
<1>1. PICK p \in Paths : \E record \in granted(p) \cup ended(p) :
        job' = [job EXCEPT ![w] = [at |-> "pend", record |-> record,
                                   head |-> Append(disk.log, record)]]
  BY Zenon DEF Vouch
<1> HIDE DEF known
<1>2. \A x \in granted(p) \cup ended(p) : x.kind # "change" /\ x.n = acts + 1
  BY DEF Record
<1> QED BY <1>1, <1>2

\* The acts that failed, and may yet fail, stay out of what will be pinned.
FailPlaces ==
    \A w \in Writers :
        /\ job[w].at \in Acting => failed \cap ToSet(job[w].head) = {}
        /\ job[w].at = "repin" => failed \cap ToSet(disk.log) = {}

\* An append is refused over a failed act, and a repair never vouches for one.
LEMMA FailPlacesStep ==
    ASSUME LedgerInv, FailInv, PinsClean, [Next]_vars PROVE FailPlaces'
<1>1. ASSUME NEW w \in Writers, Return(w), job[w].at # "idle" PROVE FailPlaces'
  <2>1. \A v \in Writers : job'[v].at = "idle"
    BY <1>1, ReturnType DEF LedgerInv, Idle
  <2> QED BY <2>1 DEF FailPlaces, Acting
<1>2. ASSUME NEW w \in Writers, NEW at, To(w, at), lock' = lock, failed' = failed,
             \/ job[w].at \in Acting /\ at \in {"append", "flush", "pin", "clear"}
             \/ job[w].at \in RepairPlaces /\ at \in RepairPlaces \ {"repin"}
      PROVE  FailPlaces'
  <2>1. /\ job'[w].at = at /\ job'[w].head = job[w].head
        /\ \A v \in Writers \ {w} : job'[v].at = "idle"
    BY <1>2, ToType DEF LedgerInv, Acting, RepairPlaces
  <2>2. at \in Acting => job[w].at \in Acting
    BY <1>2 DEF Acting, RepairPlaces
  <2>3. at # "repin"
    BY <1>2
  <2> QED BY <1>2, <2>1, <2>2, <2>3 DEF FailPlaces, FailInv, Acting
<1>3. ASSUME NEW w \in Writers, WritePending(w) \/ AppendRecord(w) \/ Flush(w) \/ Pin(w) PROVE FailPlaces'
  <2>1. job[w].at \in Acting /\ job[w].at # "idle"
    BY <1>3 DEF WritePending, AppendRecord, Flush, Pin, Acting
  <2>2. Return(w) \/ \E at \in {"append", "flush", "pin", "clear"} : To(w, at) /\ lock' = lock /\ failed' = failed
    BY <1>3 DEF WritePending, AppendRecord, Flush, Pin, Fail
  <2> QED BY <1>1, <1>2, <2>1, <2>2
<1>4. ASSUME NEW w \in Writers, Repin(w) \/ QuarantineTail(w) \/ KeepPrefix(w) \/ Quarantine(w) \/ Unpin(w)
      PROVE  FailPlaces'
  <2>1. job[w].at \in RepairPlaces /\ job[w].at # "idle" /\ failed' = failed
    BY <1>4 DEF Repin, QuarantineTail, KeepPrefix, Quarantine, Unpin, RepairPlaces
  <2>2. Return(w) \/ \E at \in RepairPlaces \ {"repin"} : To(w, at) /\ lock' = lock
    BY <1>4 DEF Repin, QuarantineTail, KeepPrefix, Quarantine, Unpin, RepairPlaces
  <2> QED BY <1>1, <1>2, <2>1, <2>2
<1>5. ASSUME NEW w \in Writers, Clear(w) \/ Repaired(w) \/ Die(w) PROVE FailPlaces'
  <2>1. job[w].at # "idle" /\ Return(w)
    BY <1>5 DEF Clear, Succeed, Repaired, Die
  <2> QED BY <1>1, <2>1
<1>6. ASSUME PowerCut PROVE FailPlaces'
  BY <1>6 DEF PowerCut, Idle, FailPlaces, Acting
<1>7. \A x \in failed : x.kind # "change" /\ (disk.pin # None => x \notin ToSet(disk.pin))
  BY DEF FailInv, Bad, PinsClean, PinsLeft, Clean
<1>8. ASSUME NEW w \in Writers, Vouch(w) PROVE FailPlaces'
  <2>1. /\ lock = None /\ disk' = disk /\ failed' = failed
        /\ Verifiable(OnDisk) /\ ~UnpinnedAuthority(disk.log, OnDisk)
    BY <1>8 DEF Vouch, Acquire
  <2>2. failed \cap ToSet(disk.log) = {}
    BY <1>7, <2>1, NoAuthorityPast
  <2>3. PICK record :
          /\ record.kind # "change" /\ record.n = acts + 1
          /\ job' = [job EXCEPT ![w] = [at |-> "pend", record |-> record, head |-> Append(disk.log, record)]]
    BY <1>8, VouchRecord
  <2>5. record \notin failed
    BY <2>3, ConstantsAssumption DEF FailInv, Old, Bad, LedgerInv, TypeOK
  <2>6. job'[w] = [at |-> "pend", record |-> record, head |-> Append(disk.log, record)]
        /\ \A v \in Writers \ {w} : job'[v].at = "idle"
    <3>1. job \in [Writers -> Jobs] /\ \A v \in Writers : job[v].at = "idle"
      BY <2>1, ConstantsAssumption DEF LedgerInv, TypeOK
    <3> QED BY <2>3, <3>1
  <2>7. ToSet(Append(disk.log, record)) = ToSet(disk.log) \cup {record}
    <3>1. disk.log \in Seq(Records \cup {record}) /\ record \in Records \cup {record}
      BY DriveTypes DEF LedgerInv, Logs
    <3> QED BY <3>1, SetOfAppend
  <2>8. failed \cap ToSet(job'[w].head) = {} /\ job'[w].at = "pend"
    BY <2>2, <2>5, <2>6, <2>7
  <2> QED BY <2>1, <2>6, <2>8 DEF FailPlaces, Acting
<1>9. ASSUME NEW w \in Writers, Repair(w) PROVE FailPlaces'
  <2>1. lock = None /\ disk' = disk /\ failed' = failed
    BY <1>9 DEF Repair, Acquire
  <2>2. PICK at \in {"quarantine", "tail", "repin"} : \E head :
          /\ job' = [job EXCEPT ![w] = [at |-> at, head |-> head]]
          /\ at = "repin" => Verifiable(OnDisk) /\ ~UnpinnedAuthority(disk.log, OnDisk)
    BY <1>9 DEF Repair
  <2>3. job'[w].at = at /\ \A v \in Writers \ {w} : job'[v].at = "idle"
    <3>1. job \in [Writers -> Jobs] /\ \A v \in Writers : job[v].at = "idle"
      BY <2>1, ConstantsAssumption DEF LedgerInv, TypeOK
    <3> QED BY <2>2, <3>1
  <2>4. at = "repin" => failed \cap ToSet(disk.log) = {}
    BY <1>7, <2>2, NoAuthorityPast
  <2> QED BY <2>1, <2>3, <2>4 DEF FailPlaces, Acting
<1>10. ASSUME UNCHANGED <<disk, failed, job>> PROVE FailPlaces'
  BY <1>10 DEF FailInv, FailPlaces
<1> QED BY <1>3, <1>4, <1>5, <1>6, <1>8, <1>9, <1>10
        DEF Next, vars, Ask, AskKey, AskLog, AskPin, AskPending

\* A human's act takes a number of its own.
LEMMA VouchBad ==
    ASSUME LedgerInv, NEW w \in Writers, Vouch(w)
    PROVE  \E x : Bad' \subseteq Bad \cup {x} /\ x.kind # "change" /\ x.n = acts + 1
<1>1. PICK x : /\ x.kind # "change" /\ x.n = acts + 1
               /\ job' = [job EXCEPT ![w] = [at |-> "pend", record |-> x, head |-> Append(disk.log, x)]]
  BY VouchRecord
<1>2. failed' = failed
  BY DEF Vouch
<1>3. job'[w].record = x /\ \A v \in Writers \ {w} : job'[v] = job[v]
  BY <1>1 DEF LedgerInv, TypeOK
<1>4. Bad' \subseteq Bad \cup {x}
  BY <1>2, <1>3 DEF Bad
<1> QED BY <1>1, <1>4

\* What was clean of the acts under way stays so.
LEMMA CleanStep ==
    ASSUME LedgerInv, [Next]_vars
    PROVE  \A p : Clean(p, Bad, acts) => Clean(p, Bad', acts')
<1>1. CASE Bad' \subseteq Bad /\ acts' = acts
  BY <1>1 DEF Clean
<1>2. ASSUME NEW w \in Writers, Vouch(w) PROVE \A p : Clean(p, Bad, acts) => Clean(p, Bad', acts')
  <2>1. PICK x : Bad' \subseteq Bad \cup {x} /\ x.kind # "change" /\ x.n = acts + 1
    BY <1>2, VouchBad
  <2>2. acts' = acts + 1 /\ acts \in Nat
    BY <1>2, ConstantsAssumption DEF Vouch, LedgerInv, TypeOK
  <2> SUFFICES ASSUME NEW p, Clean(p, Bad, acts), p # None
               PROVE  p \in Logs /\ p # <<>> /\ Bad' \cap ToSet(p) = {} /\ Old(ToSet(p), acts')
    BY DEF Clean
  <2>3. p \in Logs /\ p # <<>> /\ Bad \cap ToSet(p) = {} /\ Old(ToSet(p), acts)
    BY DEF Clean
  <2>4. x \notin ToSet(p)
    BY <2>1, <2>2, <2>3 DEF Old
  <2>5. Old(ToSet(p), acts')
    <3>1. \A y \in ToSet(p) : y \in Records
      BY <2>3 DEF ToSet, Logs
    <3>2. \A y \in Records : y.n \in Nat
      BY ConstantsAssumption DEF Records
    <3> QED BY <2>2, <2>3, <3>1, <3>2 DEF Old
  <2> QED BY <2>1, <2>3, <2>4, <2>5
<1> QED BY <1>1, <1>2, BadStep

\* And so for every step.
LEMMA FailStep ==
    ASSUME LedgerInv, DriveInv, FailInv, PinsClean, [Next]_vars PROVE FailInv'
<1>1. /\ Bad \subseteq Records /\ disk.log \in Logs /\ safe.log \in Logs /\ acts \in Nat
      /\ Records \subseteq [kind : Kinds, path : Paths \cup {None}, sha : Contents \cup {None}, n : Nat]
  BY DriveTypes, BadRecords, ConstantsAssumption DEF LedgerInv, TypeOK, Records
<1> DEFINE all == ToSet(disk.log) \cup ToSet(safe.log) \cup Bad
<1>2. all \subseteq Records /\ Old(all, acts)
  BY <1>1 DEF FailInv, Old, ToSet, Logs
<1>3. acts' \in Nat /\ acts' >= acts
  <2>1. acts' = acts \/ acts' = acts + 1
    BY BadStep DEF Vouch
  <2> QED BY <1>1, <2>1
<1>4. Old(all, acts')
  <2>1. \A x \in all : x.n \in Nat
    BY <1>1, <1>2
  <2> HIDE DEF all
  <2> QED BY <1>1, <1>2, <1>3, <2>1 DEF Old
<1>5. Old(ToSet(disk'.log), acts') /\ Old(ToSet(safe'.log), acts')
  BY <1>4, LogsStep DEF Old
<1>6. Old(Bad', acts') /\ \A x \in Bad' : x.kind # "change"
  <2>1. CASE Bad' \subseteq Bad
    BY <1>4, <2>1 DEF FailInv, Old
  <2>2. ASSUME NEW w \in Writers, Vouch(w) PROVE Old(Bad', acts') /\ \A x \in Bad' : x.kind # "change"
    <3>1. PICK x : Bad' \subseteq Bad \cup {x} /\ x.kind # "change" /\ x.n = acts + 1
      BY <2>2, VouchBad
    <3>2. acts' = acts + 1
      BY <2>2 DEF Vouch
    <3> QED BY <1>1, <1>4, <3>1, <3>2 DEF FailInv, Old
  <2> QED BY <2>1, <2>2, BadStep
<1>7. FailPlaces'
  BY FailPlacesStep
<1> QED BY <1>5, <1>6, <1>7 DEF FailInv, FailPlaces

------------------------------------------------------------------------------
(* What readers compare *)

\* A prefix of a prefix is one.
LEMMA PrefixTransitive ==
    ASSUME NEW S, NEW s \in Seq(S), NEW t \in Seq(S), NEW u \in Seq(S), IsPrefix(s, t), IsPrefix(t, u)
    PROVE  IsPrefix(s, u)
<1>1. /\ Len(s) <= Len(t) /\ SubSeq(s, 1, Len(s)) = SubSeq(t, 1, Len(s))
      /\ Len(t) <= Len(u) /\ SubSeq(t, 1, Len(t)) = SubSeq(u, 1, Len(t))
  BY DEF IsPrefix
<1>2. \A i \in 1..Len(s) : s[i] = u[i]
  <2> TAKE i \in 1..Len(s)
  <2>1. i \in 1..Len(t)
    BY <1>1
  <2>2. SubSeq(s, 1, Len(s))[i] = s[i] /\ SubSeq(t, 1, Len(s))[i] = t[i]
    BY <1>1
  <2>3. SubSeq(t, 1, Len(t))[i] = t[i] /\ SubSeq(u, 1, Len(t))[i] = u[i]
    BY <1>1, <2>1
  <2> QED BY <1>1, <2>2, <2>3
<1>3. SubSeq(s, 1, Len(s)) = s /\ Len(s) <= Len(u)
  BY <1>1
<1>4. SubSeq(u, 1, Len(s)) = s
  <2>1. /\ SubSeq(u, 1, Len(s)) \in Seq(S) /\ Len(SubSeq(u, 1, Len(s))) = Len(s)
        /\ \A i \in 1..Len(s) : SubSeq(u, 1, Len(s))[i] = u[i]
    BY <1>3
  <2> QED BY <1>2, <2>1
<1> QED BY <1>3, <1>4 DEF IsPrefix

\* What a step that is no power cut makes of the pin and the log.
DiskMoves ==
    \/ disk'.pin = disk.pin /\ disk'.log = disk.log
    \/ disk'.pin = disk.pin /\ \E x \in Bad : disk'.log = Append(disk.log, x)
    \/ /\ disk'.pin = disk.log /\ disk'.log = disk.log /\ disk.log # <<>>
       /\ disk.pin # None => IsPrefix(disk.pin, disk.log)
    \/ /\ disk'.pin = disk.pin /\ disk.pin # None /\ disk'.log = disk.pin
       /\ IsPrefix(disk.pin, disk.log)
    \/ disk'.pin = disk.pin /\ disk'.log = <<>>
    \/ disk'.pin = None /\ disk'.log = <<>> /\ disk.log = <<>>

\* A pin that has moved on stays so, and one that is there stays or moves on.
LEMMA PinsMoveOn ==
    ASSUME TypeOK, DiskMoves, NEW p, Clean(p, Bad, acts), p # None
    PROVE  /\ Dead(p, disk.pin, disk.log) => Dead(p, disk'.pin, disk'.log)
           /\ Live(p, disk.pin, disk.log) => Live(p, disk'.pin, disk'.log)
<1>1. /\ disk.log \in Seq(Records) /\ (disk.pin # None => disk.pin \in Seq(Records)) /\ None \notin Seq(Records)
  BY DriveTypes, NoneAssumption DEF Logs
<1>2. p \in Seq(Records) /\ p # <<>> /\ Bad \cap ToSet(p) = {}
  BY DEF Clean, Logs
<1>3. p[1] \in ToSet(p)
  BY <1>2 DEF ToSet
<1>4. CASE disk'.pin = disk.pin /\ disk'.log = disk.log
  BY <1>4
<1>5. CASE disk'.pin = disk.pin /\ ToSet(disk'.log) \subseteq ToSet(disk.log) \cup Bad
  BY <1>2, <1>3, <1>5 DEF Dead, Live
<1>6. ASSUME NEW x \in Bad, disk'.log = Append(disk.log, x)
      PROVE  ToSet(disk'.log) \subseteq ToSet(disk.log) \cup Bad
  BY <1>1, <1>6, SetOfAppend, BadRecords
<1>7. ASSUME disk.pin # None, disk'.log = disk.pin, IsPrefix(disk.pin, disk.log)
      PROVE  ToSet(disk'.log) \subseteq ToSet(disk.log) \cup Bad
  <2>1. ToSet(disk.pin) \subseteq ToSet(disk.log)
    BY <1>1, <1>7, SetOfPrefix
  <2> QED BY <1>7, <2>1
<1>8. CASE disk'.pin = None /\ disk'.log = <<>>
  <2>1. p[1] \notin ToSet(disk'.log)
    BY <1>8, SetOfNothing
  <2> QED BY <1>8, <2>1 DEF Dead, Live
<1>9. CASE /\ disk'.pin = disk.log /\ disk'.log = disk.log /\ disk.log # <<>>
           /\ disk.pin # None => IsPrefix(disk.pin, disk.log)
  <2>1. ASSUME disk.pin # None, IsStrictPrefix(p, disk.pin) PROVE IsStrictPrefix(p, disk.log)
    <3>1. IsPrefix(p, disk.pin) /\ p # disk.pin
      BY <2>1 DEF IsStrictPrefix
    <3>2. IsPrefix(p, disk.log) /\ Len(p) < Len(disk.pin) /\ Len(disk.pin) <= Len(disk.log)
      <4>1. Len(disk.pin) <= Len(disk.log)
        BY <1>9, <2>1 DEF IsPrefix
      <4> QED BY <1>1, <1>2, <1>9, <2>1, <3>1, <4>1, PrefixTransitive, PrefixShorter
    <3>3. p # disk.log
      <4>1. Len(p) \in Nat /\ Len(disk.pin) \in Nat /\ Len(disk.log) \in Nat
        BY <1>1, <1>2, <2>1
      <4> QED BY <3>2, <4>1
    <3> QED BY <3>2, <3>3 DEF IsStrictPrefix
  <2>2. p[1] \notin ToSet(disk.log) => disk.log # p
    BY <1>3
  <2>3. disk.log # None
    BY <1>1
  <2>4. disk.pin = p => p = disk.log \/ IsStrictPrefix(p, disk.log)
    BY <1>9 DEF IsStrictPrefix
  <2> QED BY <1>9, <2>1, <2>2, <2>3, <2>4 DEF Dead, Live
<1>10. ASSUME disk'.log = <<>> PROVE ToSet(disk'.log) \subseteq ToSet(disk.log) \cup Bad
  BY <1>10, SetOfNothing
<1> QED BY <1>4, <1>5, <1>6, <1>7, <1>8, <1>9, <1>10 DEF DiskMoves

\* The steps of a writer, but a power cut.
Writes(w) ==
    \/ Vouch(w) \/ WritePending(w) \/ AppendRecord(w) \/ Flush(w) \/ Pin(w) \/ Clear(w)
    \/ Repair(w) \/ Repin(w) \/ QuarantineTail(w) \/ KeepPrefix(w)
    \/ Quarantine(w) \/ Unpin(w) \/ Repaired(w) \/ Die(w)

\* Every step of a writer makes one of those of the disk.
LEMMA WritesMove == ASSUME LedgerInv, DriveInv, NEW w \in Writers, Writes(w) PROVE DiskMoves
<1>1. CASE Vouch(w) \/ WritePending(w) \/ Flush(w) \/ Clear(w) \/ Repair(w) \/ QuarantineTail(w)
           \/ Repaired(w) \/ Die(w)
  <2>1. disk'.pin = disk.pin /\ disk'.log = disk.log
    BY <1>1, DriveTypes DEF LedgerInv, Vouch, WritePending, Flush, Clear, Repair, QuarantineTail, Repaired, Die
  <2> QED BY <2>1 DEF DiskMoves
<1>2. CASE AppendRecord(w)
  <2>1. job[w].at = "append"
    BY <1>2 DEF AppendRecord
  <2>2. job[w].head = Append(disk.log, job[w].record) /\ job[w].record \in Bad
    BY <2>1, ActingRecord DEF LedgerInv, PinInv, PlaceInv, Acting
  <2>3. disk'.pin = disk.pin /\ disk'.log \in {disk.log, job[w].head}
    BY <1>2, DriveTypes DEF LedgerInv, AppendRecord
  <2> QED BY <2>2, <2>3 DEF DiskMoves
<1>3. CASE Pin(w)
  <2>1. job[w].at = "pin"
    BY <1>3 DEF Pin
  <2>2. job[w].head = disk.log /\ disk.log # <<>>
    BY <2>1 DEF LedgerInv, PinInv, PlaceInv, DriveInv, WorkInv
  <2>3. disk.pin # None => IsPrefix(disk.pin, disk.log)
    BY <2>2 DEF LedgerInv, PinInv, Paired
  <2>4. disk'.log = disk.log /\ disk'.pin \in {disk.pin, job[w].head}
    BY <1>3, DriveTypes DEF LedgerInv, Pin
  <2> QED BY <2>2, <2>3, <2>4 DEF DiskMoves
<1>4. CASE Repin(w)
  <2>1. job[w].at = "repin"
    BY <1>4 DEF Repin
  <2>2. disk.log # <<>>
    BY <2>1 DEF LedgerInv, PinInv, PlaceInv
  <2>3. disk.pin # None => IsPrefix(disk.pin, disk.log)
    BY <2>2 DEF LedgerInv, PinInv, Paired
  <2>4. disk'.log = disk.log /\ disk'.pin \in {disk.pin, disk.log}
    BY <1>4, DriveTypes DEF LedgerInv, Repin
  <2> QED BY <2>2, <2>3, <2>4 DEF DiskMoves
<1>5. CASE KeepPrefix(w)
  <2>1. job[w].at = "prefix"
    BY <1>5 DEF KeepPrefix
  <2>2. job[w].head = disk.pin /\ disk.pin # None /\ disk.log # <<>>
    BY <2>1 DEF LedgerInv, PinInv, PlaceInv, DriveInv, WorkInv
  <2>3. IsPrefix(disk.pin, disk.log)
    BY <2>2 DEF LedgerInv, PinInv, Paired
  <2>4. disk'.pin = disk.pin /\ disk'.log \in {disk.log, job[w].head}
    BY <1>5, DriveTypes DEF LedgerInv, KeepPrefix
  <2> QED BY <2>2, <2>3, <2>4 DEF DiskMoves
<1>6. CASE Quarantine(w)
  <2>1. disk'.pin = disk.pin /\ disk'.log \in {disk.log, <<>>}
    BY <1>6, DriveTypes DEF LedgerInv, Quarantine
  <2> QED BY <2>1 DEF DiskMoves
<1>7. CASE Unpin(w)
  <2>1. disk.log = <<>>
    BY <1>7 DEF Unpin, LedgerInv, PinInv, PlaceInv
  <2>2. disk'.log = disk.log /\ disk'.pin \in {disk.pin, None}
    BY <1>7, DriveTypes DEF LedgerInv, Unpin
  <2> QED BY <2>1, <2>2 DEF DiskMoves
<1> QED BY <1>1, <1>2, <1>3, <1>4, <1>5, <1>6, <1>7 DEF Writes

\* A step that moves the pin is watched, and no other touches a reader.
LEMMA WritesWatched ==
    ASSUME LedgerInv, NEW w \in Writers, Writes(w)
    PROVE  /\ cache' = cache /\ answer' = answer
           /\ Watched \/ (ask' = ask /\ disk'.pin = disk.pin)
<1>1. CASE Pin(w) \/ Repin(w) \/ Unpin(w)
  BY <1>1 DEF Pin, Repin, Unpin, Watched
<1>2. CASE \/ Vouch(w) \/ WritePending(w) \/ AppendRecord(w) \/ Flush(w) \/ Clear(w)
           \/ Repair(w) \/ QuarantineTail(w) \/ KeepPrefix(w)
           \/ Quarantine(w) \/ Repaired(w) \/ Die(w)
  <2>1. disk'.pin = disk.pin
    BY <1>2, DriveTypes DEF LedgerInv, Vouch, WritePending, AppendRecord, Flush, Clear, Repair, QuarantineTail,
       KeepPrefix, Quarantine, Repaired, Die
  <2>2. ask' = ask /\ cache' = cache /\ answer' = answer
    BY <1>2 DEF reading, Vouch, WritePending, AppendRecord, Flush, Clear, Repair, QuarantineTail,
       KeepPrefix, Quarantine, Repaired, Die
  <2> QED BY <2>1, <2>2
<1> QED BY <1>1, <1>2 DEF Writes

\* What is pinned is clean of the acts that failed and of those under way.
LEMMA PinsStep ==
    ASSUME LedgerInv, DriveInv, FailInv, PinsClean, [Next]_vars
    PROVE  \A p \in PinsLeft' : Clean(p, Bad', acts')
<1>1. \A p \in PinsLeft \cup {None} : Clean(p, Bad', acts')
  <2>1. \A p \in PinsLeft \cup {None} : Clean(p, Bad, acts)
    BY DEF PinsClean, Clean
  <2> QED BY <2>1, CleanStep
<1>2. ASSUME NEW w \in Writers, Pin(w) \/ Repin(w), PinsLeft' = {disk.log}, failed \cap ToSet(disk.log) = {},
             disk.log # <<>>, Bad' = failed, acts' = acts
      PROVE  \A p \in PinsLeft' : Clean(p, Bad', acts')
  BY <1>2, DriveTypes DEF LedgerInv, Clean, FailInv
<1>3. ASSUME NEW w \in Writers, Pin(w) PROVE \A p \in PinsLeft' : Clean(p, Bad', acts')
  <2>1. CASE UNCHANGED <<disk, safe>>
    BY <1>1, <2>1 DEF PinsLeft
  <2>2. CASE ~UNCHANGED <<disk, safe>>
    <3>1. /\ job[w].at = "pin" /\ To(w, "clear") /\ lock' = lock /\ failed' = failed /\ acts' = acts
          /\ disk' = [disk EXCEPT !.pin = job[w].head] /\ safe' = [safe EXCEPT !.pin = job[w].head]
      BY <1>3, <2>2 DEF Pin
    <3>2. job[w].head = disk.log /\ disk.log # <<>> /\ failed \cap ToSet(job[w].head) = {}
      BY <3>1 DEF LedgerInv, PinInv, PlaceInv, DriveInv, WorkInv, FailInv, Acting
    <3>3. job'[w].at = "clear" /\ \A v \in Writers \ {w} : job'[v].at = "idle"
      BY <3>1, ToType DEF LedgerInv
    <3>4. \A v \in Writers : job'[v].at \notin Acting
      BY <3>3 DEF Acting
    <3>5. Bad' = failed
      BY <3>1, <3>4 DEF Bad
    <3>6. PinsLeft' = {disk.log}
      BY <3>1, <3>2, DriveTypes DEF LedgerInv, PinsLeft
    <3> QED BY <1>2, <1>3, <3>1, <3>2, <3>5, <3>6
  <2> QED BY <2>1, <2>2
<1>4. ASSUME NEW w \in Writers, Repin(w) PROVE \A p \in PinsLeft' : Clean(p, Bad', acts')
  <2>1. CASE UNCHANGED <<disk, safe>>
    BY <1>1, <2>1 DEF PinsLeft
  <2>2. CASE ~UNCHANGED <<disk, safe>>
    <3>1. /\ job[w].at = "repin" /\ To(w, "cleared") /\ lock' = lock /\ failed' = failed /\ acts' = acts
          /\ disk' = [disk EXCEPT !.pin = disk.log] /\ safe' = [safe EXCEPT !.pin = disk.log]
      BY <1>4, <2>2 DEF Repin
    <3>2. disk.log # <<>> /\ failed \cap ToSet(disk.log) = {}
      BY <3>1 DEF LedgerInv, PinInv, PlaceInv, FailInv
    <3>3. job'[w].at = "cleared" /\ \A v \in Writers \ {w} : job'[v].at = "idle"
      BY <3>1, ToType DEF LedgerInv
    <3>4. \A v \in Writers : job'[v].at \notin Acting
      BY <3>3 DEF Acting
    <3>5. Bad' = failed
      BY <3>1, <3>4 DEF Bad
    <3>6. PinsLeft' = {disk.log}
      BY <3>1, DriveTypes DEF LedgerInv, PinsLeft
    <3> QED BY <1>2, <1>4, <3>1, <3>2, <3>5, <3>6
  <2> QED BY <2>1, <2>2
<1>5. ASSUME NEW w \in Writers, Writes(w), ~Pin(w), ~Repin(w) PROVE \A p \in PinsLeft' : Clean(p, Bad', acts')
  <2>1. disk'.pin \in {disk.pin, None} /\ safe'.pin \in {disk.pin, safe.pin}
    BY <1>5, DriveTypes DEF LedgerInv, Writes, Vouch, WritePending, AppendRecord, Flush, Clear, Repair,
       QuarantineTail, KeepPrefix, Quarantine, Unpin, Repaired, Die
  <2> QED BY <1>1, <2>1 DEF PinsLeft
<1>6. CASE PowerCut
  <2>1. PICK l \in LogsLeft, pin \in {disk.pin, safe.pin}, pend \in {disk.pend, safe.pend} :
          disk' = Directory(l[1], l[2], pin, pend, l[3])
    BY <1>6 DEF PowerCut
  <2>2. safe' = disk' /\ disk'.pin = pin
    BY <1>6, <2>1 DEF PowerCut, Directory
  <2> QED BY <1>1, <2>2 DEF PinsLeft
<1>7. CASE UNCHANGED <<disk, safe>>
  BY <1>1, <1>7 DEF PinsLeft
<1> QED BY <1>3, <1>4, <1>5, <1>6, <1>7
        DEF Next, Writes, vars, Ask, AskKey, AskLog, AskPin, AskPending

------------------------------------------------------------------------------
(* What readers are told *)

\* What the type says of a query.
LEMMA AskFacts ==
    ASSUME NEW a \in Asks
    PROVE  /\ a.at \in {"idle", "key", "log", "pin", "pending"}
           /\ a.at = "idle" => a = Unasked
           /\ a.at = "key" => a \in [at : {"key"}, key : {<<p>> : p \in AnyPin}, window : SUBSET AnyPin]
           /\ a.at = "log" => a \in [at : {"log"}, key : Keys \cup {None}, window : SUBSET AnyPin]
           /\ a.at = "pin" => a \in [at : {"pin"}, key : Keys \cup {None}, window : SUBSET AnyPin,
                                     log : Logs, torn : BOOLEAN]
           /\ a.at = "pending" => a \in [at : {"pending"}, key : Keys \cup {None}, window : SUBSET AnyPin,
                                         log : Logs, torn : BOOLEAN, pin : AnyPin]
BY DEF Asks, Unasked

\* What a query is, once its window is wider.
LEMMA WiderType ==
    ASSUME NEW a \in Asks, a.at # "idle", NEW p \in AnyPin
    PROVE  /\ [a EXCEPT !.window = @ \cup {p}] \in Asks
           /\ [a EXCEPT !.window = @ \cup {p}].window = a.window \cup {p}
           /\ [a EXCEPT !.window = @ \cup {p}].at = a.at
           /\ [a EXCEPT !.window = @ \cup {p}].key = a.key
           /\ a.at = "pending" => [a EXCEPT !.window = @ \cup {p}].pin = a.pin
<1> DEFINE b == [a EXCEPT !.window = @ \cup {p}]
<1>1. CASE a.at = "key"
  <2>1. a \in [at : {"key"}, key : {<<x>> : x \in AnyPin}, window : SUBSET AnyPin]
    BY <1>1, AskFacts
  <2>2. b \in [at : {"key"}, key : {<<x>> : x \in AnyPin}, window : SUBSET AnyPin]
    BY <2>1
  <2> QED BY <1>1, <2>1, <2>2 DEF Asks
<1>2. CASE a.at = "log"
  <2>1. a \in [at : {"log"}, key : Keys \cup {None}, window : SUBSET AnyPin]
    BY <1>2, AskFacts
  <2>2. b \in [at : {"log"}, key : Keys \cup {None}, window : SUBSET AnyPin]
    BY <2>1
  <2> QED BY <1>2, <2>1, <2>2 DEF Asks
<1>3. CASE a.at = "pin"
  <2>1. a \in [at : {"pin"}, key : Keys \cup {None}, window : SUBSET AnyPin, log : Logs, torn : BOOLEAN]
    BY <1>3, AskFacts
  <2>2. b \in [at : {"pin"}, key : Keys \cup {None}, window : SUBSET AnyPin, log : Logs, torn : BOOLEAN]
    BY <2>1
  <2> QED BY <1>3, <2>1, <2>2 DEF Asks
<1>4. CASE a.at = "pending"
  <2>1. a \in [at : {"pending"}, key : Keys \cup {None}, window : SUBSET AnyPin, log : Logs, torn : BOOLEAN,
               pin : AnyPin]
    BY <1>4, AskFacts
  <2>2. b \in [at : {"pending"}, key : Keys \cup {None}, window : SUBSET AnyPin, log : Logs, torn : BOOLEAN,
               pin : AnyPin]
    BY <2>1
  <2> QED BY <1>4, <2>1, <2>2 DEF Asks
<1> QED BY <1>1, <1>2, <1>3, <1>4, AskFacts

\* What a query is asked of may change under it: its window then covers it.
LEMMA WritesRead ==
    ASSUME LedgerInv, LedgerInv', DriveInv, FailInv, PinsClean, ReadInv, NEW w \in Writers, Writes(w)
    PROVE  PinsClean' /\ ReadInv'
<1>1. DiskMoves /\ cache' = cache /\ answer' = answer
  BY WritesMove, WritesWatched
<1>2. [Next]_vars
  BY DEF Writes, Next
<1>3. \A p \in PinsLeft' : Clean(p, Bad', acts')
  BY <1>2, PinsStep
<1>4. disk'.pin \in AnyPin /\ disk'.pin \in PinsLeft'
  BY DriveTypes DEF LedgerInv, TypeOK, Directories, AnyPin, PinsLeft
<1>5. \A r \in Readers :
        /\ ask[r].at = "idle" => ask'[r] = ask[r]
        /\ ask[r].at # "idle" =>
             /\ ask'[r] \in Asks
             /\ ask'[r].at = ask[r].at /\ ask'[r].key = ask[r].key
             /\ ask[r].at = "pending" => ask'[r].pin = ask[r].pin
             /\ ask'[r].window = ask[r].window \cup {disk'.pin}
  <2>1. ask \in [Readers -> Asks]
    BY DEF ReadInv, ReadType
  <2>2. CASE Watched
    <3> TAKE r \in Readers
    <3>1. ask'[r] = IF ask[r].at = "idle" THEN ask[r] ELSE [ask[r] EXCEPT !.window = @ \cup {disk'.pin}]
      BY <2>2 DEF Watched
    <3>2. ask[r] \in Asks
      BY <2>1
    <3> QED BY <1>4, <3>1, <3>2, WiderType
  <2>3. CASE ask' = ask /\ disk'.pin = disk.pin
    <3> TAKE r \in Readers
    <3>1. ask[r].at # "idle" => disk.pin \in ask[r].window
      BY DEF ReadInv, AskInv
    <3> QED BY <2>1, <2>3, <3>1
  <2> QED BY <2>2, <2>3, WritesWatched
<1>6. ask' \in [Readers -> Asks]
  <2>1. ask \in [Readers -> Asks]
    BY DEF ReadInv, ReadType
  <2>2. \E f : ask' = [r \in Readers |-> f[r]]
    <3>1. CASE Watched
      <4> DEFINE f == [r \in Readers |-> IF ask[r].at = "idle" THEN ask[r]
                                         ELSE [ask[r] EXCEPT !.window = @ \cup {disk'.pin}]]
      <4>1. ask' = f /\ f = [r \in Readers |-> f[r]]
        BY <3>1 DEF Watched
      <4> QED BY <4>1
    <3>2. CASE ask' = ask
      BY <2>1, <3>2
    <3> QED BY <3>1, <3>2, WritesWatched
  <2>3. \A r \in Readers : ask'[r] \in Asks
    BY <1>5, <2>1
  <2> QED BY <2>2, <2>3
<1>7. PinsClean'
  <2>1. \A p : Clean(p, Bad, acts) => Clean(p, Bad', acts')
    BY <1>2, CleanStep
  <2>2. ASSUME NEW r \in Readers, ask'[r].at # "idle", NEW p \in ask'[r].window PROVE Clean(p, Bad', acts')
    <3>1. ask[r].at # "idle" /\ p \in ask[r].window \cup {disk'.pin}
      BY <1>5, <2>2
    <3> QED BY <1>3, <1>4, <2>1, <3>1 DEF PinsClean
  <2>3. ASSUME NEW r \in Readers
        PROVE  /\ answer'[r] # None => \A p \in answer'[r].window : Clean(p, Bad', acts')
               /\ cache'[r] # None => Clean(cache'[r].key[1], Bad', acts')
    BY <1>1, <2>1, <2>3 DEF PinsClean
  <2> QED BY <1>3, <2>2, <2>3 DEF PinsClean
<1>8. \A p : Clean(p, Bad, acts) /\ p # None =>
        /\ Dead(p, disk.pin, disk.log) => Dead(p, disk'.pin, disk'.log)
        /\ Live(p, disk.pin, disk.log) => Live(p, disk'.pin, disk'.log)
  BY <1>1, PinsMoveOn DEF LedgerInv
<1>9. CacheInv'
  <2> SUFFICES ASSUME NEW r \in Readers, cache[r] # None
               PROVE  /\ cache[r].key[1] # None
                      /\ cache[r].records = cache[r].key[1] \/ Dead(cache[r].key[1], disk'.pin, disk'.log)
    BY <1>1 DEF CacheInv
  <2>1. Clean(cache[r].key[1], Bad, acts)
    BY DEF PinsClean
  <2>2. /\ cache[r].key[1] # None
        /\ cache[r].records = cache[r].key[1] \/ Dead(cache[r].key[1], disk.pin, disk.log)
    BY DEF ReadInv, CacheInv
  <2> QED BY <1>8, <2>1, <2>2
<1>10. AskInv'
  <2> SUFFICES ASSUME NEW r \in Readers, ask[r].at # "idle"
               PROVE  LET a == ask'[r] IN
                      /\ a.at # "idle" => disk'.pin \in a.window
                      /\ a.at = "key" =>
                           /\ a.key[1] \in a.window /\ (a.key[1] # None => Live(a.key[1], disk'.pin, disk'.log))
                           /\ cache'[r] # None /\ cache'[r].key[1] = a.key[1] => cache'[r].records = a.key[1]
                      /\ a.at \in {"log", "pin", "pending"} /\ a.key # None =>
                           a.key[1] # None /\ a.key[1] \in a.window /\ Live(a.key[1], disk'.pin, disk'.log)
                      /\ a.at = "pending" => a.pin \in a.window
                      /\ a.at = "pending" /\ a.key # None =>
                           a.pin = a.key[1] \/ Dead(a.key[1], disk'.pin, disk'.log)
    BY <1>5 DEF AskInv
  <2>1. /\ ask'[r].at = ask[r].at /\ ask'[r].key = ask[r].key
        /\ ask[r].at = "pending" => ask'[r].pin = ask[r].pin
        /\ ask'[r].window = ask[r].window \cup {disk'.pin}
    BY <1>5
  <2>2. \A p \in ask[r].window : Clean(p, Bad, acts)
    BY DEF PinsClean
  <2>3. CASE ask[r].at = "key"
    <3>1. /\ ask[r].key[1] \in ask[r].window
          /\ ask[r].key[1] # None => Live(ask[r].key[1], disk.pin, disk.log)
          /\ cache[r] # None /\ cache[r].key[1] = ask[r].key[1] => cache[r].records = ask[r].key[1]
      BY <2>3 DEF ReadInv, AskInv
    <3>2. ask[r].key[1] # None => Live(ask[r].key[1], disk'.pin, disk'.log)
      BY <1>8, <2>2, <3>1
    <3> QED BY <1>1, <2>1, <2>3, <3>1, <3>2
  <2>4. CASE ask[r].at \in {"log", "pin", "pending"}
    <3>1. /\ ask[r].key # None => /\ ask[r].key[1] # None /\ ask[r].key[1] \in ask[r].window
                                  /\ Live(ask[r].key[1], disk.pin, disk.log)
          /\ ask[r].at = "pending" => ask[r].pin \in ask[r].window
          /\ ask[r].at = "pending" /\ ask[r].key # None =>
               ask[r].pin = ask[r].key[1] \/ Dead(ask[r].key[1], disk.pin, disk.log)
      BY <2>4 DEF ReadInv, AskInv
    <3>2. ask[r].key # None => Live(ask[r].key[1], disk'.pin, disk'.log)
      BY <1>8, <2>2, <3>1
    <3>3. ask[r].at = "pending" /\ ask[r].key # None =>
            ask[r].pin = ask[r].key[1] \/ Dead(ask[r].key[1], disk'.pin, disk'.log)
      BY <1>8, <2>2, <3>1
    <3> QED BY <2>1, <2>4, <3>1, <3>2, <3>3
  <2>5. ask[r].at \in {"key", "log", "pin", "pending"}
    BY AskFacts DEF ReadInv, ReadType
  <2> QED BY <2>3, <2>4, <2>5
<1> QED BY <1>1, <1>6, <1>7, <1>9, <1>10 DEF ReadInv, ReadType, AnswerInv

\* What a reader's step leaves as it is.
LEMMA ReadersMoveNothing ==
    ASSUME NEW r \in Readers, Ask(r) \/ AskKey(r) \/ AskLog(r) \/ AskPin(r) \/ AskPending(r)
    PROVE  /\ disk' = disk /\ safe' = safe /\ Bad' = Bad /\ acts' = acts /\ PinsLeft' = PinsLeft
           /\ \A q \in Readers \ {r} : ReadInv => ask'[q] = ask[q] /\ cache'[q] = cache[q] /\ answer'[q] = answer[q]
BY DEF Ask, AskKey, AskLog, AskPin, AskPending, Tell, Bad, PinsLeft, ReadInv, ReadType

\* A reader's step is right when it is right for the reader.
LEMMA OneReads ==
    ASSUME LedgerInv, PinsClean, ReadInv, NEW r \in Readers,
           Ask(r) \/ AskKey(r) \/ AskLog(r) \/ AskPin(r) \/ AskPending(r),
           ReadType',
           ask'[r].at # "idle" => /\ disk.pin \in ask'[r].window
                                  /\ \A p \in ask'[r].window : Clean(p, Bad, acts),
           ask'[r].at = "key" =>
             /\ ask'[r].key[1] \in ask'[r].window
             /\ ask'[r].key[1] # None => Live(ask'[r].key[1], disk.pin, disk.log)
             /\ cache'[r] # None /\ cache'[r].key[1] = ask'[r].key[1] => cache'[r].records = ask'[r].key[1],
           ask'[r].at \in {"log", "pin", "pending"} /\ ask'[r].key # None =>
             /\ ask'[r].key[1] # None /\ ask'[r].key[1] \in ask'[r].window
             /\ Live(ask'[r].key[1], disk.pin, disk.log),
           ask'[r].at = "pending" => ask'[r].pin \in ask'[r].window,
           ask'[r].at = "pending" /\ ask'[r].key # None =>
             ask'[r].pin = ask'[r].key[1] \/ Dead(ask'[r].key[1], disk.pin, disk.log),
           cache'[r] # None =>
             /\ Clean(cache'[r].key[1], Bad, acts)
             /\ cache'[r].key[1] # None
             /\ cache'[r].records = cache'[r].key[1] \/ Dead(cache'[r].key[1], disk.pin, disk.log),
           answer'[r] # None =>
             /\ \A p \in answer'[r].window : Clean(p, Bad, acts)
             /\ IF answer'[r].ok THEN \/ answer'[r].records # None /\ answer'[r].records \in answer'[r].window
                                      \/ answer'[r].records = <<>> /\ None \in answer'[r].window
                ELSE answer'[r].records = <<>>
    PROVE  PinsClean' /\ ReadInv'
<1>1. /\ disk' = disk /\ safe' = safe /\ Bad' = Bad /\ acts' = acts /\ PinsLeft' = PinsLeft
      /\ \A q \in Readers \ {r} : ask'[q] = ask[q] /\ cache'[q] = cache[q] /\ answer'[q] = answer[q]
  BY ReadersMoveNothing
<1>2. PinsClean'
  BY <1>1 DEF PinsClean
<1>3. CacheInv'
  BY <1>1 DEF ReadInv, CacheInv
<1>4. AnswerInv'
  BY <1>1 DEF ReadInv, AnswerInv
<1>5. AskInv'
  <2> SUFFICES ASSUME NEW q \in Readers
               PROVE  LET a == ask'[q] IN
                      /\ a.at # "idle" => disk.pin \in a.window
                      /\ a.at = "key" =>
                           /\ a.key[1] \in a.window /\ (a.key[1] # None => Live(a.key[1], disk.pin, disk.log))
                           /\ cache'[q] # None /\ cache'[q].key[1] = a.key[1] => cache'[q].records = a.key[1]
                      /\ a.at \in {"log", "pin", "pending"} /\ a.key # None =>
                           a.key[1] # None /\ a.key[1] \in a.window /\ Live(a.key[1], disk.pin, disk.log)
                      /\ a.at = "pending" => a.pin \in a.window
                      /\ a.at = "pending" /\ a.key # None =>
                           a.pin = a.key[1] \/ Dead(a.key[1], disk.pin, disk.log)
    BY <1>1 DEF AskInv
  <2>1. CASE q = r
    BY <2>1
  <2>2. CASE q # r
    <3>1. ask'[q] = ask[q] /\ cache'[q] = cache[q]
      BY <1>1, <2>2
    <3> QED BY <3>1 DEF ReadInv, AskInv
  <2> QED BY <2>1, <2>2
<1> QED BY <1>2, <1>3, <1>4, <1>5 DEF ReadInv

\* A query under way, as its reader sees it.
LEMMA Asking ==
    ASSUME TypeOK, PinsClean, ReadInv, NEW r \in Readers
    PROVE  /\ ask[r] \in Asks
           /\ cache[r] # None => cache[r] \in [key : Keys, records : Logs]
           /\ cache[r] # None =>
                /\ cache[r].key[1] # None /\ Clean(cache[r].key[1], Bad, acts)
                /\ cache[r].records = cache[r].key[1] \/ Dead(cache[r].key[1], disk.pin, disk.log)
           /\ answer[r] # None =>
                /\ \A p \in answer[r].window : Clean(p, Bad, acts)
                /\ IF answer[r].ok THEN \/ answer[r].records # None /\ answer[r].records \in answer[r].window
                                        \/ answer[r].records = <<>> /\ None \in answer[r].window
                   ELSE answer[r].records = <<>>
           /\ ask[r].at # "idle" => disk.pin \in ask[r].window /\ \A p \in ask[r].window : Clean(p, Bad, acts)
           /\ disk.pin \in AnyPin /\ disk.log \in Logs /\ disk.torn \in BOOLEAN /\ disk.pend \in AnyPin
BY DriveTypes DEF ReadInv, ReadType, CacheInv, AskInv, AnswerInv, PinsClean, AnyPin

\* The first read: what the cache holds for this pin is what it names.
LEMMA AskReads ==
    ASSUME LedgerInv, PinsClean, ReadInv, NEW r \in Readers, Ask(r) PROVE PinsClean' /\ ReadInv'
<1> DEFINE a == [at |-> "key", key |-> <<disk.pin>>, window |-> {disk.pin}]
<1>1. cache' = cache /\ answer' = answer /\ ask' = [ask EXCEPT ![r] = a]
  BY DEF Ask
<1>2. disk.pin \in AnyPin
  BY Asking DEF LedgerInv
<1>3. ask'[r] = a
  BY <1>1 DEF ReadInv, ReadType
<1>4. a \in Asks
  <2>1. <<disk.pin>> \in {<<p>> : p \in AnyPin} /\ {disk.pin} \in SUBSET AnyPin
    BY <1>2
  <2>2. a \in [at : {"key"}, key : {<<p>> : p \in AnyPin}, window : SUBSET AnyPin]
    BY <2>1
  <2> QED BY <2>2 DEF Asks
<1>5. ReadType'
  BY <1>1, <1>4 DEF ReadInv, ReadType
<1>6. ~Dead(disk.pin, disk.pin, disk.log)
  BY DEF Dead, IsStrictPrefix
<1>7. Clean(disk.pin, Bad, acts)
  BY DEF PinsClean, PinsLeft
<1>8. a.at = "key" /\ a.key[1] = disk.pin /\ a.window = {disk.pin}
  OBVIOUS
<1> HIDE DEF a
<1> QED BY <1>1, <1>3, <1>5, <1>6, <1>7, <1>8, OneReads, Asking DEF Live, LedgerInv

\* The second: a cache entry with this key tells what the pin named.
LEMMA AskKeyReads ==
    ASSUME LedgerInv, PinsClean, ReadInv, NEW r \in Readers, AskKey(r) PROVE PinsClean' /\ ReadInv'
<1> DEFINE pin == ask[r].key[1]
           key == IF pin = None \/ (disk.log = <<>> /\ ~disk.torn) THEN None ELSE Key(pin)
           told == Told(ask[r].window, cache[r].records)
           a == [at |-> "log", key |-> key, window |-> ask[r].window]
<1>1. ask[r].at = "key" /\ cache' = cache
  BY DEF AskKey
<1>2. /\ ask[r] \in [at : {"key"}, key : {<<p>> : p \in AnyPin}, window : SUBSET AnyPin]
      /\ pin \in AnyPin /\ ask[r].window \subseteq AnyPin
  <2>1. ask[r] \in [at : {"key"}, key : {<<p>> : p \in AnyPin}, window : SUBSET AnyPin]
    BY <1>1, Asking, AskFacts DEF LedgerInv
  <2> QED BY <2>1
<1>3. /\ pin \in ask[r].window
      /\ pin # None => Live(pin, disk.pin, disk.log)
      /\ cache[r] # None /\ cache[r].key[1] = pin => cache[r].records = pin
  BY <1>1 DEF ReadInv, AskInv
<1>4. CASE key # None /\ cache[r] # None /\ cache[r].key = key /\ Tell(r, told)
  <2>1. pin # None /\ cache[r].key[1] = pin
    BY <1>4 DEF Key
  <2>2. cache[r].records = pin /\ pin \in Logs
    BY <1>2, <1>3, <1>4, <2>1 DEF AnyPin
  <2>3. ask'[r] = Unasked /\ answer'[r] = told
    BY <1>4 DEF Tell, ReadInv, ReadType
  <2>4. told.ok = TRUE /\ told.window = ask[r].window /\ told.records = pin
    BY <2>2 DEF Told
  <2>5. told \in [ok : BOOLEAN, window : SUBSET AnyPin, records : Logs] /\ Unasked \in Asks
    BY <1>2, <2>2 DEF Told, Asks
  <2>6. ReadType'
    BY <1>1, <1>4, <2>5 DEF Tell, ReadInv, ReadType
  <2>7. ask'[r].at = "idle"
    BY <2>3 DEF Unasked
  <2> HIDE DEF told, pin, key
  <2> QED BY <1>1, <1>3, <2>1, <2>3, <2>4, <2>6, <2>7, OneReads, Asking DEF LedgerInv
<1>5. CASE ask' = [ask EXCEPT ![r] = a] /\ answer' = answer
  <2>1. key # None => pin # None /\ key[1] = pin /\ key \in Keys
    <3>1. disk.log \in Logs /\ disk.torn \in BOOLEAN
      BY Asking DEF LedgerInv
    <3> QED BY <1>2, <3>1 DEF Key, Keys, AnyPin
  <2>2. key \in Keys \cup {None}
    BY <2>1
  <2> HIDE DEF key
  <2>3. a \in Asks
    <3>1. a \in [at : {"log"}, key : Keys \cup {None}, window : SUBSET AnyPin]
      BY <1>2, <2>2
    <3> QED BY <3>1 DEF Asks
  <2>4. ask'[r] = a
    BY <1>5 DEF ReadInv, ReadType
  <2>5. ReadType'
    BY <1>1, <1>5, <2>3 DEF ReadInv, ReadType
  <2>6. a.at = "log" /\ a.key = key /\ a.window = ask[r].window
    OBVIOUS
  <2> HIDE DEF a, pin
  <2> QED BY <1>1, <1>3, <1>5, <2>1, <2>4, <2>5, <2>6, OneReads, Asking DEF LedgerInv
<1> QED BY <1>4, <1>5 DEF AskKey

\* The third changes nothing of what is known of the pin.
LEMMA AskLogReads ==
    ASSUME LedgerInv, PinsClean, ReadInv, NEW r \in Readers, AskLog(r) PROVE PinsClean' /\ ReadInv'
<1> DEFINE a == [at |-> "pin", key |-> ask[r].key, window |-> ask[r].window, log |-> disk.log, torn |-> disk.torn]
<1>1. ask[r].at = "log" /\ cache' = cache /\ answer' = answer /\ ask' = [ask EXCEPT ![r] = a]
  BY DEF AskLog
<1>2. ask[r] \in [at : {"log"}, key : Keys \cup {None}, window : SUBSET AnyPin]
  BY <1>1, Asking, AskFacts DEF LedgerInv
<1>3. a \in Asks
  <2>1. disk.log \in Logs /\ disk.torn \in BOOLEAN
    BY Asking DEF LedgerInv
  <2>2. a \in [at : {"pin"}, key : Keys \cup {None}, window : SUBSET AnyPin, log : Logs, torn : BOOLEAN]
    BY <1>2, <2>1
  <2> QED BY <2>2 DEF Asks
<1>4. ask'[r] = a /\ ReadType'
  BY <1>1, <1>3 DEF ReadInv, ReadType
<1>5. a.at = "pin" /\ a.key = ask[r].key /\ a.window = ask[r].window
  OBVIOUS
<1>6. ask[r].key # None =>
        ask[r].key[1] # None /\ ask[r].key[1] \in ask[r].window /\ Live(ask[r].key[1], disk.pin, disk.log)
  BY <1>1 DEF ReadInv, AskInv
<1> HIDE DEF a
<1> QED BY <1>1, <1>4, <1>5, <1>6, OneReads, Asking DEF LedgerInv

\* The fourth reads a pin of the window.
LEMMA AskPinReads ==
    ASSUME LedgerInv, PinsClean, ReadInv, NEW r \in Readers, AskPin(r) PROVE PinsClean' /\ ReadInv'
<1> DEFINE a == [at |-> "pending", key |-> ask[r].key, window |-> ask[r].window, log |-> ask[r].log,
                 torn |-> ask[r].torn, pin |-> disk.pin]
<1>1. ask[r].at = "pin" /\ cache' = cache /\ answer' = answer /\ ask' = [ask EXCEPT ![r] = a]
  BY DEF AskPin
<1>2. ask[r] \in [at : {"pin"}, key : Keys \cup {None}, window : SUBSET AnyPin, log : Logs, torn : BOOLEAN]
  BY <1>1, Asking, AskFacts DEF LedgerInv
<1>3. a \in Asks
  <2>1. disk.pin \in AnyPin
    BY Asking DEF LedgerInv
  <2>2. a \in [at : {"pending"}, key : Keys \cup {None}, window : SUBSET AnyPin, log : Logs, torn : BOOLEAN,
               pin : AnyPin]
    BY <1>2, <2>1
  <2> QED BY <2>2 DEF Asks
<1>4. ask'[r] = a /\ ReadType'
  BY <1>1, <1>3 DEF ReadInv, ReadType
<1>5. a.at = "pending" /\ a.key = ask[r].key /\ a.window = ask[r].window /\ a.pin = disk.pin
  OBVIOUS
<1>6. ask[r].key # None =>
        ask[r].key[1] # None /\ ask[r].key[1] \in ask[r].window /\ Live(ask[r].key[1], disk.pin, disk.log)
  BY <1>1 DEF ReadInv, AskInv
<1> HIDE DEF a
<1> QED BY <1>1, <1>4, <1>5, <1>6, OneReads, Asking DEF LedgerInv, Live

\* What verifies is what the pin that was read names.
LEMMA VerifiedIsPinned ==
    ASSUME NEW log \in Logs, NEW torn \in BOOLEAN, NEW pin \in AnyPin, NEW pend \in AnyPin,
           Verifiable(Verified(log, torn, pin, pend))
    PROVE  LET v == Verified(log, torn, pin, pend) IN
           /\ v.pinned \in Logs
           /\ IF pin = None THEN v.pinned = <<>> ELSE v.pinned = pin
BY DEF Verified, Verifiable, AnyPin, Logs

\* The last tells, and keeps, what the pin that was read names.
LEMMA AskPendingReads ==
    ASSUME LedgerInv, PinsClean, ReadInv, NEW r \in Readers, AskPending(r) PROVE PinsClean' /\ ReadInv'
<1> DEFINE v == Verified(ask[r].log, ask[r].torn, ask[r].pin, disk.pend)
           told == Told(ask[r].window, v.pinned)
           kept == [key |-> ask[r].key, records |-> v.pinned]
<1>1. ask[r].at = "pending"
  BY DEF AskPending
<1>2. ask[r] \in [at : {"pending"}, key : Keys \cup {None}, window : SUBSET AnyPin, log : Logs, torn : BOOLEAN,
                  pin : AnyPin]
  BY <1>1, Asking, AskFacts DEF LedgerInv
<1>3. /\ ask[r].pin \in ask[r].window
      /\ ask[r].key # None => /\ ask[r].key[1] # None /\ ask[r].key[1] \in ask[r].window
                              /\ ask[r].pin = ask[r].key[1] \/ Dead(ask[r].key[1], disk.pin, disk.log)
  BY <1>1 DEF ReadInv, AskInv
<1>4. CASE ~Verifiable(v)
  <2>1. Tell(r, Refused) /\ cache' = cache
    BY <1>4 DEF AskPending
  <2>2. ask'[r] = Unasked /\ answer'[r] = Refused
    BY <2>1 DEF Tell, ReadInv, ReadType
  <2>3. Unasked \in Asks /\ Refused \in [ok : BOOLEAN, window : SUBSET AnyPin, records : Logs]
    BY DEF Asks, Refused, Logs
  <2>4. ReadType'
    BY <2>1, <2>3 DEF Tell, ReadInv, ReadType
  <2>5. ask'[r].at = "idle" /\ Refused.ok = FALSE /\ Refused.window = {} /\ Refused.records = <<>>
    BY <2>2 DEF Unasked, Refused
  <2> QED BY <2>1, <2>2, <2>4, <2>5, OneReads, Asking DEF LedgerInv
<1>5. CASE Verifiable(v)
  <2>1. /\ Tell(r, told)
        /\ cache' = [cache EXCEPT ![r] = IF ask[r].key = None THEN @ ELSE kept]
    BY <1>5 DEF AskPending
  <2>2. v.pinned \in Logs /\ IF ask[r].pin = None THEN v.pinned = <<>> ELSE v.pinned = ask[r].pin
    BY <1>2, <1>5, VerifiedIsPinned, Asking DEF LedgerInv
  <2> HIDE DEF v
  <2>3. /\ told \in [ok : BOOLEAN, window : SUBSET AnyPin, records : Logs] /\ Unasked \in Asks
        /\ told.ok = TRUE /\ told.window = ask[r].window /\ told.records = v.pinned
    BY <1>2, <2>2 DEF Told, Asks
  <2>4. ask'[r] = Unasked /\ answer'[r] = told
    BY <2>1 DEF Tell, ReadInv, ReadType
  <2>5. cache'[r] = IF ask[r].key = None THEN cache[r] ELSE kept
    BY <2>1 DEF ReadInv, ReadType
  <2>6. /\ ask[r].key # None => kept \in [key : Keys, records : Logs]
        /\ kept.key = ask[r].key /\ kept.records = v.pinned
    BY <1>2, <2>2
  <2> HIDE DEF told, kept
  <2>7. ReadType'
    <3>1. ask' \in [Readers -> Asks]
      BY <2>1, <2>3 DEF Tell, ReadInv, ReadType
    <3>2. answer' \in [Readers -> {None} \cup [ok : BOOLEAN, window : SUBSET AnyPin, records : Logs]]
      BY <2>1, <2>3 DEF Tell, ReadInv, ReadType
    <3>3. cache' \in [Readers -> {None} \cup [key : Keys, records : Logs]]
      BY <2>1, <2>6 DEF ReadInv, ReadType
    <3> QED BY <3>1, <3>2, <3>3 DEF ReadType
  <2>8. ask'[r].at = "idle"
    BY <2>4 DEF Unasked
  <2>9. \/ told.records # None /\ told.records \in told.window
        \/ told.records = <<>> /\ None \in told.window
    BY <1>3, <2>2, <2>3, NoneAssumption
  <2>10. \A p \in ask[r].window : Clean(p, Bad, acts)
    BY <1>1, Asking DEF LedgerInv
  <2>11. cache'[r] # None =>
           /\ Clean(cache'[r].key[1], Bad, acts)
           /\ cache'[r].key[1] # None
           /\ cache'[r].records = cache'[r].key[1] \/ Dead(cache'[r].key[1], disk.pin, disk.log)
    <3>1. CASE ask[r].key = None
      BY <2>5, <3>1, Asking DEF LedgerInv
    <3>2. CASE ask[r].key # None
      BY <1>3, <2>2, <2>5, <2>6, <2>10, <3>2
    <3> QED BY <3>1, <3>2
  <2> QED BY <2>3, <2>4, <2>7, <2>8, <2>9, <2>10, <2>11, OneReads
<1> QED BY <1>4, <1>5

\* A power cut leaves no query and no cache.
LEMMA PowerCutReads ==
    ASSUME LedgerInv, DriveInv, FailInv, PinsClean, ReadInv, PowerCut PROVE PinsClean' /\ ReadInv'
<1>1. [Next]_vars
  BY DEF Next
<1>2. /\ ask' = [r \in Readers |-> Unasked] /\ cache' = [r \in Readers |-> None] /\ answer' = answer
  BY DEF PowerCut
<1>3. \A p : Clean(p, Bad, acts) => Clean(p, Bad', acts')
  BY <1>1, CleanStep
<1>4. \A r \in Readers : /\ ask'[r].at = "idle" /\ cache'[r] = None
                         /\ answer'[r] # None => \A p \in answer'[r].window : Clean(p, Bad', acts')
  BY <1>2, <1>3 DEF PinsClean, Unasked
<1>5. PinsClean'
  BY <1>1, <1>4, PinsStep DEF PinsClean
<1>6. ReadType'
  BY <1>2 DEF ReadInv, ReadType, Asks
<1>7. CacheInv' /\ AskInv'
  BY <1>4 DEF CacheInv, AskInv
<1>8. AnswerInv'
  BY <1>2 DEF ReadInv, AnswerInv
<1> QED BY <1>5, <1>6, <1>7, <1>8 DEF ReadInv

\* Nothing happens.
LEMMA SameReads ==
    ASSUME PinsClean, ReadInv, UNCHANGED vars PROVE PinsClean' /\ ReadInv'
BY DEF vars, reading, PinsClean, PinsLeft, Bad, ReadInv, ReadType, CacheInv, AskInv, AnswerInv

\* The whole of it.
ActsInv == LedgerInv /\ DriveInv /\ FailInv /\ PinsClean /\ ReadInv

\* Nothing is approved, asked or failed at first.
LEMMA InitActs == ASSUME Init PROVE ActsInv
<1>1. LedgerInv /\ DriveInv
  BY InitInv, InitDrive
<1>2. /\ failed = {} /\ acts = 0 /\ safe = disk
      /\ \A w \in Writers : job[w] = Idle
      /\ ask = [r \in Readers |-> Unasked] /\ cache = [r \in Readers |-> None]
      /\ answer = [r \in Readers |-> None]
  BY DEF Init
<1>3. Bad = {}
  BY <1>2 DEF Bad, Idle, Acting
<1>4. \A x \in ToSet(disk.log) : x.kind = "change"
  <2>1. PICK k \in 0..Observed :
          LET old == [i \in 1..k |-> Change(i)]
              pinned == IF k < 2 THEN k ELSE 1 IN
          disk = Directory(old, FALSE, IF k = 0 THEN None ELSE SubSeq(old, 1, pinned),
                           IF k > pinned THEN old ELSE None, <<>>)
    BY DEF Init
  <2>2. disk.log = [i \in 1..k |-> Change(i)]
    BY <2>1 DEF Directory
  <2> QED BY <2>2 DEF ToSet, Change, Record
<1>5. FailInv
  BY <1>2, <1>3, <1>4 DEF FailInv, Old, Idle, Acting
<1>6. Clean(disk.pin, Bad, acts)
  <2>1. CASE disk.pin # None
    <3>1. disk.pin \in Logs /\ disk.log \in Logs
      BY <1>1, <2>1, DriveTypes DEF LedgerInv
    <3>2. disk.pin # <<>>
      BY <1>1, <2>1 DEF DriveInv, DirInv, NonEmpty, PinsLeft
    <3>3. IsPrefix(disk.pin, disk.log)
      <4>1. PICK k \in 0..Observed :
              LET old == [i \in 1..k |-> Change(i)]
                  pinned == IF k < 2 THEN k ELSE 1 IN
              disk = Directory(old, FALSE, IF k = 0 THEN None ELSE SubSeq(old, 1, pinned),
                               IF k > pinned THEN old ELSE None, <<>>)
        BY DEF Init
      <4>2. k # 0 /\ disk.log = [i \in 1..k |-> Change(i)]
        BY <2>1, <4>1 DEF Directory
      <4>3. disk.log # <<>>
        BY <4>2
      <4> QED BY <1>1, <2>1, <4>3 DEF LedgerInv, PinInv, Paired
    <3>4. ToSet(disk.pin) \subseteq ToSet(disk.log)
      BY <3>1, <3>3, SetOfPrefix DEF Logs
    <3> QED BY <1>3, <1>4, <3>1, <3>2, <3>4 DEF Clean, Old
  <2> QED BY <2>1 DEF Clean
<1>7. PinsClean
  BY <1>2, <1>6 DEF PinsClean, PinsLeft, Unasked
<1>8. ReadInv
  BY <1>2 DEF ReadInv, ReadType, CacheInv, AskInv, AnswerInv, Asks, Unasked
<1> QED BY <1>1, <1>5, <1>7, <1>8 DEF ActsInv

\* Every step keeps the whole of it.
LEMMA ActsStep == ActsInv /\ [Next]_vars => ActsInv'
<1> SUFFICES ASSUME ActsInv, [Next]_vars PROVE ActsInv'
  OBVIOUS
<1>1. LedgerInv /\ DriveInv /\ FailInv /\ PinsClean /\ ReadInv
  BY DEF ActsInv
<1>2. LedgerInv' /\ DriveInv' /\ FailInv'
  BY <1>1, StepInv, DriveStep, FailStep
<1>3. PinsClean' /\ ReadInv'
  <2>1. ASSUME NEW w \in Writers, Writes(w) PROVE PinsClean' /\ ReadInv'
    BY <1>1, <1>2, <2>1, WritesRead
  <2>2. ASSUME NEW r \in Readers, Ask(r) \/ AskKey(r) \/ AskLog(r) \/ AskPin(r) \/ AskPending(r)
        PROVE PinsClean' /\ ReadInv'
    BY <1>1, <2>2, AskReads, AskKeyReads, AskLogReads, AskPinReads, AskPendingReads
  <2>3. CASE PowerCut
    BY <1>1, <2>3, PowerCutReads
  <2>4. CASE UNCHANGED vars
    BY <1>1, <2>4, SameReads
  <2> QED BY <2>1, <2>2, <2>3, <2>4 DEF Next, Writes
<1> QED BY <1>2, <1>3 DEF ActsInv

\* For any number of writers and gates: the drive, the acts that failed and
\* what the gates have read are right together.
THEOREM ActsInvariant == Spec => []ActsInv
<1>1. Init => ActsInv
  BY InitActs
<1> QED BY <1>1, ActsStep, PTL DEF Spec

\* What is approved is exactly what a human's finished act put under the pin,
\* to whoever asks, through any interruption.
THEOREM FinishedActsCount == Spec => []OnlyFinishedActsCount
<1>1. ActsInv => OnlyFinishedActsCount
  <2> SUFFICES ASSUME ActsInv PROVE OnlyFinishedActsCount
    OBVIOUS
  <2>1. LedgerInv /\ DriveInv /\ FailInv /\ PinsClean /\ ReadInv
    BY DEF ActsInv
  <2>2. TypeOK /\ CompletedActsHold /\ InterruptedIsRecognised
    BY <2>1, DriveCompletes, DriveRecognises DEF LedgerInv
  <2>3. AnswersArePinned
    BY <2>1 DEF AnswersArePinned, ReadInv, AnswerInv
  <2>4. UnpinnedNeverBlessed
    <3>1. failed \subseteq Bad
      BY DEF Bad
    <3>2. ASSUME disk.pin # None PROVE failed \cap ToSet(disk.pin) = {}
      BY <2>1, <3>1, <3>2 DEF PinsClean, PinsLeft, Clean
    <3>3. ASSUME NEW r \in Readers, answer[r] # None PROVE failed \cap ToSet(answer[r].records) = {}
      <4>1. CASE answer[r].records = <<>>
        BY <4>1, SetOfNothing
      <4>2. CASE answer[r].records # None /\ answer[r].records \in answer[r].window
        BY <2>1, <3>1, <3>3, <4>2 DEF PinsClean, Clean
      <4> QED BY <2>1, <3>3, <4>1, <4>2 DEF ReadInv, AnswerInv
    <3> QED BY <3>2, <3>3 DEF UnpinnedNeverBlessed
  <2> QED BY <2>2, <2>3, <2>4 DEF OnlyFinishedActsCount
<1> QED BY <1>1, ActsInvariant, PTL
================================================================================
