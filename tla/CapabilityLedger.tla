--------------------------- MODULE CapabilityLedger ---------------------------
(***************************************************************************)
(* The capability ledger of crates/core/src/ledger.rs: a project's log of  *)
(* approvals, chained by hash, with the pin that names its last record     *)
(* (chain-head) and the pin an append is about to make (chain-head.pending)*)
(* beside it.  Processes append and repair under the ledger's flock;       *)
(* the gates read without it, through a cache.  Writes fail, processes die *)
(* between two of them and the power goes.                                 *)
(*                                                                         *)
(* A hash names a record and, through the chain, everything before it, so  *)
(* a head is the log up to it, and <<>> the head of no records.            *)
(***************************************************************************)
EXTENDS Naturals, Sequences, SequencesExt, FiniteSets

CONSTANTS
    Writers,   \* processes that approve, retire and repair
    Readers,   \* processes whose gates ask what is approved
    Paths,     \* where capability files are
    Contents,  \* what they may hold; hooks of different shapes
    None,
    Observed,  \* how many change records an earlier build left past the pin
    Acts,      \* which of "approve", "forget" and "repair" are called
    MaxActs,   \* how many records are written
    MaxFaults, \* how many writes fail
    MaxCuts    \* how many deaths and power cuts there are

ASSUME ConstantsAssumption ==
    /\ None \notin Writers
    /\ Acts \subseteq {"approve", "forget", "repair"}
    /\ {Observed, MaxActs, MaxFaults, MaxCuts} \subseteq Nat

VARIABLES
    disk,    \* the ledger's directory
    safe,    \* what of it a power cut leaves
    lock,    \* the writer that holds ledger.lock
    job,     \* what each writer is doing
    ask,     \* what each reader has read of its query so far
    cache,   \* each reader's approval_cache entry for the project
    answer,  \* what each reader was told last
    done,    \* the records of the acts that returned Ok
    failed,  \* those of the acts that did not reach the pin
    acts, faults, cuts \* how often the bounded things happened

reading == <<ask, cache, answer>>
bounds == <<faults, cuts>>
vars == <<disk, safe, lock, job, reading, done, failed, acts, bounds>>

\* log.jsonl (<<>> when it is missing) and whether it ends in a torn line,
\* the two pins, and the logs that repairs set aside.
Directory(log, torn, pin, pend, quar) ==
    [log |-> log, torn |-> torn, pin |-> pin, pend |-> pend, quar |-> quar]

Record(kind, path, sha, n) == [kind |-> kind, path |-> path, sha |-> sha, n |-> n]
Change(n) == Record("change", None, None, n)
Idle == [at |-> "idle"]
Unasked == [at |-> "idle"]

Init ==
    /\ \E k \in 0..Observed :
         LET old == [i \in 1..k |-> Change(i)]
             pinned == IF k < 2 THEN k ELSE 1 IN
         disk = Directory(old, FALSE, IF k = 0 THEN None ELSE SubSeq(old, 1, pinned),
                          IF k > pinned THEN old ELSE None, <<>>)
    /\ safe = disk
    /\ lock = None /\ job = [w \in Writers |-> Idle]
    /\ ask = [r \in Readers |-> Unasked] /\ cache = [r \in Readers |-> None]
    /\ answer = [r \in Readers |-> None]
    /\ done = {} /\ failed = {} /\ acts = 0 /\ faults = 0 /\ cuts = 0

------------------------------------------------------------------------------
(* Verification *)

\* Mutant: an interrupted append's records count too.
VerifiedWhole(log, torn, pin, pend) ==
    IF ~torn /\ pin # None /\ log # <<>> /\ (pin = log \/ pend = log)
    THEN [pin |-> IF pin = log THEN "matches" ELSE "interrupted", pinned |-> log]
    ELSE [pin |-> IF torn THEN "unreadable" ELSE IF pin = None /\ log = <<>> THEN "fresh"
                  ELSE "tampered", pinned |-> <<>>]

\* read_verified of what was read: how the log stands to its pin, and how much
\* of it the pin covers.
Verified(log, torn, pin, pend) ==
    CASE torn -> [pin |-> "unreadable", pinned |-> <<>>]
      [] ~torn /\ pin = None /\ log = <<>> -> [pin |-> "fresh", pinned |-> <<>>]
      [] ~torn /\ pin # None /\ pin = log -> [pin |-> "matches", pinned |-> log]
      [] ~torn /\ pin # None /\ pin # log /\ log # <<>> /\ pend = log /\ IsPrefix(pin, log) ->
           [pin |-> "interrupted", pinned |-> pin]
      [] OTHER -> [pin |-> "tampered", pinned |-> <<>>]

OnDisk == Verified(disk.log, disk.torn, disk.pin, disk.pend)
Verifiable(v) == v.pin \in {"matches", "fresh", "interrupted"}

\* unpinned_authority: the tail past the pin grants or retires something.
UnpinnedAuthority(log, v) ==
    \E i \in Len(v.pinned) + 1..Len(log) : log[i].kind # "change"

\* approvals_from: the contents ever approved, and each path's live shape.
ApprovalsFrom(records) ==
    FoldLeft(LAMBDA a, r :
        CASE r.kind = "approval" ->
               [hashes |-> a.hashes \cup {r.sha}, live |-> [a.live EXCEPT ![r.path] = r.sha]]
          [] r.kind = "retired" -> [a EXCEPT !.live[r.path] = None]
          [] OTHER -> a,
        [hashes |-> {}, live |-> [p \in Paths |-> None]], records)

------------------------------------------------------------------------------
(* Appends, under the lock *)

Fails == faults < MaxFaults /\ faults' = faults + 1
Goes == UNCHANGED faults
To(w, at) == job' = [job EXCEPT ![w].at = at]

\* A step that moves the pin widens the window of every query under way, which
\* is what the pin was since the query began.
Watched ==
    /\ ask' = [r \in Readers |-> IF ask[r].at = "idle" THEN ask[r]
                                 ELSE [ask[r] EXCEPT !.window = @ \cup {disk'.pin}]]
    /\ UNCHANGED <<cache, answer>>

\* with_lock waits for the flock ...
Acquire(w) == lock = None /\ lock' = w

\* ... and its closure returns, and the lock with it.
Return(w) == lock' = None /\ job' = [job EXCEPT ![w] = Idle]

\* Ok, with a record or without.
Succeed(w, records) == Return(w) /\ done' = done \cup records /\ UNCHANGED failed

\* An error after the record was chained.
Fail(w) == Return(w) /\ failed' = failed \cup {job[w].record} /\ UNCHANGED done

\* approve and forget_capability up to the append: a log that does not verify,
\* or that carries authority nobody vouched for, is refused; nothing new is
\* nothing to write.
Vouch(w) ==
    /\ Acquire(w) /\ job[w].at = "idle" /\ acts < MaxActs
    /\ LET v == OnDisk
           known == ApprovalsFrom(v.pinned) IN
       /\ Verifiable(v) /\ ~UnpinnedAuthority(disk.log, v)
       /\ \E p \in Paths :
            \E record \in
                 {Record("approval", p, c, acts + 1) :
                    c \in {c \in Contents : "approve" \in Acts
                                            /\ (c \notin known.hashes \/ known.live[p] # c)}}
                 \cup {Record("retired", p, None, acts + 1) :
                         x \in {x \in {p} : "forget" \in Acts /\ known.live[x] # None}} :
              job' = [job EXCEPT ![w] = [at |-> "pend", record |-> record,
                                         head |-> Append(disk.log, record)]]
    /\ acts' = acts + 1
    /\ UNCHANGED <<disk, safe, reading, done, failed, bounds>>

\* append_chained's first write: the pin to come, durable before the records.
WritePending(w) ==
    /\ job[w].at = "pend"
    /\ \/ /\ disk' = [disk EXCEPT !.pend = job[w].head]
          /\ safe' = disk'
          /\ To(w, "append") /\ Goes /\ UNCHANGED <<lock, done, failed>>
       \/ Fails /\ Fail(w) /\ UNCHANGED <<disk, safe>>
    /\ UNCHANGED <<reading, acts, cuts>>

\* The records, which may stop part way through a line.  One that stops before
\* the newline reads as a whole record, as when the barrier fails.
AppendRecord(w) ==
    /\ job[w].at = "append"
    /\ \/ /\ disk' = [disk EXCEPT !.log = job[w].head]
          /\ To(w, "flush") /\ Goes /\ UNCHANGED <<lock, done, failed>>
       \/ /\ Fails /\ Fail(w)
          /\ disk' \in {disk, [disk EXCEPT !.torn = TRUE]}
    /\ UNCHANGED <<safe, reading, acts, cuts>>

\* Mutant: without the barrier.
FlushNothing(w) ==
    /\ job[w].at = "flush" /\ To(w, "pin")
    /\ UNCHANGED <<disk, safe, lock, reading, done, failed, acts, bounds>>

\* The barrier between the records and the pin.
Flush(w) ==
    /\ job[w].at = "flush"
    /\ \/ /\ safe' = [safe EXCEPT !.log = disk.log]
          /\ To(w, "pin") /\ Goes /\ UNCHANGED <<lock, done, failed>>
       \/ Fails /\ Fail(w) /\ UNCHANGED safe
    /\ UNCHANGED <<disk, reading, acts, cuts>>

\* The pin, with the directory that names the log.  It is durable when
\* write_atomic returns, as sync_all makes it; append_chained asks no such thing
\* of it, and on Apple, where sync is only a barrier, a cut after the act may
\* still bring the old pin back beside the pending one.
Pin(w) ==
    /\ job[w].at = "pin"
    /\ \/ /\ disk' = [disk EXCEPT !.pin = job[w].head]
          /\ safe' = [safe EXCEPT !.pin = job[w].head]
          /\ To(w, "clear") /\ Goes /\ UNCHANGED <<lock, done, failed>>
       \/ Fails /\ Fail(w) /\ UNCHANGED <<disk, safe>>
    /\ Watched /\ UNCHANGED <<acts, cuts>>

\* The pending pin goes, unless the disk refuses, which nothing looks at.
Clear(w) ==
    /\ job[w].at = "clear" /\ Succeed(w, {job[w].record})
    /\ \/ disk' = [disk EXCEPT !.pend = None] /\ Goes
       \/ Fails /\ UNCHANGED disk
    /\ UNCHANGED <<safe, reading, acts, cuts>>

------------------------------------------------------------------------------
(* Repairs, under the lock *)

\* repair's decision, which repair_plan shows the human first.
Repair(w) ==
    /\ "repair" \in Acts /\ Acquire(w) /\ job[w].at = "idle"
    /\ LET v == OnDisk IN
       /\ v.pin \notin {"matches", "fresh"}
       /\ job' = [job EXCEPT ![w] =
            [at   |-> IF ~Verifiable(v) THEN "quarantine"
                      ELSE IF UnpinnedAuthority(disk.log, v) THEN "tail" ELSE "repin",
             head |-> v.pinned]]
    /\ UNCHANGED <<disk, safe, reading, done, failed, acts, bounds>>

\* A tail of observations is vouched for.
Repin(w) ==
    /\ job[w].at = "repin"
    /\ \/ /\ disk' = [disk EXCEPT !.pin = disk.log] /\ safe' = [safe EXCEPT !.pin = disk.log]
          /\ To(w, "cleared") /\ Goes /\ UNCHANGED lock
       \/ Fails /\ Return(w) /\ UNCHANGED <<disk, safe>>
    /\ Watched /\ UNCHANGED <<done, failed, acts, cuts>>

\* Mutant: the prefix first.
QuarantineTailAfter(w) ==
    /\ job[w].at = "tail"
    /\ \/ /\ disk' = [disk EXCEPT !.log = job[w].head] /\ safe' = [safe EXCEPT !.log = job[w].head]
          /\ To(w, "prefix") /\ Goes /\ UNCHANGED lock
       \/ Fails /\ Return(w) /\ UNCHANGED <<disk, safe>>
    /\ UNCHANGED <<reading, done, failed, acts, cuts>>

\* quarantine_tail_locked: an authority tail is set aside, in a file of its
\* own first ...
QuarantineTail(w) ==
    /\ job[w].at = "tail"
    /\ \/ /\ disk' = [disk EXCEPT !.quar = Append(@, ToSet(disk.log) \ ToSet(job[w].head))]
          /\ safe' = [safe EXCEPT !.quar = disk'.quar]
          /\ To(w, "prefix") /\ Goes /\ UNCHANGED lock
       \/ Fails /\ Return(w) /\ UNCHANGED <<disk, safe>>
    /\ UNCHANGED <<reading, done, failed, acts, cuts>>

\* ... and then out of the log.
KeepPrefix(w) ==
    /\ job[w].at = "prefix"
    /\ \/ /\ disk' = [disk EXCEPT !.log = job[w].head] /\ safe' = [safe EXCEPT !.log = job[w].head]
          /\ To(w, "cleared") /\ Goes /\ UNCHANGED lock
       \/ Fails /\ Return(w) /\ UNCHANGED <<disk, safe>>
    /\ UNCHANGED <<reading, done, failed, acts, cuts>>

\* A log that does not verify is renamed away, when there is one.  No rename
\* here is synced.
Quarantine(w) ==
    /\ job[w].at = "quarantine"
    /\ \/ /\ disk' = IF disk.log = <<>> /\ ~disk.torn THEN disk
                     ELSE [disk EXCEPT !.log = <<>>, !.torn = FALSE,
                                       !.quar = Append(@, ToSet(disk.log))]
          /\ To(w, "unpin") /\ Goes /\ UNCHANGED lock
       \/ Fails /\ Return(w) /\ UNCHANGED disk
    /\ UNCHANGED <<safe, reading, done, failed, acts, cuts>>

\* Mutant: the pin stays.
UnpinNothing(w) ==
    /\ job[w].at = "unpin" /\ To(w, "cleared")
    /\ UNCHANGED <<disk, safe, lock, reading, done, failed, acts, bounds>>

\* Its pin too, as well as can be.
Unpin(w) ==
    /\ job[w].at = "unpin" /\ To(w, "cleared")
    /\ \/ disk' = [disk EXCEPT !.pin = None] /\ Goes
       \/ Fails /\ UNCHANGED disk
    /\ Watched /\ UNCHANGED <<safe, lock, done, failed, acts, cuts>>

\* And the pending pin: the repair is over.
Repaired(w) ==
    /\ job[w].at = "cleared" /\ Return(w)
    /\ \/ disk' = [disk EXCEPT !.pend = None] /\ Goes
       \/ Fails /\ UNCHANGED disk
    /\ UNCHANGED <<safe, reading, done, failed, acts, cuts>>

------------------------------------------------------------------------------
(* What a gate asks, without the lock *)

\* approvals: first the pin of the key.  window is what the pin was meanwhile.
Ask(r) ==
    /\ ask[r].at = "idle"
    /\ ask' = [ask EXCEPT ![r] = [at |-> "key", key |-> <<disk.pin>>, window |-> {disk.pin}]]
    /\ UNCHANGED <<disk, safe, lock, job, cache, answer, done, failed, acts, bounds>>

Tell(r, a) ==
    /\ answer' = [answer EXCEPT ![r] = a]
    /\ ask' = [ask EXCEPT ![r] = Unasked]

Told(window, records) == [ok |-> TRUE, window |-> window, records |-> records]
Refused == [ok |-> FALSE, window |-> {}, records |-> <<>>]

\* What a cache entry is good for: the pin and the log's bytes.
Key(pin) == <<pin, disk.log, disk.torn>>

\* Then its log, which may be what the cache has verified before.
AskKey(r) ==
    /\ ask[r].at = "key"
    /\ LET pin == ask[r].key[1]
           key == IF pin = None \/ (disk.log = <<>> /\ ~disk.torn) THEN None ELSE Key(pin) IN
       IF key # None /\ cache[r] # None /\ cache[r].key = key
       THEN Tell(r, Told(ask[r].window, cache[r].records))
       ELSE /\ ask' = [ask EXCEPT ![r] = [at |-> "log", key |-> key, window |-> ask[r].window]]
            /\ UNCHANGED answer
    /\ UNCHANGED <<disk, safe, lock, job, cache, done, failed, acts, bounds>>

\* read_verified: the log ...
AskLog(r) ==
    /\ ask[r].at = "log"
    /\ ask' = [ask EXCEPT ![r] = [at |-> "pin", key |-> @.key, window |-> @.window,
                                  log |-> disk.log, torn |-> disk.torn]]
    /\ UNCHANGED <<disk, safe, lock, job, cache, answer, done, failed, acts, bounds>>

\* ... its pin ...
AskPin(r) ==
    /\ ask[r].at = "pin"
    /\ ask' = [ask EXCEPT ![r] = [at |-> "pending", key |-> @.key, window |-> @.window,
                                  log |-> @.log, torn |-> @.torn, pin |-> disk.pin]]
    /\ UNCHANGED <<disk, safe, lock, job, cache, answer, done, failed, acts, bounds>>

\* ... and the pending pin; then the answer, which the cache keeps.
AskPending(r) ==
    /\ ask[r].at = "pending"
    /\ LET v == Verified(ask[r].log, ask[r].torn, ask[r].pin, disk.pend) IN
       IF Verifiable(v)
       THEN /\ Tell(r, Told(ask[r].window, v.pinned))
            /\ cache' = [cache EXCEPT ![r] =
                 IF ask[r].key = None THEN @ ELSE [key |-> ask[r].key, records |-> v.pinned]]
       ELSE Tell(r, Refused) /\ UNCHANGED cache
    /\ UNCHANGED <<disk, safe, lock, job, done, failed, acts, bounds>>

------------------------------------------------------------------------------
(* Cuts *)

\* A writer dies, in the middle of a line when it was appending.
Die(w) ==
    /\ job[w].at # "idle" /\ cuts < MaxCuts /\ cuts' = cuts + 1
    /\ Return(w)
    /\ disk' \in {disk} \cup (IF job[w].at = "append" THEN {[disk EXCEPT !.torn = TRUE]} ELSE {})
    /\ failed' = IF job[w].at \in {"pend", "append", "flush", "pin"}
                 THEN failed \cup {job[w].record} ELSE failed
    /\ UNCHANGED <<safe, reading, done, acts, faults>>

\* What a power cut may leave of the log: what is synced, or more of what was
\* appended, or the log a rename took away.
LogsLeft ==
    {<<disk.log, disk.torn, disk.quar>>, <<safe.log, safe.torn, safe.quar>>}
    \cup (IF IsStrictPrefix(safe.log, disk.log) THEN {<<safe.log, TRUE, disk.quar>>} ELSE {})

\* The power goes: every process dies, and nothing unsynced is sure to be left.
PowerCut ==
    /\ cuts < MaxCuts /\ cuts' = cuts + 1
    /\ \E l \in LogsLeft, pin \in {disk.pin, safe.pin}, pend \in {disk.pend, safe.pend} :
         disk' = Directory(l[1], l[2], pin, pend, l[3])
    /\ safe' = disk'
    /\ lock' = None /\ job' = [w \in Writers |-> Idle]
    /\ failed' = failed \cup {job[w].record : w \in {w \in Writers :
                                  job[w].at \in {"pend", "append", "flush", "pin"}}}
    /\ ask' = [r \in Readers |-> Unasked] /\ cache' = [r \in Readers |-> None]
    /\ UNCHANGED <<answer, done, acts, faults>>

------------------------------------------------------------------------------
Next ==
    \/ \E w \in Writers :
         \/ Vouch(w) \/ WritePending(w) \/ AppendRecord(w) \/ Flush(w) \/ Pin(w) \/ Clear(w)
         \/ Repair(w) \/ Repin(w) \/ QuarantineTail(w) \/ KeepPrefix(w)
         \/ Quarantine(w) \/ Unpin(w) \/ Repaired(w) \/ Die(w)
    \/ \E r \in Readers : Ask(r) \/ AskKey(r) \/ AskLog(r) \/ AskPin(r) \/ AskPending(r)
    \/ PowerCut

Spec == Init /\ [][Next]_vars
------------------------------------------------------------------------------
(* Properties *)

Kinds == {"approval", "retired", "change"}
Records == [kind : Kinds, path : Paths \cup {None}, sha : Contents \cup {None},
            n : 1..MaxActs + Observed]
Logs == Seq(Records)
ASSUME NoneAssumption == None \notin Logs
Directories == [log : Logs, torn : BOOLEAN, pin : Logs \cup {None}, pend : Logs \cup {None},
                quar : Seq(SUBSET Records)]
Jobs == {Idle}
        \cup [at : {"pend", "append", "flush", "pin", "clear"}, record : Records, head : Logs]
        \cup [at : {"repin", "tail", "prefix", "quarantine", "unpin", "cleared"}, head : Logs]

\* The state has its shape, and the lock is held exactly by the writer that is
\* between two of its steps.
TypeOK ==
    /\ disk \in Directories /\ safe \in Directories
    /\ job \in [Writers -> Jobs]
    /\ done \subseteq Records /\ failed \subseteq Records
    /\ acts \in 0..MaxActs /\ faults \in 0..MaxFaults /\ cuts \in 0..MaxCuts
    /\ \A w \in Writers : (job[w].at = "idle") <=> (lock # w)

\* What a directory has of records, the logs set aside included.
Held(d) == ToSet(d.log) \cup UNION ToSet(d.quar)

\* "The records are flushed before the pin moves, so the pin can never name a
\* record the log does not have": whatever was cut short or failed, a log that
\* is there begins with the history its pin names (append_chained).
PinNamesLog ==
    \A d \in {disk, safe} : d.pin # None /\ d.log # <<>> => IsPrefix(d.pin, d.log)

\* An approval or a retirement that returned Ok is still on record, and still
\* pinned unless a repair has set it aside (append_chained, repair).
CompletedActsHold ==
    /\ done \subseteq Held(disk)
    /\ Verifiable(OnDisk) =>
         done \ UNION ToSet(disk.quar) \subseteq ToSet(OnDisk.pinned)

\* An act that did not get to its pin never gets one, not from the next append
\* nor from a repair, and no gate hears of it
\* (refuse_unpinned_authority, "repair never blesses").
UnpinnedNeverBlessed ==
    /\ disk.pin # None => failed \cap ToSet(disk.pin) = {}
    /\ \A r \in Readers : answer[r] # None => failed \cap ToSet(answer[r].records) = {}

\* What a gate is told was approved when it asked: it is what some pin named
\* between the query's first read and its last, however appends, repairs and
\* the cache interleaved with its four reads (approvals).
AnswersArePinned ==
    \A r \in Readers :
        answer[r] # None /\ answer[r].ok =>
            \/ answer[r].records \in answer[r].window
            \/ answer[r].records = <<>> /\ None \in answer[r].window

\* A death or an error after the first pin reads as an interrupted append, not
\* as tampering: with nobody at work, a log and a pin that are whole verify.
\* Only a tail of an earlier build's observations can lose its pending pin to
\* the append after it.
InterruptedIsRecognised ==
    /\ lock = None /\ ~disk.torn /\ disk.log # <<>> /\ disk.pin # None
    /\ \A i \in Len(disk.pin) + 1..Len(disk.log) : disk.log[i].kind # "change"
    => Verifiable(OnDisk)

\* What is approved is exactly what a human's finished act put under the pin,
\* to whoever asks, through any interruption (ledger.rs:527, :732).
OnlyFinishedActsCount ==
    TypeOK /\ CompletedActsHold /\ UnpinnedNeverBlessed /\ AnswersArePinned /\ InterruptedIsRecognised

\* No step, and no power cut, takes a record off the drive that was on it:
\* a repair sets records aside and deletes none (repair, quarantine_tail_locked).
NothingDestroyed == [][Held(safe) \subseteq Held(safe')]_vars

\* A repair that runs to its end leaves a ledger that takes appends again:
\* verified, and with no authority past the pin (repair).
RepairHeals ==
    [][\A w \in Writers : job[w].at = "cleared" /\ job'[w].at = "idle"
                           /\ faults' = 0 /\ cuts' = cuts =>
         LET v == Verified(disk'.log, disk'.torn, disk'.pin, disk'.pend) IN
         v.pin \in {"matches", "fresh"}]_vars

\* What ledger.rs:527 says of append_chained: "Append chained lines and move
\* the pin in an order no crash can turn into a false tamper report".
NoFalseTamper == lock = None => OnDisk.pin # "tampered"
=============================================================================
