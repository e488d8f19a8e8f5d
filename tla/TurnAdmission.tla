---------------------------- MODULE TurnAdmission ----------------------------
(***************************************************************************)
(* Who may work in a session, inside one openmax process: the turns,       *)
(* compactions and reloads of crates/core/src/agent.rs and refreeze.rs     *)
(* over the shared state of state.rs (running, cancel_flags, steers,       *)
(* sessions, session_owners, message_restorations).                        *)
(*                                                                         *)
(* A turn or a compaction is two tasks: an inner one that takes the        *)
(* session's transcript out of the session map under a MessageGuard, works *)
(* on it and puts it back, and an outer one that waits for the inner one   *)
(* to return or panic and then settles the session.  A frontend may        *)
(* cancel, steer, attach to or detach from the session at any time.        *)
(*                                                                         *)
(* A transcript is the sequence of the things users said in it; what the   *)
(* model answered, the harness notes and the tool replies are left out, as *)
(* are compaction's edits.  Saves may fail.                                *)
(***************************************************************************)
EXTENDS Naturals, Sequences, SequencesExt

CONSTANTS
    Sessions,   \* session ids
    Works,      \* turns, compactions and reloads; each is used once
    None,       \* no work, no entry
    System,     \* the system prompt a transcript starts with
    Foreign,    \* what another process adds to a transcript
    MaxSteers,  \* how many steers a frontend sends
    MaxIter,    \* max_agent_iterations
    MaxForeign, \* how often another process adds to a transcript
    Kinds       \* the kinds of work the frontend starts

Steers == 1..MaxSteers
Texts == Seq(Works \cup Steers \cup {System, Foreign})
Entries == [take : Nat, text : Texts]
\* A session's work, to the frontend.
Jobs == [kind : {"turn", "compact"}, prompt : Works \cup {None}, stop : BOOLEAN, heard : BOOLEAN]

ASSUME ConstantsAssumption ==
    /\ None \notin Works /\ None \notin Sessions
    /\ None \notin Entries /\ None \notin Seq(Steers) /\ None \notin Jobs
    /\ {System, Foreign} \cap (Works \cup Steers) = {} /\ Works \cap Steers = {}
    /\ MaxSteers \in Nat /\ MaxIter \in Nat \ {0} /\ MaxForeign \in Nat
    /\ Kinds \subseteq {"turn", "compact", "reload"}

VARIABLES
    running,   \* Core::running
    token,     \* token[s]: the work whose CancelToken is in cancel_flags
    cancelled, \* the works whose token is cancelled
    steers,    \* steers[s]: Core::steers' queue for s, None without an entry
    owner,     \* owner[s]: the process's claim of s (SessionOwner), or another's
    data,      \* data[s]: s's entry in Core::sessions, None without one: the
               \* transcript (empty while taken) and the stamp of its last take
    restoring, \* restoring[s]: the guard a panicking task left to a spawned
               \* task (message_restorations), None without one
    takes,     \* TAKE_SEQ
    work,      \* work[w]: where w is, and its guard
    disk,      \* disk[s]: s's transcript on disk, empty without a file
    sent,      \* the steers the core has taken so far
    events     \* what the frontend is told, in order

vars == <<running, token, cancelled, steers, owner, data, restoring, takes,
          work, disk, sent, events>>

\* The places of an inner task at which its MessageGuard holds the transcript.
GuardPCs == {"resolve", "boundary", "judge", "request", "consult", "prune",
             "close", "commit"}
InnerPCs == {"gate", "hydrate", "build", "insert", "take"} \cup GuardPCs

\* A turn or a compaction that has been admitted and has not settled.
Live(w) == /\ work[w].kind \in {"turn", "compact"}
           /\ work[w].pc \notin {"new", "done"}
LiveIn(s) == {w \in Works : Live(w) /\ work[w].s = s}

\* Frontends wait for a reload, and do nothing else meanwhile.
Reloading == \E w \in Works : work[w].kind = "reload" /\ work[w].pc # "done"

Event(s, k, w, x) == [s |-> s, kind |-> k, w |-> w, x |-> x]
Send(e) == events' = Append(events, e)

Goto(w, l) == work' = [work EXCEPT ![w].pc = l]
GotoFor(w, l, whys) == \E why \in whys : work' = [work EXCEPT ![w].pc = l, ![w].why = why]
\* Mutant: whatever cuts a work short is taken for a cancel.
CutAnyway(w) == {"cancelled"}

\* A cancel is an outcome only of a work that was cancelled.
Cut(w) == {why \in {"cancelled"} : w \in cancelled}

Init ==
    /\ running = {} /\ cancelled = {}
    /\ token = [s \in Sessions |-> None]
    /\ steers = [s \in Sessions |-> None]
    /\ owner = [s \in Sessions |-> "free"]
    /\ data = [s \in Sessions |-> None]
    /\ restoring = [s \in Sessions |-> None]
    /\ takes = 0
    /\ work = [w \in Works |-> [kind |-> "none", s |-> None, pc |-> "new",
                 take |-> 0, text |-> <<>>, queue |-> <<>>, accepted |-> <<>>,
                 last |-> FALSE, iter |-> 0, why |-> "stop"]]
    /\ disk = [s \in Sessions |-> <<>>]
    /\ sent = 0 /\ events = <<>>

-----------------------------------------------------------------------------
(* Claims.  Another process holds a session this one has not claimed.      *)

\* attach: a claim, or the one already held, no longer to be let go of.
Attached(s) == /\ owner[s] # "foreign"
               /\ owner' = [owner EXCEPT ![s] = "held"]

\* ensure_owned: the same without taking back a detach.
Owned(s) == /\ owner[s] # "foreign"
            /\ owner' = [owner EXCEPT ![s] = IF @ = "free" THEN "held" ELSE @]

OtherProcess(s) ==
    /\ \/ owner[s] = "free" /\ owner' = [owner EXCEPT ![s] = "foreign"] /\ UNCHANGED disk
       \/ owner[s] = "foreign" /\ owner' = [owner EXCEPT ![s] = "free"] /\ UNCHANGED disk
       \/ /\ owner[s] = "foreign" /\ UNCHANGED owner
          /\ Len(SelectSeq(disk[s], LAMBDA e : e = Foreign)) < MaxForeign
          /\ disk' = [disk EXCEPT ![s] = IF @ = <<>> THEN <<System, Foreign>>
                                                     ELSE Append(@, Foreign)]
    /\ UNCHANGED <<running, token, cancelled, steers, data, restoring, takes, work, sent, events>>

-----------------------------------------------------------------------------
(* What a frontend calls.                                                  *)

\* Mutant: the mark is not looked at under the hold that sets it.
AdmitUnchecked(w, s) ==
    /\ Attached(s)
    /\ token' = [token EXCEPT ![s] = w]
    /\ running' = running \cup {s}

\* start_turn and compact_session: the claim, the token and the mark under
\* one hold of running.  Only a turn opens a steer queue.
Admit(w, s) ==
    /\ s \notin running /\ Attached(s)
    /\ token' = [token EXCEPT ![s] = w]
    /\ running' = running \cup {s}

Start(w, s) ==
    /\ ~Reloading /\ "turn" \in Kinds /\ work[w].pc = "new"
    /\ Admit(w, s)
    /\ steers' = [steers EXCEPT ![s] = <<>>]
    /\ work' = [work EXCEPT ![w].kind = "turn", ![w].s = s, ![w].pc = "gate"]
    /\ UNCHANGED <<cancelled, data, restoring, takes, disk, sent, events>>

Compact(w, s) ==
    /\ ~Reloading /\ "compact" \in Kinds /\ work[w].pc = "new"
    /\ Admit(w, s)
    /\ work' = [work EXCEPT ![w].kind = "compact", ![w].s = s, ![w].pc = "hydrate"]
    /\ UNCHANGED <<cancelled, steers, data, restoring, takes, disk, sent, events>>

\* reload_session up to its first await.
Reload(w, s) ==
    /\ ~Reloading /\ "reload" \in Kinds /\ work[w].pc = "new"
    /\ s \notin running /\ Attached(s)
    /\ work' = [work EXCEPT ![w].kind = "reload", ![w].s = s, ![w].pc = "hydrate"]
    /\ UNCHANGED <<running, token, cancelled, steers, data, restoring, takes, disk, sent, events>>

Cancel(s) ==
    /\ ~Reloading /\ token[s] # None
    /\ cancelled' = cancelled \cup {token[s]}
    /\ UNCHANGED <<running, token, steers, owner, data, restoring, takes, work, disk, sent, events>>

\* steer: refused without a queue; one that is taken is only queued.
Steer(s) ==
    /\ ~Reloading /\ sent < MaxSteers /\ steers[s] # None
    /\ sent' = sent + 1
    /\ steers' = [steers EXCEPT ![s] = Append(@, sent + 1)]
    /\ UNCHANGED <<running, token, cancelled, owner, data, restoring, takes, work, disk, events>>

Attach(s) ==
    /\ ~Reloading /\ Attached(s)
    /\ UNCHANGED <<running, token, cancelled, steers, data, restoring, takes, work, disk, sent, events>>

\* detach: now, or when the work in the session settles.  Refused, which
\* changes nothing, while another thread has the session map.
Detach(s) ==
    /\ ~Reloading
    /\ IF s \in running
         THEN owner' = [owner EXCEPT ![s] = IF @ = "held" THEN "detaching" ELSE @] /\ UNCHANGED data
         ELSE owner' = [owner EXCEPT ![s] = IF @ = "held" THEN "free" ELSE @] /\ data' = [data EXCEPT ![s] = None]
    /\ UNCHANGED <<running, token, cancelled, steers, restoring, takes, work, disk, sent, events>>

-----------------------------------------------------------------------------
(* The inner task.                                                         *)

\* user_prompt_submit: the prompt may be refused, or cancelled meanwhile.
Gate(w) ==
    /\ work[w].pc = "gate"
    /\ Goto(w, "hydrate") \/ GotoFor(w, "ended", {"blocked"} \cup Cut(w))
    /\ UNCHANGED <<running, token, cancelled, steers, owner, data, restoring, takes, disk, sent, events>>

\* ensure_session_hydrated: look, build off the loop, insert unless present.
Hydrate(w) ==
    /\ work[w].pc = "hydrate"
    /\ Goto(w, IF data[work[w].s] = None THEN "build" ELSE "take")
    /\ UNCHANGED <<running, token, cancelled, steers, owner, data, restoring, takes, disk, sent, events>>

\* build_session_data: the transcript on disk, or a fresh prompt.
Build(w) ==
    LET s == work[w].s IN
    /\ work[w].pc = "build"
    /\ \/ /\ Owned(s)
          /\ work' = [work EXCEPT ![w].pc = "insert",
                        ![w].text = IF disk[s] = <<>> THEN <<System>> ELSE disk[s]]
       \/ GotoFor(w, "ended", {"error"}) /\ UNCHANGED owner
    /\ UNCHANGED <<running, token, cancelled, steers, data, restoring, takes, disk, sent, events>>

Insert(w) ==
    LET s == work[w].s IN
    /\ work[w].pc = "insert"
    /\ data' = [data EXCEPT ![s] = IF @ = None THEN [take |-> 0, text |-> work[w].text] ELSE @]
    /\ work' = [work EXCEPT ![w].pc = "take", ![w].text = <<>>]
    /\ UNCHANGED <<running, token, cancelled, steers, owner, restoring, takes, disk, sent, events>>

\* take_messages: the transcript leaves the map, with a turn's prompt on it.
\* A compaction refuses a transcript that is out already, and gives up when
\* its endpoint does not resolve; a turn expects the session to be there.
Taken(w) == IF work[w].kind = "turn" THEN Append(data[work[w].s].text, w)
                                     ELSE data[work[w].s].text
Take(w) ==
    LET s == work[w].s IN
    /\ work[w].pc = "take"
    /\ \/ work[w].kind = "compact" /\ GotoFor(w, "ended", {"error"}) /\ UNCHANGED <<data, takes>>
       \/ /\ work[w].kind = "turn" \/ (work[w].kind = "compact" /\ data[s].text # <<>>)
          /\ data[s] # None
          /\ takes' = takes + 1
          /\ data' = [data EXCEPT ![s] = [take |-> takes + 1, text |-> <<>>]]
          /\ work' = [work EXCEPT ![w].take = takes + 1, ![w].text = Taken(w),
                        ![w].pc = IF work[w].kind = "turn" THEN "resolve" ELSE "prune"]
    /\ UNCHANGED <<running, token, cancelled, steers, owner, restoring, disk, sent, events>>

\* The rest of reload_session: a new system prompt, and the file rewritten.
Freeze(w) ==
    LET s == work[w].s IN
    /\ work[w].pc = "take" /\ work[w].kind = "reload"
    /\ Goto(w, "done")
    /\ \/ UNCHANGED disk
       \/ /\ data[s] # None /\ data[s].text # <<>>
          /\ disk' = [disk EXCEPT ![s] = data[s].text]
    /\ UNCHANGED <<running, token, cancelled, steers, owner, data, restoring, takes, sent, events>>

\* An endpoint that does not resolve ends the turn, and takes the prompt
\* the model never saw back out.
Resolve(w) ==
    /\ work[w].pc = "resolve"
    /\ \/ Goto(w, "boundary")
       \/ work' = [work EXCEPT ![w].pc = "commit", ![w].text = Front(@), ![w].why = "error"]
    /\ UNCHANGED <<running, token, cancelled, steers, owner, data, restoring, takes, disk, sent, events>>

\* Mutant: the steers are copied, not taken.
TakeSteersCopy(w) ==
    LET s == work[w].s IN
    /\ work[w].pc = "boundary"
    /\ work' = [work EXCEPT ![w].pc = "judge", ![w].queue = steers[s], ![w].accepted = <<>>]
    /\ UNCHANGED <<running, token, cancelled, steers, owner, data, restoring, takes, disk, sent, events>>

\* accept_steers, first half: the queue is taken whole, and stays open.
TakeSteers(w) ==
    LET s == work[w].s IN
    /\ work[w].pc = "boundary"
    /\ work' = [work EXCEPT ![w].pc = "judge", ![w].queue = steers[s], ![w].accepted = <<>>]
    /\ steers' = [steers EXCEPT ![s] = <<>>]
    /\ UNCHANGED <<running, token, cancelled, owner, data, restoring, takes, disk, sent, events>>

\* Each steer passes the prompt's gate, which may let it in or refuse it.
Judge(w) ==
    LET x == Head(work[w].queue) IN
    /\ work[w].pc = "judge" /\ work[w].queue # <<>> /\ w \notin cancelled
    /\ \/ /\ work' = [work EXCEPT ![w].queue = Tail(@), ![w].accepted = Append(@, x)]
          /\ UNCHANGED events
       \/ /\ work' = [work EXCEPT ![w].queue = Tail(@)]
          /\ Send(Event(work[w].s, "blocked", w, x))
    /\ UNCHANGED <<running, token, cancelled, steers, owner, data, restoring, takes, disk, sent>>

\* save_messages: the file holds the transcript, or the save failed.
Saved(s, text) == disk' \in {disk, [disk EXCEPT ![s] = text]}

\* The turn goes round again, unless that was its last request.
NextIteration(w) == IF work[w].iter + 1 < MaxIter THEN "boundary" ELSE "close"

\* accept_steers, second half: all that passed enter, unless the turn was
\* cancelled, and each is reported after the save.  After a model's answer
\* (last) one that entered sends the model round again.
AcceptSteers(w) ==
    LET s == work[w].s
        enter == work[w].accepted # <<>> /\ w \notin cancelled
        text == work[w].text \o work[w].accepted
    IN
    /\ work[w].pc = "judge" /\ (work[w].queue = <<>> \/ w \in cancelled)
    /\ IF enter
         THEN /\ Saved(s, text)
              /\ events' = events \o [i \in DOMAIN work[w].accepted |->
                                        Event(s, "accepted", w, work[w].accepted[i])]
         ELSE UNCHANGED <<disk, events>>
    /\ work' = [work EXCEPT
                  ![w].text = IF enter THEN text ELSE @,
                  ![w].queue = <<>>, ![w].accepted = <<>>, ![w].last = FALSE,
                  ![w].iter = IF work[w].last /\ enter THEN @ + 1 ELSE @,
                  ![w].why = IF work[w].last /\ w \in cancelled THEN "cancelled" ELSE @,
                  ![w].pc = CASE ~work[w].last -> "request"
                              [] work[w].last /\ enter -> "boundary"
                              [] OTHER -> IF w \in cancelled THEN "close" ELSE "consult"]
    /\ UNCHANGED <<running, token, cancelled, steers, owner, data, restoring, takes, sent>>

\* One request and the calls it asks for.  A failed or cut-off one, and a
\* cancel, end the turn; an answer without calls may be the turn's last.
Request(w) ==
    LET s == work[w].s IN
    /\ work[w].pc = "request"
    /\ Saved(s, work[w].text)
    /\ \/ GotoFor(w, "close", {"stop", "error"} \cup Cut(w))
       \/ /\ w \notin cancelled
          /\ work' = [work EXCEPT ![w].iter = @ + 1, ![w].pc = NextIteration(w)]
       \/ /\ w \notin cancelled
          /\ IF work[w].iter + 1 < MaxIter
               THEN work' = [work EXCEPT ![w].pc = "boundary", ![w].last = TRUE]
               ELSE Goto(w, "consult")
    /\ UNCHANGED <<running, token, cancelled, steers, owner, data, restoring, takes, sent, events>>

\* The turn_end gates: the turn ends, or one refuses and it goes round again.
Consult(w) ==
    /\ work[w].pc = "consult"
    /\ \/ Goto(w, "close")
       \/ work' = [work EXCEPT ![w].iter = @ + 1, ![w].pc = NextIteration(w)]
    /\ UNCHANGED <<running, token, cancelled, steers, owner, data, restoring, takes, disk, sent, events>>

\* run_compact past its take.  A save that fails reports so at once, ahead of
\* the receipt; the compaction itself may have nothing to do or fail.
Prune(w) ==
    LET s == work[w].s IN
    /\ work[w].pc = "prune" /\ GotoFor(w, "commit", {"stop", "error"})
    /\ \/ disk' = [disk EXCEPT ![s] = work[w].text] /\ UNCHANGED events
       \/ Send(Event(s, "error", w, None)) /\ UNCHANGED disk
       \/ UNCHANGED <<disk, events>>
    /\ UNCHANGED <<running, token, cancelled, steers, owner, data, restoring, takes, sent>>

\* The turn's closing save.
Close(w) ==
    /\ work[w].pc = "close" /\ Goto(w, "commit")
    /\ Saved(work[w].s, work[w].text)
    /\ UNCHANGED <<running, token, cancelled, steers, owner, data, restoring, takes, sent, events>>

\* restore_if_current
Restored(s, g) ==
    IF data[s] # None /\ data[s].take = g.take /\ data[s].text = <<>>
      THEN [data EXCEPT ![s].text = g.text] ELSE data

\* MessageGuard::commit
Commit(w) ==
    /\ work[w].pc = "commit"
    /\ data' = Restored(work[w].s, work[w])
    /\ work' = [work EXCEPT ![w].pc = "ended", ![w].text = <<>>]
    /\ UNCHANGED <<running, token, cancelled, steers, owner, restoring, takes, disk, sent, events>>

\* Mutant: the panic unwinds past the outer task.
PanicUnguarded(w) ==
    /\ work[w].kind # "reload" /\ work[w].pc \in InnerPCs
    /\ Goto(w, "lost")
    /\ UNCHANGED <<running, token, cancelled, steers, owner, data, restoring, takes, disk, sent, events>>

\* A panic anywhere in the inner task.  MessageGuard::drop puts the transcript
\* back, or leaves that to a task when another thread has the session map.
Panic(w) ==
    LET s == work[w].s
        guard == [take |-> work[w].take, text |-> work[w].text]
    IN
    /\ work[w].kind # "reload" /\ work[w].pc \in InnerPCs
    /\ IF work[w].pc \in GuardPCs
         THEN \/ data' = Restored(s, guard) /\ UNCHANGED restoring
              \/ restoring' = [restoring EXCEPT ![s] = guard] /\ UNCHANGED data
         ELSE UNCHANGED <<data, restoring>>
    /\ work' = [work EXCEPT ![w].pc = "ended", ![w].text = <<>>, ![w].queue = <<>>, ![w].accepted = <<>>,
                           ![w].why = "error"]
    /\ UNCHANGED <<running, token, cancelled, steers, owner, takes, disk, sent, events>>

\* The task a guard was left to.
Restore(s) ==
    /\ restoring[s] # None
    /\ data' = Restored(s, restoring[s])
    /\ restoring' = [restoring EXCEPT ![s] = None]
    /\ UNCHANGED <<running, token, cancelled, steers, owner, takes, work, disk, sent, events>>

-----------------------------------------------------------------------------
(* The outer task: finish_session_work.                                    *)

\* Mutant: the session settles over a pending restoration.
RestorationLeft(s) == TRUE

\* It waits for a restoration its session has pending.
RestorationOver(s) == restoring[s] = None

\* finish_detach: a session left meanwhile is let go of.
FinishDetach(s) ==
    IF owner[s] = "detaching"
      THEN owner' = [owner EXCEPT ![s] = "free"] /\ data' = [data EXCEPT ![s] = None]
      ELSE UNCHANGED <<owner, data>>

\* A turn's receipt says why it ended, a compaction's whether it did.
Receipt(w) ==
    IF work[w].kind = "turn" THEN Event(work[w].s, "done", w, work[w].why)
    ELSE Event(work[w].s, IF work[w].why = "error" THEN "error" ELSE "compacted", w, None)

\* Under one hold of the session map and of running: the token, the queue and
\* the mark go, then the claim if it was to go, and last the receipt is sent.
Settle(w) ==
    LET s == work[w].s IN
    /\ work[w].pc = "ended" /\ Live(w) /\ RestorationOver(s)
    /\ token' = [token EXCEPT ![s] = None]
    /\ steers' = [steers EXCEPT ![s] = None]
    /\ running' = running \ {s}
    /\ FinishDetach(s)
    /\ Goto(w, "done")
    /\ Send(Receipt(w))
    /\ UNCHANGED <<cancelled, restoring, takes, disk, sent>>

\* A reload whose discovery or hydration failed.
ReloadFails(w) ==
    /\ work[w].pc \in {"hydrate", "ended"} /\ work[w].kind = "reload" /\ Goto(w, "done")
    /\ UNCHANGED <<running, token, cancelled, steers, owner, data, restoring, takes, disk, sent, events>>

-----------------------------------------------------------------------------
Run(w) ==
    \/ Gate(w) \/ Hydrate(w) \/ Build(w) \/ Insert(w) \/ Take(w) \/ Freeze(w)
    \/ Resolve(w) \/ TakeSteers(w) \/ Judge(w) \/ AcceptSteers(w) \/ Request(w)
    \/ Consult(w) \/ Prune(w) \/ Close(w) \/ Commit(w) \/ Settle(w) \/ ReloadFails(w)

Call(s) ==
    \/ \E w \in Works : Start(w, s) \/ Compact(w, s) \/ Reload(w, s)
    \/ Cancel(s) \/ Steer(s) \/ Attach(s) \/ Detach(s)

Background == \/ \E w \in Works : Run(w) \/ Panic(w)
              \/ \E s \in Sessions : Restore(s) \/ OtherProcess(s)

Next == Background \/ \E s \in Sessions : Call(s)

Spec == Init /\ [][Next]_vars

\* Every await of a task returns: hooks, requests, tools and approvals have
\* timeouts, and the runtime polls a task that is ready.
Fairness == /\ \A w \in Works : WF_vars(Run(w))
            /\ \A s \in Sessions : WF_vars(Restore(s))
FairSpec == Spec /\ Fairness

-----------------------------------------------------------------------------
(* Properties.                                                             *)

Reasons == {"stop", "blocked", "cancelled", "error"}

\* Every variable has its type (the fields of Core and of MessageGuard), and
\* a turn makes at most max_agent_iterations requests.
TypeOK ==
    /\ running \subseteq Sessions /\ cancelled \subseteq Works
    /\ token \in [Sessions -> Works \cup {None}]
    /\ steers \in [Sessions -> Seq(Steers) \cup {None}]
    /\ owner \in [Sessions -> {"free", "held", "detaching", "foreign"}]
    /\ data \in [Sessions -> Entries \cup {None}]
    /\ restoring \in [Sessions -> Entries \cup {None}]
    /\ takes \in Nat /\ sent \in 0..MaxSteers
    /\ work \in [Works -> [kind : {"none", "turn", "compact", "reload"}, s : Sessions \cup {None},
                     pc : {"new", "ended", "done"} \cup InnerPCs, take : Nat, text : Texts,
                     queue : Seq(Steers), accepted : Seq(Steers), last : BOOLEAN, iter : 0..MaxIter,
                     why : Reasons]]
    /\ disk \in [Sessions -> Texts]
    /\ \A i \in DOMAIN events :
          LET e == events[i] IN
          /\ e.s \in Sessions /\ e.w \in Works
          /\ \/ e.kind = "done" /\ e.x \in Reasons
             \/ e.kind \in {"accepted", "blocked"} /\ e.x \in Steers
             \/ e.kind \in {"compacted", "error"} /\ e.x = None

\* A session is running exactly while one turn or compaction works in it, and
\* then its token is that work's, so a cancel reaches it; and it takes steers
\* exactly while that work is a turn (start_turn, compact_session and
\* finish_session_work change all three under one hold of running).
RunningIsCancellable ==
    \A s \in Sessions :
        /\ LiveIn(s) = IF s \in running THEN {token[s]} ELSE {}
        /\ token[s] # None => s \in running
        /\ steers[s] # None <=> s \in running /\ work[token[s]].kind = "turn"

\* The transcript of s this process would go on with: what is in the map, or
\* else what the session's work or a pending restoration will put back.
Transcript(s) ==
    IF data[s] = None THEN disk[s]
    ELSE IF data[s].text # <<>> THEN data[s].text
    ELSE IF restoring[s] # None THEN restoring[s].text
    ELSE LET ws == {w \in LiveIn(s) : work[w].pc \in GuardPCs}
         IN IF ws = {} THEN <<>> ELSE work[CHOOSE w \in ws : TRUE].text

\* A transcript in memory begins with all that is on disk, whatever panicked,
\* was left or was reopened: the session map never serves a stale one.
DiskBehindMemory == \A s \in Sessions : IsPrefix(disk[s], Transcript(s))

\* While a session stays in memory its transcript only grows; the one thing
\* ever taken back is the prompt of a turn whose endpoint does not resolve.
TranscriptGrows ==
    [][\A s \in Sessions : data[s] # None /\ data'[s] # None =>
          \/ IsPrefix(Transcript(s), Transcript(s)')
          \/ \E w \in Works : work[w].pc = "resolve" /\ Transcript(s) = Append(Transcript(s)', w)]_vars

\* A transcript in memory belongs to a session this process has claimed, so
\* no other process writes it meanwhile; and a session that is to be let go
\* of still has the work that will do so.
OwnedWhileLoaded ==
    \A s \in Sessions :
        /\ data[s] # None => owner[s] \in {"held", "detaching"}
        /\ owner[s] = "detaching" => s \in running

\* A turn finds its session in the map and its transcript there: run_loop's
\* "session was hydrated" never panics, and the refusals of run_compact and
\* reload_session for a transcript that is out are never needed.
HydratedAtTake ==
    \A w \in Works : work[w].pc = "take" =>
        data[work[w].s] # None /\ data[work[w].s].text # <<>>

\* At any moment a session is served by one work, which can be cancelled, on
\* a transcript that is claimed, loaded and no older than the file: what the
\* locks of start_turn, the hydration, the guard and finish_session_work are
\* for (agent.rs:983, :1307, :3056, :1048).
OneWorkOneTranscript ==
    TypeOK /\ RunningIsCancellable /\ OwnedWhileLoaded /\ HydratedAtTake /\ DiskBehindMemory

\* No steer is reported twice, and the steers that enter a session's
\* transcript do so in the order they were sent, over any number of turns.
SteersInOrder ==
    \A i, j \in DOMAIN events : i < j /\ {events[i].kind, events[j].kind} \subseteq {"accepted", "blocked"} =>
        /\ events[i].x # events[j].x
        /\ events[i].kind = "accepted" /\ events[j].kind = "accepted" /\ events[i].s = events[j].s
             => events[i].x < events[j].x

\* What TurnContract speaks of, in this state: the work of each session, the
\* steers it has not told of, and the frontend's mail.
Heard == {w \in Works : \E i \in DOMAIN events : events[i].w = w /\ events[i].kind \in {"accepted", "blocked"}}
Working == [s \in Sessions |->
    IF s \notin running THEN None
    ELSE [kind |-> work[token[s]].kind, prompt |-> IF work[token[s]].kind = "turn" THEN token[s] ELSE None,
          stop |-> token[s] \in cancelled, heard |-> token[s] \in Heard]]
Pending == [s \in Sessions |->
    IF steers[s] = None THEN <<>> ELSE work[token[s]].accepted \o work[token[s]].queue \o steers[s]]
Mailed(e) ==
    IF e.kind = "done" THEN [s |-> e.s, kind |-> e.kind, x |-> None, of |-> e.w, why |-> e.x]
    ELSE [s |-> e.s, kind |-> e.kind, x |-> e.x, of |-> None, why |-> ""]
Mail == [i \in DOMAIN events |-> Mailed(events[i])]

Contract == INSTANCE TurnContract WITH working <- Working, pending <- Pending, mail <- Mail

\* What a frontend is promised (TurnContract) is what these turns do: each
\* steer they took is told of at most once and in order, a cancelled work lets
\* none in, and the receipt comes last, once, and says why the work ended,
\* whatever panics, fails or is cancelled (agent.rs:1044, :1066).
KeepsContract == Contract!Steps

\* And an admitted work settles, whatever panics; with it a session its
\* frontend left while it was running is let go of, unless the frontend opens
\* it again (finish_session_work, agent.rs:1049).
WorkSettles ==
    /\ Contract!Settles
    /\ \A s \in Sessions : owner[s] = "detaching" ~> owner[s] # "detaching"
=============================================================================
