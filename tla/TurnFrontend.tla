------------------------------ MODULE TurnFrontend ------------------------------
(***************************************************************************)
(* The terminal app over the turns it starts: what it shows as running,    *)
(* and where the texts a user typed are while turns take them, refuse      *)
(* them, end, or are left behind for another session.                      *)
(*                                                                         *)
(* The core is TurnContract's.  A text is the set of what was typed into   *)
(* it: the composer joins the texts it is handed back, and the order of    *)
(* their lines is left out.                                                *)
(***************************************************************************)
EXTENDS TurnContract, SequencesExt

CONSTANTS
    MaxTyped,      \* bound on the texts typed
    MaxCompacts,   \* bound on the compactions asked for
    MaxMail,       \* bound on the events unread
    DeletesRunning, \* the user may delete the session shown while it works
    CompactsEarly   \* and type /compact before the last turn's end is read

VARIABLES
    app,       \* the fields of App
    made,      \* the sessions the app has created
    deleted,   \* and those it deleted
    typed, compacts,  \* how often so far
    \* history
    said,      \* the texts the core took for good
    gone,      \* the texts nobody holds: refused, or blocked in a session that was left
    insync,    \* no receipt the app has yet to read is of a work it does not know of
    brought    \* the texts left with a session though its turn may have them

front == <<made, deleted, typed, compacts>>
history == <<said, gone, insync, brought>>
vars == <<core, app, front, history>>

Texts == SUBSET (1..MaxTyped)
Jobs == [kind : {"turn", "compact"}, prompt : Texts \cup {None}, stop : BOOLEAN, heard : BOOLEAN]

ASSUME FrontendAssumption ==
    /\ MaxTyped \in Nat /\ MaxCompacts \in Nat /\ MaxMail \in Nat
    /\ DeletesRunning \in BOOLEAN /\ CompactsEarly \in BOOLEAN
    /\ None \notin Sessions /\ \A w \in Jobs : w # None

Joined(q) == UNION {q[i] : i \in DOMAIN q}

App == [shown : Sessions \cup {None}, created : BOOLEAN, running : BOOLEAN, compacting : BOOLEAN,
        queued : Seq(Texts), steered : Nat, flush : BOOLEAN,
        submit : Texts, draft : Texts, left : SUBSET Sessions]

FInit ==
    /\ Init
    /\ app = [shown |-> None, created |-> FALSE, running |-> FALSE, compacting |-> FALSE,
              queued |-> <<>>, steered |-> 0, flush |-> FALSE, submit |-> {}, draft |-> {}, left |-> {}]
    /\ made = {} /\ deleted = {} /\ typed = 0 /\ compacts = 0
    /\ said = {} /\ gone = {} /\ insync = TRUE /\ brought = {}

\* A session whose work has a receipt the app has not read.
Unread(s, m) == \E i \in DOMAIN m : m[i].s = s
Unsettled(s, m) == working[s] # None \/ Unread(s, m)

-----------------------------------------------------------------------------
(* Submitting.                                                             *)

\* return_queue_to_composer
Returned(a) ==
    IF a.queued = <<>> THEN a
    ELSE [a EXCEPT !.draft = @ \cup Joined(a.queued), !.queued = <<>>, !.steered = 0]

\* The session a prompt goes to: the one shown, or a new one.
Targets(a) ==
    IF a.shown # None THEN {a.shown} ELSE IF made = Sessions THEN {} ELSE {CHOOSE s \in Sessions : s \notin made}
Showing(a, s) == [a EXCEPT !.shown = s, !.created = @ \/ a.shown = None]

\* start_turn took the text, or refused it: another work has the session, or
\* it cannot be claimed or read.
Started(a, s, text) ==
    /\ Begin(s, "turn", text) /\ made' = made \cup {s}
    /\ app' = [Showing(a, s) EXCEPT !.running = TRUE, !.submit = text]
NotStarted(a, s) ==
    /\ UNCHANGED <<working, pending>> /\ made' = made \cup {s}
    /\ app' = Showing(a, s)

\* While something runs a text is steered into it, unless one before it was
\* not, and queued.
Steers(a) == a.shown # None /\ a.steered = Len(a.queued) /\ TakesSteers(a.shown)
Queues(a, text) ==
    /\ IF Steers(a) THEN Steer(a.shown, text) ELSE UNCHANGED <<working, pending>>
    /\ app' = [a EXCEPT !.queued = Append(@, text), !.steered = IF Steers(a) THEN @ + 1 ELSE @]

Type ==
    /\ typed < MaxTyped /\ typed' = typed + 1
    /\ app' = [app EXCEPT !.draft = @ \cup {typed + 1}]
    /\ UNCHANGED <<core, made, deleted, compacts, history>>

\* handle_submit.  A refused prompt stays in the composer's history alone.
Submit ==
    LET text == app.draft
        a == [app EXCEPT !.draft = {}] IN
    /\ text # {}
    /\ IF a.running THEN Queues(a, text) /\ UNCHANGED <<made, gone>>
       ELSE \E s \in Targets(a) :
               \/ Started(a, s, text) /\ UNCHANGED gone
               \/ NotStarted(a, s) /\ gone' = gone \cup text
    /\ UNCHANGED <<mail, deleted, typed, compacts, said, insync, brought>>

\* Up in an empty composer takes back the newest text that was not steered.
Up ==
    /\ app.draft = {} /\ Len(app.queued) > app.steered
    /\ app' = [app EXCEPT !.draft = Last(app.queued), !.queued = Front(@)]
    /\ UNCHANGED <<core, front, history>>

Esc ==
    /\ app.running /\ app.shown # None /\ Stop(app.shown)
    /\ UNCHANGED <<mail, app, front, history>>

Compact ==
    /\ compacts < MaxCompacts /\ compacts' = compacts + 1
    /\ app.shown # None /\ (Unread(app.shown, mail) => CompactsEarly)
    /\ Begin(app.shown, "compact", None)
    /\ app' = [app EXCEPT !.running = TRUE, !.compacting = TRUE]
    /\ insync' = (insync /\ ~Unread(app.shown, mail))
    /\ UNCHANGED <<mail, made, deleted, typed, said, gone, brought>>

-----------------------------------------------------------------------------
(* Leaving a session.                                                      *)

\* Mutant: what ran goes on running on screen.
LeftBehindRunning(a) ==
    LET keeps == a.created /\ a.shown # None /\ working[a.shown] # None
    IN  [Returned(a) EXCEPT !.shown = None, !.created = FALSE, !.compacting = FALSE, !.flush = FALSE,
                            !.left = IF keeps THEN @ \cup {a.shown} ELSE @]

\* reset_for_new_session: a work left running is asked to stop, and a session
\* the app created is looked at again when it settles.
LeftBehind(a) ==
    LET keeps == a.created /\ a.shown # None /\ working[a.shown] # None
    IN  [Returned(a) EXCEPT !.shown = None, !.created = FALSE, !.running = FALSE, !.compacting = FALSE,
                            !.flush = FALSE, !.left = IF keeps THEN @ \cup {a.shown} ELSE @]
Held == app.draft \cup Joined(app.queued)
Leaves ==
    /\ IF app.running /\ app.shown # None THEN Stop(app.shown) ELSE UNCHANGED <<working, pending>>
    /\ brought' = brought \cup (IF insync THEN Joined(SubSeq(app.queued, 1, app.steered)) ELSE Held)
    /\ UNCHANGED <<mail, front, said, gone>>

New == Leaves /\ app' = LeftBehind(app) /\ insync' = TRUE

\* switch_to_session: a session may be shown again while its work is ending.
Resume(s) ==
    /\ s \in made \ deleted /\ s # app.shown /\ Leaves
    /\ app' = [LeftBehind(app) EXCEPT !.shown = s, !.left = @ \ {s}]
    /\ insync' = ~Unsettled(s, mail)

\* The sessions panel deletes the session shown.
Delete ==
    /\ app.shown # None /\ (app.running => DeletesRunning) /\ Stop(app.shown)
    /\ deleted' = deleted \cup {app.shown}
    /\ app' = [app EXCEPT !.shown = None, !.created = FALSE]
    /\ UNCHANGED <<mail, made, typed, compacts, history>>

-----------------------------------------------------------------------------
(* What the app is told: on_core_event.                                    *)

\* Mutant: a steer the turn took stays in the queue.
UnqueuedNot(a, x) == a

\* A steer that was told of leaves the queue.
Unqueued(a, x) ==
    LET at == {i \in 1..a.steered : a.queued[i] = x} IN
    IF at = {} THEN a
    ELSE [a EXCEPT !.queued = RemoveAt(@, CHOOSE i \in at : \A j \in at : i <= j), !.steered = @ - 1]

\* A turn that ended well lets the queue go out; one that did not hands it
\* back, and the prompt too when a hook refused it.
Done(a, reason) ==
    LET b == [a EXCEPT !.running = FALSE, !.steered = 0, !.submit = {},
                       !.draft = IF reason = "blocked" THEN @ \cup a.submit ELSE @]
    IN  IF reason \in {"cancelled", "error", "blocked"} THEN Returned(b)
        ELSE [b EXCEPT !.flush = @ \/ b.queued # <<>>]

\* Mutant: the end of a compaction sends nothing.
CompactedIdle(a) == IF a.compacting THEN [a EXCEPT !.compacting = FALSE, !.running = FALSE] ELSE a

Compacted(a) ==
    IF a.compacting THEN [a EXCEPT !.compacting = FALSE, !.running = FALSE, !.flush = @ \/ a.queued # <<>>] ELSE a

Errored(a) == IF a.compacting THEN Returned([a EXCEPT !.compacting = FALSE, !.running = FALSE]) ELSE a

Heard(a, e) ==
    CASE e.kind = "done" -> Done(a, e.why)
      [] e.kind = "compacted" -> Compacted(a)
      [] e.kind = "error" -> Errored(a)
      [] e.kind = "accepted" -> Unqueued(a, e.x)
      [] e.kind = "blocked" -> [Unqueued(a, e.x) EXCEPT !.draft = @ \cup e.x]

\* Another session's event: one left running is let go of once it is free.
Overheard(a, s) == IF working[s] = None THEN [a EXCEPT !.left = @ \ {s}] ELSE a

\* The next queued text goes out; one that starts nothing takes the rest back
\* with it.
Flushed(a) ==
    LET text == Head(a.queued)
        b == [a EXCEPT !.flush = FALSE, !.queued = Tail(@)] IN
    IF ~a.flush \/ a.running \/ a.queued = <<>>
    THEN app' = [a EXCEPT !.flush = FALSE] /\ UNCHANGED <<working, pending, made>>
    ELSE \E s \in Targets(b) :
            \/ Started(b, s, text)
            \/ NotStarted(Returned([a EXCEPT !.flush = FALSE]), s)

\* A refused prompt nobody puts back: its session was left.
Lost(e) ==
    IF e.kind = "done" /\ e.why = "blocked" /\ (e.s # app.shown \/ app.submit # e.of) THEN e.of
    ELSE IF e.kind = "blocked" /\ e.s # app.shown THEN e.x ELSE {}

Read ==
    LET e == Head(mail) IN
    /\ mail # <<>> /\ mail' = Tail(mail)
    /\ Flushed(IF e.s = app.shown THEN Heard(app, e) ELSE Overheard(app, e.s))
    /\ insync' = (insync /\ ~(e.s = app.shown /\ e.kind = "error" /\ app.compacting /\ Unsettled(e.s, Tail(mail))))
    /\ gone' = gone \cup Lost(e)
    /\ UNCHANGED <<deleted, typed, compacts, said, brought>>

-----------------------------------------------------------------------------
(* The core's steps.                                                       *)

\* An error told of within a turn only writes a line, so only one within a
\* compaction is told, and once at a time.
CoreWorks(s) ==
    /\ \/ Accept(s) \/ Refuse(s) \/ Settle(s)
       \/ working[s] # None /\ working[s].stop /\ Forget(s)
       \/ working[s] # None /\ working[s].kind = "compact" /\ ~Unread(s, mail) /\ Fail(s)
    /\ Len(mail') <= MaxMail
    /\ LET told == {mail'[i] : i \in Len(mail) + 1 .. Len(mail')} IN
       said' = said \cup UNION {IF e.kind = "accepted" THEN e.x
                                ELSE IF e.kind = "done" /\ e.why # "blocked" THEN e.of ELSE {} : e \in told}
    /\ UNCHANGED <<app, made, deleted, typed, compacts, gone, insync, brought>>

FNext ==
    \/ Type \/ Submit \/ Up \/ Esc \/ Compact \/ New \/ Delete \/ Read
    \/ \E s \in Sessions : Resume(s) \/ CoreWorks(s)
FSpec == FInit /\ [][FNext]_vars /\ WF_vars(Read) /\ \A s \in Sessions : WF_vars(CoreWorks(s) /\ Settle(s))

-----------------------------------------------------------------------------
(* Properties.                                                             *)

FTypeOK ==
    /\ app \in App /\ (app.shown # None => app.shown \in made)
    /\ deleted \subseteq made /\ typed <= MaxTyped

\* The steers sent to the running turn are the oldest of the queue, where
\* each thing told of a steer looks them up (app.rs:362, :3246).
SteersAreQueued == app.steered <= Len(app.queued)

\* The app shows a turn or a compaction as running only while one works in
\* the session shown or its receipt is on the way (app.rs:2999, :3274).
SpinnerTrue == app.running => app.shown # None /\ Unsettled(app.shown, mail)

\* And shows none only when none works there: but for a session shown again
\* before its work settled, and a compaction told of an error before its
\* receipt (app.rs:3355).
IdleTrue == insync /\ app.shown # None /\ ~app.running => working[app.shown] = None

\* A session that was left is let go of when the last it tells is read.
LeftSettles == \A s \in app.left : Unsettled(s, mail)

\* What the app believes of the core is so, whatever is on its way to it.
ShowsWhatIs == FTypeOK /\ SpinnerTrue /\ IdleTrue /\ LeftSettles

\* No text is lost: it is in the composer, the queue or a turn, the core has
\* it, or the user was told it was refused (app.rs:2937).
InTurns == UNION {IF working[s] # None /\ working[s].kind = "turn" THEN working[s].prompt ELSE {} : s \in Sessions}
OnTheWay == UNION {IF mail[i].kind = "blocked" THEN mail[i].x
                   ELSE IF mail[i].why = "blocked" THEN mail[i].of ELSE {} : i \in DOMAIN mail}
TextsKept == 1..typed \subseteq Held \cup InTurns \cup OnTheWay \cup said \cup gone

\* No text goes to the core twice: what the composer and the queue hold the
\* core does not have, but for a steer on its way out of the queue, and what
\* came back from a session that was left.
Accepted == UNION {IF mail[i].kind = "accepted" THEN mail[i].x ELSE {} : i \in DOMAIN mail}
SentOnce == insync => (Held \cap (said \cup InTurns)) \subseteq (brought \cup Accepted)

\* Each text typed reaches the core once, or comes back, or was refused to
\* the user's face; and the queue knows which of its texts the turn has.
TextsReachOnce == SteersAreQueued /\ TextsKept /\ SentOnce

\* What is queued goes out or comes back: no receipt leaves it behind
\* (app.rs:2921).
QueueDrains == app.queued # <<>> ~> app.queued = <<>>
=============================================================================
