---------------------------- MODULE TurnTranscript ----------------------------
(***************************************************************************)
(* One session's conversation, in memory and on disk: what a turn of       *)
(* crates/core/src/agent.rs does to it (run_loop, narrate_approval_policy, *)
(* accept_steers, MessageGuard), how sessions.rs saves it with its index   *)
(* entry's boundaries, what hydration repairs, the prune of compaction.rs  *)
(* with its commit, and the prompt /reload replaces (refreeze.rs).         *)
(*                                                                         *)
(* One work at a time has the session (TurnAdmission) and one process      *)
(* holds it (SessionStore), so the steps here are those of one actor, cut  *)
(* by failing writes, panics, process deaths and power cuts.  A save and   *)
(* the index write it may bring are one step: a death between the two is   *)
(* one that follows an index write that failed.                            *)
(***************************************************************************)
EXTENDS TranscriptOps, Integers

CONSTANTS
    Starts,     \* what the session may start as: "new", or left by an earlier build
    MaxCalls,   \* how many calls an assistant message carries
    MaxMade,    \* how many messages are written
    MaxFaults,  \* how many writes fail
    MaxDeaths,  \* how many panics, deaths and power cuts there are
    MaxChanges  \* how many mode changes a turn narrates

ASSUME ConstantsAssumption ==
    /\ Starts \subseteq {"new", "stray", "bare", "shortened"}
    /\ {Keep, Whole, MaxCalls, MaxMade, MaxFaults, MaxDeaths, MaxChanges} \subseteq Nat
    /\ MaxMade >= 1

VARIABLES
    file,      \* <id>.jsonl, empty when there is none
    synced,    \* how many of file's messages a power cut leaves
    ends,      \* the index entry's turn_ends
    points,    \* the index entry's resume_points
    archive,   \* the ids of the messages the compaction archive holds in full
    mem,       \* the transcript in memory, empty while the session is not loaded
    persisted, \* SessionData::persisted_count
    edits,     \* SessionData::deferred_resume_edits
    phase,     \* where the work is
    cand,      \* a prune on its way to disk
    made,      \* how many messages were written
    turn,      \* how many turns have started
    faults, deaths, changes, \* how often the bounded things happened
    slipped,   \* a cut the code accepts left a boundary off
    late       \* a turn's end was recorded while edits were deferred

disk == <<file, synced>>
index == <<ends, points>>
data == <<mem, persisted, edits>>
bounds == <<faults, deaths, changes>>
vars == <<disk, index, archive, data, phase, cand, made, turn, bounds, slipped, late>>

\* PERSISTED_STALE, more than any transcript has: here a number that is no count.
Stale == -1
NoPrune == [back |-> "none"]

System == Message(<<0, 0>>, "system", {}, 0, 0)
User(n, t) == Message(<<n, 0>>, "user", {}, 0, t)
Assistant(n, C, t) == Message(<<n, 0>>, "assistant", C, 0, t)
Next1 == made + 1
Ids(T) == {T[i].id : i \in DOMAIN T}

\* A session as this build makes it, as an earlier build left it when it
\* answered a call after the next prompt, one saved without its prompt, and one
\* that release 2026.10.0 shortened, its prune's note ahead of the request.
\* The ids of what an earlier build wrote are past MaxMade; it counts as one.
Start(kind) ==
    LET n == MaxMade
        a == Assistant(n + 2, {1}, 1) IN
    CASE kind = "new"   -> [file |-> <<>>, ends |-> {}, points |-> {}, made |-> 0, turn |-> 0]
      [] kind = "stray" -> [file |-> <<System, User(n + 1, 1), a, User(n + 3, 2), Reply(a, 1)>>,
                            ends |-> {3, 5}, points |-> {3}, made |-> 1, turn |-> 2]
      [] kind = "bare"  -> [file |-> <<User(n + 1, 1), Assistant(n + 2, {}, 1)>>,
                            ends |-> {2}, points |-> {}, made |-> 1, turn |-> 1]
      [] kind = "shortened" ->
            [file |-> <<System, User(n + 1, 1), [Message(<<n + 5, 0>>, "digest", {}, 0, 0) EXCEPT !.cut = TRUE],
                        User(n + 3, 1), a, [Reply(a, 1) EXCEPT !.cut = TRUE], Assistant(n + 4, {}, 1)>>,
             ends |-> {7}, points |-> {}, made |-> 1, turn |-> 1]

Init ==
    /\ \E kind \in Starts :
         LET s == Start(kind) IN
         /\ file = s.file /\ synced = Len(s.file)
         /\ ends = s.ends /\ points = s.points /\ made = s.made /\ turn = s.turn
    /\ archive = {} /\ mem = <<>> /\ persisted = 0 /\ edits = <<>>
    /\ phase = "idle" /\ cand = NoPrune
    /\ faults = 0 /\ deaths = 0 /\ changes = 0 /\ slipped = FALSE /\ late = FALSE

------------------------------------------------------------------------------
(* Saves *)

\* land_deferred_resume_edits: after a save that landed, the deferred edits
\* move the boundaries, in one index write that may fail.
Landings(o, pend) ==
    IF ~o.ok \/ pend = <<>> THEN {o}
    ELSE {[o EXCEPT !.edits = <<>>, !.ends = Followed(@, pend), !.points = Followed(@, pend)],
          [o EXCEPT !.cost = @ + 1]}

\* save_messages, of T when count messages are on disk: what it leaves, and
\* how many writes failed on the way.
SavesOf(T, count, pend, rewrite) ==
    LET whole == rewrite \/ count \in {0, Stale} \/ Len(T) < count
        kept  == [ok |-> FALSE, file |-> file, synced |-> synced, persisted |-> count,
                  edits |-> pend, ends |-> ends, points |-> points, cost |-> 0]
        all   == [kept EXCEPT !.ok = TRUE, !.file = T, !.synced = Len(T), !.persisted = Len(T)]
        tail  == [kept EXCEPT !.ok = TRUE, !.file = @ \o SubSeq(T, count + 1, Len(T)),
                              !.persisted = Len(T)]
        refused == count = 0 /\ ~rewrite /\ file # <<>>
        outcomes ==
            IF refused THEN {kept}
            ELSE {[kept EXCEPT !.cost = 1]}
                 \cup (IF whole THEN Landings(all, pend)
                       ELSE Landings(tail, pend)
                            \cup (IF Len(T) > count
                                  THEN Landings([all EXCEPT !.cost = 1], pend) ELSE {}))
    IN {o \in outcomes : faults + o.cost <= MaxFaults}

Saves(T, rewrite) == SavesOf(T, persisted, edits, rewrite)

\* Everything a save may change but the boundaries.
Wrote(o) ==
    /\ file' = o.file /\ synced' = o.synced
    /\ persisted' = o.persisted /\ edits' = o.edits
    /\ faults' = faults + o.cost /\ UNCHANGED <<deaths, changes, archive>>

\* A save whose end is not a turn's.
SaveStep(o) == Wrote(o) /\ ends' = o.ends /\ points' = o.points /\ UNCHANGED <<slipped, late>>

\* A message more is written.
Makes(n) == made + n <= MaxMade /\ made' = made + n

\* A step in memory alone.
InMemory == UNCHANGED <<disk, index, archive, persisted, edits, faults, deaths, slipped, late, cand>>

------------------------------------------------------------------------------
(* Loading *)

\* TuiApp::replay: a sitting that resumes the session marks where it begins.
Replay ==
    /\ phase = "idle" /\ mem = <<>> /\ file # <<>> /\ Len(file) \notin points
    /\ points' = points \cup {Len(file)}
    /\ UNCHANGED <<disk, ends, archive, data, phase, cand, made, turn, bounds, slipped, late>>

\* build_session_data without a transcript on disk.
HydrateNew ==
    /\ phase = "idle" /\ mem = <<>> /\ file = <<>>
    /\ mem' = <<System>> /\ persisted' = 0 /\ edits' = <<>>
    /\ UNCHANGED <<disk, index, archive, phase, cand, made, turn, bounds, slipped, late>>

\* The prompt ahead of a transcript that lacks it, the stubs, the strays, and
\* the boundary edits they make.
Repaired(T) ==
    LET bare  == Head(T).role # "system"
        stubs == Completed(IF bare THEN <<System>> \o T ELSE T)
        done  == Unstrayed(stubs.msgs)
        Edit(op, at) == [k \in 1..Len(at) |-> [op |-> op, at |-> at[k]]]
    IN [msgs  |-> done.msgs,
        edits |-> (IF bare THEN Edit("insert", <<0>>) ELSE <<>>)
                  \o Edit("insert", stubs.at) \o Edit("remove", done.at)]

\* build_session_data of a transcript: without a manifest (lost, or for a
\* transcript that lacks its prompt) the prompt is rebuilt, which rewrites too.
Hydrate ==
    /\ phase = "idle" /\ mem = <<>> /\ file # <<>>
    /\ LET r == Repaired(file) IN
       \E rebuilt \in BOOLEAN :
         /\ mem' = r.msgs
         /\ IF r.edits = <<>> /\ ~rebuilt
            THEN /\ persisted' = Len(file) /\ edits' = <<>>
                 /\ UNCHANGED <<disk, index, archive, bounds, slipped, late>>
            ELSE \E o \in SavesOf(r.msgs, 0, r.edits, TRUE) :
                   SaveStep([o EXCEPT !.persisted = IF o.ok THEN @ ELSE Stale])
    /\ UNCHANGED <<phase, cand, made, turn>>

\* apply_freeze with a prompt (/reload): the prompt is replaced, and the
\* transcript rewritten from a count of zero.
Reload ==
    /\ phase = "idle" /\ mem # <<>>
    /\ \E o \in SavesOf(mem, 0, edits, TRUE) : SaveStep(o)
    /\ UNCHANGED <<mem, phase, cand, made, turn>>

------------------------------------------------------------------------------
(* A turn *)

\* run_loop's opening: the prompt, and a note the harness has ahead of it.
Prompt ==
    /\ phase = "idle" /\ mem # <<>>
    /\ \E notes \in 0..1 :
         /\ Makes(notes + 1)
         /\ mem' = mem \o [k \in 1..notes + 1 |-> User(made + k, turn + 1)]
    /\ turn' = turn + 1 /\ phase' = "opened"
    /\ UNCHANGED changes /\ InMemory

\* An endpoint that does not resolve: the prompt goes, the notes stay.
Unresolved ==
    /\ phase = "opened" /\ mem' = Front(mem) /\ phase' = "idle"
    /\ UNCHANGED <<made, turn, changes>> /\ InMemory

\* accept_steers: messages sent meanwhile are saved before the next request.
Steer ==
    /\ phase \in {"opened", "top", "judged"}
    /\ Makes(1) /\ mem' = Append(mem, User(Next1, turn))
    /\ \E o \in Saves(mem', FALSE) : SaveStep(o)
    /\ phase' = IF phase = "judged" THEN "top" ELSE "tell"
    /\ UNCHANGED <<cand, turn>>

\* No steers; or the last iteration is over.
NoSteer ==
    /\ phase \in {"opened", "top"}
    /\ \/ phase' = "tell"
       \/ phase = "top" /\ phase' = "closing"
    /\ UNCHANGED <<mem, made, turn, changes>> /\ InMemory

\* Mutant: always ahead of the last message.
NoteBeforeLast == Len(mem) - 1

\* Where a note goes: ahead of a prompt that is not on disk yet.
NoteAt == IF persisted = Len(mem) THEN Len(mem) ELSE Len(mem) - 1

\* narrate_approval_policy: a mode chosen meanwhile is told to the model, on
\* the last tool reply or as a message of its own.
Narrate ==
    /\ phase \in {"tell", "request", "calls"} /\ changes < MaxChanges
    /\ changes' = changes + 1
    /\ \/ /\ Last(mem).role = "tool"
          /\ mem' = [mem EXCEPT ![Len(mem)].noted = TRUE] /\ UNCHANGED made
       \/ /\ IsUser(Last(mem)) /\ Makes(1)
          /\ mem' = InsertAt(mem, NoteAt + 1, User(Next1, turn))
    /\ UNCHANGED <<phase, turn>> /\ InMemory

\* The request goes out, or does not fit the spend.
Request ==
    /\ phase = "tell" /\ phase' \in {"request", "closing"}
    /\ UNCHANGED <<mem, made, turn, changes>> /\ InMemory

\* The provider fails, or answers nothing.
NoReply ==
    /\ phase = "request" /\ phase' \in {"closing", "judged", "cancelled"}
    /\ UNCHANGED <<mem, made, turn, changes>> /\ InMemory

\* The reply, saved before the calls it carries run.  A cancel
\* or a truncated reply ends the turn here.
Answer ==
    /\ phase = "request" /\ Makes(1)
    /\ \E n \in 0..MaxCalls :
         /\ mem' = Append(mem, Assistant(Next1, 1..n, turn))
         /\ phase' \in {"cancelled", IF n = 0 THEN "judged" ELSE "calls"}
    /\ \E o \in Saves(mem', FALSE) : SaveStep(o)
    /\ UNCHANGED <<cand, turn>>

\* The next call's reply.
Tool ==
    /\ phase = "calls" /\ Missing(mem, Len(mem)) # {}
    /\ mem' = Append(mem, Reply(mem[RunHead(mem, Len(mem))], Min(Missing(mem, Len(mem)))))
    /\ UNCHANGED <<phase, made, turn, changes>> /\ InMemory

\* A cancel before every call was answered.
Cancel ==
    /\ phase \in {"calls", "judged"} /\ phase' = "cancelled"
    /\ UNCHANGED <<mem, made, turn, changes>> /\ InMemory

\* The iteration's end: the save. A note appended to a reply before it is part
\* of the reply.
Iterated ==
    /\ phase = "calls" /\ Missing(mem, Len(mem)) = {} /\ phase' = "top"
    /\ \E o \in Saves(mem, FALSE) : SaveStep(o)
    /\ UNCHANGED <<mem, cand, made, turn>>

\* A turn_end hook refuses the end: the reason is the next user message, once
\* it is on disk; when it does not get there the turn ends all the same.
Refuse ==
    /\ phase = "judged" /\ Makes(1)
    /\ LET T == Append(mem, Message(<<Next1, 0>>, "refusal", {}, 0, turn)) IN
       \E o \in Saves(T, FALSE) :
         /\ SaveStep(o)
         /\ IF o.ok THEN mem' = T /\ phase' = "top" ELSE mem' = mem /\ phase' = "closing"
    /\ UNCHANGED <<cand, turn>>

\* The end stands.
Judge ==
    /\ phase = "judged" /\ phase' = "closing"
    /\ UNCHANGED <<mem, made, turn, changes>> /\ InMemory

\* The turn's end: stubs for the calls a cancel or a cut left, the save, and,
\* when it landed, the end in the index; an index write that fails is ignored.
Close ==
    /\ phase \in {"closing", "cancelled"} /\ phase' = "idle"
    /\ LET stubs == IF phase = "cancelled" THEN Completed(mem)
                    ELSE [msgs |-> mem, at |-> <<>>]
           T == stubs.msgs
           rewrite == \E k \in DOMAIN stubs.at : stubs.at[k] < Len(mem)
       IN /\ mem' = T
          /\ \E o \in Saves(T, rewrite), recorded \in BOOLEAN :
               LET lost == IF o.ok /\ ~recorded THEN 1 ELSE 0 IN
               /\ recorded => o.ok
               /\ faults + o.cost + lost <= MaxFaults
               /\ Wrote([o EXCEPT !.cost = @ + lost])
               /\ ends' = IF recorded THEN o.ends \cup {Len(T)} ELSE o.ends
               /\ points' = o.points
               /\ late' = (late \/ (recorded /\ o.edits # <<>>))
    /\ UNCHANGED <<cand, made, turn, slipped>>

------------------------------------------------------------------------------
(* A compaction: before a request, or /compact between turns *)

\* A prune that could not be committed: an error, with everything as it was.
Abandon ==
    /\ phase' = IF cand.back = "idle" THEN "idle" ELSE "closing"
    /\ cand' = NoPrune

\* compact_messages up to its commit.  Deferred edits land first, or the
\* prune waits.
Prune ==
    /\ phase \in {"tell", "idle"} /\ mem # <<>> /\ Makes(1)
    /\ LET back == IF phase = "idle" THEN "idle" ELSE "request" IN
       \E p \in Prunes(mem, Message(<<Next1, 0>>, "digest", {}, 0, 0)) :
         LET go == /\ phase' = "archive"
                   /\ cand' = [msgs |-> p.msgs, gone |-> p.gone, head |-> p.head, back |-> back,
                               ends |-> {}, points |-> {}]
             stay == /\ phase' = IF back = "idle" THEN "idle" ELSE "closing"
                     /\ cand' = NoPrune
         IN
            /\ IF edits = <<>>
               THEN go /\ UNCHANGED <<disk, index, persisted, edits, archive, bounds, slipped, late>>
               ELSE \E o \in Saves(mem, TRUE) :
                      /\ SaveStep(o)
                      /\ IF o.ok /\ o.edits = <<>> THEN go ELSE stay
    /\ UNCHANGED <<mem, turn>>

\* Mutant: the archive is written as well as can be.
ArchiveBestEffort ==
    /\ phase = "archive" /\ phase' = "index"
    /\ \/ archive' = archive \cup cand.gone /\ UNCHANGED faults
       \/ faults < MaxFaults /\ faults' = faults + 1 /\ UNCHANGED archive
    /\ UNCHANGED <<disk, index, data, cand, made, turn, deaths, changes, slipped, late>>

\* commit_compaction: the dropped messages and truncated originals go to the
\* archive, synced, with the digest's record; either append may fail.
Archive ==
    /\ phase = "archive"
    /\ \/ /\ archive' = archive \cup cand.gone
          /\ phase' = "index" /\ UNCHANGED <<cand, faults>>
       \/ /\ faults < MaxFaults /\ faults' = faults + 1
          /\ archive' \in {archive, archive \cup cand.gone} /\ Abandon
    /\ UNCHANGED <<disk, index, data, made, turn, deaths, changes, slipped, late>>

\* The boundaries of the candidate.
Reindex ==
    /\ phase = "index"
    /\ \/ /\ ends' = Shifted(ends, Len(mem), Len(cand.msgs), cand.head)
          /\ points' = Shifted(points, Len(mem), Len(cand.msgs), cand.head)
          /\ cand' = [cand EXCEPT !.ends = ends, !.points = points]
          /\ phase' = "rewrite" /\ UNCHANGED faults
       \/ faults < MaxFaults /\ faults' = faults + 1 /\ Abandon /\ UNCHANGED index
    /\ UNCHANGED <<disk, archive, data, made, turn, deaths, changes, slipped, late>>

\* The transcript; when its write fails the boundaries go back, unless the
\* disk refuses that write too.
Rewrite ==
    /\ phase = "rewrite"
    /\ \/ /\ file' = cand.msgs /\ synced' = Len(cand.msgs)
          /\ mem' = cand.msgs /\ persisted' = Len(cand.msgs)
          /\ phase' = cand.back /\ cand' = NoPrune
          /\ UNCHANGED <<index, faults, slipped>>
       \/ /\ faults < MaxFaults /\ faults' = faults + 1
          /\ ends' = cand.ends /\ points' = cand.points
          /\ Abandon /\ UNCHANGED <<disk, mem, persisted, slipped>>
       \/ /\ faults < MaxFaults /\ faults' = faults + 1
          /\ slipped' = TRUE
          /\ Abandon /\ UNCHANGED <<disk, index, mem, persisted>>
    /\ UNCHANGED <<archive, edits, made, turn, deaths, changes, late>>

------------------------------------------------------------------------------
(* Cuts *)

\* A panic in the turn: MessageGuard::drop restores the transcript, with a
\* stub for the call that was running.
Panic ==
    /\ phase \notin {"idle", "index", "rewrite"} /\ deaths < MaxDeaths
    /\ deaths' = deaths + 1
    /\ mem' = Completed(mem).msgs /\ phase' = "idle" /\ cand' = NoPrune
    /\ UNCHANGED <<disk, index, archive, persisted, edits, made, turn, faults, changes, slipped, late>>

\* The process dies or lets go of the session, or the power goes, with what
\* was appended since the last sync.  Boundaries that were waiting for a
\* repair that is on disk, or had moved for a prune that is not, stay off, as
\* do those past a cut.
Die ==
    /\ mem # <<>> /\ deaths < MaxDeaths /\ deaths' = deaths + 1
    /\ \E k \in synced..Len(file) :
         /\ file' = SubSeq(file, 1, k) /\ synced' = k
         /\ slipped' = \/ slipped \/ phase = "rewrite"
                       \/ edits # <<>> /\ persisted # Stale
                       \/ \E b \in ends \cup points : b > k
    /\ mem' = <<>> /\ persisted' = 0 /\ edits' = <<>>
    /\ phase' = "idle" /\ cand' = NoPrune
    /\ UNCHANGED <<index, archive, made, turn, faults, changes, late>>

------------------------------------------------------------------------------
Next ==
    \/ Replay \/ HydrateNew \/ Hydrate \/ Reload
    \/ Prompt \/ Unresolved \/ Steer \/ NoSteer \/ Narrate \/ Request
    \/ NoReply \/ Answer \/ Tool \/ Cancel \/ Iterated \/ Refuse \/ Judge \/ Close
    \/ Prune \/ Archive \/ Reindex \/ Rewrite
    \/ Panic \/ Die

Spec == Init /\ [][Next]_vars

------------------------------------------------------------------------------
(* Properties *)

Phases == {"idle", "opened", "top", "tell", "request", "calls", "judged", "closing",
           "cancelled", "archive", "index", "rewrite"}

\* The state keeps its shape: a work has a loaded transcript that starts with
\* the system prompt, a prune is under way exactly at its three places, and
\* the counts and boundaries are numbers of messages.
TypeOK ==
    /\ phase \in Phases /\ synced \in 0..Len(file)
    /\ mem = <<>> => phase = "idle" /\ edits = <<>>
    /\ mem # <<>> => Head(mem) = System
    /\ cand = NoPrune <=> phase \notin {"archive", "index", "rewrite"}
    /\ persisted \in 0..Len(mem) \cup {Stale}
    /\ ends \cup points \subseteq Nat /\ made \in 0..MaxMade /\ faults \in 0..MaxFaults

\* Every request that goes out carries a history a provider accepts: every
\* call is answered right after it, whatever cancels, panics, deaths, power
\* cuts, prunes and earlier builds left (complete_pending_tool_replies).
RequestsAnswered == phase = "request" => Answered(mem)

\* What a file holds of a transcript: text the harness appended to a message
\* after it was saved stays out of it.
Bare(T) == [i \in DOMAIN T |-> [T[i] EXCEPT !.noted = FALSE]]

\* The file is the first persisted_count messages of the transcript in memory,
\* so an append never repeats a message, leaves one out or reorders them
\* (save_messages), through notes put ahead of prompts, withdrawn messages,
\* failed saves and prunes.
FileIsPrefix ==
    mem # <<>> /\ persisted \notin {0, Stale} =>
        persisted <= Len(mem) /\ Bare(file) = Bare(SubSeq(mem, 1, persisted))

\* A request that carries a refused end goes out only once the refusal is in
\* the file a resume would replay (run_loop's turn_end branch).
RefusalsOnDisk ==
    phase = "request" =>
        \A i \in DOMAIN mem : mem[i].role = "refusal" => mem[i].id \in Ids(file)

\* Between two messages b counts up to: the next turn starts there.
BetweenTurns(T, b) == b <= Len(T) /\ (b \in {0, Len(T)} \/ T[b].turn # T[b + 1].turn)

\* A turn's end and a sitting's start stay between two turns, through
\* hydration's repairs, prunes and failed writes, but for the cuts the code
\* accepts and ends recorded while edits were deferred.
BoundariesBetweenTurns ==
    ~slipped /\ ~late /\ mem # <<>> /\ edits = <<>> /\ phase # "rewrite" =>
        \A b \in ends \cup points : BetweenTurns(mem, b)

\* What a resume would replay is what was said: the file is a prefix of
\* memory, refusals are in it before they are sent, and the boundaries it is
\* divided at lie between turns (sessions.rs:1798, agent.rs:2175,
\* sessions.rs:1497).
ResumesFaithfully == TypeOK /\ FileIsPrefix /\ RefusalsOnDisk /\ BoundariesBetweenTurns

\* What is on disk for good: the archive, and the whole messages of the file
\* that a power cut leaves, but for tool messages that stray from their call.
Durable == archive \cup {file[i].id : i \in {j \in 1..synced : ~file[j].cut /\ ~Stray(file, j)}}

\* No message that is on disk for good is ever lost or truncated without its
\* whole text in the archive, wherever a prune, a repair or a save is cut
\* (commit_compaction's order).
NothingLost == [][Durable \subseteq Durable']_vars

\* A loaded transcript that is on disk is counted as such, so no save of the
\* sitting is refused (build_session_data's comment on a count of zero).
SavesGoThrough == mem # <<>> /\ file # <<>> => persisted # 0

\* After a turn whose saves all landed, the file is the transcript
\* (save_messages' doc on its result).
ClosedIsSaved == phase = "idle" /\ mem # <<>> /\ persisted = Len(mem) => file = mem
=============================================================================
