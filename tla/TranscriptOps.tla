---------------------------- MODULE TranscriptOps ----------------------------
(***************************************************************************)
(* The pure half of a session's transcript: the repairs hydration makes to *)
(* it (crates/core/src/agent.rs), the boundaries that follow an edit       *)
(* (sessions.rs) and the prune a compaction proposes (compaction.rs).      *)
(*                                                                         *)
(* A message is [id, role, calls, of, turn, noted, cut]: an assistant      *)
(* message carries the names of its calls, a tool message the call it      *)
(* answers.  noted says that the harness appended to its text, cut that a  *)
(* prune truncated it; a digest note that is cut tells only of outputs a   *)
(* prune truncated.  A note, a steer and a refused end are user messages.  *)
(* turn is the turn that wrote the message, for the properties.            *)
(* Indexes count from 0 in the code and from 1 here; a boundary is a       *)
(* number of messages, so it is the same number in both.                   *)
(***************************************************************************)
EXTENDS Naturals, Sequences, SequencesExt, FiniteSets

CONSTANTS
    Keep,  \* how many messages after the head a prune leaves (4 in the code)
    Whole  \* how many last messages a prune never truncates (6 in the code)

UserRoles == {"user", "refusal", "digest"}
IsUser(m) == m.role \in UserRoles

Message(id, role, calls, of, turn) ==
    [id |-> id, role |-> role, calls |-> calls, of |-> of, turn |-> turn,
     noted |-> FALSE, cut |-> FALSE]

\* The reply to call c of the assistant message a, a result or a stub.
Reply(a, c) == Message(<<a.id[1], c>>, "tool", {}, c, a.turn)

\* The message the run of tool messages that i is in follows: i itself when
\* it is not a tool message, 0 when nothing but tool messages precedes it.
RunHead(T, i) == SelectLastInSubSeq(T, 1, i, LAMBDA m : m.role # "tool")

EndsRun(T, i) == i = Len(T) \/ T[i + 1].role # "tool"

\* The calls of the run that ends at i that no reply in it answers.
Missing(T, i) ==
    LET h == RunHead(T, i) IN
    IF h > 0 /\ EndsRun(T, i) THEN T[h].calls \ {T[k].of : k \in h + 1..i} ELSE {}

\* A place in a transcript: <<i, 0>> is message i's, <<i, c>> that of a reply to
\* call c after it.  Places come in their order.
Before(x, y) == x[1] < y[1] \/ (x[1] = y[1] /\ x[2] < y[2])
Rank(S, x) == Cardinality({y \in S : Before(y, x)})
InOrder(S) ==
    LET ranked == {<<Rank(S, x), x>> : x \in S}
    IN  [k \in 1..Cardinality(S) |-> (CHOOSE r \in ranked : r[1] = k - 1)[2]]

Kept(T) == {<<i, 0>> : i \in 1..Len(T)}
Stubs(T) == UNION {{<<i, c>> : c \in Missing(T, i)} : i \in 1..Len(T)}
At(T, x) == IF x[2] = 0 THEN T[x[1]] ELSE Reply(T[RunHead(T, x[1])], x[2])

\* Mutant: the earlier builds' stubs, at the end of the transcript.
CompletedAtEnd(T) ==
    LET new == InOrder(Stubs(T)) IN
    [msgs |-> T \o [k \in DOMAIN new |-> At(T, new[k])],
     at   |-> [k \in DOMAIN new |-> Len(T) + k - 1]]

\* complete_pending_tool_replies: a stub for each unanswered call, at the end
\* of its call's run, and where each stub went.
Completed(T) ==
    LET places == Kept(T) \cup Stubs(T)
        all    == InOrder(places)
        new    == InOrder(Stubs(T))
    IN [msgs |-> [k \in DOMAIN all |-> At(T, all[k])],
        at   |-> [k \in DOMAIN new |-> Rank(places, new[k])]]

\* A tool message that is not in the run of the call it answers.
Stray(T, i) ==
    /\ T[i].role = "tool"
    /\ RunHead(T, i) = 0 \/ T[i].of \notin T[RunHead(T, i)].calls

\* drop_stray_tool_replies: without them, and where each one was, those before
\* it gone.
Unstrayed(T) ==
    LET stay == {x \in Kept(T) : ~Stray(T, x[1])}
        left == InOrder(stay)
        gone == InOrder(Kept(T) \ stay)
    IN [msgs |-> [k \in DOMAIN left |-> At(T, left[k])],
        at   |-> [k \in DOMAIN gone |-> Rank(stay, gone[k])]]

\* What a provider accepts: every call is answered in the run of tool messages
\* after it, and every tool message answers one there.
Answered(T) == \A i \in 1..Len(T) : Missing(T, i) = {} /\ ~Stray(T, i)

------------------------------------------------------------------------------
(* Boundaries *)

\* shift_points_for_insert
Inserted(points, at) == {IF p >= at THEN p + 1 ELSE p : p \in points}

\* shift_points_for_remove
Removed(points, at) == {IF p > at THEN p - 1 ELSE p : p \in points}

\* apply_resume_edits: the boundaries after every edit, in order.
Moved(points, e) == IF e.op = "insert" THEN Inserted(points, e.at) ELSE Removed(points, e.at)
Followed(points, edits) ==
    LET after[n \in 0..Len(edits)] == IF n = 0 THEN points ELSE Moved(after[n - 1], edits[n])
    IN  after[Len(edits)]

\* shifted_resume_points: the boundaries after a prune of a transcript of
\* before messages to after, whose digest note follows the first head.
Shifted(points, before, after, head) ==
    {CASE after < before /\ p >= head ->
            IF p - (before - after) > head + 1 THEN p - (before - after) ELSE head + 1
       [] after > before /\ p >= head -> p + (after - before)
       [] OTHER -> p : p \in points}

------------------------------------------------------------------------------
(* Prunes *)

\* The message is a user's, a harness's or a refusal's, and the note of no prune.
Plain(m) == IsUser(m) /\ m.role # "digest"

\* The opening run goes on over T[i]: a plain message, or the note of a prune
\* that only truncated, with a plain message after it (saved_ahead_of_request).
Pinned(T, i) ==
    \/ Plain(T[i])
    \/ T[i].role = "digest" /\ T[i].cut /\ i < Len(T) /\ Plain(T[i + 1])

\* pinned_head: how many leading messages a prune keeps, the system prompt and
\* the opening run.
PinnedHead(T) ==
    LET stops == {i \in 2..Len(T) : ~Pinned(T, i)}
        n == IF stops = {} THEN Len(T) ELSE Min(stops) - 1
    IN IF n < 2 THEN 2 ELSE n

\* Where the drop loops may stop: before they began, or at the end of a round, a
\* message with the replies to it.  The first round begins with more than Keep
\* messages left; a later one may be the second loop's, which counts the note.
Stops(T, head) ==
    {k \in head..Len(T) :
        \/ k = head
        \/ /\ EndsRun(T, k)
           /\ Len(T) - RunHead(T, k) + (IF RunHead(T, k) > head + 1 THEN 1 ELSE 0) >= Keep}

\* The tool messages that are old enough to truncate, and the first n of them
\* truncated.
Old(T) == {i \in 2..Len(T) - Whole : T[i].role = "tool" /\ ~T[i].cut}
Truncated(T, n) ==
    LET these == {i \in Old(T) : Cardinality({j \in Old(T) : j <= i}) <= n}
    IN [msgs |-> [i \in 1..Len(T) |-> IF i \in these THEN [T[i] EXCEPT !.cut = TRUE] ELSE T[i]],
        gone |-> {T[i].id : i \in these}]

\* prune_transcript: n truncated outputs, then everything from the head to
\* stop dropped, and the digest note after the head.  A prune that only
\* truncates keeps an older digest there, and leaves no note when there is no
\* room for one.
Pruned(T, n, head, stop, digest, room) ==
    LET cut  == Truncated(T, n)
        msgs == SubSeq(cut.msgs, 1, head) \o SubSeq(cut.msgs, stop + 1, Len(T))
        over == Len(msgs) > head /\ msgs[head + 1].role = "digest"
        note == [digest EXCEPT !.cut = stop = head]
    IN [msgs |-> IF stop = head /\ (over \/ ~room) THEN msgs
                 ELSE IF over THEN [msgs EXCEPT ![head + 1] = note]
                 ELSE InsertAt(msgs, head + 1, note),
        gone |-> cut.gone \cup {T[i].id : i \in head + 1..stop}, head |-> head]

\* Every prune of T that changes it, wherever the target is met.
Prunes(T, digest) ==
    LET head == PinnedHead(T) IN
    {p \in {Pruned(T, n, head, stop, digest, room) :
               n \in 0..Cardinality(Old(T)), stop \in Stops(T, head), room \in BOOLEAN} :
        p.gone # {}}
=============================================================================
