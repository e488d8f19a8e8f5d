------------------------------- MODULE ToolGate -------------------------------
(***************************************************************************)
(* How the tool calls of one reply are let through, run and answered: the  *)
(* segments of run_loop, its serial path and execute_readonly_batch, the   *)
(* card of request_approval, and the turn's permissions.                   *)
(*                                                                         *)
(* Every await is a place of its own, so a frontend (or another process    *)
(* that saved a stricter mode) may change the approval mode, cancel, or    *)
(* answer a card between any two.  A tool's code and the permission file   *)
(* are versions; what a tool does is to write new ones.                    *)
(***************************************************************************)
EXTENDS Naturals, Sequences, FiniteSets

CONSTANTS
    Tools, Mutating, External, \* the registry: is_mutating, ToolKind::External
    Editor,       \* the file tool that may repair a malformed permission file
    Malformed,    \* a call with no tool name, or arguments that do not parse
    Replies,      \* the replies the model may give
    Starts,       \* the approval modes a turn may start in
    Books,        \* the permission files that parse: tool -> effect
    Vetted,       \* those of them whose allow rules a human approved
    Broken,       \* a permission file that does not parse
    Parallelism,  \* max_parallel_tools
    AgentSpawned, \* whether OPENMAX_SESSION is set
    MaxChanges    \* how often the approval mode, the permission file or a
                  \* tool's code changes

\* Versions of an external tool's manifest and the code it runs.
Code == 0..MaxChanges

Modes == {"readonly", "ask", "auto"}
Effects == {"none", "allow", "ask", "deny"}
NoCard == [of |-> 0, answer |-> "none", shown |-> {}]

ASSUME ConstantsAssumption ==
    /\ Mutating \subseteq Tools /\ External \subseteq Tools /\ Editor \in Mutating \ External
    /\ Malformed \notin Tools
    /\ Replies \subseteq Seq(Tools \cup {Malformed}) \ {<<>>} /\ Starts \subseteq Modes
    /\ Books \subseteq [Tools -> Effects] /\ Vetted \subseteq Books /\ Broken \notin [Tools -> Effects]
    /\ Parallelism \in Nat \ {0} /\ AgentSpawned \in BOOLEAN
    /\ MaxChanges \in Nat

VARIABLES
    live, saved, \* the mode this process applies, the one trust.json holds
    policy,      \* run_loop's policy_mode
    perms,       \* TurnPermissions::observed; its order words denials only
    book, code,  \* permissions.toml and the external tools' code
    approved,    \* the ledger: the tools' code a human approved
    reply,       \* the calls, <<>> until the reply arrives
    formed,      \* batch_mode, and the calls batchable under it
    place, at,   \* where the turn is, and at which call
    last,        \* the last call of a segment run as a batch
    state,       \* state[i]: what became of call i
    card,        \* the open approval card
    cancelled,
    log,         \* the events sent, in order
    replies,     \* the calls answered in the transcript, in order
    mark,        \* mark[i]: what was so at any time since call i was reached
    ran,         \* ran[i]: how call i came to run
    written,     \* the permission files the turn's own calls left behind
    changes

vars == <<live, saved, policy, perms, book, code, approved, reply, formed, place,
          at, last, state, card, cancelled, log, replies, mark, ran, written, changes>>
gate == <<live, saved, policy, perms>>
disk == <<book, code, approved>>

Strictness(m) == CASE m = "readonly" -> 2 [] m = "ask" -> 1 [] OTHER -> 0
Stricter(m, n) == IF Strictness(m) >= Strictness(n) THEN m ELSE n
Looser(m, n) == IF Strictness(m) >= Strictness(n) THEN n ELSE m

-----------------------------------------------------------------------------
(* Permissions.                                                            *)

\* discover_for_mode: outside auto, allow rules no human approved are dropped.
Discover(b, m) ==
    IF b = Broken \/ b \in Vetted \/ m = "auto" THEN b
    ELSE [t \in Tools |-> IF b[t] = "allow" THEN "none" ELSE b[t]]

\* Permissions::evaluate.  A broken file denies all but its own repair.
Verdict(b, t) == IF b # Broken THEN b[t] ELSE IF t = Editor THEN "none" ELSE "deny"

Restrictive(e) == CASE e = "deny" -> 3 [] e = "ask" -> 2 [] e = "none" -> 1 [] e = "allow" -> 0

\* TurnPermissions::evaluate: the most restrictive answer of all observed.
Evaluate(t) ==
    LET verdicts == {Verdict(b, t) : b \in perms} IN
    CHOOSE e \in verdicts : \A f \in verdicts : Restrictive(e) >= Restrictive(f)

\* unapproved_capability
Unapproved(t) == t \in External /\ <<t, code[t]>> \notin approved

-----------------------------------------------------------------------------
Calls == DOMAIN reply
Unmarked == [mode |-> "none", edited |-> FALSE, hooks |-> 0, said |-> "none"]

Init ==
    /\ live \in Starts /\ saved = live /\ policy = live
    /\ book \in Books \cup {Broken} /\ perms = {Discover(book, live)}
    /\ code = [t \in Tools |-> 0] /\ approved \in SUBSET {<<t, 0>> : t \in External}
    /\ reply = <<>> /\ formed = [mode |-> live, calls |-> {}]
    /\ place = "request" /\ at = 0 /\ last = 0
    /\ state = <<>> /\ card = NoCard /\ cancelled = FALSE
    /\ log = <<>> /\ replies = <<>> /\ mark = <<>> /\ ran = <<>>
    /\ written = {book} /\ changes = 0

Event(k, i) == <<k, i>>
Goto(l, i) == place' = l /\ at' = i

\* A call's closing event and its tool message.
Close(i) == /\ log' = Append(log, Event("end", i))
            /\ replies' = Append(replies, i)
            /\ state' = [state EXCEPT ![i] = "closed"]

\* On to the call after i, or the reply is done with.
Onward(i) == IF i = Len(reply) THEN Goto("over", i) ELSE Goto("segment", i + 1)

\* From when call i is reached it is judged by the modes in force since.
Reached(i) == mark' = [mark EXCEPT ![i].mode = Stricter(live', saved')]
Consulted(i) == mark' = [mark EXCEPT ![i].hooks = @ + 1]

\* refresh_saved_approval_modes: a stricter choice saved elsewhere applies.
RefreshModes == live' = Stricter(live, saved) /\ UNCHANGED saved

\* reload_approval_policy: and a mode that moved loads its own permissions.
Refresh ==
    /\ RefreshModes
    /\ policy' = live'
    /\ perms' = IF live' = policy THEN perms ELSE perms \cup {Discover(book, live')}

-----------------------------------------------------------------------------
(* The reply, its segments, and the serial path up to its hook.            *)

\* batchable_call
Batchable(t) ==
    /\ t # Malformed /\ t \notin Mutating
    /\ Evaluate(t) \in {"allow", "none"}
    /\ live = "auto" \/ ~Unapproved(t)

Receive ==
    /\ place = "request" /\ UNCHANGED <<gate, disk, changes, last, card, cancelled, log, replies, written>>
    /\ reply' \in Replies
    /\ formed' = [mode |-> live, calls |-> {i \in DOMAIN reply' : Batchable(reply'[i])}]
    /\ state' = [i \in DOMAIN reply' |-> "new"]
    /\ mark' = [i \in DOMAIN reply' |-> Unmarked] /\ ran' = [i \in DOMAIN reply' |-> <<>>]
    /\ Goto("segment", 1)

\* partition_concurrent_runs: a group is a longest run of two or more
\* batchable calls.  Where one from i ends:
GroupEnds(i) ==
    {j \in Calls : i < j /\ i..j \subseteq formed.calls /\ i - 1 \notin formed.calls /\ j + 1 \notin formed.calls}

\* Ahead of a segment and of each serial call the policy is refreshed, and a
\* cancel stops the turn.  A group of two or more formed in a mode that still
\* holds runs as a batch; a malformed call is answered at once.
Enter ==
    /\ place = "segment" /\ Refresh /\ Reached(at)
    /\ CASE cancelled -> Goto("over", at) /\ UNCHANGED <<last, state, log, replies>>
         [] ~cancelled /\ reply[at] = Malformed ->
              /\ log' = log \o <<Event("start", at), Event("end", at)>>
              /\ replies' = Append(replies, at) /\ state' = [state EXCEPT ![at] = "closed"]
              /\ Onward(at) /\ UNCHANGED last
         [] OTHER ->
              /\ IF GroupEnds(at) # {} /\ policy' = formed.mode
                   THEN Goto("batch hook", at) /\ last' \in GroupEnds(at)
                   ELSE Goto("hook", at) /\ UNCHANGED last
              /\ log' = Append(log, Event("start", at)) /\ UNCHANGED <<state, replies>>
    /\ UNCHANGED <<disk, changes, reply, formed, card, cancelled, ran, written>>

-----------------------------------------------------------------------------
(* Judging and running a serial call.                                      *)

\* pre_tool_use may block the call, and sees a cancel.
PreToolUse == {"allow", "block"} \cup (IF cancelled THEN {"cancelled"} ELSE {})

\* It is awaited, then the policy refreshed: a mode that moved meanwhile
\* refuses the call, and its hooks are not asked again.
Hook ==
    /\ place = "hook" /\ Refresh /\ Consulted(at)
    /\ \E pre \in PreToolUse :
         IF pre = "allow" /\ policy' = policy
           THEN Goto("judge", at) /\ UNCHANGED <<log, replies, state>>
           ELSE Close(at) /\ IF pre = "cancelled" THEN Goto("over", at) ELSE Onward(at)
    /\ UNCHANGED <<disk, changes, reply, formed, last, card, cancelled, ran, written>>

\* What a serial call admitted under mode m and permission e comes to.  In a
\* process an agent started no card is raised for code nobody approved.
Ruling(t, m, e) ==
    CASE e = "deny" -> "refused"
      [] e # "deny" /\ m = "readonly" ->
           IF t \in Mutating \/ e = "ask" \/ Unapproved(t) THEN "refused" ELSE "runs"
      [] e # "deny" /\ m = "ask" ->
           IF Unapproved(t) THEN IF AgentSpawned THEN "refused" ELSE "card"
           ELSE IF e = "ask" \/ (e # "allow" /\ t \in Mutating) THEN "card" ELSE "runs"
      [] OTHER -> "runs"

\* What is known of call i as it starts.
Runs(i, byCard) ==
    ran' = [ran EXCEPT ![i] = [card |-> byCard, mode |-> live', rules |-> written,
                               unapproved |-> Unapproved(reply[i])]]

\* Permissions, the approval mode and the code's approval, read together
\* after the note was awaited.
Judge ==
    LET t == reply[at]  ruling == Ruling(t, live, Evaluate(t)) IN
    /\ place = "judge" /\ UNCHANGED <<gate, disk, changes, reply, formed, last, cancelled, mark, written>>
    /\ CASE ruling = "runs" ->
              Goto("run", at) /\ Runs(at, FALSE) /\ UNCHANGED <<state, log, replies, card>>
         [] ruling = "card" ->
              /\ Goto("card", at) /\ log' = Append(log, Event("ask", at))
              /\ card' = [of |-> at, answer |-> "pending",
                          shown |-> IF Unapproved(t) THEN {<<t, code[t]>>} ELSE {}]
              /\ UNCHANGED <<state, replies, ran>>
         [] OTHER -> Close(at) /\ Onward(at) /\ UNCHANGED <<card, ran>>

\* respond_approval: the card's sender leaves the map and is told; for a card
\* that has settled there is none to tell.
Answer ==
    /\ card.answer = "pending"
    /\ \E a \in {"yes", "no"} :
         card' = [card EXCEPT !.answer = a] /\ mark' = [mark EXCEPT ![card.of].said = a]
    /\ UNCHANGED <<gate, disk, changes, reply, formed, place, at, last, state, cancelled, log, replies, ran, written>>

\* Mutant: a card waits for its answer for ever.
CardEndsAnswered ==
    (IF card.answer \in {"yes", "no"} THEN {card.answer} ELSE {})
      \cup (IF cancelled THEN {"cancelled"} ELSE {})

\* What the select may take: the answer, the turn's cancel, ten minutes.
CardEnds ==
    {"timed out"} \cup (IF card.answer \in {"yes", "no"} THEN {card.answer} ELSE {})
      \cup (IF cancelled THEN {"cancelled"} ELSE {})

\* The saved modes are read back, and a yes runs the call unless the project
\* is read-only now.  It records the code the card showed if that is there
\* still; the call runs even if it is not.
Settle ==
    LET t == reply[at] IN
    /\ place = "card" /\ card' = NoCard /\ RefreshModes
    /\ \E how \in CardEnds :
         IF how = "yes" /\ live' # "readonly"
           THEN /\ approved' = IF live' # "auto" /\ card.shown \subseteq {<<t, code[t]>>}
                                 THEN approved \cup card.shown ELSE approved
                /\ Runs(at, TRUE) /\ Goto("run", at)
                /\ log' = Append(log, Event("settled", at)) /\ UNCHANGED <<replies, state>>
           ELSE /\ log' = log \o <<Event("settled", at), Event("end", at)>>
                /\ replies' = Append(replies, at) /\ state' = [state EXCEPT ![at] = "closed"]
                /\ IF how = "cancelled" THEN Goto("over", at) ELSE Onward(at)
                /\ UNCHANGED <<approved, ran>>
    /\ UNCHANGED <<policy, perms, book, code, changes, reply, formed, last, cancelled, mark, written>>

\* What a tool that can write may do to the files the gate reads, and what
\* anyone else may do to them meanwhile.
Edit ==
    /\ changes < MaxChanges /\ changes' = changes + 1
    /\ \/ book' \in (Books \cup {Broken}) \ {book} /\ UNCHANGED <<code, mark>>
       \/ /\ \E x \in External, v \in Code : code[x] # v /\ code' = [code EXCEPT ![x] = v]
          /\ mark' = [i \in Calls |-> [mark[i] EXCEPT !.edited = @ \/ mark[i].mode # "none"]]
          /\ UNCHANGED book

Effect(t) == \/ UNCHANGED <<book, code, changes, mark>>
             \/ t \in Mutating \cup External /\ Edit

\* Mutant: the rules a call wrote are read at the next turn.
ReloadLater == UNCHANGED perms

\* A mutating call that ran, whatever it returned, has its rules read back.
Reload == perms' = IF reply[at] \in Mutating THEN perms \cup {Discover(book', live)} ELSE perms

\* The call, post_tool_use, its end event and tool message, the reload.
Run ==
    /\ place = "run" /\ Effect(reply[at]) /\ Close(at) /\ Onward(at) /\ Reload
    /\ written' = IF reply[at] \in Mutating THEN written \cup {book'} ELSE written
    /\ UNCHANGED <<live, saved, policy, approved, reply, formed, last, card, cancelled, ran>>

-----------------------------------------------------------------------------
(* execute_readonly_batch: the group's calls are judged one by one, then   *)
(* run side by side, then closed in their order.                           *)

Group == {i \in Calls : i <= last /\ state[i] # "closed"}
First(js) == {i \in js : \A j \in js : i <= j}

\* The batch's calls up to one end together, those past `at` beginning as
\* they do.
Refuse(upto) ==
    \E i \in First(Group) :
        /\ log' = log \o [k \in 1..(at + 1 - i) |-> Event("end", i + k - 1)]
                      \o [k \in 1..(2 * (upto - at)) |-> Event(IF k % 2 = 1 THEN "start" ELSE "end", at + (k + 1) \div 2)]
        /\ replies' = replies \o [k \in 1..(upto + 1 - i) |-> i + k - 1]
        /\ state' = [j \in Calls |-> IF j \in i..upto THEN "closed" ELSE state[j]]

\* Mutant: a batch refused for its mode goes to the serial path instead.
BatchHookReplays ==
    /\ place = "batch hook" /\ Refresh /\ Consulted(at)
    /\ \E pre \in PreToolUse :
         IF pre = "cancelled" THEN Refuse(at) /\ Goto("over", at)
         ELSE IF policy' # policy THEN \E i \in First(Group) : Goto("hook", i) /\ UNCHANGED <<log, replies, state>>
         ELSE /\ Goto("batch judge", at) /\ UNCHANGED <<log, replies>>
              /\ state' = [state EXCEPT ![at] = IF pre = "block" THEN "blocked" ELSE "asked"]
    /\ UNCHANGED <<disk, changes, reply, formed, last, card, cancelled, ran, written>>

\* A mode that moved during a hook refuses the whole batch; a cancel closes
\* the calls already started and stops the turn.
BatchHook ==
    /\ place = "batch hook" /\ Refresh /\ Consulted(at)
    /\ \E pre \in PreToolUse :
         IF pre = "cancelled" THEN Refuse(at) /\ Goto("over", at)
         ELSE IF policy' # policy THEN Refuse(last) /\ Onward(last)
         ELSE /\ Goto("batch judge", at) /\ UNCHANGED <<log, replies>>
              /\ state' = [state EXCEPT ![at] = IF pre = "block" THEN "blocked" ELSE "asked"]
    /\ UNCHANGED <<disk, changes, reply, formed, last, card, cancelled, ran, written>>

\* A call that passes under auto is let in without a look at its code.
Admission(i) ==
    LET t == reply[i] IN
    IF \/ state[i] = "blocked" \/ Evaluate(t) = "deny"
       \/ live # "auto" /\ (Evaluate(t) = "ask" \/ Unapproved(t)) THEN "blocked"
    ELSE IF live = "auto" THEN "unasked" ELSE "ready"

BatchJudge ==
    /\ place = "batch judge" /\ UNCHANGED <<gate, disk, changes, reply, formed, last, card, cancelled, replies, ran, written>>
    /\ state' = [state EXCEPT ![at] = Admission(at)]
    /\ IF at < last
         THEN Goto("batch hook", at + 1) /\ Reached(at + 1) /\ log' = Append(log, Event("start", at + 1))
         ELSE Goto("batch", at) /\ UNCHANGED <<mark, log>>

Waiting == {i \in Group : state[i] \in {"blocked", "unasked", "ready"}}
Running == {i \in Group : state[i] = "running"}

\* MODE_LEFT_AUTO_BEFORE_START: a call let in unasked is asked after all.
StillAdmitted(i) == ~(state[i] = "unasked" /\ live' # "auto" /\ Unapproved(reply[i]))

\* The next call starts, in their order, once fewer than the limit run.
BatchStart ==
    /\ place = "batch" /\ Cardinality(Running) < Parallelism
    /\ \E i \in First(Waiting) :
          /\ IF state[i] = "unasked" THEN RefreshModes ELSE UNCHANGED <<live, saved>>
          /\ IF state[i] = "blocked" \/ ~StillAdmitted(i)
               THEN state' = [state EXCEPT ![i] = "ended"] /\ UNCHANGED ran
               ELSE state' = [state EXCEPT ![i] = "running"] /\ Runs(i, FALSE)
    /\ UNCHANGED <<policy, perms, disk, changes, reply, formed, place, at, last, card, cancelled, log, replies, mark, written>>

BatchEnd ==
    /\ place = "batch"
    /\ \E i \in Running : Effect(reply[i]) /\ state' = [state EXCEPT ![i] = "ended"]
    /\ UNCHANGED <<gate, approved, reply, formed, place, at, last, card, cancelled, log, replies, ran, written>>

\* collect_bounded sorts the outcomes: each call is closed in its order.
BatchClose ==
    /\ place = "batch" /\ Waiting \cup Running = {}
    /\ \E i \in First(Group) : Close(i) /\ IF Group = {i} THEN Onward(last) ELSE UNCHANGED <<place, at>>
    /\ UNCHANGED <<gate, disk, changes, reply, formed, last, card, cancelled, mark, ran, written>>

-----------------------------------------------------------------------------
\* complete_pending_tool_replies: after a cancel the rest is answered so.
Answered == {replies[k] : k \in DOMAIN replies}
InOrder(js) == {f \in [1..Cardinality(js) -> js] : \A k \in DOMAIN f, m \in DOMAIN f : k < m => f[k] < f[m]}
Finish ==
    /\ place = "over" /\ Goto("done", at)
    /\ \E rest \in InOrder(Calls \ Answered) : replies' = replies \o rest
    /\ UNCHANGED <<gate, disk, changes, reply, formed, last, state, card, cancelled, log, mark, ran, written>>

\* The modes change: here (set_project_approval_mode) or in another process.
Modify ==
    /\ place \notin {"request", "over", "done"} /\ changes < MaxChanges /\ changes' = changes + 1
    /\ \E m \in Modes : /\ m # saved /\ saved' = m
                        /\ live' \in {live, m}
    /\ mark' = [i \in Calls |-> IF mark[i].mode = "none" THEN mark[i]
                  ELSE [mark[i] EXCEPT !.mode = Looser(@, Stricter(live', saved'))]]
    /\ UNCHANGED <<policy, perms, disk, reply, formed, place, at, last, state, card, cancelled, log, replies, ran, written>>

Cancel ==
    /\ place \notin {"request", "over", "done"} /\ ~cancelled /\ cancelled' = TRUE
    /\ UNCHANGED <<gate, disk, changes, reply, formed, place, at, last, state, card, log, replies, mark, ran, written>>

\* Anyone else may write the files the gate reads.
OutsideEdit ==
    /\ place \notin {"request", "over", "done"} /\ Edit
    /\ UNCHANGED <<gate, approved, reply, formed, place, at, last, state, card, cancelled, log, replies, ran, written>>

Step == Receive \/ Enter \/ Hook \/ Judge \/ Settle \/ Run
        \/ BatchHook \/ BatchJudge \/ BatchStart \/ BatchEnd \/ BatchClose \/ Finish

Next == Step \/ Answer \/ Modify \/ Cancel \/ OutsideEdit

\* Every await of the turn returns: hooks and tools have timeouts, a card has
\* its own.  Nobody need answer, cancel or choose a mode.
Spec == Init /\ [][Next]_vars /\ WF_vars(Step)

-----------------------------------------------------------------------------
(* Properties.                                                             *)

Cards(n) == [of : 0..n, answer : {"none", "pending", "yes", "no"}, shown : SUBSET (External \X Code)]
Marks == [mode : Modes \cup {"none"}, edited : BOOLEAN, hooks : Nat, said : {"none", "yes", "no"}]

\* Every variable has its type.
TypeOK ==
    /\ {live, saved, policy} \subseteq Modes
    /\ perms \subseteq [Tools -> Effects] \cup {Broken}
    /\ book \in Books \cup {Broken} /\ written \subseteq Books \cup {Broken}
    /\ code \in [Tools -> Code] /\ approved \subseteq External \X Code
    /\ reply \in Replies \cup {<<>>} /\ formed.calls \subseteq Calls
    /\ at \in 0..Len(reply) /\ last \in 0..Len(reply)
    /\ state \in [Calls -> {"new", "asked", "blocked", "unasked", "ready", "running", "ended", "closed"}]
    /\ card \in Cards(Len(reply))
    /\ mark \in [Calls -> Marks] /\ DOMAIN ran = Calls /\ Answered \subseteq Calls

Ran == {i \in Calls : ran[i] # <<>>}

\* The mode a call runs under is one that was in force since it was reached,
\* or stricter: a mode narrowed while its hook, its card or the calls ahead
\* of it in a batch were waited for binds it.  So a mutating call never runs
\* in a project that was read-only all that time, nor unasked in one that was
\* never in auto, unless a human vetted a rule that allows it; and code no
\* human approved starts only by its own card, or while the mode is auto,
\* however long it waited (unless it was changed after it was looked at).
ModesBind ==
    \A i \in Ran :
        LET r == ran[i]  since == mark[i].mode  t == reply[i] IN
        /\ Strictness(r.mode) >= Strictness(since)
        /\ t \in Mutating => since # "readonly"
        /\ t \in Mutating /\ since = "ask" => r.card \/ \E b \in Vetted : b[t] = "allow"
        /\ r.unapproved => r.mode = "auto" \/ r.card \/ mark[i].edited

\* The rules a turn started with and every set its own calls have written
\* bind the calls that follow in the same reply, whatever was written since:
\* none a rule denies runs, and one a rule asks about only by card or in auto.
RulesBind ==
    \A i \in Ran : \A b \in ran[i].rules :
        LET e == Verdict(b, reply[i]) IN
        e # "deny" /\ (e = "ask" => ran[i].card \/ mark[i].mode = "auto")

\* A call that runs was let through by the mode, the rules and the approvals
\* that bind it (agent.rs:2671, :3186).
CallsAreBound == TypeOK /\ ModesBind /\ RulesBind

Count(e) == Cardinality({k \in DOMAIN log : log[k] = e})

\* Calls are answered in the order the model made them, each once, also when
\* they ran side by side, were refused as a batch or cut off by a cancel; a
\* frontend sees each call start before it ends and an ended call for every
\* one started; its hooks judged a call once at most, and before it ran; and
\* a call that ran by card was told yes, on a card that has settled.
AnsweredInOrder ==
    /\ \A k \in DOMAIN replies : replies[k] = k
    /\ place = "done" => Len(replies) = Len(reply)
    /\ \A i \in Calls :
        /\ Count(Event("end", i)) <= Count(Event("start", i)) /\ Count(Event("start", i)) <= 1
        /\ place \in {"over", "done"} => Count(Event("end", i)) = Count(Event("start", i))
        /\ Count(Event("ask", i)) = Count(Event("settled", i)) + (IF card.of = i THEN 1 ELSE 0)
        /\ mark[i].hooks <= 1 /\ (i \in Ran => mark[i].hooks = 1)
        /\ i \in Ran /\ ran[i].card => mark[i].said = "yes" /\ card.of # i

\* A reply is done with, whether or not anyone answers its cards.
TurnEnds == place # "request" ~> place = "done"
=============================================================================
