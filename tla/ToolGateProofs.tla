----------------------------- MODULE ToolGateProofs -----------------------------
(***************************************************************************)
(* What holds of the gate for any replies, rules, tools, changes of mode   *)
(* and edits: a call that runs was let through by what binds it, and calls *)
(* are answered in their order, each once.                                 *)
(***************************************************************************)
EXTENDS ToolGate, SequenceTheorems, FiniteSetTheorems, WellFoundedInduction, TLAPS

(* The inductive invariant *)

Single == {"hook", "judge", "card", "run"}
Batched == {"batch hook", "batch judge", "batch"}
Places == {"request", "segment", "over", "done"} \cup Single \cup Batched
Judged == {"blocked", "unasked", "ready"}
States == {"new", "asked", "running", "ended", "closed"} \cup Judged

PlaceInv ==
    /\ place \in Places /\ changes \in 0..MaxChanges /\ cancelled \in BOOLEAN
    /\ place \in {"segment"} \cup Single \cup Batched => at \in Calls
    /\ place = "request" => reply = <<>>
    /\ place \in Single => reply[at] \in Tools
    /\ \A i \in formed.calls : i \in Calls /\ reply[i] \in Tools \ Mutating

\* What is closed is answered, from the first call on; what follows is as far
\* as the place says.
AnswerInv ==
    /\ replies \in Seq(Nat) /\ \A k \in DOMAIN replies : replies[k] = k
    /\ Len(replies) <= Len(reply) /\ (place = "done" => Len(replies) = Len(reply))
    /\ place # "done" => \A i \in Calls : state[i] = "closed" <=> i <= Len(replies)
StateInv ==
    /\ place \in {"segment"} \cup Single => at = Len(replies) + 1 /\ \A i \in Calls : i >= at => state[i] = "new"
    /\ place \in Batched =>
          /\ Len(replies) < at /\ at <= last /\ last \in Calls
          /\ \A i \in Calls : Len(replies) < i /\ i <= last => i \in formed.calls
          /\ \A i \in Calls : i > last => state[i] = "new"
    /\ place \in {"batch hook", "batch judge"} =>
          /\ \A i \in Calls : Len(replies) < i /\ i < at => state[i] \in Judged
          /\ \A i \in Calls : i > at => state[i] = "new"
    /\ place = "batch hook" => state[at] = "new"
    /\ place = "batch judge" => state[at] \in {"asked", "blocked"}
    /\ place = "batch" =>
          at = last /\ \A i \in Calls : Len(replies) < i /\ i <= last => state[i] \in Judged \cup {"running", "ended"}

\* The mode a call is marked with binds the modes in force.
MarkInv ==
    /\ \A i \in Calls : mark[i].mode # "none" =>
          /\ Strictness(Stricter(live, saved)) >= Strictness(mark[i].mode)
          /\ Strictness(live) >= Strictness(mark[i].mode) \/ (place = "batch hook" /\ i = at)
    /\ place = "judge" => Strictness(policy) >= Strictness(mark[at].mode)
    /\ place \in Single \cup Batched => \A i \in Calls : Len(replies) < i /\ i <= at => mark[i].mode # "none"

\* Rules that were written are looked at, and outside auto some set is that
\* allows nothing but what a human vetted.
Cautious(b) == \A t \in Tools : Verdict(b, t) = "allow" => \E v \in Vetted : v[t] = "allow"
RulesInv ==
    /\ perms # {}
    /\ \A b \in written : \E m \in Modes : Discover(b, m) \in perms
    /\ policy # "auto" => \E b \in perms : Cautious(b)

\* What a call that has not started was let in under.
Free(ps, t, es) == \A b \in ps : Verdict(b, t) \notin es
Admitted(s, t, mk, ps, new) ==
    /\ s \in {"unasked", "ready"} => Free(ps, t, {"deny"})
    /\ s = "unasked" => mk.mode = "auto"
    /\ s = "ready" => Free(ps, t, {"deny", "ask"}) /\ (mk.edited \/ ~new)
AdmitInv ==
    /\ place = "card" => Free(perms, reply[at], {"deny"})
    /\ place \in Batched => \A i \in Calls : Admitted(state[i], reply[i], mark[i], perms, Unapproved(reply[i]))

\* What has run is at the place where calls run or past it, and was bound.
Bound(t, r, mk) ==
    /\ Strictness(r.mode) >= Strictness(mk.mode)
    /\ t \in Mutating => mk.mode # "readonly"
    /\ t \in Mutating /\ mk.mode = "ask" => r.card \/ \E b \in Vetted : b[t] = "allow"
    /\ r.unapproved => r.mode = "auto" \/ r.card \/ mk.edited
    /\ \A b \in r.rules : Verdict(b, t) # "deny" /\ (Verdict(b, t) = "ask" => r.card \/ mk.mode = "auto")
RanInv ==
    /\ \A i \in Ran : mark[i].mode # "none" /\ Bound(reply[i], ran[i], mark[i])
    /\ place # "done" => \A i \in Ran : \/ state[i] = "closed"
                                        \/ place = "run" /\ i = at
                                        \/ place = "batch" /\ state[i] \in {"running", "ended"}

BoundInv == TypeOK /\ PlaceInv /\ AnswerInv /\ StateInv /\ MarkInv /\ RulesInv /\ AdmitInv /\ RanInv

------------------------------------------------------------------------------
(* Modes, rules and marks *)

LEMMA ModeFacts ==
    /\ \A m : Strictness(m) \in 0..2
    /\ \A m \in Modes : /\ Strictness(m) \in 0..2 /\ (m = "auto" <=> Strictness(m) = 0)
                        /\ (m = "ask" <=> Strictness(m) = 1) /\ (m = "readonly" <=> Strictness(m) = 2)
    /\ \A m, n \in Modes : /\ Stricter(m, n) \in {m, n} /\ Looser(m, n) \in {m, n}
                           /\ Strictness(Stricter(m, n)) >= Strictness(m) /\ Strictness(Stricter(m, n)) >= Strictness(n)
                           /\ Strictness(Looser(m, n)) <= Strictness(m) /\ Strictness(Looser(m, n)) <= Strictness(n)
    /\ "none" \notin Modes
BY DEF Modes, Strictness, Stricter, Looser

\* The most restrictive answer is at least as restrictive as each.
LEMMA EvaluateIs ==
    ASSUME perms # {}, perms \subseteq [Tools -> Effects] \cup {Broken}, NEW t \in Tools
    PROVE  /\ \E b \in perms : Evaluate(t) = Verdict(b, t)
           /\ \A b \in perms : Restrictive(Evaluate(t)) >= Restrictive(Verdict(b, t))
           /\ \A b \in perms : Verdict(b, t) \in Effects
<1>. DEFINE verdicts == {Verdict(b, t) : b \in perms}
<1>1. verdicts \subseteq Effects /\ verdicts # {}
  BY DEF Verdict, Effects
<1>2. Evaluate(t) = CHOOSE e \in verdicts : \A f \in verdicts : Restrictive(e) >= Restrictive(f)
  BY DEF Evaluate
<1>. HIDE DEF verdicts
<1>3. \E e \in verdicts : \A f \in verdicts : Restrictive(e) >= Restrictive(f)
  <2>1. CASE "deny" \in verdicts
    BY <1>1, <2>1 DEF Effects, Restrictive
  <2>2. CASE "deny" \notin verdicts /\ "ask" \in verdicts
    BY <1>1, <2>2 DEF Effects, Restrictive
  <2>3. CASE "deny" \notin verdicts /\ "ask" \notin verdicts /\ "none" \in verdicts
    BY <1>1, <2>3 DEF Effects, Restrictive
  <2>4. CASE "deny" \notin verdicts /\ "ask" \notin verdicts /\ "none" \notin verdicts
    <3>1. verdicts = {"allow"}
      BY <1>1, <2>4 DEF Effects
    <3>. QED  BY <3>1 DEF Restrictive
  <2>. QED  BY <2>1, <2>2, <2>3, <2>4
<1>4. Evaluate(t) \in verdicts /\ \A f \in verdicts : Restrictive(Evaluate(t)) >= Restrictive(f)
  BY <1>2, <1>3
<1>. QED  BY <1>1, <1>4 DEF verdicts

LEMMA EvaluateTells ==
    ASSUME perms # {}, perms \subseteq [Tools -> Effects] \cup {Broken}, NEW t \in Tools
    PROVE  /\ Evaluate(t) \in Effects
           /\ Evaluate(t) # "deny" => Free(perms, t, {"deny"})
           /\ Evaluate(t) \notin {"deny", "ask"} => Free(perms, t, {"deny", "ask"})
           /\ Evaluate(t) = "allow" => \A b \in perms : Verdict(b, t) = "allow"
BY EvaluateIs DEF Effects, Restrictive, Free

\* Leaving out what no human allowed changes no other answer.
LEMMA DiscoverTells ==
    ASSUME NEW b \in Books \cup {Broken}, NEW m \in Modes
    PROVE  /\ Discover(b, m) \in [Tools -> Effects] \cup {Broken}
           /\ \A t \in Tools : Verdict(b, t) \in {"deny", "ask"} => Verdict(Discover(b, m), t) = Verdict(b, t)
           /\ m # "auto" => Cautious(Discover(b, m))
<1>1. b \in [Tools -> Effects] \cup {Broken} /\ Vetted \subseteq Books /\ Books \subseteq [Tools -> Effects]
  BY ConstantsAssumption
<1>2. CASE b = Broken
  <2>1. Discover(b, m) = Broken
    BY <1>2 DEF Discover
  <2>2. \A t \in Tools : Verdict(Broken, t) # "allow"
    BY DEF Verdict
  <2>. QED  BY <1>2, <2>1, <2>2 DEF Cautious
<1>3. CASE b # Broken /\ (b \in Vetted \/ m = "auto")
  <2>1. Discover(b, m) = b
    BY <1>3 DEF Discover
  <2>2. \A t \in Tools : Verdict(b, t) = b[t]
    BY <1>3 DEF Verdict
  <2>. QED  BY <1>1, <1>3, <2>1, <2>2 DEF Cautious
<1>4. CASE b # Broken /\ b \notin Vetted /\ m # "auto"
  <2>. DEFINE d == [t \in Tools |-> IF b[t] = "allow" THEN "none" ELSE b[t]]
  <2>1. Discover(b, m) = d
    BY <1>4 DEF Discover
  <2>2. d \in [Tools -> Effects] /\ \A t \in Tools : d[t] # "allow" /\ (b[t] # "allow" => d[t] = b[t])
    BY <1>1, <1>4 DEF Effects
  <2>. HIDE DEF d
  <2>3. \A t \in Tools : Verdict(b, t) = b[t]
    BY <1>4 DEF Verdict
  <2>4. d # Broken
    BY <2>2, ConstantsAssumption
  <2>5. \A t \in Tools : Verdict(d, t) = d[t]
    BY <2>4 DEF Verdict
  <2>. QED  BY <2>1, <2>2, <2>3, <2>5 DEF Cautious
<1>. QED  BY <1>1, <1>2, <1>3, <1>4

\* A mark that is loosened, or tells of an edit, binds no more than it did.
Loosens(mk, new) ==
    /\ new.mode = mk.mode \/ (mk.mode # "none" /\ new.mode \in Modes /\ Strictness(new.mode) <= Strictness(mk.mode))
    /\ mk.edited => new.edited

LEMMA BoundStays ==
    ASSUME NEW t, NEW r, NEW mk, NEW new, Bound(t, r, mk), mk.mode \in Modes, Loosens(mk, new)
    PROVE  Bound(t, r, new)
<1>1. /\ new.mode \in Modes /\ Strictness(new.mode) <= Strictness(mk.mode) /\ (mk.edited => new.edited)
      /\ mk.mode = "auto" => new.mode = "auto"
      /\ Strictness(mk.mode) \in 0..2 /\ Strictness(new.mode) \in 0..2 /\ Strictness(r.mode) \in 0..2
  BY ModeFacts DEF Loosens
<1>2. Strictness(r.mode) >= Strictness(new.mode)
  BY <1>1 DEF Bound
<1>3. t \in Mutating => new.mode # "readonly"
  BY <1>1, ModeFacts DEF Bound
<1>4. t \in Mutating /\ new.mode = "ask" => mk.mode = "ask"
  BY <1>1, ModeFacts DEF Bound
<1>. QED  BY <1>1, <1>2, <1>3, <1>4 DEF Bound

Typing == /\ reply \in Seq(Tools \cup {Malformed}) /\ Len(reply) \in Nat /\ Calls = 1..Len(reply)
          /\ mark \in [Calls -> Marks] /\ state \in [Calls -> States] /\ at \in Nat /\ last \in Nat
          /\ {live, saved, policy} \subseteq Modes /\ \A i \in Calls : i \in Nat /\ reply[i] \in Tools \cup {Malformed}

LEMMA Types == ASSUME TypeOK PROVE Typing
<1>1. reply \in Seq(Tools \cup {Malformed})
  <2>1. <<>> \in Seq(Tools \cup {Malformed})
    OBVIOUS
  <2>. QED  BY <2>1, ConstantsAssumption DEF TypeOK
<1>. QED  BY <1>1 DEF Typing, TypeOK, Calls, States, Judged

\* A step that refreshes the modes in force, or leaves them.
ModesMove == (UNCHANGED <<live, saved>>) \/ RefreshModes
LEMMA ModesMoved ==
    ASSUME TypeOK, ModesMove
    PROVE  /\ live' \in Modes /\ saved' \in Modes /\ saved' = saved
           /\ Strictness(live') >= Strictness(live)
           /\ Strictness(Stricter(live', saved')) >= Strictness(Stricter(live, saved))
           /\ RefreshModes => live' = Stricter(live, saved) /\ Stricter(live', saved') = live'
<1>1. live \in Modes /\ saved \in Modes
  BY DEF TypeOK
<1>2. CASE UNCHANGED <<live, saved>> /\ ~RefreshModes
  BY <1>1, <1>2, ModeFacts
<1>3. CASE RefreshModes
  <2>1. live' = Stricter(live, saved) /\ saved' = saved
    BY <1>3 DEF RefreshModes
  <2>2. live' \in Modes /\ Strictness(live') >= Strictness(live) /\ Strictness(live') >= Strictness(saved)
        /\ Strictness(live') \in Nat /\ Strictness(saved) \in Nat
    BY <1>1, <2>1, ModeFacts
  <2>3. Stricter(live', saved) = live'
    BY <2>2 DEF Stricter
  <2>. QED  BY <1>1, <2>1, <2>2, <2>3, ModeFacts
<1>. QED  BY <1>2, <1>3 DEF ModesMove

\* The modes that bind a call that has been reached.
Under(mk, l, s) == mk.mode # "none" => Strictness(Stricter(l, s)) >= Strictness(mk.mode)
Within(mk, l) == mk.mode # "none" => Strictness(l) >= Strictness(mk.mode)

LEMMA UnderStays ==
    ASSUME BoundInv, ModesMove, NEW i \in Calls
    PROVE  /\ mark[i].mode \in Modes \cup {"none"} /\ Under(mark[i], live', saved')
           /\ RefreshModes => Within(mark[i], live')
           /\ ~(place = "batch hook" /\ i = at) => Within(mark[i], live')
<1>1. Typing /\ mark[i] \in Marks /\ mark[i].mode \in Modes \cup {"none"}
  BY Types DEF BoundInv, Typing, Marks
<1>2. mark[i].mode # "none" =>
        /\ Strictness(Stricter(live, saved)) >= Strictness(mark[i].mode)
        /\ Strictness(live) >= Strictness(mark[i].mode) \/ (place = "batch hook" /\ i = at)
  BY DEF BoundInv, MarkInv
<1>3. /\ live' \in Modes /\ saved' \in Modes /\ saved' = saved
      /\ Strictness(live') >= Strictness(live)
      /\ Strictness(Stricter(live', saved')) >= Strictness(Stricter(live, saved))
      /\ RefreshModes => Stricter(live', saved') = live'
  BY ModesMoved DEF BoundInv
<1>4. /\ Strictness(live) \in Nat /\ Strictness(live') \in Nat /\ Strictness(Stricter(live, saved)) \in Nat
      /\ Strictness(Stricter(live', saved')) \in Nat /\ Strictness(mark[i].mode) \in Nat
  BY ModeFacts
<1>8. \A a \in Nat, b \in Nat, c \in Nat : a >= b /\ b >= c => a >= c
  OBVIOUS
<1>5. Under(mark[i], live', saved')
  <2>. SUFFICES ASSUME mark[i].mode # "none" PROVE Strictness(Stricter(live', saved')) >= Strictness(mark[i].mode)
    BY DEF Under
  <2>. QED  BY <1>2, <1>3, <1>4, <1>8
<1>6. RefreshModes => Within(mark[i], live')
  BY <1>1, <1>3, <1>4, <1>5 DEF Under, Within
<1>7. ~(place = "batch hook" /\ i = at) => Within(mark[i], live')
  <2>. SUFFICES ASSUME mark[i].mode # "none", ~(place = "batch hook" /\ i = at)
                PROVE  Strictness(live') >= Strictness(mark[i].mode)
    BY DEF Within
  <2>. QED  BY <1>2, <1>3, <1>4, <1>8
<1>. QED  BY <1>1, <1>5, <1>6, <1>7

LEMMA ReachedIs ==
    ASSUME TypeOK, ModesMove, NEW i \in Calls, Reached(i)
    PROVE  /\ mark' \in [Calls -> Marks] /\ mark'[i].mode = Stricter(live', saved') /\ mark'[i].mode \in Modes
           /\ mark'[i].edited = mark[i].edited /\ mark'[i].hooks = mark[i].hooks /\ mark'[i].said = mark[i].said
           /\ \A j \in Calls \ {i} : mark'[j] = mark[j]
<1>. DEFINE m == Stricter(live', saved')
            r == [mark[i] EXCEPT !.mode = m]
<1>1. Typing /\ m \in Modes
  BY Types, ModesMoved, ModeFacts
<1>2. mark[i] \in Marks /\ mark' = [mark EXCEPT ![i] = r]
  BY <1>1 DEF Typing, Reached
<1>3. r \in Marks /\ r.mode = m /\ r.edited = mark[i].edited /\ r.hooks = mark[i].hooks /\ r.said = mark[i].said
  BY <1>1, <1>2 DEF Marks
<1>. HIDE DEF r, m
<1>. QED  BY <1>1, <1>2, <1>3 DEF Typing, m

LEMMA ConsultedIs ==
    ASSUME TypeOK, NEW i \in Calls, Consulted(i)
    PROVE  /\ mark' \in [Calls -> Marks] /\ mark'[i].mode = mark[i].mode
           /\ mark'[i].edited = mark[i].edited /\ mark'[i].hooks = mark[i].hooks + 1 /\ mark'[i].said = mark[i].said
           /\ \A j \in Calls \ {i} : mark'[j] = mark[j]
<1>. DEFINE r == [mark[i] EXCEPT !.hooks = @ + 1]
<1>1. Typing
  BY Types
<1>2. mark[i] \in Marks /\ mark' = [mark EXCEPT ![i] = r]
  BY <1>1 DEF Typing, Consulted
<1>3. r \in Marks /\ r.mode = mark[i].mode /\ r.edited = mark[i].edited /\ r.hooks = mark[i].hooks + 1 /\ r.said = mark[i].said
  BY <1>2 DEF Marks
<1>. HIDE DEF r
<1>. QED  BY <1>1, <1>2, <1>3 DEF Typing

\* A refresh loads the rules of a mode that moved.
LEMMA Refreshes ==
    ASSUME BoundInv, Refresh
    PROVE  /\ ModesMove /\ RefreshModes /\ policy' = live' /\ live' \in Modes
           /\ perms \subseteq perms' /\ perms' \subseteq [Tools -> Effects] \cup {Broken}
           /\ policy' = policy => perms' = perms
           /\ UNCHANGED written => RulesInv'
<1>1. RefreshModes /\ policy' = live' /\ perms' = IF live' = policy THEN perms ELSE perms \cup {Discover(book, live')}
  BY DEF Refresh
<1>2. ModesMove /\ live' \in Modes
  BY <1>1, ModesMoved DEF ModesMove, BoundInv
<1>3. book \in Books \cup {Broken} /\ perms \subseteq [Tools -> Effects] \cup {Broken} /\ RulesInv
  BY DEF BoundInv, TypeOK
<1>4. Discover(book, live') \in [Tools -> Effects] \cup {Broken} /\ (live' # "auto" => Cautious(Discover(book, live')))
  BY <1>2, <1>3, DiscoverTells
<1>5. perms \subseteq perms' /\ perms' \subseteq [Tools -> Effects] \cup {Broken} /\ (policy' = policy => perms' = perms)
  BY <1>1, <1>3, <1>4
<1>6. policy' # "auto" => \E b \in perms' : Cautious(b)
  <2>1. CASE policy' = policy
    BY <1>3, <1>5, <2>1 DEF RulesInv
  <2>2. CASE policy' # policy
    BY <1>1, <1>4, <2>2
  <2>. QED  BY <2>1, <2>2
<1>7. UNCHANGED written => RulesInv'
  BY <1>3, <1>5, <1>6 DEF RulesInv
<1>. QED  BY <1>1, <1>2, <1>5, <1>7

\* Closing the first call that is not closed.
Closes(i) ==
    /\ state' \in [Calls -> States] /\ state'[i] = "closed" /\ \A j \in Calls \ {i} : state'[j] = state[j]
    /\ replies' \in Seq(Nat) /\ (\A k \in DOMAIN replies' : replies'[k] = k) /\ Len(replies') = i
    /\ \A j \in Calls : state'[j] = "closed" <=> j <= i
LEMMA CloseIs ==
    ASSUME BoundInv, NEW i \in Calls, i = Len(replies) + 1, place # "done",
           replies' = Append(replies, i), state' = [state EXCEPT ![i] = "closed"]
    PROVE  Closes(i)
<1>1. Typing /\ replies \in Seq(Nat) /\ (\A k \in DOMAIN replies : replies[k] = k) /\ i \in Nat
      /\ \A j \in Calls : state[j] = "closed" <=> j <= Len(replies)
  BY Types DEF BoundInv, AnswerInv, Typing
<1>2. /\ state' \in [Calls -> States] /\ state'[i] = "closed" /\ \A j \in Calls \ {i} : state'[j] = state[j]
  BY <1>1 DEF Typing, States
<1>3. replies' \in Seq(Nat) /\ Len(replies') = i /\ \A k \in 1..i : replies'[k] = k
  BY <1>1
<1>4. \A j \in Calls : state'[j] = "closed" <=> j <= i
  BY <1>1, <1>2 DEF Typing
<1>. QED  BY <1>2, <1>3, <1>4 DEF Closes

LEMMA AnsweredIs ==
    ASSUME NEW n \in Nat, Calls' = 1..n, replies' \in Seq(Nat), \A k \in DOMAIN replies' : replies'[k] = k, Len(replies') <= n
    PROVE  Answered' \subseteq Calls'
BY DEF Answered

------------------------------------------------------------------------------
(* Calls answered, and on to the next *)

LEMMA LoosensSame == ASSUME NEW mk PROVE Loosens(mk, mk)
BY DEF Loosens

\* What has run stays bound while marks are loosened.
LEMMA RanStays ==
    ASSUME BoundInv, UNCHANGED <<reply, ran>>, \A i \in Ran : Loosens(mark[i], mark'[i])
    PROVE  /\ Ran' = Ran /\ Calls' = Calls
           /\ \A i \in Ran' : mark'[i].mode # "none" /\ Bound(reply'[i], ran'[i], mark'[i])
<1>1. Ran' = Ran /\ Calls' = Calls
  BY DEF Ran, Calls
<1>2. ASSUME NEW i \in Ran PROVE mark'[i].mode # "none" /\ Bound(reply'[i], ran'[i], mark'[i])
  <2>1. i \in Calls /\ mark[i].mode # "none" /\ Bound(reply[i], ran[i], mark[i])
    BY DEF BoundInv, RanInv, Ran
  <2>2. mark[i].mode \in Modes
    BY <2>1, Types DEF BoundInv, Typing, Marks
  <2>3. Bound(reply[i], ran[i], mark'[i])
    BY <2>1, <2>2, BoundStays
  <2>. QED  BY <2>1, <2>2, <2>3, ModeFacts DEF Loosens
<1>. QED  BY <1>1, <1>2

\* The calls up to n are answered and no other has begun.
ClosedTo(n) ==
    /\ state' \in [Calls -> States]
    /\ \A j \in Calls : state'[j] = "closed" <=> j <= n
    /\ \A j \in Calls : j > n => state'[j] = "new"
    /\ replies' \in Seq(Nat) /\ Len(replies') = n /\ \A k \in DOMAIN replies' : replies'[k] = k

LEMMA ClosedStep ==
    ASSUME BoundInv, NEW n \in 0..Len(reply), ClosedTo(n), (place' = "over" /\ at' \in Calls) \/ Onward(n),
           UNCHANGED <<reply, formed, ran, cancelled>>, changes' \in 0..MaxChanges,
           \A i \in Calls : Under(mark'[i], live', saved') /\ Within(mark'[i], live'),
           \A i \in Ran : i <= n /\ Loosens(mark[i], mark'[i])
    PROVE  /\ PlaceInv' /\ AnswerInv' /\ StateInv' /\ MarkInv' /\ AdmitInv' /\ RanInv'
           /\ at' \in 0..Len(reply') /\ Answered' \subseteq Calls' /\ state' \in [Calls' -> States]
<1>1. Typing /\ Calls' = Calls /\ Len(reply') = Len(reply)
  BY Types DEF BoundInv, Calls
<1>2. \/ place' = "over" /\ at' \in 0..Len(reply)
      \/ place' = "segment" /\ at' = n + 1 /\ at' \in Calls
  BY <1>1 DEF Onward, Goto, Typing
<1>3. PlaceInv'
  BY <1>1, <1>2 DEF BoundInv, PlaceInv, Places, Single, Batched
<1>4. AnswerInv'
  BY <1>1, <1>2 DEF AnswerInv, ClosedTo
<1>5. StateInv'
  <2>1. place' = "over" => StateInv'
    BY DEF StateInv, Single, Batched
  <2>2. ASSUME place' = "segment" PROVE StateInv'
    <3>1. at' = Len(replies') + 1 /\ Len(replies') = n /\ n \in Nat
      BY <1>1, <1>2, <2>2 DEF ClosedTo, Typing
    <3>2. \A i \in Calls' : i >= at' => state'[i] = "new"
      BY <1>1, <3>1 DEF ClosedTo, Typing
    <3>. QED  BY <2>2, <3>1, <3>2 DEF StateInv, Single, Batched
  <2>. QED  BY <1>2, <2>1, <2>2
<1>6. MarkInv'
  BY <1>1, <1>2 DEF MarkInv, Under, Within, Single, Batched
<1>7. AdmitInv'
  BY <1>2 DEF AdmitInv, Batched
<1>8. RanInv'
  <2>1. Ran' = Ran /\ \A i \in Ran' : mark'[i].mode # "none" /\ Bound(reply'[i], ran'[i], mark'[i])
    BY RanStays
  <2>2. \A i \in Ran' : state'[i] = "closed"
    BY <2>1 DEF ClosedTo, Ran
  <2>. QED  BY <2>1, <2>2 DEF RanInv
<1>9. Answered' \subseteq Calls'
  BY <1>1 DEF Answered, ClosedTo, Typing
<1>10. at' \in 0..Len(reply') /\ state' \in [Calls' -> States]
  BY <1>1, <1>2 DEF ClosedTo, Typing
<1>. QED  BY <1>3, <1>4, <1>5, <1>6, <1>7, <1>8, <1>9, <1>10

\* What has run, at a place where no call does, is answered.
LEMMA RanClosed ==
    ASSUME BoundInv, place \in Places \ {"run", "batch", "done"}
    PROVE  \A i \in Ran : i <= Len(replies)
BY DEF BoundInv, RanInv, AnswerInv, Ran, Places, Single, Batched

\* The numbers of the calls.
Numbers ==
    /\ Len(reply) \in Nat /\ Calls = 1..Len(reply) /\ Len(replies) \in 0..Len(reply)
    /\ at \in 0..Len(reply) /\ last \in 0..Len(reply)
LEMMA Counts == ASSUME BoundInv PROVE Numbers
<1>1. Typing /\ at \in 0..Len(reply) /\ last \in 0..Len(reply)
  BY Types DEF BoundInv, TypeOK
<1>2. Len(replies) \in Nat /\ Len(replies) <= Len(reply)
  BY DEF BoundInv, AnswerInv
<1>. QED  BY <1>1, <1>2 DEF Typing, Numbers

\* Receiving a reply.
LEMMA ReceiveStep == ASSUME BoundInv, Receive PROVE BoundInv'
<1>1. /\ place = "request" /\ UNCHANGED <<gate, disk, changes, last, card, cancelled, log, replies, written>>
      /\ reply' \in Replies /\ formed'.calls = {i \in DOMAIN reply' : Batchable(reply'[i])}
      /\ state' = [i \in DOMAIN reply' |-> "new"] /\ mark' = [i \in DOMAIN reply' |-> Unmarked]
      /\ ran' = [i \in DOMAIN reply' |-> <<>>] /\ place' = "segment" /\ at' = 1
  BY DEF Receive, Goto
<1>2. reply = <<>> /\ replies = <<>> /\ Typing /\ last = 0
  BY <1>1, Types DEF BoundInv, PlaceInv, AnswerInv, TypeOK
<1>3. reply' \in Seq(Tools \cup {Malformed}) /\ reply' # <<>> /\ Len(reply') \in Nat /\ Calls' = 1..Len(reply')
  BY <1>1, ConstantsAssumption DEF Calls
<1>4. Len(reply') >= 1 /\ 1 \in Calls'
  BY <1>3
<1>5. Unmarked \in Marks /\ Unmarked.mode = "none"
  BY DEF Unmarked, Marks
<1>6. Ran' = {}
  BY <1>1, <1>3 DEF Ran, Calls
<1>7. \A i \in formed'.calls : i \in Calls' /\ reply'[i] \in Tools \ Mutating
  BY <1>1, <1>3 DEF Batchable, Calls
<1>8. TypeOK'
  <2>1. mark' \in [Calls' -> Marks] /\ DOMAIN ran' = Calls' /\ Answered' \subseteq Calls'
    BY <1>1, <1>2, <1>5 DEF Calls, Answered
  <2>2. state' \in [Calls' -> {"new", "asked", "blocked", "unasked", "ready", "running", "ended", "closed"}]
    BY <1>1 DEF Calls
  <2>3. card' \in Cards(Len(reply'))
    <3>1. card' = card /\ card \in Cards(Len(reply)) /\ Len(reply) = 0
      BY <1>1, <1>2 DEF BoundInv, TypeOK
    <3>2. Cards(0) \subseteq Cards(Len(reply'))
      BY <1>3 DEF Cards
    <3>. QED  BY <3>1, <3>2
  <2>. QED  BY <1>1, <1>2, <1>3, <1>4, <1>7, <2>1, <2>2, <2>3 DEF BoundInv, TypeOK, gate, disk
<1>9. PlaceInv'
  BY <1>1, <1>4, <1>7 DEF BoundInv, PlaceInv, Places, Single, Batched
<1>10. AnswerInv' /\ StateInv'
  BY <1>1, <1>2, <1>3 DEF AnswerInv, StateInv, Single, Batched, Calls
<1>11. MarkInv' /\ AdmitInv' /\ RanInv'
  BY <1>1, <1>5, <1>6 DEF MarkInv, AdmitInv, RanInv, Single, Batched, Calls
<1>12. RulesInv'
  BY <1>1 DEF BoundInv, RulesInv, gate
<1>. QED  BY <1>8, <1>9, <1>10, <1>11, <1>12 DEF BoundInv

\* The type, but for what answering a call moves.
TypeRest ==
    /\ {live, saved, policy} \subseteq Modes /\ perms \subseteq [Tools -> Effects] \cup {Broken}
    /\ book \in Books \cup {Broken} /\ written \subseteq Books \cup {Broken}
    /\ code \in [Tools -> Code] /\ approved \subseteq External \X Code
    /\ reply \in Replies \cup {<<>>} /\ formed.calls \subseteq Calls /\ last \in 0..Len(reply)
    /\ card \in Cards(Len(reply))
    /\ mark \in [Calls -> Marks] /\ DOMAIN ran = Calls
LEMMA TypeParts == TypeOK <=>
    TypeRest /\ at \in 0..Len(reply) /\ Answered \subseteq Calls /\ state \in [Calls -> States]
BY DEF TypeOK, TypeRest, States, Judged
LEMMA TypeParts2 == TypeOK' <=>
    TypeRest' /\ at' \in 0..Len(reply') /\ Answered' \subseteq Calls' /\ state' \in [Calls' -> States]
BY DEF TypeOK, TypeRest, States, Judged

\* Reaching a segment.
LEMMA EnterStep == ASSUME BoundInv, Enter PROVE BoundInv'
<1>1. /\ place = "segment" /\ Refresh /\ Reached(at) /\ at \in Calls /\ Typing /\ TypeOK /\ TypeRest
      /\ UNCHANGED <<disk, changes, reply, formed, card, cancelled, ran, written>> /\ Calls' = Calls
      /\ changes \in 0..MaxChanges
  BY Types, TypeParts DEF Enter, BoundInv, PlaceInv, Calls
<1>2. /\ ModesMove /\ RefreshModes /\ policy' = live' /\ live' \in Modes /\ saved' \in Modes
      /\ perms' \subseteq [Tools -> Effects] \cup {Broken} /\ RulesInv' /\ Stricter(live', saved') = live'
  BY <1>1, Refreshes, ModesMoved
<1>3. /\ mark' \in [Calls -> Marks] /\ mark'[at].mode = live'
      /\ \A j \in Calls \ {at} : mark'[j] = mark[j]
  BY <1>1, <1>2, ReachedIs
<1>4. ASSUME NEW i \in Calls PROVE Under(mark'[i], live', saved') /\ Within(mark'[i], live')
  <2>1. CASE i = at
    BY <1>2, <1>3, <2>1, ModeFacts DEF Under, Within
  <2>2. CASE i # at
    <3>1. mark'[i] = mark[i] /\ Under(mark[i], live', saved') /\ Within(mark[i], live')
      BY <1>2, <1>3, <2>2, UnderStays
    <3>. QED  BY <3>1
  <2>. QED  BY <2>1, <2>2
<1>5. /\ at = Len(replies) + 1
      /\ \A i \in Calls : i >= at => state[i] = "new"
      /\ \A i \in Calls : state[i] = "closed" <=> i <= Len(replies)
  BY <1>1 DEF BoundInv, StateInv, AnswerInv, Single
<1>n. Numbers
  BY Counts
<1>s. replies \in Seq(Nat) /\ \A k \in DOMAIN replies : replies[k] = k
  BY DEF BoundInv, AnswerInv
<1>c. Calls' = Calls
  BY <1>1
<1>6. \A i \in Ran : i \in Calls /\ i <= Len(replies) /\ Loosens(mark[i], mark'[i])
  <2>1. \A i \in Ran : i \in Calls /\ i <= Len(replies)
    BY <1>1, RanClosed DEF Places, Ran
  <2>2. \A i \in Ran : mark'[i] = mark[i]
    BY <1>3, <1>5, <1>n, <2>1 DEF Numbers
  <2>. QED  BY <2>1, <2>2, LoosensSame
<1>7. Ran' = Ran /\ \A i \in Ran' : mark'[i].mode # "none" /\ Bound(reply'[i], ran'[i], mark'[i])
  BY <1>1, <1>6, RanStays
<1>8. last' \in 0..Len(reply') => TypeRest'
  BY <1>1, <1>2, <1>3 DEF TypeRest, disk
<1>9. CASE cancelled /\ Goto("over", at) /\ UNCHANGED <<last, state, log, replies>>
  <2>1. ClosedTo(Len(replies))
    <3>1. state' = state /\ replies' = replies /\ state \in [Calls -> States]
      BY <1>1, <1>9 DEF Typing
    <3>2. \A j \in Calls : j > Len(replies) => state[j] = "new"
      BY <1>5, <1>n DEF Numbers
    <3>. QED  BY <1>5, <1>s, <3>1, <3>2 DEF ClosedTo
  <2>2. place' = "over" /\ at' \in Calls
    BY <1>1, <1>9 DEF Goto
  <2>3. /\ PlaceInv' /\ AnswerInv' /\ StateInv' /\ MarkInv' /\ AdmitInv' /\ RanInv'
        /\ at' \in 0..Len(reply') /\ Answered' \subseteq Calls' /\ state' \in [Calls' -> States]
    BY <1>1, <1>4, <1>6, <1>n, <2>1, <2>2, ClosedStep DEF Numbers
  <2>. QED  BY <1>1, <1>2, <1>8, <1>9, <2>3, TypeParts2 DEF BoundInv, TypeRest
<1>10. CASE ~cancelled /\ reply[at] = Malformed /\ replies' = Append(replies, at)
            /\ state' = [state EXCEPT ![at] = "closed"] /\ Onward(at) /\ UNCHANGED last
  <2>1. Closes(at)
    BY <1>1, <1>5, <1>10, CloseIs
  <2>2. ClosedTo(at) /\ at \in 0..Len(reply)
    <3>1. at \in 0..Len(reply)
      BY <1>n DEF Numbers
    <3>2. \A j \in Calls : j > at => state'[j] = "new"
      BY <1>5, <1>n, <2>1 DEF Closes, Numbers
    <3>. QED  BY <2>1, <3>1, <3>2 DEF Closes, ClosedTo
  <2>3. \A i \in Ran : i <= at /\ Loosens(mark[i], mark'[i])
    BY <1>5, <1>6, <1>n DEF Numbers
  <2>4. /\ PlaceInv' /\ AnswerInv' /\ StateInv' /\ MarkInv' /\ AdmitInv' /\ RanInv'
        /\ at' \in 0..Len(reply') /\ Answered' \subseteq Calls' /\ state' \in [Calls' -> States]
    BY <1>1, <1>4, <1>10, <2>2, <2>3, ClosedStep
  <2>. QED  BY <1>1, <1>2, <1>8, <1>10, <2>4, TypeParts2 DEF BoundInv, TypeRest
<1>11. CASE /\ ~cancelled /\ reply[at] # Malformed /\ UNCHANGED <<state, replies>>
            /\ \/ Goto("batch hook", at) /\ last' \in GroupEnds(at)
               \/ Goto("hook", at) /\ UNCHANGED last
  <2>1. /\ state' = state /\ replies' = replies /\ reply' = reply /\ formed' = formed /\ at' = at
        /\ changes' = changes /\ cancelled' = cancelled /\ ran' = ran
    BY <1>1, <1>11 DEF Goto
  <2>p. place' \in {"hook", "batch hook"} /\ (place' = "hook" => last' = last)
    BY <1>11 DEF Goto
  <2>t. reply[at] \in Tools
    BY <1>1, <1>11 DEF Typing
  <2>2. place' = "batch hook" => last' \in Calls /\ at < last'
    BY <1>11 DEF Goto, GroupEnds
  <2>g. place' = "batch hook" => at..last' \subseteq formed.calls
    BY <1>11 DEF Goto, GroupEnds
  <2>l. last' \in 0..Len(reply)
    <3>1. CASE last' = last
      BY <1>n, <3>1 DEF Numbers
    <3>2. CASE last' \in Calls
      BY <1>n, <3>2 DEF Numbers
    <3>. QED  BY <2>2, <2>p, <3>1, <3>2
  <2>3. TypeOK'
    <3>1. last' \in 0..Len(reply')
      BY <2>1, <2>l
    <3>. QED  BY <1>1, <1>8, <2>1, <3>1, TypeParts, TypeParts2 DEF Answered
  <2>4. PlaceInv'
    BY <1>1, <2>1, <2>p, <2>t DEF BoundInv, PlaceInv, Places, Single, Batched
  <2>5. AnswerInv'
    BY <1>1, <2>1, <2>p DEF BoundInv, AnswerInv
  <2>6. StateInv'
    <3>1. CASE place' = "hook"
      BY <1>1, <1>5, <2>1, <3>1 DEF StateInv, Single, Batched
    <3>2. CASE place' = "batch hook"
      <4>1. Len(replies') < at' /\ at' <= last' /\ last' \in Calls' /\ last' \in Nat
        <5>1. last' \in Nat /\ at \in Nat /\ Len(replies) < at /\ at <= last'
          <6>1. last' \in Nat /\ at \in Nat /\ Len(replies) \in Nat
            BY <2>l, <1>n DEF Numbers
          <6>2. at < last' /\ at = Len(replies) + 1
            BY <1>5, <2>2, <3>2
          <6>. QED  BY <6>1, <6>2
        <5>. QED  BY <1>c, <2>1, <2>2, <3>2, <5>1
      <4>2. \A i \in Calls' : Len(replies') < i /\ i <= last' => i \in formed'.calls
        <5>1. \A i \in Calls : Len(replies) < i /\ i <= last' => i \in at..last'
          BY <1>5, <2>l, <1>n DEF Numbers
        <5>. QED  BY <1>c, <2>1, <2>g, <3>2, <5>1
      <4>3. \A i \in Calls : i >= at => state[i] = "new"
        BY <1>5
      <4>4. \A i \in Calls' : i > last' => state'[i] = "new"
        BY <1>c, <2>1, <1>n, <4>1, <4>3 DEF Numbers
      <4>5. /\ \A i \in Calls' : i > at' => state'[i] = "new"
            /\ state'[at'] = "new"
        <5>1. (\A i \in Calls : i > at => state[i] = "new") /\ state[at] = "new"
          BY <1>1, <1>n, <4>3 DEF Numbers
        <5>. QED  BY <1>c, <2>1, <5>1
      <4>6. \A i \in Calls' : ~(Len(replies') < i /\ i < at')
        BY <1>c, <1>5, <2>1, <1>n DEF Numbers
      <4>. QED  BY <3>2, <4>1, <4>2, <4>4, <4>5, <4>6 DEF StateInv, Single, Batched
    <3>. QED  BY <2>p, <3>1, <3>2
  <2>7. MarkInv'
    <3>1. \A i \in Calls' : Len(replies') < i /\ i <= at' => i = at
      BY <1>c, <1>5, <2>1, <1>n DEF Numbers
    <3>2. mark'[at].mode # "none"
      BY <1>2, <1>3, ModeFacts
    <3>. QED  BY <1>1, <1>4, <2>1, <2>p, <3>1, <3>2 DEF MarkInv, Under, Within, Single, Batched
  <2>8. AdmitInv'
    <3>1. \A i \in Calls' : state'[i] \in {"new", "closed"}
      BY <1>5, <2>1, <1>n, <1>c DEF Numbers
    <3>. QED  BY <2>p, <3>1 DEF AdmitInv, Admitted
  <2>9. RanInv'
    <3>1. \A i \in Ran' : state'[i] = "closed"
      BY <1>5, <1>6, <1>7, <2>1
    <3>. QED  BY <1>7, <3>1 DEF RanInv
  <2>. QED  BY <1>2, <2>3, <2>4, <2>5, <2>6, <2>7, <2>8, <2>9 DEF BoundInv
<1>. QED  BY <1>1, <1>9, <1>10, <1>11 DEF Enter

------------------------------------------------------------------------------
(* One call by itself *)

LEMMA SerialFacts ==
    ASSUME BoundInv, place \in {"segment"} \cup Single
    PROVE  /\ at = Len(replies) + 1
           /\ \A i \in Calls : i >= at => state[i] = "new"
           /\ \A i \in Calls : state[i] = "closed" <=> i <= Len(replies)
BY DEF BoundInv, StateInv, AnswerInv, Single

LEMMA SerialAt ==
    ASSUME BoundInv, place \in {"segment"} \cup Single
    PROVE  at \in Calls /\ (place \in Single => reply[at] \in Tools /\ mark[at].mode # "none" /\ mark[at].mode \in Modes)
<1>1. at \in Calls /\ (place \in Single => reply[at] \in Tools)
  BY DEF BoundInv, PlaceInv
<1>2. Len(replies) < at /\ at <= at
  BY SerialFacts, Counts DEF Numbers
<1>3. place \in Single => mark[at].mode # "none"
  BY <1>1, <1>2 DEF BoundInv, MarkInv
<1>4. mark[at] \in Marks
  BY <1>1, Types DEF BoundInv, Typing
<1>. QED  BY <1>1, <1>3, <1>4 DEF Marks

\* Nothing has run but what is answered, and the call at hand where it runs.
LEMMA SerialRan ==
    ASSUME BoundInv, place \in {"segment"} \cup Single
    PROVE  /\ \A i \in Ran : i \in Calls /\ i <= at
           /\ place # "run" => \A i \in Ran : state[i] = "closed" /\ i # at
<1>1. \A i \in Ran : i \in Calls /\ (state[i] = "closed" \/ (place = "run" /\ i = at))
  BY DEF BoundInv, RanInv, Ran, Single
<1>2. \A i \in Calls : state[i] = "closed" => i < at
  BY SerialFacts, Counts DEF Numbers
<1>3. at \in Nat /\ \A i \in Calls : i \in Nat
  BY Counts DEF Numbers
<1>. QED  BY <1>1, <1>2, <1>3

\* The call at hand is answered, and the turn goes on or is over.
LEMMA SerialEnd ==
    ASSUME BoundInv, place \in {"segment"} \cup Single, replies' = Append(replies, at),
           state' = [state EXCEPT ![at] = "closed"], Goto("over", at) \/ Onward(at),
           UNCHANGED <<reply, formed, ran, cancelled>>, changes' \in 0..MaxChanges,
           \A i \in Calls : Under(mark'[i], live', saved') /\ Within(mark'[i], live'),
           \A i \in Ran : Loosens(mark[i], mark'[i])
    PROVE  /\ PlaceInv' /\ AnswerInv' /\ StateInv' /\ MarkInv' /\ AdmitInv' /\ RanInv'
           /\ at' \in 0..Len(reply') /\ Answered' \subseteq Calls' /\ state' \in [Calls' -> States]
<1>1. at \in Calls /\ at \in 0..Len(reply) /\ place # "done"
  BY SerialAt, Counts DEF Numbers, Single
<1>2. at = Len(replies) + 1
  BY SerialFacts
<1>3. Closes(at)
  BY <1>1, <1>2, CloseIs
<1>4. \A j \in Calls : j > at => state'[j] = "new"
  BY <1>3, SerialFacts, Counts DEF Closes, Numbers
<1>5. ClosedTo(at)
  BY <1>3, <1>4 DEF Closes, ClosedTo
<1>6. (place' = "over" /\ at' \in Calls) \/ Onward(at)
  BY <1>1 DEF Goto
<1>7. \A i \in Ran : i <= at /\ Loosens(mark[i], mark'[i])
  BY SerialRan
<1>. QED  BY <1>1, <1>5, <1>6, <1>7, ClosedStep

\* The call at hand goes to another of its places.
LEMMA SerialMove ==
    ASSUME BoundInv, place \in Single, Goto("judge", at) \/ Goto("card", at) \/ Goto("run", at),
           UNCHANGED <<reply, formed, cancelled, replies, state>>, changes' \in 0..MaxChanges,
           \A i \in Calls : Under(mark'[i], live', saved') /\ Within(mark'[i], live') /\ mark'[i].mode = mark[i].mode,
           place' = "judge" => Strictness(policy') >= Strictness(mark'[at].mode)
    PROVE  /\ PlaceInv' /\ AnswerInv' /\ StateInv' /\ MarkInv'
           /\ at' \in 0..Len(reply') /\ Answered' \subseteq Calls' /\ state' \in [Calls' -> States]
<1>1. /\ at' = at /\ reply' = reply /\ Calls' = Calls /\ formed' = formed /\ cancelled' = cancelled
      /\ replies' = replies /\ state' = state
  BY DEF Goto, Calls
<1>2. place' \in {"judge", "card", "run"}
  BY DEF Goto
<1>3. at \in Calls /\ reply[at] \in Tools /\ mark[at].mode # "none"
  BY SerialAt
<1>4. PlaceInv'
  BY <1>1, <1>2, <1>3 DEF BoundInv, PlaceInv, Places, Single, Batched
<1>5. AnswerInv'
  BY <1>1, <1>2 DEF BoundInv, AnswerInv, Single
<1>6. StateInv'
  <2>1. at = Len(replies) + 1 /\ \A i \in Calls : i >= at => state[i] = "new"
    BY SerialFacts
  <2>. QED  BY <1>1, <1>2, <2>1 DEF StateInv, Single, Batched
<1>7. MarkInv'
  <2>1. \A i \in Calls : Len(replies) < i /\ i <= at => i = at
    BY SerialFacts, Counts DEF Numbers
  <2>2. \A i \in Calls' : Len(replies') < i /\ i <= at' => mark'[i].mode # "none"
    BY <1>1, <1>3, <2>1
  <2>3. \A i \in Calls' : mark'[i].mode # "none" =>
          /\ Strictness(Stricter(live', saved')) >= Strictness(mark'[i].mode)
          /\ Strictness(live') >= Strictness(mark'[i].mode)
    BY <1>1 DEF Under, Within
  <2>. QED  BY <1>1, <1>2, <2>2, <2>3 DEF MarkInv
<1>8. at' \in 0..Len(reply')
  BY <1>1, Counts DEF Numbers
<1>9. Answered' \subseteq Calls' /\ state' \in [Calls' -> States]
  BY <1>1, Types, TypeParts DEF BoundInv, Answered
<1>. QED  BY <1>4, <1>5, <1>6, <1>7, <1>8, <1>9

\* A call's hooks have judged it.
LEMMA HookStep == ASSUME BoundInv, Hook PROVE BoundInv'
<1>1. /\ place = "hook" /\ Refresh /\ Consulted(at) /\ TypeRest /\ changes \in 0..MaxChanges /\ TypeOK
      /\ UNCHANGED <<disk, changes, reply, formed, last, card, cancelled, ran, written>> /\ Calls' = Calls
  BY TypeParts DEF Hook, BoundInv, PlaceInv, Calls
<1>2. /\ ModesMove /\ RefreshModes /\ policy' = live' /\ live' \in Modes /\ saved' \in Modes
      /\ perms' \subseteq [Tools -> Effects] \cup {Broken} /\ RulesInv'
  BY <1>1, Refreshes, ModesMoved
<1>3. at \in Calls /\ mark[at].mode # "none"
  BY <1>1, SerialAt DEF Single
<1>4. /\ mark' \in [Calls -> Marks]
      /\ \A i \in Calls : mark'[i].mode = mark[i].mode /\ mark'[i].edited = mark[i].edited
  BY <1>1, <1>3, ConsultedIs
<1>5. \A i \in Calls : Under(mark'[i], live', saved') /\ Within(mark'[i], live') /\ mark'[i].mode = mark[i].mode
  <2>1. \A i \in Calls : Under(mark[i], live', saved') /\ Within(mark[i], live')
    BY <1>2, UnderStays
  <2>. QED  BY <1>4, <2>1 DEF Under, Within
<1>6. \A i \in Ran : Loosens(mark[i], mark'[i])
  BY <1>4 DEF Loosens, Ran
<1>7. TypeRest'
  BY <1>1, <1>2, <1>4 DEF TypeRest, disk
<1>8. CASE Goto("judge", at) /\ UNCHANGED <<log, replies, state>>
  <2>1. place' = "judge" => Strictness(policy') >= Strictness(mark'[at].mode)
    BY <1>2, <1>3, <1>5 DEF Within
  <2>2. /\ PlaceInv' /\ AnswerInv' /\ StateInv' /\ MarkInv'
        /\ at' \in 0..Len(reply') /\ Answered' \subseteq Calls' /\ state' \in [Calls' -> States]
    BY <1>1, <1>5, <1>8, <2>1, SerialMove DEF Single
  <2>3. AdmitInv'
    BY <1>8 DEF AdmitInv, Goto, Batched
  <2>4. RanInv'
    <3>1. Ran' = Ran /\ \A i \in Ran' : mark'[i].mode # "none" /\ Bound(reply'[i], ran'[i], mark'[i])
      BY <1>1, <1>6, RanStays
    <3>2. \A i \in Ran : state'[i] = "closed"
      BY <1>1, <1>8, SerialRan DEF Single
    <3>. QED  BY <3>1, <3>2 DEF RanInv
  <2>. QED  BY <1>2, <1>7, <2>2, <2>3, <2>4, TypeParts2 DEF BoundInv
<1>9. CASE Close(at) /\ (Goto("over", at) \/ Onward(at))
  <2>1. /\ PlaceInv' /\ AnswerInv' /\ StateInv' /\ MarkInv' /\ AdmitInv' /\ RanInv'
        /\ at' \in 0..Len(reply') /\ Answered' \subseteq Calls' /\ state' \in [Calls' -> States]
    BY <1>1, <1>5, <1>6, <1>9, SerialEnd DEF Close, Single
  <2>. QED  BY <1>2, <1>7, <2>1, TypeParts2 DEF BoundInv
<1>. QED  BY <1>8, <1>9 DEF Hook

\* The rules a call passes bind it.
LEMMA WrittenBind ==
    ASSUME BoundInv, NEW t \in Tools, NEW es \in {{"deny"}, {"deny", "ask"}}, Free(perms, t, es)
    PROVE  \A b \in written : Verdict(b, t) \notin es
<1>. SUFFICES ASSUME NEW b \in written, Verdict(b, t) \in es PROVE FALSE
  OBVIOUS
<1>1. b \in Books \cup {Broken} /\ \E m \in Modes : Discover(b, m) \in perms
  BY DEF BoundInv, TypeOK, RulesInv
<1>2. PICK m \in Modes : Discover(b, m) \in perms
  BY <1>1
<1>3. Verdict(b, t) \in {"deny", "ask"}
  OBVIOUS
<1>4. Verdict(Discover(b, m), t) = Verdict(b, t)
  BY <1>1, <1>3, DiscoverTells
<1>. QED  BY <1>2, <1>4 DEF Free

\* What has ended up allowed by every rule in force is allowed by a rule a
\* human vetted.
LEMMA AllowedIsVetted ==
    ASSUME BoundInv, NEW t \in Tools, policy # "auto", Evaluate(t) = "allow"
    PROVE  \E b \in Vetted : b[t] = "allow"
<1>1. perms # {} /\ perms \subseteq [Tools -> Effects] \cup {Broken} /\ \E b \in perms : Cautious(b)
  BY DEF BoundInv, RulesInv, TypeOK
<1>2. PICK b \in perms : Cautious(b)
  BY <1>1
<1>3. Verdict(b, t) = "allow"
  BY <1>1, EvaluateTells
<1>. QED  BY <1>2, <1>3 DEF Cautious

\* What a serial call that runs without a card was let in under.
LEMMA RulingBinds ==
    ASSUME BoundInv, place = "judge", NEW r, r.mode = live, r.card = FALSE, r.rules = written,
           r.unapproved = Unapproved(reply[at]), Ruling(reply[at], live, Evaluate(reply[at])) = "runs"
    PROVE  Bound(reply[at], r, mark[at])
<1>. DEFINE t == reply[at]
            e == Evaluate(t)
            mk == mark[at]
<1>1. t \in Tools /\ mk.mode \in Modes /\ at \in Calls
  BY SerialAt DEF Single
<1>2. Strictness(live) >= Strictness(mk.mode) /\ Strictness(policy) >= Strictness(mk.mode)
  BY <1>1, ModeFacts DEF BoundInv, MarkInv
<1>3. live \in Modes /\ policy \in Modes /\ perms # {} /\ perms \subseteq [Tools -> Effects] \cup {Broken}
  BY DEF BoundInv, TypeOK, RulesInv
<1>4. /\ e \in Effects /\ (e # "deny" => Free(perms, t, {"deny"}))
      /\ (e \notin {"deny", "ask"} => Free(perms, t, {"deny", "ask"}))
  BY <1>1, <1>3, EvaluateTells
<1>. HIDE DEF e, t, mk
<1>5. Ruling(t, live, e) = "runs" /\ r.unapproved = Unapproved(t)
  BY DEF e, t
<1>6. e # "deny" /\ (live = "readonly" => t \notin Mutating /\ e # "ask" /\ ~Unapproved(t))
      /\ (live = "ask" => ~Unapproved(t) /\ e # "ask" /\ (t \in Mutating => e = "allow"))
  BY <1>3, <1>5 DEF Ruling, Modes
<1>7. Strictness(mk.mode) >= 1 => live # "auto" /\ policy # "auto"
  BY <1>2, <1>3, ModeFacts
<1>8. t \in Mutating => mk.mode # "readonly"
  BY <1>1, <1>2, <1>3, <1>6, ModeFacts
<1>9. t \in Mutating /\ mk.mode = "ask" => \E b \in Vetted : b[t] = "allow"
  <2>. SUFFICES ASSUME t \in Mutating, mk.mode = "ask" PROVE \E b \in Vetted : b[t] = "allow"
    OBVIOUS
  <2>1. live = "ask" /\ policy # "auto"
    BY <1>1, <1>3, <1>6, <1>7, ModeFacts DEF Modes
  <2>2. Evaluate(t) = "allow"
    BY <1>6, <2>1 DEF e
  <2>. QED  BY <1>1, <2>1, <2>2, AllowedIsVetted
<1>10. Unapproved(t) => live = "auto"
  BY <1>3, <1>6 DEF Modes
<1>11. ASSUME NEW b \in written PROVE Verdict(b, t) # "deny" /\ (Verdict(b, t) = "ask" => mk.mode = "auto")
  <2>1. Verdict(b, t) # "deny"
    BY <1>1, <1>4, <1>6, WrittenBind
  <2>2. ASSUME live # "auto" PROVE Verdict(b, t) # "ask"
    <3>1. e \notin {"deny", "ask"}
      BY <1>3, <1>6, <2>2 DEF Modes
    <3>. QED  BY <1>1, <1>4, <3>1, WrittenBind
  <2>3. live = "auto" => mk.mode = "auto"
    <3>1. Strictness(mk.mode) \in 0..2 /\ (Strictness(mk.mode) = 0 => mk.mode = "auto")
      BY <1>1, ModeFacts
    <3>2. live = "auto" => ~(Strictness(mk.mode) >= 1)
      BY <1>7
    <3>. QED  BY <3>1, <3>2
  <2>. QED  BY <2>1, <2>2, <2>3
<1>12. Bound(t, r, mk)
  BY <1>2, <1>5, <1>8, <1>9, <1>10, <1>11 DEF Bound
<1>. QED  BY <1>12 DEF t, mk

\* Marks that stay bind the same calls.
LEMMA MarksStay ==
    ASSUME BoundInv, UNCHANGED <<live, saved, mark>>, place # "batch hook"
    PROVE  /\ \A i \in Calls : Under(mark'[i], live', saved') /\ Within(mark'[i], live') /\ mark'[i].mode = mark[i].mode
           /\ \A i \in Ran : Loosens(mark[i], mark'[i])
<1>1. \A i \in Calls : Under(mark[i], live, saved) /\ Within(mark[i], live)
  BY DEF BoundInv, MarkInv, Under, Within
<1>. QED  BY <1>1, LoosensSame

\* A call that starts to run is bound as it does.
LEMMA RanGains ==
    ASSUME BoundInv, NEW i \in Calls, NEW r, ran' = [ran EXCEPT ![i] = r], UNCHANGED reply,
           mark'[i].mode # "none", Bound(reply[i], r, mark'[i]), \A j \in Ran : Loosens(mark[j], mark'[j])
    PROVE  /\ Ran' \subseteq Ran \cup {i} /\ DOMAIN ran' = Calls'
           /\ \A j \in Ran' : mark'[j].mode # "none" /\ Bound(reply'[j], ran'[j], mark'[j])
<1>1. DOMAIN ran = Calls /\ Calls' = Calls
  BY DEF BoundInv, TypeOK, Calls
<1>2. DOMAIN ran' = Calls' /\ ran'[i] = r /\ \A j \in Calls \ {i} : ran'[j] = ran[j]
  BY <1>1
<1>3. Ran' \subseteq Ran \cup {i}
  BY <1>1, <1>2 DEF Ran
<1>4. ASSUME NEW j \in Ran', j # i PROVE mark'[j].mode # "none" /\ Bound(reply'[j], ran'[j], mark'[j])
  <2>1. j \in Ran /\ j \in Calls /\ ran'[j] = ran[j] /\ reply'[j] = reply[j]
    BY <1>2, <1>3, <1>4 DEF Ran
  <2>2. mark[j].mode # "none" /\ Bound(reply[j], ran[j], mark[j])
    BY <2>1 DEF BoundInv, RanInv
  <2>3. mark[j].mode \in Modes
    BY <2>1, <2>2, Types DEF BoundInv, Typing, Marks
  <2>4. Bound(reply[j], ran[j], mark'[j])
    BY <2>1, <2>2, <2>3, BoundStays
  <2>. QED  BY <2>1, <2>2, <2>3, <2>4, ModeFacts DEF Loosens
<1>. QED  BY <1>2, <1>3, <1>4

LEMMA JudgeStep == ASSUME BoundInv, Judge PROVE BoundInv'
<1>1. /\ place = "judge" /\ TypeRest /\ changes \in 0..MaxChanges /\ TypeOK
      /\ UNCHANGED <<gate, disk, changes, reply, formed, last, cancelled, mark, written>>
      /\ UNCHANGED <<live, saved, policy, perms, book, code, approved>> /\ Calls' = Calls
  BY TypeParts DEF Judge, BoundInv, PlaceInv, Calls, gate, disk
<1>2. at \in Calls /\ mark[at].mode # "none" /\ reply[at] \in Tools
  BY <1>1, SerialAt DEF Single
<1>3. /\ \A i \in Calls : Under(mark'[i], live', saved') /\ Within(mark'[i], live') /\ mark'[i].mode = mark[i].mode
      /\ \A i \in Ran : Loosens(mark[i], mark'[i])
  BY <1>1, MarksStay
<1>4. RulesInv'
  BY <1>1 DEF BoundInv, RulesInv
<1>5. ASSUME card' = card, DOMAIN ran' = Calls'
      PROVE  TypeRest'
  BY <1>1, <1>5 DEF TypeRest
<1>6. DOMAIN ran = Calls
  BY <1>1 DEF TypeRest
<1>7. CASE /\ Ruling(reply[at], live, Evaluate(reply[at])) = "runs" /\ Goto("run", at) /\ Runs(at, FALSE)
           /\ UNCHANGED <<state, log, replies, card>>
  <2>. DEFINE r == [card |-> FALSE, mode |-> live', rules |-> written, unapproved |-> Unapproved(reply[at])]
  <2>1. ran' = [ran EXCEPT ![at] = r]
    BY <1>7 DEF Runs
  <2>2. r.card = FALSE /\ r.mode = live /\ r.rules = written /\ r.unapproved = Unapproved(reply[at])
    BY <1>1
  <2>. HIDE DEF r
  <2>3. Bound(reply[at], r, mark'[at]) /\ mark'[at].mode # "none"
    BY <1>1, <1>2, <1>7, <2>2, RulingBinds
  <2>4. /\ Ran' \subseteq Ran \cup {at} /\ DOMAIN ran' = Calls'
        /\ \A j \in Ran' : mark'[j].mode # "none" /\ Bound(reply'[j], ran'[j], mark'[j])
    BY <1>1, <1>2, <1>3, <2>1, <2>3, RanGains
  <2>5. /\ PlaceInv' /\ AnswerInv' /\ StateInv' /\ MarkInv'
        /\ at' \in 0..Len(reply') /\ Answered' \subseteq Calls' /\ state' \in [Calls' -> States]
    BY <1>1, <1>3, <1>7, SerialMove DEF Single, Goto
  <2>6. AdmitInv'
    BY <1>7 DEF AdmitInv, Goto, Batched
  <2>7. RanInv'
    <3>1. \A i \in Ran : state[i] = "closed"
      BY <1>1, SerialRan DEF Single
    <3>. QED  BY <1>7, <2>4, <3>1 DEF RanInv, Goto
  <2>8. TypeRest'
    BY <1>5, <1>7, <2>4
  <2>. QED  BY <1>4, <2>5, <2>6, <2>7, <2>8, TypeParts2 DEF BoundInv
<1>8. CASE /\ Ruling(reply[at], live, Evaluate(reply[at])) = "card" /\ Goto("card", at)
           /\ card' = [of |-> at, answer |-> "pending",
                       shown |-> IF Unapproved(reply[at]) THEN {<<reply[at], code[reply[at]]>>} ELSE {}]
           /\ UNCHANGED <<state, replies, ran>>
  <2>1. card' \in Cards(Len(reply))
    <3>1. at \in 0..Len(reply) /\ code[reply[at]] \in Code
      BY <1>1, <1>2, Counts DEF Numbers, TypeOK
    <3>. QED  BY <1>8, <3>1 DEF Cards, Unapproved
  <2>2. TypeRest'
    BY <1>1, <1>6, <1>8, <2>1 DEF TypeRest
  <2>3. /\ PlaceInv' /\ AnswerInv' /\ StateInv' /\ MarkInv'
        /\ at' \in 0..Len(reply') /\ Answered' \subseteq Calls' /\ state' \in [Calls' -> States]
    BY <1>1, <1>3, <1>8, SerialMove DEF Single, Goto
  <2>4. AdmitInv'
    <3>1. Evaluate(reply[at]) # "deny"
      BY <1>8 DEF Ruling
    <3>2. Free(perms, reply[at], {"deny"})
      BY <1>2, <3>1, EvaluateTells DEF BoundInv, RulesInv, TypeOK
    <3>. QED  BY <1>1, <1>8, <3>2 DEF AdmitInv, Goto, Batched
  <2>5. RanInv'
    <3>1. Ran' = Ran /\ \A i \in Ran' : mark'[i].mode # "none" /\ Bound(reply'[i], ran'[i], mark'[i])
      BY <1>1, <1>3, <1>8, RanStays
    <3>2. \A i \in Ran : state'[i] = "closed"
      BY <1>1, <1>8, SerialRan DEF Single
    <3>. QED  BY <3>1, <3>2 DEF RanInv
  <2>. QED  BY <1>4, <2>2, <2>3, <2>4, <2>5, TypeParts2 DEF BoundInv
<1>9. CASE Close(at) /\ Onward(at) /\ UNCHANGED <<card, ran>>
  <2>1. /\ PlaceInv' /\ AnswerInv' /\ StateInv' /\ MarkInv' /\ AdmitInv' /\ RanInv'
        /\ at' \in 0..Len(reply') /\ Answered' \subseteq Calls' /\ state' \in [Calls' -> States]
    BY <1>1, <1>3, <1>9, SerialEnd DEF Close, Single
  <2>2. TypeRest'
    BY <1>1, <1>5, <1>6, <1>9
  <2>. QED  BY <1>4, <2>1, <2>2, TypeParts2 DEF BoundInv
<1>. QED  BY <1>7, <1>8, <1>9 DEF Judge

------------------------------------------------------------------------------
(* What others do meanwhile *)

\* Marks that tell of an edit, or are loosened, keep a call's admission.
LEMMA AdmittedStays ==
    ASSUME NEW s, NEW t, NEW mk, NEW new, NEW ps, NEW was, NEW is, Admitted(s, t, mk, ps, was),
           mk.mode = "auto" => new.mode = "auto", mk.edited => new.edited, is => was \/ new.edited \/ s # "ready"
    PROVE  Admitted(s, t, new, ps, is)
BY DEF Admitted

\* The turn stays where it is.
LEMMA StayStep ==
    ASSUME BoundInv, UNCHANGED <<place, at, last, state, replies, reply, formed, ran, policy, perms, written>>,
           changes' \in 0..MaxChanges, cancelled' \in BOOLEAN,
           {live', saved'} \subseteq Modes, book' \in Books \cup {Broken}, code' \in [Tools -> Code],
           approved' \subseteq External \X Code, card' \in Cards(Len(reply)), mark' \in [Calls -> Marks],
           \A i \in Calls : /\ Loosens(mark[i], mark'[i]) /\ Under(mark'[i], live', saved')
                            /\ Within(mark[i], live) => Within(mark'[i], live'),
           place \in Batched => \A i \in Calls : Admitted(state[i], reply[i], mark'[i], perms, Unapproved(reply[i])')
    PROVE  BoundInv'
<1>1. /\ place' = place /\ at' = at /\ last' = last /\ state' = state /\ replies' = replies /\ reply' = reply
      /\ formed' = formed /\ ran' = ran /\ policy' = policy /\ perms' = perms /\ written' = written
  OBVIOUS
<1>2. Calls' = Calls /\ TypeOK
  BY <1>1 DEF Calls, BoundInv
<1>3. \A i \in Ran : Loosens(mark[i], mark'[i])
  BY DEF Ran
<1>4. TypeOK'
  BY <1>1, <1>2 DEF TypeOK, Answered
<1>5. PlaceInv'
  BY <1>1, <1>2 DEF BoundInv, PlaceInv
<1>6. AnswerInv'
  BY <1>1, <1>2 DEF BoundInv, AnswerInv
<1>7. StateInv'
  BY <1>1, <1>2 DEF BoundInv, StateInv
<1>8. MarkInv'
  <2>1. ASSUME NEW i \in Calls, mark'[i].mode # "none"
        PROVE  /\ Strictness(Stricter(live', saved')) >= Strictness(mark'[i].mode)
               /\ Strictness(live') >= Strictness(mark'[i].mode) \/ (place' = "batch hook" /\ i = at')
    <3>1. mark[i].mode # "none"
      BY <2>1 DEF Loosens
    <3>2. Strictness(Stricter(live', saved')) >= Strictness(mark'[i].mode)
      BY <2>1 DEF Under
    <3>3. Within(mark[i], live) \/ (place = "batch hook" /\ i = at)
      BY <3>1 DEF BoundInv, MarkInv, Within
    <3>. QED  BY <1>1, <2>1, <3>2, <3>3 DEF Within
  <2>2. place' = "judge" => Strictness(policy') >= Strictness(mark'[at'].mode)
    <3>. SUFFICES ASSUME place = "judge" PROVE Strictness(policy) >= Strictness(mark'[at].mode)
      BY <1>1
    <3>1. at \in Calls /\ mark[at].mode # "none" /\ Strictness(policy) >= Strictness(mark[at].mode)
      BY SerialAt DEF BoundInv, MarkInv, Single
    <3>2. Strictness(mark'[at].mode) <= Strictness(mark[at].mode)
      <4>1. CASE mark'[at].mode = mark[at].mode
        BY <4>1, ModeFacts
      <4>2. CASE mark'[at].mode # mark[at].mode
        BY <3>1, <4>2 DEF Loosens
      <4>. QED  BY <4>1, <4>2
    <3>3. /\ Strictness(mark'[at].mode) \in 0..2 /\ Strictness(mark[at].mode) \in 0..2
          /\ Strictness(policy) \in 0..2
      BY ModeFacts
    <3>4. \A a \in 0..2, b \in 0..2, c \in 0..2 : a <= b /\ c >= b => c >= a
      OBVIOUS
    <3>. QED  BY <3>1, <3>2, <3>3, <3>4
  <2>3. place' \in Single \cup Batched => \A i \in Calls' : Len(replies') < i /\ i <= at' => mark'[i].mode # "none"
    <3>1. place \in Single \cup Batched => \A i \in Calls : Len(replies) < i /\ i <= at => mark[i].mode # "none"
      BY DEF BoundInv, MarkInv
    <3>2. \A i \in Calls : mark[i].mode # "none" => mark'[i].mode # "none"
      BY ModeFacts DEF Loosens
    <3>. QED  BY <1>1, <1>2, <3>1, <3>2
  <2>4. \A i \in Calls' : mark'[i].mode # "none" =>
          /\ Strictness(Stricter(live', saved')) >= Strictness(mark'[i].mode)
          /\ Strictness(live') >= Strictness(mark'[i].mode) \/ (place' = "batch hook" /\ i = at')
    BY <1>2, <2>1
  <2>. QED  BY <2>2, <2>3, <2>4 DEF MarkInv
<1>9. RulesInv'
  BY <1>1 DEF BoundInv, RulesInv
<1>10. AdmitInv'
  <2>1. place' = "card" => Free(perms', reply'[at'], {"deny"})
    BY <1>1 DEF BoundInv, AdmitInv
  <2>2. place' \in Batched => \A i \in Calls' : Admitted(state'[i], reply'[i], mark'[i], perms', Unapproved(reply[i])')
    BY <1>1, <1>2
  <2>. QED  BY <2>1, <2>2 DEF AdmitInv
<1>11. RanInv'
  <2>1. Ran' = Ran /\ \A i \in Ran' : mark'[i].mode # "none" /\ Bound(reply'[i], ran'[i], mark'[i])
    BY <1>1, <1>3, RanStays
  <2>. QED  BY <1>1, <2>1 DEF BoundInv, RanInv
<1>. QED  BY <1>4, <1>5, <1>6, <1>7, <1>8, <1>9, <1>10, <1>11 DEF BoundInv

\* A batch's call that has begun and is not closed is among those reached.
LEMMA BatchBegun ==
    ASSUME BoundInv, place \in Batched, NEW i \in Calls, state[i] \notin {"new", "closed"}
    PROVE  Len(replies) < i /\ i <= at /\ i <= last /\ mark[i].mode # "none"
<1>1. ~(i <= Len(replies)) /\ (i > last => state[i] = "new") /\ at <= last
  BY DEF BoundInv, AnswerInv, StateInv, Batched
<1>2. (i > at => state[i] = "new") \/ at = last
  BY DEF BoundInv, StateInv, Batched
<1>3. i \in Nat /\ at \in Nat /\ last \in Nat /\ Len(replies) \in Nat
  BY Counts DEF Numbers
<1>4. Len(replies) < i /\ i <= at /\ i <= last
  BY <1>1, <1>2, <1>3
<1>. QED  BY <1>4 DEF BoundInv, MarkInv

\* What an edit leaves of the marks, and who is told of it.
LEMMA EditIs ==
    ASSUME BoundInv, Edit \/ UNCHANGED <<book, code, changes, mark>>
    PROVE  /\ book' \in Books \cup {Broken} /\ code' \in [Tools -> Code] /\ changes' \in 0..MaxChanges
           /\ mark' \in [Calls -> Marks]
           /\ \A i \in Calls : mark'[i].mode = mark[i].mode /\ (mark[i].edited => mark'[i].edited)
           /\ \A i \in Calls : mark'[i].hooks = mark[i].hooks /\ mark'[i].said = mark[i].said
           /\ \A i \in Calls : mark[i].mode # "none" => code' = code \/ mark'[i].edited
<1>1. /\ book \in Books \cup {Broken} /\ code \in [Tools -> Code] /\ changes \in 0..MaxChanges
      /\ mark \in [Calls -> Marks] /\ External \subseteq Tools /\ MaxChanges \in Nat
  BY ConstantsAssumption DEF BoundInv, TypeOK, PlaceInv
<1>2. CASE UNCHANGED <<book, code, changes, mark>>
  BY <1>1, <1>2
<1>3. CASE Edit
  <2>1. changes' \in 0..MaxChanges
    BY <1>1, <1>3 DEF Edit
  <2>2. CASE book' \in (Books \cup {Broken}) \ {book} /\ UNCHANGED <<code, mark>>
    BY <1>1, <2>1, <2>2
  <2>3. CASE /\ \E x \in External, v \in Code : code[x] # v /\ code' = [code EXCEPT ![x] = v]
             /\ mark' = [i \in Calls |-> [mark[i] EXCEPT !.edited = @ \/ mark[i].mode # "none"]]
             /\ UNCHANGED book
    <3>1. code' \in [Tools -> Code]
      BY <1>1, <2>3
    <3>2. ASSUME NEW i \in Calls
          PROVE  /\ mark'[i] \in Marks /\ mark'[i].mode = mark[i].mode /\ mark'[i].edited = (mark[i].edited \/ mark[i].mode # "none")
                 /\ mark'[i].hooks = mark[i].hooks /\ mark'[i].said = mark[i].said
      <4>1. mark[i] \in Marks /\ mark'[i] = [mark[i] EXCEPT !.edited = @ \/ mark[i].mode # "none"]
        BY <1>1, <2>3
      <4>2. (mark[i].edited \/ mark[i].mode # "none") \in BOOLEAN
        OBVIOUS
      <4>. QED  BY <4>1, <4>2 DEF Marks
    <3>3. mark' \in [Calls -> Marks]
      BY <2>3, <3>2
    <3>. QED  BY <1>1, <2>1, <2>3, <3>1, <3>2, <3>3
  <2>. QED  BY <1>3, <2>2, <2>3 DEF Edit
<1>. QED  BY <1>2, <1>3

\* An edit leaves every mark and every admission.
LEMMA EditStays ==
    ASSUME BoundInv, Edit \/ UNCHANGED <<book, code, changes, mark>>, UNCHANGED <<approved, reply, live, saved>>
    PROVE  /\ \A i \in Calls : /\ Loosens(mark[i], mark'[i]) /\ Under(mark'[i], live', saved')
                               /\ Within(mark[i], live) => Within(mark'[i], live')
           /\ place \in Batched => \A i \in Calls : Admitted(state[i], reply[i], mark'[i], perms, Unapproved(reply[i])')
<1>1. ASSUME NEW i \in Calls
      PROVE  /\ Loosens(mark[i], mark'[i]) /\ Under(mark'[i], live', saved')
             /\ Within(mark[i], live) => Within(mark'[i], live')
  <2>1. mark'[i].mode = mark[i].mode /\ (mark[i].edited => mark'[i].edited)
    BY EditIs
  <2>2. Under(mark[i], live, saved)
    BY DEF BoundInv, MarkInv, Under
  <2>. QED  BY <2>1, <2>2 DEF Loosens, Under, Within
<1>2. ASSUME place \in Batched, NEW i \in Calls
      PROVE  Admitted(state[i], reply[i], mark'[i], perms, Unapproved(reply[i])')
  <2>1. Admitted(state[i], reply[i], mark[i], perms, Unapproved(reply[i]))
    BY <1>2 DEF BoundInv, AdmitInv
  <2>2. state[i] = "ready" => code' = code \/ mark'[i].edited
    BY <1>2, BatchBegun, EditIs
  <2>3. code' = code => Unapproved(reply[i])' = Unapproved(reply[i])
    BY DEF Unapproved
  <2>4. mark[i].mode = "auto" => mark'[i].mode = "auto"
    BY EditIs
  <2>5. mark[i].edited => mark'[i].edited
    BY EditIs
  <2>. QED  BY <2>1, <2>2, <2>3, <2>4, <2>5, AdmittedStays
<1>. QED  BY <1>1, <1>2

LEMMA OutsideEditStep == ASSUME BoundInv, OutsideEdit PROVE BoundInv'
<1>1. /\ Edit /\ UNCHANGED <<live, saved, policy, perms, approved, reply>>
      /\ UNCHANGED <<place, at, last, state, replies, reply, formed, ran, policy, perms, written>>
      /\ approved' = approved /\ card' = card /\ cancelled' = cancelled
  BY DEF OutsideEdit, gate
<1>2. /\ {live', saved'} \subseteq Modes /\ approved' \subseteq External \X Code /\ card' \in Cards(Len(reply)) /\ cancelled' \in BOOLEAN
  BY <1>1 DEF BoundInv, TypeOK, PlaceInv
<1>3. /\ book' \in Books \cup {Broken} /\ code' \in [Tools -> Code] /\ changes' \in 0..MaxChanges /\ mark' \in [Calls -> Marks]
  BY <1>1, EditIs
<1>. QED  BY <1>1, <1>2, <1>3, EditStays, StayStep

\* A stutter, a cancel.
LEMMA SameStep ==
    ASSUME BoundInv, UNCHANGED <<gate, disk, changes, reply, formed, place, at, last, state, card, replies, mark, ran, written>>,
           cancelled' \in BOOLEAN
    PROVE  BoundInv'
<1>1. /\ UNCHANGED <<live, saved, policy, perms, approved, reply>>
      /\ UNCHANGED <<place, at, last, state, replies, reply, formed, ran, policy, perms, written>>
      /\ UNCHANGED <<book, code, changes, mark>>
      /\ approved' = approved /\ card' = card
  BY DEF gate, disk
<1>2. /\ {live', saved'} \subseteq Modes /\ approved' \subseteq External \X Code /\ card' \in Cards(Len(reply))
  BY <1>1 DEF BoundInv, TypeOK, PlaceInv
<1>3. /\ book' \in Books \cup {Broken} /\ code' \in [Tools -> Code] /\ changes' \in 0..MaxChanges /\ mark' \in [Calls -> Marks]
  BY <1>1, EditIs
<1>. QED  BY <1>1, <1>2, <1>3, EditStays, StayStep

LEMMA CancelStep == ASSUME BoundInv, Cancel PROVE BoundInv'
<1>1. /\ UNCHANGED <<gate, disk, changes, reply, formed, place, at, last, state, card, replies, mark, ran, written>>
      /\ cancelled' \in BOOLEAN
  BY DEF Cancel
<1>. QED  BY <1>1, SameStep

LEMMA StutterStep == ASSUME BoundInv, UNCHANGED vars PROVE BoundInv'
<1>1. /\ UNCHANGED <<gate, disk, changes, reply, formed, place, at, last, state, card, replies, mark, ran, written>>
      /\ cancelled' = cancelled
  BY DEF vars, gate, disk
<1>2. cancelled' \in BOOLEAN
  BY <1>1 DEF BoundInv, PlaceInv
<1>. QED  BY <1>1, <1>2, SameStep

LEMMA AnswerStep == ASSUME BoundInv, Answer PROVE BoundInv'
<1>1. PICK a \in {"yes", "no"} : card' = [card EXCEPT !.answer = a] /\ mark' = [mark EXCEPT ![card.of].said = a]
  BY DEF Answer
<1>2. /\ UNCHANGED <<place, at, last, state, replies, reply, formed, ran, policy, perms, written>>
      /\ live' = live /\ saved' = saved /\ approved' = approved /\ book' = book /\ code' = code
      /\ changes' = changes /\ cancelled' = cancelled /\ reply' = reply
  BY DEF Answer, gate, disk
<1>3. TypeOK /\ Typing
  BY Types DEF BoundInv
<1>4. card' \in Cards(Len(reply))
  BY <1>1, <1>3 DEF TypeOK, Cards
<1>5. ASSUME NEW i \in Calls
      PROVE  mark'[i] \in Marks /\ mark'[i].mode = mark[i].mode /\ mark'[i].edited = mark[i].edited
  <2>1. mark[i] \in Marks /\ mark \in [Calls -> Marks]
    BY <1>3 DEF Typing
  <2>2. CASE i = card.of
    <3>1. mark'[i] = [mark[i] EXCEPT !.said = a]
      BY <1>1, <2>1, <2>2
    <3>. QED  BY <2>1, <3>1 DEF Marks
  <2>3. CASE i # card.of
    <3>1. mark'[i] = mark[i]
      BY <1>1, <2>1, <2>3
    <3>. QED  BY <2>1, <3>1
  <2>. QED  BY <2>2, <2>3
<1>6. mark' \in [Calls -> Marks]
  <2>1. DOMAIN mark' = Calls /\ mark' = [i \in Calls |-> mark'[i]]
    BY <1>1, <1>3 DEF Typing
  <2>. QED  BY <1>5, <2>1
<1>7. \A i \in Calls : /\ Loosens(mark[i], mark'[i]) /\ Under(mark'[i], live', saved')
                       /\ Within(mark[i], live) => Within(mark'[i], live')
  <2>1. \A i \in Calls : Under(mark[i], live, saved)
    BY DEF BoundInv, MarkInv, Under
  <2>. QED  BY <1>2, <1>5, <2>1 DEF Loosens, Under, Within
<1>8. place \in Batched => \A i \in Calls : Admitted(state[i], reply[i], mark'[i], perms, Unapproved(reply[i])')
  <2>1. \A i \in Calls : Unapproved(reply[i])' = Unapproved(reply[i])
    BY <1>2 DEF Unapproved
  <2>. QED  BY <1>5, <2>1 DEF BoundInv, AdmitInv, Admitted
<1>9. /\ changes' \in 0..MaxChanges /\ cancelled' \in BOOLEAN /\ {live', saved'} \subseteq Modes
      /\ book' \in Books \cup {Broken} /\ code' \in [Tools -> Code] /\ approved' \subseteq External \X Code
  BY <1>2 DEF BoundInv, TypeOK, PlaceInv
<1>. QED  BY <1>2, <1>4, <1>6, <1>7, <1>8, <1>9, StayStep

LEMMA ModifyStep == ASSUME BoundInv, Modify PROVE BoundInv'
<1>1. PICK m \in Modes : saved' = m /\ live' \in {live, m}
  BY DEF Modify
<1>2. /\ UNCHANGED <<place, at, last, state, replies, reply, formed, ran, policy, perms, written>>
      /\ approved' = approved /\ book' = book /\ code' = code /\ card' = card
      /\ cancelled' = cancelled /\ reply' = reply /\ changes' = changes + 1 /\ changes < MaxChanges
      /\ mark' = [i \in Calls |-> IF mark[i].mode = "none" THEN mark[i]
                    ELSE [mark[i] EXCEPT !.mode = Looser(@, Stricter(live', saved'))]]
  BY DEF Modify, disk
<1>3. TypeOK /\ Typing /\ {live', saved'} \subseteq Modes
  BY <1>1, Types DEF BoundInv, TypeOK
<1>4. Stricter(live', saved') \in Modes
  BY <1>3, ModeFacts
<1>5. ASSUME NEW i \in Calls
      PROVE  /\ mark'[i] \in Marks /\ mark'[i].edited = mark[i].edited
             /\ mark[i].mode = "none" => mark'[i] = mark[i]
             /\ mark[i].mode # "none" => /\ mark[i].mode \in Modes /\ mark'[i].mode = Looser(mark[i].mode, Stricter(live', saved'))
                                         /\ mark'[i].mode \in Modes
  <2>. DEFINE l == Looser(mark[i].mode, Stricter(live', saved'))
  <2>1. mark[i] \in Marks
    BY <1>3 DEF Typing
  <2>2. mark[i].mode # "none" => mark[i].mode \in Modes /\ l \in Modes
    BY <1>4, <2>1, ModeFacts DEF Marks
  <2>3. mark'[i] = IF mark[i].mode = "none" THEN mark[i] ELSE [mark[i] EXCEPT !.mode = l]
    BY <1>2
  <2>. HIDE DEF l
  <2>4. /\ mark'[i] \in Marks /\ mark'[i].edited = mark[i].edited
        /\ mark[i].mode # "none" => mark'[i].mode = l
    BY <2>1, <2>2, <2>3 DEF Marks
  <2>. QED  BY <2>2, <2>3, <2>4 DEF l
<1>6. mark' \in [Calls -> Marks]
  <2>1. DOMAIN mark' = Calls /\ mark' = [i \in Calls |-> mark'[i]]
    BY <1>2
  <2>. QED  BY <1>5, <2>1
<1>7. ASSUME NEW i \in Calls
      PROVE  /\ Loosens(mark[i], mark'[i]) /\ Under(mark'[i], live', saved')
             /\ Within(mark[i], live) => Within(mark'[i], live')
  <2>1. CASE mark[i].mode = "none"
    <3>1. mark'[i] = mark[i]
      BY <1>5, <2>1
    <3>. QED  BY <2>1, <3>1 DEF Loosens, Under, Within
  <2>2. CASE mark[i].mode # "none"
    <3>. DEFINE o == mark[i].mode
                n == mark'[i].mode
                s == Stricter(live', saved')
    <3>1. o \in Modes /\ n \in Modes /\ s \in Modes /\ n = Looser(o, s)
      BY <1>4, <1>5, <2>2
    <3>. HIDE DEF o, n, s
    <3>2. Strictness(n) <= Strictness(o) /\ Strictness(n) <= Strictness(s)
      BY <3>1, ModeFacts
    <3>3. Loosens(mark[i], mark'[i])
      BY <1>5, <2>2, <3>1, <3>2 DEF Loosens, o, n
    <3>4. Under(mark'[i], live', saved')
      <4>1. Strictness(n) \in 0..2 /\ Strictness(s) \in 0..2
        BY ModeFacts
      <4>2. Strictness(s) >= Strictness(n)
        BY <3>2, <4>1
      <4>. QED  BY <4>2 DEF Under, n, s
    <3>5. ASSUME Within(mark[i], live) PROVE Within(mark'[i], live')
      <4>1. Strictness(live) >= Strictness(o)
        BY <2>2, <3>5 DEF Within, o
      <4>2. CASE live' = live
        <5>1. Strictness(n) \in 0..2 /\ Strictness(o) \in 0..2 /\ Strictness(live) \in 0..2
          BY ModeFacts
        <5>2. Strictness(live) >= Strictness(n)
          BY <3>2, <4>1, <5>1
        <5>. QED  BY <4>2, <5>2 DEF Within, n
      <4>3. CASE live' = saved'
        <5>1. s = live'
          BY <1>3, <4>3, ModeFacts DEF s
        <5>2. Strictness(n) \in 0..2 /\ Strictness(s) \in 0..2
          BY ModeFacts
        <5>3. Strictness(live') >= Strictness(n)
          BY <3>2, <5>1, <5>2
        <5>. QED  BY <5>3 DEF Within, n
      <4>. QED  BY <1>1, <4>2, <4>3
    <3>. QED  BY <3>3, <3>4, <3>5
  <2>. QED  BY <2>1, <2>2
<1>8. place \in Batched => \A i \in Calls : Admitted(state[i], reply[i], mark'[i], perms, Unapproved(reply[i])')
  <2>. SUFFICES ASSUME place \in Batched, NEW i \in Calls
                PROVE  Admitted(state[i], reply[i], mark'[i], perms, Unapproved(reply[i])')
    OBVIOUS
  <2>1. Unapproved(reply[i])' = Unapproved(reply[i])
    BY <1>2 DEF Unapproved
  <2>2. Admitted(state[i], reply[i], mark[i], perms, Unapproved(reply[i]))
    BY DEF BoundInv, AdmitInv
  <2>3. mark[i].mode = "auto" => mark'[i].mode = "auto"
    <3>. SUFFICES ASSUME mark[i].mode = "auto" PROVE mark'[i].mode = "auto"
      OBVIOUS
    <3>1. mark[i].mode # "none" /\ mark'[i].mode = Looser("auto", Stricter(live', saved'))
      BY <1>5
    <3>2. \A x \in Modes : Looser("auto", x) = "auto"
      BY DEF Looser, Strictness, Modes
    <3>. QED  BY <1>4, <3>1, <3>2
  <2>4. mark[i].edited => mark'[i].edited
    BY <1>5
  <2>. QED  BY <2>1, <2>2, <2>3, <2>4, AdmittedStays
<1>9. /\ cancelled' \in BOOLEAN /\ card' \in Cards(Len(reply))
      /\ book' \in Books \cup {Broken} /\ code' \in [Tools -> Code] /\ approved' \subseteq External \X Code
  BY <1>2, <1>3 DEF BoundInv, TypeOK, PlaceInv
<1>10. changes' \in 0..MaxChanges
  BY <1>2, ConstantsAssumption DEF BoundInv, PlaceInv
<1>. QED  BY <1>2, <1>3, <1>6, <1>7, <1>8, <1>9, <1>10, StayStep

------------------------------------------------------------------------------
(* A card settles; a call runs *)

\* A call a human said yes to is bound by the modes read back then.
LEMMA YesBinds ==
    ASSUME BoundInv, place = "card", NEW r, r.mode \in Modes, r.mode # "readonly", r.card = TRUE, r.rules = written,
           Within(mark[at], r.mode)
    PROVE  Bound(reply[at], r, mark[at])
<1>1. mark[at].mode \in Modes /\ mark[at].mode # "none" /\ reply[at] \in Tools
  BY SerialAt DEF Single
<1>2. Strictness(r.mode) >= Strictness(mark[at].mode)
  BY <1>1 DEF Within
<1>3. mark[at].mode # "readonly"
  BY <1>1, <1>2, ModeFacts DEF Modes, Strictness
<1>4. \A b \in written : Verdict(b, reply[at]) # "deny"
  BY <1>1, WrittenBind DEF BoundInv, AdmitInv
<1>. QED  BY <1>2, <1>3, <1>4 DEF Bound

LEMMA SettleStep == ASSUME BoundInv, Settle PROVE BoundInv'
<1>1. /\ place = "card" /\ card' = NoCard /\ RefreshModes /\ TypeRest /\ TypeOK /\ changes \in 0..MaxChanges
      /\ UNCHANGED <<policy, perms, book, code, changes, reply, formed, last, cancelled, mark, written>> /\ Calls' = Calls
  BY TypeParts DEF Settle, BoundInv, PlaceInv, Calls
<1>2. ModesMove /\ live' \in Modes /\ saved' \in Modes
  BY <1>1, ModesMoved DEF ModesMove
<1>3. at \in Calls /\ mark[at].mode # "none" /\ reply[at] \in Tools
  BY <1>1, SerialAt DEF Single
<1>4. /\ \A i \in Calls : Under(mark'[i], live', saved') /\ Within(mark'[i], live') /\ mark'[i].mode = mark[i].mode
      /\ \A i \in Ran : Loosens(mark[i], mark'[i])
  <2>1. mark' = mark
    BY <1>1
  <2>. QED  BY <1>1, <1>2, <2>1, UnderStays, LoosensSame
<1>5. RulesInv'
  BY <1>1 DEF BoundInv, RulesInv
<1>6. card' \in Cards(Len(reply))
  BY <1>1, Counts DEF NoCard, Cards, Numbers
<1>7. ASSUME approved' \subseteq External \X Code, DOMAIN ran' = Calls' PROVE TypeRest'
  BY <1>1, <1>2, <1>6, <1>7 DEF TypeRest
<1>8. DOMAIN ran = Calls /\ approved \subseteq External \X Code /\ card.shown \subseteq External \X Code
  BY <1>1 DEF TypeRest, Cards
<1>9. CASE /\ live' # "readonly" /\ Runs(at, TRUE) /\ Goto("run", at) /\ UNCHANGED <<replies, state>>
           /\ approved' \in {approved, approved \cup card.shown}
  <2>. DEFINE r == [card |-> TRUE, mode |-> live', rules |-> written, unapproved |-> Unapproved(reply[at])]
  <2>1. ran' = [ran EXCEPT ![at] = r]
    BY <1>9 DEF Runs
  <2>2. r.card = TRUE /\ r.mode = live' /\ r.rules = written
    OBVIOUS
  <2>. HIDE DEF r
  <2>3. Bound(reply[at], r, mark'[at]) /\ mark'[at].mode # "none"
    <3>1. mark' = mark /\ Within(mark[at], live')
      BY <1>1, <1>3, <1>4
    <3>. QED  BY <1>1, <1>2, <1>3, <1>9, <2>2, <3>1, YesBinds
  <2>4. /\ Ran' \subseteq Ran \cup {at} /\ DOMAIN ran' = Calls'
        /\ \A j \in Ran' : mark'[j].mode # "none" /\ Bound(reply'[j], ran'[j], mark'[j])
    BY <1>1, <1>3, <1>4, <2>1, <2>3, RanGains
  <2>5. /\ PlaceInv' /\ AnswerInv' /\ StateInv' /\ MarkInv'
        /\ at' \in 0..Len(reply') /\ Answered' \subseteq Calls' /\ state' \in [Calls' -> States]
    BY <1>1, <1>4, <1>9, SerialMove DEF Single, Goto
  <2>6. AdmitInv'
    BY <1>9 DEF AdmitInv, Goto, Batched
  <2>7. RanInv'
    <3>1. \A i \in Ran : state[i] = "closed"
      BY <1>1, SerialRan DEF Single
    <3>. QED  BY <1>9, <2>4, <3>1 DEF RanInv, Goto
  <2>8. TypeRest'
    BY <1>7, <1>8, <1>9, <2>4
  <2>. QED  BY <1>5, <2>5, <2>6, <2>7, <2>8, TypeParts2 DEF BoundInv
<1>10. CASE /\ replies' = Append(replies, at) /\ state' = [state EXCEPT ![at] = "closed"]
            /\ Goto("over", at) \/ Onward(at)
            /\ UNCHANGED <<approved, ran>>
  <2>1. /\ PlaceInv' /\ AnswerInv' /\ StateInv' /\ MarkInv' /\ AdmitInv' /\ RanInv'
        /\ at' \in 0..Len(reply') /\ Answered' \subseteq Calls' /\ state' \in [Calls' -> States]
    BY <1>1, <1>4, <1>10, SerialEnd DEF Single
  <2>2. TypeRest'
    BY <1>1, <1>7, <1>8, <1>10
  <2>. QED  BY <1>5, <2>1, <2>2, TypeParts2 DEF BoundInv
<1>. QED  BY <1>9, <1>10 DEF Settle

\* What a call that can write leaves behind is looked at from then on.
LEMMA ReloadRules ==
    ASSUME BoundInv, book' \in Books \cup {Broken}, UNCHANGED <<live, policy>>,
           \/ perms' = perms /\ written' = written
           \/ perms' = perms \cup {Discover(book', live)} /\ written' = written \cup {book'}
    PROVE  /\ RulesInv' /\ perms' \subseteq [Tools -> Effects] \cup {Broken} /\ written' \subseteq Books \cup {Broken}
<1>1. /\ perms \subseteq [Tools -> Effects] \cup {Broken} /\ written \subseteq Books \cup {Broken}
      /\ RulesInv /\ live \in Modes
  BY DEF BoundInv, TypeOK
<1>2. Discover(book', live) \in [Tools -> Effects] \cup {Broken}
  BY <1>1, DiscoverTells
<1>3. perms \subseteq perms' /\ \A b \in written' : b \in written \/ Discover(b, live) \in perms'
  OBVIOUS
<1>4. RulesInv'
  <2>1. perms' # {}
    BY <1>1, <1>3 DEF RulesInv
  <2>2. \A b \in written' : \E m \in Modes : Discover(b, m) \in perms'
    BY <1>1, <1>3 DEF RulesInv
  <2>3. policy' # "auto" => \E b \in perms' : Cautious(b)
    BY <1>1, <1>3 DEF RulesInv
  <2>. QED  BY <2>1, <2>2, <2>3 DEF RulesInv
<1>. QED  BY <1>1, <1>2, <1>4

LEMMA RunStep == ASSUME BoundInv, Run PROVE BoundInv'
<1>1. /\ place = "run" /\ Effect(reply[at]) /\ Close(at) /\ Onward(at) /\ Reload /\ TypeRest /\ TypeOK
      /\ written' = IF reply[at] \in Mutating THEN written \cup {book'} ELSE written
      /\ UNCHANGED <<live, saved, policy, approved, reply, formed, last, card, cancelled, ran>> /\ Calls' = Calls
  BY TypeParts DEF Run, BoundInv, Calls
<1>2. Edit \/ UNCHANGED <<book, code, changes, mark>>
  BY <1>1 DEF Effect
<1>3. /\ book' \in Books \cup {Broken} /\ code' \in [Tools -> Code] /\ changes' \in 0..MaxChanges
      /\ mark' \in [Calls -> Marks]
  BY <1>2, EditIs
<1>4. \A i \in Calls : /\ Loosens(mark[i], mark'[i]) /\ Under(mark'[i], live', saved') /\ Within(mark'[i], live')
  <2>1. \A i \in Calls : Within(mark[i], live)
    BY <1>1 DEF BoundInv, MarkInv, Within
  <2>. QED  BY <1>1, <1>2, <2>1, EditStays
<1>5. /\ RulesInv' /\ perms' \subseteq [Tools -> Effects] \cup {Broken} /\ written' \subseteq Books \cup {Broken}
  BY <1>1, <1>3, ReloadRules DEF Reload
<1>6. \A i \in Ran : Loosens(mark[i], mark'[i])
  BY <1>4 DEF Ran
<1>7. /\ PlaceInv' /\ AnswerInv' /\ StateInv' /\ MarkInv' /\ AdmitInv' /\ RanInv'
      /\ at' \in 0..Len(reply') /\ Answered' \subseteq Calls' /\ state' \in [Calls' -> States]
  BY <1>1, <1>3, <1>4, <1>6, SerialEnd DEF Close, Single
<1>8. TypeRest'
  BY <1>1, <1>3, <1>5 DEF TypeRest
<1>. QED  BY <1>5, <1>7, <1>8, TypeParts2 DEF BoundInv

------------------------------------------------------------------------------
(* A batch *)

LEMMA BatchFacts ==
    ASSUME BoundInv, place \in Batched
    PROVE  /\ Len(replies) < at /\ at <= last /\ last \in Calls /\ at \in Calls
           /\ \A i \in Calls : Len(replies) < i /\ i <= last => reply[i] \in Tools \ Mutating
           /\ \A i \in Calls : i > last => state[i] = "new"
           /\ \A i \in Calls : state[i] = "closed" <=> i <= Len(replies)
<1>1. /\ Len(replies) < at /\ at <= last /\ last \in Calls /\ at \in Calls
      /\ \A i \in Calls : Len(replies) < i /\ i <= last => i \in formed.calls
      /\ \A i \in Calls : i > last => state[i] = "new"
  BY DEF BoundInv, StateInv, PlaceInv
<1>2. \A i \in Calls : state[i] = "closed" <=> i <= Len(replies)
  BY DEF BoundInv, AnswerInv, Batched
<1>3. \A i \in formed.calls : reply[i] \in Tools \ Mutating
  BY DEF BoundInv, PlaceInv
<1>. QED  BY <1>1, <1>2, <1>3

\* The calls of a batch that are not closed follow those answered.
LEMMA GroupIs ==
    ASSUME BoundInv, place \in Batched
    PROVE  /\ Group = {i \in Calls : Len(replies) < i /\ i <= last} /\ Len(replies) + 1 \in Group
           /\ First(Group) = {Len(replies) + 1}
<1>1. /\ Len(replies) < at /\ at <= last /\ last \in Calls
      /\ \A i \in Calls : state[i] = "closed" <=> i <= Len(replies)
  BY BatchFacts
<1>2. Len(replies) \in Nat /\ at \in Nat /\ last \in Nat /\ Calls = 1..Len(reply) /\ Len(reply) \in Nat
  BY Counts DEF Numbers
<1>3. \A i \in Calls : i \in Nat /\ (~(i <= Len(replies)) <=> Len(replies) < i)
  BY <1>2
<1>4. Group = {i \in Calls : Len(replies) < i /\ i <= last}
  BY <1>1, <1>3 DEF Group
<1>5. Len(replies) + 1 \in Calls /\ Len(replies) + 1 <= last
  BY <1>1, <1>2
<1>6. Len(replies) + 1 \in Group
  BY <1>2, <1>4, <1>5
<1>7. \A i \in Group : i \in Nat /\ Len(replies) + 1 <= i
  BY <1>2, <1>3, <1>4
<1>8. \A i \in First(Group) : i \in Group /\ i <= Len(replies) + 1
  BY <1>6 DEF First
<1>9. First(Group) \subseteq {Len(replies) + 1}
  BY <1>2, <1>7, <1>8
<1>10. Len(replies) + 1 \in First(Group)
  BY <1>6, <1>7 DEF First
<1>. QED  BY <1>4, <1>6, <1>9, <1>10

\* The numbers from n + 1 to u, after those up to n.
LEMMA AnswersUpTo ==
    ASSUME NEW n \in Nat, NEW u \in Nat, n <= u, NEW s \in Seq(Nat), Len(s) = n, \A k \in DOMAIN s : s[k] = k,
           NEW f \in Seq(Nat), Len(f) = u - n, \A k \in 1..(u - n) : f[k] = n + k
    PROVE  s \o f \in Seq(Nat) /\ Len(s \o f) = u /\ \A k \in DOMAIN (s \o f) : (s \o f)[k] = k
<1>1. s \o f \in Seq(Nat) /\ Len(s \o f) = Len(s) + Len(f)
  BY ConcatProperties
<1>2. Len(s \o f) = u
  BY <1>1
<1>3. ASSUME NEW k \in 1..u PROVE (s \o f)[k] = k
  <2>1. CASE k <= n
    <3>1. k \in 1..Len(s)
      BY <2>1
    <3>2. (s \o f)[k] = s[k] /\ s[k] = k
      BY <3>1, ConcatProperties
    <3>. QED  BY <3>2
  <2>2. CASE k > n
    <3>1. (s \o f)[k] = f[k - n]
      BY <2>2, ConcatProperties
    <3>2. k - n \in 1..(u - n)
      BY <2>2
    <3>3. f[k - n] = n + (k - n)
      BY <3>2
    <3>. QED  BY <3>1, <3>3
  <2>. QED  BY <2>1, <2>2
<1>4. DOMAIN (s \o f) = 1..u
  BY <1>1, <1>2
<1>. QED  BY <1>1, <1>2, <1>3, <1>4

\* A batch refused answers its calls up to one.
LEMMA RefuseIs ==
    ASSUME BoundInv, BatchHook, NEW u \in Nat, u = at \/ u = last, Refuse(u)
    PROVE  ClosedTo(u) /\ u \in 0..Len(reply)
<1>1. /\ Len(replies) < at /\ at <= last /\ (\A i \in Calls : i > last => state[i] = "new")
      /\ \A i \in Calls : state[i] = "closed" <=> i <= Len(replies)
  BY BatchFacts DEF Batched, BatchHook
<1>2. \A i \in Calls : i > at => state[i] = "new"
  BY DEF BoundInv, StateInv, BatchHook
<1>3. Len(replies) \in Nat /\ at \in Nat /\ last \in Nat /\ u \in Nat /\ u \in 0..Len(reply) /\ \A i \in Calls : i \in Nat
  <2>1. Numbers
    BY Counts
  <2>2. Len(replies) \in Nat /\ at \in Nat /\ last \in Nat
    BY <2>1 DEF Numbers
  <2>3. u \in 0..Len(reply)
    BY <2>1 DEF Numbers
  <2>4. \A i \in Calls : i \in Nat
    BY <2>1 DEF Numbers
  <2>. QED  BY <2>2, <2>3, <2>4
<1>4. Len(replies) < u
  BY <1>1, <1>3
<1>5. replies \in Seq(Nat) /\ \A k \in DOMAIN replies : replies[k] = k
  BY DEF BoundInv, AnswerInv
<1>6. First(Group) = {Len(replies) + 1}
  BY GroupIs DEF Batched, BatchHook
<1>. DEFINE f == [k \in 1..(u + 1 - (Len(replies) + 1)) |-> (Len(replies) + 1) + k - 1]
<1>7. replies' = replies \o f /\ state' = [j \in Calls |-> IF j \in (Len(replies) + 1)..u THEN "closed" ELSE state[j]]
  BY <1>6 DEF Refuse
<1>8. f \in Seq(Nat) /\ Len(f) = u - Len(replies) /\ \A k \in 1..(u - Len(replies)) : f[k] = Len(replies) + k
  <2>1. u + 1 - (Len(replies) + 1) = u - Len(replies) /\ u - Len(replies) \in Nat
    BY <1>3, <1>4
  <2>2. \A k \in 1..(u - Len(replies)) : (Len(replies) + 1) + k - 1 = Len(replies) + k /\ (Len(replies) + 1) + k - 1 \in Nat
    BY <1>3
  <2>. QED  BY <2>1, <2>2
<1>. HIDE DEF f
<1>9. replies' \in Seq(Nat) /\ Len(replies') = u /\ \A k \in DOMAIN replies' : replies'[k] = k
  BY <1>3, <1>4, <1>5, <1>7, <1>8, AnswersUpTo
<1>10. \A j \in Calls : j \in (Len(replies) + 1)..u <=> Len(replies) < j /\ j <= u
  BY <1>3
<1>11. \A j \in Calls : state'[j] = IF Len(replies) < j /\ j <= u THEN "closed" ELSE state[j]
  BY <1>7, <1>10
<1>12. \A j \in Calls : (state'[j] = "closed" <=> j <= u) /\ (j > u => state'[j] = "new")
  <2>1. ASSUME NEW j \in Calls, j <= u PROVE state'[j] = "closed"
    BY <1>1, <1>3, <1>11, <2>1
  <2>2. ASSUME NEW j \in Calls, j > u PROVE state'[j] = "new"
    <3>1. ~(j <= u) /\ state[j] = "new"
      BY <1>1, <1>2, <1>3, <2>2
    <3>. QED  BY <1>11, <3>1
  <2>3. \A j \in Calls : j <= u \/ j > u
    BY <1>3
  <2>4. \A j \in Calls : ~(j <= u /\ j > u)
    BY <1>3
  <2>. QED  BY <2>1, <2>2, <2>3, <2>4
<1>13. state' \in [Calls -> States]
  <2>1. state \in [Calls -> States] /\ "closed" \in States
    BY Types DEF BoundInv, Typing, States
  <2>. QED  BY <1>7, <2>1
<1>. QED  BY <1>3, <1>9, <1>12, <1>13 DEF ClosedTo

\* A batch whose calls have all been judged.
BatchAt ==
    /\ place' = "batch" /\ at' = last /\ last' = last
    /\ replies' \in Seq(Nat) /\ Len(replies') < last /\ \A k \in DOMAIN replies' : replies'[k] = k
    /\ state' \in [Calls -> States] /\ Len(replies) <= Len(replies')
    /\ \A i \in Calls : state'[i] = "closed" <=> i <= Len(replies')
    /\ \A i \in Calls : Len(replies') < i /\ i <= last => state'[i] \in Judged \cup {"running", "ended"}
    /\ \A i \in Calls : i > last => state'[i] = "new"
    /\ \A i \in Calls : Len(replies) < i /\ i <= last => mark[i].mode # "none"

LEMMA BatchStep ==
    ASSUME BoundInv, place \in Batched, BatchAt, UNCHANGED <<reply, formed, cancelled>>, changes' \in 0..MaxChanges,
           \A i \in Calls : Under(mark'[i], live', saved') /\ Within(mark'[i], live') /\ Loosens(mark[i], mark'[i])
    PROVE  /\ PlaceInv' /\ AnswerInv' /\ StateInv' /\ MarkInv'
           /\ at' \in 0..Len(reply') /\ Answered' \subseteq Calls' /\ state' \in [Calls' -> States]
<1>1. /\ reply' = reply /\ Calls' = Calls /\ formed' = formed /\ cancelled' = cancelled
      /\ place' = "batch" /\ at' = last /\ last' = last
  BY DEF BatchAt, Calls
<1>2. last \in Calls /\ \A i \in Calls : Len(replies) < i /\ i <= last => i \in formed.calls
  BY DEF BoundInv, StateInv
<1>3. /\ Len(reply) \in Nat /\ last \in Nat /\ last <= Len(reply) /\ Calls = 1..Len(reply)
      /\ Len(replies) \in Nat /\ \A i \in Calls : i \in Nat
  BY Counts DEF Numbers
<1>4. Len(replies') \in Nat /\ Len(replies') < last /\ Len(replies) <= Len(replies')
  BY DEF BatchAt
<1>5. Len(replies') <= Len(reply)
  BY <1>3, <1>4
<1>6. \A i \in Calls : Len(replies') < i => Len(replies) < i
  BY <1>3, <1>4
<1>7. PlaceInv'
  BY <1>1, <1>2 DEF BoundInv, PlaceInv, Places, Single, Batched
<1>8. AnswerInv'
  BY <1>1, <1>5 DEF AnswerInv, BatchAt
<1>9. StateInv'
  <2>1. last <= last
    BY <1>3
  <2>2. \A i \in Calls' : Len(replies') < i /\ i <= last' => i \in formed'.calls
    BY <1>1, <1>2, <1>6
  <2>3. \A i \in Calls' : i > last' => state'[i] = "new"
    BY <1>1 DEF BatchAt
  <2>4. \A i \in Calls' : Len(replies') < i /\ i <= last' => state'[i] \in Judged \cup {"running", "ended"}
    BY <1>1 DEF BatchAt
  <2>. QED  BY <1>1, <1>2, <1>4, <2>1, <2>2, <2>3, <2>4 DEF StateInv, Single, Batched
<1>10. MarkInv'
  <2>1. \A i \in Calls : Len(replies') < i /\ i <= last => mark'[i].mode # "none"
    BY <1>6, ModeFacts DEF BatchAt, Loosens
  <2>. QED  BY <1>1, <2>1 DEF MarkInv, Under, Within
<1>11. at' \in 0..Len(reply') /\ state' \in [Calls' -> States]
  BY <1>1, <1>3 DEF BatchAt
<1>12. Answered' \subseteq Calls'
  <2>1. DOMAIN replies' \subseteq Calls
    BY <1>3, <1>4, <1>5 DEF BatchAt
  <2>. QED  BY <1>1, <2>1 DEF Answered, BatchAt
<1>. QED  BY <1>7, <1>8, <1>9, <1>10, <1>11, <1>12

LEMMA BatchHookStep == ASSUME BoundInv, BatchHook PROVE BoundInv'
<1>1. /\ place = "batch hook" /\ Refresh /\ Consulted(at) /\ TypeRest /\ changes \in 0..MaxChanges /\ TypeOK
      /\ UNCHANGED <<disk, changes, reply, formed, last, card, cancelled, ran, written>> /\ Calls' = Calls
  BY TypeParts DEF BatchHook, BoundInv, PlaceInv, Calls
<1>2. /\ ModesMove /\ RefreshModes /\ policy' = live' /\ live' \in Modes /\ saved' \in Modes
      /\ perms' \subseteq [Tools -> Effects] \cup {Broken} /\ RulesInv' /\ (policy' = policy => perms' = perms)
  BY <1>1, Refreshes, ModesMoved
<1>3. /\ at \in Calls /\ Len(replies) < at /\ at <= last /\ last \in Calls
      /\ \A i \in Calls : state[i] = "closed" <=> i <= Len(replies)
  BY <1>1, BatchFacts DEF Batched
<1>4. /\ mark' \in [Calls -> Marks]
      /\ \A i \in Calls : mark'[i].mode = mark[i].mode /\ mark'[i].edited = mark[i].edited
  BY <1>1, <1>3, ConsultedIs
<1>5. \A i \in Calls : Under(mark'[i], live', saved') /\ Within(mark'[i], live') /\ mark'[i].mode = mark[i].mode
  <2>1. \A i \in Calls : Under(mark[i], live', saved') /\ Within(mark[i], live')
    BY <1>2, UnderStays
  <2>. QED  BY <1>4, <2>1 DEF Under, Within
<1>6. \A i \in Ran : i <= Len(replies) /\ i \in Calls /\ Loosens(mark[i], mark'[i])
  <2>1. \A i \in Ran : i <= Len(replies)
    BY <1>1, RanClosed DEF Places, Batched
  <2>. QED  BY <1>4, <2>1 DEF Loosens, Ran
<1>7. TypeRest'
  BY <1>1, <1>2, <1>4 DEF TypeRest, disk
<1>8. CASE \E u \in {at, last} : Refuse(u) /\ ((place' = "over" /\ at' \in Calls) \/ Onward(u))
  <2>1. PICK u \in {at, last} : Refuse(u) /\ ((place' = "over" /\ at' \in Calls) \/ Onward(u))
    BY <1>8
  <2>2. u \in Nat /\ at \in Nat /\ last \in Nat /\ Len(replies) \in Nat
    BY Counts DEF Numbers
  <2>3. ClosedTo(u) /\ u \in 0..Len(reply)
    BY <1>1, <2>1, <2>2, RefuseIs
  <2>4. \A i \in Ran : i <= u /\ Loosens(mark[i], mark'[i])
    <3>1. Len(replies) <= u
      BY <1>3, <2>1, <2>2
    <3>2. \A i \in Ran : i \in Nat
      BY <1>6, Counts DEF Numbers
    <3>3. \A i \in Ran : i <= u
      BY <1>6, <2>2, <3>1, <3>2
    <3>. QED  BY <1>6, <3>3
  <2>5. /\ PlaceInv' /\ AnswerInv' /\ StateInv' /\ MarkInv' /\ AdmitInv' /\ RanInv'
        /\ at' \in 0..Len(reply') /\ Answered' \subseteq Calls' /\ state' \in [Calls' -> States]
    <3>1. UNCHANGED <<reply, formed, ran, cancelled>> /\ changes' \in 0..MaxChanges
      BY <1>1
    <3>. QED  BY <1>5, <2>1, <2>3, <2>4, <3>1, ClosedStep
  <2>. QED  BY <1>2, <1>7, <2>5, TypeParts2 DEF BoundInv
<1>9. CASE /\ policy' = policy /\ Goto("batch judge", at) /\ replies' = replies
           /\ \E s \in {"blocked", "asked"} : state' = [state EXCEPT ![at] = s]
  <2>1. /\ place' = "batch judge" /\ at' = at /\ last' = last /\ reply' = reply /\ replies' = replies
        /\ formed' = formed /\ ran' = ran /\ changes' = changes /\ cancelled' = cancelled
    BY <1>1, <1>9 DEF Goto
  <2>2. /\ state' \in [Calls -> States] /\ state'[at] \in {"blocked", "asked"}
        /\ \A i \in Calls \ {at} : state'[i] = state[i]
    <3>1. state \in [Calls -> States]
      BY Types DEF BoundInv, Typing
    <3>. QED  BY <1>3, <1>9, <3>1 DEF States, Judged
  <2>n. Len(replies) \in Nat /\ at \in Nat /\ last \in Nat /\ \A i \in Calls : i \in Nat
    BY Counts DEF Numbers
  <2>3. PlaceInv'
    BY <1>1, <1>3, <2>1 DEF BoundInv, PlaceInv, Places, Single, Batched
  <2>4. \A i \in Calls : state'[i] = "closed" <=> i <= Len(replies)
    <3>1. ~(at <= Len(replies))
      BY <1>3, <2>n
    <3>. QED  BY <1>3, <2>2, <3>1
  <2>5. AnswerInv'
    BY <1>1, <2>1, <2>4 DEF BoundInv, AnswerInv
  <2>6. StateInv'
    <3>1. /\ \A i \in Calls : Len(replies) < i /\ i <= last => i \in formed.calls
          /\ \A i \in Calls : i > last => state[i] = "new"
          /\ \A i \in Calls : Len(replies) < i /\ i < at => state[i] \in Judged
          /\ \A i \in Calls : i > at => state[i] = "new"
      BY <1>1 DEF BoundInv, StateInv, Batched
    <3>2. /\ \A i \in Calls : i > last => i # at
          /\ \A i \in Calls : i < at => i # at
          /\ \A i \in Calls : i > at => i # at
      BY <1>3, <2>n
    <3>3. /\ \A i \in Calls : i > last => state'[i] = "new"
          /\ \A i \in Calls : Len(replies) < i /\ i < at => state'[i] \in Judged
          /\ \A i \in Calls : i > at => state'[i] = "new"
      BY <2>2, <3>1, <3>2
    <3>. QED  BY <1>1, <1>3, <2>1, <2>2, <3>1, <3>3 DEF StateInv, Single, Batched
  <2>7. MarkInv'
    <3>1. \A i \in Calls : Len(replies) < i /\ i <= at => mark'[i].mode # "none"
      BY <1>1, <1>5 DEF BoundInv, MarkInv, Batched
    <3>. QED  BY <1>1, <1>5, <2>1, <3>1 DEF MarkInv, Under, Within
  <2>8. AdmitInv'
    <3>1. \A i \in Calls : Unapproved(reply[i])' = Unapproved(reply[i])
      BY <1>1 DEF Unapproved, disk
    <3>2. perms' = perms
      BY <1>2, <1>9
    <3>3. \A i \in Calls : Admitted(state'[i], reply[i], mark'[i], perms, Unapproved(reply[i]))
      <4>1. ASSUME NEW i \in Calls PROVE Admitted(state'[i], reply[i], mark'[i], perms, Unapproved(reply[i]))
        <5>1. CASE i = at
          BY <2>2, <5>1 DEF Admitted
        <5>2. CASE i # at
          <6>1. state'[i] = state[i] /\ Admitted(state[i], reply[i], mark[i], perms, Unapproved(reply[i]))
            BY <1>1, <2>2, <5>2 DEF BoundInv, AdmitInv, Batched
          <6>2. mark'[i].mode = mark[i].mode /\ mark'[i].edited = mark[i].edited
            BY <1>4
          <6>. QED  BY <6>1, <6>2 DEF Admitted
        <5>. QED  BY <5>1, <5>2
      <4>. QED  BY <4>1
    <3>. QED  BY <1>1, <2>1, <3>1, <3>2, <3>3 DEF AdmitInv
  <2>9. RanInv'
    <3>1. Ran' = Ran /\ \A i \in Ran' : mark'[i].mode # "none" /\ Bound(reply'[i], ran'[i], mark'[i])
      BY <1>1, <1>6, RanStays
    <3>2. \A i \in Ran : state'[i] = "closed"
      BY <1>6, <2>4
    <3>. QED  BY <3>1, <3>2 DEF RanInv
  <2>10. at' \in 0..Len(reply') /\ Answered' \subseteq Calls' /\ state' \in [Calls' -> States]
    BY <1>1, <2>1, <2>2 DEF TypeOK, Answered
  <2>. QED  BY <1>2, <1>7, <2>3, <2>5, <2>6, <2>7, <2>8, <2>9, <2>10, TypeParts2 DEF BoundInv
<1>. QED
  <2>1. PICK pre \in PreToolUse :
         IF pre = "cancelled" THEN Refuse(at) /\ Goto("over", at)
         ELSE IF policy' # policy THEN Refuse(last) /\ Onward(last)
         ELSE /\ Goto("batch judge", at) /\ UNCHANGED <<log, replies>>
              /\ state' = [state EXCEPT ![at] = IF pre = "block" THEN "blocked" ELSE "asked"]
    BY DEF BatchHook
  <2>2. CASE pre = "cancelled"
    BY <1>3, <1>8, <2>1, <2>2 DEF Goto
  <2>3. CASE pre # "cancelled" /\ policy' # policy
    BY <1>8, <2>1, <2>3
  <2>4. CASE pre # "cancelled" /\ policy' = policy
    <3>1. \E s \in {"blocked", "asked"} : state' = [state EXCEPT ![at] = s]
      BY <2>1, <2>4
    <3>. QED  BY <1>9, <2>1, <2>4, <3>1
  <2>. QED  BY <2>2, <2>3, <2>4

\* What a batch's call that has been judged was let in under.
LEMMA AdmissionIs ==
    ASSUME BoundInv, BatchJudge
    PROVE  /\ Admission(at) \in Judged
           /\ Admitted(Admission(at), reply[at], mark[at], perms, Unapproved(reply[at]))
<1>1. reply[at] \in Tools /\ at \in Calls
  <2>1. Len(replies) < at /\ at <= last /\ at \in Calls
    BY BatchFacts DEF Batched, BatchJudge
  <2>. QED  BY <2>1, BatchFacts DEF Batched, BatchJudge
<1>2. perms # {} /\ perms \subseteq [Tools -> Effects] \cup {Broken} /\ live \in Modes
  BY DEF BoundInv, RulesInv, TypeOK
<1>3. /\ Evaluate(reply[at]) # "deny" => Free(perms, reply[at], {"deny"})
      /\ Evaluate(reply[at]) \notin {"deny", "ask"} => Free(perms, reply[at], {"deny", "ask"})
  BY <1>1, <1>2, EvaluateTells
<1>4. Len(replies) < at /\ at <= at
  <2>1. Len(replies) < at
    BY BatchFacts DEF Batched, BatchJudge
  <2>2. at \in Nat
    BY Counts DEF Numbers
  <2>. QED  BY <2>1, <2>2
<1>5. mark[at].mode # "none" /\ mark[at].mode \in Modes
  <2>1. mark[at].mode # "none"
    BY <1>1, <1>4 DEF BoundInv, MarkInv, BatchJudge, Batched
  <2>2. mark[at] \in Marks
    BY <1>1, Types DEF BoundInv, Typing
  <2>. QED  BY <2>1, <2>2 DEF Marks
<1>6. live = "auto" => mark[at].mode = "auto"
  <2>1. Strictness(live) >= Strictness(mark[at].mode)
    BY <1>1, <1>5 DEF BoundInv, MarkInv, BatchJudge
  <2>2. Strictness(mark[at].mode) \in 0..2 /\ (Strictness(mark[at].mode) = 0 => mark[at].mode = "auto")
    BY <1>5, ModeFacts
  <2>3. ASSUME live = "auto" PROVE mark[at].mode = "auto"
    <3>1. Strictness(live) = 0
      BY <1>2, <2>3, ModeFacts
    <3>2. Strictness(mark[at].mode) = 0
      BY <2>1, <2>2, <3>1
    <3>. QED  BY <2>2, <3>2
  <2>. QED  BY <2>3
<1>7. /\ Admission(at) \in Judged
      /\ Admission(at) = "unasked" => live = "auto" /\ Evaluate(reply[at]) # "deny"
      /\ Admission(at) = "ready" => Evaluate(reply[at]) \notin {"deny", "ask"} /\ ~Unapproved(reply[at])
  BY DEF Admission, Judged
<1>. QED  BY <1>3, <1>6, <1>7 DEF Admitted

LEMMA BatchJudgeStep == ASSUME BoundInv, BatchJudge PROVE BoundInv'
<1>1. /\ place = "batch judge" /\ TypeRest /\ changes \in 0..MaxChanges /\ TypeOK
      /\ UNCHANGED <<live, saved, policy, perms, book, code, approved>> /\ Calls' = Calls
      /\ UNCHANGED <<changes, reply, formed, last, card, cancelled, replies, ran, written>>
      /\ state' = [state EXCEPT ![at] = Admission(at)]
      /\ \/ at < last /\ Goto("batch hook", at + 1) /\ Reached(at + 1)
         \/ ~(at < last) /\ Goto("batch", at) /\ UNCHANGED mark
  BY TypeParts DEF BatchJudge, BoundInv, PlaceInv, Calls, gate, disk
<1>2. /\ at \in Calls /\ Len(replies) < at /\ at <= last /\ last \in Calls
      /\ \A i \in Calls : i > last => state[i] = "new"
      /\ \A i \in Calls : state[i] = "closed" <=> i <= Len(replies)
  BY <1>1, BatchFacts DEF Batched
<1>n. Len(replies) \in Nat /\ at \in Nat /\ last \in Nat /\ \A i \in Calls : i \in Nat
  BY Counts DEF Numbers
<1>3. /\ Admission(at) \in Judged
      /\ Admitted(Admission(at), reply[at], mark[at], perms, Unapproved(reply[at]))
  BY <1>1, AdmissionIs
<1>4. /\ state' \in [Calls -> States] /\ state'[at] = Admission(at)
      /\ \A i \in Calls \ {at} : state'[i] = state[i]
  <2>1. state \in [Calls -> States] /\ Judged \subseteq States
    BY Types DEF BoundInv, Typing, States
  <2>. QED  BY <1>1, <1>2, <1>3, <2>1
<1>5. \A i \in Calls : state'[i] = "closed" <=> i <= Len(replies)
  <2>1. ~(at <= Len(replies))
    BY <1>2, <1>n
  <2>. QED  BY <1>2, <1>3, <1>4, <2>1 DEF Judged
<1>6. /\ \A i \in Calls : Len(replies) < i /\ i < at => state[i] \in Judged
      /\ \A i \in Calls : i > at => state[i] = "new"
  BY <1>1 DEF BoundInv, StateInv
<1>7. /\ \A i \in Calls : Len(replies) < i /\ i <= at => state'[i] \in Judged
      /\ \A i \in Calls : i > at => state'[i] = "new"
  <2>1. \A i \in Calls : (i < at \/ i = at \/ i > at) /\ (i > at => i # at) /\ (i <= at => i < at \/ i = at)
    BY <1>n
  <2>. QED  BY <1>3, <1>4, <1>6, <2>1
<1>8. \A i \in Calls : Under(mark[i], live, saved) /\ Within(mark[i], live)
  BY <1>1 DEF BoundInv, MarkInv, Under, Within
<1>9. \A i \in Calls : Len(replies) < i /\ i <= at => mark[i].mode # "none"
  BY <1>1 DEF BoundInv, MarkInv, Batched
<1>10. \A i \in Ran : i \in Calls /\ i <= Len(replies)
  BY <1>1, RanClosed DEF Places, Batched, Ran
<1>11. RulesInv'
  BY <1>1 DEF BoundInv, RulesInv
<1>12. ASSUME NEW i \in Calls PROVE Admitted(state'[i], reply[i], mark[i], perms, Unapproved(reply[i]))
  <2>1. CASE i = at
    BY <1>3, <1>4, <2>1
  <2>2. CASE i # at
    BY <1>1, <1>4, <2>2 DEF BoundInv, AdmitInv, Batched
  <2>. QED  BY <2>1, <2>2
<1>13. \A i \in Calls : Unapproved(reply[i])' = Unapproved(reply[i])
  BY <1>1 DEF Unapproved
<1>14. /\ reply' = reply /\ Calls' = Calls /\ formed' = formed /\ ran' = ran /\ replies' = replies /\ last' = last
       /\ changes' = changes /\ cancelled' = cancelled /\ perms' = perms /\ live' = live /\ saved' = saved
  BY <1>1
<1>15. CASE ~(at < last) /\ Goto("batch", at) /\ mark' = mark
  <2>1. at = last
    BY <1>2, <1>15, <1>n
  <2>2. BatchAt
    <3>1. /\ place' = "batch" /\ at' = last /\ last' = last
      BY <1>14, <1>15, <2>1 DEF Goto
    <3>2. replies \in Seq(Nat) /\ \A k \in DOMAIN replies : replies[k] = k
      BY DEF BoundInv, AnswerInv
    <3>3. /\ replies' \in Seq(Nat) /\ \A k \in DOMAIN replies' : replies'[k] = k
      BY <1>14, <3>2
    <3>4. Len(replies') < last /\ Len(replies) <= Len(replies')
      BY <1>2, <1>14, <1>n, <2>1
    <3>5. /\ \A i \in Calls : state'[i] = "closed" <=> i <= Len(replies')
          /\ \A i \in Calls : Len(replies') < i /\ i <= last => state'[i] \in Judged \cup {"running", "ended"}
          /\ \A i \in Calls : i > last => state'[i] = "new"
      BY <1>5, <1>7, <1>14, <2>1
    <3>6. \A i \in Calls : Len(replies) < i /\ i <= last => mark[i].mode # "none"
      BY <1>9, <2>1
    <3>. QED  BY <1>4, <3>1, <3>3, <3>4, <3>5, <3>6 DEF BatchAt
  <2>3. \A i \in Calls : Under(mark'[i], live', saved') /\ Within(mark'[i], live') /\ Loosens(mark[i], mark'[i])
    BY <1>8, <1>14, <1>15, LoosensSame
  <2>4. /\ PlaceInv' /\ AnswerInv' /\ StateInv' /\ MarkInv'
        /\ at' \in 0..Len(reply') /\ Answered' \subseteq Calls' /\ state' \in [Calls' -> States]
    BY <1>1, <2>2, <2>3, BatchStep DEF Batched
  <2>5. TypeRest'
    BY <1>1, <1>15 DEF TypeRest
  <2>6. AdmitInv'
    <3>1. \A i \in Calls' : Admitted(state'[i], reply'[i], mark'[i], perms', Unapproved(reply[i])')
      BY <1>12, <1>13, <1>14, <1>15
    <3>. QED  BY <1>15, <3>1 DEF AdmitInv, Goto
  <2>7. RanInv'
    <3>1. Ran' = Ran /\ \A i \in Ran' : mark'[i].mode # "none" /\ Bound(reply'[i], ran'[i], mark'[i])
      BY <1>14, <2>3, RanStays DEF Ran
    <3>2. \A i \in Ran : state'[i] = "closed"
      BY <1>5, <1>10
    <3>. QED  BY <3>1, <3>2 DEF RanInv
  <2>. QED  BY <1>11, <2>4, <2>5, <2>6, <2>7, TypeParts2 DEF BoundInv
<1>16. CASE at < last /\ Goto("batch hook", at + 1) /\ Reached(at + 1)
  <2>1. at + 1 \in Calls /\ at + 1 <= last /\ at + 1 \in 0..Len(reply)
    <3>1. Calls = 1..Len(reply) /\ Len(reply) \in Nat /\ last <= Len(reply)
      BY Counts DEF Numbers
    <3>2. at < last
      BY <1>16
    <3>. QED  BY <1>n, <3>1, <3>2
  <2>2. /\ mark' \in [Calls -> Marks] /\ mark'[at + 1].mode = Stricter(live, saved) /\ mark'[at + 1].mode \in Modes
        /\ \A j \in Calls \ {at + 1} : mark'[j] = mark[j]
    <3>1. ModesMove
      BY <1>14 DEF ModesMove
    <3>. QED  BY <1>1, <1>14, <1>16, <2>1, <3>1, ReachedIs
  <2>3. place' = "batch hook" /\ at' = at + 1
    BY <1>16 DEF Goto
  <2>4. PlaceInv'
    BY <1>1, <1>14, <2>1, <2>3 DEF BoundInv, PlaceInv, Places, Single, Batched
  <2>5. AnswerInv'
    BY <1>1, <1>5, <1>14, <2>3 DEF BoundInv, AnswerInv
  <2>6. StateInv'
    <3>1. Len(replies) < at + 1
      BY <1>2, <1>n
    <3>2. \A i \in Calls : Len(replies) < i /\ i <= last => i \in formed.calls
      BY <1>1 DEF BoundInv, StateInv, Batched
    <3>3. \A i \in Calls : i > last => state'[i] = "new"
      <4>1. \A i \in Calls : i > last => i > at
        BY <1>2, <1>n
      <4>. QED  BY <1>7, <4>1
    <3>4. \A i \in Calls : Len(replies) < i /\ i < at + 1 => state'[i] \in Judged
      <4>1. \A i \in Calls : i < at + 1 => i <= at
        BY <1>n
      <4>. QED  BY <1>7, <4>1
    <3>5. (\A i \in Calls : i > at + 1 => state'[i] = "new") /\ state'[at + 1] = "new"
      <4>1. (\A i \in Calls : i > at + 1 => i > at) /\ at + 1 > at
        BY <1>n
      <4>. QED  BY <1>7, <2>1, <4>1
    <3>. QED  BY <1>2, <1>14, <2>1, <2>3, <3>1, <3>2, <3>3, <3>4, <3>5 DEF StateInv, Single, Batched
  <2>7. MarkInv'
    <3>1. \A i \in Calls : Len(replies) < i /\ i <= at + 1 => mark'[i].mode # "none"
      <4>1. \A i \in Calls : i <= at + 1 => i <= at \/ i = at + 1
        BY <1>n
      <4>2. mark'[at + 1].mode # "none"
        BY <2>2, ModeFacts
      <4>3. ASSUME NEW i \in Calls, Len(replies) < i, i <= at, i # at + 1 PROVE mark'[i].mode # "none"
        BY <1>9, <2>2, <4>3
      <4>. QED  BY <4>1, <4>2, <4>3
    <3>2. ASSUME NEW i \in Calls, mark'[i].mode # "none"
          PROVE  /\ Strictness(Stricter(live, saved)) >= Strictness(mark'[i].mode)
                 /\ Strictness(live) >= Strictness(mark'[i].mode) \/ i = at + 1
      <4>1. CASE i = at + 1
        BY <2>2, <4>1, ModeFacts
      <4>2. CASE i # at + 1
        <5>1. mark'[i] = mark[i]
          BY <2>2, <4>2
        <5>. QED  BY <1>8, <3>2, <5>1 DEF Under, Within
      <4>. QED  BY <4>1, <4>2
    <3>3. \A i \in Calls' : mark'[i].mode # "none" =>
            /\ Strictness(Stricter(live', saved')) >= Strictness(mark'[i].mode)
            /\ Strictness(live') >= Strictness(mark'[i].mode) \/ (place' = "batch hook" /\ i = at')
      BY <1>14, <2>3, <3>2
    <3>. QED  BY <1>14, <2>3, <3>1, <3>3 DEF MarkInv
  <2>8. TypeRest'
    BY <1>1, <2>2 DEF TypeRest
  <2>9. \A i \in Ran : Loosens(mark[i], mark'[i])
    <3>1. \A i \in Ran : i # at + 1
      BY <1>2, <1>10, <1>n
    <3>2. \A i \in Ran : mark'[i] = mark[i]
      BY <1>10, <2>2, <3>1
    <3>. QED  BY <3>2, LoosensSame
  <2>10. AdmitInv'
    <3>1. ASSUME NEW i \in Calls PROVE Admitted(state'[i], reply[i], mark'[i], perms, Unapproved(reply[i]))
      <4>1. CASE i = at + 1
        <5>1. i > at
          BY <1>n, <4>1
        <5>2. state'[i] = "new"
          BY <1>7, <5>1
        <5>. QED  BY <5>2 DEF Admitted
      <4>2. CASE i # at + 1
        <5>1. mark'[i] = mark[i]
          BY <2>2, <4>2
        <5>. QED  BY <1>12, <5>1
      <4>. QED  BY <4>1, <4>2
    <3>2. \A i \in Calls' : Admitted(state'[i], reply'[i], mark'[i], perms', Unapproved(reply[i])')
      BY <1>13, <1>14, <3>1
    <3>. QED  BY <2>3, <3>2 DEF AdmitInv
  <2>11. RanInv'
    <3>1. Ran' = Ran /\ \A i \in Ran' : mark'[i].mode # "none" /\ Bound(reply'[i], ran'[i], mark'[i])
      BY <1>14, <2>9, RanStays
    <3>2. \A i \in Ran : state'[i] = "closed"
      BY <1>5, <1>10
    <3>. QED  BY <3>1, <3>2 DEF RanInv
  <2>12. at' \in 0..Len(reply') /\ Answered' \subseteq Calls' /\ state' \in [Calls' -> States]
    <3>1. at' \in 0..Len(reply')
      BY <1>14, <2>1, <2>3
    <3>2. Answered \subseteq Calls
      BY <1>1 DEF TypeOK
    <3>3. Answered' \subseteq Calls'
      BY <1>14, <3>2 DEF Answered
    <3>. QED  BY <1>4, <1>14, <3>1, <3>3
  <2>. QED  BY <1>11, <2>4, <2>5, <2>6, <2>7, <2>8, <2>10, <2>11, <2>12, TypeParts2 DEF BoundInv
<1>. QED  BY <1>1, <1>15, <1>16

\* While a batch runs, each of its calls waits, runs, has ended or is closed.
InBatch == place = "batch"
LEMMA InBatchFacts ==
    ASSUME BoundInv, InBatch
    PROVE  /\ at = last /\ last \in Calls /\ Len(replies) < last
           /\ Group = {i \in Calls : Len(replies) < i /\ i <= last}
           /\ \A i \in Group : state[i] \in Judged \cup {"running", "ended"} /\ reply[i] \in Tools \ Mutating /\ mark[i].mode # "none"
           /\ \A i \in Calls : i > last => state[i] = "new"
           /\ \A i \in Calls : state[i] = "closed" <=> i <= Len(replies)
           /\ \A i \in Ran : i \in Calls /\ state[i] \in {"closed", "running", "ended"}
           /\ \A i \in Calls : Within(mark[i], live)
<1>1. place \in Batched
  BY DEF InBatch, Batched
<1>2. at = last /\ \A i \in Calls : Len(replies) < i /\ i <= last => state[i] \in Judged \cup {"running", "ended"}
  BY DEF InBatch, BoundInv, StateInv
<1>3. \A i \in Calls : Len(replies) < i /\ i <= at => mark[i].mode # "none"
  BY <1>1 DEF BoundInv, MarkInv
<1>4. /\ \A i \in Ran : i \in Calls /\ state[i] \in {"closed", "running", "ended"}
      /\ \A i \in Calls : Within(mark[i], live)
  BY DEF InBatch, BoundInv, RanInv, MarkInv, Within, Ran
<1>5. /\ Len(replies) < at /\ last \in Calls
      /\ \A i \in Calls : Len(replies) < i /\ i <= last => reply[i] \in Tools \ Mutating
      /\ \A i \in Calls : i > last => state[i] = "new"
      /\ \A i \in Calls : state[i] = "closed" <=> i <= Len(replies)
  BY <1>1, BatchFacts
<1>6. Group = {i \in Calls : Len(replies) < i /\ i <= last}
  BY <1>1, GroupIs
<1>. QED  BY <1>2, <1>3, <1>4, <1>5, <1>6

\* One of its calls begins to run, or ends.
LEMMA InBatchAt ==
    ASSUME BoundInv, InBatch, NEW i \in Group, NEW s \in {"running", "ended"}, state' = [state EXCEPT ![i] = s],
           UNCHANGED <<place, at, last, replies>>
    PROVE  BatchAt /\ state'[i] = s /\ i \in Calls /\ \A j \in Calls \ {i} : state'[j] = state[j]
<1>1. /\ at = last /\ last \in Calls /\ Len(replies) < last /\ Group = {j \in Calls : Len(replies) < j /\ j <= last}
      /\ \A j \in Group : state[j] \in Judged \cup {"running", "ended"} /\ mark[j].mode # "none"
      /\ \A j \in Calls : j > last => state[j] = "new"
      /\ \A j \in Calls : state[j] = "closed" <=> j <= Len(replies)
  BY InBatchFacts
<1>2. /\ state' \in [Calls -> States] /\ state'[i] = s /\ i \in Calls
      /\ \A j \in Calls \ {i} : state'[j] = state[j]
  <2>1. state \in [Calls -> States]
    BY Types DEF BoundInv, Typing
  <2>2. i \in Calls /\ s \in States
    BY <1>1 DEF States
  <2>. QED  BY <2>1, <2>2
<1>3. i \in Nat /\ last \in Nat /\ Len(replies) \in Nat /\ \A j \in Calls : j \in Nat
  <2>1. last \in Nat /\ Len(replies) \in Nat /\ \A j \in Calls : j \in Nat
    BY Counts DEF Numbers
  <2>. QED  BY <1>2, <2>1
<1>4. ~(i <= Len(replies)) /\ ~(i > last)
  <2>1. Len(replies) < i /\ i <= last
    BY <1>1
  <2>. QED  BY <1>3, <2>1
<1>5. replies' = replies /\ place' = "batch" /\ at' = last /\ last' = last
  BY <1>1 DEF InBatch
<1>6. \A j \in Calls : state'[j] = "closed" <=> j <= Len(replies)
  <2>1. s # "closed"
    OBVIOUS
  <2>. QED  BY <1>1, <1>2, <1>4, <2>1
<1>7. \A j \in Calls : Len(replies) < j /\ j <= last => state'[j] \in Judged \cup {"running", "ended"}
  BY <1>1, <1>2
<1>8. \A j \in Calls : j > last => state'[j] = "new"
  BY <1>1, <1>2, <1>4
<1>9. \A j \in Calls : Len(replies) < j /\ j <= last => mark[j].mode # "none"
  BY <1>1
<1>10. replies \in Seq(Nat) /\ \A k \in DOMAIN replies : replies[k] = k
  BY DEF BoundInv, AnswerInv
<1>11. Len(replies') < last /\ Len(replies) <= Len(replies')
  BY <1>1, <1>3, <1>5
<1>12. replies' \in Seq(Nat) /\ \A k \in DOMAIN replies' : replies'[k] = k
  BY <1>5, <1>10
<1>13. BatchAt
  BY <1>2, <1>5, <1>6, <1>7, <1>8, <1>9, <1>11, <1>12 DEF BatchAt
<1>. QED  BY <1>2, <1>13

\* A call of a batch that starts is bound by what it was let in under and by
\* the mode read as it starts.
LEMMA StartBinds ==
    ASSUME BoundInv, InBatch, NEW i \in Group, state[i] \in {"unasked", "ready"}, StillAdmitted(i),
           NEW r, r.mode = live', r.rules = written, r.unapproved = Unapproved(reply[i]), Within(mark[i], live')
    PROVE  Bound(reply[i], r, mark[i])
<1>1. reply[i] \in Tools \ Mutating /\ mark[i].mode # "none" /\ i \in Calls
  BY InBatchFacts
<1>2. Admitted(state[i], reply[i], mark[i], perms, Unapproved(reply[i]))
  BY <1>1 DEF InBatch, Batched, BoundInv, AdmitInv
<1>3. Strictness(r.mode) >= Strictness(mark[i].mode)
  BY <1>1 DEF Within
<1>4. CASE state[i] = "unasked"
  <2>1. mark[i].mode = "auto" /\ Free(perms, reply[i], {"deny"})
    BY <1>2, <1>4 DEF Admitted
  <2>2. \A b \in written : Verdict(b, reply[i]) # "deny"
    BY <1>1, <2>1, WrittenBind
  <2>3. live' = "auto" \/ ~Unapproved(reply[i])
    BY <1>4 DEF StillAdmitted
  <2>. QED  BY <1>1, <1>3, <2>1, <2>2, <2>3 DEF Bound
<1>5. CASE state[i] = "ready"
  <2>1. Free(perms, reply[i], {"deny", "ask"}) /\ (mark[i].edited \/ ~Unapproved(reply[i]))
    BY <1>2, <1>5 DEF Admitted
  <2>2. \A b \in written : Verdict(b, reply[i]) \notin {"deny", "ask"}
    BY <1>1, <2>1, WrittenBind
  <2>. QED  BY <1>1, <1>3, <2>1, <2>2 DEF Bound
<1>. QED  BY <1>4, <1>5

LEMMA BatchStartStep == ASSUME BoundInv, BatchStart PROVE BoundInv'
<1>1. PICK i \in First(Waiting) :
          /\ IF state[i] = "unasked" THEN RefreshModes ELSE UNCHANGED <<live, saved>>
          /\ IF state[i] = "blocked" \/ ~StillAdmitted(i)
               THEN state' = [state EXCEPT ![i] = "ended"] /\ UNCHANGED ran
               ELSE state' = [state EXCEPT ![i] = "running"] /\ Runs(i, FALSE)
  BY DEF BatchStart
<1>2. /\ InBatch /\ TypeRest /\ TypeOK /\ changes \in 0..MaxChanges /\ Calls' = Calls
      /\ UNCHANGED <<policy, perms, book, code, approved, changes, reply, formed, place, at, last, card, cancelled, replies, mark, written>>
      /\ UNCHANGED <<place, at, last, replies>>
  BY TypeParts DEF BatchStart, BoundInv, PlaceInv, Calls, disk, InBatch
<1>3. i \in Group /\ state[i] \in Judged
  BY DEF First, Waiting, Judged
<1>4. ModesMove
  BY <1>1 DEF ModesMove
<1>5. live' \in Modes /\ saved' \in Modes
  BY <1>2, <1>4, ModesMoved
<1>6. \A j \in Calls : Under(mark'[j], live', saved') /\ Within(mark'[j], live') /\ Loosens(mark[j], mark'[j])
  <2>1. mark' = mark /\ place # "batch hook"
    BY <1>2 DEF InBatch
  <2>. QED  BY <1>4, <2>1, UnderStays, LoosensSame
<1>7. \A j \in Ran : Loosens(mark[j], mark'[j])
  BY <1>6 DEF Ran
<1>8. PICK s \in {"running", "ended"} : state' = [state EXCEPT ![i] = s]
  BY <1>1
<1>9. BatchAt /\ state'[i] = s /\ i \in Calls /\ \A j \in Calls \ {i} : state'[j] = state[j]
  BY <1>2, <1>3, <1>8, InBatchAt
<1>10. /\ PlaceInv' /\ AnswerInv' /\ StateInv' /\ MarkInv'
       /\ at' \in 0..Len(reply') /\ Answered' \subseteq Calls' /\ state' \in [Calls' -> States]
  BY <1>2, <1>6, <1>9, BatchStep DEF InBatch, Batched
<1>11. RulesInv'
  BY <1>2 DEF BoundInv, RulesInv
<1>12. AdmitInv'
  <2>1. \A j \in Calls : Admitted(state[j], reply[j], mark[j], perms, Unapproved(reply[j]))
    BY <1>2 DEF InBatch, Batched, BoundInv, AdmitInv
  <2>2. \A j \in Calls : Admitted(state'[j], reply[j], mark[j], perms, Unapproved(reply[j]))
    BY <1>9, <2>1 DEF Admitted
  <2>3. \A j \in Calls : Unapproved(reply[j])' = Unapproved(reply[j])
    BY <1>2 DEF Unapproved
  <2>4. \A j \in Calls' : Admitted(state'[j], reply'[j], mark'[j], perms', Unapproved(reply[j])')
    BY <1>2, <2>2, <2>3
  <2>. QED  BY <1>2, <2>4 DEF AdmitInv, InBatch
<1>13. \A j \in Ran : state'[j] \in {"closed", "running", "ended"}
  BY <1>2, <1>9, InBatchFacts
<1>14. place' = "batch" /\ place' # "done"
  BY <1>2 DEF InBatch
<1>15. CASE ran' = ran
  <2>1. Ran' = Ran /\ \A j \in Ran' : mark'[j].mode # "none" /\ Bound(reply'[j], ran'[j], mark'[j])
    BY <1>2, <1>7, <1>15, RanStays
  <2>2. RanInv'
    BY <1>13, <1>14, <2>1 DEF RanInv
  <2>3. TypeRest'
    BY <1>2, <1>5, <1>15 DEF TypeRest
  <2>. QED  BY <1>10, <1>11, <1>12, <2>2, <2>3, TypeParts2 DEF BoundInv
<1>16. CASE state[i] # "blocked" /\ StillAdmitted(i) /\ Runs(i, FALSE)
  <2>. DEFINE r == [card |-> FALSE, mode |-> live', rules |-> written, unapproved |-> Unapproved(reply[i])]
  <2>1. ran' = [ran EXCEPT ![i] = r]
    BY <1>16 DEF Runs
  <2>2. r.mode = live' /\ r.rules = written /\ r.unapproved = Unapproved(reply[i])
    OBVIOUS
  <2>. HIDE DEF r
  <2>3. state[i] \in {"unasked", "ready"}
    BY <1>3, <1>16 DEF Judged
  <2>4. mark' = mark /\ Within(mark[i], live')
    BY <1>2, <1>6, <1>9
  <2>5. Bound(reply[i], r, mark'[i]) /\ mark'[i].mode # "none"
    <3>1. mark[i].mode # "none"
      BY <1>2, <1>3, InBatchFacts
    <3>2. Bound(reply[i], r, mark[i])
      BY <1>2, <1>3, <1>16, <2>2, <2>3, <2>4, StartBinds
    <3>. QED  BY <2>4, <3>1, <3>2
  <2>6. /\ Ran' \subseteq Ran \cup {i} /\ DOMAIN ran' = Calls'
        /\ \A j \in Ran' : mark'[j].mode # "none" /\ Bound(reply'[j], ran'[j], mark'[j])
    BY <1>2, <1>7, <1>9, <2>1, <2>5, RanGains
  <2>7. RanInv'
    BY <1>9, <1>13, <1>14, <2>6 DEF RanInv
  <2>8. TypeRest'
    BY <1>2, <1>5, <2>6 DEF TypeRest
  <2>. QED  BY <1>10, <1>11, <1>12, <2>7, <2>8, TypeParts2 DEF BoundInv
<1>. QED  BY <1>1, <1>15, <1>16

LEMMA BatchEndStep == ASSUME BoundInv, BatchEnd PROVE BoundInv'
<1>1. PICK i \in Running : Effect(reply[i]) /\ state' = [state EXCEPT ![i] = "ended"]
  BY DEF BatchEnd
<1>2. /\ InBatch /\ TypeRest /\ TypeOK /\ Calls' = Calls
      /\ UNCHANGED <<live, saved, policy, perms, approved, reply, formed, place, at, last, card, cancelled, replies, ran, written>>
      /\ UNCHANGED <<place, at, last, replies>>
  BY TypeParts DEF BatchEnd, BoundInv, Calls, gate, InBatch
<1>3. i \in Group /\ (Edit \/ UNCHANGED <<book, code, changes, mark>>)
  BY <1>1 DEF Running, Effect
<1>4. /\ book' \in Books \cup {Broken} /\ code' \in [Tools -> Code] /\ changes' \in 0..MaxChanges
      /\ mark' \in [Calls -> Marks]
  BY <1>3, EditIs
<1>5. /\ \A j \in Calls : /\ Loosens(mark[j], mark'[j]) /\ Under(mark'[j], live', saved')
                          /\ Within(mark[j], live) => Within(mark'[j], live')
      /\ \A j \in Calls : Admitted(state[j], reply[j], mark'[j], perms, Unapproved(reply[j])')
  BY <1>2, <1>3, EditStays DEF InBatch, Batched
<1>6. \A j \in Calls : Under(mark'[j], live', saved') /\ Within(mark'[j], live') /\ Loosens(mark[j], mark'[j])
  BY <1>2, <1>5, InBatchFacts
<1>7. BatchAt /\ state'[i] = "ended" /\ i \in Calls /\ \A j \in Calls \ {i} : state'[j] = state[j]
  BY <1>1, <1>2, <1>3, InBatchAt
<1>8. /\ PlaceInv' /\ AnswerInv' /\ StateInv' /\ MarkInv'
      /\ at' \in 0..Len(reply') /\ Answered' \subseteq Calls' /\ state' \in [Calls' -> States]
  BY <1>2, <1>4, <1>6, <1>7, BatchStep DEF InBatch, Batched
<1>9. RulesInv'
  BY <1>2 DEF BoundInv, RulesInv
<1>10. AdmitInv'
  <2>1. \A j \in Calls : Admitted(state'[j], reply[j], mark'[j], perms, Unapproved(reply[j])')
    BY <1>5, <1>7 DEF Admitted
  <2>. QED  BY <1>2, <2>1 DEF AdmitInv, InBatch
<1>11. RanInv'
  <2>1. \A j \in Ran : Loosens(mark[j], mark'[j])
    BY <1>6 DEF Ran
  <2>2. Ran' = Ran /\ \A j \in Ran' : mark'[j].mode # "none" /\ Bound(reply'[j], ran'[j], mark'[j])
    BY <1>2, <2>1, RanStays
  <2>3. \A j \in Ran : state'[j] \in {"closed", "running", "ended"}
    BY <1>2, <1>7, InBatchFacts
  <2>4. place' = "batch"
    BY <1>2 DEF InBatch
  <2>. QED  BY <2>2, <2>3, <2>4 DEF RanInv
<1>12. TypeRest'
  BY <1>2, <1>4 DEF TypeRest
<1>. QED  BY <1>8, <1>9, <1>10, <1>11, <1>12, TypeParts2 DEF BoundInv

LEMMA BatchCloseStep == ASSUME BoundInv, BatchClose PROVE BoundInv'
<1>1. PICK i \in First(Group) : Close(i) /\ IF Group = {i} THEN Onward(last) ELSE UNCHANGED <<place, at>>
  BY DEF BatchClose
<1>2. /\ InBatch /\ TypeRest /\ TypeOK /\ Calls' = Calls /\ changes \in 0..MaxChanges
      /\ UNCHANGED <<live, saved, policy, perms, book, code, approved, changes, reply, formed, last, card, cancelled, mark, ran, written>>
      /\ Waiting \cup Running = {}
  BY TypeParts DEF BatchClose, BoundInv, PlaceInv, Calls, gate, disk, InBatch
<1>3. i = Len(replies) + 1 /\ i \in Group
  BY <1>2, GroupIs DEF InBatch, Batched
<1>4. /\ at = last /\ last \in Calls /\ Len(replies) < last
      /\ Group = {j \in Calls : Len(replies) < j /\ j <= last}
      /\ \A j \in Calls : j > last => state[j] = "new"
      /\ \A j \in Calls : state[j] = "closed" <=> j <= Len(replies)
  BY <1>2, InBatchFacts
<1>5. \A j \in Group : state[j] = "ended" /\ mark[j].mode # "none"
  BY <1>2, InBatchFacts DEF Waiting, Running, Judged
<1>6. i \in Calls /\ Closes(i)
  <2>1. i \in Calls /\ place # "done"
    BY <1>2, <1>3 DEF Group, InBatch
  <2>2. replies' = Append(replies, i) /\ state' = [state EXCEPT ![i] = "closed"]
    BY <1>1 DEF Close
  <2>. QED  BY <1>3, <2>1, <2>2, CloseIs
<1>7. \A j \in Calls : Under(mark'[j], live', saved') /\ Within(mark'[j], live') /\ Loosens(mark[j], mark'[j])
  <2>1. mark' = mark /\ live' = live /\ saved' = saved
    BY <1>2
  <2>2. \A j \in Calls : Under(mark[j], live, saved)
    BY DEF BoundInv, MarkInv, Under
  <2>. QED  BY <1>2, <2>1, <2>2, InBatchFacts, LoosensSame
<1>8. RulesInv'
  BY <1>2 DEF BoundInv, RulesInv
<1>9. TypeRest'
  BY <1>2 DEF TypeRest
<1>10. \A j \in Calls : Unapproved(reply[j])' = Unapproved(reply[j])
  BY <1>2 DEF Unapproved
<1>n. Len(replies) \in Nat /\ last \in Nat /\ i \in Nat /\ \A j \in Calls : j \in Nat
  <2>1. Len(replies) \in Nat /\ last \in Nat /\ \A j \in Calls : j \in Nat
    BY Counts DEF Numbers
  <2>. QED  BY <1>6, <2>1
<1>11. /\ reply' = reply /\ formed' = formed /\ ran' = ran /\ cancelled' = cancelled /\ changes' = changes
       /\ last' = last /\ mark' = mark /\ perms' = perms
  BY <1>2
<1>12. CASE Group = {i} /\ Onward(last)
  <2>1. last = i
    BY <1>4, <1>12, <1>n
  <2>2. \A j \in Calls : j > last => state'[j] = "new"
    BY <1>4, <1>6, <1>n, <2>1 DEF Closes
  <2>3. ClosedTo(last)
    BY <1>6, <2>1, <2>2 DEF Closes, ClosedTo
  <2>4. \A j \in Ran : j <= last
    <3>1. \A j \in Ran : j \in Calls /\ state[j] # "new"
      BY <1>2, InBatchFacts
    <3>2. \A j \in Ran : ~(j > last)
      BY <1>4, <3>1
    <3>. QED  BY <1>n, <3>1, <3>2
  <2>5. last \in 0..Len(reply)
    BY Counts DEF Numbers
  <2>6. \A j \in Ran : j <= last /\ Loosens(mark[j], mark'[j])
    BY <1>7, <2>4 DEF Ran
  <2>7. /\ PlaceInv' /\ AnswerInv' /\ StateInv' /\ MarkInv' /\ AdmitInv' /\ RanInv'
        /\ at' \in 0..Len(reply') /\ Answered' \subseteq Calls' /\ state' \in [Calls' -> States]
    BY <1>2, <1>7, <1>11, <1>12, <2>3, <2>5, <2>6, ClosedStep
  <2>. QED  BY <1>8, <1>9, <2>7, TypeParts2 DEF BoundInv
<1>13. CASE Group # {i} /\ UNCHANGED <<place, at>>
  <2>1. i < last
    <3>1. PICK j \in Group : j # i
      BY <1>3, <1>13
    <3>2. j \in Calls /\ Len(replies) < j /\ j <= last
      BY <1>4
    <3>. QED  BY <1>3, <1>n, <3>1, <3>2
  <2>2. BatchAt
    <3>1. /\ place' = "batch" /\ at' = last /\ last' = last
      BY <1>2, <1>4, <1>13 DEF InBatch
    <3>2. /\ replies' \in Seq(Nat) /\ Len(replies') = i /\ (\A k \in DOMAIN replies' : replies'[k] = k)
          /\ state' \in [Calls -> States] /\ state'[i] = "closed"
          /\ (\A j \in Calls : state'[j] = "closed" <=> j <= i) /\ \A j \in Calls \ {i} : state'[j] = state[j]
      BY <1>6 DEF Closes
    <3>3. Len(replies') < last /\ Len(replies) <= Len(replies')
      BY <1>3, <1>n, <2>1, <3>2
    <3>4. \A j \in Calls : i < j /\ j <= last => state'[j] = "ended"
      <4>1. \A j \in Calls : i < j /\ j <= last => j # i /\ j \in Group
        BY <1>3, <1>4, <1>n
      <4>. QED  BY <1>5, <3>2, <4>1
    <3>5. \A j \in Calls : j > last => state'[j] = "new"
      <4>1. \A j \in Calls : j > last => j # i
        BY <1>n, <2>1
      <4>. QED  BY <1>4, <3>2, <4>1
    <3>6. \A j \in Calls : Len(replies) < j /\ j <= last => mark[j].mode # "none"
      BY <1>4, <1>5
    <3>. QED  BY <3>1, <3>2, <3>3, <3>4, <3>5, <3>6 DEF BatchAt
  <2>3. /\ PlaceInv' /\ AnswerInv' /\ StateInv' /\ MarkInv'
        /\ at' \in 0..Len(reply') /\ Answered' \subseteq Calls' /\ state' \in [Calls' -> States]
    BY <1>2, <1>7, <1>11, <2>2, BatchStep DEF InBatch, Batched
  <2>4. AdmitInv'
    <3>1. \A j \in Calls : Admitted(state[j], reply[j], mark[j], perms, Unapproved(reply[j]))
      BY <1>2 DEF InBatch, Batched, BoundInv, AdmitInv
    <3>2. \A j \in Calls : state'[j] = "closed" \/ state'[j] = state[j]
      BY <1>6 DEF Closes
    <3>3. \A j \in Calls : Admitted(state'[j], reply[j], mark[j], perms, Unapproved(reply[j]))
      BY <3>1, <3>2 DEF Admitted
    <3>4. \A j \in Calls' : Admitted(state'[j], reply'[j], mark'[j], perms', Unapproved(reply[j])')
      BY <1>2, <1>10, <1>11, <3>3
    <3>5. place' = "batch"
      BY <2>2 DEF BatchAt
    <3>. QED  BY <3>4, <3>5 DEF AdmitInv
  <2>5. RanInv'
    <3>1. Ran' = Ran /\ \A j \in Ran' : mark'[j].mode # "none" /\ Bound(reply'[j], ran'[j], mark'[j])
      BY <1>7, <1>11, RanStays DEF Ran
    <3>2. \A j \in Ran : state'[j] \in {"closed", "running", "ended"}
      BY <1>2, <1>6, InBatchFacts DEF Closes
    <3>3. place' = "batch"
      BY <2>2 DEF BatchAt
    <3>. QED  BY <3>1, <3>2, <3>3 DEF RanInv
  <2>. QED  BY <1>8, <1>9, <2>3, <2>4, <2>5, TypeParts2 DEF BoundInv
<1>. QED  BY <1>1, <1>12, <1>13

------------------------------------------------------------------------------
(* The reply is done with *)

LEMMA LeastNatural ==
    ASSUME NEW S \in SUBSET Nat, S # {}
    PROVE  \E i \in S : \A j \in S : i <= j
<1>1. PICK i \in S : \A j \in S : <<j, i>> \notin OpToRel(<, Nat)
  BY NatLessThanWellFounded, WFMin, Zenon
<1>2. \A j \in S : ~(j < i)
  BY <1>1, Zenon DEF OpToRel
<1>. QED  BY <1>2

\* There is one way to go up from n + 1 to n + m in m steps.
LEMMA OneOrder ==
    ASSUME NEW n \in Nat, NEW m \in Nat, NEW f \in [1..m -> (n + 1)..(n + m)],
           \A k \in 1..m, j \in 1..m : k < j => f[k] < f[j]
    PROVE  \A k \in 1..m : f[k] = n + k
<1>1. \A k \in 1..m : f[k] \in Nat /\ n + 1 <= f[k] /\ f[k] <= n + m
  OBVIOUS
<1>2. \A k \in 1..m : f[k] >= n + k
  <2>. DEFINE S == {k \in 1..m : f[k] < n + k}
  <2>. SUFFICES ASSUME S # {} PROVE FALSE
    BY <1>1
  <2>0. S \in SUBSET Nat
    OBVIOUS
  <2>1. PICK k \in S : \A j \in S : k <= j
    BY <2>0, LeastNatural
  <2>2. k \in 1..m /\ f[k] < n + k
    OBVIOUS
  <2>3. k # 1
    BY <1>1, <2>2
  <2>4. k - 1 \in 1..m /\ k - 1 < k
    BY <2>2, <2>3
  <2>5. k - 1 \notin S
    BY <2>1, <2>2, <2>4
  <2>6. f[k - 1] >= n + (k - 1)
    BY <1>1, <2>4, <2>5
  <2>7. f[k - 1] < f[k]
    BY <2>2, <2>4
  <2>. QED  BY <1>1, <2>2, <2>4, <2>6, <2>7
<1>3. \A k \in 1..m : f[k] <= n + k
  <2>. DEFINE S == {d \in 0..m : m - d \in 1..m /\ f[m - d] > n + (m - d)}
  <2>1. SUFFICES S = {}
    <3>1. ASSUME NEW k \in 1..m PROVE f[k] <= n + k
      <4>1. m - k \in 0..m /\ m - (m - k) = k
        OBVIOUS
      <4>2. m - k \notin S
        BY <2>1
      <4>3. ~(f[k] > n + k)
        BY <4>1, <4>2
      <4>. QED  BY <1>1, <4>3
    <3>. QED  BY <3>1
  <2>2. SUFFICES ASSUME S # {} PROVE FALSE
    OBVIOUS
  <2>0. S \in SUBSET Nat
    OBVIOUS
  <2>3. PICK d \in S : \A j \in S : d <= j
    BY <2>0, <2>2, LeastNatural
  <2>4. d \in 0..m /\ m - d \in 1..m /\ f[m - d] > n + (m - d)
    OBVIOUS
  <2>5. d # 0
    BY <1>1, <2>4
  <2>6. d - 1 \in 0..m /\ m - (d - 1) \in 1..m /\ m - d < m - (d - 1) /\ m - (d - 1) = (m - d) + 1
    BY <2>4, <2>5
  <2>7. d - 1 \notin S
    <3>1. ~(d <= d - 1)
      BY <2>4
    <3>. QED  BY <2>3, <3>1
  <2>8. ~(f[m - (d - 1)] > n + (m - (d - 1)))
    BY <2>6, <2>7
  <2>9. f[m - d] < f[m - (d - 1)]
    BY <2>4, <2>6
  <2>. QED  BY <1>1, <2>4, <2>6, <2>8, <2>9
<1>. QED  BY <1>1, <1>2, <1>3

LEMMA FinishStep == ASSUME BoundInv, Finish PROVE BoundInv'
<1>1. PICK rest \in InOrder(Calls \ Answered) : replies' = replies \o rest
  BY DEF Finish
<1>2. /\ place = "over" /\ place' = "done" /\ at' = at /\ Calls' = Calls /\ TypeOK /\ TypeRest
      /\ UNCHANGED <<live, saved, policy, perms, book, code, approved>>
      /\ UNCHANGED <<changes, reply, formed, last, state, card, cancelled, mark, ran, written>>
  BY TypeParts DEF Finish, Goto, BoundInv, Calls, gate, disk
<1>3. Len(reply) \in Nat /\ Calls = 1..Len(reply) /\ Len(replies) \in Nat /\ Len(replies) <= Len(reply)
  BY Counts DEF Numbers
<1>4. replies \in Seq(Nat) /\ \A k \in DOMAIN replies : replies[k] = k
  BY DEF BoundInv, AnswerInv
<1>5. Calls \ Answered = (Len(replies) + 1)..Len(reply)
  <2>1. DOMAIN replies = 1..Len(replies)
    BY <1>4
  <2>2. Answered = 1..Len(replies)
    BY <1>4, <2>1 DEF Answered
  <2>. QED  BY <1>3, <2>2
<1>6. PICK m \in Nat : m = Len(reply) - Len(replies)
  <2>1. Len(reply) - Len(replies) \in Nat
    BY <1>3
  <2>. QED  BY <2>1
<1>7. Cardinality(Calls \ Answered) = m /\ (Len(replies) + 1)..Len(reply) = (Len(replies) + 1)..(Len(replies) + m)
  <2>1. Cardinality((Len(replies) + 1)..Len(reply)) = m
    <3>1. Len(replies) + 1 \in Int /\ Len(reply) \in Int
      BY <1>3
    <3>2. Cardinality((Len(replies) + 1)..Len(reply))
            = IF Len(replies) + 1 > Len(reply) THEN 0 ELSE Len(reply) - (Len(replies) + 1) + 1
      BY <3>1, FS_Interval
    <3>3. (IF Len(replies) + 1 > Len(reply) THEN 0 ELSE Len(reply) - (Len(replies) + 1) + 1) = m
      BY <1>3, <1>6
    <3>. QED  BY <3>2, <3>3
  <2>2. Len(reply) = Len(replies) + m
    BY <1>3, <1>6
  <2>. QED  BY <1>5, <2>1, <2>2
<1>8. /\ rest \in [1..m -> (Len(replies) + 1)..(Len(replies) + m)]
      /\ \A k \in 1..m, j \in 1..m : k < j => rest[k] < rest[j]
  <2>1. rest \in [1..m -> (Len(replies) + 1)..(Len(replies) + m)]
    BY <1>5, <1>7 DEF InOrder
  <2>2. DOMAIN rest = 1..m
    BY <2>1
  <2>. QED  BY <2>1, <2>2 DEF InOrder
<1>9. \A k \in 1..m : rest[k] = Len(replies) + k
  BY <1>3, <1>8, OneOrder
<1>10. /\ replies' \in Seq(Nat) /\ Len(replies') = Len(reply) /\ \A k \in DOMAIN replies' : replies'[k] = k
  <2>1. rest \in Seq(Nat) /\ Len(rest) = m
    <3>1. \A k \in 1..m : rest[k] \in Nat
      BY <1>3, <1>9
    <3>2. DOMAIN rest = 1..m /\ rest = [k \in 1..m |-> rest[k]]
      BY <1>8
    <3>. QED  BY <3>1, <3>2
  <2>2. \A n \in Nat, u \in Nat : \A s \in Seq(Nat), f \in Seq(Nat) :
          n <= u /\ Len(s) = n /\ (\A k \in DOMAIN s : s[k] = k) /\ Len(f) = u - n /\ (\A k \in 1..(u - n) : f[k] = n + k)
            => s \o f \in Seq(Nat) /\ Len(s \o f) = u /\ \A k \in DOMAIN (s \o f) : (s \o f)[k] = k
    BY AnswersUpTo
  <2>. QED  BY <1>1, <1>3, <1>4, <1>6, <1>9, <2>1, <2>2
<1>11. TypeRest'
  BY <1>2 DEF TypeRest
<1>12. at' \in 0..Len(reply') /\ Answered' \subseteq Calls' /\ state' \in [Calls' -> States]
  <2>1. DOMAIN replies' = Calls
    BY <1>3, <1>10
  <2>2. Answered' \subseteq Calls'
    BY <1>2, <1>10, <2>1 DEF Answered
  <2>. QED  BY <1>2, <2>2, TypeParts
<1>13. PlaceInv'
  BY <1>2 DEF BoundInv, PlaceInv, Places, Single, Batched
<1>14. AnswerInv'
  <2>1. reply' = reply /\ Len(replies') <= Len(reply)
    BY <1>2, <1>3, <1>10
  <2>. QED  BY <1>2, <1>10, <2>1 DEF AnswerInv
<1>15. StateInv' /\ AdmitInv'
  BY <1>2 DEF StateInv, AdmitInv, Single, Batched
<1>16. MarkInv'
  BY <1>2 DEF BoundInv, MarkInv, Single, Batched
<1>17. RulesInv'
  BY <1>2 DEF BoundInv, RulesInv
<1>18. RanInv'
  <2>1. \A j \in Ran : Loosens(mark[j], mark'[j])
    BY <1>2, LoosensSame
  <2>2. Ran' = Ran /\ \A j \in Ran' : mark'[j].mode # "none" /\ Bound(reply'[j], ran'[j], mark'[j])
    BY <1>2, <2>1, RanStays
  <2>. QED  BY <1>2, <2>2 DEF RanInv
<1>. QED  BY <1>11, <1>12, <1>13, <1>14, <1>15, <1>16, <1>17, <1>18, TypeParts2 DEF BoundInv

------------------------------------------------------------------------------
(* The invariant *)

LEMMA InitStep == ASSUME Init PROVE BoundInv
<1>1. /\ live \in Modes /\ saved = live /\ policy = live /\ book \in Books \cup {Broken} /\ perms = {Discover(book, live)}
      /\ code = [t \in Tools |-> 0] /\ approved \in SUBSET {<<t, 0>> : t \in External}
      /\ reply = <<>> /\ formed.calls = {} /\ place = "request" /\ at = 0 /\ last = 0
      /\ state = <<>> /\ card = NoCard /\ cancelled = FALSE /\ replies = <<>> /\ mark = <<>> /\ ran = <<>>
      /\ written = {book} /\ changes = 0
  BY ConstantsAssumption DEF Init
<1>2. Calls = {} /\ Len(reply) = 0 /\ Len(replies) = 0 /\ Ran = {}
  BY <1>1 DEF Calls, Ran
<1>3. 0 \in Code /\ 0 \in 0..MaxChanges
  BY ConstantsAssumption DEF Code
<1>4. Discover(book, live) \in [Tools -> Effects] \cup {Broken} /\ (live # "auto" => Cautious(Discover(book, live)))
  BY <1>1, DiscoverTells
<1>5. TypeOK
  <2>1. approved \subseteq External \X Code /\ code \in [Tools -> Code]
    BY <1>1, <1>3
  <2>2. card \in Cards(Len(reply))
    BY <1>1, <1>2 DEF NoCard, Cards
  <2>3. Answered \subseteq Calls /\ formed.calls \subseteq Calls
    BY <1>1 DEF Answered
  <2>4. /\ mark \in [Calls -> Marks] /\ DOMAIN ran = Calls
        /\ state \in [Calls -> {"new", "asked", "blocked", "unasked", "ready", "running", "ended", "closed"}]
    BY <1>1 DEF Calls
  <2>5. at \in 0..Len(reply) /\ last \in 0..Len(reply)
    BY <1>1, <1>2
  <2>. QED  BY <1>1, <1>4, <2>1, <2>2, <2>3, <2>4, <2>5 DEF TypeOK
<1>6. PlaceInv
  BY <1>1, <1>3 DEF PlaceInv, Places, Single, Batched
<1>7. AnswerInv
  BY <1>1, <1>2 DEF AnswerInv
<1>8. StateInv
  BY <1>1 DEF StateInv, Single, Batched
<1>9. MarkInv /\ AdmitInv /\ RanInv
  BY <1>1, <1>2 DEF MarkInv, AdmitInv, RanInv, Single, Batched
<1>10. RulesInv
  BY <1>1, <1>4 DEF RulesInv
<1>. QED  BY <1>5, <1>6, <1>7, <1>8, <1>9, <1>10 DEF BoundInv

\* What binds a call is known when it starts and holds as long as the turn
\* does: the modes and rules in force bind each call that has been reached,
\* and what has run was let through by them.
THEOREM GateInvariant == Spec => []BoundInv
<1>1. Init => BoundInv
  BY InitStep
<1>2. BoundInv /\ [Next]_vars => BoundInv'
  <2>. SUFFICES ASSUME BoundInv, [Next]_vars PROVE BoundInv'
    OBVIOUS
  <2>1. CASE Receive
    BY <2>1, ReceiveStep
  <2>2. CASE Enter
    BY <2>2, EnterStep
  <2>3. CASE Hook
    BY <2>3, HookStep
  <2>4. CASE Judge
    BY <2>4, JudgeStep
  <2>5. CASE Settle
    BY <2>5, SettleStep
  <2>6. CASE Run
    BY <2>6, RunStep
  <2>7. CASE BatchHook
    BY <2>7, BatchHookStep
  <2>8. CASE BatchJudge
    BY <2>8, BatchJudgeStep
  <2>9. CASE BatchStart
    BY <2>9, BatchStartStep
  <2>10. CASE BatchEnd
    BY <2>10, BatchEndStep
  <2>11. CASE BatchClose
    BY <2>11, BatchCloseStep
  <2>12. CASE Finish
    BY <2>12, FinishStep
  <2>13. CASE Answer
    BY <2>13, AnswerStep
  <2>14. CASE Modify
    BY <2>14, ModifyStep
  <2>15. CASE Cancel
    BY <2>15, CancelStep
  <2>16. CASE OutsideEdit
    BY <2>16, OutsideEditStep
  <2>17. CASE UNCHANGED vars
    BY <2>17, StutterStep
  <2>. QED  BY <2>1, <2>2, <2>3, <2>4, <2>5, <2>6, <2>7, <2>8, <2>9, <2>10, <2>11, <2>12, <2>13, <2>14, <2>15, <2>16, <2>17
            DEF Next, Step
<1>. QED  BY <1>1, <1>2, PTL DEF Spec

\* A call that runs was let through by the mode, the rules and the approvals
\* that bind it, for any tools, replies, rules, edits and changes of mode.
THEOREM CallsBound == Spec => []CallsAreBound
<1>1. BoundInv => CallsAreBound
  <2>. SUFFICES ASSUME BoundInv PROVE CallsAreBound
    OBVIOUS
  <2>1. TypeOK /\ \A i \in Ran : Bound(reply[i], ran[i], mark[i])
    BY DEF BoundInv, RanInv
  <2>2. ModesBind
    BY <2>1 DEF ModesBind, Bound
  <2>3. RulesBind
    BY <2>1 DEF RulesBind, Bound
  <2>. QED  BY <2>1, <2>2, <2>3 DEF CallsAreBound
<1>. QED  BY <1>1, GateInvariant, PTL

------------------------------------------------------------------------------
(* The events, and the order of answers *)

Events == {"start", "end", "ask", "settled"} \X Nat
Sent(l, e) == \E n \in DOMAIN l : l[n] = e
Once(l) == \A n \in DOMAIN l, m \in DOMAIN l : l[n] = l[m] => n = m

\* What has been sent of a call is what its state says.
LogInv ==
    /\ log \in Seq(Events) /\ Once(log)
    /\ place = "request" => log = <<>>
    /\ \A i \in Calls :
          /\ Sent(log, Event("end", i)) <=> state[i] = "closed"
          /\ Sent(log, Event("start", i)) <=> state[i] = "closed" \/ (place \in Single \cup Batched /\ i <= at)
          /\ Sent(log, Event("ask", i)) <=> Sent(log, Event("settled", i)) \/ (place = "card" /\ i = at)
          /\ Sent(log, Event("settled", i)) => state[i] = "closed" \/ (place = "run" /\ i = at)

\* A card is open where one is waited for, and what ran by card was told yes.
CardInv ==
    /\ IF place = "card" THEN card.of = at ELSE card = NoCard
    /\ card.answer = "yes" => mark[at].said = "yes"
    /\ \A i \in Ran : ran[i].card => mark[i].said = "yes"

\* The hooks of a segment's calls have been asked about those before the place.
Looked == IF place \in {"segment", "hook", "batch hook"} THEN at - 1 ELSE at
HooksInv ==
    /\ \A i \in Calls : mark[i].hooks \in {0, 1}
    /\ \A i \in Ran : mark[i].hooks = 1
    /\ place \in {"segment"} \cup Single \cup Batched => \A i \in Calls :
          /\ i > Looked => mark[i].hooks = 0
          /\ Len(replies) < i /\ i <= Looked => mark[i].hooks = 1

OrderInv == LogInv /\ CardInv /\ HooksInv

LEMMA SentNone == ASSUME NEW e PROVE ~Sent(<<>>, e)
BY DEF Sent

\* Events that are new and differ, after those that do.
LEMMA SentMore ==
    ASSUME NEW l \in Seq(Events), NEW s \in Seq(Events), Once(l), Once(s), \A k \in DOMAIN s : ~Sent(l, s[k])
    PROVE  l \o s \in Seq(Events) /\ Once(l \o s) /\ \A e : Sent(l \o s, e) <=> Sent(l, e) \/ Sent(s, e)
<1>. DEFINE a == Len(l)
            b == Len(s)
            c == l \o s
<1>1. /\ c \in Seq(Events) /\ a \in Nat /\ b \in Nat /\ Len(c) = a + b
      /\ \A k \in 1..(a + b) : c[k] = IF k <= a THEN l[k] ELSE s[k - a]
  BY ConcatProperties
<1>2. DOMAIN l = 1..a /\ DOMAIN s = 1..b /\ DOMAIN c = 1..(a + b)
  BY <1>1
<1>. HIDE DEF a, b, c
<1>3. \A k \in 1..(a + b) : \/ k \in 1..a /\ c[k] = l[k]
                            \/ k > a /\ k - a \in 1..b /\ c[k] = s[k - a]
  BY <1>1
<1>4. \A n \in 1..a, m \in 1..b : l[n] # s[m]
  BY <1>2 DEF Sent
<1>5. Once(c)
  <2>. SUFFICES ASSUME NEW n \in 1..(a + b), NEW m \in 1..(a + b), c[n] = c[m] PROVE n = m
    BY <1>2 DEF Once
  <2>1. CASE n \in 1..a /\ c[n] = l[n] /\ m \in 1..a /\ c[m] = l[m]
    BY <1>2, <2>1 DEF Once
  <2>2. CASE n > a /\ n - a \in 1..b /\ c[n] = s[n - a] /\ m > a /\ m - a \in 1..b /\ c[m] = s[m - a]
    <3>1. n - a = m - a
      BY <1>2, <2>2 DEF Once
    <3>. QED  BY <1>1, <3>1
  <2>3. CASE n \in 1..a /\ c[n] = l[n] /\ m - a \in 1..b /\ c[m] = s[m - a]
    BY <1>4, <2>3
  <2>4. CASE m \in 1..a /\ c[m] = l[m] /\ n - a \in 1..b /\ c[n] = s[n - a]
    BY <1>4, <2>4
  <2>. QED  BY <1>3, <2>1, <2>2, <2>3, <2>4
<1>6. ASSUME NEW e PROVE Sent(c, e) <=> Sent(l, e) \/ Sent(s, e)
  <2>1. ASSUME NEW n \in 1..(a + b), c[n] = e PROVE Sent(l, e) \/ Sent(s, e)
    BY <1>2, <1>3, <2>1 DEF Sent
  <2>2. ASSUME NEW n \in 1..a, l[n] = e PROVE Sent(c, e)
    <3>1. n \in 1..(a + b) /\ n <= a
      BY <1>1
    <3>2. c[n] = e
      BY <1>1, <2>2, <3>1
    <3>. QED  BY <1>2, <3>1, <3>2 DEF Sent
  <2>3. ASSUME NEW n \in 1..b, s[n] = e PROVE Sent(c, e)
    <3>1. n + a \in 1..(a + b) /\ ~(n + a <= a) /\ (n + a) - a = n
      BY <1>1
    <3>2. c[n + a] = e
      BY <1>1, <2>3, <3>1
    <3>. QED  BY <1>2, <3>1, <3>2 DEF Sent
  <2>. QED  BY <1>2, <2>1, <2>2, <2>3 DEF Sent
<1>. QED  BY <1>1, <1>5, <1>6 DEF c

LEMMA SentAppend ==
    ASSUME NEW l \in Seq(Events), Once(l), NEW e \in Events, ~Sent(l, e)
    PROVE  /\ Append(l, e) \in Seq(Events) /\ Once(Append(l, e))
           /\ \A x : Sent(Append(l, e), x) <=> Sent(l, x) \/ x = e
<1>. DEFINE s == <<e>>
<1>1. s \in Seq(Events) /\ Once(s) /\ (\A k \in DOMAIN s : s[k] = e) /\ \A x : Sent(s, x) <=> x = e
  BY DEF Once, Sent
<1>2. Append(l, e) = l \o s
  BY AppendIsConcat
<1>. HIDE DEF s
<1>3. \A k \in DOMAIN s : ~Sent(l, s[k])
  BY <1>1
<1>4. l \o s \in Seq(Events) /\ Once(l \o s) /\ \A x : Sent(l \o s, x) <=> Sent(l, x) \/ Sent(s, x)
  BY <1>1, <1>3, SentMore
<1>. QED  BY <1>1, <1>2, <1>4

LEMMA SentTwo ==
    ASSUME NEW l \in Seq(Events), Once(l), NEW e \in Events, NEW f \in Events, ~Sent(l, e), ~Sent(l, f), e # f
    PROVE  /\ l \o <<e, f>> \in Seq(Events) /\ Once(l \o <<e, f>>)
           /\ \A x : Sent(l \o <<e, f>>, x) <=> Sent(l, x) \/ x = e \/ x = f
<1>. DEFINE s == <<e, f>>
<1>1. s \in Seq(Events) /\ DOMAIN s = {1, 2} /\ s[1] = e /\ s[2] = f
  OBVIOUS
<1>. HIDE DEF s
<1>2. Once(s) /\ (\A k \in DOMAIN s : s[k] = e \/ s[k] = f) /\ \A x : Sent(s, x) <=> x = e \/ x = f
  BY <1>1 DEF Once, Sent
<1>3. \A k \in DOMAIN s : ~Sent(l, s[k])
  BY <1>2
<1>4. l \o s \in Seq(Events) /\ Once(l \o s) /\ \A x : Sent(l \o s, x) <=> Sent(l, x) \/ Sent(s, x)
  BY <1>1, <1>2, <1>3, SentMore
<1>5. \A x : Sent(s, x) <=> x = e \/ x = f
  BY <1>2
<1>. QED  BY <1>4, <1>5 DEF s

\* An event sent once counts one.
LEMMA CountIs ==
    ASSUME log \in Seq(Events), Once(log), NEW e
    PROVE  Count(e) = IF Sent(log, e) THEN 1 ELSE 0
<1>. DEFINE K == {k \in DOMAIN log : log[k] = e}
<1>1. CASE Sent(log, e)
  <2>1. PICK n \in DOMAIN log : log[n] = e
    BY <1>1 DEF Sent
  <2>2. K = {n}
    BY <2>1 DEF Once
  <2>3. Cardinality(K) = 1
    BY <2>2, FS_Singleton
  <2>. QED  BY <1>1, <2>3 DEF Count
<1>2. CASE ~Sent(log, e)
  <2>1. K = {}
    BY <1>2 DEF Sent
  <2>2. Cardinality(K) = 0
    BY <2>1, FS_EmptySet
  <2>. QED  BY <1>2, <2>2 DEF Count
<1>. QED  BY <1>1, <1>2

\* What the invariant says of the order.
LEMMA OrderTells == ASSUME BoundInv, OrderInv PROVE AnsweredInOrder
<1>1. /\ \A k \in DOMAIN replies : replies[k] = k
      /\ place = "done" => Len(replies) = Len(reply)
  BY DEF BoundInv, AnswerInv
<1>. SUFFICES ASSUME NEW i \in Calls
              PROVE  /\ Count(Event("end", i)) <= Count(Event("start", i)) /\ Count(Event("start", i)) <= 1
                     /\ place \in {"over", "done"} => Count(Event("end", i)) = Count(Event("start", i))
                     /\ Count(Event("ask", i)) = Count(Event("settled", i)) + (IF card.of = i THEN 1 ELSE 0)
                     /\ mark[i].hooks <= 1 /\ (i \in Ran => mark[i].hooks = 1)
                     /\ i \in Ran /\ ran[i].card => mark[i].said = "yes" /\ card.of # i
  BY <1>1 DEF AnsweredInOrder
<1>2. /\ Count(Event("end", i)) = IF Sent(log, Event("end", i)) THEN 1 ELSE 0
      /\ Count(Event("start", i)) = IF Sent(log, Event("start", i)) THEN 1 ELSE 0
      /\ Count(Event("ask", i)) = IF Sent(log, Event("ask", i)) THEN 1 ELSE 0
      /\ Count(Event("settled", i)) = IF Sent(log, Event("settled", i)) THEN 1 ELSE 0
  BY CountIs DEF OrderInv, LogInv
<1>3. /\ Sent(log, Event("end", i)) => Sent(log, Event("start", i))
      /\ place \in {"over", "done"} => (Sent(log, Event("end", i)) <=> Sent(log, Event("start", i)))
  BY DEF OrderInv, LogInv, Single, Batched
<1>4. card.of = i <=> place = "card" /\ i = at
  <2>1. i # 0
    BY Counts DEF Numbers
  <2>2. NoCard.of = 0
    BY DEF NoCard
  <2>. QED  BY <2>1, <2>2 DEF OrderInv, CardInv
<1>5. Sent(log, Event("ask", i)) <=> Sent(log, Event("settled", i)) \/ card.of = i
  BY <1>4 DEF OrderInv, LogInv
<1>6. ~(Sent(log, Event("settled", i)) /\ card.of = i)
  <2>. SUFFICES ASSUME Sent(log, Event("settled", i)), place = "card", i = at PROVE FALSE
    BY <1>4
  <2>1. state[i] = "new"
    <3>1. \A j \in Calls : j >= at => state[j] = "new"
      BY SerialFacts DEF Single
    <3>2. at >= at
      BY Counts DEF Numbers
    <3>. QED  BY <3>1, <3>2
  <2>2. state[i] = "closed" \/ (place = "run" /\ i = at)
    BY DEF OrderInv, LogInv
  <2>. QED  BY <2>1, <2>2
<1>7. mark[i].hooks \in {0, 1} /\ (i \in Ran => mark[i].hooks = 1) /\ (i \in Ran /\ ran[i].card => mark[i].said = "yes")
  BY DEF OrderInv, HooksInv, CardInv
<1>8. i \in Ran => card.of # i
  BY <1>4, SerialRan DEF Single
<1>9. Count(Event("ask", i)) = Count(Event("settled", i)) + (IF card.of = i THEN 1 ELSE 0)
  BY <1>2, <1>5, <1>6
<1>10. /\ Count(Event("end", i)) <= Count(Event("start", i)) /\ Count(Event("start", i)) <= 1
       /\ place \in {"over", "done"} => Count(Event("end", i)) = Count(Event("start", i))
  BY <1>2, <1>3
<1>11. mark[i].hooks <= 1
  BY <1>7
<1>. QED  BY <1>7, <1>8, <1>9, <1>10, <1>11

(* What is told of the calls *)

Kinds == {"start", "end", "ask", "settled"}
LEMMA EventIs ==
    /\ \A k \in Kinds, i \in Nat : Event(k, i) \in Events
    /\ \A k \in Kinds, i \in Nat, l \in Kinds, j \in Nat : Event(k, i) = Event(l, j) <=> k = l /\ i = j
BY DEF Event, Events, Kinds

\* The events of S are told, and no other.
Tells(S) ==
    /\ log' \in Seq(Events) /\ Once(log')
    /\ \A x : Sent(log', x) <=> Sent(log, x) \/ x \in S

LEMMA TellsNone == ASSUME LogInv, log' = log PROVE Tells({})
BY DEF LogInv, Tells

LEMMA TellsOne ==
    ASSUME LogInv, NEW k \in Kinds, NEW i \in Nat, log' = Append(log, Event(k, i)), ~Sent(log, Event(k, i))
    PROVE  Tells({Event(k, i)})
<1>1. log \in Seq(Events) /\ Once(log) /\ Event(k, i) \in Events
  BY EventIs DEF LogInv
<1>2. /\ Append(log, Event(k, i)) \in Seq(Events) /\ Once(Append(log, Event(k, i)))
      /\ \A x : Sent(Append(log, Event(k, i)), x) <=> Sent(log, x) \/ x = Event(k, i)
  BY <1>1, SentAppend
<1>. QED  BY <1>2 DEF Tells

LEMMA TellsTwo ==
    ASSUME LogInv, NEW k \in Kinds, NEW l \in Kinds, k # l, NEW i \in Nat, log' = log \o <<Event(k, i), Event(l, i)>>,
           ~Sent(log, Event(k, i)), ~Sent(log, Event(l, i))
    PROVE  Tells({Event(k, i), Event(l, i)})
<1>1. log \in Seq(Events) /\ Once(log) /\ Event(k, i) \in Events /\ Event(l, i) \in Events /\ Event(k, i) # Event(l, i)
  BY EventIs DEF LogInv
<1>2. /\ log' \in Seq(Events) /\ Once(log')
      /\ \A x : Sent(log', x) <=> Sent(log, x) \/ x = Event(k, i) \/ x = Event(l, i)
  BY <1>1, SentTwo
<1>. QED  BY <1>2 DEF Tells

\* What of a call at another place is told.
Told(i, end, start, ask, settled) ==
    /\ Sent(log', Event("end", i)) <=> Sent(log, Event("end", i)) \/ end
    /\ Sent(log', Event("start", i)) <=> Sent(log, Event("start", i)) \/ start
    /\ Sent(log', Event("ask", i)) <=> Sent(log, Event("ask", i)) \/ ask
    /\ Sent(log', Event("settled", i)) <=> Sent(log, Event("settled", i)) \/ settled

\* A turn that stays among the calls' places, or outside them, tells nothing.
LEMMA LogSame ==
    ASSUME LogInv, log' = log, Calls' = Calls, at' = at, \A i \in Calls : state'[i] = "closed" <=> state[i] = "closed",
           place' \in Single \cup Batched <=> (place \in Single \cup Batched), place' = "card" <=> place = "card",
           place' = "run" <=> place = "run", place' = "request" => place = "request"
    PROVE  LogInv'
BY DEF LogInv

LEMMA SerialClosed ==
    ASSUME BoundInv, place \in {"segment"} \cup Single
    PROVE  ~(state[at] = "closed") /\ at \in Nat /\ at \in Calls /\ \A i \in Calls : i \in Nat /\ (i <= at <=> state[i] = "closed" \/ i = at)
<1>1. at = Len(replies) + 1 /\ \A i \in Calls : state[i] = "closed" <=> i <= Len(replies)
  BY SerialFacts
<1>2. at \in Nat /\ Len(replies) \in Nat /\ \A i \in Calls : i \in Nat
  BY Counts DEF Numbers
<1>3. at \in Calls /\ ~(at <= Len(replies))
  BY <1>1, <1>2, SerialAt
<1>4. \A i \in Calls : i <= at <=> i <= Len(replies) \/ i = at
  BY <1>1, <1>2
<1>. QED  BY <1>1, <1>2, <1>3, <1>4

\* The call at hand ends.
LEMMA SerialEndLog ==
    ASSUME BoundInv, LogInv, place \in {"segment"} \cup Single, reply' = reply, place' \in {"over", "segment"},
           state' = [state EXCEPT ![at] = "closed"], NEW S, Tells(S),
           \A i \in Calls : Told(i, i = at, place = "segment" /\ i = at, FALSE, place = "card" /\ i = at)
    PROVE  LogInv'
<1>1. /\ ~(state[at] = "closed") /\ at \in Calls
      /\ \A i \in Calls : i <= at <=> state[i] = "closed" \/ i = at
  BY SerialClosed
<1>2. Calls' = Calls /\ log' \in Seq(Events) /\ Once(log')
  BY DEF Calls, Tells
<1>3. \A i \in Calls : state'[i] = "closed" <=> state[i] = "closed" \/ i = at
  <2>1. state \in [Calls -> States]
    BY Types DEF BoundInv, Typing
  <2>. QED  BY <2>1
<1>4. place' \notin Single \cup Batched /\ place' \notin {"card", "run", "request"}
  BY DEF Single, Batched
<1>5. ASSUME NEW i \in Calls
      PROVE  /\ Sent(log', Event("end", i)) <=> state'[i] = "closed"
             /\ Sent(log', Event("start", i)) <=> state'[i] = "closed"
             /\ Sent(log', Event("ask", i)) <=> Sent(log', Event("settled", i))
             /\ Sent(log', Event("settled", i)) => state'[i] = "closed"
  <2>1. Told(i, i = at, place = "segment" /\ i = at, FALSE, place = "card" /\ i = at)
    OBVIOUS
  <2>2. /\ Sent(log, Event("end", i)) <=> state[i] = "closed"
        /\ Sent(log, Event("start", i)) <=> state[i] = "closed" \/ (place \in Single \cup Batched /\ i <= at)
        /\ Sent(log, Event("ask", i)) <=> Sent(log, Event("settled", i)) \/ (place = "card" /\ i = at)
        /\ Sent(log, Event("settled", i)) => state[i] = "closed" \/ (place = "run" /\ i = at)
    BY DEF LogInv
  <2>3. place = "segment" \/ place \in Single \cup Batched
    OBVIOUS
  <2>4. place = "segment" => place \notin Single \cup Batched
    BY DEF Single, Batched
  <2>5. /\ i <= at <=> state[i] = "closed" \/ i = at
        /\ state'[i] = "closed" <=> state[i] = "closed" \/ i = at
    BY <1>1, <1>3
  <2>. QED  BY <2>1, <2>2, <2>3, <2>4, <2>5 DEF Told
<1>. QED  BY <1>2, <1>4, <1>5 DEF LogInv

\* The call at hand goes to another of its places.
LEMMA SerialMoveLog ==
    ASSUME BoundInv, LogInv, place \in {"hook", "judge", "card"}, reply' = reply, at' = at, state' = state,
           place' \in {"judge", "card", "run"}, place = "card" => place' = "run", NEW S, Tells(S),
           \A i \in Calls : Told(i, FALSE, FALSE, place' = "card" /\ i = at, place = "card" /\ i = at)
    PROVE  LogInv'
<1>1. Calls' = Calls /\ log' \in Seq(Events) /\ Once(log')
  BY DEF Calls, Tells
<1>2. place \in Single \cup Batched /\ place' \in Single \cup Batched /\ place' # "request"
  BY DEF Single, Batched
<1>3. ASSUME NEW i \in Calls
      PROVE  /\ Sent(log', Event("end", i)) <=> state'[i] = "closed"
             /\ Sent(log', Event("start", i)) <=> state'[i] = "closed" \/ (place' \in Single \cup Batched /\ i <= at')
             /\ Sent(log', Event("ask", i)) <=> Sent(log', Event("settled", i)) \/ (place' = "card" /\ i = at')
             /\ Sent(log', Event("settled", i)) => state'[i] = "closed" \/ (place' = "run" /\ i = at')
  <2>1. Told(i, FALSE, FALSE, place' = "card" /\ i = at, place = "card" /\ i = at)
    OBVIOUS
  <2>2. /\ Sent(log, Event("end", i)) <=> state[i] = "closed"
        /\ Sent(log, Event("start", i)) <=> state[i] = "closed" \/ (place \in Single \cup Batched /\ i <= at)
        /\ Sent(log, Event("ask", i)) <=> Sent(log, Event("settled", i)) \/ (place = "card" /\ i = at)
        /\ Sent(log, Event("settled", i)) => state[i] = "closed" \/ (place = "run" /\ i = at)
    BY DEF LogInv
  <2>3. place # "run" /\ (place = "card" => place' # "card" /\ place' = "run")
    OBVIOUS
  <2>. QED  BY <1>2, <2>1, <2>2, <2>3 DEF Told
<1>. QED  BY <1>1, <1>2, <1>3 DEF LogInv

\* What Tells says of each call.
LEMMA TellsTold ==
    ASSUME NEW S, Tells(S), NEW i \in Nat
    PROVE  Told(i, Event("end", i) \in S, Event("start", i) \in S, Event("ask", i) \in S, Event("settled", i) \in S)
BY DEF Tells, Told

\* What has been sent of the call at hand.
LEMMA SerialSent ==
    ASSUME BoundInv, LogInv, place \in {"segment"} \cup Single
    PROVE  /\ ~Sent(log, Event("end", at)) /\ (Sent(log, Event("start", at)) <=> place # "segment")
           /\ Sent(log, Event("settled", at)) => place = "run"
           /\ Sent(log, Event("ask", at)) => place \in {"card", "run"}
<1>1. at \in Calls /\ ~(state[at] = "closed") /\ at \in Nat
  BY SerialClosed
<1>2. at <= at
  BY <1>1
<1>3. /\ Sent(log, Event("end", at)) <=> state[at] = "closed"
      /\ Sent(log, Event("start", at)) <=> state[at] = "closed" \/ (place \in Single \cup Batched /\ at <= at)
      /\ Sent(log, Event("ask", at)) <=> Sent(log, Event("settled", at)) \/ (place = "card" /\ at = at)
      /\ Sent(log, Event("settled", at)) => state[at] = "closed" \/ (place = "run" /\ at = at)
  BY <1>1 DEF LogInv
<1>4. place \in Single \cup Batched <=> place # "segment"
  BY DEF Single, Batched
<1>. QED  BY <1>1, <1>2, <1>3, <1>4

LEMMA ReceiveLog == ASSUME BoundInv, LogInv, Receive PROVE LogInv'
<1>1. place = "request" /\ log' = log /\ state' = [i \in DOMAIN reply' |-> "new"] /\ place' = "segment"
  BY DEF Receive, Goto
<1>2. log' = <<>>
  BY <1>1 DEF LogInv
<1>3. log' \in Seq(Events) /\ Once(log')
  BY <1>2 DEF Once
<1>4. \A e : ~Sent(log', e)
  BY <1>2, SentNone
<1>5. place' \notin Single \cup Batched /\ place' # "card" /\ place' # "run" /\ place' # "request"
  BY <1>1 DEF Single, Batched
<1>6. \A i \in Calls' : ~(state'[i] = "closed")
  BY <1>1 DEF Calls
<1>. QED  BY <1>3, <1>4, <1>5, <1>6 DEF LogInv

\* Nothing is sent of a call at which the turn is over.
LEMMA HomeLog ==
    ASSUME LogInv, log' = log, reply' = reply, state' = state, place \in {"segment", "over", "done"}, place' \in {"over", "done"}
    PROVE  LogInv'
<1>1. Calls' = Calls
  BY DEF Calls
<1>2. place \notin Single \cup Batched /\ place' \notin Single \cup Batched
  BY DEF Single, Batched
<1>. QED  BY <1>1, <1>2 DEF LogInv

LEMMA OnwardIs == ASSUME NEW i, Goto("over", i) \/ Onward(i) PROVE place' \in {"over", "segment"}
BY DEF Onward, Goto

LEMMA EnterLog == ASSUME BoundInv, LogInv, Enter PROVE LogInv'
<1>1. place = "segment" /\ reply' = reply
  BY DEF Enter
<1>2. /\ at \in Nat /\ at \in Calls /\ ~(state[at] = "closed") /\ place \in {"segment"} \cup Single
      /\ \A i \in Calls : i \in Nat /\ (i <= at <=> state[i] = "closed" \/ i = at)
  BY <1>1, SerialClosed
<1>3. ~Sent(log, Event("end", at)) /\ ~Sent(log, Event("start", at))
  BY <1>1, <1>2, SerialSent
<1>4. CASE place' = "over" /\ state' = state /\ log' = log
  BY <1>1, <1>4, HomeLog
<1>5. CASE /\ log' = log \o <<Event("start", at), Event("end", at)>> /\ state' = [state EXCEPT ![at] = "closed"]
           /\ Onward(at)
  <2>1. Tells({Event("start", at), Event("end", at)})
    BY <1>2, <1>3, <1>5, TellsTwo DEF Kinds
  <2>2. \A i \in Calls : Told(i, i = at, place = "segment" /\ i = at, FALSE, place = "card" /\ i = at)
    BY <1>1, <1>2, <2>1, EventIs DEF Tells, Told, Kinds
  <2>. QED  BY <1>1, <1>2, <1>5, <2>1, <2>2, OnwardIs, SerialEndLog
<1>6. CASE place' \in {"hook", "batch hook"} /\ at' = at /\ log' = Append(log, Event("start", at)) /\ state' = state
  <2>1. Tells({Event("start", at)})
    BY <1>2, <1>3, <1>6, TellsOne DEF Kinds
  <2>2. \A i \in Calls : Told(i, FALSE, i = at, FALSE, FALSE)
    BY <1>2, <2>1, EventIs DEF Tells, Told, Kinds
  <2>3. Calls' = Calls /\ log' \in Seq(Events) /\ Once(log')
    BY <1>1, <2>1 DEF Tells, Calls
  <2>4. /\ place \notin Single \cup Batched /\ place' \in Single \cup Batched
        /\ place' \notin {"card", "run", "request"} /\ place \notin {"card", "run"}
    BY <1>1, <1>6 DEF Single, Batched
  <2>5. ASSUME NEW i \in Calls
        PROVE  /\ Sent(log', Event("end", i)) <=> state'[i] = "closed"
               /\ Sent(log', Event("start", i)) <=> state'[i] = "closed" \/ i <= at'
               /\ Sent(log', Event("ask", i)) <=> Sent(log', Event("settled", i))
               /\ Sent(log', Event("settled", i)) => state'[i] = "closed"
    <3>1. Told(i, FALSE, i = at, FALSE, FALSE) /\ (i <= at <=> state[i] = "closed" \/ i = at) /\ at' = at /\ state' = state
      BY <1>2, <1>6, <2>2
    <3>2. /\ Sent(log, Event("end", i)) <=> state[i] = "closed"
          /\ Sent(log, Event("start", i)) <=> state[i] = "closed"
          /\ Sent(log, Event("ask", i)) <=> Sent(log, Event("settled", i))
          /\ Sent(log, Event("settled", i)) => state[i] = "closed"
      BY <2>4 DEF LogInv
    <3>. QED  BY <3>1, <3>2 DEF Told
  <2>. QED  BY <2>3, <2>4, <2>5 DEF LogInv
<1>. QED  BY <1>4, <1>5, <1>6 DEF Enter, Goto

LEMMA HookLog == ASSUME BoundInv, LogInv, Hook PROVE LogInv'
<1>1. place = "hook" /\ reply' = reply
  BY DEF Hook
<1>2. at \in Nat /\ at \in Calls /\ place \in {"segment"} \cup Single /\ \A i \in Calls : i \in Nat
  BY <1>1, SerialClosed DEF Single
<1>3. CASE place' = "judge" /\ at' = at /\ log' = log /\ state' = state
  <2>1. Tells({}) /\ \A i \in Calls : Told(i, FALSE, FALSE, place' = "card" /\ i = at, place = "card" /\ i = at)
    BY <1>1, <1>3, TellsNone DEF Told
  <2>. QED  BY <1>1, <1>3, <2>1, SerialMoveLog
<1>4. CASE Close(at) /\ (Goto("over", at) \/ Onward(at))
  <2>1. log' = Append(log, Event("end", at)) /\ state' = [state EXCEPT ![at] = "closed"]
    BY <1>4 DEF Close
  <2>2. Tells({Event("end", at)})
    BY <1>2, <2>1, SerialSent, TellsOne DEF Kinds
  <2>3. \A i \in Calls : Told(i, i = at, place = "segment" /\ i = at, FALSE, place = "card" /\ i = at)
    BY <1>1, <1>2, <2>2, EventIs DEF Tells, Told, Kinds
  <2>. QED  BY <1>1, <1>2, <1>4, <2>1, <2>2, <2>3, OnwardIs, SerialEndLog
<1>. QED  BY <1>3, <1>4 DEF Hook, Goto

LEMMA JudgeLog == ASSUME BoundInv, LogInv, Judge PROVE LogInv'
<1>1. place = "judge" /\ reply' = reply
  BY DEF Judge
<1>2. at \in Nat /\ at \in Calls /\ place \in {"segment"} \cup Single /\ \A i \in Calls : i \in Nat
  BY <1>1, SerialClosed DEF Single
<1>3. CASE place' = "run" /\ at' = at /\ log' = log /\ state' = state
  <2>1. Tells({}) /\ \A i \in Calls : Told(i, FALSE, FALSE, place' = "card" /\ i = at, place = "card" /\ i = at)
    BY <1>1, <1>3, TellsNone DEF Told
  <2>. QED  BY <1>1, <1>3, <2>1, SerialMoveLog
<1>4. CASE place' = "card" /\ at' = at /\ log' = Append(log, Event("ask", at)) /\ state' = state
  <2>1. Tells({Event("ask", at)})
    BY <1>1, <1>2, <1>4, SerialSent, TellsOne DEF Kinds
  <2>2. \A i \in Calls : Told(i, FALSE, FALSE, place' = "card" /\ i = at, place = "card" /\ i = at)
    BY <1>1, <1>2, <1>4, <2>1, EventIs DEF Tells, Told, Kinds
  <2>. QED  BY <1>1, <1>4, <2>1, <2>2, SerialMoveLog
<1>5. CASE Close(at) /\ Onward(at)
  <2>1. log' = Append(log, Event("end", at)) /\ state' = [state EXCEPT ![at] = "closed"]
    BY <1>5 DEF Close
  <2>2. Tells({Event("end", at)})
    BY <1>2, <2>1, SerialSent, TellsOne DEF Kinds
  <2>3. \A i \in Calls : Told(i, i = at, place = "segment" /\ i = at, FALSE, place = "card" /\ i = at)
    BY <1>1, <1>2, <2>2, EventIs DEF Tells, Told, Kinds
  <2>. QED  BY <1>1, <1>2, <1>5, <2>1, <2>2, <2>3, OnwardIs, SerialEndLog
<1>. QED  BY <1>3, <1>4, <1>5 DEF Judge, Goto

LEMMA SettleLog == ASSUME BoundInv, LogInv, Settle PROVE LogInv'
<1>1. place = "card" /\ reply' = reply
  BY DEF Settle
<1>2. at \in Nat /\ at \in Calls /\ place \in {"segment"} \cup Single /\ \A i \in Calls : i \in Nat
  BY <1>1, SerialClosed DEF Single
<1>3. ~Sent(log, Event("settled", at)) /\ ~Sent(log, Event("end", at))
  BY <1>1, <1>2, SerialSent
<1>4. CASE place' = "run" /\ at' = at /\ log' = Append(log, Event("settled", at)) /\ state' = state
  <2>1. Tells({Event("settled", at)})
    BY <1>2, <1>3, <1>4, TellsOne DEF Kinds
  <2>2. \A i \in Calls : Told(i, FALSE, FALSE, place' = "card" /\ i = at, place = "card" /\ i = at)
    BY <1>1, <1>2, <1>4, <2>1, EventIs DEF Tells, Told, Kinds
  <2>. QED  BY <1>1, <1>4, <2>1, <2>2, SerialMoveLog
<1>5. CASE /\ log' = log \o <<Event("settled", at), Event("end", at)>> /\ state' = [state EXCEPT ![at] = "closed"]
           /\ Goto("over", at) \/ Onward(at)
  <2>1. Tells({Event("settled", at), Event("end", at)})
    BY <1>2, <1>3, <1>5, TellsTwo DEF Kinds
  <2>2. \A i \in Calls : Told(i, i = at, place = "segment" /\ i = at, FALSE, place = "card" /\ i = at)
    BY <1>1, <1>2, <2>1, EventIs DEF Tells, Told, Kinds
  <2>. QED  BY <1>1, <1>2, <1>5, <2>1, <2>2, OnwardIs, SerialEndLog
<1>. QED  BY <1>4, <1>5 DEF Settle, Goto

LEMMA RunLog == ASSUME BoundInv, LogInv, Run PROVE LogInv'
<1>1. /\ place = "run" /\ reply' = reply /\ log' = Append(log, Event("end", at)) /\ Onward(at)
      /\ state' = [state EXCEPT ![at] = "closed"]
  BY DEF Run, Close
<1>2. at \in Nat /\ at \in Calls /\ place \in {"segment"} \cup Single /\ \A i \in Calls : i \in Nat
  BY <1>1, SerialClosed DEF Single
<1>3. Tells({Event("end", at)})
  BY <1>1, <1>2, SerialSent, TellsOne DEF Kinds
<1>4. \A i \in Calls : Told(i, i = at, place = "segment" /\ i = at, FALSE, place = "card" /\ i = at)
  BY <1>1, <1>2, <1>3, EventIs DEF Tells, Told, Kinds
<1>. QED  BY <1>1, <1>2, <1>3, <1>4, OnwardIs, SerialEndLog

(* What a batch that is refused tells *)

\* The ends of the calls after b, up to the n-th.
Ends(b, n) == [k \in 1..n |-> Event("end", b + k)]
LEMMA EndsOnce ==
    ASSUME NEW b \in Nat, NEW n \in Nat
    PROVE  /\ Ends(b, n) \in Seq(Events) /\ Once(Ends(b, n))
           /\ \A k \in Kinds, j \in Nat : Sent(Ends(b, n), Event(k, j)) <=> k = "end" /\ b < j /\ j <= b + n
           /\ \A k \in DOMAIN Ends(b, n) : \E j \in Nat : Ends(b, n)[k] = Event("end", j) /\ b < j /\ j <= b + n
<1>. DEFINE f == Ends(b, n)
<1>0. f = [k \in 1..n |-> Event("end", b + k)]
  BY DEF Ends
<1>. HIDE DEF f
<1>1. \A k \in 1..n : b + k \in Nat /\ b < b + k /\ b + k <= b + n
  OBVIOUS
<1>2. \A k \in 1..n : Event("end", b + k) \in Events
  BY <1>1, EventIs DEF Kinds
<1>3. f \in Seq(Events) /\ DOMAIN f = 1..n /\ \A k \in 1..n : f[k] = Event("end", b + k)
  BY <1>0, <1>2
<1>4. Once(f)
  <2>. SUFFICES ASSUME NEW k \in 1..n, NEW m \in 1..n, f[k] = f[m] PROVE k = m
    BY <1>3 DEF Once
  <2>1. b + k = b + m
    BY <1>1, <1>3, EventIs DEF Kinds
  <2>. QED  BY <2>1
<1>5. \A k \in DOMAIN f : \E j \in Nat : f[k] = Event("end", j) /\ b < j /\ j <= b + n
  BY <1>1, <1>3
<1>6. ASSUME NEW k \in Kinds, NEW j \in Nat PROVE Sent(f, Event(k, j)) <=> k = "end" /\ b < j /\ j <= b + n
  <2>1. ASSUME Sent(f, Event(k, j)) PROVE k = "end" /\ b < j /\ j <= b + n
    <3>1. PICK m \in 1..n : f[m] = Event(k, j)
      BY <1>3, <2>1 DEF Sent
    <3>2. Event(k, j) = Event("end", b + m)
      BY <1>3, <3>1
    <3>3. k = "end" /\ j = b + m
      BY <1>1, <3>2, EventIs DEF Kinds
    <3>. QED  BY <1>1, <3>3
  <2>2. ASSUME k = "end", b < j, j <= b + n PROVE Sent(f, Event(k, j))
    <3>1. j - b \in 1..n /\ b + (j - b) = j
      BY <2>2
    <3>. QED  BY <1>3, <2>2, <3>1 DEF Sent
  <2>. QED  BY <2>1, <2>2
<1>. QED  BY <1>3, <1>4, <1>5, <1>6 DEF f

\* The numbers of the pairs.
LEMMA Halves ==
    ASSUME NEW m \in Nat
    PROVE  /\ \A k \in 1..(2 * m) : (k + 1) \div 2 \in 1..m /\ k % 2 \in {0, 1}
           /\ \A k \in 1..(2 * m), l \in 1..(2 * m) : k % 2 = l % 2 /\ (k + 1) \div 2 = (l + 1) \div 2 => k = l
           /\ \A j \in 1..m : /\ 2 * j - 1 \in 1..(2 * m) /\ (2 * j - 1) % 2 = 1 /\ ((2 * j - 1) + 1) \div 2 = j
                              /\ 2 * j \in 1..(2 * m) /\ (2 * j) % 2 = 0 /\ (2 * j + 1) \div 2 = j
<1>1. \A k \in 1..(2 * m) : (k + 1) \div 2 \in 1..m /\ k % 2 \in {0, 1}
  OBVIOUS
<1>2. \A k \in 1..(2 * m), l \in 1..(2 * m) : k % 2 = l % 2 /\ (k + 1) \div 2 = (l + 1) \div 2 => k = l
  OBVIOUS
<1>3. \A j \in 1..m : 2 * j - 1 \in 1..(2 * m) /\ (2 * j - 1) % 2 = 1 /\ ((2 * j - 1) + 1) \div 2 = j
  OBVIOUS
<1>4. \A j \in 1..m : 2 * j \in 1..(2 * m) /\ (2 * j) % 2 = 0 /\ (2 * j + 1) \div 2 = j
  OBVIOUS
<1>. QED  BY <1>1, <1>2, <1>3, <1>4

\* The starts and ends of the calls after a, up to the m-th.
Pairs(a, m) == [k \in 1..(2 * m) |-> Event(IF k % 2 = 1 THEN "start" ELSE "end", a + (k + 1) \div 2)]
LEMMA PairsOnce ==
    ASSUME NEW a \in Nat, NEW m \in Nat
    PROVE  /\ Pairs(a, m) \in Seq(Events) /\ Once(Pairs(a, m))
           /\ \A k \in Kinds, j \in Nat : Sent(Pairs(a, m), Event(k, j)) <=> k \in {"start", "end"} /\ a < j /\ j <= a + m
           /\ \A k \in DOMAIN Pairs(a, m) : \E j \in Nat :
                 Pairs(a, m)[k] \in {Event("start", j), Event("end", j)} /\ a < j /\ j <= a + m
<1>. DEFINE f == Pairs(a, m)
            Kind(k) == IF k % 2 = 1 THEN "start" ELSE "end"
            Call(k) == a + (k + 1) \div 2
<1>1. \A k \in 1..(2 * m) : Call(k) \in Nat /\ a < Call(k) /\ Call(k) <= a + m
  <2>1. \A h \in 1..m : a + h \in Nat /\ a < a + h /\ a + h <= a + m
    OBVIOUS
  <2>. QED  BY <2>1, Halves
<1>2. \A k \in 1..(2 * m) : Kind(k) \in {"start", "end"} /\ {"start", "end"} \subseteq Kinds
  BY DEF Kinds
<1>3. \A k \in 1..(2 * m), l \in 1..(2 * m) : Kind(k) = Kind(l) /\ Call(k) = Call(l) => k = l
  <2>. SUFFICES ASSUME NEW k \in 1..(2 * m), NEW l \in 1..(2 * m), Kind(k) = Kind(l), Call(k) = Call(l) PROVE k = l
    OBVIOUS
  <2>1. k % 2 \in {0, 1} /\ l % 2 \in {0, 1} /\ (k + 1) \div 2 \in 1..m /\ (l + 1) \div 2 \in 1..m
    BY Halves
  <2>2. k % 2 = l % 2
    BY <2>1
  <2>3. \A g \in 1..m, h \in 1..m : a + g = a + h => g = h
    OBVIOUS
  <2>4. (k + 1) \div 2 = (l + 1) \div 2
    BY <2>1, <2>3
  <2>. QED  BY <2>2, <2>4, Halves
<1>4. \A h \in 1..m : /\ 2 * h - 1 \in 1..(2 * m) /\ Kind(2 * h - 1) = "start" /\ Call(2 * h - 1) = a + h
                      /\ 2 * h \in 1..(2 * m) /\ Kind(2 * h) = "end" /\ Call(2 * h) = a + h
  BY Halves
<1>5. f = [k \in 1..(2 * m) |-> Event(Kind(k), Call(k))]
  BY DEF Pairs
<1>. HIDE DEF f, Kind, Call
<1>6. \A k \in 1..(2 * m) : Event(Kind(k), Call(k)) \in Events
  BY <1>1, <1>2, EventIs
<1>7. f \in Seq(Events) /\ DOMAIN f = 1..(2 * m) /\ \A k \in 1..(2 * m) : f[k] = Event(Kind(k), Call(k))
  <2>1. \A n \in Nat : \A g \in [1..n -> Events] : g \in Seq(Events)
    OBVIOUS
  <2>2. 2 * m \in Nat
    OBVIOUS
  <2>3. f \in [1..(2 * m) -> Events] /\ \A k \in 1..(2 * m) : f[k] = Event(Kind(k), Call(k))
    BY <1>5, <1>6
  <2>4. f \in Seq(Events)
    BY <2>1, <2>2, <2>3
  <2>. QED  BY <2>3, <2>4
<1>8. Once(f)
  <2>. SUFFICES ASSUME NEW k \in 1..(2 * m), NEW l \in 1..(2 * m), f[k] = f[l] PROVE k = l
    BY <1>7 DEF Once
  <2>1. Event(Kind(k), Call(k)) = Event(Kind(l), Call(l))
    BY <1>7
  <2>2. Kind(k) \in Kinds /\ Kind(l) \in Kinds /\ Call(k) \in Nat /\ Call(l) \in Nat
    BY <1>1, <1>2
  <2>3. Kind(k) = Kind(l) /\ Call(k) = Call(l)
    BY <2>1, <2>2, EventIs
  <2>. QED  BY <1>3, <2>3
<1>9. \A k \in DOMAIN f : \E j \in Nat : f[k] \in {Event("start", j), Event("end", j)} /\ a < j /\ j <= a + m
  BY <1>1, <1>2, <1>7
<1>10. ASSUME NEW k \in Kinds, NEW j \in Nat PROVE Sent(f, Event(k, j)) <=> k \in {"start", "end"} /\ a < j /\ j <= a + m
  <2>1. ASSUME Sent(f, Event(k, j)) PROVE k \in {"start", "end"} /\ a < j /\ j <= a + m
    <3>1. PICK l \in 1..(2 * m) : f[l] = Event(k, j)
      BY <1>7, <2>1 DEF Sent
    <3>2. Event(k, j) = Event(Kind(l), Call(l))
      BY <1>7, <3>1
    <3>3. Kind(l) \in Kinds /\ Call(l) \in Nat
      BY <1>1, <1>2
    <3>4. k = Kind(l) /\ j = Call(l)
      BY <3>2, <3>3, EventIs
    <3>. QED  BY <1>1, <1>2, <3>4
  <2>2. ASSUME k \in {"start", "end"}, a < j, j <= a + m PROVE Sent(f, Event(k, j))
    <3>1. j - a \in 1..m /\ a + (j - a) = j
      BY <2>2
    <3>. DEFINE l == IF k = "start" THEN 2 * (j - a) - 1 ELSE 2 * (j - a)
    <3>2. l \in 1..(2 * m) /\ Kind(l) = k /\ Call(l) = j
      BY <1>4, <2>2, <3>1
    <3>. HIDE DEF l
    <3>. QED  BY <1>7, <3>2 DEF Sent
  <2>. QED  BY <2>1, <2>2
<1>. QED  BY <1>7, <1>8, <1>9, <1>10 DEF f

\* What has been sent of a batch's calls.
LEMMA BatchSent ==
    ASSUME BoundInv, LogInv, place \in Batched, NEW i \in Calls
    PROVE  /\ Sent(log, Event("end", i)) <=> i <= Len(replies)
           /\ Sent(log, Event("start", i)) <=> i <= at
           /\ Sent(log, Event("ask", i)) <=> Sent(log, Event("settled", i))
           /\ Sent(log, Event("settled", i)) => i <= Len(replies)
<1>1. /\ Sent(log, Event("end", i)) <=> state[i] = "closed"
      /\ Sent(log, Event("start", i)) <=> state[i] = "closed" \/ (place \in Single \cup Batched /\ i <= at)
      /\ Sent(log, Event("ask", i)) <=> Sent(log, Event("settled", i)) \/ (place = "card" /\ i = at)
      /\ Sent(log, Event("settled", i)) => state[i] = "closed" \/ (place = "run" /\ i = at)
  BY DEF LogInv
<1>2. (state[i] = "closed" <=> i <= Len(replies)) /\ Len(replies) < at
  BY BatchFacts
<1>3. i <= Len(replies) => i <= at
  BY <1>2, Counts DEF Numbers
<1>. QED  BY <1>1, <1>2, <1>3 DEF Single, Batched

\* A batch that is refused: the calls begun end, and those after them start
\* and end.
LEMMA RefuseTells ==
    ASSUME BoundInv, LogInv, BatchHook, NEW u \in Nat, u = at \/ u = last, Refuse(u)
    PROVE  /\ log' \in Seq(Events) /\ Once(log')
           /\ \A k \in Kinds, j \in Nat : Sent(log', Event(k, j)) <=>
                 Sent(log, Event(k, j)) \/ (k = "end" /\ Len(replies) < j /\ j <= u) \/ (k = "start" /\ at < j /\ j <= u)
<1>. DEFINE n == Len(replies)
            ends == Ends(n, at - n)
            pairs == Pairs(at, u - at)
<1>1. n \in Nat /\ at \in Nat /\ n < at /\ at <= u /\ \A j \in Nat : n < j /\ j <= u => j \in Calls
  <2>1. n < at /\ at <= last /\ Numbers
    BY BatchFacts, Counts DEF Batched, BatchHook
  <2>. QED  BY <2>1 DEF Numbers
<1>2. First(Group) = {n + 1}
  BY GroupIs DEF Batched, BatchHook
<1>3. log' = (log \o [k \in 1..(at + 1 - (n + 1)) |-> Event("end", (n + 1) + k - 1)]) \o pairs
  BY <1>2 DEF Refuse, Pairs
<1>4. [k \in 1..(at + 1 - (n + 1)) |-> Event("end", (n + 1) + k - 1)] = ends
  <2>1. at + 1 - (n + 1) = at - n /\ \A k \in 1..(at - n) : (n + 1) + k - 1 = n + k
    BY <1>1
  <2>. QED  BY <2>1 DEF Ends
<1>5. log' = (log \o ends) \o pairs
  BY <1>3, <1>4
<1>6. at - n \in Nat /\ u - at \in Nat /\ n + (at - n) = at /\ at + (u - at) = u
  BY <1>1
<1>7. /\ ends \in Seq(Events) /\ Once(ends)
      /\ \A k \in Kinds, j \in Nat : Sent(ends, Event(k, j)) <=> k = "end" /\ n < j /\ j <= at
      /\ \A k \in DOMAIN ends : \E j \in Nat : ends[k] = Event("end", j) /\ n < j /\ j <= at
  <2>1. /\ ends \in Seq(Events) /\ Once(ends)
        /\ \A k \in Kinds, j \in Nat : Sent(ends, Event(k, j)) <=> k = "end" /\ n < j /\ j <= n + (at - n)
        /\ \A k \in DOMAIN ends : \E j \in Nat : ends[k] = Event("end", j) /\ n < j /\ j <= n + (at - n)
    BY <1>1, <1>6, EndsOnce
  <2>. QED  BY <1>6, <2>1
<1>8. /\ pairs \in Seq(Events) /\ Once(pairs)
      /\ \A k \in Kinds, j \in Nat : Sent(pairs, Event(k, j)) <=> k \in {"start", "end"} /\ at < j /\ j <= u
      /\ \A k \in DOMAIN pairs : \E j \in Nat : pairs[k] \in {Event("start", j), Event("end", j)} /\ at < j /\ j <= u
  <2>1. /\ pairs \in Seq(Events) /\ Once(pairs)
        /\ \A k \in Kinds, j \in Nat : Sent(pairs, Event(k, j)) <=> k \in {"start", "end"} /\ at < j /\ j <= at + (u - at)
        /\ \A k \in DOMAIN pairs : \E j \in Nat :
              pairs[k] \in {Event("start", j), Event("end", j)} /\ at < j /\ j <= at + (u - at)
    BY <1>1, <1>6, PairsOnce
  <2>. QED  BY <1>6, <2>1
<1>. HIDE DEF ends, pairs
<1>9. \A j \in Nat : n < j /\ j <= u => /\ ~Sent(log, Event("end", j))
                                       /\ (at < j => ~Sent(log, Event("start", j)))
  <2>1. \A j \in Calls : (Sent(log, Event("end", j)) <=> j <= n) /\ (Sent(log, Event("start", j)) <=> j <= at)
    BY BatchSent DEF Batched, BatchHook
  <2>2. \A j \in Nat : (n < j => ~(j <= n)) /\ (at < j => ~(j <= at))
    BY <1>1
  <2>. QED  BY <1>1, <2>1, <2>2
<1>10. \A j \in Nat : (j <= at => j <= u) /\ (at < j => n < j /\ ~(j <= at)) /\ (j <= at \/ at < j)
  BY <1>1
<1>11. log \in Seq(Events) /\ Once(log)
  BY DEF LogInv
<1>12. \A k \in DOMAIN ends : ~Sent(log, ends[k])
  BY <1>7, <1>9, <1>10
<1>13. log \o ends \in Seq(Events) /\ Once(log \o ends) /\ \A e : Sent(log \o ends, e) <=> Sent(log, e) \/ Sent(ends, e)
  BY <1>7, <1>11, <1>12, SentMore
<1>14. \A k \in DOMAIN pairs : ~Sent(log \o ends, pairs[k])
  <2>1. \A j \in Nat : at < j /\ j <= u => ~Sent(ends, Event("start", j)) /\ ~Sent(ends, Event("end", j))
    BY <1>7, <1>10 DEF Kinds
  <2>2. \A j \in Nat : at < j /\ j <= u => ~Sent(log \o ends, Event("start", j)) /\ ~Sent(log \o ends, Event("end", j))
    BY <1>9, <1>10, <1>13, <2>1
  <2>. QED  BY <1>8, <2>2
<1>15. /\ log' \in Seq(Events) /\ Once(log')
       /\ \A e : Sent(log', e) <=> Sent(log \o ends, e) \/ Sent(pairs, e)
  BY <1>5, <1>8, <1>13, <1>14, SentMore
<1>16. \A k \in Kinds, j \in Nat : Sent(log', Event(k, j)) <=>
          \/ Sent(log, Event(k, j)) \/ (k = "end" /\ n < j /\ j <= at)
          \/ (k \in {"start", "end"} /\ at < j /\ j <= u)
  BY <1>7, <1>8, <1>13, <1>15
<1>. QED  BY <1>10, <1>15, <1>16

LEMMA RefuseLog ==
    ASSUME BoundInv, LogInv, BatchHook, NEW u \in Nat, u = at \/ u = last, Refuse(u), place' \in {"over", "segment"}
    PROVE  LogInv'
<1>1. ClosedTo(u) /\ reply' = reply /\ Calls' = Calls
  BY RefuseIs DEF BatchHook, Calls
<1>2. /\ log' \in Seq(Events) /\ Once(log')
      /\ \A k \in Kinds, j \in Nat : Sent(log', Event(k, j)) <=>
            Sent(log, Event(k, j)) \/ (k = "end" /\ Len(replies) < j /\ j <= u) \/ (k = "start" /\ at < j /\ j <= u)
  BY RefuseTells
<1>3. place' \notin Single \cup Batched /\ place' \notin {"card", "run", "request"}
  BY DEF Single, Batched
<1>4. /\ \A j \in Calls : j \in Nat /\ (j <= Len(replies) => j <= u) /\ (j <= at => j <= u)
      /\ \A j \in Calls : (j <= Len(replies) \/ (Len(replies) < j /\ j <= u) <=> j <= u) /\ (j <= at \/ (at < j /\ j <= u) <=> j <= u)
  <2>1. Len(replies) < at /\ at <= last /\ Numbers
    BY BatchFacts, Counts DEF Batched, BatchHook
  <2>2. Len(replies) \in Nat /\ at \in Nat /\ last \in Nat /\ \A j \in Calls : j \in Nat
    BY <2>1 DEF Numbers
  <2>3. Len(replies) < u /\ at <= u
    BY <2>1, <2>2
  <2>. QED  BY <2>2, <2>3
<1>5. ASSUME NEW i \in Calls
      PROVE  /\ Sent(log', Event("end", i)) <=> state'[i] = "closed"
             /\ Sent(log', Event("start", i)) <=> state'[i] = "closed"
             /\ Sent(log', Event("ask", i)) <=> Sent(log', Event("settled", i))
             /\ Sent(log', Event("settled", i)) => state'[i] = "closed"
  <2>1. /\ Sent(log, Event("end", i)) <=> i <= Len(replies)
        /\ Sent(log, Event("start", i)) <=> i <= at
        /\ Sent(log, Event("ask", i)) <=> Sent(log, Event("settled", i))
        /\ Sent(log, Event("settled", i)) => i <= Len(replies)
    BY BatchSent DEF Batched, BatchHook
  <2>2. state'[i] = "closed" <=> i <= u
    BY <1>1 DEF ClosedTo
  <2>3. /\ Sent(log', Event("end", i)) <=> Sent(log, Event("end", i)) \/ (Len(replies) < i /\ i <= u)
        /\ Sent(log', Event("start", i)) <=> Sent(log, Event("start", i)) \/ (at < i /\ i <= u)
        /\ Sent(log', Event("ask", i)) <=> Sent(log, Event("ask", i))
        /\ Sent(log', Event("settled", i)) <=> Sent(log, Event("settled", i))
    BY <1>2, <1>4 DEF Kinds
  <2>. QED  BY <1>4, <2>1, <2>2, <2>3
<1>. QED  BY <1>1, <1>2, <1>3, <1>5 DEF LogInv

\* A batch goes on with no call closed: some call may start.
LEMMA BatchMoveLog ==
    ASSUME BoundInv, LogInv, place \in Batched, place' \in Batched, reply' = reply,
           \A i \in Calls : state'[i] = "closed" <=> state[i] = "closed",
           \/ at' = at /\ log' = log
           \/ at' = at + 1 /\ at' \in Calls /\ log' = Append(log, Event("start", at'))
    PROVE  LogInv'
<1>1. Calls' = Calls
  BY DEF Calls
<1>2. /\ place' \in Single \cup Batched <=> (place \in Single \cup Batched) /\ (place' = "card" <=> place = "card")
      /\ (place' = "run" <=> place = "run") /\ place' # "request"
  BY DEF Single, Batched
<1>3. CASE at' = at /\ log' = log
  BY <1>1, <1>2, <1>3, LogSame
<1>4. CASE at' = at + 1 /\ at' \in Calls /\ log' = Append(log, Event("start", at'))
  <2>. DEFINE n == at'
  <2>1. n \in Nat /\ at \in Nat /\ Len(replies) < at /\ Len(replies) \in Nat /\ n = at + 1 /\ \A i \in Calls : i \in Nat
    <3>1. Numbers /\ Len(replies) < at
      BY BatchFacts, Counts
    <3>. QED  BY <1>4, <3>1 DEF Numbers
  <2>2. /\ \A i \in Calls : (i <= n <=> i <= at \/ i = n) /\ (i <= Len(replies) => i <= n)
        /\ ~(n <= at)
    BY <2>1
  <2>3. ~Sent(log, Event("start", n))
    BY <1>4, <2>2, BatchSent
  <2>4. Tells({Event("start", n)})
    BY <1>4, <2>1, <2>3, TellsOne DEF Kinds
  <2>5. \A i \in Calls : Told(i, FALSE, i = n, FALSE, FALSE)
    BY <2>1, <2>4, EventIs DEF Tells, Told, Kinds
  <2>6. ASSUME NEW i \in Calls
        PROVE  /\ Sent(log', Event("end", i)) <=> state'[i] = "closed"
               /\ Sent(log', Event("start", i)) <=> state'[i] = "closed" \/ i <= at'
               /\ Sent(log', Event("ask", i)) <=> Sent(log', Event("settled", i))
               /\ Sent(log', Event("settled", i)) => state'[i] = "closed"
    <3>1. /\ Sent(log, Event("end", i)) <=> i <= Len(replies)
          /\ Sent(log, Event("start", i)) <=> i <= at
          /\ Sent(log, Event("ask", i)) <=> Sent(log, Event("settled", i))
          /\ Sent(log, Event("settled", i)) => i <= Len(replies)
      BY BatchSent
    <3>2. state'[i] = "closed" <=> i <= Len(replies)
      BY BatchFacts
    <3>3. Told(i, FALSE, i = n, FALSE, FALSE)
      BY <2>5
    <3>. QED  BY <2>2, <3>1, <3>2, <3>3 DEF Told
  <2>7. log' \in Seq(Events) /\ Once(log')
    BY <2>4 DEF Tells
  <2>8. place' \in Single \cup Batched /\ place' \notin {"card", "run", "request"}
    BY DEF Single, Batched
  <2>. QED  BY <1>1, <2>6, <2>7, <2>8 DEF LogInv
<1>. QED  BY <1>3, <1>4

LEMMA BatchHookLog == ASSUME BoundInv, LogInv, BatchHook PROVE LogInv'
<1>1. at \in Nat /\ last \in Nat /\ reply' = reply /\ place \in Batched /\ at \in Calls /\ ~(state[at] = "closed")
  <2>1. place = "batch hook" /\ at \in Calls
    BY BatchFacts DEF BatchHook, Batched
  <2>2. state[at] = "new"
    BY <2>1 DEF BoundInv, StateInv
  <2>3. at \in Nat /\ last \in Nat
    BY Counts DEF Numbers
  <2>. QED  BY <2>1, <2>2, <2>3 DEF BatchHook, Batched
<1>2. CASE Refuse(at) /\ Goto("over", at)
  BY <1>1, <1>2, RefuseLog DEF Goto
<1>3. CASE Refuse(last) /\ Onward(last)
  BY <1>1, <1>3, RefuseLog, OnwardIs
<1>4. CASE /\ Goto("batch judge", at) /\ log' = log
           /\ \E pre \in PreToolUse : state' = [state EXCEPT ![at] = IF pre = "block" THEN "blocked" ELSE "asked"]
  <2>1. state \in [Calls -> States]
    BY Types DEF BoundInv, Typing
  <2>2. \A i \in Calls : state'[i] = "closed" <=> state[i] = "closed"
    BY <1>1, <1>4, <2>1
  <2>3. place' \in Batched /\ at' = at
    BY <1>4 DEF Goto, Batched
  <2>. QED  BY <1>1, <1>4, <2>2, <2>3, BatchMoveLog
<1>. QED  BY <1>2, <1>3, <1>4 DEF BatchHook

LEMMA BatchJudgeLog == ASSUME BoundInv, LogInv, BatchJudge PROVE LogInv'
<1>1. place = "batch judge" /\ reply' = reply /\ state' = [state EXCEPT ![at] = Admission(at)] /\ place \in Batched
  BY DEF BatchJudge, Batched
<1>2. at \in Calls /\ (at < last => at + 1 \in Calls)
  <2>1. at \in Calls /\ last \in Calls /\ Numbers
    BY <1>1, BatchFacts, Counts
  <2>2. at < last => at + 1 \in Calls
    <3>1. Calls = 1..Len(reply) /\ Len(reply) \in Nat
      BY <2>1 DEF Numbers
    <3>. QED  BY <2>1, <3>1
  <2>. QED  BY <2>1, <2>2
<1>3. \A i \in Calls : state'[i] = "closed" <=> state[i] = "closed"
  <2>1. state \in [Calls -> States] /\ Admission(at) \in Judged
    BY <1>1, Types, AdmissionIs DEF BoundInv, Typing
  <2>2. state[at] \in {"asked", "blocked"}
    BY <1>1 DEF BoundInv, StateInv
  <2>. QED  BY <1>1, <1>2, <2>1, <2>2 DEF Judged
<1>4. CASE at < last /\ Goto("batch hook", at + 1) /\ log' = Append(log, Event("start", at + 1))
  <2>1. at' = at + 1 /\ place' \in Batched
    BY <1>4 DEF Goto, Batched
  <2>2. at + 1 \in Calls
    BY <1>2, <1>4
  <2>. QED  BY <1>1, <1>3, <1>4, <2>1, <2>2, BatchMoveLog
<1>5. CASE Goto("batch", at) /\ log' = log
  <2>1. at' = at /\ place' \in Batched
    BY <1>5 DEF Goto, Batched
  <2>. QED  BY <1>1, <1>3, <1>5, <2>1, BatchMoveLog
<1>. QED  BY <1>4, <1>5 DEF BatchJudge

\* A call of a batch starts to run, or ends.
LEMMA InBatchLog ==
    ASSUME BoundInv, LogInv, InBatch, NEW i \in Group, NEW s \in {"running", "ended"}, state' = [state EXCEPT ![i] = s],
           UNCHANGED <<place, at, reply, log>>
    PROVE  LogInv'
<1>1. i \in Calls /\ state[i] # "closed" /\ state \in [Calls -> States]
  BY Types DEF Group, BoundInv, Typing
<1>2. \A j \in Calls : state'[j] = "closed" <=> state[j] = "closed"
  BY <1>1
<1>3. place \in Batched /\ place' \in Batched
  BY DEF InBatch, Batched
<1>. QED  BY <1>2, <1>3, BatchMoveLog

LEMMA BatchStartLog == ASSUME BoundInv, LogInv, BatchStart PROVE LogInv'
<1>1. PICK i \in First(Waiting) : \E s \in {"running", "ended"} : state' = [state EXCEPT ![i] = s]
  BY DEF BatchStart
<1>2. i \in Group /\ InBatch /\ UNCHANGED <<place, at, reply, log>>
  BY DEF First, Waiting, BatchStart, InBatch
<1>. QED  BY <1>1, <1>2, InBatchLog

LEMMA BatchEndLog == ASSUME BoundInv, LogInv, BatchEnd PROVE LogInv'
<1>1. PICK i \in Running : state' = [state EXCEPT ![i] = "ended"]
  BY DEF BatchEnd
<1>2. i \in Group /\ InBatch /\ UNCHANGED <<place, at, reply, log>>
  BY DEF Running, BatchEnd, InBatch
<1>. QED  BY <1>1, <1>2, InBatchLog

LEMMA BatchCloseLog == ASSUME BoundInv, LogInv, BatchClose PROVE LogInv'
<1>1. PICK i \in First(Group) : Close(i) /\ IF Group = {i} THEN Onward(last) ELSE UNCHANGED <<place, at>>
  BY DEF BatchClose
<1>2. InBatch /\ reply' = reply /\ Calls' = Calls /\ place \in Batched
  BY DEF BatchClose, InBatch, Calls, Batched
<1>3. i = Len(replies) + 1 /\ i \in Group /\ i \in Calls
  BY <1>2, GroupIs DEF Group
<1>4. /\ at = last /\ Group = {j \in Calls : Len(replies) < j /\ j <= last}
      /\ \A j \in Calls : state[j] = "closed" <=> j <= Len(replies)
  BY <1>2, InBatchFacts
<1>n. Len(replies) \in Nat /\ last \in Nat /\ i \in Nat /\ \A j \in Calls : j \in Nat
  <2>1. Len(replies) \in Nat /\ last \in Nat /\ \A j \in Calls : j \in Nat
    BY Counts DEF Numbers
  <2>. QED  BY <1>3, <2>1
<1>5. /\ \A j \in Calls : j <= i <=> j <= Len(replies) \/ j = i
      /\ ~(i <= Len(replies)) /\ i <= last
  <2>1. i <= last
    BY <1>3, <1>4
  <2>. QED  BY <1>3, <1>n, <2>1
<1>6. log' = Append(log, Event("end", i)) /\ state' = [state EXCEPT ![i] = "closed"]
  BY <1>1 DEF Close
<1>7. \A j \in Calls : state'[j] = "closed" <=> j <= i
  <2>1. state \in [Calls -> States]
    BY Types DEF BoundInv, Typing
  <2>. QED  BY <1>3, <1>4, <1>5, <1>6, <2>1
<1>8. Tells({Event("end", i)})
  <2>1. ~Sent(log, Event("end", i))
    BY <1>2, <1>3, <1>5, BatchSent
  <2>. QED  BY <1>6, <1>n, <2>1, TellsOne DEF Kinds
<1>9. \A j \in Calls : Told(j, j = i, FALSE, FALSE, FALSE)
  BY <1>n, <1>8, EventIs DEF Tells, Told, Kinds
<1>10. ASSUME NEW j \in Calls
       PROVE  /\ Sent(log', Event("end", j)) <=> state'[j] = "closed"
              /\ Sent(log', Event("start", j)) <=> j <= at
              /\ Sent(log', Event("ask", j)) <=> Sent(log', Event("settled", j))
              /\ Sent(log', Event("settled", j)) => state'[j] = "closed"
  <2>1. /\ Sent(log, Event("end", j)) <=> j <= Len(replies)
        /\ Sent(log, Event("start", j)) <=> j <= at
        /\ Sent(log, Event("ask", j)) <=> Sent(log, Event("settled", j))
        /\ Sent(log, Event("settled", j)) => j <= Len(replies)
    BY <1>2, BatchSent
  <2>2. Told(j, j = i, FALSE, FALSE, FALSE) /\ (state'[j] = "closed" <=> j <= Len(replies) \/ j = i)
    BY <1>5, <1>7, <1>9
  <2>. QED  BY <2>1, <2>2 DEF Told
<1>11. log' \in Seq(Events) /\ Once(log')
  BY <1>8 DEF Tells
<1>12. CASE Group = {i} /\ Onward(last)
  <2>1. \A j \in Calls : j <= at <=> state'[j] = "closed"
    <3>1. last = i
      <4>1. last \in Calls /\ Len(replies) < last /\ last <= last
        BY <1>2, <1>n, InBatchFacts
      <4>. QED  BY <1>4, <1>12, <4>1
    <3>. QED  BY <1>4, <1>7, <3>1
  <2>2. place' \notin Single \cup Batched /\ place' \notin {"card", "run", "request"}
    BY <1>12, OnwardIs DEF Single, Batched
  <2>. QED  BY <1>2, <1>10, <1>11, <2>1, <2>2 DEF LogInv
<1>13. CASE UNCHANGED <<place, at>>
  <2>1. place' \in Single \cup Batched /\ place' \notin {"card", "run", "request"} /\ at' = at
    BY <1>2, <1>13 DEF Single, Batched
  <2>2. \A j \in Calls : state'[j] = "closed" \/ j <= at <=> j <= at
    BY <1>4, <1>5, <1>7, <1>n
  <2>. QED  BY <1>2, <1>10, <1>11, <2>1, <2>2 DEF LogInv
<1>. QED  BY <1>1, <1>12, <1>13

\* Steps that send nothing and leave the calls where they are.
LEMMA QuietLog ==
    ASSUME BoundInv, LogInv, UNCHANGED <<log, reply, at, state, place>>
    PROVE  LogInv'
BY LogSame DEF Calls

LEMMA FinishLog == ASSUME BoundInv, LogInv, Finish PROVE LogInv'
BY HomeLog DEF Finish, Goto

LEMMA LogStep == ASSUME BoundInv, LogInv, [Next]_vars PROVE LogInv'
<1>1. CASE Answer \/ Modify \/ Cancel \/ OutsideEdit \/ UNCHANGED vars
  <2>1. UNCHANGED <<log, reply, at, state, place>>
    BY <1>1 DEF Answer, Modify, Cancel, OutsideEdit, vars
  <2>. QED  BY <2>1, QuietLog
<1>2. CASE Receive
  BY <1>2, ReceiveLog
<1>3. CASE Enter
  BY <1>3, EnterLog
<1>4. CASE Hook
  BY <1>4, HookLog
<1>5. CASE Judge
  BY <1>5, JudgeLog
<1>6. CASE Settle
  BY <1>6, SettleLog
<1>7. CASE Run
  BY <1>7, RunLog
<1>8. CASE BatchHook
  BY <1>8, BatchHookLog
<1>9. CASE BatchJudge
  BY <1>9, BatchJudgeLog
<1>10. CASE BatchStart
  BY <1>10, BatchStartLog
<1>11. CASE BatchEnd
  BY <1>11, BatchEndLog
<1>12. CASE BatchClose
  BY <1>12, BatchCloseLog
<1>13. CASE Finish
  BY <1>13, FinishLog
<1>. QED  BY <1>1, <1>2, <1>3, <1>4, <1>5, <1>6, <1>7, <1>8, <1>9, <1>10, <1>11, <1>12, <1>13 DEF Next, Step

(* What the marks tell of hooks and answers *)

\* What a step leaves of who was told yes and of whose hooks were asked.
Keeps(i) == mark'[i].said = mark[i].said /\ mark'[i].hooks = mark[i].hooks

LEMMA ModifyKeeps == ASSUME BoundInv, Modify PROVE \A i \in Calls : Keeps(i)
<1>. SUFFICES ASSUME NEW i \in Calls PROVE Keeps(i)
  OBVIOUS
<1>. DEFINE l == Looser(mark[i].mode, Stricter(live', saved'))
<1>1. mark[i] \in Marks
  BY Types DEF BoundInv, Typing
<1>2. mark'[i] = IF mark[i].mode = "none" THEN mark[i] ELSE [mark[i] EXCEPT !.mode = l]
  BY DEF Modify
<1>. HIDE DEF l
<1>. QED  BY <1>1, <1>2 DEF Marks, Keeps

LEMMA StepKeeps ==
    ASSUME BoundInv, \/ Enter \/ Judge \/ Settle \/ Run \/ BatchJudge \/ BatchStart \/ BatchEnd \/ BatchClose \/ Finish
                     \/ Modify \/ Cancel \/ OutsideEdit \/ UNCHANGED vars
    PROVE  reply' = reply /\ Calls' = Calls /\ \A i \in Calls : Keeps(i)
<1>. SUFFICES reply' = reply /\ \A i \in Calls : Keeps(i)
  BY DEF Calls
<1>1. CASE Judge \/ Settle \/ BatchStart \/ BatchClose \/ Finish \/ Cancel \/ UNCHANGED vars
  <2>1. mark' = mark /\ reply' = reply
    BY <1>1 DEF Judge, Settle, BatchStart, BatchClose, Finish, Cancel, vars
  <2>. QED  BY <2>1 DEF Keeps
<1>2. CASE Run \/ BatchEnd \/ OutsideEdit
  <2>1. (Edit \/ UNCHANGED <<book, code, changes, mark>>) /\ reply' = reply
    BY <1>2 DEF Run, BatchEnd, OutsideEdit, Effect
  <2>. QED  BY <2>1, EditIs DEF Keeps
<1>3. CASE Enter
  <2>1. TypeOK /\ ModesMove /\ at \in Calls /\ Reached(at) /\ reply' = reply
    BY <1>3, Refreshes DEF Enter, BoundInv, PlaceInv
  <2>. QED  BY <2>1, ReachedIs DEF Keeps
<1>4. CASE BatchJudge
  <2>1. reply' = reply /\ TypeOK /\ ModesMove
    BY <1>4 DEF BatchJudge, BoundInv, gate, ModesMove
  <2>2. CASE mark' = mark
    BY <2>1, <2>2 DEF Keeps
  <2>3. CASE at < last /\ Reached(at + 1)
    <3>1. at \in Calls /\ last \in Calls /\ Numbers
      BY <1>4, BatchFacts, Counts DEF BatchJudge, Batched
    <3>2. at + 1 \in Calls
      BY <2>3, <3>1 DEF Numbers
    <3>. QED  BY <2>1, <2>3, <3>2, ReachedIs DEF Keeps
  <2>. QED  BY <1>4, <2>2, <2>3 DEF BatchJudge
<1>5. CASE Modify
  <2>1. reply' = reply
    BY <1>5 DEF Modify
  <2>. QED  BY <1>5, <2>1, ModifyKeeps
<1>. QED  BY <1>1, <1>2, <1>3, <1>4, <1>5

\* The hooks of the call at hand are asked.
LEMMA AskedIs ==
    ASSUME BoundInv, Hook \/ BatchHook
    PROVE  /\ reply' = reply /\ Calls' = Calls /\ at \in Calls /\ mark'[at].hooks = mark[at].hooks + 1
           /\ \A i \in Calls : mark'[i].said = mark[i].said /\ (i # at => mark'[i].hooks = mark[i].hooks)
<1>1. TypeOK /\ at \in Calls /\ Consulted(at) /\ reply' = reply
  BY DEF Hook, BatchHook, BoundInv, PlaceInv, Single, Batched
<1>. QED  BY <1>1, ConsultedIs DEF Calls

\* A step at which no call runs by card.
LEMMA RanByCard ==
    ASSUME BoundInv, reply' = reply, ran' = ran \/ \E i \in Calls : Runs(i, FALSE)
    PROVE  \A j \in Ran' : ran'[j].card => j \in Ran /\ ran[j].card
<1>1. DOMAIN ran = Calls /\ Calls' = Calls
  BY DEF BoundInv, TypeOK, Calls
<1>2. CASE ran' = ran
  BY <1>1, <1>2 DEF Ran
<1>3. CASE \E i \in Calls : Runs(i, FALSE)
  <2>1. PICK i \in Calls : Runs(i, FALSE)
    BY <1>3
  <2>2. ~ran'[i].card /\ \A j \in Calls \ {i} : ran'[j] = ran[j]
    BY <1>1, <2>1 DEF Runs
  <2>. QED  BY <1>1, <2>2 DEF Ran
<1>. QED  BY <1>2, <1>3

\* Away from a card.
LEMMA CardAway ==
    ASSUME CardInv, place # "card", place' # "card", card' = card,
           \A i \in Ran' : ran'[i].card => mark'[i].said = "yes"
    PROVE  CardInv'
BY DEF CardInv, NoCard

LEMMA ReceiveCard == ASSUME BoundInv, CardInv, Receive PROVE CardInv'
<1>1. place = "request" /\ place' = "segment" /\ card' = card /\ ran' = [i \in DOMAIN reply' |-> <<>>]
  BY DEF Receive, Goto
<1>2. Ran' = {}
  BY <1>1 DEF Ran, Calls
<1>. QED  BY <1>1, <1>2, CardAway

LEMMA AwayCard ==
    ASSUME BoundInv, CardInv, Enter \/ Hook \/ Run \/ BatchHook \/ BatchJudge \/ BatchStart \/ BatchEnd \/ BatchClose \/ Finish
    PROVE  CardInv'
<1>1. place # "card" /\ card' = card
  BY DEF Enter, Hook, Run, BatchHook, BatchJudge, BatchStart, BatchEnd, BatchClose, Finish
<1>2. place' # "card"
  <2>1. \A i : Onward(i) => place' # "card"
    BY DEF Onward, Goto
  <2>2. \A l, i : l # "card" /\ Goto(l, i) => place' # "card"
    BY DEF Goto
  <2>. QED  BY <1>1, <2>1, <2>2 DEF Enter, Hook, Run, BatchHook, BatchJudge, BatchStart, BatchEnd, BatchClose, Finish
<1>4. reply' = reply /\ \A i \in Calls : mark'[i].said = mark[i].said
  BY StepKeeps, AskedIs DEF Keeps
<1>5. ran' = ran \/ \E i \in Calls : Runs(i, FALSE)
  <2>1. CASE BatchStart
    <3>1. First(Waiting) \subseteq Calls
      BY DEF First, Waiting, Group
    <3>. QED  BY <2>1, <3>1 DEF BatchStart
  <2>2. CASE ~BatchStart
    BY <2>2 DEF Enter, Hook, Run, BatchHook, BatchJudge, BatchEnd, BatchClose, Finish
  <2>. QED  BY <2>1, <2>2
<1>6. \A i \in Ran' : ran'[i].card => i \in Ran /\ ran[i].card
  BY <1>4, <1>5, RanByCard
<1>7. \A i \in Ran' : ran'[i].card => mark'[i].said = "yes"
  BY <1>4, <1>6 DEF CardInv, Ran
<1>. QED  BY <1>1, <1>2, <1>7, CardAway

LEMMA JudgeCard == ASSUME BoundInv, CardInv, Judge PROVE CardInv'
<1>1. place = "judge" /\ mark' = mark /\ reply' = reply /\ at \in Calls /\ card = NoCard
  BY SerialAt DEF Judge, Single, CardInv
<1>2. ran' = ran \/ \E i \in Calls : Runs(i, FALSE)
  BY <1>1 DEF Judge
<1>3. \A i \in Ran' : ran'[i].card => mark'[i].said = "yes"
  <2>1. \A i \in Ran' : ran'[i].card => i \in Ran /\ ran[i].card
    BY <1>1, <1>2, RanByCard
  <2>. QED  BY <1>1, <2>1 DEF CardInv
<1>4. CASE card' = card /\ place' # "card"
  BY <1>1, <1>3, <1>4, CardAway
<1>5. CASE place' = "card" /\ at' = at /\ card'.of = at /\ card'.answer = "pending"
  BY <1>3, <1>5 DEF CardInv
<1>6. \/ Goto("run", at) /\ card' = card
      \/ Onward(at) /\ card' = card
      \/ Goto("card", at) /\ \E shown : card' = [of |-> at, answer |-> "pending", shown |-> shown]
  BY DEF Judge
<1>7. \/ card' = card /\ place' # "card"
      \/ place' = "card" /\ at' = at /\ card'.of = at /\ card'.answer = "pending"
  BY <1>6 DEF Goto, Onward
<1>. QED  BY <1>4, <1>5, <1>7

LEMMA SettleCard == ASSUME BoundInv, CardInv, Settle PROVE CardInv'
<1>1. place = "card" /\ card' = NoCard /\ mark' = mark /\ reply' = reply /\ at \in Calls
  BY SerialAt DEF Settle, Single
<1>2. place' # "card"
  BY DEF Settle, Goto, Onward
<1>3. DOMAIN ran = Calls /\ Calls' = Calls
  BY <1>1 DEF BoundInv, TypeOK, Calls
<1>4. CASE ran' = ran
  <2>1. \A i \in Ran' : ran'[i].card => mark'[i].said = "yes"
    BY <1>1, <1>3, <1>4 DEF CardInv, Ran
  <2>. QED  BY <1>1, <1>2, <2>1 DEF CardInv, NoCard
<1>5. CASE "yes" \in CardEnds /\ Runs(at, TRUE)
  <2>1. card.answer = "yes"
    BY <1>5 DEF CardEnds
  <2>2. mark[at].said = "yes"
    BY <2>1 DEF CardInv
  <2>3. \A j \in Calls \ {at} : ran'[j] = ran[j]
    BY <1>3, <1>5 DEF Runs
  <2>4. \A i \in Ran' : ran'[i].card => mark'[i].said = "yes"
    BY <1>1, <1>3, <2>2, <2>3 DEF CardInv, Ran
  <2>. QED  BY <1>1, <1>2, <2>4 DEF CardInv, NoCard
<1>. QED  BY <1>4, <1>5 DEF Settle

LEMMA AnswerCard == ASSUME BoundInv, CardInv, Answer PROVE CardInv'
<1>1. PICK a \in {"yes", "no"} : card' = [card EXCEPT !.answer = a] /\ mark' = [mark EXCEPT ![card.of].said = a]
  BY DEF Answer
<1>2. card.answer = "pending" /\ UNCHANGED <<place, at, reply, ran>>
  BY DEF Answer
<1>3. place = "card" /\ card.of = at
  BY <1>2 DEF CardInv, NoCard
<1>4. at \in Calls /\ (\A i \in Ran : i # at) /\ card \in Cards(Len(reply)) /\ mark \in [Calls -> Marks]
  BY <1>3, SerialAt, SerialRan, Types DEF Single, BoundInv, TypeOK, Typing
<1>5. card'.of = at /\ card'.answer = a
  BY <1>1, <1>3, <1>4 DEF Cards
<1>6. mark'[at].said = a /\ \A i \in Calls \ {at} : mark'[i] = mark[i]
  BY <1>1, <1>3, <1>4 DEF Marks
<1>7. \A i \in Ran' : ran'[i].card => mark'[i].said = "yes"
  <2>1. Ran' = Ran /\ ran' = ran
    BY <1>2 DEF Ran, Calls
  <2>. QED  BY <1>4, <1>6, <2>1 DEF CardInv, Ran
<1>. QED  BY <1>2, <1>3, <1>5, <1>6, <1>7 DEF CardInv

LEMMA StayCard ==
    ASSUME BoundInv, CardInv, Modify \/ Cancel \/ OutsideEdit \/ UNCHANGED vars
    PROVE  CardInv'
<1>1. UNCHANGED <<place, at, reply, ran, card>>
  BY DEF Modify, Cancel, OutsideEdit, vars
<1>2. \A i \in Calls : mark'[i].said = mark[i].said
  BY StepKeeps DEF Keeps
<1>3. card.answer = "yes" => at \in Calls
  <2>1. place = "card" => at \in Calls
    BY SerialAt DEF Single
  <2>. QED  BY <2>1 DEF CardInv, NoCard
<1>4. Ran' = Ran /\ \A i \in Ran : i \in Calls
  BY <1>1 DEF Ran, Calls
<1>. QED  BY <1>1, <1>2, <1>3, <1>4 DEF CardInv

LEMMA CardStep == ASSUME BoundInv, CardInv, [Next]_vars PROVE CardInv'
BY ReceiveCard, AwayCard, JudgeCard, SettleCard, AnswerCard, StayCard DEF Next, Step

(* A call's hooks are asked once *)

Walking == place \in {"segment"} \cup Single \cup Batched

\* How far the hooks have been asked, in numbers.
LEMMA LookedIs ==
    ASSUME BoundInv, Walking
    PROVE  /\ Looked \in Nat /\ at \in Nat /\ Len(replies) \in Nat /\ Len(replies) <= Looked /\ Looked <= at
           /\ at > at - 1 /\ (at + 1) - 1 = at
           /\ \A i \in Calls : i \in Nat /\ (i > at => i > at - 1 /\ i # at) /\ (i <= at => i = at \/ i <= at - 1)
<1>1. at \in Nat /\ Len(replies) \in Nat /\ (\A i \in Calls : i \in Nat) /\ Len(replies) < at
  <2>1. Numbers /\ Len(replies) < at
    <3>1. CASE place \in {"segment"} \cup Single
      <4>1. at = Len(replies) + 1 /\ Numbers
        BY <3>1, SerialFacts, Counts
      <4>. QED  BY <4>1 DEF Numbers
    <3>2. CASE place \in Batched
      BY <3>2, BatchFacts, Counts
    <3>. QED  BY <3>1, <3>2 DEF Walking
  <2>. QED  BY <2>1 DEF Numbers
<1>2. Looked = at - 1 \/ Looked = at
  BY DEF Looked
<1>3. at - 1 \in Nat /\ Len(replies) <= at - 1 /\ at - 1 <= at /\ Len(replies) <= at /\ at <= at
  BY <1>1
<1>4. at > at - 1 /\ (at + 1) - 1 = at /\ \A i \in Calls : (i > at => i > at - 1 /\ i # at) /\ (i <= at => i = at \/ i <= at - 1)
  BY <1>1
<1>. QED  BY <1>1, <1>2, <1>3, <1>4

\* The calls looked at stay as they are, and no call starts but one of them.
LEMMA HooksMove ==
    ASSUME BoundInv, HooksInv, Walking, reply' = reply, \A i \in Calls : mark'[i].hooks = mark[i].hooks,
           \A i \in Ran' : i \in Calls /\ (i \in Ran \/ mark[i].hooks = 1),
           ~Walking' \/ (Looked' = Looked /\ \A i \in Calls : Len(replies') < i => Len(replies) < i)
    PROVE  HooksInv'
<1>1. Calls' = Calls
  BY DEF Calls
<1>2. /\ \A i \in Calls : mark[i].hooks \in {0, 1}
      /\ \A i \in Ran : mark[i].hooks = 1
      /\ \A i \in Calls : /\ i > Looked => mark[i].hooks = 0
                          /\ Len(replies) < i /\ i <= Looked => mark[i].hooks = 1
  BY DEF HooksInv, Walking
<1>3. \A i \in Ran' : mark'[i].hooks = 1
  BY <1>2
<1>. QED  BY <1>1, <1>2, <1>3 DEF HooksInv, Walking

\* A call is let go, and those after u are looked at next.
LEMMA HooksEnd ==
    ASSUME BoundInv, HooksInv, Walking, reply' = reply, ran' = ran, NEW u \in Nat, Looked <= u,
           Goto("over", at) \/ Onward(u), Len(replies') = u,
           \A i \in Calls : mark'[i].hooks \in {0, 1} /\ (i > u => mark'[i].hooks = mark[i].hooks),
           \A i \in Ran : mark'[i].hooks = mark[i].hooks
    PROVE  HooksInv'
<1>1. Calls' = Calls /\ Ran' = Ran
  BY DEF Calls, Ran
<1>2. (\A i \in Ran : mark'[i].hooks = 1) /\ \A i \in Calls : i > Looked => mark[i].hooks = 0
  BY DEF HooksInv, Walking
<1>3. place' = "over" \/ (place' = "segment" /\ at' = u + 1)
  BY DEF Onward, Goto
<1>4. place' = "segment" /\ at' = u + 1 => Looked' = u
  <2>1. place' = "segment" => Looked' = at' - 1
    BY DEF Looked
  <2>2. at' = u + 1 => at' - 1 = u
    OBVIOUS
  <2>. QED  BY <2>1, <2>2
<1>5. \A i \in Calls : i > u => mark'[i].hooks = 0
  <2>1. \A i \in Calls : i > u => i > Looked
    BY LookedIs
  <2>. QED  BY <1>2, <2>1
<1>6. \A i \in Calls : ~(u < i /\ i <= u)
  BY LookedIs
<1>. QED  BY <1>1, <1>2, <1>3, <1>4, <1>5, <1>6 DEF HooksInv, Walking, Single, Batched

LEMMA ReceiveHooks == ASSUME BoundInv, HooksInv, Receive PROVE HooksInv'
<1>1. /\ place = "request" /\ place' = "segment" /\ at' = 1 /\ replies' = replies /\ ran' = [i \in DOMAIN reply' |-> <<>>]
      /\ mark' = [i \in DOMAIN reply' |-> Unmarked] /\ reply' \in Replies
  BY DEF Receive, Goto
<1>2. Ran' = {} /\ \A i \in Calls' : mark'[i].hooks = 0
  BY <1>1 DEF Ran, Calls, Unmarked
<1>3. Len(replies') = 0 /\ Looked' = 0
  <2>1. reply = <<>> /\ Len(replies) <= Len(reply) /\ Len(replies) \in Nat
    BY <1>1 DEF BoundInv, PlaceInv, AnswerInv
  <2>2. Len(replies) = 0
    BY <2>1
  <2>. QED  BY <1>1, <2>2 DEF Looked
<1>4. \A i \in Calls' : i \in Nat
  <2>1. reply' \in Seq(Tools \cup {Malformed})
    BY <1>1, ConstantsAssumption
  <2>2. Calls' = 1..Len(reply') /\ Len(reply') \in Nat
    BY <2>1 DEF Calls
  <2>. QED  BY <2>2
<1>5. \A i \in Calls' : ~(0 < i /\ i <= 0)
  BY <1>4
<1>. QED  BY <1>2, <1>3, <1>5 DEF HooksInv

\* A call judged by itself ends.
LEMMA SerialEndHooks ==
    ASSUME BoundInv, HooksInv, place \in {"segment"} \cup Single, reply' = reply, ran' = ran,
           replies' = Append(replies, at), Goto("over", at) \/ Onward(at),
           \A i \in Calls : mark'[i].hooks \in {0, 1} /\ (i # at => mark'[i].hooks = mark[i].hooks),
           at \in Ran => mark'[at].hooks = mark[at].hooks
    PROVE  HooksInv'
<1>1. Walking /\ at \in Calls
  BY SerialAt DEF Walking
<1>2. at \in Nat /\ Looked <= at /\ \A i \in Calls : i > at => i # at
  BY <1>1, LookedIs
<1>3. Len(replies') = at
  <2>1. at = Len(replies) + 1 /\ replies \in Seq(Nat)
    BY SerialFacts DEF BoundInv, AnswerInv
  <2>. QED  BY <2>1
<1>4. \A i \in Ran : mark'[i].hooks = mark[i].hooks
  BY DEF Ran
<1>. QED  BY <1>1, <1>2, <1>3, <1>4, HooksEnd

LEMMA EnterHooks == ASSUME BoundInv, HooksInv, Enter PROVE HooksInv'
<1>1. place = "segment" /\ Walking /\ ran' = ran
  BY DEF Enter, Walking
<1>2. reply' = reply /\ \A i \in Calls : mark'[i].hooks = mark[i].hooks
  BY StepKeeps DEF Keeps
<1>3. CASE replies' = Append(replies, at) /\ Onward(at)
  <2>1. \A i \in Calls : mark'[i].hooks \in {0, 1}
    BY <1>2 DEF HooksInv
  <2>. QED  BY <1>1, <1>2, <1>3, <2>1, SerialEndHooks DEF Ran
<1>4. CASE replies' = replies /\ (Goto("over", at) \/ Goto("batch hook", at) \/ Goto("hook", at))
  <2>1. \A i \in Ran' : i \in Calls /\ i \in Ran
    BY <1>1, <1>2 DEF Ran, Calls
  <2>2. Walking' => Looked' = Looked
    BY <1>1, <1>4 DEF Walking, Looked, Goto, Single, Batched
  <2>. QED  BY <1>1, <1>2, <1>4, <2>1, <2>2, HooksMove
<1>. QED  BY <1>3, <1>4 DEF Enter

\* Asked of the call at hand: it was not yet, and has not run.
LEMMA AskedOnce ==
    ASSUME BoundInv, HooksInv, Hook \/ BatchHook
    PROVE  /\ Looked = at - 1 /\ at \in Nat /\ mark'[at].hooks = 1 /\ at \notin Ran
           /\ \A i \in Calls : mark'[i].hooks \in {0, 1} /\ (i # at => mark'[i].hooks = mark[i].hooks)
<1>1. place \in {"hook", "batch hook"} /\ Walking /\ Looked = at - 1 /\ at \in Calls
  BY AskedIs DEF Hook, BatchHook, Walking, Looked, Single, Batched
<1>2. at \in Nat /\ at > at - 1
  BY <1>1, LookedIs
<1>3. mark[at].hooks = 0
  BY <1>1, <1>2 DEF HooksInv, Walking
<1>4. at \notin Ran
  BY <1>3 DEF HooksInv
<1>5. mark'[at].hooks = 1 /\ \A i \in Calls : mark'[i].hooks \in {0, 1} /\ (i # at => mark'[i].hooks = mark[i].hooks)
  BY <1>3, AskedIs DEF HooksInv
<1>. QED  BY <1>1, <1>2, <1>4, <1>5

\* And the turn goes on to judge it.
LEMMA AskedMove ==
    ASSUME BoundInv, HooksInv, Hook \/ BatchHook, place' \in {"judge", "batch judge"}, at' = at, replies' = replies, ran' = ran
    PROVE  HooksInv'
<1>1. Walking /\ Looked' = at /\ reply' = reply /\ Calls' = Calls /\ Ran' = Ran
  BY AskedIs DEF Hook, BatchHook, Walking, Looked, Single, Batched, Ran, Calls
<1>2. /\ Looked = at - 1 /\ at \in Nat /\ mark'[at].hooks = 1 /\ at \notin Ran
      /\ \A i \in Calls : mark'[i].hooks \in {0, 1} /\ (i # at => mark'[i].hooks = mark[i].hooks)
  BY AskedOnce
<1>3. /\ \A i \in Calls : i > at - 1 => mark[i].hooks = 0
      /\ \A i \in Calls : Len(replies) < i /\ i <= at - 1 => mark[i].hooks = 1
      /\ \A i \in Ran : mark[i].hooks = 1 /\ i \in Calls
  BY <1>1, <1>2 DEF HooksInv, Walking, Ran
<1>4. \A i \in Calls : (i > at => i > at - 1 /\ i # at) /\ (i <= at => i = at \/ i <= at - 1)
  BY <1>1, LookedIs
<1>5. \A i \in Ran' : mark'[i].hooks = 1
  BY <1>1, <1>2, <1>3
<1>6. \A i \in Calls : /\ i > at => mark'[i].hooks = 0
                       /\ Len(replies) < i /\ i <= at => mark'[i].hooks = 1
  BY <1>2, <1>3, <1>4
<1>. QED  BY <1>1, <1>2, <1>5, <1>6 DEF HooksInv

LEMMA HookHooks == ASSUME BoundInv, HooksInv, Hook PROVE HooksInv'
<1>1. place = "hook" /\ reply' = reply /\ ran' = ran
  BY DEF Hook
<1>2. CASE Goto("judge", at) /\ replies' = replies
  BY <1>1, <1>2, AskedMove DEF Goto
<1>3. CASE Close(at) /\ (Goto("over", at) \/ Onward(at))
  BY <1>1, <1>3, AskedOnce, SerialEndHooks DEF Close, Single
<1>. QED  BY <1>2, <1>3 DEF Hook

\* A call judged by itself starts, waits for its card or ends.
LEMMA JudgedHooks ==
    ASSUME BoundInv, HooksInv, place \in {"judge", "card"}, reply' = reply, mark' = mark,
           \/ Goto("card", at) /\ replies' = replies /\ ran' = ran
           \/ Goto("run", at) /\ replies' = replies /\ \E c \in BOOLEAN : Runs(at, c)
           \/ replies' = Append(replies, at) /\ (Goto("over", at) \/ Onward(at)) /\ ran' = ran
    PROVE  HooksInv'
<1>1. Walking /\ at \in Calls /\ Looked = at
  BY SerialAt DEF Walking, Single, Looked
<1>2. mark[at].hooks = 1
  <2>1. at = Len(replies) + 1 /\ at \in Nat /\ Len(replies) \in Nat
    BY <1>1, LookedIs, SerialFacts DEF Single
  <2>2. Len(replies) < at /\ at <= at
    BY <2>1
  <2>. QED  BY <1>1, <2>2 DEF HooksInv, Walking
<1>3. CASE place' \in {"card", "run"} /\ at' = at /\ replies' = replies /\ (ran' = ran \/ \E c \in BOOLEAN : Runs(at, c))
  <2>1. \A i \in Ran' : i \in Calls /\ (i \in Ran \/ i = at)
    <3>1. DOMAIN ran = Calls /\ Calls' = Calls
      BY DEF BoundInv, TypeOK, Calls
    <3>2. \A i \in Calls \ {at} : ran'[i] = ran[i]
      BY <1>3, <3>1 DEF Runs
    <3>. QED  BY <3>1, <3>2 DEF Ran
  <2>2. Looked' = Looked
    BY <1>1, <1>3 DEF Looked
  <2>. QED  BY <1>1, <1>2, <1>3, <2>1, <2>2, HooksMove
<1>4. CASE replies' = Append(replies, at) /\ (Goto("over", at) \/ Onward(at)) /\ ran' = ran
  <2>1. \A i \in Calls : mark'[i].hooks \in {0, 1}
    BY DEF HooksInv
  <2>. QED  BY <1>4, <2>1, SerialEndHooks DEF Single, Ran
<1>. QED  BY <1>3, <1>4 DEF Goto

LEMMA JudgeHooks == ASSUME BoundInv, HooksInv, Judge PROVE HooksInv'
<1>1. place = "judge" /\ reply' = reply /\ mark' = mark
  BY DEF Judge
<1>2. \/ Goto("card", at) /\ replies' = replies /\ ran' = ran
      \/ Goto("run", at) /\ replies' = replies /\ \E c \in BOOLEAN : Runs(at, c)
      \/ replies' = Append(replies, at) /\ (Goto("over", at) \/ Onward(at)) /\ ran' = ran
  BY DEF Judge, Close
<1>. QED  BY <1>1, <1>2, JudgedHooks

LEMMA SettleHooks == ASSUME BoundInv, HooksInv, Settle PROVE HooksInv'
<1>1. place = "card" /\ reply' = reply /\ mark' = mark
  BY DEF Settle
<1>2. \/ Goto("run", at) /\ replies' = replies /\ \E c \in BOOLEAN : Runs(at, c)
      \/ replies' = Append(replies, at) /\ (Goto("over", at) \/ Onward(at)) /\ ran' = ran
  BY DEF Settle
<1>. QED  BY <1>1, <1>2, JudgedHooks

LEMMA RunHooks == ASSUME BoundInv, HooksInv, Run PROVE HooksInv'
<1>1. place = "run" /\ reply' = reply /\ ran' = ran /\ replies' = Append(replies, at) /\ Onward(at)
  BY DEF Run, Close
<1>2. \A i \in Calls : mark'[i].hooks = mark[i].hooks
  BY StepKeeps DEF Keeps
<1>3. \A i \in Calls : mark'[i].hooks \in {0, 1}
  BY <1>2 DEF HooksInv
<1>. QED  BY <1>1, <1>2, <1>3, SerialEndHooks DEF Single, Ran

LEMMA BatchHookHooks == ASSUME BoundInv, HooksInv, BatchHook PROVE HooksInv'
<1>1. place \in Batched /\ Walking /\ reply' = reply /\ ran' = ran
  BY DEF BatchHook, Walking, Batched
<1>2. /\ Looked = at - 1 /\ at \in Nat /\ at \notin Ran
      /\ \A i \in Calls : mark'[i].hooks \in {0, 1} /\ (i # at => mark'[i].hooks = mark[i].hooks)
  BY AskedOnce
<1>3. ASSUME NEW u \in Nat, u = at \/ u = last, Refuse(u), Goto("over", at) \/ Onward(u) PROVE HooksInv'
  <2>1. ClosedTo(u)
    BY <1>3, RefuseIs
  <2>2. at <= last /\ last \in Nat
    BY <1>1, BatchFacts, Counts DEF Numbers
  <2>3. at <= u /\ at - 1 <= u /\ \A i \in Calls : i > u => i # at
    <3>1. at <= u
      BY <1>2, <1>3, <2>2
    <3>2. \A i \in Calls : i \in Nat
      BY <1>1, LookedIs
    <3>. QED  BY <1>2, <3>1, <3>2
  <2>4. Len(replies') = u
    BY <2>1 DEF ClosedTo
  <2>5. \A i \in Ran : mark'[i].hooks = mark[i].hooks
    BY <1>2 DEF Ran
  <2>. QED  BY <1>1, <1>2, <1>3, <2>3, <2>4, <2>5, HooksEnd
<1>4. CASE Goto("batch judge", at) /\ replies' = replies
  BY <1>1, <1>4, AskedMove DEF Goto
<1>5. at \in Nat /\ last \in Nat
  BY Counts DEF Numbers
<1>. QED  BY <1>3, <1>4, <1>5 DEF BatchHook

LEMMA BatchJudgeHooks == ASSUME BoundInv, HooksInv, BatchJudge PROVE HooksInv'
<1>1. place = "batch judge" /\ Walking /\ ran' = ran /\ replies' = replies /\ Looked = at
  BY DEF BatchJudge, Walking, Batched, Looked
<1>2. reply' = reply /\ \A i \in Calls : mark'[i].hooks = mark[i].hooks
  BY StepKeeps DEF Keeps
<1>3. \A i \in Ran' : i \in Calls /\ i \in Ran
  BY <1>1, <1>2 DEF Ran, Calls
<1>4. Looked' = Looked
  <2>1. CASE Goto("batch hook", at + 1)
    <3>1. Looked' = (at + 1) - 1
      BY <2>1 DEF Looked, Goto
    <3>2. (at + 1) - 1 = at
      BY <1>1, LookedIs
    <3>. QED  BY <1>1, <3>1, <3>2
  <2>2. CASE Goto("batch", at)
    BY <1>1, <2>2 DEF Looked, Goto
  <2>. QED  BY <2>1, <2>2 DEF BatchJudge
<1>. QED  BY <1>1, <1>2, <1>3, <1>4, HooksMove

LEMMA BatchStartHooks == ASSUME BoundInv, HooksInv, BatchStart PROVE HooksInv'
<1>1. PICK i \in First(Waiting) : ran' = ran \/ Runs(i, FALSE)
  BY DEF BatchStart
<1>2. InBatch /\ Walking /\ replies' = replies /\ Looked' = Looked /\ Looked = at /\ i \in Group
  BY <1>1 DEF BatchStart, InBatch, Walking, Batched, Looked, First, Waiting
<1>3. reply' = reply /\ \A j \in Calls : mark'[j].hooks = mark[j].hooks
  BY StepKeeps DEF Keeps
<1>4. i \in Calls /\ mark[i].hooks = 1
  <2>1. i \in Calls /\ Len(replies) < i /\ i <= at
    BY <1>2, InBatchFacts
  <2>. QED  BY <1>2, <2>1 DEF HooksInv, Walking
<1>5. \A j \in Ran' : j \in Calls /\ (j \in Ran \/ j = i)
  <2>1. DOMAIN ran = Calls /\ Calls' = Calls
    BY <1>3 DEF BoundInv, TypeOK, Calls
  <2>2. \A j \in Calls \ {i} : ran'[j] = ran[j]
    BY <1>1, <2>1 DEF Runs
  <2>. QED  BY <2>1, <2>2 DEF Ran
<1>. QED  BY <1>2, <1>3, <1>4, <1>5, HooksMove

LEMMA BatchEndHooks == ASSUME BoundInv, HooksInv, BatchEnd PROVE HooksInv'
<1>1. Walking /\ replies' = replies /\ ran' = ran /\ Looked' = Looked
  BY DEF BatchEnd, Walking, Batched, Looked
<1>2. reply' = reply /\ \A j \in Calls : mark'[j].hooks = mark[j].hooks
  BY StepKeeps DEF Keeps
<1>3. \A j \in Ran' : j \in Calls /\ j \in Ran
  BY <1>1, <1>2 DEF Ran, Calls
<1>. QED  BY <1>1, <1>2, <1>3, HooksMove

LEMMA BatchCloseHooks == ASSUME BoundInv, HooksInv, BatchClose PROVE HooksInv'
<1>1. PICK i \in First(Group) : Close(i) /\ IF Group = {i} THEN Onward(last) ELSE UNCHANGED <<place, at>>
  BY DEF BatchClose
<1>2. InBatch /\ Walking /\ ran' = ran /\ Looked = at
  BY DEF BatchClose, InBatch, Walking, Batched, Looked
<1>3. reply' = reply /\ \A j \in Calls : mark'[j].hooks = mark[j].hooks
  BY StepKeeps DEF Keeps
<1>4. i = Len(replies) + 1 /\ i \in Group
  BY <1>2, GroupIs DEF InBatch, Batched
<1>5. replies \in Seq(Nat) /\ replies' = Append(replies, i)
  BY <1>1 DEF Close, BoundInv, AnswerInv
<1>6. Len(replies') = i /\ i \in Nat /\ Len(replies) \in Nat
  <2>1. Len(replies) \in Nat
    BY <1>2, LookedIs
  <2>. QED  BY <1>4, <1>5, <2>1
<1>7. CASE Group = {i} /\ Onward(last)
  <2>1. at = last /\ last \in Nat /\ last \in Group
    <3>1. at = last /\ last \in Calls /\ Len(replies) < last /\ Group = {j \in Calls : Len(replies) < j /\ j <= last}
      BY <1>2, InBatchFacts
    <3>2. last \in Nat /\ last <= last
      BY Counts DEF Numbers
    <3>. QED  BY <3>1, <3>2
  <2>2. last = i /\ Looked <= last
    <3>1. last <= last
      BY <2>1
    <3>. QED  BY <1>2, <1>7, <2>1, <3>1
  <2>3. \A j \in Calls : mark'[j].hooks \in {0, 1}
    BY <1>3 DEF HooksInv
  <2>. QED  BY <1>2, <1>3, <1>6, <1>7, <2>1, <2>2, <2>3, HooksEnd DEF Ran
<1>8. CASE UNCHANGED <<place, at>>
  <2>1. Looked' = Looked
    BY <1>8 DEF Looked
  <2>2. \A j \in Calls : Len(replies') < j => Len(replies) < j
    <3>1. \A j \in Calls : j \in Nat
      BY <1>2, LookedIs
    <3>. QED  BY <1>4, <1>6, <3>1
  <2>3. \A j \in Ran' : j \in Calls /\ j \in Ran
    BY <1>2, <1>3 DEF Ran, Calls
  <2>. QED  BY <1>2, <1>3, <2>1, <2>2, <2>3, HooksMove
<1>. QED  BY <1>1, <1>7, <1>8

\* Steps at which no hook is asked, no call runs and none is answered.
LEMMA QuietHooks ==
    ASSUME BoundInv, HooksInv, UNCHANGED <<reply, ran>>, \A i \in Calls : mark'[i].hooks = mark[i].hooks,
           (UNCHANGED <<place, at, replies>>) \/ place' = "done"
    PROVE  HooksInv'
<1>1. Calls' = Calls /\ Ran' = Ran /\ Ran \subseteq Calls
  BY DEF Calls, Ran
<1>2. CASE UNCHANGED <<place, at, replies>>
  BY <1>1, <1>2 DEF HooksInv, Looked
<1>3. CASE place' = "done"
  BY <1>1, <1>3 DEF HooksInv, Single, Batched
<1>. QED  BY <1>2, <1>3

LEMMA RestHooks ==
    ASSUME BoundInv, HooksInv, Finish \/ Modify \/ Cancel \/ OutsideEdit \/ UNCHANGED vars
    PROVE  HooksInv'
<1>1. UNCHANGED <<reply, ran>> /\ ((UNCHANGED <<place, at, replies>>) \/ place' = "done")
  BY DEF Finish, Modify, Cancel, OutsideEdit, vars, Goto
<1>2. \A i \in Calls : mark'[i].hooks = mark[i].hooks
  BY StepKeeps DEF Keeps
<1>. QED  BY <1>1, <1>2, QuietHooks

LEMMA AnswerHooks == ASSUME BoundInv, HooksInv, Answer PROVE HooksInv'
<1>1. UNCHANGED <<reply, ran, place, at, replies>>
  BY DEF Answer
<1>2. \A i \in Calls : mark'[i].hooks = mark[i].hooks
  <2>1. mark \in [Calls -> Marks]
    BY Types DEF BoundInv, Typing
  <2>. QED  BY <2>1 DEF Answer, Marks
<1>. QED  BY <1>1, <1>2, QuietHooks

LEMMA HooksStep == ASSUME BoundInv, HooksInv, [Next]_vars PROVE HooksInv'
BY ReceiveHooks, EnterHooks, HookHooks, JudgeHooks, SettleHooks, RunHooks, BatchHookHooks, BatchJudgeHooks, BatchStartHooks,
   BatchEndHooks, BatchCloseHooks, RestHooks, AnswerHooks DEF Next, Step

\* At the start nothing is sent, asked or shown.
LEMMA OrderInit == ASSUME Init PROVE OrderInv
<1>1. place = "request" /\ log = <<>> /\ reply = <<>> /\ card = NoCard /\ Calls = {}
  BY DEF Init, Calls
<1>2. LogInv
  BY <1>1 DEF LogInv, Once
<1>3. CardInv /\ HooksInv
  BY <1>1 DEF CardInv, HooksInv, NoCard, Ran
<1>. QED  BY <1>2, <1>3 DEF OrderInv

\* What has been sent, asked and answered of each call is what its state and
\* the turn's place say.
THEOREM OrderInvariant == Spec => [](BoundInv /\ OrderInv)
<1>1. Init => OrderInv
  BY OrderInit
<1>2. BoundInv /\ OrderInv /\ [Next]_vars => OrderInv'
  BY LogStep, CardStep, HooksStep DEF OrderInv
<1>. QED  BY <1>1, <1>2, GateInvariant, PTL DEF Spec

\* Calls are answered in the order the model made them, each once; a frontend
\* sees each start before it ends and every card settle; each call's hooks
\* judged it once, before it ran; and what ran by card was told yes.
THEOREM AnswersInOrder == Spec => []AnsweredInOrder
<1>1. BoundInv /\ OrderInv => AnsweredInOrder
  BY OrderTells
<1>. QED  BY <1>1, OrderInvariant, PTL
=================================================================================
