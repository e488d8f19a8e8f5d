--------------------------- MODULE TurnFrontendProofs ---------------------------
(***************************************************************************)
(* What holds of the terminal app for any sessions and any texts typed: it *)
(* shows what is so, and no text is lost or goes to the core twice.        *)
(***************************************************************************)
EXTENDS TurnFrontend, SequenceTheorems, WellFoundedInduction, TLAPS

\* The sessions with a turn, and those with a work or a letter unread.
Turns == {s \in Sessions : working[s] # None /\ working[s].kind = "turn"}
Busy == {s \in Sessions : working[s] # None \/ \E i \in DOMAIN mail : mail[i].s = s}

Kinds == {"accepted", "blocked", "done", "compacted", "error"}
OfSteer == {"accepted", "blocked"}
Whys == Reasons \cup {""}
Letters == [s : Sessions, kind : Kinds, x : Texts \cup {None}, of : Texts \cup {None}, why : Whys]

CoreTyped ==
    /\ working \in [Sessions -> Jobs \cup {None}] /\ pending \in [Sessions -> Seq(Texts)]
    /\ \A s \in Turns : working[s].prompt \in Texts
    /\ \A s \in Sessions : pending[s] # <<>> => s \in Turns
    /\ mail \in Seq(Letters)
    /\ \A i \in DOMAIN mail :
          /\ mail[i].kind \in OfSteer => mail[i].x \in Texts
          /\ mail[i].kind = "done" <=> mail[i].why \in Reasons
          /\ mail[i].kind = "done" => mail[i].of \in Texts

\* Nothing flushes between two events; no event or work is of a session not made.
AppTyped ==
    /\ app \in App /\ ~app.flush /\ made \subseteq Sessions /\ deleted \subseteq made /\ typed \in 0..MaxTyped
    /\ app.shown \in made \cup {None} /\ app.left \subseteq made \ {app.shown} /\ Busy \subseteq made

\* While a turn is shown as running it does, or its receipt is unread;
TurnShown ==
    app.running /\ ~app.compacting =>
        /\ app.shown # None
        /\ app.shown \in Turns \/ \E i \in DOMAIN mail : mail[i].s = app.shown /\ mail[i].kind = "done"

\* while a compaction is, all there is to read is of that compaction, and its
\* success is the last of it.
CompactShown ==
    app.compacting =>
        /\ app.running /\ app.shown \in Busy \ Turns
        /\ \A i \in DOMAIN mail : mail[i].s = app.shown =>
              /\ mail[i].kind \in {"error", "compacted"}
              /\ mail[i].kind = "compacted" =>
                    working[app.shown] = None /\ \A j \in DOMAIN mail : mail[j].s = app.shown => j <= i

\* An app in sync reads nothing of a session that shows nothing as running;
\* a turn's receipt is the last it reads of one that does, and of that turn.
InSync ==
    insync /\ app.shown # None =>
        /\ ~app.running => app.shown \notin Busy
        /\ app.running /\ ~app.compacting =>
              /\ \A i \in DOMAIN mail : mail[i].s = app.shown =>
                    /\ mail[i].kind \in OfSteer \cup {"done"}
                    /\ mail[i].kind = "done" =>
                          working[app.shown] = None /\ \A j \in DOMAIN mail : mail[j].s = app.shown => j <= i
                    /\ mail[i].why = "blocked" => mail[i].of = app.submit
              /\ working[app.shown] # None => app.shown \in Turns /\ working[app.shown].prompt = app.submit

QueueInv == app.steered <= Len(app.queued) /\ (~app.running \/ app.compacting => app.steered = 0)
LeftInv == app.left \subseteq Busy

ScreenInv == CoreTyped /\ AppTyped /\ TurnShown /\ CompactShown /\ InSync /\ QueueInv /\ LeftInv

-----------------------------------------------------------------------------
(* The calls and the core's steps.                                         *)

\* Who works on what is as it was.
WorkKept ==
    /\ \A t \in Sessions : working'[t] = None <=> working[t] = None
    /\ \A t \in Sessions : working[t] # None =>
          working'[t].kind = working[t].kind /\ working'[t].prompt = working[t].prompt

LEMMA KeptTurns == ASSUME WorkKept PROVE Turns' = Turns
BY DEF Turns, WorkKept

LEMMA BeginIs ==
    ASSUME CoreTyped, NEW s \in Sessions, NEW kind \in {"turn", "compact"}, NEW p \in Texts \cup {None},
           kind = "turn" => p \in Texts, Begin(s, kind, p)
    PROVE  /\ working[s] = None /\ pending[s] = <<>> /\ pending' = pending /\ s \notin Turns
           /\ working' \in [Sessions -> Jobs \cup {None}] /\ working'[s] # None
           /\ working'[s].kind = kind /\ working'[s].prompt = p
           /\ \A t \in Sessions \ {s} : working'[t] = working[t]
           /\ Turns' = IF kind = "turn" THEN Turns \cup {s} ELSE Turns
<1>. DEFINE job == [kind |-> kind, prompt |-> p, stop |-> FALSE, heard |-> FALSE]
<1>1. job \in Jobs /\ job.kind = kind /\ job.prompt = p /\ job # None
  <2>1. job \in Jobs
    BY DEF Jobs
  <2>. QED  BY <2>1, FrontendAssumption
<1>2. working[s] = None /\ working' = [working EXCEPT ![s] = job] /\ pending' = pending
  BY DEF Begin
<1>. HIDE DEF job
<1>3. /\ working' \in [Sessions -> Jobs \cup {None}] /\ working'[s] = job
      /\ \A t \in Sessions \ {s} : working'[t] = working[t]
  BY <1>1, <1>2 DEF CoreTyped
<1>4. s \notin Turns /\ pending[s] = <<>>
  BY <1>2 DEF Turns, CoreTyped
<1>5. Turns' = IF kind = "turn" THEN Turns \cup {s} ELSE Turns
  BY <1>1, <1>2, <1>3 DEF Turns
<1>. QED  BY <1>1, <1>2, <1>3, <1>4, <1>5

\* A function with one value replaced.
LEMMA ReplacedIs ==
    ASSUME NEW S, NEW T, NEW f \in [S -> T], NEW s \in S, NEW x \in T
    PROVE  LET g == [f EXCEPT ![s] = x] IN g \in [S -> T] /\ g[s] = x /\ \A t \in S \ {s} : g[t] = f[t]
OBVIOUS

\* A stop and a report raise a mark of the work, and change nothing else of it.
LEMMA RaisedIs ==
    ASSUME NEW K, NEW P, NEW B, NEW b \in B, NEW w \in [kind : K, prompt : P, stop : B, heard : B]
    PROVE  /\ [w EXCEPT !.stop = b] \in [kind : K, prompt : P, stop : B, heard : B]
           /\ [w EXCEPT !.heard = b] \in [kind : K, prompt : P, stop : B, heard : B]
           /\ [w EXCEPT !.stop = b].kind = w.kind /\ [w EXCEPT !.stop = b].prompt = w.prompt
           /\ [w EXCEPT !.heard = b].kind = w.kind /\ [w EXCEPT !.heard = b].prompt = w.prompt
OBVIOUS

LEMMA MarkedIs ==
    ASSUME NEW w \in Jobs
    PROVE  /\ [w EXCEPT !.stop = TRUE] \in Jobs /\ [w EXCEPT !.heard = TRUE] \in Jobs
           /\ [w EXCEPT !.stop = TRUE].kind = w.kind /\ [w EXCEPT !.stop = TRUE].prompt = w.prompt
           /\ [w EXCEPT !.heard = TRUE].kind = w.kind /\ [w EXCEPT !.heard = TRUE].prompt = w.prompt
<1>. DEFINE K == {"turn", "compact"}
            P == Texts \cup {None}
            B == BOOLEAN
<1>1. Jobs = [kind : K, prompt : P, stop : B, heard : B] /\ TRUE \in B
  BY DEF Jobs
<1>. HIDE DEF K, P, B
<1>. QED  BY <1>1, RaisedIs

LEMMA MarkIs ==
    ASSUME CoreTyped, NEW s \in Sessions, working[s] # None,
           \/ working' = [working EXCEPT ![s].stop = TRUE]
           \/ working' = [working EXCEPT ![s].heard = TRUE]
    PROVE  WorkKept /\ working' \in [Sessions -> Jobs \cup {None}]
<1>1. working \in [Sessions -> Jobs \cup {None}] /\ working[s] \in Jobs
  BY DEF CoreTyped
<1>2. PICK w \in Jobs : working' = [working EXCEPT ![s] = w] /\ w.kind = working[s].kind /\ w.prompt = working[s].prompt
  <2>1. CASE working' = [working EXCEPT ![s].stop = TRUE]
    <3>1. working' = [working EXCEPT ![s] = [working[s] EXCEPT !.stop = TRUE]]
      BY <1>1, <2>1
    <3>. QED  BY <1>1, <3>1, MarkedIs
  <2>2. CASE working' = [working EXCEPT ![s].heard = TRUE]
    <3>1. working' = [working EXCEPT ![s] = [working[s] EXCEPT !.heard = TRUE]]
      BY <1>1, <2>2
    <3>. QED  BY <1>1, <3>1, MarkedIs
  <2>. QED  BY <2>1, <2>2
<1>3. /\ working' \in [Sessions -> Jobs \cup {None}] /\ working'[s] = w
      /\ \A t \in Sessions \ {s} : working'[t] = working[t]
  <2>1. w \in Jobs \cup {None}
    OBVIOUS
  <2>. QED  BY <1>1, <1>2, <2>1, ReplacedIs
<1>4. w # None /\ working[s] # None
  BY FrontendAssumption
<1>. QED  BY <1>2, <1>3, <1>4 DEF WorkKept

LEMMA StopIs ==
    ASSUME CoreTyped, NEW s \in Sessions, Stop(s)
    PROVE  WorkKept /\ working' \in [Sessions -> Jobs \cup {None}] /\ pending' = pending
<1>1. CASE working[s] = None
  BY <1>1 DEF Stop, WorkKept, CoreTyped
<1>2. CASE working[s] # None
  BY <1>2, MarkIs DEF Stop
<1>. QED  BY <1>1, <1>2

\* What is typed of the core's state is typed again.
LEMMA StillTyped ==
    ASSUME CoreTyped, WorkKept, working' \in [Sessions -> Jobs \cup {None}], pending' = pending, mail' = mail
    PROVE  CoreTyped' /\ Busy' = Busy /\ Turns' = Turns
<1>1. Turns' = Turns
  BY KeptTurns
<1>2. \A s \in Turns : working'[s].prompt \in Texts
  BY DEF CoreTyped, Turns, WorkKept
<1>3. Busy' = Busy
  BY DEF Busy, WorkKept
<1>. QED  BY <1>1, <1>2, <1>3 DEF CoreTyped

\* The letters as they were, and those after them.
MailKept == Len(mail) <= Len(mail') /\ \A i \in 1..Len(mail) : mail'[i] = mail[i]

LEMMA LettersAre == ASSUME CoreTyped PROVE mail \in Seq(Letters) /\ Len(mail) \in Nat /\ DOMAIN mail = 1..Len(mail)
<1>1. mail \in Seq(Letters)
  BY DEF CoreTyped
<1>. QED  BY <1>1

\* One more letter.
LEMMA MailPut ==
    ASSUME mail \in Seq(Letters), NEW e \in Letters, mail' = Append(mail, e)
    PROVE  /\ mail' \in Seq(Letters) /\ MailKept /\ Len(mail') = Len(mail) + 1 /\ mail'[Len(mail) + 1] = e
<1>1. /\ mail' \in Seq(Letters) /\ Len(mail') = Len(mail) + 1 /\ mail'[Len(mail) + 1] = e
      /\ \A i \in 1..Len(mail) : mail'[i] = mail[i]
  BY AppendProperties
<1>. QED  BY <1>1 DEF MailKept

\* A sequence without one of its elements.
LEMMA WithoutIs ==
    ASSUME NEW S, NEW q \in Seq(S), NEW i \in 1..Len(q)
    PROVE  /\ Without(q, i) \in Seq(S) /\ Len(Without(q, i)) = Len(q) - 1
           /\ \A k \in 1..(Len(q) - 1) : Without(q, i)[k] = q[IF k < i THEN k ELSE k + 1]
<1>. DEFINE a == SubSeq(q, 1, i - 1)
            b == SubSeq(q, i + 1, Len(q))
<1>1. a \in Seq(S) /\ Len(a) = i - 1 /\ \A k \in 1..(i - 1) : a[k] = q[k]
  OBVIOUS
<1>2. b \in Seq(S) /\ Len(b) = Len(q) - i /\ \A k \in 1..(Len(q) - i) : b[k] = q[i + k]
  OBVIOUS
<1>3. Without(q, i) = a \o b
  BY DEF Without
<1>. HIDE DEF a, b
<1>4. /\ a \o b \in Seq(S) /\ Len(a \o b) = Len(q) - 1
      /\ \A k \in 1..(Len(q) - 1) : (a \o b)[k] = IF k <= i - 1 THEN a[k] ELSE b[k - (i - 1)]
  <2>1. Len(a) + Len(b) = Len(q) - 1
    BY <1>1, <1>2
  <2>2. /\ a \o b \in Seq(S) /\ Len(a \o b) = Len(a) + Len(b)
        /\ \A k \in 1..(Len(a) + Len(b)) : (a \o b)[k] = IF k <= Len(a) THEN a[k] ELSE b[k - Len(a)]
    BY <1>1, <1>2, ConcatProperties
  <2>. QED  BY <1>1, <2>1, <2>2
<1>5. \A k \in 1..(Len(q) - 1) : (a \o b)[k] = q[IF k < i THEN k ELSE k + 1]
  <2>. TAKE k \in 1..(Len(q) - 1)
  <2>1. CASE k < i
    BY <1>1, <1>4, <2>1
  <2>2. CASE ~(k < i)
    BY <1>2, <1>4, <2>2
  <2>. QED  BY <2>1, <2>2
<1>. QED  BY <1>3, <1>4, <1>5

\* What is told of steers goes to the end of the mail.
LEMMA TellIs ==
    ASSUME CoreTyped, NEW s \in Turns, NEW kind \in OfSteer, NEW told \in Seq(Texts), Tell(s, kind, told)
    PROVE  /\ WorkKept /\ working' \in [Sessions -> Jobs \cup {None}]
           /\ mail' \in Seq(Letters) /\ MailKept /\ Len(mail') = Len(mail) + Len(told)
           /\ \A k \in 1..Len(told) : mail'[Len(mail) + k] = Event(s, kind, told[k])
<1>1. s \in Sessions /\ working[s] # None
  BY DEF Turns
<1>2. WorkKept /\ working' \in [Sessions -> Jobs \cup {None}]
  BY <1>1, MarkIs DEF Tell
<1>. DEFINE new == [i \in 1..Len(told) |-> Event(s, kind, told[i])]
<1>3. new \in Seq(Letters) /\ Len(new) = Len(told) /\ DOMAIN told = 1..Len(told)
  <2>1. \A i \in 1..Len(told) : Event(s, kind, told[i]) \in Letters
    BY <1>1 DEF Event, Letters, OfSteer, Kinds, Whys
  <2>2. new \in [1..Len(told) -> Letters] /\ Len(told) \in Nat
    BY <2>1
  <2>. QED  BY <2>2
<1>4. mail' = mail \o new /\ mail \in Seq(Letters)
  BY <1>3 DEF Tell, CoreTyped
<1>. HIDE DEF new
<1>5. /\ mail' \in Seq(Letters) /\ Len(mail') = Len(mail) + Len(told)
      /\ \A i \in 1..Len(mail) : mail'[i] = mail[i]
      /\ \A k \in 1..Len(told) : mail'[Len(mail) + k] = new[k]
  <2>1. Len(mail) \in Nat /\ Len(new) \in Nat /\ Len(told) \in Nat
    BY <1>3, <1>4
  <2>2. /\ mail' \in Seq(Letters) /\ Len(mail') = Len(mail) + Len(new)
        /\ \A i \in 1..(Len(mail) + Len(new)) : mail'[i] = IF i <= Len(mail) THEN mail[i] ELSE new[i - Len(mail)]
    BY <1>3, <1>4, ConcatProperties
  <2>. QED  BY <1>3, <2>1, <2>2
<1>6. \A k \in 1..Len(told) : new[k] = Event(s, kind, told[k])
  BY DEF new
<1>7. Len(mail) \in Nat /\ Len(told) \in Nat
  BY <1>4
<1>. QED  BY <1>2, <1>3, <1>5, <1>6, <1>7 DEF MailKept

LEMMA AcceptIs ==
    ASSUME CoreTyped, NEW s \in Sessions, Accept(s)
    PROVE  /\ s \in Turns /\ WorkKept /\ working' \in [Sessions -> Jobs \cup {None}]
           /\ mail' \in Seq(Letters) /\ MailKept /\ pending' \in [Sessions -> Seq(Texts)]
           /\ \A t \in Sessions \ {s} : pending'[t] = pending[t]
           /\ \E n \in 1..Len(pending[s]) :
                 /\ Len(mail') = Len(mail) + n /\ Len(pending'[s]) = Len(pending[s]) - n
                 /\ \A k \in 1..n : mail'[Len(mail) + k] = Event(s, "accepted", pending[s][k])
                 /\ \A k \in 1..(Len(pending[s]) - n) : pending'[s][k] = pending[s][k + n]
<1>1. s \in Turns /\ pending[s] \in Seq(Texts)
  BY DEF Accept, TakesSteers, Turns, CoreTyped
<1>2. PICK n \in 1..Len(pending[s]) :
          /\ Tell(s, "accepted", SubSeq(pending[s], 1, n))
          /\ pending' = [pending EXCEPT ![s] = SubSeq(pending[s], n + 1, Len(pending[s]))]
  BY DEF Accept
<1>. DEFINE told == SubSeq(pending[s], 1, n)
            rest == SubSeq(pending[s], n + 1, Len(pending[s]))
<1>3. told \in Seq(Texts) /\ Len(told) = n /\ \A k \in 1..n : told[k] = pending[s][k]
  BY <1>1
<1>4. /\ rest \in Seq(Texts) /\ Len(rest) = Len(pending[s]) - n
      /\ \A k \in 1..(Len(pending[s]) - n) : rest[k] = pending[s][k + n]
  BY <1>1
<1>5. Tell(s, "accepted", told) /\ pending' = [pending EXCEPT ![s] = rest]
  BY <1>2
<1>. HIDE DEF told, rest
<1>6. /\ pending' \in [Sessions -> Seq(Texts)] /\ pending'[s] = rest
      /\ \A t \in Sessions \ {s} : pending'[t] = pending[t]
  BY <1>4, <1>5 DEF CoreTyped
<1>7. /\ WorkKept /\ working' \in [Sessions -> Jobs \cup {None}]
      /\ mail' \in Seq(Letters) /\ MailKept /\ Len(mail') = Len(mail) + n
      /\ \A k \in 1..n : mail'[Len(mail) + k] = Event(s, "accepted", told[k])
  BY <1>1, <1>3, <1>5, TellIs DEF OfSteer
<1>8. /\ Len(mail') = Len(mail) + n /\ Len(pending'[s]) = Len(pending[s]) - n
      /\ \A k \in 1..n : mail'[Len(mail) + k] = Event(s, "accepted", pending[s][k])
      /\ \A k \in 1..(Len(pending[s]) - n) : pending'[s][k] = pending[s][k + n]
  BY <1>3, <1>4, <1>6, <1>7
<1>. QED  BY <1>1, <1>6, <1>7, <1>8

LEMMA RefuseIs ==
    ASSUME CoreTyped, NEW s \in Sessions, Refuse(s)
    PROVE  /\ s \in Turns /\ WorkKept /\ working' \in [Sessions -> Jobs \cup {None}]
           /\ mail' \in Seq(Letters) /\ MailKept /\ pending' \in [Sessions -> Seq(Texts)]
           /\ \A t \in Sessions \ {s} : pending'[t] = pending[t]
           /\ \E i \in 1..Len(pending[s]) :
                 /\ Len(mail') = Len(mail) + 1 /\ Len(pending'[s]) = Len(pending[s]) - 1
                 /\ mail'[Len(mail) + 1] = Event(s, "blocked", pending[s][i])
                 /\ \A k \in 1..(Len(pending[s]) - 1) :
                       pending'[s][k] = pending[s][IF k < i THEN k ELSE k + 1]
<1>1. s \in Turns /\ pending[s] \in Seq(Texts)
  BY DEF Refuse, TakesSteers, Turns, CoreTyped
<1>2. PICK i \in 1..Len(pending[s]) :
          /\ Tell(s, "blocked", <<pending[s][i]>>)
          /\ pending' = [pending EXCEPT ![s] = Without(pending[s], i)]
  <2>1. DOMAIN pending[s] = 1..Len(pending[s])
    BY <1>1
  <2>. QED  BY <2>1 DEF Refuse
<1>. DEFINE told == <<pending[s][i]>>
            rest == Without(pending[s], i)
<1>3. told \in Seq(Texts) /\ Len(told) = 1 /\ told[1] = pending[s][i]
  BY <1>1
<1>4. /\ rest \in Seq(Texts) /\ Len(rest) = Len(pending[s]) - 1
      /\ \A k \in 1..(Len(pending[s]) - 1) : rest[k] = pending[s][IF k < i THEN k ELSE k + 1]
  BY <1>1, WithoutIs
<1>5. Tell(s, "blocked", told) /\ pending' = [pending EXCEPT ![s] = rest]
  BY <1>2
<1>. HIDE DEF told, rest
<1>6. /\ pending' \in [Sessions -> Seq(Texts)] /\ pending'[s] = rest
      /\ \A t \in Sessions \ {s} : pending'[t] = pending[t]
  BY <1>4, <1>5 DEF CoreTyped
<1>7. /\ WorkKept /\ working' \in [Sessions -> Jobs \cup {None}]
      /\ mail' \in Seq(Letters) /\ MailKept /\ Len(mail') = Len(mail) + 1
      /\ \A k \in 1..1 : mail'[Len(mail) + k] = Event(s, "blocked", told[k])
  BY <1>1, <1>3, <1>5, TellIs DEF OfSteer
<1>8. mail'[Len(mail) + 1] = Event(s, "blocked", pending[s][i])
  BY <1>3, <1>7
<1>9. /\ Len(pending'[s]) = Len(pending[s]) - 1
      /\ \A k \in 1..(Len(pending[s]) - 1) : pending'[s][k] = pending[s][IF k < i THEN k ELSE k + 1]
  BY <1>4, <1>6
<1>. QED  BY <1>1, <1>6, <1>7, <1>8, <1>9

LEMMA ForgetIs ==
    ASSUME CoreTyped, NEW s \in Sessions, Forget(s)
    PROVE  /\ s \in Turns /\ working' = working /\ mail' = mail /\ pending' \in [Sessions -> Seq(Texts)]
           /\ \A t \in Sessions \ {s} : pending'[t] = pending[t]
           /\ \E n \in 1..Len(pending[s]) :
                 /\ Len(pending'[s]) = Len(pending[s]) - n
                 /\ \A k \in 1..(Len(pending[s]) - n) : pending'[s][k] = pending[s][k + n]
<1>1. s \in Turns /\ pending[s] \in Seq(Texts)
  BY DEF Forget, TakesSteers, Turns, CoreTyped
<1>2. PICK n \in 1..Len(pending[s]) : pending' = [pending EXCEPT ![s] = SubSeq(pending[s], n + 1, Len(pending[s]))]
  BY DEF Forget
<1>. DEFINE rest == SubSeq(pending[s], n + 1, Len(pending[s]))
<1>3. /\ rest \in Seq(Texts) /\ Len(rest) = Len(pending[s]) - n
      /\ \A k \in 1..(Len(pending[s]) - n) : rest[k] = pending[s][k + n]
  BY <1>1
<1>4. pending' = [pending EXCEPT ![s] = rest]
  BY <1>2
<1>. HIDE DEF rest
<1>5. /\ pending' \in [Sessions -> Seq(Texts)] /\ pending'[s] = rest
      /\ \A t \in Sessions \ {s} : pending'[t] = pending[t]
  BY <1>3, <1>4 DEF CoreTyped
<1>. QED  BY <1>1, <1>3, <1>5 DEF Forget

LEMMA FailIs ==
    ASSUME CoreTyped, NEW s \in Sessions, Fail(s)
    PROVE  /\ working[s] # None /\ working' = working /\ pending' = pending
           /\ mail' \in Seq(Letters) /\ MailKept /\ Len(mail') = Len(mail) + 1
           /\ mail'[Len(mail) + 1] = Event(s, "error", None)
<1>1. Event(s, "error", None) \in Letters /\ mail \in Seq(Letters)
  BY DEF Event, Letters, Kinds, Whys, CoreTyped
<1>. DEFINE e == Event(s, "error", None)
<1>2. e \in Letters /\ mail' = Append(mail, e)
  BY <1>1 DEF Fail
<1>. HIDE DEF e
<1>3. mail' \in Seq(Letters) /\ MailKept /\ Len(mail') = Len(mail) + 1 /\ mail'[Len(mail) + 1] = e
  BY <1>1, <1>2, MailPut
<1>. QED  BY <1>3 DEF Fail, e

\* The receipt of a turn is of its prompt.
LEMMA SettleIs ==
    ASSUME CoreTyped, NEW s \in Sessions, Settle(s)
    PROVE  /\ working[s] # None /\ working' \in [Sessions -> Jobs \cup {None}] /\ working'[s] = None
           /\ \A t \in Sessions \ {s} : working'[t] = working[t] /\ pending'[t] = pending[t]
           /\ pending' \in [Sessions -> Seq(Texts)] /\ pending'[s] = <<>>
           /\ Turns' = Turns \ {s} /\ mail' \in Seq(Letters) /\ MailKept /\ Len(mail') = Len(mail) + 1
           /\ mail'[Len(mail) + 1].s = s
           /\ s \in Turns => /\ mail'[Len(mail) + 1].kind = "done" /\ mail'[Len(mail) + 1].why \in Reasons
                             /\ mail'[Len(mail) + 1].of = working[s].prompt /\ working[s].prompt \in Texts
           /\ s \notin Turns => /\ mail'[Len(mail) + 1].kind \in {"compacted", "error"}
                                /\ mail'[Len(mail) + 1].why \notin Reasons
<1>1. PICK e \in Receipts(s) : mail' = Append(mail, e)
  BY DEF Settle
<1>2. working[s] # None /\ working[s] \in Jobs /\ mail \in Seq(Letters)
  BY DEF Settle, CoreTyped
<1>3. /\ e \in Letters /\ e.s = s
      /\ s \in Turns => e.kind = "done" /\ e.why \in Reasons /\ e.of = working[s].prompt /\ working[s].prompt \in Texts
      /\ s \notin Turns => e.kind \in {"compacted", "error"} /\ e.why \notin Reasons
  <2>1. CASE s \in Turns
    <3>1. working[s].kind = "turn" /\ working[s].prompt \in Texts
      BY <2>1 DEF Turns, CoreTyped
    <3>2. PICK r \in Reasons : e = [s |-> s, kind |-> "done", x |-> None, of |-> working[s].prompt, why |-> r]
      BY <1>1, <3>1 DEF Receipts
    <3>. QED  BY <2>1, <3>1, <3>2 DEF Letters, Kinds, Whys
  <2>2. CASE s \notin Turns
    <3>1. PICK kind \in {"compacted", "error"} : e = Event(s, kind, None)
      BY <1>1, <1>2, <2>2 DEF Receipts, Turns
    <3>. QED  BY <2>2, <3>1 DEF Letters, Kinds, Whys, Reasons, Event
  <2>. QED  BY <2>1, <2>2
<1>4. mail' \in Seq(Letters) /\ MailKept /\ Len(mail') = Len(mail) + 1 /\ mail'[Len(mail) + 1] = e
  <2>1. mail \in Seq(Letters) /\ e \in Letters
    BY <1>2, <1>3
  <2>. QED  BY <1>1, <2>1, MailPut
<1>5. /\ working' \in [Sessions -> Jobs \cup {None}] /\ working'[s] = None
      /\ \A t \in Sessions \ {s} : working'[t] = working[t]
  BY DEF Settle, CoreTyped
<1>6. /\ pending' \in [Sessions -> Seq(Texts)] /\ pending'[s] = <<>>
      /\ \A t \in Sessions \ {s} : pending'[t] = pending[t]
  <2>1. pending' = [pending EXCEPT ![s] = <<>>] /\ <<>> \in Seq(Texts)
    BY DEF Settle
  <2>. QED  BY <2>1 DEF CoreTyped
<1>7. Turns' = Turns \ {s}
  BY <1>5 DEF Turns
<1>. QED  BY <1>2, <1>3, <1>4, <1>5, <1>6, <1>7

LEMMA SteerIs ==
    ASSUME CoreTyped, NEW s \in Sessions, NEW x \in Texts, Steer(s, x)
    PROVE  /\ s \in Turns /\ working' = working /\ pending' \in [Sessions -> Seq(Texts)]
           /\ \A t \in Sessions \ {s} : pending'[t] = pending[t]
           /\ Len(pending'[s]) = Len(pending[s]) + 1 /\ pending'[s][Len(pending[s]) + 1] = x
           /\ \A k \in 1..Len(pending[s]) : pending'[s][k] = pending[s][k]
<1>1. s \in Turns /\ pending[s] \in Seq(Texts) /\ pending' = [pending EXCEPT ![s] = Append(pending[s], x)]
  BY DEF Steer, TakesSteers, Turns, CoreTyped
<1>2. pending'[s] = Append(pending[s], x)
  BY <1>1 DEF CoreTyped
<1>3. /\ Append(pending[s], x) \in Seq(Texts) /\ Len(Append(pending[s], x)) = Len(pending[s]) + 1
      /\ \A k \in 1..Len(pending[s]) : Append(pending[s], x)[k] = pending[s][k]
      /\ Append(pending[s], x)[Len(pending[s]) + 1] = x
  BY <1>1, AppendProperties
<1>4. pending' \in [Sessions -> Seq(Texts)] /\ \A t \in Sessions \ {s} : pending'[t] = pending[t]
  BY <1>1, <1>3 DEF CoreTyped
<1>. QED  BY <1>1, <1>2, <1>3, <1>4 DEF Steer

LEMMA EventIs ==
    ASSUME NEW e, NEW s, NEW kind, NEW x, e = Event(s, kind, x)
    PROVE  e.s = s /\ e.kind = kind /\ e.x = x /\ e.of = None /\ e.why \notin Reasons
BY DEF Event, Reasons

LEMMA GrownTyped ==
    ASSUME CoreTyped, mail' \in Seq(Letters), MailKept,
           working' \in [Sessions -> Jobs \cup {None}], pending' \in [Sessions -> Seq(Texts)],
           \A s \in Turns' : working'[s].prompt \in Texts,
           \A s \in Sessions : pending'[s] # <<>> => s \in Turns',
           \A i \in (Len(mail) + 1)..Len(mail') :
              /\ mail'[i].kind \in OfSteer => mail'[i].x \in Texts
              /\ mail'[i].kind = "done" <=> mail'[i].why \in Reasons
              /\ mail'[i].kind = "done" => mail'[i].of \in Texts
    PROVE  CoreTyped'
<1>1. /\ DOMAIN mail = 1..Len(mail) /\ Len(mail) \in Nat
      /\ DOMAIN mail' = 1..Len(mail') /\ Len(mail') \in Nat
  <2>1. mail' \in Seq(Letters)
    OBVIOUS
  <2>2. DOMAIN mail' = 1..Len(mail') /\ Len(mail') \in Nat
    BY <2>1, LenProperties
  <2>. QED  BY <2>2, LettersAre
<1>2. \A i \in 1..Len(mail) :
          /\ mail[i].kind \in OfSteer => mail[i].x \in Texts
          /\ mail[i].kind = "done" <=> mail[i].why \in Reasons
          /\ mail[i].kind = "done" => mail[i].of \in Texts
  BY <1>1 DEF CoreTyped
<1>3. \A i \in DOMAIN mail' :
          /\ mail'[i].kind \in OfSteer => mail'[i].x \in Texts
          /\ mail'[i].kind = "done" <=> mail'[i].why \in Reasons
          /\ mail'[i].kind = "done" => mail'[i].of \in Texts
  <2>. SUFFICES ASSUME NEW i \in 1..Len(mail')
                PROVE  /\ mail'[i].kind \in OfSteer => mail'[i].x \in Texts
                       /\ mail'[i].kind = "done" <=> mail'[i].why \in Reasons
                       /\ mail'[i].kind = "done" => mail'[i].of \in Texts
    BY <1>1
  <2>1. CASE i <= Len(mail)
    <3>1. i \in 1..Len(mail)
      BY <1>1, <2>1
    <3>2. mail'[i] = mail[i]
      BY <3>1 DEF MailKept
    <3>. QED  BY <1>2, <3>1, <3>2
  <2>2. CASE ~(i <= Len(mail))
    <3>1. i \in (Len(mail) + 1)..Len(mail')
      BY <1>1, <2>2
    <3>. QED  BY <3>1
  <2>. QED  BY <2>1, <2>2
<1>. QED  BY <1>3 DEF CoreTyped

\* The letters a step of the core's writes are of its session; and either a
\* turn tells of steers, or a compaction of an error, or the work settles.
Written(s) == \A i \in (Len(mail) + 1)..Len(mail') : mail'[i].s = s
Tells(s) ==
    /\ s \in Turns /\ WorkKept /\ Turns' = Turns
    /\ \A i \in (Len(mail) + 1)..Len(mail') : mail'[i].kind \in OfSteer /\ mail'[i].why \notin Reasons
Fails(s) ==
    /\ s \notin Turns /\ working[s] # None /\ working' = working /\ Turns' = Turns
    /\ \A i \in (Len(mail) + 1)..Len(mail') : mail'[i].kind = "error"
Settled(s) ==
    /\ working[s] # None /\ working'[s] = None /\ Turns' = Turns \ {s} /\ Len(mail') = Len(mail) + 1
    /\ mail'[Len(mail) + 1].s = s
    /\ s \in Turns => mail'[Len(mail) + 1].kind = "done" /\ mail'[Len(mail) + 1].of = working[s].prompt
    /\ s \notin Turns => mail'[Len(mail) + 1].kind \in {"compacted", "error"}
    /\ \A t \in Sessions \ {s} : working'[t] = working[t]

LEMMA CoreSteps ==
    ASSUME CoreTyped, NEW s \in Sessions, CoreWorks(s)
    PROVE  CoreTyped' /\ MailKept /\ Written(s) /\ (Tells(s) \/ Fails(s) \/ Settled(s))
<1>0. Len(mail) \in Nat /\ mail \in Seq(Letters)
  BY LettersAre
<1>1. CASE Accept(s)
  <2>1. /\ s \in Turns /\ WorkKept /\ working' \in [Sessions -> Jobs \cup {None}]
        /\ mail' \in Seq(Letters) /\ MailKept /\ pending' \in [Sessions -> Seq(Texts)]
        /\ \A t \in Sessions \ {s} : pending'[t] = pending[t]
    BY <1>1, AcceptIs
  <2>2. PICK n \in 1..Len(pending[s]) :
            /\ Len(mail') = Len(mail) + n
            /\ \A k \in 1..n : mail'[Len(mail) + k] = Event(s, "accepted", pending[s][k])
    BY <1>1, AcceptIs
  <2>3. pending[s] \in Seq(Texts)
    BY DEF CoreTyped
  <2>4. \A i \in (Len(mail) + 1)..Len(mail') :
            /\ mail'[i].s = s /\ mail'[i].kind = "accepted" /\ mail'[i].why \notin Reasons /\ mail'[i].x \in Texts
    <3>. TAKE i \in (Len(mail) + 1)..Len(mail')
    <3>1. i - Len(mail) \in 1..n /\ i = Len(mail) + (i - Len(mail))
      BY <1>0, <2>2
    <3>. DEFINE k == i - Len(mail)
    <3>2. k \in 1..n /\ i = Len(mail) + k
      BY <3>1
    <3>. HIDE DEF k
    <3>3. pending[s][k] \in Texts
      BY <2>3, <3>2
    <3>4. mail'[i] = Event(s, "accepted", pending[s][k])
      BY <2>2, <3>2
    <3>. QED  BY <3>3, <3>4, EventIs
  <2>5. Turns' = Turns
    BY <2>1, KeptTurns
  <2>6. CoreTyped'
    <3>1. \A t \in Turns' : working'[t].prompt \in Texts
      BY <2>1, <2>5 DEF CoreTyped, WorkKept, Turns
    <3>2. \A t \in Sessions : pending'[t] # <<>> => t \in Turns'
      BY <2>1, <2>5 DEF CoreTyped
    <3>. QED  BY <2>1, <2>4, <3>1, <3>2, GrownTyped
  <2>. QED  BY <2>1, <2>4, <2>5, <2>6 DEF Written, Tells, OfSteer
<1>2. CASE Refuse(s)
  <2>1. /\ s \in Turns /\ WorkKept /\ working' \in [Sessions -> Jobs \cup {None}]
        /\ mail' \in Seq(Letters) /\ MailKept /\ pending' \in [Sessions -> Seq(Texts)]
        /\ \A t \in Sessions \ {s} : pending'[t] = pending[t]
    BY <1>2, RefuseIs
  <2>2. PICK i \in 1..Len(pending[s]) :
            Len(mail') = Len(mail) + 1 /\ mail'[Len(mail) + 1] = Event(s, "blocked", pending[s][i])
    BY <1>2, RefuseIs
  <2>3. pending[s][i] \in Texts
    <3>1. pending[s] \in Seq(Texts)
      BY DEF CoreTyped
    <3>. QED  BY <3>1
  <2>4. \A j \in (Len(mail) + 1)..Len(mail') :
            /\ mail'[j].s = s /\ mail'[j].kind = "blocked" /\ mail'[j].why \notin Reasons /\ mail'[j].x \in Texts
    <3>1. \A j \in (Len(mail) + 1)..Len(mail') : j = Len(mail) + 1
      BY <1>0, <2>2
    <3>2. /\ mail'[Len(mail) + 1].s = s /\ mail'[Len(mail) + 1].kind = "blocked" /\ mail'[Len(mail) + 1].why \notin Reasons
          /\ mail'[Len(mail) + 1].x = pending[s][i]
      BY <2>2, EventIs
    <3>. QED  BY <2>3, <3>1, <3>2
  <2>5. Turns' = Turns
    BY <2>1, KeptTurns
  <2>6. CoreTyped'
    <3>1. \A t \in Turns' : working'[t].prompt \in Texts
      BY <2>1, <2>5 DEF CoreTyped, WorkKept, Turns
    <3>2. \A t \in Sessions : pending'[t] # <<>> => t \in Turns'
      BY <2>1, <2>5 DEF CoreTyped
    <3>. QED  BY <2>1, <2>4, <3>1, <3>2, GrownTyped
  <2>. QED  BY <2>1, <2>4, <2>5, <2>6 DEF Written, Tells, OfSteer
<1>3. CASE Forget(s)
  <2>1. /\ s \in Turns /\ working' = working /\ mail' = mail /\ pending' \in [Sessions -> Seq(Texts)]
        /\ \A t \in Sessions \ {s} : pending'[t] = pending[t]
    BY <1>3, ForgetIs
  <2>2. WorkKept /\ Turns' = Turns
    BY <2>1 DEF WorkKept, Turns
  <2>3. MailKept /\ (Len(mail) + 1)..Len(mail') = {}
    BY <1>0, <2>1 DEF MailKept
  <2>4. CoreTyped'
    BY <2>1, <2>2 DEF CoreTyped
  <2>. QED  BY <2>1, <2>2, <2>3, <2>4 DEF Written, Tells
<1>4. CASE working[s].kind = "compact" /\ Fail(s)
  <2>1. /\ working[s] # None /\ working' = working /\ pending' = pending
        /\ mail' \in Seq(Letters) /\ MailKept /\ Len(mail') = Len(mail) + 1
        /\ mail'[Len(mail) + 1] = Event(s, "error", None)
    BY <1>4, FailIs
  <2>2. s \notin Turns /\ Turns' = Turns
    BY <1>4, <2>1 DEF Turns
  <2>3. \A i \in (Len(mail) + 1)..Len(mail') : mail'[i].s = s /\ mail'[i].kind = "error" /\ mail'[i].why \notin Reasons
    <3>1. \A i \in (Len(mail) + 1)..Len(mail') : i = Len(mail) + 1
      <4>1. Len(mail') = Len(mail) + 1 /\ Len(mail) \in Nat
        BY <1>0, <2>1
      <4>. QED  BY <4>1
    <3>2. mail'[Len(mail) + 1].s = s /\ mail'[Len(mail) + 1].kind = "error" /\ mail'[Len(mail) + 1].why \notin Reasons
      BY <2>1, EventIs
    <3>. QED  BY <3>1, <3>2
  <2>4. CoreTyped'
    <3>1. \A t \in Turns' : working'[t].prompt \in Texts
      BY <2>1, <2>2 DEF CoreTyped
    <3>2. \A t \in Sessions : pending'[t] # <<>> => t \in Turns'
      BY <2>1, <2>2 DEF CoreTyped
    <3>3. working' \in [Sessions -> Jobs \cup {None}] /\ pending' \in [Sessions -> Seq(Texts)]
      BY <2>1 DEF CoreTyped
    <3>. QED  BY <2>1, <2>3, <3>1, <3>2, <3>3, GrownTyped DEF OfSteer
  <2>. QED  BY <2>1, <2>2, <2>3, <2>4 DEF Written, Fails
<1>5. CASE Settle(s)
  <2>1. /\ working[s] # None /\ working' \in [Sessions -> Jobs \cup {None}] /\ working'[s] = None
        /\ \A t \in Sessions \ {s} : working'[t] = working[t] /\ pending'[t] = pending[t]
        /\ pending' \in [Sessions -> Seq(Texts)] /\ pending'[s] = <<>>
        /\ Turns' = Turns \ {s} /\ mail' \in Seq(Letters) /\ MailKept /\ Len(mail') = Len(mail) + 1
        /\ mail'[Len(mail) + 1].s = s
        /\ s \in Turns => /\ mail'[Len(mail) + 1].kind = "done" /\ mail'[Len(mail) + 1].why \in Reasons
                          /\ mail'[Len(mail) + 1].of = working[s].prompt /\ working[s].prompt \in Texts
        /\ s \notin Turns => /\ mail'[Len(mail) + 1].kind \in {"compacted", "error"}
                             /\ mail'[Len(mail) + 1].why \notin Reasons
    BY <1>5, SettleIs
  <2>2. \A i \in (Len(mail) + 1)..Len(mail') : i = Len(mail) + 1
    <3>1. Len(mail') = Len(mail) + 1 /\ Len(mail) \in Nat
      BY <1>0, <2>1
    <3>. QED  BY <3>1
  <2>3. CoreTyped'
    <3>1. \A t \in Turns' : working'[t].prompt \in Texts
      BY <2>1 DEF CoreTyped, Turns
    <3>2. \A t \in Sessions : pending'[t] # <<>> => t \in Turns'
      BY <2>1 DEF CoreTyped
    <3>3. \A i \in (Len(mail) + 1)..Len(mail') :
              /\ mail'[i].kind \in OfSteer => mail'[i].x \in Texts
              /\ mail'[i].kind = "done" <=> mail'[i].why \in Reasons
              /\ mail'[i].kind = "done" => mail'[i].of \in Texts
      BY <2>1, <2>2 DEF OfSteer, Reasons
    <3>. QED  BY <2>1, <3>1, <3>2, <3>3, GrownTyped
  <2>4. Written(s)
    BY <2>1, <2>2 DEF Written
  <2>. QED  BY <2>1, <2>3, <2>4 DEF Settled
<1>. QED  BY <1>1, <1>2, <1>3, <1>4, <1>5 DEF CoreWorks

-----------------------------------------------------------------------------
(* What is shown.                                                          *)

\* A step that leaves alone what is shown and what is worked on.
LEMMA ScreenKept ==
    ASSUME ScreenInv, CoreTyped', WorkKept, mail' = mail, app' \in App,
           app'.shown = app.shown, app'.running = app.running, app'.compacting = app.compacting,
           app'.submit = app.submit, app'.flush = app.flush, app'.left = app.left,
           insync' = insync, made' = made, deleted' \subseteq made', typed' \in 0..MaxTyped, QueueInv'
    PROVE  ScreenInv'
<1>1. Turns' = Turns /\ Busy' = Busy
  BY KeptTurns DEF Busy, WorkKept
<1>2. AppTyped'
  BY <1>1 DEF ScreenInv, AppTyped
<1>3. TurnShown'
  BY <1>1 DEF ScreenInv, TurnShown
<1>4. CompactShown'
  <2>. SUFFICES ASSUME app'.compacting
                PROVE  /\ app'.running /\ app'.shown \in Busy' \ Turns'
                       /\ \A i \in DOMAIN mail' : mail'[i].s = app'.shown =>
                             /\ mail'[i].kind \in {"error", "compacted"}
                             /\ mail'[i].kind = "compacted" =>
                                   working'[app'.shown] = None /\ \A j \in DOMAIN mail' : mail'[j].s = app'.shown => j <= i
    BY DEF CompactShown
  <2>1. /\ app.running /\ app.shown \in Busy \ Turns
        /\ \A i \in DOMAIN mail : mail[i].s = app.shown =>
              /\ mail[i].kind \in {"error", "compacted"}
              /\ mail[i].kind = "compacted" =>
                    working[app.shown] = None /\ \A j \in DOMAIN mail : mail[j].s = app.shown => j <= i
    BY DEF ScreenInv, CompactShown
  <2>2. app.shown \in Sessions /\ (working'[app.shown] = None <=> working[app.shown] = None)
    BY <2>1 DEF Busy, WorkKept
  <2>. QED  BY <1>1, <2>1, <2>2
<1>5. InSync'
  <2>. SUFFICES ASSUME insync, app.shown # None
                PROVE  /\ ~app'.running => app'.shown \notin Busy'
                       /\ app'.running /\ ~app'.compacting =>
                             /\ \A i \in DOMAIN mail' : mail'[i].s = app'.shown =>
                                   /\ mail'[i].kind \in OfSteer \cup {"done"}
                                   /\ mail'[i].kind = "done" =>
                                         working'[app'.shown] = None /\ \A j \in DOMAIN mail' : mail'[j].s = app'.shown => j <= i
                                   /\ mail'[i].why = "blocked" => mail'[i].of = app'.submit
                             /\ working'[app'.shown] # None =>
                                   app'.shown \in Turns' /\ working'[app'.shown].prompt = app'.submit
    BY DEF InSync
  <2>1. /\ ~app.running => app.shown \notin Busy
        /\ app.running /\ ~app.compacting =>
              /\ \A i \in DOMAIN mail : mail[i].s = app.shown =>
                    /\ mail[i].kind \in OfSteer \cup {"done"}
                    /\ mail[i].kind = "done" =>
                          working[app.shown] = None /\ \A j \in DOMAIN mail : mail[j].s = app.shown => j <= i
                    /\ mail[i].why = "blocked" => mail[i].of = app.submit
              /\ working[app.shown] # None => app.shown \in Turns /\ working[app.shown].prompt = app.submit
    BY DEF ScreenInv, InSync
  <2>2. /\ app.shown \in Sessions /\ (working'[app.shown] = None <=> working[app.shown] = None)
        /\ working[app.shown] # None => working'[app.shown].prompt = working[app.shown].prompt
    BY DEF ScreenInv, AppTyped, WorkKept
  <2>. QED  BY <1>1, <2>1, <2>2
<1>6. LeftInv'
  BY <1>1 DEF ScreenInv, LeftInv
<1>. QED  BY <1>2, <1>3, <1>4, <1>5, <1>6 DEF ScreenInv

\* The core's steps, with nothing of the app's changed.
LEMMA CoreScreen ==
    ASSUME ScreenInv, NEW s \in Sessions, CoreWorks(s)
    PROVE  ScreenInv'
<1>1. CoreTyped' /\ MailKept /\ Written(s) /\ (Tells(s) \/ Fails(s) \/ Settled(s))
  BY CoreSteps DEF ScreenInv
<1>2. app' = app /\ made' = made /\ deleted' = deleted /\ typed' = typed /\ insync' = insync
  BY DEF CoreWorks
<1>3. /\ DOMAIN mail = 1..Len(mail) /\ Len(mail) \in Nat /\ Len(mail') \in Nat /\ DOMAIN mail' = 1..Len(mail')
      /\ Len(mail) <= Len(mail')
  <2>1. mail' \in Seq(Letters)
    BY <1>1 DEF CoreTyped
  <2>. QED  BY <1>1, <2>1, LettersAre, LenProperties DEF MailKept, ScreenInv
<1>4. \A i \in DOMAIN mail' : \/ i \in DOMAIN mail /\ mail'[i] = mail[i]
                              \/ i > Len(mail) /\ i \in (Len(mail) + 1)..Len(mail') /\ mail'[i].s = s
  BY <1>1, <1>3 DEF MailKept, Written
<1>5. \A i \in DOMAIN mail : i \in DOMAIN mail' /\ mail'[i] = mail[i]
  BY <1>1, <1>3 DEF MailKept
<1>6. s \in Busy /\ Busy' = Busy /\ \A t \in Sessions \ {s} : (working'[t] = None <=> working[t] = None)
  <2>1. s \in Busy /\ working[s] # None
    BY <1>1 DEF Tells, Fails, Settled, Turns, Busy
  <2>2. \A t \in Sessions \ {s} : (working'[t] = None <=> working[t] = None)
    BY <1>1 DEF Tells, Fails, Settled, WorkKept
  <2>3. working'[s] # None \/ \E i \in DOMAIN mail' : mail'[i].s = s
    <3>1. CASE Settled(s)
      <4>1. Len(mail) + 1 \in DOMAIN mail'
        BY <1>3, <3>1 DEF Settled
      <4>. QED  BY <3>1, <4>1 DEF Settled
    <3>. QED  BY <1>1, <2>1, <3>1 DEF Tells, Fails, WorkKept
  <2>4. \A t \in Sessions \ {s} : (\E i \in DOMAIN mail' : mail'[i].s = t) <=> (\E i \in DOMAIN mail : mail[i].s = t)
    BY <1>4, <1>5
  <2>. QED  BY <2>1, <2>2, <2>3, <2>4 DEF Busy
<1>7. AppTyped'
  BY <1>2, <1>6 DEF ScreenInv, AppTyped
<1>8. LeftInv' /\ QueueInv'
  BY <1>2, <1>6 DEF ScreenInv, LeftInv, QueueInv
<1>9. TurnShown'
  <2>. SUFFICES ASSUME app.running, ~app.compacting
                PROVE  app.shown # None /\ (app.shown \in Turns' \/ \E i \in DOMAIN mail' : mail'[i].s = app.shown /\ mail'[i].kind = "done")
    BY <1>2 DEF TurnShown
  <2>1. app.shown # None /\ (app.shown \in Turns \/ \E i \in DOMAIN mail : mail[i].s = app.shown /\ mail[i].kind = "done")
    BY DEF ScreenInv, TurnShown
  <2>2. CASE \E i \in DOMAIN mail : mail[i].s = app.shown /\ mail[i].kind = "done"
    BY <1>5, <2>1, <2>2
  <2>3. CASE app.shown \in Turns /\ ~(app.shown = s /\ Settled(s))
    BY <1>1, <2>1, <2>3 DEF Tells, Fails, Settled
  <2>4. CASE app.shown \in Turns /\ app.shown = s /\ Settled(s)
    <3>1. Len(mail) + 1 \in DOMAIN mail'
      BY <1>3, <2>4 DEF Settled
    <3>. QED  BY <2>1, <2>4, <3>1 DEF Settled
  <2>. QED  BY <2>1, <2>2, <2>3, <2>4
<1>10. CompactShown'
  <2>. SUFFICES ASSUME app.compacting
                PROVE  /\ app.running /\ app.shown \in Busy' \ Turns'
                       /\ \A i \in DOMAIN mail' : mail'[i].s = app.shown =>
                             /\ mail'[i].kind \in {"error", "compacted"}
                             /\ mail'[i].kind = "compacted" =>
                                   working'[app.shown] = None /\ \A j \in DOMAIN mail' : mail'[j].s = app.shown => j <= i
    BY <1>2 DEF CompactShown
  <2>1. /\ app.running /\ app.shown \in Busy \ Turns
        /\ \A i \in DOMAIN mail : mail[i].s = app.shown =>
              /\ mail[i].kind \in {"error", "compacted"}
              /\ mail[i].kind = "compacted" =>
                    working[app.shown] = None /\ \A j \in DOMAIN mail : mail[j].s = app.shown => j <= i
    BY DEF ScreenInv, CompactShown
  <2>2. app.running /\ app.shown \in Busy' \ Turns' /\ app.shown \in Sessions
    BY <1>1, <1>6, <2>1 DEF Tells, Fails, Settled, Busy
  <2>3. CASE app.shown # s
    <3>1. \A i \in DOMAIN mail' : mail'[i].s = app.shown => i \in DOMAIN mail /\ mail'[i] = mail[i]
      BY <1>4, <2>3
    <3>. QED  BY <1>6, <2>1, <2>2, <2>3, <3>1
  <2>4. CASE app.shown = s /\ ~Settled(s)
    <3>1. /\ Fails(s) /\ working[s] # None /\ working'[s] = working[s]
          /\ \A i \in (Len(mail) + 1)..Len(mail') : mail'[i].kind = "error"
      BY <1>1, <2>1, <2>4 DEF Tells, Fails
    <3>2. \A i \in DOMAIN mail' : mail'[i].s = app.shown => mail'[i].kind = "error"
      BY <1>4, <2>1, <2>4, <3>1
    <3>. QED  BY <2>2, <3>2
  <2>5. CASE app.shown = s /\ Settled(s)
    <3>1. /\ working'[s] = None /\ mail'[Len(mail) + 1].kind \in {"compacted", "error"} /\ working[s] # None
          /\ \A j \in DOMAIN mail' : j <= Len(mail) + 1
      BY <1>3, <2>1, <2>5 DEF Settled
    <3>2. \A i \in DOMAIN mail' : mail'[i].s = app.shown =>
              \/ i \in DOMAIN mail /\ mail'[i].kind = "error"
              \/ i = Len(mail) + 1
      BY <1>3, <1>4, <2>1, <2>5, <3>1
    <3>. QED  BY <2>2, <2>5, <3>1, <3>2
  <2>. QED  BY <2>3, <2>4, <2>5
<1>11. InSync'
  <2>. SUFFICES ASSUME insync, app.shown # None
                PROVE  /\ ~app.running => app.shown \notin Busy'
                       /\ app.running /\ ~app.compacting =>
                             /\ \A i \in DOMAIN mail' : mail'[i].s = app.shown =>
                                   /\ mail'[i].kind \in OfSteer \cup {"done"}
                                   /\ mail'[i].kind = "done" =>
                                         working'[app.shown] = None /\ \A j \in DOMAIN mail' : mail'[j].s = app.shown => j <= i
                                   /\ mail'[i].why = "blocked" => mail'[i].of = app.submit
                             /\ working'[app.shown] # None =>
                                   app.shown \in Turns' /\ working'[app.shown].prompt = app.submit
    BY <1>2 DEF InSync
  <2>1. /\ ~app.running => app.shown \notin Busy
        /\ app.running /\ ~app.compacting =>
              /\ \A i \in DOMAIN mail : mail[i].s = app.shown =>
                    /\ mail[i].kind \in OfSteer \cup {"done"}
                    /\ mail[i].kind = "done" =>
                          working[app.shown] = None /\ \A j \in DOMAIN mail : mail[j].s = app.shown => j <= i
                    /\ mail[i].why = "blocked" => mail[i].of = app.submit
              /\ working[app.shown] # None => app.shown \in Turns /\ working[app.shown].prompt = app.submit
    BY DEF ScreenInv, InSync
  <2>2. CASE ~app.running
    BY <1>6, <2>1, <2>2
  <2>3. CASE app.running /\ app.compacting
    BY <2>3
  <2>4. CASE app.running /\ ~app.compacting /\ app.shown # s
    <3>1. \A i \in DOMAIN mail' : mail'[i].s = app.shown => i \in DOMAIN mail /\ mail'[i] = mail[i]
      BY <1>4, <2>4
    <3>2. app.shown \in Sessions /\ (app.shown \in Turns' <=> app.shown \in Turns)
      BY <1>1, <2>4 DEF ScreenInv, AppTyped, Tells, Fails, Settled
    <3>3. working'[app.shown] # None => working[app.shown] # None /\ working'[app.shown].prompt = working[app.shown].prompt
      BY <1>1, <2>4, <3>2 DEF Tells, Fails, Settled, WorkKept
    <3>4. working[app.shown] = None => working'[app.shown] = None
      BY <3>3
    <3>. QED  BY <2>1, <2>4, <3>1, <3>2, <3>3, <3>4
  <2>5. CASE app.running /\ ~app.compacting /\ app.shown = s /\ ~Settled(s)
    <3>1. working[s] # None /\ s \in Turns /\ working[s].prompt = app.submit
      BY <1>1, <2>1, <2>5 DEF Tells, Fails, Turns
    <3>2. Tells(s)
      BY <1>1, <2>5, <3>1 DEF Fails
    <3>3. s \in Turns' /\ working'[s].prompt = app.submit
      BY <3>1, <3>2 DEF Tells, WorkKept
    <3>4. \A i \in DOMAIN mail' : mail'[i].s = s => mail'[i].kind \in OfSteer /\ mail'[i].why # "blocked"
      <4>1. \A i \in DOMAIN mail : mail[i].s = s => mail[i].kind \in OfSteer /\ mail[i].why \notin Reasons
        BY <2>1, <2>5, <3>1 DEF ScreenInv, CoreTyped, OfSteer
      <4>2. "blocked" \in Reasons
        BY DEF Reasons
      <4>. QED  BY <1>4, <3>2, <4>1, <4>2 DEF Tells
    <3>. QED  BY <2>5, <3>3, <3>4 DEF OfSteer
  <2>6. CASE app.running /\ ~app.compacting /\ app.shown = s /\ Settled(s)
    <3>1. working[s] # None /\ s \in Turns /\ working[s].prompt = app.submit /\ working'[s] = None
      BY <2>1, <2>6 DEF Settled
    <3>2. mail'[Len(mail) + 1].kind = "done" /\ mail'[Len(mail) + 1].of = app.submit
      BY <2>6, <3>1 DEF Settled
    <3>3. \A i \in DOMAIN mail : mail[i].s = s => mail[i].kind \in OfSteer /\ mail[i].why # "blocked"
      <4>1. \A i \in DOMAIN mail : mail[i].s = s => mail[i].kind \in OfSteer /\ mail[i].why \notin Reasons
        BY <2>1, <2>6, <3>1 DEF ScreenInv, CoreTyped, OfSteer
      <4>. QED  BY <4>1 DEF Reasons
    <3>4. \A i \in DOMAIN mail' : i <= Len(mail) + 1 /\ ((i \in DOMAIN mail /\ mail'[i] = mail[i]) \/ i = Len(mail) + 1)
      <4>1. Len(mail') = Len(mail) + 1
        BY <2>6 DEF Settled
      <4>. QED  BY <1>3, <1>4, <4>1
    <3>. QED  BY <2>6, <3>1, <3>2, <3>3, <3>4 DEF OfSteer
  <2>. QED  BY <2>2, <2>3, <2>4, <2>5, <2>6
<1>. QED  BY <1>1, <1>7, <1>8, <1>9, <1>10, <1>11 DEF ScreenInv

\* return_queue_to_composer, field by field;
LEMMA ReturnedIs ==
    ASSUME NEW a \in App
    PROVE  /\ Returned(a) \in App /\ Returned(a).shown = a.shown /\ Returned(a).created = a.created
           /\ Returned(a).running = a.running /\ Returned(a).compacting = a.compacting
           /\ Returned(a).flush = a.flush /\ Returned(a).submit = a.submit /\ Returned(a).left = a.left
           /\ Returned(a).queued = <<>> /\ Returned(a).draft = a.draft \cup Joined(a.queued)
           /\ a.steered <= Len(a.queued) => Returned(a).steered = 0
<1>1. Joined(a.queued) \in Texts
  BY DEF App, Joined, Texts
<1>2. CASE a.queued = <<>>
  <2>1. Joined(a.queued) = {}
    BY <1>2 DEF Joined
  <2>. QED  BY <1>2, <2>1 DEF App, Returned
<1>3. CASE a.queued # <<>>
  <2>. DEFINE d == a.draft \cup Joined(a.queued)
  <2>1. Returned(a) = [a EXCEPT !.draft = d, !.queued = <<>>, !.steered = 0]
    BY <1>3 DEF Returned
  <2>2. d \in Texts
    BY <1>1 DEF App, Texts
  <2>. HIDE DEF d
  <2>3. Returned(a) \in App
    <3>1. <<>> \in Seq(Texts) /\ 0 \in Nat
      OBVIOUS
    <3>2. \A q \in Seq(Texts), n \in Nat : [a EXCEPT !.draft = d, !.queued = q, !.steered = n] \in App
      BY <2>2 DEF App
    <3>. QED  BY <2>1, <3>1, <3>2
  <2>4. /\ Returned(a).shown = a.shown /\ Returned(a).created = a.created
        /\ Returned(a).running = a.running /\ Returned(a).compacting = a.compacting
        /\ Returned(a).flush = a.flush /\ Returned(a).submit = a.submit /\ Returned(a).left = a.left
        /\ Returned(a).queued = <<>> /\ Returned(a).draft = d /\ Returned(a).steered = 0
    BY <2>1 DEF App
  <2>. QED  BY <2>3, <2>4 DEF d
<1>. QED  BY <1>2, <1>3

\* and reset_for_new_session.
LEMMA LeftBehindIs ==
    ASSUME NEW a \in App, a.steered <= Len(a.queued), a.shown \in Sessions \cup {None}
    PROVE  /\ LeftBehind(a) \in App /\ LeftBehind(a).shown = None /\ LeftBehind(a).created = FALSE
           /\ LeftBehind(a).running = FALSE /\ LeftBehind(a).compacting = FALSE
           /\ LeftBehind(a).flush = FALSE /\ LeftBehind(a).submit = a.submit
           /\ LeftBehind(a).left = IF a.created /\ a.shown # None /\ working[a.shown] # None
                                   THEN a.left \cup {a.shown} ELSE a.left
           /\ LeftBehind(a).queued = <<>> /\ LeftBehind(a).draft = a.draft \cup Joined(a.queued)
           /\ LeftBehind(a).steered = 0
<1>. DEFINE r == Returned(a)
            left == IF a.created /\ a.shown # None /\ working[a.shown] # None THEN a.left \cup {a.shown} ELSE a.left
<1>1. /\ r \in App /\ r.submit = a.submit /\ r.left = a.left /\ r.queued = <<>>
      /\ r.draft = a.draft \cup Joined(a.queued) /\ r.steered = 0
  BY ReturnedIs
<1>2. LeftBehind(a) = [r EXCEPT !.shown = None, !.created = FALSE, !.running = FALSE, !.compacting = FALSE,
                                !.flush = FALSE, !.left = left]
  BY <1>1 DEF LeftBehind
<1>3. left \subseteq Sessions
  BY DEF App
<1>. HIDE DEF r, left
<1>4. [r EXCEPT !.shown = None, !.created = FALSE, !.running = FALSE, !.compacting = FALSE,
                !.flush = FALSE, !.left = left] \in App
  BY <1>1, <1>3 DEF App
<1>5. /\ LeftBehind(a).shown = None /\ LeftBehind(a).created = FALSE /\ LeftBehind(a).running = FALSE
      /\ LeftBehind(a).compacting = FALSE /\ LeftBehind(a).flush = FALSE /\ LeftBehind(a).left = left
      /\ LeftBehind(a).submit = r.submit /\ LeftBehind(a).queued = r.queued /\ LeftBehind(a).draft = r.draft
      /\ LeftBehind(a).steered = r.steered
  BY <1>1, <1>2 DEF App
<1>. QED  BY <1>1, <1>2, <1>4, <1>5 DEF left

LEMMA TypeScreen == ASSUME ScreenInv, Type PROVE ScreenInv'
<1>1. app \in App /\ typed \in 0..MaxTyped /\ typed' = typed + 1 /\ typed' \in 0..MaxTyped /\ typed + 1 \in 1..MaxTyped
  BY FrontendAssumption DEF ScreenInv, AppTyped, Type
<1>2. {typed + 1} \in Texts
  BY <1>1 DEF Texts
<1>3. app' = [app EXCEPT !.draft = app.draft \cup {typed + 1}]
  BY DEF Type
<1>4. app' \in App
  BY <1>1, <1>2, <1>3 DEF App, Texts
<1>5. /\ app'.shown = app.shown /\ app'.running = app.running /\ app'.compacting = app.compacting
      /\ app'.submit = app.submit /\ app'.flush = app.flush /\ app'.left = app.left
      /\ app'.queued = app.queued /\ app'.steered = app.steered
  BY <1>1, <1>3 DEF App
<1>6. /\ working' = working /\ pending' = pending /\ mail' = mail
      /\ insync' = insync /\ made' = made /\ deleted' = deleted
  BY DEF Type, core, history
<1>7. WorkKept /\ CoreTyped' /\ QueueInv' /\ deleted' \subseteq made'
  BY <1>5, <1>6 DEF WorkKept, ScreenInv, CoreTyped, Turns, QueueInv, AppTyped
<1>. QED  BY <1>1, <1>4, <1>5, <1>6, <1>7, ScreenKept

LEMMA UpScreen == ASSUME ScreenInv, Up PROVE ScreenInv'
<1>1. app \in App /\ app.queued \in Seq(Texts) /\ app.steered \in Nat /\ Len(app.queued) > app.steered
  BY DEF ScreenInv, AppTyped, Up, App
<1>2. /\ Last(app.queued) \in Texts /\ Front(app.queued) \in Seq(Texts)
      /\ Len(Front(app.queued)) = Len(app.queued) - 1
  BY <1>1 DEF Last, Front
<1>3. app' = [app EXCEPT !.draft = Last(app.queued), !.queued = Front(app.queued)]
  BY DEF Up
<1>. DEFINE l == Last(app.queued)
            f == Front(app.queued)
<1>4. l \in Texts /\ f \in Seq(Texts) /\ app' = [app EXCEPT !.draft = l, !.queued = f] /\ Len(f) = Len(app.queued) - 1
  BY <1>2, <1>3
<1>. HIDE DEF l, f
<1>5. app' \in App
  BY <1>1, <1>4 DEF App
<1>6. /\ app'.shown = app.shown /\ app'.running = app.running /\ app'.compacting = app.compacting
      /\ app'.submit = app.submit /\ app'.flush = app.flush /\ app'.left = app.left
      /\ app'.queued = f /\ app'.steered = app.steered
  BY <1>1, <1>4 DEF App
<1>7. /\ working' = working /\ pending' = pending /\ mail' = mail
      /\ insync' = insync /\ made' = made /\ deleted' = deleted /\ typed' = typed
  BY DEF Up, core, history, front
<1>8. WorkKept /\ CoreTyped' /\ deleted' \subseteq made' /\ typed' \in 0..MaxTyped
  BY <1>7 DEF WorkKept, ScreenInv, CoreTyped, Turns, AppTyped
<1>9. QueueInv'
  <2>1. app.steered <= Len(f) /\ (~app.running \/ app.compacting => app.steered = 0)
    BY <1>1, <1>4 DEF ScreenInv, QueueInv
  <2>. QED  BY <1>6, <2>1 DEF QueueInv
<1>. QED  BY <1>5, <1>6, <1>7, <1>8, <1>9, ScreenKept

LEMMA EscScreen == ASSUME ScreenInv, Esc PROVE ScreenInv'
<1>1. app.shown \in Sessions /\ app \in App
  BY DEF Esc, ScreenInv, AppTyped, App
<1>2. /\ mail' = mail /\ app' = app /\ insync' = insync /\ made' = made /\ deleted' = deleted /\ typed' = typed
  BY DEF Esc, history, front
<1>3. WorkKept /\ CoreTyped'
  <2>1. WorkKept /\ working' \in [Sessions -> Jobs \cup {None}] /\ pending' = pending
    BY <1>1, StopIs DEF Esc, ScreenInv
  <2>. QED  BY <1>2, <2>1, StillTyped DEF ScreenInv
<1>4. QueueInv' /\ deleted' \subseteq made' /\ typed' \in 0..MaxTyped
  BY <1>2 DEF ScreenInv, QueueInv, AppTyped
<1>. QED  BY <1>1, <1>2, <1>3, <1>4, ScreenKept

\* What is true of the app once it read what it has of the mail, and before
\* the next text goes out.
Fewer == mail' \in Seq(Letters) /\ \A i \in DOMAIN mail' : \E j \in DOMAIN mail : mail'[i] = mail[j]
BusyAfter == {s \in Sessions : working[s] # None \/ \E i \in DOMAIN mail' : mail'[i].s = s}
After(a) ==
    /\ a.shown \in made \cup {None} /\ a.left \subseteq (made \ {a.shown}) \cap BusyAfter
    /\ a.steered <= Len(a.queued) /\ (~a.running \/ a.compacting => a.steered = 0)
    /\ a.running /\ ~a.compacting =>
          /\ a.shown # None
          /\ a.shown \in Turns \/ \E i \in DOMAIN mail' : mail'[i].s = a.shown /\ mail'[i].kind = "done"
    /\ a.compacting =>
          /\ a.running /\ a.shown \in BusyAfter \ Turns
          /\ \A i \in DOMAIN mail' : mail'[i].s = a.shown =>
                /\ mail'[i].kind \in {"error", "compacted"}
                /\ mail'[i].kind = "compacted" =>
                      working[a.shown] = None /\ \A j \in DOMAIN mail' : mail'[j].s = a.shown => j <= i
    /\ insync' /\ a.shown # None =>
          /\ ~a.running => a.shown \notin BusyAfter
          /\ a.running /\ ~a.compacting =>
                /\ \A i \in DOMAIN mail' : mail'[i].s = a.shown =>
                      /\ mail'[i].kind \in OfSteer \cup {"done"}
                      /\ mail'[i].kind = "done" =>
                            working[a.shown] = None /\ \A j \in DOMAIN mail' : mail'[j].s = a.shown => j <= i
                      /\ mail'[i].why = "blocked" => mail'[i].of = a.submit
                /\ working[a.shown] # None => a.shown \in Turns /\ working[a.shown].prompt = a.submit

LEMMA FewerIs ==
    ASSUME CoreTyped, Fewer
    PROVE  /\ mail' \in Seq(Letters) /\ BusyAfter \subseteq Busy
           /\ \A i \in DOMAIN mail' :
                 /\ mail'[i].kind \in OfSteer => mail'[i].x \in Texts
                 /\ mail'[i].kind = "done" <=> mail'[i].why \in Reasons
                 /\ mail'[i].kind = "done" => mail'[i].of \in Texts
<1>1. BusyAfter \subseteq Busy
  BY DEF Fewer, Busy, BusyAfter
<1>. QED  BY <1>1 DEF Fewer, CoreTyped

\* The session a prompt goes to has nothing running but what the app shows.
LEMMA TargetIs ==
    ASSUME made \subseteq Sessions, NEW a \in App, a.shown \in made \cup {None}, None \notin made, NEW s \in Targets(a)
    PROVE  s \in Sessions /\ IF a.shown # None THEN s = a.shown ELSE s \notin made
<1>1. CASE a.shown # None
  BY <1>1 DEF Targets
<1>2. CASE a.shown = None
  <2>1. made # Sessions /\ s = CHOOSE t \in Sessions : t \notin made
    BY <1>2 DEF Targets
  <2>2. \E t \in Sessions : t \notin made
    BY <2>1
  <2>. QED  BY <1>2, <2>1, <2>2
<1>. QED  BY <1>1, <1>2

LEMMA ShowingIs ==
    ASSUME NEW a \in App, NEW s \in Sessions
    PROVE  /\ Showing(a, s) \in App /\ Showing(a, s).shown = s /\ Showing(a, s).running = a.running
           /\ Showing(a, s).compacting = a.compacting /\ Showing(a, s).queued = a.queued
           /\ Showing(a, s).steered = a.steered /\ Showing(a, s).flush = a.flush
           /\ Showing(a, s).submit = a.submit /\ Showing(a, s).draft = a.draft /\ Showing(a, s).left = a.left
<1>. DEFINE c == a.created \/ a.shown = None
<1>1. Showing(a, s) = [a EXCEPT !.shown = s, !.created = c] /\ c \in BOOLEAN
  BY DEF Showing, App
<1>. HIDE DEF c
<1>2. Showing(a, s) \in App
  BY <1>1 DEF App
<1>3. /\ Showing(a, s).shown = s /\ Showing(a, s).running = a.running
      /\ Showing(a, s).compacting = a.compacting /\ Showing(a, s).queued = a.queued
      /\ Showing(a, s).steered = a.steered /\ Showing(a, s).flush = a.flush
      /\ Showing(a, s).submit = a.submit /\ Showing(a, s).draft = a.draft /\ Showing(a, s).left = a.left
  BY <1>1 DEF App
<1>. QED  BY <1>2, <1>3

LEMMA StartedIs ==
    ASSUME NEW a \in App, NEW s \in Sessions, NEW text \in Texts, Started(a, s, text)
    PROVE  /\ app' \in App /\ app'.shown = s /\ app'.running = TRUE /\ app'.compacting = a.compacting
           /\ app'.queued = a.queued /\ app'.steered = a.steered /\ app'.flush = a.flush
           /\ app'.submit = text /\ app'.draft = a.draft /\ app'.left = a.left
           /\ Begin(s, "turn", text) /\ made' = made \cup {s}
<1>. DEFINE b == Showing(a, s)
<1>1. /\ b \in App /\ b.shown = s /\ b.compacting = a.compacting /\ b.queued = a.queued
      /\ b.steered = a.steered /\ b.flush = a.flush /\ b.draft = a.draft /\ b.left = a.left
  BY ShowingIs
<1>2. app' = [b EXCEPT !.running = TRUE, !.submit = text] /\ Begin(s, "turn", text) /\ made' = made \cup {s}
  BY DEF Started
<1>. HIDE DEF b
<1>3. app' \in App
  BY <1>1, <1>2 DEF App
<1>4. /\ app'.shown = b.shown /\ app'.running = TRUE /\ app'.compacting = b.compacting
      /\ app'.queued = b.queued /\ app'.steered = b.steered /\ app'.flush = b.flush
      /\ app'.submit = text /\ app'.draft = b.draft /\ app'.left = b.left
  BY <1>1, <1>2 DEF App
<1>. QED  BY <1>1, <1>2, <1>3, <1>4

\* A prompt starts a turn.
LEMMA StartScreen ==
    ASSUME CoreTyped, AppTyped, Fewer, NEW a \in App, After(a), ~a.flush, ~a.running,
           NEW text \in Texts, NEW s \in Targets(a), Started(a, s, text), deleted' = deleted, typed' = typed
    PROVE  ScreenInv'
<1>1. s \in Sessions /\ IF a.shown # None THEN s = a.shown ELSE s \notin made
  BY FrontendAssumption, TargetIs DEF AppTyped, After
<1>2. ~a.compacting /\ a.compacting \in BOOLEAN
  BY DEF After, App
<1>3. /\ app' \in App /\ app'.shown = s /\ app'.running = TRUE /\ app'.compacting = a.compacting
      /\ app'.queued = a.queued /\ app'.steered = a.steered /\ app'.flush = a.flush
      /\ app'.submit = text /\ app'.left = a.left /\ Begin(s, "turn", text) /\ made' = made \cup {s}
  BY <1>1, StartedIs
<1>4. /\ working[s] = None /\ pending' = pending /\ working' \in [Sessions -> Jobs \cup {None}]
      /\ working'[s] # None /\ working'[s].prompt = text /\ Turns' = Turns \cup {s}
      /\ \A t \in Sessions \ {s} : working'[t] = working[t]
  BY <1>1, <1>3, BeginIs
<1>5. /\ mail' \in Seq(Letters) /\ BusyAfter \subseteq Busy
      /\ \A i \in DOMAIN mail' :
            /\ mail'[i].kind \in OfSteer => mail'[i].x \in Texts
            /\ mail'[i].kind = "done" <=> mail'[i].why \in Reasons
            /\ mail'[i].kind = "done" => mail'[i].of \in Texts
  BY FewerIs
<1>6. CoreTyped'
  <2>1. \A t \in Turns' : working'[t].prompt \in Texts
    BY <1>4 DEF CoreTyped, Turns
  <2>2. pending' \in [Sessions -> Seq(Texts)] /\ \A t \in Sessions : pending'[t] # <<>> => t \in Turns'
    BY <1>4 DEF CoreTyped
  <2>. QED  BY <1>4, <1>5, <2>1, <2>2 DEF CoreTyped
<1>7. Busy' = BusyAfter \cup {s}
  BY <1>1, <1>4 DEF Busy, BusyAfter
<1>8. AppTyped'
  <2>1. a.left \subseteq made' \ {s}
    BY <1>1, <1>3 DEF After
  <2>2. Busy' \subseteq made' /\ made' \subseteq Sessions
    BY <1>1, <1>3, <1>5, <1>7 DEF AppTyped
  <2>. QED  BY <1>3, <2>1, <2>2 DEF AppTyped
<1>9. TurnShown' /\ CompactShown' /\ LeftInv' /\ QueueInv'
  <2>1. TurnShown'
    BY <1>1, <1>3, <1>4, FrontendAssumption DEF TurnShown
  <2>2. CompactShown'
    BY <1>2, <1>3 DEF CompactShown
  <2>3. LeftInv'
    BY <1>3, <1>7 DEF LeftInv, After
  <2>4. QueueInv'
    BY <1>2, <1>3 DEF QueueInv, After
  <2>. QED  BY <2>1, <2>2, <2>3, <2>4
<1>10. InSync'
  <2>1. insync' => \A i \in DOMAIN mail' : mail'[i].s # s
    <3>1. CASE a.shown # None
      BY <1>1, <3>1 DEF After, BusyAfter
    <3>2. CASE a.shown = None
      BY <1>1, <1>5, <3>2 DEF AppTyped, BusyAfter
    <3>. QED  BY <3>1, <3>2
  <2>. QED  BY <1>3, <1>4, <2>1 DEF InSync
<1>. QED  BY <1>6, <1>8, <1>9, <1>10 DEF ScreenInv

\* A prompt is refused, or there is none.
LEMMA IdleScreen ==
    ASSUME CoreTyped, AppTyped, Fewer, NEW a \in App, After(a), working' = working, pending' = pending,
           NEW s \in Sessions \cup {None}, app' \in App, ~app'.flush,
           app'.shown = s, app'.running = a.running, app'.compacting = a.compacting, app'.submit = a.submit,
           app'.left = a.left, QueueInv', s = a.shown \/ (a.shown = None /\ s \notin made /\ ~a.running),
           made' = IF s = None THEN made ELSE made \cup {s}, deleted' = deleted, typed' = typed
    PROVE  ScreenInv'
<1>1. /\ mail' \in Seq(Letters) /\ BusyAfter \subseteq Busy
      /\ \A i \in DOMAIN mail' :
            /\ mail'[i].kind \in OfSteer => mail'[i].x \in Texts
            /\ mail'[i].kind = "done" <=> mail'[i].why \in Reasons
            /\ mail'[i].kind = "done" => mail'[i].of \in Texts
  BY FewerIs
<1>2. Turns' = Turns /\ Busy' = BusyAfter
  BY DEF Turns, Busy, BusyAfter
<1>3. CoreTyped'
  BY <1>1, <1>2 DEF CoreTyped
<1>4. AppTyped'
  BY <1>1, <1>2 DEF AppTyped, After
<1>5. TurnShown' /\ LeftInv'
  BY <1>2 DEF TurnShown, LeftInv, After
<1>6. CompactShown'
  BY <1>2 DEF CompactShown, After
<1>7. InSync'
  <2>1. CASE s = a.shown
    BY <1>2, <2>1 DEF InSync, After
  <2>2. CASE a.shown = None /\ s \notin made /\ ~a.running
    <3>1. s \notin Busy'
      BY <1>1, <1>2, <2>2 DEF AppTyped
    <3>. QED  BY <2>2, <3>1 DEF InSync
  <2>. QED  BY <2>1, <2>2
<1>. QED  BY <1>3, <1>4, <1>5, <1>6, <1>7 DEF ScreenInv

LEMMA NotStartedIs ==
    ASSUME NEW a \in App, NEW s \in Sessions, NotStarted(a, s)
    PROVE  /\ app' \in App /\ app'.shown = s /\ app'.running = a.running /\ app'.compacting = a.compacting
           /\ app'.queued = a.queued /\ app'.steered = a.steered /\ app'.flush = a.flush
           /\ app'.submit = a.submit /\ app'.draft = a.draft /\ app'.left = a.left
           /\ working' = working /\ pending' = pending /\ made' = made \cup {s}
BY ShowingIs DEF NotStarted

LEMMA NotStartedScreen ==
    ASSUME CoreTyped, AppTyped, Fewer, NEW a \in App, After(a), ~a.flush, ~a.running,
           NEW s \in Targets(a), NotStarted(a, s), deleted' = deleted, typed' = typed
    PROVE  ScreenInv'
<1>1. s \in Sessions /\ IF a.shown # None THEN s = a.shown ELSE s \notin made
  BY FrontendAssumption, TargetIs DEF AppTyped, After
<1>2. /\ app' \in App /\ app'.shown = s /\ app'.running = a.running /\ app'.compacting = a.compacting
      /\ app'.queued = a.queued /\ app'.steered = a.steered /\ app'.flush = a.flush
      /\ app'.submit = a.submit /\ app'.left = a.left
      /\ working' = working /\ pending' = pending /\ made' = made \cup {s}
  BY <1>1, NotStartedIs
<1>3. QueueInv'
  BY <1>2 DEF QueueInv, After
<1>4. /\ s \in Sessions \cup {None} /\ (s = a.shown \/ (a.shown = None /\ s \notin made /\ ~a.running))
      /\ made' = IF s = None THEN made ELSE made \cup {s}
  BY <1>1, <1>2, FrontendAssumption
<1>. QED  BY <1>2, <1>3, <1>4, IdleScreen

\* What the app steers or queues goes to the end of the queue.
LEMMA QueuesIs ==
    ASSUME CoreTyped, NEW a \in App, a.shown \in Sessions \cup {None}, NEW text \in Texts, Queues(a, text)
    PROVE  /\ app' \in App /\ app'.shown = a.shown /\ app'.running = a.running /\ app'.compacting = a.compacting
           /\ app'.submit = a.submit /\ app'.flush = a.flush /\ app'.left = a.left /\ app'.draft = a.draft
           /\ app'.queued = Append(a.queued, text)
           /\ \/ Steers(a) /\ Steer(a.shown, text) /\ app'.steered = a.steered + 1
              \/ ~Steers(a) /\ working' = working /\ pending' = pending /\ app'.steered = a.steered
<1>. DEFINE n == IF Steers(a) THEN a.steered + 1 ELSE a.steered
            q == Append(a.queued, text)
<1>1. n \in Nat /\ q \in Seq(Texts)
  BY AppendProperties DEF App
<1>2. app' = [a EXCEPT !.queued = q, !.steered = n]
  BY DEF Queues
<1>3. /\ Steers(a) => n = a.steered + 1 /\ Steer(a.shown, text)
      /\ ~Steers(a) => n = a.steered /\ working' = working /\ pending' = pending
  BY DEF Queues
<1>. HIDE DEF n, q
<1>4. app' \in App
  BY <1>1, <1>2 DEF App
<1>5. /\ app'.shown = a.shown /\ app'.running = a.running /\ app'.compacting = a.compacting
      /\ app'.submit = a.submit /\ app'.flush = a.flush /\ app'.left = a.left /\ app'.draft = a.draft
      /\ app'.queued = q /\ app'.steered = n
  BY <1>1, <1>2 DEF App
<1>. QED  BY <1>3, <1>4, <1>5 DEF q

\* The composer's text is taken out of it.
LEMMA TakenIs ==
    ASSUME app \in App
    PROVE  LET a == [app EXCEPT !.draft = {}] IN
           /\ a \in App /\ a.shown = app.shown /\ a.running = app.running /\ a.compacting = app.compacting
           /\ a.submit = app.submit /\ a.flush = app.flush /\ a.left = app.left /\ a.draft = {}
           /\ a.queued = app.queued /\ a.steered = app.steered
<1>. DEFINE a == [app EXCEPT !.draft = {}]
<1>1. a \in App
  <2>1. {} \in Texts
    BY DEF Texts
  <2>2. \A d \in Texts : [app EXCEPT !.draft = d] \in App
    BY DEF App
  <2>. QED  BY <2>1, <2>2
<1>2. /\ a.shown = app.shown /\ a.running = app.running /\ a.compacting = app.compacting
      /\ a.submit = app.submit /\ a.flush = app.flush /\ a.left = app.left /\ a.draft = {}
      /\ a.queued = app.queued /\ a.steered = app.steered
  BY DEF App
<1>. QED  BY <1>1, <1>2

LEMMA SubmitScreen == ASSUME ScreenInv, Submit PROVE ScreenInv'
<1>. DEFINE a == [app EXCEPT !.draft = {}]
<1>1. app \in App /\ app.draft \in Texts /\ app.queued \in Seq(Texts) /\ app.steered \in Nat
  BY DEF ScreenInv, AppTyped, App
<1>2. /\ a \in App /\ a.shown = app.shown /\ a.running = app.running /\ a.compacting = app.compacting
      /\ a.submit = app.submit /\ a.flush = app.flush /\ a.left = app.left
      /\ a.queued = app.queued /\ a.steered = app.steered
  BY <1>1, TakenIs
<1>3. /\ mail' = mail /\ deleted' = deleted /\ typed' = typed /\ insync' = insync
      /\ \/ app.running /\ Queues(a, app.draft) /\ made' = made
         \/ ~app.running /\ \E s \in Targets(a) : Started(a, s, app.draft) \/ NotStarted(a, s)
  BY DEF Submit
<1>. HIDE DEF a
<1>4. CASE app.running /\ Queues(a, app.draft) /\ made' = made
  <2>1. app.shown \in Sessions \cup {None}
    BY DEF ScreenInv, AppTyped
  <2>2. /\ app' \in App /\ app'.shown = a.shown /\ app'.running = a.running /\ app'.compacting = a.compacting
        /\ app'.submit = a.submit /\ app'.flush = a.flush /\ app'.left = a.left
        /\ app'.queued = Append(a.queued, app.draft)
        /\ \/ Steers(a) /\ Steer(a.shown, app.draft) /\ app'.steered = a.steered + 1
           \/ ~Steers(a) /\ working' = working /\ pending' = pending /\ app'.steered = a.steered
    BY <1>1, <1>2, <1>4, <2>1, QueuesIs DEF ScreenInv
  <2>3. Len(app'.queued) = Len(app.queued) + 1
    BY <1>1, <1>2, <2>2, AppendProperties
  <2>4. WorkKept /\ CoreTyped'
    <3>1. CASE Steers(a) /\ Steer(a.shown, app.draft)
      <4>1. a.shown \in Sessions
        BY <1>2, <2>1, <3>1 DEF Steers
      <4>2. /\ a.shown \in Turns /\ working' = working /\ pending' \in [Sessions -> Seq(Texts)]
            /\ \A t \in Sessions \ {a.shown} : pending'[t] = pending[t]
        BY <1>1, <3>1, <4>1, SteerIs DEF ScreenInv
      <4>3. Turns' = Turns
        BY <4>2 DEF Turns
      <4>. QED  BY <1>3, <4>2, <4>3 DEF WorkKept, ScreenInv, CoreTyped
    <3>2. CASE working' = working /\ pending' = pending
      BY <1>3, <3>2 DEF WorkKept, ScreenInv, CoreTyped, Turns
    <3>. QED  BY <2>2, <3>1, <3>2
  <2>5. QueueInv'
    <3>1. app.steered <= Len(app.queued) /\ (app.compacting => app.steered = 0 /\ app.shown \notin Turns)
      BY DEF ScreenInv, QueueInv, CompactShown
    <3>2. Steers(a) => app.shown \in Turns
      BY <1>2, <2>1, FrontendAssumption DEF Steers, TakesSteers, Turns
    <3>. QED  BY <1>1, <1>2, <1>4, <2>2, <2>3, <3>1, <3>2 DEF QueueInv
  <2>6. deleted' \subseteq made' /\ typed' \in 0..MaxTyped
    BY <1>3, <1>4 DEF ScreenInv, AppTyped
  <2>. QED  BY <1>2, <1>3, <1>4, <2>2, <2>4, <2>5, <2>6, ScreenKept
<1>5. CASE ~app.running /\ \E s \in Targets(a) : Started(a, s, app.draft) \/ NotStarted(a, s)
  <2>1. Fewer /\ BusyAfter = Busy
    BY <1>3 DEF Fewer, ScreenInv, CoreTyped, Busy, BusyAfter
  <2>2. After(a)
    BY <1>2, <1>3, <1>5, <2>1 DEF After, ScreenInv, AppTyped, QueueInv, LeftInv, CompactShown, InSync
  <2>3. CoreTyped /\ AppTyped /\ ~a.flush /\ ~a.running
    BY <1>2, <1>5 DEF ScreenInv, AppTyped
  <2>4. PICK s \in Targets(a) : Started(a, s, app.draft) \/ NotStarted(a, s)
    BY <1>5
  <2>. QED  BY <1>1, <1>2, <1>3, <2>1, <2>2, <2>3, <2>4, StartScreen, NotStartedScreen
<1>. QED  BY <1>3, <1>4, <1>5

\* A compaction is asked for when the last work's receipt was read.
LEMMA CompactScreen == ASSUME ScreenInv, Compact, ~CompactsEarly PROVE ScreenInv'
<1>. DEFINE s == app.shown
<1>1. /\ s \in Sessions /\ s \in made /\ app \in App /\ ~\E i \in DOMAIN mail : mail[i].s = s
      /\ Begin(s, "compact", None) /\ app' = [app EXCEPT !.running = TRUE, !.compacting = TRUE]
      /\ mail' = mail /\ made' = made /\ deleted' = deleted /\ typed' = typed
  BY DEF Compact, ScreenInv, AppTyped, Unread
<1>2. /\ working[s] = None /\ pending' = pending /\ s \notin Turns
      /\ working' \in [Sessions -> Jobs \cup {None}] /\ working'[s] # None
      /\ \A t \in Sessions \ {s} : working'[t] = working[t]
      /\ Turns' = Turns
  BY <1>1, BeginIs DEF ScreenInv
<1>3. /\ app' \in App /\ app'.shown = s /\ app'.running = TRUE /\ app'.compacting = TRUE
      /\ app'.queued = app.queued /\ app'.steered = app.steered /\ app'.flush = app.flush /\ app'.left = app.left
  BY <1>1 DEF App
<1>4. CoreTyped'
  BY <1>1, <1>2 DEF ScreenInv, CoreTyped, Turns
<1>5. Busy' = Busy \cup {s}
  BY <1>1, <1>2 DEF Busy
<1>6. AppTyped' /\ LeftInv'
  BY <1>1, <1>3, <1>5 DEF ScreenInv, AppTyped, LeftInv
<1>7. TurnShown' /\ InSync'
  BY <1>3 DEF TurnShown, InSync
<1>8. CompactShown'
  BY <1>1, <1>2, <1>3, <1>5 DEF CompactShown
<1>9. QueueInv'
  <2>1. ~app.compacting
    BY <1>1, <1>2 DEF ScreenInv, CompactShown, Busy
  <2>2. ~app.running
    BY <1>1, <1>2, <2>1 DEF ScreenInv, TurnShown
  <2>. QED  BY <1>3, <2>2 DEF ScreenInv, QueueInv
<1>. QED  BY <1>4, <1>6, <1>7, <1>8, <1>9 DEF ScreenInv

\* What a leave does to the core.
LEMMA LeavesIs ==
    ASSUME ScreenInv, Leaves
    PROVE  /\ WorkKept /\ CoreTyped' /\ Turns' = Turns /\ Busy' = Busy /\ pending' = pending
           /\ mail' = mail /\ made' = made /\ deleted' = deleted /\ typed' = typed
<1>1. mail' = mail /\ made' = made /\ deleted' = deleted /\ typed' = typed
  BY DEF Leaves, front
<1>2. app.shown # None => app.shown \in Sessions
  BY DEF ScreenInv, AppTyped
<1>3. CASE app.running /\ app.shown # None
  <2>1. WorkKept /\ working' \in [Sessions -> Jobs \cup {None}] /\ pending' = pending
    BY <1>2, <1>3, StopIs DEF Leaves, ScreenInv
  <2>. QED  BY <1>1, <2>1, StillTyped DEF ScreenInv
<1>4. CASE ~(app.running /\ app.shown # None)
  <2>1. working' = working /\ pending' = pending
    BY <1>4 DEF Leaves
  <2>2. WorkKept /\ working' \in [Sessions -> Jobs \cup {None}]
    BY <2>1 DEF WorkKept, ScreenInv, CoreTyped
  <2>. QED  BY <1>1, <2>1, <2>2, StillTyped DEF ScreenInv
<1>. QED  BY <1>3, <1>4

LEMMA BehindIs ==
    ASSUME ScreenInv
    PROVE  LET b == LeftBehind(app) IN
           /\ b \in App /\ b.shown = None /\ b.running = FALSE /\ b.compacting = FALSE /\ b.flush = FALSE
           /\ b.queued = <<>> /\ b.steered = 0 /\ b.left \subseteq made \cap Busy
<1>1. app \in App /\ app.steered <= Len(app.queued) /\ app.shown \in made \cup {None} /\ made \subseteq Sessions
  BY DEF ScreenInv, AppTyped, QueueInv
<1>2. /\ LeftBehind(app) \in App /\ LeftBehind(app).shown = None
      /\ LeftBehind(app).running = FALSE /\ LeftBehind(app).compacting = FALSE /\ LeftBehind(app).flush = FALSE
      /\ LeftBehind(app).left = IF app.created /\ app.shown # None /\ working[app.shown] # None
                                THEN app.left \cup {app.shown} ELSE app.left
      /\ LeftBehind(app).queued = <<>> /\ LeftBehind(app).steered = 0
  BY <1>1, LeftBehindIs
<1>3. app.left \subseteq made \cap Busy
  BY DEF ScreenInv, AppTyped, LeftInv
<1>. QED  BY <1>1, <1>2, <1>3 DEF Busy

LEMMA NewScreen == ASSUME ScreenInv, New PROVE ScreenInv'
<1>1. /\ CoreTyped' /\ Busy' = Busy /\ made' = made /\ deleted' = deleted /\ typed' = typed
  BY LeavesIs DEF New
<1>2. /\ app' \in App /\ app'.shown = None /\ app'.running = FALSE /\ app'.compacting = FALSE /\ app'.flush = FALSE
      /\ app'.queued = <<>> /\ app'.steered = 0 /\ app'.left \subseteq made \cap Busy
  BY BehindIs DEF New
<1>3. None \notin made
  BY FrontendAssumption DEF ScreenInv, AppTyped
<1>4. AppTyped' /\ LeftInv'
  BY <1>1, <1>2, <1>3 DEF ScreenInv, AppTyped, LeftInv
<1>5. TurnShown' /\ CompactShown' /\ InSync' /\ QueueInv'
  BY <1>2 DEF TurnShown, CompactShown, InSync, QueueInv
<1>. QED  BY <1>1, <1>4, <1>5 DEF ScreenInv

LEMMA ResumeScreen == ASSUME ScreenInv, NEW s \in Sessions, Resume(s) PROVE ScreenInv'
<1>. DEFINE b == LeftBehind(app)
<1>1. /\ CoreTyped' /\ Busy' = Busy /\ made' = made /\ deleted' = deleted /\ typed' = typed
  BY LeavesIs DEF Resume
<1>2. /\ b \in App /\ b.shown = None /\ b.running = FALSE /\ b.compacting = FALSE /\ b.flush = FALSE
      /\ b.queued = <<>> /\ b.steered = 0 /\ b.left \subseteq made \cap Busy
  BY BehindIs
<1>3. app' = [b EXCEPT !.shown = s, !.left = b.left \ {s}] /\ s \in made /\ (insync' => s \notin Busy)
  BY DEF Resume, Unsettled, Unread, Busy
<1>. HIDE DEF b
<1>4. app' \in App
  BY <1>2, <1>3 DEF App
<1>5. /\ app'.shown = s /\ app'.running = FALSE /\ app'.compacting = FALSE /\ app'.flush = FALSE
      /\ app'.queued = <<>> /\ app'.steered = 0 /\ app'.left = b.left \ {s}
  BY <1>2, <1>3 DEF App
<1>6. AppTyped' /\ LeftInv'
  BY <1>1, <1>2, <1>3, <1>4, <1>5 DEF ScreenInv, AppTyped, LeftInv
<1>7. TurnShown' /\ CompactShown' /\ InSync' /\ QueueInv'
  BY <1>1, <1>3, <1>5 DEF TurnShown, CompactShown, InSync, QueueInv
<1>. QED  BY <1>1, <1>6, <1>7 DEF ScreenInv

\* The session deleted has nothing running on screen.
LEMMA DeleteScreen == ASSUME ScreenInv, Delete, ~DeletesRunning PROVE ScreenInv'
<1>1. /\ app.shown \in Sessions /\ app \in App /\ ~app.running /\ Stop(app.shown) /\ app.shown \in made
      /\ app' = [app EXCEPT !.shown = None, !.created = FALSE] /\ deleted' = deleted \cup {app.shown}
      /\ mail' = mail /\ made' = made /\ typed' = typed
  BY DEF Delete, ScreenInv, AppTyped
<1>2. CoreTyped' /\ Busy' = Busy
  BY <1>1, StopIs, StillTyped DEF ScreenInv
<1>3. app' \in App
  BY <1>1 DEF App
<1>4. /\ app'.shown = None /\ app'.running = app.running /\ app'.compacting = app.compacting
      /\ app'.flush = app.flush /\ app'.queued = app.queued /\ app'.steered = app.steered /\ app'.left = app.left
  BY <1>1 DEF App
<1>5. None \notin made /\ ~app.compacting
  BY <1>1, FrontendAssumption DEF ScreenInv, AppTyped, CompactShown
<1>6. AppTyped' /\ LeftInv'
  BY <1>1, <1>2, <1>3, <1>4, <1>5 DEF ScreenInv, AppTyped, LeftInv
<1>7. TurnShown' /\ CompactShown' /\ InSync' /\ QueueInv'
  BY <1>1, <1>4, <1>5 DEF ScreenInv, TurnShown, CompactShown, InSync, QueueInv
<1>. QED  BY <1>2, <1>6, <1>7 DEF ScreenInv

-----------------------------------------------------------------------------
(* What the app does with a letter.                                        *)

\* A set of numbers that is not empty has a least one.
LEMMA LeastNumber ==
    ASSUME NEW S \in SUBSET Nat, S # {}
    PROVE  \E i \in S : \A j \in S : i <= j
<1>1. PICK i \in S : \A j \in S : <<j, i>> \notin OpToRel(<, Nat)
  BY NatLessThanWellFounded, WFMin, Zenon
<1>2. \A j \in S : ~(j < i)
  BY <1>1, Zenon DEF OpToRel
<1>. QED  BY <1>2

LEMMA UnqueuedIs ==
    ASSUME NEW a \in App, a.steered <= Len(a.queued), NEW x
    PROVE  LET b == Unqueued(a, x) IN
           /\ b \in App /\ b.shown = a.shown /\ b.running = a.running /\ b.compacting = a.compacting
           /\ b.flush = a.flush /\ b.submit = a.submit /\ b.left = a.left /\ b.draft = a.draft
           /\ b.steered <= Len(b.queued) /\ (a.steered = 0 => b.steered = 0)
           /\ \/ b.queued = a.queued /\ b.steered = a.steered /\ \A i \in 1..a.steered : a.queued[i] # x
              \/ \E k \in 1..a.steered :
                    /\ a.queued[k] = x /\ b.steered = a.steered - 1 /\ Len(b.queued) = Len(a.queued) - 1
                    /\ \A i \in 1..(Len(a.queued) - 1) : b.queued[i] = a.queued[IF i < k THEN i ELSE i + 1]
<1>. DEFINE at == {i \in 1..a.steered : a.queued[i] = x}
<1>1. a.queued \in Seq(Texts) /\ a.steered \in Nat
  BY DEF App
<1>2. CASE at = {}
  <2>1. Unqueued(a, x) = a
    BY <1>2 DEF Unqueued
  <2>. QED  BY <1>2, <2>1
<1>3. CASE at # {}
  <2>. DEFINE k == CHOOSE i \in at : \A j \in at : i <= j
              q == RemoveAt(a.queued, k)
              n == a.steered - 1
  <2>1. k \in at
    <3>1. at \in SUBSET Nat
      BY <1>1
    <3>2. \E i \in at : \A j \in at : i <= j
      BY <1>3, <3>1, LeastNumber
    <3>. QED  BY <3>2
  <2>2. k \in 1..a.steered /\ a.queued[k] = x /\ k \in 1..Len(a.queued)
    BY <1>1, <2>1
  <2>3. Unqueued(a, x) = [a EXCEPT !.queued = q, !.steered = n]
    BY <1>3 DEF Unqueued
  <2>. HIDE DEF k
  <2>4. /\ q \in Seq(Texts) /\ Len(q) = Len(a.queued) - 1
        /\ \A i \in 1..(Len(a.queued) - 1) : q[i] = a.queued[IF i < k THEN i ELSE i + 1]
    BY <1>1, <2>2, WithoutIs DEF RemoveAt, Without
  <2>5. n \in Nat /\ n <= Len(q) /\ a.steered # 0
    BY <1>1, <2>2, <2>4
  <2>6. n = a.steered - 1
    OBVIOUS
  <2>. HIDE DEF q, n
  <2>7. [a EXCEPT !.queued = q, !.steered = n] \in App
    BY <2>4, <2>5 DEF App
  <2>8. LET b == Unqueued(a, x) IN
        /\ b.shown = a.shown /\ b.running = a.running /\ b.compacting = a.compacting
        /\ b.flush = a.flush /\ b.submit = a.submit /\ b.left = a.left /\ b.draft = a.draft
        /\ b.queued = q /\ b.steered = n
    BY <2>3 DEF App
  <2>. QED  BY <2>2, <2>3, <2>4, <2>5, <2>6, <2>7, <2>8
<1>. QED  BY <1>2, <1>3

LEMMA DoneIs ==
    ASSUME NEW a \in App, NEW reason
    PROVE  LET b == Done(a, reason)
               back == reason \in {"cancelled", "error", "blocked"} IN
           /\ b \in App /\ b.shown = a.shown /\ b.running = FALSE /\ b.compacting = a.compacting
           /\ b.submit = {} /\ b.left = a.left /\ b.steered = 0
           /\ b.queued = IF back THEN <<>> ELSE a.queued
           /\ b.draft = (IF reason = "blocked" THEN a.draft \cup a.submit ELSE a.draft)
                        \cup (IF back THEN Joined(a.queued) ELSE {})
<1>. DEFINE d == IF reason = "blocked" THEN a.draft \cup a.submit ELSE a.draft
            c == [a EXCEPT !.running = FALSE, !.steered = 0, !.submit = {}, !.draft = d]
            back == reason \in {"cancelled", "error", "blocked"}
<1>1. d \in Texts /\ {} \in Texts /\ a.queued \in Seq(Texts)
  BY DEF App, Texts
<1>2. Done(a, reason) = IF back THEN Returned(c) ELSE [c EXCEPT !.flush = c.flush \/ c.queued # <<>>]
  BY DEF Done
<1>3. c \in App
  <2>. HIDE DEF d
  <2>1. \A t \in Texts, n \in Nat : [a EXCEPT !.running = FALSE, !.steered = n, !.submit = t, !.draft = d] \in App
    BY <1>1 DEF App
  <2>. QED  BY <1>1, <2>1
<1>4. /\ c.shown = a.shown /\ c.running = FALSE /\ c.compacting = a.compacting /\ c.flush = a.flush
      /\ c.submit = {} /\ c.left = a.left /\ c.draft = d /\ c.queued = a.queued /\ c.steered = 0
  BY DEF App
<1>5. c.steered <= Len(c.queued)
  BY <1>1, <1>4
<1>. HIDE DEF c, d
<1>6. CASE back
  <2>1. /\ Returned(c) \in App /\ Returned(c).shown = c.shown
        /\ Returned(c).running = c.running /\ Returned(c).compacting = c.compacting
        /\ Returned(c).submit = c.submit /\ Returned(c).left = c.left
        /\ Returned(c).queued = <<>> /\ Returned(c).draft = c.draft \cup Joined(c.queued)
        /\ Returned(c).steered = 0
    BY <1>3, <1>5, ReturnedIs
  <2>. QED  BY <1>2, <1>4, <1>6, <2>1 DEF d
<1>7. CASE ~back
  <2>. DEFINE f == c.flush \/ c.queued # <<>>
              b == [c EXCEPT !.flush = f]
  <2>1. f \in BOOLEAN
    BY <1>3 DEF App
  <2>. HIDE DEF f
  <2>2. b \in App
    BY <1>3, <2>1 DEF App
  <2>3. /\ b.shown = c.shown /\ b.running = c.running /\ b.compacting = c.compacting
        /\ b.submit = c.submit /\ b.left = c.left /\ b.draft = c.draft /\ b.queued = c.queued /\ b.steered = c.steered
    BY <1>3 DEF App
  <2>4. Done(a, reason) = b
    BY <1>2, <1>7 DEF f
  <2>. HIDE DEF b
  <2>5. d \cup {} = d
    OBVIOUS
  <2>. QED  BY <1>4, <1>7, <2>2, <2>3, <2>4, <2>5 DEF d
<1>. QED  BY <1>6, <1>7

LEMMA CompactedIs ==
    ASSUME NEW a \in App
    PROVE  LET b == Compacted(a) IN
           /\ b \in App /\ b.shown = a.shown /\ b.compacting = FALSE
           /\ b.running = (a.running /\ ~a.compacting) /\ (~a.compacting => b.flush = a.flush)
           /\ b.submit = a.submit /\ b.left = a.left /\ b.steered = a.steered /\ b.queued = a.queued /\ b.draft = a.draft
<1>1. CASE ~a.compacting
  BY <1>1 DEF Compacted, App
<1>2. CASE a.compacting
  <2>. DEFINE f == a.flush \/ a.queued # <<>>
              b == [a EXCEPT !.compacting = FALSE, !.running = FALSE, !.flush = f]
  <2>1. f \in BOOLEAN
    BY DEF App
  <2>. HIDE DEF f
  <2>2. b \in App
    BY <2>1 DEF App
  <2>3. /\ b.shown = a.shown /\ b.compacting = FALSE /\ b.running = FALSE
        /\ b.submit = a.submit /\ b.left = a.left /\ b.steered = a.steered /\ b.queued = a.queued /\ b.draft = a.draft
    BY DEF App
  <2>4. Compacted(a) = b
    BY <1>2 DEF Compacted, f
  <2>. HIDE DEF b
  <2>. QED  BY <1>2, <2>2, <2>3, <2>4
<1>. QED  BY <1>1, <1>2

LEMMA ErroredIs ==
    ASSUME NEW a \in App, a.steered <= Len(a.queued)
    PROVE  LET b == Errored(a) IN
           IF a.compacting
           THEN /\ b \in App /\ b.shown = a.shown /\ b.compacting = FALSE /\ b.running = FALSE /\ b.flush = a.flush
                /\ b.submit = a.submit /\ b.left = a.left /\ b.steered = 0 /\ b.queued = <<>>
                /\ b.draft = a.draft \cup Joined(a.queued)
           ELSE b = a
<1>1. CASE ~a.compacting
  BY <1>1 DEF Errored
<1>2. CASE a.compacting
  <2>. DEFINE c == [a EXCEPT !.compacting = FALSE, !.running = FALSE]
  <2>1. /\ c \in App /\ c.shown = a.shown /\ c.compacting = FALSE /\ c.running = FALSE /\ c.flush = a.flush
        /\ c.submit = a.submit /\ c.left = a.left /\ c.steered = a.steered /\ c.queued = a.queued /\ c.draft = a.draft
    BY DEF App
  <2>2. Errored(a) = Returned(c)
    BY <1>2 DEF Errored
  <2>. HIDE DEF c
  <2>3. /\ Returned(c) \in App /\ Returned(c).shown = c.shown
        /\ Returned(c).running = c.running /\ Returned(c).compacting = c.compacting /\ Returned(c).flush = c.flush
        /\ Returned(c).submit = c.submit /\ Returned(c).left = c.left
        /\ Returned(c).queued = <<>> /\ Returned(c).draft = c.draft \cup Joined(c.queued)
        /\ c.steered <= Len(c.queued) => Returned(c).steered = 0
    BY <2>1, ReturnedIs
  <2>. QED  BY <1>2, <2>1, <2>2, <2>3
<1>. QED  BY <1>1, <1>2

LEMMA TailIs ==
    ASSUME CoreTyped, mail # <<>>, mail' = Tail(mail)
    PROVE  /\ 1 \in DOMAIN mail /\ Head(mail) = mail[1] /\ mail[1] \in Letters /\ mail' \in Seq(Letters) /\ Fewer
           /\ Len(mail') = Len(mail) - 1 /\ DOMAIN mail = 1..Len(mail) /\ DOMAIN mail' = 1..Len(mail') /\ Len(mail) \in Nat
           /\ \A i \in DOMAIN mail' : i + 1 \in DOMAIN mail /\ mail'[i] = mail[i + 1]
           /\ \A i \in DOMAIN mail : i # 1 => i - 1 \in DOMAIN mail' /\ mail'[i - 1] = mail[i]
<1>1. mail \in Seq(Letters)
  BY DEF CoreTyped
<1>2. /\ mail' \in Seq(Letters) /\ Len(mail') = Len(mail) - 1 /\ Len(mail) \in Nat /\ Len(mail') \in Nat
      /\ \A i \in 1..Len(mail') : mail'[i] = mail[i + 1]
  BY <1>1, HeadTailProperties
<1>3. DOMAIN mail = 1..Len(mail) /\ DOMAIN mail' = 1..Len(mail') /\ Head(mail) = mail[1]
  BY <1>1, <1>2
<1>4. 1 \in DOMAIN mail /\ mail[1] \in Letters
  BY <1>1, <1>2, <1>3
<1>5. \A i \in DOMAIN mail' : i + 1 \in DOMAIN mail /\ mail'[i] = mail[i + 1]
  BY <1>2, <1>3
<1>6. \A i \in DOMAIN mail : i # 1 => i - 1 \in DOMAIN mail' /\ mail'[i - 1] = mail[i]
  <2>. SUFFICES ASSUME NEW i \in 1..Len(mail), i # 1
                PROVE  i - 1 \in DOMAIN mail' /\ mail'[i - 1] = mail[i]
    BY <1>3
  <2>1. i - 1 \in 1..Len(mail')
    BY <1>2
  <2>2. mail'[i - 1] = mail[(i - 1) + 1] /\ (i - 1) + 1 = i
    BY <1>2, <2>1
  <2>. QED  BY <1>3, <2>1, <2>2
<1>. QED  BY <1>2, <1>3, <1>4, <1>5, <1>6 DEF Fewer

LEMMA AfterSame ==
    ASSUME NEW a, NEW b, After(a), b.shown = a.shown, b.running = a.running, b.compacting = a.compacting,
           b.submit = a.submit, b.left = a.left, b.steered <= Len(b.queued), ~b.running \/ b.compacting => b.steered = 0
    PROVE  After(b)
BY DEF After

\* The next queued text goes out, or none does.
LEMMA FlushScreen ==
    ASSUME CoreTyped, AppTyped, Fewer, NEW a \in App, After(a), Flushed(a), deleted' = deleted, typed' = typed
    PROVE  ScreenInv'
<1>1. CASE ~a.flush \/ a.running \/ a.queued = <<>>
  <2>1. app' = [a EXCEPT !.flush = FALSE] /\ working' = working /\ pending' = pending /\ made' = made
    BY <1>1 DEF Flushed
  <2>2. /\ app' \in App /\ ~app'.flush /\ app'.shown = a.shown /\ app'.running = a.running
        /\ app'.compacting = a.compacting /\ app'.submit = a.submit /\ app'.left = a.left
        /\ app'.queued = a.queued /\ app'.steered = a.steered
    BY <2>1 DEF App
  <2>3. QueueInv'
    BY <2>2 DEF After, QueueInv
  <2>4. a.shown \in Sessions \cup {None} /\ made' = IF a.shown = None THEN made ELSE made \cup {a.shown}
    BY <2>1 DEF After, AppTyped
  <2>. QED  BY <2>1, <2>2, <2>3, <2>4, IdleScreen
<1>2. CASE a.flush /\ ~a.running /\ a.queued # <<>>
  <2>. DEFINE c == [a EXCEPT !.flush = FALSE]
              q == Tail(a.queued)
              b == [a EXCEPT !.flush = FALSE, !.queued = q]
  <2>1. PICK s \in Targets(b) : Started(b, s, Head(a.queued)) \/ NotStarted(Returned(c), s)
    BY <1>2 DEF Flushed
  <2>2. a.queued \in Seq(Texts) /\ a.steered = 0
    BY <1>2 DEF After, App
  <2>3. Head(a.queued) \in Texts /\ q \in Seq(Texts) /\ 0 <= Len(q) /\ 0 <= Len(a.queued)
    BY <1>2, <2>2, HeadTailProperties
  <2>. HIDE DEF q
  <2>4. /\ b \in App /\ b.shown = a.shown /\ b.running = a.running /\ b.compacting = a.compacting /\ ~b.flush
        /\ b.submit = a.submit /\ b.left = a.left /\ b.steered = a.steered /\ b.queued = q
    BY <2>3 DEF App
  <2>5. /\ c \in App /\ c.shown = a.shown /\ c.running = a.running /\ c.compacting = a.compacting /\ ~c.flush
        /\ c.submit = a.submit /\ c.left = a.left /\ c.steered = a.steered /\ c.queued = a.queued
    BY DEF App
  <2>6. Targets(b) = Targets(Returned(c))
    <3>1. Returned(c).shown = b.shown
      BY <2>4, <2>5, ReturnedIs
    <3>. HIDE DEF b, c
    <3>. QED  BY <3>1 DEF Targets
  <2>. HIDE DEF b, c
  <2>7. /\ Returned(c) \in App /\ Returned(c).shown = a.shown /\ Returned(c).running = a.running
        /\ Returned(c).compacting = a.compacting /\ ~Returned(c).flush /\ Returned(c).submit = a.submit
        /\ Returned(c).left = a.left /\ Returned(c).queued = <<>> /\ Returned(c).steered = 0
    BY <2>2, <2>3, <2>5, ReturnedIs
  <2>8. CASE Started(b, s, Head(a.queued))
    <3>1. After(b)
      BY <2>2, <2>3, <2>4, AfterSame
    <3>. QED  BY <1>2, <2>1, <2>3, <2>4, <2>8, <3>1, StartScreen
  <2>9. CASE NotStarted(Returned(c), s)
    <3>1. After(Returned(c))
      BY <2>7, AfterSame
    <3>. QED  BY <1>2, <2>1, <2>6, <2>7, <2>9, <3>1, NotStartedScreen
  <2>. QED  BY <2>1, <2>8, <2>9
<1>. QED  BY <1>1, <1>2

\* A letter of another session.
LEMMA OverheardAfter ==
    ASSUME ScreenInv, mail # <<>>, mail' = Tail(mail), Head(mail).s # app.shown, insync' => insync
    PROVE  Overheard(app, Head(mail).s) \in App /\ After(Overheard(app, Head(mail).s))
<1>. DEFINE t == Head(mail).s
            b == Overheard(app, t)
<1>1. /\ 1 \in DOMAIN mail /\ t = mail[1].s /\ Len(mail') = Len(mail) - 1 /\ Len(mail) \in Nat
      /\ DOMAIN mail = 1..Len(mail) /\ DOMAIN mail' = 1..Len(mail')
      /\ \A i \in DOMAIN mail' : i + 1 \in DOMAIN mail /\ mail'[i] = mail[i + 1]
      /\ \A i \in DOMAIN mail : i # 1 => i - 1 \in DOMAIN mail' /\ mail'[i - 1] = mail[i]
  BY TailIs DEF ScreenInv
<1>2. app \in App
  BY DEF ScreenInv, AppTyped
<1>. HIDE DEF t
<1>3. /\ b \in App /\ b.shown = app.shown /\ b.running = app.running /\ b.compacting = app.compacting
      /\ b.submit = app.submit /\ b.steered = app.steered /\ b.queued = app.queued
      /\ b.left = IF working[t] = None THEN app.left \ {t} ELSE app.left
  <2>1. CASE working[t] = None
    <3>. DEFINE l == app.left \ {t}
    <3>1. l \subseteq Sessions
      BY <1>2 DEF App
    <3>2. b = [app EXCEPT !.left = l]
      BY <2>1 DEF Overheard
    <3>. HIDE DEF l
    <3>3. b \in App
      BY <1>2, <3>1, <3>2 DEF App
    <3>4. /\ b.shown = app.shown /\ b.running = app.running /\ b.compacting = app.compacting
          /\ b.submit = app.submit /\ b.steered = app.steered /\ b.queued = app.queued /\ b.left = l
      BY <1>2, <3>2 DEF App
    <3>. QED  BY <2>1, <3>3, <3>4 DEF l
  <2>2. CASE working[t] # None
    BY <1>2, <2>2 DEF Overheard
  <2>. QED  BY <2>1, <2>2
<1>. HIDE DEF b
<1>4. \A s \in Busy : s \in BusyAfter \/ (s = t /\ working[t] = None)
  <2>. TAKE s \in Busy
  <2>1. CASE working[s] # None
    BY <2>1 DEF Busy, BusyAfter
  <2>2. CASE working[s] = None /\ s # t
    <3>1. PICK i \in DOMAIN mail : mail[i].s = s
      BY <2>2 DEF Busy
    <3>2. i - 1 \in DOMAIN mail' /\ mail'[i - 1].s = s
      BY <1>1, <2>2, <3>1
    <3>. QED  BY <3>2 DEF Busy, BusyAfter
  <2>. QED  BY <2>1, <2>2
<1>5. \A s \in BusyAfter : s \in Busy
  BY <1>1 DEF Busy, BusyAfter
<1>6. mail[1].s # app.shown
  BY <1>1 DEF t
<1>7. \A i \in DOMAIN mail : mail[i].s = app.shown => i - 1 \in DOMAIN mail' /\ mail'[i - 1] = mail[i]
  BY <1>1, <1>6
<1>8. b.left \subseteq (made \ {b.shown}) \cap BusyAfter
  BY <1>3, <1>4 DEF ScreenInv, AppTyped, LeftInv
<1>9. b.shown \in made \cup {None} /\ b.steered <= Len(b.queued) /\ (~b.running \/ b.compacting => b.steered = 0)
  BY <1>3 DEF ScreenInv, AppTyped, QueueInv
<1>10. b.running /\ ~b.compacting =>
          /\ b.shown # None
          /\ b.shown \in Turns \/ \E i \in DOMAIN mail' : mail'[i].s = b.shown /\ mail'[i].kind = "done"
  BY <1>3, <1>7 DEF ScreenInv, TurnShown
<1>11. b.compacting =>
          /\ b.running /\ b.shown \in BusyAfter \ Turns
          /\ \A i \in DOMAIN mail' : mail'[i].s = b.shown =>
                /\ mail'[i].kind \in {"error", "compacted"}
                /\ mail'[i].kind = "compacted" =>
                      working[b.shown] = None /\ \A j \in DOMAIN mail' : mail'[j].s = b.shown => j <= i
  <2>. SUFFICES ASSUME app.compacting
                PROVE  /\ app.running /\ app.shown \in BusyAfter \ Turns
                       /\ \A i \in DOMAIN mail' : mail'[i].s = app.shown =>
                             /\ mail'[i].kind \in {"error", "compacted"}
                             /\ mail'[i].kind = "compacted" =>
                                   working[app.shown] = None /\ \A j \in DOMAIN mail' : mail'[j].s = app.shown => j <= i
    BY <1>3
  <2>1. app.running /\ app.shown \in BusyAfter \ Turns
    BY <1>1, <1>4, <1>6 DEF ScreenInv, CompactShown
  <2>2. \A i \in DOMAIN mail : mail[i].s = app.shown =>
            /\ mail[i].kind \in {"error", "compacted"}
            /\ mail[i].kind = "compacted" =>
                  working[app.shown] = None /\ \A j \in DOMAIN mail : mail[j].s = app.shown => j <= i
    BY DEF ScreenInv, CompactShown
  <2>. QED  BY <1>1, <2>1, <2>2
<1>12. insync' /\ b.shown # None =>
          /\ ~b.running => b.shown \notin BusyAfter
          /\ b.running /\ ~b.compacting =>
                /\ \A i \in DOMAIN mail' : mail'[i].s = b.shown =>
                      /\ mail'[i].kind \in OfSteer \cup {"done"}
                      /\ mail'[i].kind = "done" =>
                            working[b.shown] = None /\ \A j \in DOMAIN mail' : mail'[j].s = b.shown => j <= i
                      /\ mail'[i].why = "blocked" => mail'[i].of = b.submit
                /\ working[b.shown] # None => b.shown \in Turns /\ working[b.shown].prompt = b.submit
  BY <1>1, <1>3, <1>5 DEF ScreenInv, InSync
<1>. QED  BY <1>3, <1>8, <1>9, <1>10, <1>11, <1>12 DEF After, b, t

\* What the app makes of a letter of the session it shows, as far as the
\* screen goes: a turn's steer, its end, a compaction's end or its error.
LEMMA HeardIs ==
    ASSUME ScreenInv, NEW e, e.kind \in Kinds, e.kind \in OfSteer => e.x \in Texts
    PROVE  LET b == Heard(app, e) IN
           /\ b \in App /\ b.shown = app.shown /\ b.left = app.left /\ b.steered <= Len(b.queued)
           /\ e.kind \in OfSteer => /\ b.running = app.running /\ b.compacting = app.compacting /\ b.submit = app.submit
                                    /\ (app.steered = 0 => b.steered = 0)
           /\ e.kind = "done" => b.running = FALSE /\ b.compacting = app.compacting /\ b.steered = 0
           /\ e.kind \in {"compacted", "error"} =>
                 IF app.compacting THEN b.running = FALSE /\ b.compacting = FALSE /\ b.steered = 0 ELSE b = app
<1>1. /\ app \in App /\ app.steered <= Len(app.queued) /\ (app.compacting => app.steered = 0)
      /\ app.queued \in Seq(Texts) /\ app.draft \in Texts
  BY DEF ScreenInv, AppTyped, QueueInv, App
<1>2. CASE e.kind = "accepted"
  <2>1. Heard(app, e) = Unqueued(app, e.x)
    BY <1>2 DEF Heard
  <2>. QED  BY <1>1, <1>2, <2>1, UnqueuedIs
<1>3. CASE e.kind = "blocked"
  <2>. DEFINE u == Unqueued(app, e.x)
              d == u.draft \cup e.x
  <2>1. Heard(app, e) = [u EXCEPT !.draft = d]
    BY <1>3 DEF Heard
  <2>2. /\ u \in App /\ u.shown = app.shown /\ u.running = app.running /\ u.compacting = app.compacting
        /\ u.submit = app.submit /\ u.left = app.left
        /\ u.steered <= Len(u.queued) /\ (app.steered = 0 => u.steered = 0)
    BY <1>1, UnqueuedIs
  <2>3. d \in Texts
    <3>1. e.x \in Texts /\ u.draft \in Texts
      BY <1>3, <2>2 DEF OfSteer, App
    <3>. QED  BY <3>1 DEF Texts
  <2>. HIDE DEF u, d
  <2>4. LET b == [u EXCEPT !.draft = d] IN
        /\ b \in App /\ b.shown = u.shown /\ b.running = u.running /\ b.compacting = u.compacting
        /\ b.submit = u.submit /\ b.left = u.left /\ b.queued = u.queued /\ b.steered = u.steered
    BY <2>2, <2>3 DEF App
  <2>. QED  BY <1>3, <2>1, <2>2, <2>4 DEF OfSteer
<1>4. CASE e.kind = "done"
  <2>0. PICK reason : reason = e.why
    OBVIOUS
  <2>1. Heard(app, e) = Done(app, reason)
    BY <1>4, <2>0 DEF Heard
  <2>2. app.queued = app.queued /\ <<>> \in Seq(Texts) /\ 0 <= Len(<<>>) /\ 0 <= Len(app.queued)
    BY <1>1
  <2>. DEFINE b == Done(app, reason)
  <2>3. /\ b \in App /\ b.shown = app.shown /\ b.running = FALSE /\ b.compacting = app.compacting
        /\ b.left = app.left /\ b.steered = 0 /\ (b.queued = <<>> \/ b.queued = app.queued)
    <3>1. /\ b \in App /\ b.shown = app.shown /\ b.running = FALSE /\ b.compacting = app.compacting
          /\ b.left = app.left /\ b.steered = 0
          /\ b.queued = IF reason \in {"cancelled", "error", "blocked"} THEN <<>> ELSE app.queued
      BY <1>1, DoneIs
    <3>. HIDE DEF b
    <3>. QED  BY <3>1
  <2>. HIDE DEF b
  <2>4. b.steered <= Len(b.queued)
    BY <2>2, <2>3
  <2>. QED  BY <1>4, <2>1, <2>3, <2>4 DEF OfSteer, b
<1>5. CASE e.kind = "compacted"
  <2>1. Heard(app, e) = Compacted(app)
    BY <1>5 DEF Heard
  <2>2. ~app.compacting => Compacted(app) = app
    BY DEF Compacted
  <2>. DEFINE b == Compacted(app)
  <2>3. /\ b \in App /\ b.shown = app.shown /\ b.left = app.left /\ b.steered = app.steered /\ b.queued = app.queued
        /\ app.compacting => b.running = FALSE /\ b.compacting = FALSE
    BY <1>1, CompactedIs
  <2>. HIDE DEF b
  <2>. QED  BY <1>1, <1>5, <2>1, <2>2, <2>3 DEF OfSteer, b
<1>6. CASE e.kind = "error"
  <2>1. Heard(app, e) = Errored(app)
    BY <1>6 DEF Heard
  <2>. DEFINE b == Errored(app)
  <2>2. app.compacting => /\ b \in App /\ b.shown = app.shown /\ b.left = app.left /\ b.steered = 0 /\ b.queued = <<>>
                          /\ b.running = FALSE /\ b.compacting = FALSE
    BY <1>1, ErroredIs
  <2>3. ~app.compacting => b = app
    BY <1>1, ErroredIs
  <2>. HIDE DEF b
  <2>4. b \in App /\ b.shown = app.shown /\ b.left = app.left /\ b.steered <= Len(b.queued)
    BY <1>1, <2>2, <2>3
  <2>. QED  BY <1>6, <2>1, <2>2, <2>3, <2>4 DEF OfSteer, b
<1>. QED  BY <1>2, <1>3, <1>4, <1>5, <1>6 DEF Kinds

LEMMA HeardAfter ==
    ASSUME ScreenInv, mail # <<>>, mail' = Tail(mail), Head(mail).s = app.shown,
           insync' = (insync /\ ~(Head(mail).kind = "error" /\ app.compacting /\ Unsettled(app.shown, Tail(mail))))
    PROVE  Heard(app, Head(mail)) \in App /\ After(Heard(app, Head(mail)))
<1>. DEFINE e == Head(mail)
            b == Heard(app, e)
            s == app.shown
<1>1. /\ 1 \in DOMAIN mail /\ e = mail[1] /\ e \in Letters /\ Len(mail') = Len(mail) - 1 /\ Len(mail) \in Nat
      /\ DOMAIN mail = 1..Len(mail) /\ DOMAIN mail' = 1..Len(mail')
      /\ \A i \in DOMAIN mail' : i + 1 \in DOMAIN mail /\ mail'[i] = mail[i + 1]
      /\ \A i \in DOMAIN mail : i # 1 => i - 1 \in DOMAIN mail' /\ mail'[i - 1] = mail[i]
  BY TailIs DEF ScreenInv
<1>2. /\ app \in App /\ app.running \in BOOLEAN /\ app.compacting \in BOOLEAN
      /\ e.kind \in Kinds /\ e.s = s /\ s \in Sessions /\ s # None
      /\ e.kind \in OfSteer => e.x \in Texts
  <2>1. app \in App /\ e.kind \in Kinds /\ e.s = s /\ s \in Sessions
    BY <1>1 DEF ScreenInv, AppTyped, Letters
  <2>2. e.kind \in OfSteer => e.x \in Texts
    BY <1>1 DEF ScreenInv, CoreTyped
  <2>. QED  BY <2>1, <2>2, FrontendAssumption DEF App
<1>. HIDE DEF e
<1>3. /\ b \in App /\ b.shown = s /\ b.left = app.left /\ b.steered <= Len(b.queued)
      /\ e.kind \in OfSteer => /\ b.running = app.running /\ b.compacting = app.compacting /\ b.submit = app.submit
                               /\ (app.steered = 0 => b.steered = 0)
      /\ e.kind = "done" => b.running = FALSE /\ b.compacting = app.compacting /\ b.steered = 0
      /\ e.kind \in {"compacted", "error"} =>
            IF app.compacting THEN b.running = FALSE /\ b.compacting = FALSE /\ b.steered = 0 ELSE b = app
  BY <1>2, HeardIs
<1>. HIDE DEF b, s
<1>4. s \in Busy /\ (s \in BusyAfter <=> working[s] # None \/ \E i \in DOMAIN mail : i # 1 /\ mail[i].s = s)
  <2>1. (\E i \in DOMAIN mail' : mail'[i].s = s) <=> \E i \in DOMAIN mail : i # 1 /\ mail[i].s = s
    <3>1. \A i \in DOMAIN mail' : i + 1 # 1
      BY <1>1
    <3>. QED  BY <1>1, <3>1
  <2>2. \E i \in DOMAIN mail : mail[i].s = s
    BY <1>1, <1>2
  <2>. QED  BY <1>2, <2>1, <2>2 DEF Busy, BusyAfter
<1>5. b.left \subseteq (made \ {b.shown}) \cap BusyAfter
  <2>. SUFFICES ASSUME NEW t \in app.left
                PROVE  t \in made /\ t # s /\ t \in BusyAfter
    BY <1>3
  <2>1. t \in made /\ t # s /\ t \in Busy
    BY DEF ScreenInv, AppTyped, LeftInv, s
  <2>2. \A i \in DOMAIN mail : mail[i].s = t => i - 1 \in DOMAIN mail' /\ mail'[i - 1].s = t
    BY <1>1, <1>2, <2>1
  <2>. QED  BY <2>1, <2>2 DEF Busy, BusyAfter
<1>6. b.shown \in made \cup {None} /\ b.steered <= Len(b.queued)
  BY <1>3 DEF ScreenInv, AppTyped, s
<1>7. app.running /\ ~app.compacting => s \in Turns \/ \E i \in DOMAIN mail : mail[i].s = s /\ mail[i].kind = "done"
  BY DEF ScreenInv, TurnShown, s
<1>8. app.compacting =>
          /\ app.running /\ s \notin Turns /\ e.kind \in {"error", "compacted"}
          /\ e.kind = "compacted" => working[s] = None /\ \A j \in DOMAIN mail : mail[j].s = s => j <= 1
  BY <1>1, <1>2 DEF ScreenInv, CompactShown, s
<1>9. insync => app.running
  BY <1>2, <1>4 DEF ScreenInv, InSync, s
<1>10. insync /\ ~app.compacting =>
          /\ \A i \in DOMAIN mail : mail[i].s = s =>
                /\ mail[i].kind \in OfSteer \cup {"done"}
                /\ mail[i].kind = "done" =>
                      working[s] = None /\ \A j \in DOMAIN mail : mail[j].s = s => j <= i
                /\ mail[i].why = "blocked" => mail[i].of = app.submit
          /\ working[s] # None => s \in Turns /\ working[s].prompt = app.submit
  BY <1>2, <1>9 DEF ScreenInv, InSync, s
<1>11. app.steered = 0 \/ (app.running /\ ~app.compacting)
  BY DEF ScreenInv, QueueInv
<1>12. CASE e.kind \in OfSteer
  <2>1. /\ ~app.compacting /\ b.running = app.running /\ b.compacting = app.compacting /\ b.submit = app.submit
        /\ app.steered = 0 => b.steered = 0
        /\ insync' => insync
    BY <1>3, <1>8, <1>12 DEF OfSteer
  <2>2. b.running /\ ~b.compacting =>
            b.shown \in Turns \/ \E i \in DOMAIN mail' : mail'[i].s = b.shown /\ mail'[i].kind = "done"
    <3>1. e.kind # "done"
      BY <1>12 DEF OfSteer
    <3>2. \A i \in DOMAIN mail : mail[i].kind = "done" => i - 1 \in DOMAIN mail' /\ mail'[i - 1] = mail[i]
      BY <1>1, <3>1
    <3>. QED  BY <1>3, <1>7, <2>1, <3>2
  <2>3. insync' =>
            /\ b.running
            /\ \A i \in DOMAIN mail' : mail'[i].s = s =>
                  /\ mail'[i].kind \in OfSteer \cup {"done"}
                  /\ mail'[i].kind = "done" =>
                        working[s] = None /\ \A j \in DOMAIN mail' : mail'[j].s = s => j <= i
                  /\ mail'[i].why = "blocked" => mail'[i].of = b.submit
            /\ working[s] # None => s \in Turns /\ working[s].prompt = b.submit
    BY <1>1, <1>9, <1>10, <2>1
  <2>. QED  BY <1>2, <1>3, <1>5, <1>6, <1>11, <2>1, <2>2, <2>3 DEF After, b, e
<1>13. CASE e.kind = "done"
  <2>1. b.running = FALSE /\ b.compacting = FALSE /\ b.steered = 0
    BY <1>2, <1>3, <1>8, <1>13
  <2>2. insync' => s \notin BusyAfter
    <3>1. insync' => working[s] = None /\ \A j \in DOMAIN mail : mail[j].s = s => j <= 1
      <4>1. insync' => insync /\ ~app.compacting
        BY <1>8, <1>13
      <4>. QED  BY <1>1, <1>2, <1>10, <1>13, <4>1
    <3>2. \A j \in DOMAIN mail : j <= 1 => j = 1
      BY <1>1
    <3>. QED  BY <1>4, <3>1, <3>2
  <2>. QED  BY <1>3, <1>5, <1>6, <2>1, <2>2 DEF After, b, e
<1>14. CASE e.kind \in {"compacted", "error"} /\ app.compacting
  <2>1. b.running = FALSE /\ b.compacting = FALSE /\ b.steered = 0
    BY <1>3, <1>14
  <2>2. insync' => s \notin BusyAfter
    <3>1. CASE e.kind = "compacted"
      <4>1. \A j \in DOMAIN mail : j <= 1 => j = 1
        BY <1>1
      <4>. QED  BY <1>4, <1>8, <1>14, <3>1, <4>1
    <3>2. CASE e.kind = "error"
      <4>1. insync' => ~Unsettled(s, mail')
        BY <1>14, <3>2 DEF e, s
      <4>. QED  BY <4>1 DEF Unsettled, Unread, BusyAfter
    <3>. QED  BY <1>14, <3>1, <3>2
  <2>. QED  BY <1>3, <1>5, <1>6, <2>1, <2>2 DEF After, b, e
<1>15. CASE e.kind \in {"compacted", "error"} /\ ~app.compacting
  <2>1. b = app
    BY <1>3, <1>15
  <2>2. ~insync
    BY <1>1, <1>2, <1>10, <1>15 DEF OfSteer
  <2>3. app.running => s \in Turns \/ \E i \in DOMAIN mail' : mail'[i].s = s /\ mail'[i].kind = "done"
    <3>1. e.kind # "done"
      BY <1>15
    <3>2. \A i \in DOMAIN mail : mail[i].kind = "done" => i - 1 \in DOMAIN mail' /\ mail'[i - 1] = mail[i]
      BY <1>1, <3>1
    <3>. QED  BY <1>7, <1>15, <3>2
  <2>. QED  BY <1>2, <1>3, <1>5, <1>6, <1>11, <1>15, <2>1, <2>2, <2>3 DEF After, b, e, s
<1>. QED  BY <1>2, <1>12, <1>13, <1>14, <1>15 DEF Kinds, OfSteer

\* What a read makes of the app before the next text goes out.
LEMMA ReadAfter ==
    ASSUME ScreenInv, Read
    PROVE  LET e == Head(mail)
               a == IF e.s = app.shown THEN Heard(app, e) ELSE Overheard(app, e.s)
           IN  a \in App /\ After(a) /\ Flushed(a)
<1>. DEFINE e == Head(mail)
            a == IF e.s = app.shown THEN Heard(app, e) ELSE Overheard(app, e.s)
<1>1. /\ mail # <<>> /\ mail' = Tail(mail) /\ Flushed(a)
      /\ insync' = (insync /\ ~(e.s = app.shown /\ e.kind = "error" /\ app.compacting /\ Unsettled(e.s, Tail(mail))))
  BY DEF Read
<1>2. CASE e.s = app.shown
  <2>1. insync' = (insync /\ ~(Head(mail).kind = "error" /\ app.compacting /\ Unsettled(app.shown, Tail(mail))))
    BY <1>1, <1>2
  <2>. QED  BY <1>1, <1>2, <2>1, HeardAfter
<1>3. CASE e.s # app.shown
  <2>1. insync' => insync
    BY <1>1
  <2>. QED  BY <1>1, <1>3, <2>1, OverheardAfter
<1>. QED  BY <1>2, <1>3

LEMMA ReadScreen == ASSUME ScreenInv, Read PROVE ScreenInv'
<1>. DEFINE e == Head(mail)
            a == IF e.s = app.shown THEN Heard(app, e) ELSE Overheard(app, e.s)
<1>1. /\ mail # <<>> /\ mail' = Tail(mail) /\ deleted' = deleted /\ typed' = typed
  BY DEF Read
<1>2. a \in App /\ After(a) /\ Flushed(a)
  BY ReadAfter
<1>. HIDE DEF a
<1>3. CoreTyped /\ AppTyped /\ Fewer
  BY <1>1, TailIs DEF ScreenInv
<1>. QED  BY <1>1, <1>2, <1>3, FlushScreen

-----------------------------------------------------------------------------

LEMMA ScreenInit == FInit => ScreenInv
<1>. SUFFICES ASSUME FInit PROVE ScreenInv
  OBVIOUS
<1>1. /\ working = [s \in Sessions |-> None] /\ pending = [s \in Sessions |-> <<>>] /\ mail = <<>>
      /\ made = {} /\ deleted = {} /\ typed = 0
  BY DEF FInit, Init
<1>2. /\ app \in App /\ app.shown = None /\ app.running = FALSE /\ app.compacting = FALSE
      /\ app.queued = <<>> /\ app.steered = 0 /\ app.flush = FALSE /\ app.left = {}
  <2>1. {} \in Texts /\ <<>> \in Seq(Texts)
    BY DEF Texts
  <2>2. app = [shown |-> None, created |-> FALSE, running |-> FALSE, compacting |-> FALSE,
               queued |-> <<>>, steered |-> 0, flush |-> FALSE, submit |-> {}, draft |-> {}, left |-> {}]
    BY DEF FInit
  <2>. QED  BY <2>1, <2>2 DEF App
<1>3. Turns = {} /\ Busy = {}
  BY <1>1 DEF Turns, Busy
<1>4. CoreTyped
  BY <1>1, <1>3 DEF CoreTyped
<1>5. AppTyped /\ LeftInv
  BY <1>1, <1>2, <1>3, FrontendAssumption DEF AppTyped, LeftInv
<1>6. TurnShown /\ CompactShown /\ InSync /\ QueueInv
  BY <1>2 DEF TurnShown, CompactShown, InSync, QueueInv
<1>. QED  BY <1>4, <1>5, <1>6 DEF ScreenInv

\* Where the user deletes no session at work, and asks for a compaction when
\* the last work's receipt was read.
LEMMA ScreenNext ==
    ASSUME ScreenInv, [FNext]_vars, ~DeletesRunning, ~CompactsEarly
    PROVE  ScreenInv'
<1>1. CASE Type
  BY <1>1, TypeScreen
<1>2. CASE Submit
  BY <1>2, SubmitScreen
<1>3. CASE Up
  BY <1>3, UpScreen
<1>4. CASE Esc
  BY <1>4, EscScreen
<1>5. CASE Compact
  BY <1>5, CompactScreen
<1>6. CASE New
  BY <1>6, NewScreen
<1>7. CASE Delete
  BY <1>7, DeleteScreen
<1>8. CASE Read
  BY <1>8, ReadScreen
<1>9. ASSUME NEW s \in Sessions, Resume(s) PROVE ScreenInv'
  BY <1>9, ResumeScreen
<1>10. ASSUME NEW s \in Sessions, CoreWorks(s) PROVE ScreenInv'
  BY <1>10, CoreScreen
<1>11. CASE UNCHANGED vars
  <2>1. WorkKept /\ mail' = mail /\ app' = app /\ insync' = insync /\ made' = made /\ deleted' = deleted /\ typed' = typed
        /\ working' = working /\ pending' = pending
    BY <1>11 DEF vars, core, front, history, WorkKept
  <2>. QED  BY <2>1 DEF ScreenInv, CoreTyped, AppTyped, TurnShown, CompactShown, InSync, QueueInv, LeftInv, Turns, Busy
<1>. QED  BY <1>1, <1>2, <1>3, <1>4, <1>5, <1>6, <1>7, <1>8, <1>9, <1>10, <1>11 DEF FNext

LEMMA ScreenShows == ScreenInv => ShowsWhatIs
<1>. SUFFICES ASSUME ScreenInv PROVE ShowsWhatIs
  OBVIOUS
<1>1. FTypeOK
  BY DEF ScreenInv, AppTyped, FTypeOK
<1>2. SpinnerTrue
  <2>1. CASE app.running /\ app.compacting
    BY <2>1, FrontendAssumption DEF ScreenInv, CompactShown, SpinnerTrue, Unsettled, Unread, Busy
  <2>2. CASE app.running /\ ~app.compacting
    BY <2>2 DEF ScreenInv, TurnShown, SpinnerTrue, Unsettled, Unread, Turns
  <2>. QED  BY <2>1, <2>2 DEF SpinnerTrue
<1>3. IdleTrue
  BY DEF ScreenInv, InSync, AppTyped, IdleTrue, Busy
<1>4. LeftSettles
  BY DEF ScreenInv, LeftInv, LeftSettles, Unsettled, Unread, Busy
<1>. QED  BY <1>1, <1>2, <1>3, <1>4 DEF ShowsWhatIs

THEOREM ScreenInvariant ==
    ASSUME ~DeletesRunning, ~CompactsEarly
    PROVE  FSpec => []ScreenInv
<1>1. FInit => ScreenInv
  BY ScreenInit
<1>2. ScreenInv /\ [FNext]_vars => ScreenInv'
  BY ScreenNext
<1>. QED  BY <1>1, <1>2, PTL DEF FSpec

\* What the app shows as running is so, whatever is on its way to it: for any
\* sessions and any texts (app.rs:2999, :3274, :3355).
THEOREM ShowsTruth ==
    ASSUME ~DeletesRunning, ~CompactsEarly
    PROVE  FSpec => []ShowsWhatIs
<1>. QED  BY ScreenInvariant, ScreenShows, PTL

-----------------------------------------------------------------------------
(* Where the texts are.                                                    *)

\* What was accepted the core has; and nothing is anywhere that was not typed.
AcceptedSaid == \A i \in DOMAIN mail : mail[i].kind = "accepted" => mail[i].x \subseteq said
AllTyped ==
    /\ Held \cup app.submit \cup said \subseteq 1..typed
    /\ \A s \in Turns : working[s].prompt \subseteq 1..typed
    /\ \A s \in Sessions : \A k \in DOMAIN pending[s] : pending[s][k] \subseteq 1..typed
    /\ \A i \in DOMAIN mail : /\ mail[i].kind \in OfSteer => mail[i].x \subseteq 1..typed
                              /\ mail[i].kind = "done" => mail[i].of \subseteq 1..typed
TextInv == AcceptedSaid /\ AllTyped /\ TextsKept

HeldIn(a) == a.draft \cup Joined(a.queued)

LEMMA JoinedIs ==
    ASSUME NEW q \in Seq(Texts), NEW y
    PROVE  y \in Joined(q) <=> \E i \in 1..Len(q) : y \in q[i]
<1>1. DOMAIN q = 1..Len(q)
  OBVIOUS
<1>. QED  BY <1>1 DEF Joined

LEMMA JoinedTyped == ASSUME NEW q \in Seq(Texts) PROVE Joined(q) \in Texts
<1>1. \A i \in DOMAIN q : q[i] \in Texts
  OBVIOUS
<1>. QED  BY <1>1 DEF Joined, Texts

\* What is taken out of a queue, or put in it, is what is no more, or newly, in it.
LEMMA JoinedWithout ==
    ASSUME NEW q \in Seq(Texts), NEW r \in Seq(Texts), NEW k \in 1..Len(q), Len(r) = Len(q) - 1,
           \A i \in 1..(Len(q) - 1) : r[i] = q[IF i < k THEN i ELSE i + 1]
    PROVE  Joined(q) = q[k] \cup Joined(r)
<1>1. ASSUME NEW y \in Joined(q) PROVE y \in q[k] \cup Joined(r)
  <2>1. PICK i \in 1..Len(q) : y \in q[i]
    BY JoinedIs
  <2>2. CASE i = k
    BY <2>1, <2>2
  <2>3. CASE i < k
    <3>1. i \in 1..(Len(q) - 1) /\ r[i] = q[i]
      BY <2>3
    <3>. QED  BY <2>1, <3>1, JoinedIs
  <2>4. CASE i > k
    <3>. DEFINE j == i - 1
    <3>1. j \in 1..(Len(q) - 1) /\ ~(j < k) /\ j + 1 = i
      BY <2>4
    <3>. HIDE DEF j
    <3>2. r[j] = q[i]
      BY <3>1
    <3>. QED  BY <2>1, <3>1, <3>2, JoinedIs
  <2>. QED  BY <2>2, <2>3, <2>4
<1>2. ASSUME NEW y \in Joined(r) PROVE y \in Joined(q)
  <2>1. PICK i \in 1..Len(r) : y \in r[i]
    BY JoinedIs
  <2>2. i \in 1..(Len(q) - 1) /\ (IF i < k THEN i ELSE i + 1) \in 1..Len(q)
    OBVIOUS
  <2>. QED  BY <2>1, <2>2, JoinedIs
<1>3. q[k] \subseteq Joined(q)
  BY JoinedIs
<1>. QED  BY <1>1, <1>2, <1>3

LEMMA JoinedAppend ==
    ASSUME NEW q \in Seq(Texts), NEW x \in Texts
    PROVE  Joined(Append(q, x)) = Joined(q) \cup x
<1>. DEFINE r == Append(q, x)
<1>1. /\ r \in Seq(Texts) /\ Len(r) = Len(q) + 1 /\ r[Len(q) + 1] = x
      /\ \A i \in 1..Len(q) : r[i] = q[i]
  BY AppendProperties
<1>. HIDE DEF r
<1>2. Joined(r) = r[Len(q) + 1] \cup Joined(q)
  <2>1. Len(q) + 1 \in 1..Len(r) /\ Len(q) = Len(r) - 1
    BY <1>1
  <2>2. \A i \in 1..(Len(r) - 1) : q[i] = r[IF i < Len(q) + 1 THEN i ELSE i + 1]
    BY <1>1
  <2>. QED  BY <1>1, <2>1, <2>2, JoinedWithout
<1>. QED  BY <1>1, <1>2 DEF r

LEMMA JoinedTail ==
    ASSUME NEW q \in Seq(Texts), q # <<>>
    PROVE  /\ Joined(q) = Head(q) \cup Joined(Tail(q)) /\ Head(q) = q[1] /\ Head(q) \in Texts
           /\ Tail(q) \in Seq(Texts) /\ Len(Tail(q)) = Len(q) - 1
           /\ \A i \in 1..(Len(q) - 1) : Tail(q)[i] = q[i + 1]
<1>1. /\ Head(q) = q[1] /\ Head(q) \in Texts /\ Tail(q) \in Seq(Texts) /\ Len(Tail(q)) = Len(q) - 1
      /\ \A i \in 1..(Len(q) - 1) : Tail(q)[i] = q[i + 1]
  BY HeadTailProperties
<1>2. 1 \in 1..Len(q) /\ \A i \in 1..(Len(q) - 1) : Tail(q)[i] = q[IF i < 1 THEN i ELSE i + 1]
  BY <1>1
<1>3. Joined(q) = q[1] \cup Joined(Tail(q))
  BY <1>1, <1>2, JoinedWithout
<1>. QED  BY <1>1, <1>3

LEMMA JoinedFront ==
    ASSUME NEW q \in Seq(Texts), q # <<>>
    PROVE  /\ Joined(q) = Last(q) \cup Joined(Front(q)) /\ Last(q) = q[Len(q)] /\ Last(q) \in Texts
           /\ Front(q) \in Seq(Texts) /\ Len(Front(q)) = Len(q) - 1
           /\ \A i \in 1..(Len(q) - 1) : Front(q)[i] = q[i]
<1>1. /\ Last(q) = q[Len(q)] /\ Last(q) \in Texts /\ Front(q) \in Seq(Texts) /\ Len(Front(q)) = Len(q) - 1
      /\ \A i \in 1..(Len(q) - 1) : Front(q)[i] = q[i]
  <2>1. Last(q) = q[Len(q)] /\ Last(q) \in Texts /\ Len(q) - 1 \in 0..Len(q)
    BY DEF Last
  <2>. DEFINE f == SubSeq(q, 1, Len(q) - 1)
  <2>2. f \in Seq(Texts) /\ Len(f) = Len(q) - 1 /\ \A i \in 1..(Len(q) - 1) : f[i] = q[i]
    BY <2>1
  <2>. QED  BY <2>1, <2>2 DEF Front
<1>2. Len(q) \in 1..Len(q) /\ \A i \in 1..(Len(q) - 1) : Front(q)[i] = q[IF i < Len(q) THEN i ELSE i + 1]
  BY <1>1
<1>3. Joined(q) = q[Len(q)] \cup Joined(Front(q))
  BY <1>1, <1>2, JoinedWithout
<1>. QED  BY <1>1, <1>3

LEMMA InTurnsIs == \A y : y \in InTurns <=> \E s \in Turns : y \in working[s].prompt
BY DEF InTurns, Turns

LEMMA OnTheWayIs ==
    \A y : y \in OnTheWay <=>
             \E i \in DOMAIN mail : \/ mail[i].kind = "blocked" /\ y \in mail[i].x
                                    \/ mail[i].kind # "blocked" /\ mail[i].why = "blocked" /\ y \in mail[i].of
BY DEF OnTheWay

-----------------------------------------------------------------------------
(* No text is lost.                                                        *)

\* What a step of the core's adds to what the core has.
LEMMA SaidIs ==
    ASSUME NEW s \in Sessions, CoreWorks(s)
    PROVE  \A y : y \in said' <=>
              \/ y \in said
              \/ \E i \in (Len(mail) + 1)..Len(mail') :
                    \/ mail'[i].kind = "accepted" /\ y \in mail'[i].x
                    \/ mail'[i].kind = "done" /\ mail'[i].why # "blocked" /\ y \in mail'[i].of
<1>. DEFINE told == {mail'[i] : i \in Len(mail) + 1 .. Len(mail')}
<1>1. said' = said \cup UNION {IF e.kind = "accepted" THEN e.x
                               ELSE IF e.kind = "done" /\ e.why # "blocked" THEN e.of ELSE {} : e \in told}
  BY DEF CoreWorks
<1>2. \A y : y \in said' <=> y \in said \/ \E e \in told : \/ e.kind = "accepted" /\ y \in e.x
                                                           \/ e.kind = "done" /\ e.why # "blocked" /\ y \in e.of
  <2>. HIDE DEF told
  <2>. QED  BY <1>1
<1>. QED  BY <1>2

\* What it does with the texts: its letters are of steers it had and of its
\* prompt, and it gets none.
LEMMA CoreTexts ==
    ASSUME CoreTyped, NEW s \in Sessions, CoreWorks(s)
    PROVE  /\ \A i \in (Len(mail) + 1)..Len(mail') :
                 \/ /\ s \in Turns /\ mail'[i].kind \in OfSteer /\ mail'[i].why \notin Reasons
                    /\ \E k \in 1..Len(pending[s]) : mail'[i].x = pending[s][k]
                 \/ /\ s \in Turns /\ mail'[i].kind = "done" /\ mail'[i].of = working[s].prompt
                 \/ mail'[i].kind \in {"error", "compacted"} /\ mail'[i].why \notin Reasons
           /\ \A t \in Sessions : \A k \in 1..Len(pending'[t]) :
                 \E l \in 1..Len(pending[t]) : pending'[t][k] = pending[t][l]
           /\ \A t \in Turns' : t \in Turns /\ working'[t].prompt = working[t].prompt
           /\ \A t \in Turns : \/ t \in Turns'
                               \/ /\ t = s /\ Len(mail) + 1 \in (Len(mail) + 1)..Len(mail')
                                  /\ mail'[Len(mail) + 1].kind = "done" /\ mail'[Len(mail) + 1].of = working[s].prompt
<1>0. Len(mail) \in Nat /\ \A t \in Sessions : pending[t] \in Seq(Texts)
  BY LettersAre DEF CoreTyped
<1>1. CASE Accept(s)
  <2>1. s \in Turns /\ WorkKept /\ \A t \in Sessions \ {s} : pending'[t] = pending[t]
    BY <1>1, AcceptIs
  <2>2. PICK n \in 1..Len(pending[s]) :
            /\ Len(mail') = Len(mail) + n /\ Len(pending'[s]) = Len(pending[s]) - n
            /\ \A k \in 1..n : mail'[Len(mail) + k] = Event(s, "accepted", pending[s][k])
            /\ \A k \in 1..(Len(pending[s]) - n) : pending'[s][k] = pending[s][k + n]
    BY <1>1, AcceptIs
  <2>3. \A i \in (Len(mail) + 1)..Len(mail') :
            /\ mail'[i].kind \in OfSteer /\ mail'[i].why \notin Reasons
            /\ \E k \in 1..Len(pending[s]) : mail'[i].x = pending[s][k]
    <3>. TAKE i \in (Len(mail) + 1)..Len(mail')
    <3>. DEFINE k == i - Len(mail)
    <3>1. k \in 1..n /\ i = Len(mail) + k /\ k \in 1..Len(pending[s])
      BY <1>0, <2>2
    <3>. HIDE DEF k
    <3>2. mail'[i] = Event(s, "accepted", pending[s][k])
      BY <2>2, <3>1
    <3>. QED  BY <3>1, <3>2, EventIs DEF OfSteer
  <2>4. \A k \in 1..Len(pending'[s]) : \E l \in 1..Len(pending[s]) : pending'[s][k] = pending[s][l]
    <3>1. \A k \in 1..Len(pending'[s]) : k + n \in 1..Len(pending[s]) /\ k \in 1..(Len(pending[s]) - n)
      BY <1>0, <2>2
    <3>. QED  BY <2>2, <3>1
  <2>. QED  BY <2>1, <2>3, <2>4, KeptTurns DEF WorkKept, Turns
<1>2. CASE Refuse(s)
  <2>1. s \in Turns /\ WorkKept /\ \A t \in Sessions \ {s} : pending'[t] = pending[t]
    BY <1>2, RefuseIs
  <2>2. PICK j \in 1..Len(pending[s]) :
            /\ Len(mail') = Len(mail) + 1 /\ Len(pending'[s]) = Len(pending[s]) - 1
            /\ mail'[Len(mail) + 1] = Event(s, "blocked", pending[s][j])
            /\ \A k \in 1..(Len(pending[s]) - 1) : pending'[s][k] = pending[s][IF k < j THEN k ELSE k + 1]
    BY <1>2, RefuseIs
  <2>3. \A i \in (Len(mail) + 1)..Len(mail') :
            /\ mail'[i].kind \in OfSteer /\ mail'[i].why \notin Reasons
            /\ \E k \in 1..Len(pending[s]) : mail'[i].x = pending[s][k]
    <3>. TAKE i \in (Len(mail) + 1)..Len(mail')
    <3>1. i = Len(mail) + 1
      BY <1>0, <2>2
    <3>2. mail'[i] = Event(s, "blocked", pending[s][j])
      BY <2>2, <3>1
    <3>. QED  BY <3>2, EventIs DEF OfSteer
  <2>4. \A k \in 1..Len(pending'[s]) : \E l \in 1..Len(pending[s]) : pending'[s][k] = pending[s][l]
    <3>1. \A k \in 1..Len(pending'[s]) : (IF k < j THEN k ELSE k + 1) \in 1..Len(pending[s])
                                         /\ k \in 1..(Len(pending[s]) - 1)
      BY <1>0, <2>2
    <3>. QED  BY <2>2, <3>1
  <2>. QED  BY <2>1, <2>3, <2>4, KeptTurns DEF WorkKept, Turns
<1>3. CASE Forget(s)
  <2>1. s \in Turns /\ working' = working /\ mail' = mail /\ \A t \in Sessions \ {s} : pending'[t] = pending[t]
    BY <1>3, ForgetIs
  <2>2. PICK n \in 1..Len(pending[s]) :
            /\ Len(pending'[s]) = Len(pending[s]) - n
            /\ \A k \in 1..(Len(pending[s]) - n) : pending'[s][k] = pending[s][k + n]
    BY <1>3, ForgetIs
  <2>3. (Len(mail) + 1)..Len(mail') = {}
    BY <1>0, <2>1
  <2>4. \A k \in 1..Len(pending'[s]) : \E l \in 1..Len(pending[s]) : pending'[s][k] = pending[s][l]
    <3>1. \A k \in 1..Len(pending'[s]) : k + n \in 1..Len(pending[s]) /\ k \in 1..(Len(pending[s]) - n)
      BY <1>0, <2>2
    <3>. QED  BY <2>2, <3>1
  <2>5. Turns' = Turns
    BY <2>1 DEF Turns
  <2>. QED  BY <2>1, <2>3, <2>4, <2>5
<1>4. CASE Fail(s)
  <2>1. /\ working' = working /\ pending' = pending /\ Len(mail') = Len(mail) + 1
        /\ mail'[Len(mail) + 1] = Event(s, "error", None)
    BY <1>4, FailIs
  <2>2. \A i \in (Len(mail) + 1)..Len(mail') : mail'[i].kind \in {"error", "compacted"} /\ mail'[i].why \notin Reasons
    <3>. TAKE i \in (Len(mail) + 1)..Len(mail')
    <3>1. i = Len(mail) + 1
      BY <1>0, <2>1
    <3>. QED  BY <2>1, <3>1, EventIs
  <2>3. Turns' = Turns
    BY <2>1 DEF Turns
  <2>. QED  BY <2>1, <2>2, <2>3
<1>5. CASE Settle(s)
  <2>1. /\ working[s] # None /\ working'[s] = None
        /\ \A t \in Sessions \ {s} : working'[t] = working[t] /\ pending'[t] = pending[t]
        /\ pending'[s] = <<>> /\ Turns' = Turns \ {s} /\ Len(mail') = Len(mail) + 1
        /\ s \in Turns => mail'[Len(mail) + 1].kind = "done" /\ mail'[Len(mail) + 1].of = working[s].prompt
        /\ s \notin Turns => /\ mail'[Len(mail) + 1].kind \in {"compacted", "error"}
                             /\ mail'[Len(mail) + 1].why \notin Reasons
    BY <1>5, SettleIs
  <2>2. \A i \in (Len(mail) + 1)..Len(mail') : i = Len(mail) + 1
    BY <1>0, <2>1
  <2>3. Len(mail) + 1 \in (Len(mail) + 1)..Len(mail')
    BY <1>0, <2>1
  <2>4. \A t \in Turns' : t \in Turns /\ t \in Sessions \ {s}
    BY <2>1 DEF Turns
  <2>. QED  BY <2>1, <2>2, <2>3, <2>4
<1>. QED  BY <1>1, <1>2, <1>3, <1>4, <1>5 DEF CoreWorks

\* The letters after a step of the core's: those before it, then its own.
LEMMA MailIs ==
    ASSUME CoreTyped, CoreTyped', MailKept
    PROVE  /\ DOMAIN mail = 1..Len(mail) /\ DOMAIN mail' = 1..Len(mail') /\ Len(mail) \in Nat /\ Len(mail') \in Nat
           /\ Len(mail) <= Len(mail')
           /\ \A i \in DOMAIN mail : i \in DOMAIN mail' /\ mail'[i] = mail[i]
           /\ \A i \in (Len(mail) + 1)..Len(mail') : i \in DOMAIN mail' /\ i \notin DOMAIN mail
           /\ \A i \in DOMAIN mail' : i \in DOMAIN mail \/ i \in (Len(mail) + 1)..Len(mail')
<1>1. mail' \in Seq(Letters) /\ mail \in Seq(Letters)
  BY DEF CoreTyped
<1>2. DOMAIN mail = 1..Len(mail) /\ DOMAIN mail' = 1..Len(mail') /\ Len(mail) \in Nat /\ Len(mail') \in Nat
  BY <1>1, LenProperties
<1>. QED  BY <1>2 DEF MailKept

LEMMA CoreText == ASSUME ScreenInv, TextInv, NEW s \in Sessions, CoreWorks(s) PROVE TextInv'
<1>1. CoreTyped /\ CoreTyped' /\ MailKept /\ AcceptedSaid /\ AllTyped /\ TextsKept
  BY CoreSteps DEF ScreenInv, TextInv
<1>2. app' = app /\ typed' = typed /\ gone' = gone
  BY DEF CoreWorks
<1>3. /\ DOMAIN mail = 1..Len(mail) /\ \A i \in DOMAIN mail : i \in DOMAIN mail' /\ mail'[i] = mail[i]
      /\ \A i \in (Len(mail) + 1)..Len(mail') : i \in DOMAIN mail'
      /\ \A i \in DOMAIN mail' : i \in DOMAIN mail \/ i \in (Len(mail) + 1)..Len(mail')
  BY <1>1, MailIs
<1>4. AcceptedSaid'
  BY <1>1, <1>3, SaidIs DEF AcceptedSaid
<1>5. \A t \in Sessions : DOMAIN pending[t] = 1..Len(pending[t]) /\ DOMAIN pending'[t] = 1..Len(pending'[t])
  <2>. TAKE t \in Sessions
  <2>1. pending[t] \in Seq(Texts) /\ pending'[t] \in Seq(Texts)
    BY <1>1 DEF CoreTyped
  <2>. QED  BY <2>1, LenProperties
<1>6. \A i \in (Len(mail) + 1)..Len(mail') :
          /\ mail'[i].kind \in OfSteer => mail'[i].x \subseteq 1..typed
          /\ mail'[i].kind = "done" => mail'[i].of \subseteq 1..typed
  BY <1>1, <1>5, CoreTexts DEF AllTyped, OfSteer
<1>7. AllTyped'
  <2>1. Held' \cup app'.submit \cup said' \subseteq 1..typed'
    BY <1>1, <1>2, <1>6, SaidIs DEF AllTyped, Held, OfSteer
  <2>2. \A t \in Turns' : working'[t].prompt \subseteq 1..typed'
    BY <1>1, <1>2, CoreTexts DEF AllTyped
  <2>3. \A t \in Sessions : \A k \in DOMAIN pending'[t] : pending'[t][k] \subseteq 1..typed'
    <3>. TAKE t \in Sessions
    <3>. TAKE k \in DOMAIN pending'[t]
    <3>1. k \in 1..Len(pending'[t])
      BY <1>5
    <3>2. PICK l \in 1..Len(pending[t]) : pending'[t][k] = pending[t][l]
      BY <1>1, <3>1, CoreTexts
    <3>. QED  BY <1>1, <1>2, <1>5, <3>2 DEF AllTyped
  <2>4. \A i \in DOMAIN mail' : /\ mail'[i].kind \in OfSteer => mail'[i].x \subseteq 1..typed'
                                /\ mail'[i].kind = "done" => mail'[i].of \subseteq 1..typed'
    BY <1>1, <1>2, <1>3, <1>6 DEF AllTyped
  <2>. QED  BY <2>1, <2>2, <2>3, <2>4 DEF AllTyped
<1>8. TextsKept'
  <2>. SUFFICES ASSUME NEW y \in 1..typed
                PROVE  y \in Held \cup InTurns' \cup OnTheWay' \cup said' \cup gone
    BY <1>2 DEF TextsKept, Held
  <2>1. y \in Held \cup gone \/ y \in said \/ y \in InTurns \/ y \in OnTheWay
    BY <1>1 DEF TextsKept
  <2>2. \A z : z \in InTurns' <=> \E t \in Turns' : z \in working'[t].prompt
    BY DEF InTurns, Turns
  <2>3. \A z : z \in OnTheWay' <=>
             \E i \in DOMAIN mail' : \/ mail'[i].kind = "blocked" /\ z \in mail'[i].x
                                     \/ mail'[i].kind # "blocked" /\ mail'[i].why = "blocked" /\ z \in mail'[i].of
    BY DEF OnTheWay
  <2>4. CASE y \in said
    BY <2>4, SaidIs
  <2>5. CASE y \in OnTheWay
    BY <1>3, <2>3, <2>5, OnTheWayIs
  <2>6. CASE y \in InTurns
    <3>1. PICK t \in Turns : y \in working[t].prompt
      BY <2>6, InTurnsIs
    <3>2. CASE t \in Turns'
      BY <1>1, <2>2, <3>1, <3>2, CoreTexts
    <3>3. CASE t \notin Turns'
      <4>. DEFINE i == Len(mail) + 1
      <4>1. i \in (Len(mail) + 1)..Len(mail') /\ mail'[i].kind = "done" /\ mail'[i].of = working[t].prompt
        BY <1>1, <3>1, <3>3, CoreTexts
      <4>. HIDE DEF i
      <4>2. i \in DOMAIN mail'
        BY <1>3, <4>1
      <4>3. CASE mail'[i].why = "blocked"
        BY <2>3, <3>1, <4>1, <4>2, <4>3
      <4>4. CASE mail'[i].why # "blocked"
        BY <3>1, <4>1, <4>4, SaidIs
      <4>. QED  BY <4>3, <4>4
    <3>. QED  BY <3>2, <3>3
  <2>. QED  BY <2>1, <2>4, <2>5, <2>6
<1>. QED  BY <1>4, <1>7, <1>8 DEF TextInv

\* A step of the app's that starts no turn, reads nothing and types nothing.
LEMMA TextSame ==
    ASSUME TextInv, Turns' = Turns, \A s \in Turns : working'[s].prompt = working[s].prompt,
           \A s \in Sessions : \A k \in DOMAIN pending'[s] : pending'[s][k] \subseteq 1..typed,
           mail' = mail, said' = said, typed' = typed, gone \subseteq gone',
           Held' \subseteq Held, Held \subseteq Held' \cup gone', app'.submit = app.submit
    PROVE  TextInv'
<1>1. AcceptedSaid'
  BY DEF TextInv, AcceptedSaid
<1>2. AllTyped'
  BY DEF TextInv, AllTyped
<1>3. InTurns' = InTurns
  <2>1. \A y : y \in InTurns' <=> \E s \in Turns' : y \in working'[s].prompt
    BY DEF InTurns, Turns
  <2>2. InTurns' \subseteq InTurns /\ InTurns \subseteq InTurns'
    BY <2>1, InTurnsIs
  <2>. QED  BY <2>2
<1>4. OnTheWay' = OnTheWay
  BY DEF OnTheWay
<1>5. TextsKept'
  BY <1>3, <1>4 DEF TextInv, TextsKept
<1>. QED  BY <1>1, <1>2, <1>5 DEF TextInv

LEMMA TextKept ==
    ASSUME ScreenInv, TextInv, WorkKept, pending' = pending,
           mail' = mail, said' = said, typed' = typed, gone \subseteq gone',
           Held' \subseteq Held, Held \subseteq Held' \cup gone', app'.submit = app.submit
    PROVE  TextInv'
<1>1. Turns' = Turns /\ \A s \in Turns : working'[s].prompt = working[s].prompt
  BY KeptTurns DEF WorkKept, Turns
<1>2. \A s \in Sessions : \A k \in DOMAIN pending'[s] : pending'[s][k] \subseteq 1..typed
  BY DEF TextInv, AllTyped
<1>. QED  BY <1>1, <1>2, TextSame

\* The app's fields after Type, Up, Compact and Delete.
LEMMA TypeIs ==
    ASSUME ScreenInv, Type
    PROVE  /\ typed \in Nat /\ typed' = typed + 1 /\ app'.draft = app.draft \cup {typed + 1} /\ typed + 1 \in 1..MaxTyped
           /\ app'.shown = app.shown /\ app'.submit = app.submit /\ app'.queued = app.queued /\ app'.steered = app.steered
           /\ working' = working /\ pending' = pending /\ mail' = mail /\ insync' = insync
           /\ said' = said /\ gone' = gone /\ brought' = brought
<1>1. app \in App /\ typed \in 0..MaxTyped /\ typed' = typed + 1 /\ app' = [app EXCEPT !.draft = app.draft \cup {typed + 1}]
  BY DEF ScreenInv, AppTyped, Type
<1>2. typed + 1 \in 1..MaxTyped
  BY <1>1, FrontendAssumption DEF Type
<1>3. /\ app'.shown = app.shown /\ app'.submit = app.submit /\ app'.queued = app.queued /\ app'.steered = app.steered
      /\ app'.draft = app.draft \cup {typed + 1}
  BY <1>1 DEF App
<1>. QED  BY <1>1, <1>2, <1>3 DEF Type, core, history

LEMMA UpIs ==
    ASSUME ScreenInv, Up
    PROVE  /\ app.draft = {} /\ app.queued \in Seq(Texts) /\ app.steered \in Nat /\ app.steered < Len(app.queued)
           /\ app'.draft = app.queued[Len(app.queued)] /\ app'.queued \in Seq(Texts)
           /\ Joined(app.queued) = app'.draft \cup Joined(app'.queued)
           /\ Len(app'.queued) = Len(app.queued) - 1 /\ \A i \in 1..Len(app'.queued) : app'.queued[i] = app.queued[i]
           /\ app'.shown = app.shown /\ app'.submit = app.submit /\ app'.steered = app.steered
           /\ working' = working /\ pending' = pending /\ mail' = mail /\ insync' = insync /\ typed' = typed
           /\ said' = said /\ gone' = gone /\ brought' = brought
<1>1. app \in App /\ app.queued \in Seq(Texts) /\ app.steered \in Nat /\ app.steered < Len(app.queued)
  BY DEF ScreenInv, AppTyped, Up, App
<1>2. app.queued # <<>>
  BY <1>1
<1>. DEFINE l == Last(app.queued)
            f == Front(app.queued)
<1>3. /\ Joined(app.queued) = l \cup Joined(f) /\ l = app.queued[Len(app.queued)] /\ l \in Texts
      /\ f \in Seq(Texts) /\ Len(f) = Len(app.queued) - 1 /\ \A i \in 1..(Len(app.queued) - 1) : f[i] = app.queued[i]
  BY <1>1, <1>2, JoinedFront
<1>4. app' = [app EXCEPT !.draft = l, !.queued = f]
  BY DEF Up
<1>. HIDE DEF l, f
<1>5. /\ app'.shown = app.shown /\ app'.submit = app.submit /\ app'.steered = app.steered
      /\ app'.draft = l /\ app'.queued = f
  BY <1>1, <1>4 DEF App
<1>. QED  BY <1>1, <1>3, <1>5 DEF Up, core, front, history

LEMMA CompactIs ==
    ASSUME ScreenInv, Compact
    PROVE  /\ app.shown \in Sessions /\ working[app.shown] = None /\ pending[app.shown] = <<>> /\ pending' = pending
           /\ app.shown \notin Turns /\ Turns' = Turns /\ \A s \in Turns : working'[s] = working[s]
           /\ app'.shown = app.shown /\ app'.submit = app.submit /\ app'.queued = app.queued
           /\ app'.steered = app.steered /\ app'.draft = app.draft
           /\ insync' = (insync /\ ~Unread(app.shown, mail))
           /\ mail' = mail /\ typed' = typed /\ said' = said /\ gone' = gone /\ brought' = brought
<1>1. /\ app \in App /\ app.shown \in Sessions /\ Begin(app.shown, "compact", None) /\ CoreTyped
      /\ app' = [app EXCEPT !.running = TRUE, !.compacting = TRUE]
  BY DEF Compact, ScreenInv, AppTyped
<1>2. /\ working[app.shown] = None /\ pending[app.shown] = <<>> /\ pending' = pending /\ app.shown \notin Turns
      /\ \A t \in Sessions \ {app.shown} : working'[t] = working[t]
      /\ Turns' = Turns
  BY <1>1, BeginIs
<1>3. /\ app'.shown = app.shown /\ app'.submit = app.submit /\ app'.queued = app.queued
      /\ app'.steered = app.steered /\ app'.draft = app.draft
  BY <1>1 DEF App
<1>4. \A s \in Turns : working'[s] = working[s]
  BY <1>2 DEF Turns
<1>. QED  BY <1>1, <1>2, <1>3, <1>4 DEF Compact

LEMMA DeleteIs ==
    ASSUME ScreenInv, Delete
    PROVE  /\ WorkKept /\ Turns' = Turns /\ pending' = pending /\ mail' = mail /\ app'.shown = None
           /\ app'.submit = app.submit /\ app'.queued = app.queued /\ app'.steered = app.steered /\ app'.draft = app.draft
           /\ typed' = typed /\ insync' = insync /\ said' = said /\ gone' = gone /\ brought' = brought
<1>1. /\ app \in App /\ app.shown \in Sessions /\ Stop(app.shown) /\ CoreTyped
      /\ app' = [app EXCEPT !.shown = None, !.created = FALSE]
  BY DEF Delete, ScreenInv, AppTyped
<1>2. WorkKept /\ pending' = pending
  BY <1>1, StopIs
<1>3. /\ app'.shown = None /\ app'.submit = app.submit /\ app'.queued = app.queued
      /\ app'.steered = app.steered /\ app'.draft = app.draft
  BY <1>1 DEF App
<1>. QED  BY <1>2, <1>3, KeptTurns DEF Delete, history

\* A leave takes the queue back to the composer.
LEMMA LeaveIs ==
    ASSUME ScreenInv, NEW s, New \/ Resume(s)
    PROVE  /\ WorkKept /\ Turns' = Turns /\ pending' = pending /\ mail' = mail
           /\ app'.submit = app.submit /\ app'.queued = <<>> /\ app'.steered = 0
           /\ app'.draft = Held
           /\ app'.shown = None \/ (app'.shown = s /\ (insync' => s \notin Busy))
           /\ brought' = brought \cup (IF insync THEN Joined(SubSeq(app.queued, 1, app.steered)) ELSE Held)
           /\ typed' = typed /\ said' = said /\ gone' = gone
<1>1. Leaves
  BY DEF New, Resume
<1>2. WorkKept /\ Turns' = Turns /\ pending' = pending /\ mail' = mail /\ typed' = typed
  BY <1>1, LeavesIs
<1>3. app \in App /\ app.steered <= Len(app.queued) /\ app.shown \in Sessions \cup {None}
  BY DEF ScreenInv, AppTyped, QueueInv
<1>. DEFINE b == LeftBehind(app)
<1>4. /\ b \in App /\ b.shown = None /\ b.submit = app.submit /\ b.queued = <<>>
      /\ b.draft = Held /\ b.steered = 0
  BY <1>3, LeftBehindIs DEF Held
<1>5. CASE New
  <2>1. app' = b
    BY <1>5 DEF New
  <2>. HIDE DEF b
  <2>. QED  BY <1>1, <1>2, <1>4, <2>1 DEF Leaves
<1>6. CASE Resume(s)
  <2>1. app' = [b EXCEPT !.shown = s, !.left = b.left \ {s}] /\ (insync' => s \notin Busy)
    BY <1>6 DEF Resume, Unsettled, Unread, Busy
  <2>. HIDE DEF b
  <2>2. app'.shown = s /\ app'.submit = b.submit /\ app'.queued = b.queued /\ app'.draft = b.draft /\ app'.steered = b.steered
    BY <1>4, <2>1 DEF App
  <2>. QED  BY <1>1, <1>2, <1>4, <2>1, <2>2 DEF Leaves
<1>. QED  BY <1>5, <1>6

LEMMA EscIs ==
    ASSUME ScreenInv, Esc
    PROVE  /\ WorkKept /\ Turns' = Turns /\ pending' = pending /\ mail' = mail /\ app' = app /\ insync' = insync
           /\ typed' = typed /\ said' = said /\ gone' = gone /\ brought' = brought
<1>1. app.shown \in Sessions /\ CoreTyped /\ Stop(app.shown)
  BY DEF Esc, ScreenInv, AppTyped
<1>2. WorkKept /\ pending' = pending
  BY <1>1, StopIs
<1>. QED  BY <1>2, KeptTurns DEF Esc, front, history

LEMMA TypeText == ASSUME ScreenInv, TextInv, Type PROVE TextInv'
<1>1. /\ typed \in Nat /\ typed' = typed + 1 /\ app'.draft = app.draft \cup {typed + 1}
      /\ app'.submit = app.submit /\ app'.queued = app.queued
      /\ working' = working /\ pending' = pending /\ mail' = mail /\ said' = said /\ gone' = gone
  BY TypeIs
<1>2. Held' = Held \cup {typed + 1} /\ 1..typed' = (1..typed) \cup {typed + 1}
  BY <1>1 DEF Held
<1>3. AcceptedSaid' /\ Turns' = Turns /\ InTurns' = InTurns /\ OnTheWay' = OnTheWay
  BY <1>1 DEF TextInv, AcceptedSaid, Turns, InTurns, OnTheWay
<1>4. \A S : S \subseteq 1..typed => S \subseteq 1..typed'
  BY <1>2
<1>5. AllTyped'
  BY <1>1, <1>2, <1>3, <1>4 DEF TextInv, AllTyped
<1>6. TextsKept'
  BY <1>1, <1>2, <1>3 DEF TextInv, TextsKept
<1>. QED  BY <1>3, <1>5, <1>6 DEF TextInv

LEMMA QuietText ==
    ASSUME ScreenInv, TextInv, NEW s, Up \/ Esc \/ Compact \/ New \/ Resume(s) \/ Delete
    PROVE  TextInv'
<1>1. CASE Up
  <2>1. WorkKept
    BY <1>1, UpIs DEF WorkKept
  <2>2. Held' = Held
    BY <1>1, UpIs DEF Held
  <2>. QED  BY <1>1, <2>1, <2>2, UpIs, TextKept
<1>2. CASE Esc
  <2>1. Held' = Held
    BY <1>2, EscIs DEF Held
  <2>. QED  BY <1>2, <2>1, EscIs, TextKept
<1>3. CASE Compact
  <2>1. Held' = Held /\ \A t \in Sessions : \A k \in DOMAIN pending'[t] : pending'[t][k] \subseteq 1..typed
    BY <1>3, CompactIs DEF Held, TextInv, AllTyped
  <2>2. Turns' = Turns /\ \A t \in Turns : working'[t].prompt = working[t].prompt
    BY <1>3, CompactIs
  <2>. QED  BY <1>3, <2>1, <2>2, CompactIs, TextSame
<1>4. CASE New \/ Resume(s)
  <2>1. Held' = Held
    <3>1. Joined(<<>>) = {}
      BY DEF Joined
    <3>. QED  BY <1>4, <3>1, LeaveIs DEF Held
  <2>. QED  BY <1>4, <2>1, LeaveIs, TextKept
<1>5. CASE Delete
  <2>1. Held' = Held
    BY <1>5, DeleteIs DEF Held
  <2>. QED  BY <1>5, <2>1, DeleteIs, TextKept
<1>. QED  BY <1>1, <1>2, <1>3, <1>4, <1>5

\* Where a prompt goes.
Goes(s) == s \in Sessions /\ IF app.shown # None THEN s = app.shown ELSE s \notin made

LEMMA SubmitIs ==
    ASSUME ScreenInv, Submit
    PROVE  /\ app.draft \in Texts /\ app.queued \in Seq(Texts) /\ app.steered \in Nat
           /\ app'.draft = {} /\ mail' = mail /\ typed' = typed /\ said' = said /\ insync' = insync /\ brought' = brought
           /\ \/ /\ app.running /\ app.shown \in Sessions
                 /\ app'.shown = app.shown /\ app'.submit = app.submit /\ gone' = gone
                 /\ app'.queued = Append(app.queued, app.draft)
                 /\ \/ /\ app.steered = Len(app.queued) /\ Steer(app.shown, app.draft) /\ app'.steered = app.steered + 1
                    \/ working' = working /\ pending' = pending /\ app'.steered = app.steered
              \/ /\ ~app.running /\ app'.queued = app.queued /\ app'.steered = app.steered /\ Goes(app'.shown)
                 /\ \/ /\ Begin(app'.shown, "turn", app.draft) /\ app'.submit = app.draft /\ gone' = gone
                    \/ /\ working' = working /\ pending' = pending /\ app'.submit = app.submit
                       /\ gone' = gone \cup app.draft
<1>. DEFINE a == [app EXCEPT !.draft = {}]
<1>1. /\ app \in App /\ app.draft \in Texts /\ app.queued \in Seq(Texts) /\ app.steered \in Nat
      /\ app.shown \in made \cup {None} /\ made \subseteq Sessions /\ None \notin made
      /\ (app.running => app.shown # None)
  <2>1. app.running => app.shown # None
    BY FrontendAssumption DEF ScreenInv, TurnShown, CompactShown, Busy
  <2>. QED  BY <2>1, FrontendAssumption DEF ScreenInv, AppTyped, App
<1>2. /\ a \in App /\ a.shown = app.shown /\ a.running = app.running /\ a.submit = app.submit /\ a.draft = {}
      /\ a.queued = app.queued /\ a.steered = app.steered
  BY <1>1, TakenIs
<1>3. /\ mail' = mail /\ typed' = typed /\ said' = said /\ insync' = insync /\ brought' = brought
      /\ \/ app.running /\ Queues(a, app.draft) /\ gone' = gone
         \/ /\ ~app.running
            /\ \E s \in Targets(a) : \/ Started(a, s, app.draft) /\ gone' = gone
                                     \/ NotStarted(a, s) /\ gone' = gone \cup app.draft
  BY DEF Submit
<1>. HIDE DEF a
<1>4. CASE app.running /\ Queues(a, app.draft) /\ gone' = gone
  <2>1. /\ app'.shown = a.shown /\ app'.submit = a.submit /\ app'.draft = a.draft
        /\ app'.queued = Append(a.queued, app.draft)
        /\ \/ Steers(a) /\ Steer(a.shown, app.draft) /\ app'.steered = a.steered + 1
           \/ ~Steers(a) /\ working' = working /\ pending' = pending /\ app'.steered = a.steered
    BY <1>1, <1>2, <1>4, QueuesIs DEF ScreenInv
  <2>2. Steers(a) => a.steered = Len(a.queued)
    BY DEF Steers
  <2>. QED  BY <1>1, <1>2, <1>3, <1>4, <2>1, <2>2
<1>5. ASSUME ~app.running, NEW s \in Targets(a), Started(a, s, app.draft), gone' = gone
      PROVE  /\ app'.draft = {} /\ app'.queued = app.queued /\ app'.steered = app.steered /\ Goes(app'.shown)
             /\ Begin(app'.shown, "turn", app.draft) /\ app'.submit = app.draft
  <2>1. s \in Sessions /\ IF a.shown # None THEN s = a.shown ELSE s \notin made
    BY <1>1, <1>2, TargetIs
  <2>2. /\ app'.shown = s /\ app'.queued = a.queued /\ app'.steered = a.steered
        /\ app'.submit = app.draft /\ app'.draft = a.draft /\ Begin(s, "turn", app.draft)
    BY <1>1, <1>2, <1>5, <2>1, StartedIs
  <2>. QED  BY <1>2, <2>1, <2>2 DEF Goes
<1>6. ASSUME ~app.running, NEW s \in Targets(a), NotStarted(a, s), gone' = gone \cup app.draft
      PROVE  /\ app'.draft = {} /\ app'.queued = app.queued /\ app'.steered = app.steered /\ Goes(app'.shown)
             /\ working' = working /\ pending' = pending /\ app'.submit = app.submit
  <2>1. s \in Sessions /\ IF a.shown # None THEN s = a.shown ELSE s \notin made
    BY <1>1, <1>2, TargetIs
  <2>2. /\ app'.shown = s /\ app'.queued = a.queued /\ app'.steered = a.steered
        /\ app'.submit = a.submit /\ app'.draft = a.draft /\ working' = working /\ pending' = pending
    BY <1>1, <1>2, <1>6, <2>1, NotStartedIs
  <2>. QED  BY <1>2, <2>1, <2>2 DEF Goes
<1>. QED  BY <1>1, <1>3, <1>4, <1>5, <1>6

LEMMA SubmitText == ASSUME ScreenInv, TextInv, Submit PROVE TextInv'
<1>1. /\ app.draft \in Texts /\ app.queued \in Seq(Texts)
      /\ app'.draft = {} /\ mail' = mail /\ typed' = typed /\ said' = said
  BY SubmitIs
<1>2. CASE /\ app.running /\ app.shown \in Sessions
           /\ app'.submit = app.submit /\ gone' = gone
           /\ app'.queued = Append(app.queued, app.draft)
           /\ \/ Steer(app.shown, app.draft)
              \/ working' = working /\ pending' = pending
  <2>1. Held' = Held
    BY <1>1, <1>2, JoinedAppend DEF Held
  <2>2. CASE Steer(app.shown, app.draft)
    <3>1. /\ working' = working /\ pending' \in [Sessions -> Seq(Texts)]
          /\ \A t \in Sessions \ {app.shown} : pending'[t] = pending[t]
          /\ Len(pending'[app.shown]) = Len(pending[app.shown]) + 1
          /\ pending'[app.shown][Len(pending[app.shown]) + 1] = app.draft
          /\ \A k \in 1..Len(pending[app.shown]) : pending'[app.shown][k] = pending[app.shown][k]
      BY <1>1, <1>2, <2>2, SteerIs DEF ScreenInv
    <3>2. \A s \in Sessions : pending[s] \in Seq(Texts) /\ pending'[s] \in Seq(Texts)
      BY <3>1 DEF ScreenInv, CoreTyped
    <3>3. app.draft \subseteq 1..typed /\ \A s \in Sessions : \A k \in DOMAIN pending[s] : pending[s][k] \subseteq 1..typed
      BY DEF TextInv, AllTyped, Held
    <3>4. \A s \in Sessions : \A k \in DOMAIN pending'[s] : pending'[s][k] \subseteq 1..typed
      <4>. TAKE s \in Sessions
      <4>1. CASE s # app.shown
        BY <3>1, <3>3, <4>1
      <4>2. CASE s = app.shown
        <5>1. /\ DOMAIN pending'[s] = 1..(Len(pending[s]) + 1) /\ DOMAIN pending[s] = 1..Len(pending[s])
              /\ Len(pending[s]) \in Nat
          BY <3>1, <3>2, <4>2
        <5>2. \A k \in DOMAIN pending'[s] : k \in DOMAIN pending[s] \/ k = Len(pending[s]) + 1
          BY <5>1
        <5>. QED  BY <3>1, <3>3, <4>2, <5>1, <5>2
      <4>. QED  BY <4>1, <4>2
    <3>5. Turns' = Turns
      BY <3>1 DEF Turns
    <3>. QED  BY <1>1, <1>2, <2>1, <3>1, <3>4, <3>5, TextSame
  <2>3. CASE working' = working /\ pending' = pending
    <3>1. WorkKept
      BY <2>3 DEF WorkKept
    <3>. QED  BY <1>1, <1>2, <2>1, <2>3, <3>1, TextKept
  <2>. QED  BY <1>2, <2>2, <2>3
<1>3. CASE /\ ~app.running /\ app'.queued = app.queued /\ Goes(app'.shown)
           /\ Begin(app'.shown, "turn", app.draft) /\ app'.submit = app.draft /\ gone' = gone
  <2>. DEFINE s == app'.shown
  <2>1. s \in Sessions
    BY <1>3 DEF Goes
  <2>2. /\ pending' = pending /\ s \notin Turns /\ working'[s].prompt = app.draft
        /\ \A t \in Sessions \ {s} : working'[t] = working[t]
        /\ Turns' = Turns \cup {s}
    BY <1>1, <1>3, <2>1, BeginIs DEF ScreenInv
  <2>. HIDE DEF s
  <2>3. Held' \subseteq Held /\ Held = Held' \cup app.draft
    BY <1>1, <1>3 DEF Held
  <2>4. \A t \in Turns : working'[t] = working[t]
    BY <2>2 DEF Turns
  <2>5. AcceptedSaid' /\ AllTyped'
    BY <1>1, <1>3, <2>2, <2>3, <2>4 DEF TextInv, AcceptedSaid, AllTyped
  <2>6. InTurns' = InTurns \cup app.draft
    <3>1. \A y : y \in InTurns' <=> \E t \in Turns' : y \in working'[t].prompt
      BY DEF InTurns, Turns
    <3>2. \A y : y \in InTurns' <=> y \in InTurns \/ y \in app.draft
      BY <2>2, <2>4, <3>1, InTurnsIs
    <3>. QED  BY <3>2
  <2>7. TextsKept'
    BY <1>1, <1>3, <2>3, <2>6 DEF TextInv, TextsKept, OnTheWay
  <2>. QED  BY <2>5, <2>7 DEF TextInv
<1>4. CASE /\ app'.queued = app.queued /\ working' = working /\ pending' = pending /\ app'.submit = app.submit
           /\ gone' = gone \cup app.draft
  <2>1. WorkKept
    BY <1>4 DEF WorkKept
  <2>2. Held' \subseteq Held /\ Held \subseteq Held' \cup gone'
    BY <1>1, <1>4 DEF Held
  <2>. QED  BY <1>1, <1>4, <2>1, <2>2, TextKept
<1>. QED  BY <1>2, <1>3, <1>4, SubmitIs

\* The queue without the first steer that is x, or as it was when none is.
Removed(a, x) ==
    \/ a.queued = app.queued /\ a.steered = app.steered /\ \A i \in 1..app.steered : app.queued[i] # x
    \/ \E k \in 1..app.steered :
          /\ app.queued[k] = x /\ a.steered = app.steered - 1 /\ Len(a.queued) = Len(app.queued) - 1
          /\ \A i \in 1..(Len(app.queued) - 1) : a.queued[i] = app.queued[IF i < k THEN i ELSE i + 1]

\* Where the texts are once a letter was read.
LEMMA HeardTexts ==
    ASSUME ScreenInv, NEW e, e.kind \in Kinds, e.kind \in OfSteer => e.x \in Texts
    PROVE  LET b == Heard(app, e) IN
           /\ b \in App /\ b.shown = app.shown /\ b.submit \subseteq app.submit
           /\ e.kind \in OfSteer => /\ Removed(b, e.x) /\ b.flush = app.flush
                                    /\ b.draft = IF e.kind = "blocked" THEN app.draft \cup e.x ELSE app.draft
           /\ e.kind \notin OfSteer =>
                 /\ HeldIn(b) = IF e.kind = "done" /\ e.why = "blocked" THEN Held \cup app.submit ELSE Held
                 /\ b.queued = <<>> \/ (b.queued = app.queued /\ b.draft = app.draft)
<1>1. app \in App /\ app.steered <= Len(app.queued) /\ app.queued \in Seq(Texts) /\ app.steered \in Nat
  BY DEF ScreenInv, AppTyped, QueueInv, App
<1>. DEFINE u == Unqueued(app, e.x)
<1>2. u \in App /\ u.shown = app.shown /\ u.flush = app.flush /\ u.submit = app.submit /\ u.draft = app.draft /\ Removed(u, e.x)
  BY <1>1, UnqueuedIs DEF Removed
<1>. HIDE DEF u
<1>3. Joined(<<>>) = {}
  BY DEF Joined
<1>4. CASE e.kind = "accepted"
  <2>1. Heard(app, e) = u
    BY <1>4 DEF Heard, u
  <2>. QED  BY <1>2, <1>4, <2>1 DEF OfSteer
<1>5. CASE e.kind = "blocked"
  <2>. DEFINE d == u.draft \cup e.x
              b == [u EXCEPT !.draft = d]
  <2>1. Heard(app, e) = b
    BY <1>5 DEF Heard, u
  <2>2. d \in Texts
    <3>1. e.x \in Texts /\ u.draft \in Texts
      BY <1>2, <1>5 DEF OfSteer, App
    <3>. QED  BY <3>1 DEF Texts
  <2>3. d = app.draft \cup e.x
    BY <1>2
  <2>. HIDE DEF d
  <2>4. /\ b \in App /\ b.shown = u.shown /\ b.submit = u.submit /\ b.flush = u.flush
        /\ b.queued = u.queued /\ b.steered = u.steered /\ b.draft = d
    BY <1>2, <2>2 DEF App
  <2>. HIDE DEF b
  <2>5. Removed(b, e.x)
    BY <1>2, <2>4 DEF Removed
  <2>. QED  BY <1>2, <1>5, <2>1, <2>3, <2>4, <2>5 DEF OfSteer
<1>6. CASE e.kind = "done"
  <2>0. PICK reason : reason = e.why
    OBVIOUS
  <2>1. Heard(app, e) = Done(app, reason)
    BY <1>6, <2>0 DEF Heard
  <2>. DEFINE b == Done(app, reason)
  <2>2. /\ b \in App /\ b.shown = app.shown /\ b.submit = {}
        /\ b.queued = IF reason \in {"cancelled", "error", "blocked"} THEN <<>> ELSE app.queued
        /\ b.draft = (IF reason = "blocked" THEN app.draft \cup app.submit ELSE app.draft)
                     \cup (IF reason \in {"cancelled", "error", "blocked"} THEN Joined(app.queued) ELSE {})
    BY <1>1, DoneIs
  <2>. HIDE DEF b
  <2>3. HeldIn(b) = IF reason = "blocked" THEN Held \cup app.submit ELSE Held
    <3>1. CASE reason = "blocked"
      BY <1>3, <2>2, <3>1 DEF HeldIn, Held
    <3>2. CASE reason \in {"cancelled", "error"}
      BY <1>3, <2>2, <3>2 DEF HeldIn, Held
    <3>3. CASE reason \notin {"cancelled", "error", "blocked"}
      BY <1>3, <2>2, <3>3 DEF HeldIn, Held
    <3>. QED  BY <3>1, <3>2, <3>3
  <2>4. b.queued = <<>> \/ (b.queued = app.queued /\ b.draft = app.draft)
    <3>1. CASE reason \in {"cancelled", "error", "blocked"}
      BY <2>2, <3>1
    <3>2. CASE reason \notin {"cancelled", "error", "blocked"}
      <4>1. b.draft = app.draft \cup {}
        BY <2>2, <3>2
      <4>. QED  BY <2>2, <3>2, <4>1
    <3>. QED  BY <3>1, <3>2
  <2>. QED  BY <1>6, <2>0, <2>1, <2>2, <2>3, <2>4 DEF OfSteer, b
<1>7. CASE e.kind = "compacted"
  <2>1. Heard(app, e) = Compacted(app)
    BY <1>7 DEF Heard
  <2>. DEFINE b == Compacted(app)
  <2>2. b \in App /\ b.shown = app.shown /\ b.submit = app.submit /\ b.queued = app.queued /\ b.draft = app.draft
    BY <1>1, CompactedIs
  <2>. HIDE DEF b
  <2>3. HeldIn(b) = Held
    BY <2>2 DEF HeldIn, Held
  <2>. QED  BY <1>7, <2>1, <2>2, <2>3 DEF OfSteer, b
<1>8. CASE e.kind = "error"
  <2>1. Heard(app, e) = Errored(app)
    BY <1>8 DEF Heard
  <2>. DEFINE b == Errored(app)
  <2>2. IF app.compacting
        THEN b \in App /\ b.shown = app.shown /\ b.submit = app.submit /\ b.queued = <<>> /\ b.draft = app.draft \cup Joined(app.queued)
        ELSE b = app
    BY <1>1, ErroredIs
  <2>. HIDE DEF b
  <2>3. HeldIn(b) = Held
    BY <1>3, <2>2 DEF HeldIn, Held
  <2>. QED  BY <1>1, <1>8, <2>1, <2>2, <2>3 DEF OfSteer, b
<1>. QED  BY <1>4, <1>5, <1>6, <1>7, <1>8 DEF Kinds

\* What a flush does with them: nothing, or the next goes out, or all come back.
LEMMA FlushedIs ==
    ASSUME AppTyped, NEW a \in App, a.shown = app.shown, Flushed(a)
    PROVE  \/ /\ ~a.flush \/ a.running \/ a.queued = <<>>
              /\ working' = working /\ pending' = pending /\ app'.shown = a.shown /\ app'.submit = a.submit
              /\ app'.queued = a.queued /\ app'.draft = a.draft /\ app'.steered = a.steered
           \/ /\ a.flush /\ ~a.running /\ Goes(app'.shown)
              /\ working' = working /\ pending' = pending /\ app'.submit = a.submit
              /\ app'.queued = <<>> /\ app'.draft = HeldIn(a)
           \/ /\ a.flush /\ ~a.running /\ Goes(app'.shown) /\ a.queued # <<>>
              /\ Begin(app'.shown, "turn", Head(a.queued)) /\ app'.submit = Head(a.queued)
              /\ app'.queued = Tail(a.queued) /\ app'.draft = a.draft
<1>1. CASE ~a.flush \/ a.running \/ a.queued = <<>>
  <2>1. app' = [a EXCEPT !.flush = FALSE] /\ working' = working /\ pending' = pending
    BY <1>1 DEF Flushed
  <2>2. /\ app'.shown = a.shown /\ app'.submit = a.submit
        /\ app'.queued = a.queued /\ app'.draft = a.draft /\ app'.steered = a.steered
    BY <2>1 DEF App
  <2>. QED  BY <1>1, <2>1, <2>2
<1>2. CASE a.flush /\ ~a.running /\ a.queued # <<>>
  <2>. DEFINE c == [a EXCEPT !.flush = FALSE]
              q == Tail(a.queued)
              b == [a EXCEPT !.flush = FALSE, !.queued = q]
  <2>1. PICK s \in Targets(b) : Started(b, s, Head(a.queued)) \/ NotStarted(Returned(c), s)
    BY <1>2 DEF Flushed
  <2>2. a.queued \in Seq(Texts)
    BY DEF App
  <2>3. Head(a.queued) \in Texts /\ q \in Seq(Texts)
    BY <1>2, <2>2, HeadTailProperties
  <2>4. q = Tail(a.queued)
    OBVIOUS
  <2>. HIDE DEF q
  <2>5. b \in App /\ b.shown = a.shown /\ b.queued = q /\ b.draft = a.draft
    BY <2>3 DEF App
  <2>6. c \in App /\ c.shown = a.shown /\ c.submit = a.submit /\ c.queued = a.queued /\ c.draft = a.draft
    BY DEF App
  <2>. HIDE DEF b, c
  <2>7. s \in Sessions /\ IF app.shown # None THEN s = app.shown ELSE s \notin made
    BY <2>5, TargetIs, FrontendAssumption DEF AppTyped
  <2>8. CASE Started(b, s, Head(a.queued))
    <3>1. /\ app'.shown = s /\ app'.queued = b.queued /\ app'.submit = Head(a.queued) /\ app'.draft = b.draft
          /\ Begin(s, "turn", Head(a.queued))
      BY <2>3, <2>5, <2>7, <2>8, StartedIs
    <3>. QED  BY <1>2, <2>4, <2>5, <2>7, <3>1 DEF Goes
  <2>9. CASE NotStarted(Returned(c), s)
    <3>1. /\ Returned(c) \in App /\ Returned(c).submit = c.submit /\ Returned(c).queued = <<>>
          /\ Returned(c).draft = c.draft \cup Joined(c.queued)
      BY <2>6, ReturnedIs
    <3>2. /\ app'.shown = s /\ app'.queued = Returned(c).queued /\ app'.submit = Returned(c).submit
          /\ app'.draft = Returned(c).draft /\ working' = working /\ pending' = pending
      BY <2>7, <2>9, <3>1, NotStartedIs
    <3>. QED  BY <1>2, <2>6, <2>7, <3>1, <3>2 DEF Goes, HeldIn
  <2>. QED  BY <2>1, <2>8, <2>9
<1>. QED  BY <1>1, <1>2

\* What a read makes of the app, whichever session the letter is of.
LEMMA ReadIs ==
    ASSUME ScreenInv, Read
    PROVE  /\ mail' = Tail(mail) /\ mail # <<>> /\ said' = said /\ typed' = typed /\ brought' = brought
           /\ gone' = gone \cup Lost(mail[1]) /\ mail[1].kind \in Kinds /\ (mail[1].kind \in OfSteer => mail[1].x \in Texts)
           /\ mail[1] \in Letters /\ (insync' => insync)
           /\ \E a \in App :
                 /\ After(a) /\ Flushed(a) /\ a.shown = app.shown /\ a.submit \subseteq app.submit
                 /\ mail[1].s # app.shown =>
                       /\ a.queued = app.queued /\ a.draft = app.draft /\ a.steered = app.steered /\ ~a.flush
                 /\ mail[1].s = app.shown =>
                       /\ mail[1].kind \in OfSteer =>
                             /\ Removed(a, mail[1].x) /\ ~a.flush
                             /\ a.draft = IF mail[1].kind = "blocked" THEN app.draft \cup mail[1].x ELSE app.draft
                       /\ mail[1].kind \notin OfSteer =>
                             /\ HeldIn(a) = IF mail[1].kind = "done" /\ mail[1].why = "blocked" THEN Held \cup app.submit ELSE Held
                             /\ a.queued = <<>> \/ (a.queued = app.queued /\ a.draft = app.draft)
                             /\ mail[1].kind = "done" \/ app.compacting => ~a.running
<1>. DEFINE e == mail[1]
            a == IF e.s = app.shown THEN Heard(app, e) ELSE Overheard(app, e.s)
<1>1. /\ mail' = Tail(mail) /\ mail # <<>> /\ said' = said /\ typed' = typed /\ brought' = brought
      /\ insync' => insync
  BY DEF Read
<1>2. Head(mail) = mail[1] /\ mail[1] \in Letters /\ 1 \in DOMAIN mail
  BY <1>1, TailIs DEF ScreenInv
<1>3. e.kind \in Kinds /\ (e.kind \in OfSteer => e.x \in Texts)
  BY <1>2 DEF ScreenInv, CoreTyped, Letters
<1>4. After(a) /\ Flushed(a) /\ gone' = gone \cup Lost(e)
  <2>1. gone' = gone \cup Lost(e)
    BY <1>2 DEF Read
  <2>2. After(a) /\ Flushed(a)
    BY <1>2, ReadAfter
  <2>. QED  BY <2>1, <2>2
<1>5. app \in App /\ ~app.flush
  BY DEF ScreenInv, AppTyped
<1>6. CASE e.s = app.shown
  <2>. DEFINE b == Heard(app, e)
  <2>1. /\ b \in App /\ b.shown = app.shown /\ b.submit \subseteq app.submit
        /\ e.kind \in OfSteer => /\ Removed(b, e.x) /\ b.flush = app.flush
                                 /\ b.draft = IF e.kind = "blocked" THEN app.draft \cup e.x ELSE app.draft
        /\ e.kind \notin OfSteer =>
              /\ HeldIn(b) = IF e.kind = "done" /\ e.why = "blocked" THEN Held \cup app.submit ELSE Held
              /\ b.queued = <<>> \/ (b.queued = app.queued /\ b.draft = app.draft)
    BY <1>3, HeardTexts
  <2>2. a = b
    BY <1>6
  <2>3. e.kind = "done" \/ (app.compacting /\ e.kind \in {"compacted", "error"}) => b.running = FALSE
    BY <1>3, HeardIs
  <2>. HIDE DEF a, b
  <2>4. e.kind \notin OfSteer => (e.kind = "done" \/ app.compacting => ~b.running)
    BY <1>3, <2>3 DEF Kinds, OfSteer
  <2>. QED  BY <1>1, <1>2, <1>3, <1>4, <1>5, <1>6, <2>1, <2>2, <2>4
<1>7. CASE e.s # app.shown
  <2>1. a = Overheard(app, e.s)
    BY <1>7
  <2>. HIDE DEF a
  <2>2. PICK t : t = e.s
    OBVIOUS
  <2>. DEFINE l == app.left \ {t}
  <2>3. l \subseteq Sessions
    BY <1>5 DEF App
  <2>4. a = app \/ a = [app EXCEPT !.left = l]
    BY <2>1, <2>2 DEF Overheard
  <2>. HIDE DEF l
  <2>5. /\ a \in App /\ a.shown = app.shown /\ a.submit = app.submit /\ a.queued = app.queued
        /\ a.draft = app.draft /\ a.steered = app.steered /\ a.flush = app.flush
    <3>1. CASE a = app
      BY <1>5, <3>1
    <3>2. CASE a = [app EXCEPT !.left = l]
      BY <1>5, <2>3, <3>2 DEF App
    <3>. QED  BY <2>4, <3>1, <3>2
  <2>. QED  BY <1>1, <1>2, <1>3, <1>4, <1>5, <1>7, <2>5
<1>. QED  BY <1>6, <1>7

LEMMA RemovedIs ==
    ASSUME ScreenInv, NEW a \in App, NEW x, Removed(a, x)
    PROVE  Joined(a.queued) \subseteq Joined(app.queued) /\ Joined(app.queued) \subseteq Joined(a.queued) \cup x
<1>1. app.queued \in Seq(Texts) /\ a.queued \in Seq(Texts) /\ app.steered \in Nat /\ app.steered <= Len(app.queued)
  BY DEF ScreenInv, AppTyped, QueueInv, App
<1>2. ASSUME NEW k \in 1..app.steered, app.queued[k] = x, Len(a.queued) = Len(app.queued) - 1,
             \A i \in 1..(Len(app.queued) - 1) : a.queued[i] = app.queued[IF i < k THEN i ELSE i + 1]
      PROVE  Joined(app.queued) = x \cup Joined(a.queued)
  <2>1. k \in 1..Len(app.queued)
    BY <1>1
  <2>. QED  BY <1>1, <1>2, <2>1, JoinedWithout
<1>. QED  BY <1>2 DEF Removed

LEMMA ReadText == ASSUME ScreenInv, TextInv, Read PROVE TextInv'
<1>. DEFINE e == mail[1]
<1>1. /\ mail' = Tail(mail) /\ mail # <<>> /\ said' = said /\ typed' = typed
      /\ gone' = gone \cup Lost(e) /\ e.kind \in Kinds
  BY ReadIs
<1>2. PICK a \in App :
          /\ Flushed(a) /\ a.shown = app.shown /\ a.submit \subseteq app.submit
          /\ e.s # app.shown => a.queued = app.queued /\ a.draft = app.draft
          /\ e.s = app.shown =>
                /\ e.kind \in OfSteer =>
                      /\ Removed(a, e.x)
                      /\ a.draft = IF e.kind = "blocked" THEN app.draft \cup e.x ELSE app.draft
                /\ e.kind \notin OfSteer =>
                      HeldIn(a) = IF e.kind = "done" /\ e.why = "blocked" THEN Held \cup app.submit ELSE Held
  BY ReadIs
<1>3. /\ 1 \in DOMAIN mail
      /\ \A i \in DOMAIN mail' : \E j \in DOMAIN mail : mail'[i] = mail[j]
      /\ \A i \in DOMAIN mail : i # 1 => \E j \in DOMAIN mail' : mail'[j] = mail[i]
  <2>1. /\ 1 \in DOMAIN mail
        /\ \A i \in DOMAIN mail' : i + 1 \in DOMAIN mail /\ mail'[i] = mail[i + 1]
        /\ \A i \in DOMAIN mail : i # 1 => i - 1 \in DOMAIN mail' /\ mail'[i - 1] = mail[i]
    BY <1>1, TailIs DEF ScreenInv
  <2>. QED  BY <2>1
<1>4. /\ AcceptedSaid /\ AllTyped /\ TextsKept
      /\ e.kind \in OfSteer => e.x \subseteq 1..typed
      /\ e.kind = "done" => e.of \subseteq 1..typed
      /\ e.kind = "accepted" => e.x \subseteq said
      /\ e.why = "blocked" => e.kind = "done"
  <2>1. e.why = "blocked" => e.kind = "done"
    BY <1>3 DEF ScreenInv, CoreTyped, Reasons
  <2>. QED  BY <1>3, <2>1 DEF TextInv, AcceptedSaid, AllTyped
<1>5. HeldIn(a) \subseteq 1..typed /\ a.submit \subseteq 1..typed
  <2>1. CASE e.s # app.shown \/ e.kind \notin OfSteer
    BY <1>2, <1>4, <2>1 DEF AllTyped, Held, HeldIn
  <2>2. CASE e.s = app.shown /\ e.kind \in OfSteer
    <3>1. Joined(a.queued) \subseteq Joined(app.queued)
      BY <1>2, <2>2, RemovedIs
    <3>. QED  BY <1>2, <1>4, <2>2, <3>1 DEF AllTyped, Held, HeldIn
  <2>. QED  BY <2>1, <2>2
\* What was held is held still, but for a steer the core has or the user was told of.
<1>6. \A y : y \in Held => y \in HeldIn(a) \/ y \in said
  <2>1. CASE e.s # app.shown \/ e.kind \notin OfSteer
    BY <1>2, <2>1 DEF Held, HeldIn
  <2>2. CASE e.s = app.shown /\ e.kind \in OfSteer
    <3>1. Joined(app.queued) \subseteq Joined(a.queued) \cup e.x
      BY <1>2, <2>2, RemovedIs
    <3>2. e.kind = "accepted" \/ e.kind = "blocked"
      BY <2>2 DEF OfSteer
    <3>. QED  BY <1>2, <1>4, <2>2, <3>1, <3>2 DEF Held, HeldIn
  <2>. QED  BY <2>1, <2>2
<1>7. \A y : y \in OnTheWay => y \in OnTheWay' \/ y \in HeldIn(a) \/ y \in gone'
  <2>. TAKE y
  <2>. HAVE y \in OnTheWay
  <2>1. PICK i \in DOMAIN mail : \/ mail[i].kind = "blocked" /\ y \in mail[i].x
                                 \/ mail[i].kind # "blocked" /\ mail[i].why = "blocked" /\ y \in mail[i].of
    BY OnTheWayIs
  <2>2. CASE i # 1
    <3>1. \E j \in DOMAIN mail' : mail'[j] = mail[i]
      BY <1>3, <2>2
    <3>2. \A z : z \in OnTheWay' <=>
             \E j \in DOMAIN mail' : \/ mail'[j].kind = "blocked" /\ z \in mail'[j].x
                                     \/ mail'[j].kind # "blocked" /\ mail'[j].why = "blocked" /\ z \in mail'[j].of
      BY DEF OnTheWay
    <3>. QED  BY <2>1, <3>1, <3>2
  <2>3. CASE i = 1 /\ e.kind = "blocked"
    BY <1>1, <1>2, <2>1, <2>3 DEF HeldIn, Lost, OfSteer
  <2>4. CASE i = 1 /\ e.kind # "blocked"
    <3>1. e.kind = "done" /\ e.why = "blocked" /\ y \in e.of
      BY <1>4, <2>1, <2>4
    <3>2. e.s # app.shown \/ app.submit # e.of => Lost(e) = e.of
      BY <3>1 DEF Lost
    <3>. QED  BY <1>1, <1>2, <3>1, <3>2 DEF OfSteer
  <2>. QED  BY <2>2, <2>3, <2>4
<1>. HIDE DEF e
<1>8. AcceptedSaid'
  BY <1>1, <1>3, <1>4 DEF AcceptedSaid
<1>9. \A i \in DOMAIN mail' : /\ mail'[i].kind \in OfSteer => mail'[i].x \subseteq 1..typed'
                              /\ mail'[i].kind = "done" => mail'[i].of \subseteq 1..typed'
  BY <1>1, <1>3, <1>4 DEF AllTyped
<1>10. a.queued \in Seq(Texts) /\ AppTyped /\ Joined(<<>>) = {}
  BY DEF App, ScreenInv, Joined
<1>11. CASE /\ working' = working /\ pending' = pending /\ app'.submit = a.submit
            /\ \/ app'.queued = a.queued /\ app'.draft = a.draft
               \/ app'.queued = <<>> /\ app'.draft = HeldIn(a)
  <2>1. Held' = HeldIn(a)
    BY <1>10, <1>11 DEF Held, HeldIn
  <2>2. Turns' = Turns /\ InTurns' = InTurns
    BY <1>11 DEF Turns, InTurns
  <2>3. AllTyped'
    BY <1>1, <1>4, <1>5, <1>9, <1>11, <2>1, <2>2 DEF AllTyped
  <2>4. TextsKept'
    BY <1>1, <1>4, <1>6, <1>7, <2>1, <2>2 DEF TextsKept
  <2>. QED  BY <1>8, <2>3, <2>4 DEF TextInv
<1>12. CASE /\ Goes(app'.shown) /\ a.queued # <<>>
            /\ Begin(app'.shown, "turn", Head(a.queued)) /\ app'.submit = Head(a.queued)
            /\ app'.queued = Tail(a.queued) /\ app'.draft = a.draft
  <2>. DEFINE s == app'.shown
              x == Head(a.queued)
  <2>1. s \in Sessions /\ x \in Texts /\ Joined(a.queued) = x \cup Joined(Tail(a.queued))
    BY <1>10, <1>12, JoinedTail DEF Goes
  <2>2. /\ pending' = pending /\ s \notin Turns /\ working'[s].prompt = x
        /\ \A t \in Sessions \ {s} : working'[t] = working[t]
        /\ Turns' = Turns \cup {s}
    BY <1>12, <2>1, BeginIs DEF ScreenInv
  <2>3. HeldIn(a) = Held' \cup x /\ app'.submit = x
    BY <1>12, <2>1 DEF HeldIn, Held
  <2>. HIDE DEF s, x
  <2>4. \A t \in Turns : working'[t] = working[t]
    BY <2>2 DEF Turns
  <2>5. AllTyped'
    BY <1>1, <1>4, <1>5, <1>9, <2>2, <2>3, <2>4 DEF AllTyped
  <2>6. \A y : y \in InTurns' <=> y \in InTurns \/ y \in x
    <3>1. \A y : y \in InTurns' <=> \E t \in Turns' : y \in working'[t].prompt
      BY DEF InTurns, Turns
    <3>. QED  BY <2>2, <2>4, <3>1, InTurnsIs
  <2>7. TextsKept'
    BY <1>1, <1>4, <1>6, <1>7, <2>3, <2>6 DEF TextsKept
  <2>. QED  BY <1>8, <2>5, <2>7 DEF TextInv
<1>. QED  BY <1>2, <1>10, <1>11, <1>12, FlushedIs

LEMMA TextInit == FInit => TextInv
<1>. SUFFICES ASSUME FInit PROVE TextInv
  OBVIOUS
<1>1. /\ working = [s \in Sessions |-> None] /\ pending = [s \in Sessions |-> <<>>] /\ mail = <<>>
      /\ typed = 0 /\ said = {}
  BY DEF FInit, Init
<1>2. app.queued = <<>> /\ app.submit = {} /\ app.draft = {}
  BY DEF FInit
<1>3. Held = {} /\ Turns = {} /\ 1..typed = {}
  BY <1>1, <1>2 DEF Held, Joined, Turns
<1>. QED  BY <1>1, <1>2, <1>3 DEF TextInv, AcceptedSaid, AllTyped, TextsKept

LEMMA TextNext ==
    ASSUME ScreenInv, TextInv, [FNext]_vars
    PROVE  TextInv'
<1>1. CASE Type
  BY <1>1, TypeText
<1>2. CASE Submit
  BY <1>2, SubmitText
<1>3. CASE Read
  BY <1>3, ReadText
<1>4. ASSUME NEW s, Up \/ Esc \/ Compact \/ New \/ Resume(s) \/ Delete PROVE TextInv'
  BY <1>4, QuietText
<1>5. ASSUME NEW s \in Sessions, CoreWorks(s) PROVE TextInv'
  BY <1>5, CoreText
<1>6. CASE UNCHANGED vars
  <2>1. WorkKept /\ pending' = pending /\ mail' = mail /\ said' = said /\ typed' = typed /\ gone' = gone /\ app' = app
    BY <1>6 DEF vars, core, front, history, WorkKept
  <2>2. Held' = Held
    BY <2>1 DEF Held
  <2>. QED  BY <2>1, <2>2, TextKept
<1>. QED  BY <1>1, <1>2, <1>3, <1>4, <1>5, <1>6 DEF FNext

-----------------------------------------------------------------------------
(* No text goes to the core twice.                                         *)

\* The steers on their way to the app from the session it shows, told of or
\* pending, each at its place; and those of them the core accepted.
Places ==
    IF app.shown = None THEN {}
    ELSE {k \in 1..(Len(mail) + Len(pending[app.shown])) :
            k > Len(mail) \/ (mail[k].s = app.shown /\ mail[k].kind \in OfSteer)}
Line == [k \in Places |-> IF k > Len(mail) THEN pending[app.shown][k - Len(mail)] ELSE mail[k].x]
Taken == {k \in Places : k <= Len(mail) /\ mail[k].kind = "accepted"}

\* The prompt of the turn shown, and the texts of the other sessions' turns.
OwnPrompt ==
    {y \in 1..MaxTyped :
        \/ app.shown \in Turns /\ y \in working[app.shown].prompt
        \/ \E i \in DOMAIN mail : mail[i].s = app.shown /\ mail[i].why = "blocked" /\ y \in mail[i].of}
Foreign ==
    {y \in 1..MaxTyped :
        \/ \E s \in Turns \ {app.shown} : y \in working[s].prompt \/ \E k \in DOMAIN pending[s] : y \in pending[s][k]
        \/ \E i \in DOMAIN mail : /\ mail[i].s # app.shown
                                  /\ \/ mail[i].kind \in OfSteer /\ y \in mail[i].x
                                     \/ mail[i].why = "blocked" /\ y \in mail[i].of}

\* But for what was left with a session, no text is in two places, and a
\* steer on its way is the one in the queue;
LineApart == \A k, l \in Places : k # l => Line[k] \cap Line[l] \subseteq brought
LineQueue == \A k \in Places : \A j \in 1..Len(app.queued) :
    Line[k] \cap app.queued[j] \subseteq brought \/ (j <= app.steered /\ app.queued[j] = Line[k])
LineDraft == \A k \in Places : Line[k] \cap app.draft \subseteq brought
QueueApart ==
    \A i \in 1..Len(app.queued) :
        /\ app.queued[i] \cap app.draft \subseteq brought
        /\ \A j \in 1..Len(app.queued) : i # j => app.queued[i] \cap app.queued[j] \subseteq brought
\* the prompt of the turn shown is nowhere else;
PromptApart ==
    /\ OwnPrompt \cap (Held \cup said) \subseteq brought
    /\ \A k \in Places : OwnPrompt \cap Line[k] \subseteq brought
\* the core has of the steers on their way those it accepted, and of what the
\* app holds no more than those;
SaidOnce ==
    /\ \A k \in Places \ Taken : Line[k] \cap said \subseteq brought
    /\ \A y \in (Held \cap said) \ brought : \E k \in Taken : y \in Line[k]
\* and other sessions' texts are not the app's.
ForeignApart ==
    /\ Foreign \cap (Held \cup OwnPrompt) \subseteq brought
    /\ \A k \in Places : Foreign \cap Line[k] \subseteq brought
OnceInv == insync => LineApart /\ LineQueue /\ LineDraft /\ QueueApart /\ PromptApart /\ SaidOnce /\ ForeignApart

\* The places, one by one.
LineFacts ==
    /\ Places \subseteq Nat /\ Taken \subseteq Places
    /\ \A k \in DOMAIN mail : k \in Places <=> mail[k].s = app.shown /\ mail[k].kind \in OfSteer
    /\ \A k \in DOMAIN mail : k \in Places => Line[k] = mail[k].x
    /\ \A k \in 1..Len(pending[app.shown]) :
          Len(mail) + k \in Places /\ Line[Len(mail) + k] = pending[app.shown][k] /\ Len(mail) + k \notin Taken
    /\ \A k \in Places : \/ k \in DOMAIN mail
                         \/ \E i \in 1..Len(pending[app.shown]) : k = Len(mail) + i
    /\ \A k \in DOMAIN mail : k \in Taken <=> mail[k].s = app.shown /\ mail[k].kind = "accepted"
    /\ \A k \in Taken : k \in DOMAIN mail

LEMMA LineIs == CoreTyped /\ app.shown \in Sessions => LineFacts
<1>. SUFFICES ASSUME CoreTyped, app.shown \in Sessions PROVE LineFacts
  OBVIOUS
<1>1. /\ DOMAIN mail = 1..Len(mail) /\ Len(mail) \in Nat /\ Len(pending[app.shown]) \in Nat /\ app.shown # None
  <2>1. pending[app.shown] \in Seq(Texts)
    BY DEF CoreTyped
  <2>. QED  BY <2>1, LettersAre, LenProperties, FrontendAssumption
<1>2. Places = {k \in 1..(Len(mail) + Len(pending[app.shown])) :
                   k > Len(mail) \/ (mail[k].s = app.shown /\ mail[k].kind \in OfSteer)}
  BY <1>1 DEF Places
<1>3. \A k \in 1..Len(pending[app.shown]) :
          Len(mail) + k \in Places /\ Line[Len(mail) + k] = pending[app.shown][k] /\ Len(mail) + k \notin Taken
  <2>. TAKE k \in 1..Len(pending[app.shown])
  <2>1. Len(mail) + k \in Places
    BY <1>1, <1>2
  <2>2. Len(mail) + k > Len(mail) /\ (Len(mail) + k) - Len(mail) = k
    BY <1>1
  <2>. QED  BY <1>1, <2>1, <2>2 DEF Line, Taken
<1>4. \A k \in DOMAIN mail : k \in Places <=> mail[k].s = app.shown /\ mail[k].kind \in OfSteer
  BY <1>1, <1>2
<1>5. \A k \in DOMAIN mail : k \in Places => Line[k] = mail[k].x
  BY <1>1 DEF Line
<1>6. \A k \in Places : \/ k \in DOMAIN mail
                        \/ \E i \in 1..Len(pending[app.shown]) : k = Len(mail) + i
  <2>. TAKE k \in Places
  <2>1. CASE k <= Len(mail)
    BY <1>1, <1>2, <2>1
  <2>2. CASE k > Len(mail)
    <3>1. k - Len(mail) \in 1..Len(pending[app.shown]) /\ k = Len(mail) + (k - Len(mail))
      BY <1>1, <1>2, <2>2
    <3>. QED  BY <3>1
  <2>. QED  BY <1>1, <1>2, <2>1, <2>2
<1>7. /\ \A k \in DOMAIN mail : k \in Taken <=> mail[k].s = app.shown /\ mail[k].kind = "accepted"
      /\ \A k \in Taken : k \in DOMAIN mail
  BY <1>1, <1>2, <1>4 DEF Taken, OfSteer
<1>8. Places \subseteq Nat /\ Taken \subseteq Places
  BY <1>1, <1>2 DEF Taken
<1>. QED  BY <1>3, <1>4, <1>5, <1>6, <1>7, <1>8 DEF LineFacts

LEMMA NoLine == app.shown \notin Sessions /\ app.shown \in Sessions \cup {None} => Places = {} /\ Taken = {}
BY DEF Places, Taken

\* A step that keeps what the app holds, and carries the steers on their way
\* from place to place.
Carries(f) ==
    /\ \A k \in Places' : f[k] \in Places /\ Line'[k] = Line[f[k]] /\ (f[k] \in Taken => k \in Taken')
    /\ \A k, l \in Places' : k # l => f[k] # f[l]
    /\ \A k \in Taken : \E l \in Taken' : Line'[l] = Line[k]

LEMMA OnceMoves ==
    ASSUME OnceInv, insync, NEW f, Carries(f), Taken' \subseteq Places', brought' = brought,
           app'.queued = app.queued, app'.draft = app.draft, app'.steered = app.steered, Held' = Held,
           OwnPrompt' \subseteq OwnPrompt, Foreign' \subseteq Foreign,
           \A y \in said' : \/ y \in said \/ y \in brought
                            \/ y \notin Held /\ y \notin OwnPrompt' /\ \A k \in Places' : y \notin Line'[k]
                            \/ \E k \in Taken' : y \in Line'[k]
    PROVE  OnceInv'
<1>1. /\ LineApart /\ LineQueue /\ LineDraft /\ QueueApart /\ PromptApart /\ SaidOnce /\ ForeignApart
  BY DEF OnceInv
<1>2. /\ \A k \in Places' : f[k] \in Places /\ Line'[k] = Line[f[k]] /\ (f[k] \in Taken => k \in Taken')
      /\ \A k, l \in Places' : k # l => f[k] # f[l]
      /\ \A k \in Taken : \E l \in Taken' : Line'[l] = Line[k]
  BY DEF Carries
<1>3. LineApart'
  <2>1. \A k, l \in Places' : k # l => Line'[k] \cap Line'[l] \subseteq brought
    BY <1>1, <1>2 DEF LineApart
  <2>. QED  BY <2>1 DEF LineApart
<1>4. LineQueue' /\ LineDraft'
  BY <1>1, <1>2 DEF LineQueue, LineDraft
<1>5. QueueApart'
  BY <1>1 DEF QueueApart
<1>6. PromptApart'
  <2>1. \A k \in Places' : OwnPrompt' \cap Line'[k] \subseteq brought
    BY <1>1, <1>2 DEF PromptApart
  <2>2. OwnPrompt' \cap (Held' \cup said') \subseteq brought
    <3>. SUFFICES ASSUME NEW y \in OwnPrompt', y \in said', y \notin said, \E k \in Taken' : y \in Line'[k]
                  PROVE  y \in brought
      BY <1>1 DEF PromptApart
    <3>. QED  BY <2>1
  <2>. QED  BY <2>1, <2>2 DEF PromptApart
<1>7. SaidOnce'
  <2>1. ASSUME NEW k \in Places' \ Taken', NEW y \in Line'[k] \cap said' PROVE y \in brought
    <3>1. f[k] \in Places \ Taken /\ y \in Line[f[k]]
      BY <1>2, <2>1
    <3>2. CASE y \in said
      BY <1>1, <3>1, <3>2 DEF SaidOnce
    <3>3. ASSUME NEW l \in Taken', y \in Line'[l] PROVE y \in brought
      <4>1. l \in Places' /\ l # k
        BY <2>1, <3>3
      <4>. QED  BY <1>1, <1>2, <2>1, <3>1, <3>3, <4>1 DEF LineApart
    <3>. QED  BY <2>1, <3>2, <3>3
  <2>2. ASSUME NEW y \in (Held' \cap said') \ brought PROVE \E k \in Taken' : y \in Line'[k]
    <3>1. CASE y \in said
      BY <1>1, <1>2, <3>1 DEF SaidOnce
    <3>. QED  BY <3>1
  <2>. QED  BY <2>1, <2>2 DEF SaidOnce
<1>8. ForeignApart'
  BY <1>1, <1>2 DEF ForeignApart
<1>. QED  BY <1>3, <1>4, <1>5, <1>6, <1>7, <1>8 DEF OnceInv

\* What the core's steps do with the steers on their way to the app.
LEMMA CoreCarries ==
    ASSUME ScreenInv, NEW s \in Sessions, CoreWorks(s), app.shown \in Sessions
    PROVE  \E f : Carries(f)
<1>1. CoreTyped /\ CoreTyped' /\ MailKept /\ Written(s) /\ app' = app
  BY CoreSteps DEF ScreenInv, CoreWorks
<1>2. /\ DOMAIN mail = 1..Len(mail) /\ DOMAIN mail' = 1..Len(mail') /\ Len(mail) \in Nat /\ Len(mail') \in Nat
      /\ Len(mail) <= Len(mail')
      /\ \A i \in DOMAIN mail : i \in DOMAIN mail' /\ mail'[i] = mail[i]
      /\ \A i \in (Len(mail) + 1)..Len(mail') : i \in DOMAIN mail' /\ i \notin DOMAIN mail
      /\ \A i \in DOMAIN mail' : i \in DOMAIN mail \/ i \in (Len(mail) + 1)..Len(mail')
  BY <1>1, MailIs
<1>3. LineFacts
  BY <1>1, LineIs
<1>4. LineFacts'
  <2>1. CoreTyped' /\ app'.shown \in Sessions
    BY <1>1
  <2>2. (app.shown \in Sessions)'
    BY <2>1
  <2>. QED  BY <2>1, <2>2, LineIs, PTL
\* What is in the mail stays where it is;
<1>5. /\ \A k \in DOMAIN mail : (k \in Places' <=> k \in Places) /\ (k \in Taken' <=> k \in Taken)
      /\ \A k \in DOMAIN mail : k \in Places => Line'[k] = Line[k]
  <2>1. \A k \in DOMAIN mail : (k \in Places' <=> k \in Places) /\ (k \in Taken' <=> k \in Taken)
    BY <1>1, <1>2, <1>3, <1>4 DEF LineFacts
  <2>2. ASSUME NEW k \in DOMAIN mail, k \in Places PROVE Line'[k] = Line[k]
    <3>1. k \in DOMAIN mail' /\ mail'[k] = mail[k] /\ k \in Places'
      BY <1>2, <2>1, <2>2
    <3>2. Line'[k] = mail'[k].x
      BY <1>4, <3>1 DEF LineFacts
    <3>3. Line[k] = mail[k].x
      BY <1>3, <2>2 DEF LineFacts
    <3>. QED  BY <3>1, <3>2, <3>3
  <2>. QED  BY <2>1, <2>2
<1>6. \A k \in Taken : k \in DOMAIN mail /\ k \in Places
  BY <1>3 DEF LineFacts
<1>7. \A k \in Taken : \E l \in Taken' : Line'[l] = Line[k]
  BY <1>5, <1>6
\* and it is enough to say where a place after it was.
<1>8. ASSUME NEW g,
             \A k \in Places' : k \notin DOMAIN mail =>
                g[k] \in Places /\ g[k] \notin DOMAIN mail /\ Line'[k] = Line[g[k]],
             \A k, l \in Places' : k \notin DOMAIN mail /\ l \notin DOMAIN mail /\ k # l => g[k] # g[l]
      PROVE  \E f : Carries(f)
  <2>. DEFINE f == [k \in Places' |-> IF k \in DOMAIN mail THEN k ELSE g[k]]
  <2>1. /\ \A k \in Places' : k \in DOMAIN mail => f[k] = k
        /\ \A k \in Places' : k \notin DOMAIN mail => f[k] = g[k]
    OBVIOUS
  <2>. HIDE DEF f
  <2>2. \A k \in Places' : f[k] \in Places /\ Line'[k] = Line[f[k]] /\ (f[k] \in Taken => k \in Taken')
    BY <1>5, <1>6, <1>8, <2>1
  <2>3. \A k, l \in Places' : k # l => f[k] # f[l]
    BY <1>8, <2>1
  <2>4. Carries(f)
    BY <1>7, <2>2, <2>3 DEF Carries
  <2>. QED  BY <2>4
\* Those not in the mail any more or again are letters of the session, or pending.
<1>. DEFINE p == pending[app.shown]
            q == pending'[app.shown]
<1>9. /\ \A k \in 1..Len(p) : Len(mail) + k \in Places /\ Line[Len(mail) + k] = p[k] /\ Len(mail) + k \notin DOMAIN mail
      /\ \A k \in Places' : k \notin DOMAIN mail =>
            \/ /\ k \in (Len(mail) + 1)..Len(mail') /\ Line'[k] = mail'[k].x
               /\ s = app.shown /\ mail'[k].kind \in OfSteer
            \/ \E i \in 1..Len(q) : k = Len(mail') + i /\ Line'[k] = q[i]
      /\ Len(p) \in Nat /\ Len(q) \in Nat
  <2>1. Len(p) \in Nat /\ Len(q) \in Nat
    <3>1. p \in Seq(Texts) /\ q \in Seq(Texts)
      BY <1>1 DEF CoreTyped
    <3>. QED  BY <3>1, LenProperties
  <2>2. \A k \in 1..Len(p) : Len(mail) + k \notin DOMAIN mail
    BY <1>2, <2>1
  <2>3. \A k \in 1..Len(p) : Len(mail) + k \in Places /\ Line[Len(mail) + k] = p[k]
    BY <1>3 DEF LineFacts
  <2>4. ASSUME NEW k \in Places', k \notin DOMAIN mail
        PROVE  \/ /\ k \in (Len(mail) + 1)..Len(mail') /\ Line'[k] = mail'[k].x
                  /\ s = app.shown /\ mail'[k].kind \in OfSteer
               \/ \E i \in 1..Len(q) : k = Len(mail') + i /\ Line'[k] = q[i]
    <3>1. CASE k \in DOMAIN mail'
      <4>1. k \in (Len(mail) + 1)..Len(mail')
        BY <1>2, <2>4, <3>1
      <4>2. Line'[k] = mail'[k].x /\ mail'[k].s = app'.shown /\ mail'[k].kind \in OfSteer
        BY <1>4, <2>4, <3>1 DEF LineFacts
      <4>3. mail'[k].s = s
        BY <1>1, <4>1 DEF Written
      <4>. QED  BY <1>1, <4>1, <4>2, <4>3
    <3>2. CASE k \notin DOMAIN mail'
      <4>1. PICK i \in 1..Len(pending'[app'.shown]) : k = Len(mail') + i
        BY <1>4, <2>4, <3>2 DEF LineFacts
      <4>2. i \in 1..Len(q) /\ Line'[Len(mail') + i] = q[i]
        BY <1>1, <1>4, <4>1 DEF LineFacts
      <4>. QED  BY <4>1, <4>2
    <3>. QED  BY <3>1, <3>2
  <2>. QED  BY <2>1, <2>2, <2>3, <2>4
<1>. HIDE DEF p, q
<1>10. CASE s # app.shown
  <2>1. q = p
    <3>1. \A t \in Sessions \ {s} : pending'[t] = pending[t]
      BY <1>1, AcceptIs, RefuseIs, ForgetIs, FailIs, SettleIs DEF CoreWorks
    <3>. QED  BY <1>10, <3>1 DEF p, q
  <2>. DEFINE g == [k \in Places' |-> k - (Len(mail') - Len(mail))]
  <2>2. ASSUME NEW k \in Places', k \notin DOMAIN mail
        PROVE  \E i \in 1..Len(p) : k = Len(mail') + i /\ Line'[k] = p[i] /\ g[k] = Len(mail) + i
    <3>1. PICK i \in 1..Len(p) : k = Len(mail') + i /\ Line'[k] = p[i]
      BY <1>9, <1>10, <2>1, <2>2
    <3>2. g[k] = Len(mail) + i
      BY <1>2, <1>9, <3>1
    <3>. QED  BY <3>1, <3>2
  <2>. HIDE DEF g
  <2>3. \A k \in Places' : k \notin DOMAIN mail => g[k] \in Places /\ g[k] \notin DOMAIN mail /\ Line'[k] = Line[g[k]]
    BY <1>9, <2>2
  <2>4. \A k, l \in Places' : k \notin DOMAIN mail /\ l \notin DOMAIN mail /\ k # l => g[k] # g[l]
    <3>. SUFFICES ASSUME NEW k \in Places', NEW l \in Places', k \notin DOMAIN mail, l \notin DOMAIN mail, g[k] = g[l]
                  PROVE  k = l
      OBVIOUS
    <3>1. PICK i \in 1..Len(p) : k = Len(mail') + i /\ g[k] = Len(mail) + i
      BY <2>2
    <3>2. PICK j \in 1..Len(p) : l = Len(mail') + j /\ g[l] = Len(mail) + j
      BY <2>2
    <3>3. Len(mail) \in Nat /\ Len(p) \in Nat /\ Len(mail) + i = Len(mail) + j
      BY <1>2, <1>9, <3>1, <3>2
    <3>4. i = j
      BY <3>3
    <3>. QED  BY <3>1, <3>2, <3>4
  <2>. QED  BY <1>8, <2>3, <2>4
\* It is enough to say of each place which of the pending it was.
<1>11. ASSUME NEW h,
              \A k \in Places' : k \notin DOMAIN mail => h[k] \in 1..Len(p) /\ Line'[k] = p[h[k]],
              \A k, l \in Places' : k \notin DOMAIN mail /\ l \notin DOMAIN mail /\ k # l => h[k] # h[l]
       PROVE  \E f : Carries(f)
  <2>. DEFINE g == [k \in Places' |-> Len(mail) + h[k]]
  <2>1. \A k \in Places' : k \notin DOMAIN mail => g[k] = Len(mail) + h[k]
    OBVIOUS
  <2>. HIDE DEF g
  <2>2. \A k \in Places' : k \notin DOMAIN mail => g[k] \in Places /\ g[k] \notin DOMAIN mail /\ Line'[k] = Line[g[k]]
    BY <1>9, <1>11, <2>1
  <2>3. \A k, l \in Places' : k \notin DOMAIN mail /\ l \notin DOMAIN mail /\ k # l => g[k] # g[l]
    <3>. SUFFICES ASSUME NEW k \in Places', NEW l \in Places', k \notin DOMAIN mail, l \notin DOMAIN mail, k # l
                  PROVE  g[k] # g[l]
      OBVIOUS
    <3>1. h[k] \in 1..Len(p) /\ h[l] \in 1..Len(p) /\ h[k] # h[l]
      BY <1>11
    <3>. QED  BY <1>2, <1>9, <2>1, <3>1
  <2>. QED  BY <1>8, <2>2, <2>3
<1>12. CASE s = app.shown /\ Accept(s)
  <2>1. PICK n \in 1..Len(p) :
            /\ Len(mail') = Len(mail) + n /\ Len(q) = Len(p) - n
            /\ \A k \in 1..n : mail'[Len(mail) + k] = Event(s, "accepted", p[k])
            /\ \A k \in 1..(Len(p) - n) : q[k] = p[k + n]
    BY <1>1, <1>12, AcceptIs DEF p, q
  <2>. DEFINE h == [k \in Places' |-> k - Len(mail)]
  <2>2. ASSUME NEW k \in Places', k \notin DOMAIN mail
        PROVE  h[k] \in 1..Len(p) /\ Line'[k] = p[h[k]] /\ k = Len(mail) + h[k]
    <3>1. CASE k \in (Len(mail) + 1)..Len(mail') /\ Line'[k] = mail'[k].x
      <4>1. h[k] \in 1..n /\ k = Len(mail) + h[k] /\ h[k] \in 1..Len(p)
        BY <1>2, <1>9, <2>1, <3>1
      <4>. HIDE DEF h
      <4>2. mail'[k].x = p[h[k]]
        <5>1. mail'[Len(mail) + h[k]] = Event(s, "accepted", p[h[k]])
          BY <2>1, <4>1
        <5>. QED  BY <4>1, <5>1, EventIs
      <4>. QED  BY <3>1, <4>1, <4>2
    <3>2. ASSUME NEW i \in 1..Len(q), k = Len(mail') + i, Line'[k] = q[i]
          PROVE  h[k] \in 1..Len(p) /\ Line'[k] = p[h[k]] /\ k = Len(mail) + h[k]
      <4>1. h[k] = i + n /\ k = Len(mail) + h[k] /\ h[k] \in 1..Len(p)
        BY <1>2, <1>9, <2>1, <3>2
      <4>. HIDE DEF h
      <4>2. i \in 1..(Len(p) - n)
        BY <2>1
      <4>. QED  BY <2>1, <3>2, <4>1, <4>2
    <3>. QED  BY <1>9, <2>2, <3>1, <3>2
  <2>. HIDE DEF h
  <2>3. \A k, l \in Places' : k \notin DOMAIN mail /\ l \notin DOMAIN mail /\ k # l => h[k] # h[l]
    BY <2>2
  <2>. QED  BY <1>11, <2>2, <2>3
<1>13. CASE s = app.shown /\ Refuse(s)
  <2>1. PICK j \in 1..Len(p) :
            /\ Len(mail') = Len(mail) + 1 /\ Len(q) = Len(p) - 1
            /\ mail'[Len(mail) + 1] = Event(s, "blocked", p[j])
            /\ \A k \in 1..(Len(p) - 1) : q[k] = p[IF k < j THEN k ELSE k + 1]
    BY <1>1, <1>13, RefuseIs DEF p, q
  <2>. DEFINE m(k) == k - (Len(mail) + 1)
              h == [k \in Places' |-> IF k = Len(mail) + 1 THEN j ELSE IF m(k) < j THEN m(k) ELSE m(k) + 1]
  <2>2. ASSUME NEW k \in Places', k \notin DOMAIN mail
        PROVE  \/ k = Len(mail) + 1 /\ h[k] = j /\ Line'[k] = p[j]
               \/ \E i \in 1..(Len(p) - 1) : /\ k = Len(mail) + 1 + i /\ h[k] = (IF i < j THEN i ELSE i + 1)
                                             /\ Line'[k] = p[IF i < j THEN i ELSE i + 1]
    <3>1. CASE k \in (Len(mail) + 1)..Len(mail') /\ Line'[k] = mail'[k].x
      <4>1. k = Len(mail) + 1 /\ h[k] = j
        BY <1>2, <1>9, <2>1, <3>1
      <4>2. mail'[k].x = p[j]
        BY <2>1, <4>1, EventIs
      <4>. QED  BY <3>1, <4>1, <4>2
    <3>2. ASSUME NEW i \in 1..Len(q), k = Len(mail') + i, Line'[k] = q[i]
          PROVE  \E i1 \in 1..(Len(p) - 1) : /\ k = Len(mail) + 1 + i1 /\ h[k] = (IF i1 < j THEN i1 ELSE i1 + 1)
                                             /\ Line'[k] = p[IF i1 < j THEN i1 ELSE i1 + 1]
      <4>1. i \in 1..(Len(p) - 1) /\ k = Len(mail) + 1 + i /\ m(k) = i /\ k # Len(mail) + 1
        BY <1>2, <1>9, <2>1, <3>2
      <4>2. h[k] = (IF i < j THEN i ELSE i + 1)
        BY <4>1
      <4>. HIDE DEF h, m
      <4>. QED  BY <2>1, <3>2, <4>1, <4>2
    <3>. QED  BY <1>9, <2>2, <3>1, <3>2
  <2>. HIDE DEF h, m
  <2>3. \A k \in Places' : k \notin DOMAIN mail => h[k] \in 1..Len(p) /\ Line'[k] = p[h[k]]
    <3>. SUFFICES ASSUME NEW k \in Places', k \notin DOMAIN mail
                  PROVE  h[k] \in 1..Len(p) /\ Line'[k] = p[h[k]]
      OBVIOUS
    <3>1. CASE k = Len(mail) + 1 /\ h[k] = j /\ Line'[k] = p[j]
      BY <3>1
    <3>2. ASSUME NEW i \in 1..(Len(p) - 1), h[k] = (IF i < j THEN i ELSE i + 1), Line'[k] = p[IF i < j THEN i ELSE i + 1]
          PROVE  h[k] \in 1..Len(p) /\ Line'[k] = p[h[k]]
      BY <1>9, <3>2
    <3>. QED  BY <2>2, <3>1, <3>2
  <2>4. \A k, l \in Places' : k \notin DOMAIN mail /\ l \notin DOMAIN mail /\ k # l => h[k] # h[l]
    <3>. SUFFICES ASSUME NEW k \in Places', NEW l \in Places', k \notin DOMAIN mail, l \notin DOMAIN mail, k # l
                  PROVE  h[k] # h[l]
      OBVIOUS
    <3>1. \/ k = Len(mail) + 1 /\ h[k] = j
          \/ \E i \in 1..(Len(p) - 1) : k = Len(mail) + 1 + i /\ h[k] = (IF i < j THEN i ELSE i + 1)
      BY <2>2
    <3>2. \/ l = Len(mail) + 1 /\ h[l] = j
          \/ \E i \in 1..(Len(p) - 1) : l = Len(mail) + 1 + i /\ h[l] = (IF i < j THEN i ELSE i + 1)
      BY <2>2
    <3>3. \A i \in 1..(Len(p) - 1) : (IF i < j THEN i ELSE i + 1) # j
      BY <1>9
    <3>4. \A i, i1 \in 1..(Len(p) - 1) : i # i1 => (IF i < j THEN i ELSE i + 1) # (IF i1 < j THEN i1 ELSE i1 + 1)
      BY <1>9
    <3>. QED  BY <3>1, <3>2, <3>3, <3>4
  <2>. QED  BY <1>11, <2>3, <2>4
<1>14. CASE s = app.shown /\ Forget(s)
  <2>1. PICK n \in 1..Len(p) : Len(q) = Len(p) - n /\ \A k \in 1..(Len(p) - n) : q[k] = p[k + n]
    BY <1>1, <1>14, ForgetIs DEF p, q
  <2>2. mail' = mail
    BY <1>1, <1>14, ForgetIs
  <2>. DEFINE h == [k \in Places' |-> (k - Len(mail)) + n]
  <2>3. ASSUME NEW k \in Places', k \notin DOMAIN mail
        PROVE  h[k] \in 1..Len(p) /\ Line'[k] = p[h[k]] /\ k = Len(mail) + (h[k] - n)
    <3>1. PICK i \in 1..Len(q) : k = Len(mail') + i /\ Line'[k] = q[i]
      <4>1. (Len(mail) + 1)..Len(mail') = {}
        BY <1>2, <2>2
      <4>. QED  BY <1>9, <2>3, <4>1
    <3>2. h[k] = i + n /\ h[k] \in 1..Len(p) /\ k = Len(mail) + (h[k] - n) /\ i \in 1..(Len(p) - n)
      BY <1>2, <1>9, <2>1, <2>2, <3>1
    <3>. HIDE DEF h
    <3>. QED  BY <2>1, <3>1, <3>2
  <2>. HIDE DEF h
  <2>4. \A k, l \in Places' : k \notin DOMAIN mail /\ l \notin DOMAIN mail /\ k # l => h[k] # h[l]
    BY <2>3
  <2>. QED  BY <1>11, <2>3, <2>4
<1>15. CASE s = app.shown /\ ((Fail(s) /\ working[s].kind = "compact") \/ Settle(s))
  <2>1. Len(mail') = Len(mail) + 1 /\ mail'[Len(mail) + 1].kind \notin OfSteer /\ q = <<>>
    <3>1. CASE s \in Turns /\ Settle(s)
      BY <1>1, <1>15, <3>1, SettleIs DEF OfSteer, q
    <3>2. CASE s \notin Turns /\ Settle(s)
      BY <1>1, <1>15, <3>2, SettleIs DEF OfSteer, q
    <3>3. CASE Fail(s) /\ working[s].kind = "compact"
      <4>1. mail'[Len(mail) + 1].kind = "error" /\ Len(mail') = Len(mail) + 1 /\ pending' = pending
        BY <1>1, <3>3, FailIs, EventIs
      <4>2. s \notin Turns
        BY <3>3 DEF Turns
      <4>. QED  BY <1>1, <1>15, <4>1, <4>2 DEF OfSteer, q, CoreTyped
    <3>. QED  BY <1>15, <3>1, <3>2, <3>3
  <2>2. \A k \in Places' : k \in DOMAIN mail
    <3>1. Len(q) = 0 /\ \A k \in (Len(mail) + 1)..Len(mail') : k = Len(mail) + 1
      BY <1>2, <2>1
    <3>. QED  BY <1>9, <2>1, <3>1
  <2>. QED  BY <1>8, <2>2
<1>. QED  BY <1>10, <1>12, <1>13, <1>14, <1>15 DEF CoreWorks

\* A text of a turn shown is its prompt's, and one of another's is not the app's.
LEMMA OutsideIs ==
    ASSUME CoreTyped
    PROVE  /\ \A s \in Turns : \A y \in working[s].prompt : y \in IF s = app.shown THEN OwnPrompt ELSE Foreign
           /\ \A s \in Turns : s # app.shown => \A k \in 1..Len(pending[s]) : pending[s][k] \subseteq Foreign
           /\ \A i \in DOMAIN mail : mail[i].why = "blocked" => mail[i].kind = "done"
<1>1. \A s \in Turns : working[s].prompt \subseteq 1..MaxTyped
  BY DEF CoreTyped, Texts
<1>2. \A s \in Turns : pending[s] \in Seq(Texts)
  BY DEF CoreTyped, Turns
<1>3. \A s \in Turns : DOMAIN pending[s] = 1..Len(pending[s]) /\ \A k \in 1..Len(pending[s]) : pending[s][k] \subseteq 1..MaxTyped
  <2>. TAKE s \in Turns
  <2>1. DOMAIN pending[s] = 1..Len(pending[s]) /\ \A k \in 1..Len(pending[s]) : pending[s][k] \in Texts
    BY <1>2
  <2>. QED  BY <2>1 DEF Texts
<1>4. \A i \in DOMAIN mail : mail[i].why = "blocked" => mail[i].kind = "done"
  BY DEF CoreTyped, Reasons
<1>. QED  BY <1>1, <1>3, <1>4 DEF OwnPrompt, Foreign

\* No step of the core's brings the app a text it did not have out.
LEMMA CoreOutside ==
    ASSUME ScreenInv, NEW s \in Sessions, CoreWorks(s)
    PROVE  OwnPrompt' \subseteq OwnPrompt /\ Foreign' \subseteq Foreign
<1>1. CoreTyped /\ CoreTyped' /\ MailKept /\ Written(s) /\ app' = app
  BY CoreSteps DEF ScreenInv, CoreWorks
<1>2. /\ \A i \in DOMAIN mail : mail'[i] = mail[i]
      /\ \A i \in DOMAIN mail' : i \in DOMAIN mail \/ i \in (Len(mail) + 1)..Len(mail')
  BY <1>1, MailIs
<1>3. /\ \A t \in Turns : \A y \in working[t].prompt : y \in IF t = app.shown THEN OwnPrompt ELSE Foreign
      /\ \A t \in Turns : t # app.shown => \A k \in 1..Len(pending[t]) : pending[t][k] \subseteq Foreign
  BY <1>1, OutsideIs
<1>4. \A t \in Turns' : t \in Turns /\ working'[t].prompt = working[t].prompt
  BY <1>1, CoreTexts
<1>5. \A i \in (Len(mail) + 1)..Len(mail') :
          /\ mail'[i].s = s
          /\ \/ /\ s \in Turns /\ mail'[i].kind \in OfSteer /\ mail'[i].why \notin Reasons
                /\ \E k \in 1..Len(pending[s]) : mail'[i].x = pending[s][k]
             \/ /\ s \in Turns /\ mail'[i].kind = "done" /\ mail'[i].of = working[s].prompt
             \/ mail'[i].kind \in {"error", "compacted"} /\ mail'[i].why \notin Reasons
  BY <1>1, CoreTexts DEF Written
<1>6. ASSUME NEW y \in OwnPrompt' PROVE y \in OwnPrompt
  <2>1. y \in 1..MaxTyped
    BY DEF OwnPrompt
  <2>2. CASE app'.shown \in Turns' /\ y \in working'[app'.shown].prompt
    BY <1>1, <1>3, <1>4, <2>2
  <2>3. ASSUME NEW i \in DOMAIN mail', mail'[i].s = app'.shown, mail'[i].why = "blocked", y \in mail'[i].of
        PROVE  y \in OwnPrompt
    <3>1. CASE i \in DOMAIN mail
      BY <1>1, <1>2, <2>1, <2>3, <3>1 DEF OwnPrompt
    <3>2. CASE i \in (Len(mail) + 1)..Len(mail')
      BY <1>1, <1>3, <1>5, <2>3, <3>2 DEF Reasons
    <3>. QED  BY <1>2, <3>1, <3>2
  <2>. QED  BY <2>2, <2>3 DEF OwnPrompt
<1>7. ASSUME NEW y \in Foreign' PROVE y \in Foreign
  <2>1. y \in 1..MaxTyped
    BY DEF Foreign
  <2>2. ASSUME NEW t \in Turns', t # app'.shown, y \in working'[t].prompt PROVE y \in Foreign
    BY <1>1, <1>3, <1>4, <2>2
  <2>3. ASSUME NEW t \in Turns', t # app'.shown, NEW k \in DOMAIN pending'[t], y \in pending'[t][k] PROVE y \in Foreign
    <3>1. t \in Turns /\ t \in Sessions
      BY <1>4 DEF Turns
    <3>2. k \in 1..Len(pending'[t])
      <4>1. pending'[t] \in Seq(Texts)
        BY <1>1, <3>1 DEF CoreTyped
      <4>. QED  BY <4>1, LenProperties
    <3>3. PICK l \in 1..Len(pending[t]) : pending'[t][k] = pending[t][l]
      BY <1>1, <3>1, <3>2, CoreTexts
    <3>. QED  BY <1>1, <1>3, <2>3, <3>1, <3>3
  <2>4. ASSUME NEW i \in DOMAIN mail', mail'[i].s # app'.shown,
               \/ mail'[i].kind \in OfSteer /\ y \in mail'[i].x
               \/ mail'[i].why = "blocked" /\ y \in mail'[i].of
        PROVE  y \in Foreign
    <3>1. CASE i \in DOMAIN mail
      BY <1>1, <1>2, <2>1, <2>4, <3>1 DEF Foreign
    <3>2. CASE i \in (Len(mail) + 1)..Len(mail')
      <4>1. mail'[i].kind \notin {"error", "compacted"} \/ mail'[i].why # "blocked"
        BY <1>5, <3>2 DEF Reasons
      <4>2. CASE mail'[i].kind \in OfSteer /\ y \in mail'[i].x
        BY <1>1, <1>3, <1>5, <2>4, <3>2, <4>2 DEF OfSteer
      <4>3. CASE mail'[i].why = "blocked" /\ y \in mail'[i].of
        BY <1>1, <1>3, <1>5, <2>4, <3>2, <4>3 DEF Reasons
      <4>. QED  BY <2>4, <4>2, <4>3
    <3>. QED  BY <1>2, <3>1, <3>2
  <2>. QED  BY <2>2, <2>3, <2>4 DEF Foreign
<1>. QED  BY <1>6, <1>7

\* The receipt of the turn shown leaves its prompt with the app only when it
\* was refused.
LEMMA PromptGone ==
    ASSUME ScreenInv, insync, NEW s \in Sessions, CoreWorks(s), s = app.shown, s \in Turns,
           NEW i \in (Len(mail) + 1)..Len(mail'), mail'[i].kind = "done", mail'[i].why # "blocked"
    PROVE  OwnPrompt' = {}
<1>1. CoreTyped /\ CoreTyped' /\ MailKept /\ (Tells(s) \/ Fails(s) \/ Settled(s)) /\ app' = app
  BY CoreSteps DEF ScreenInv, CoreWorks
<1>2. /\ Len(mail) \in Nat /\ \A j \in DOMAIN mail : mail'[j] = mail[j]
      /\ \A j \in DOMAIN mail' : j \in DOMAIN mail \/ j \in (Len(mail) + 1)..Len(mail')
  BY <1>1, MailIs
<1>3. Settled(s)
  BY <1>1 DEF Tells, Fails, OfSteer
<1>4. working[s] # None /\ Len(mail') = Len(mail) + 1 /\ Turns' = Turns \ {s}
  BY <1>3 DEF Settled
<1>5. \A j \in (Len(mail) + 1)..Len(mail') : j = i
  BY <1>2, <1>4
<1>6. \A j \in DOMAIN mail : mail[j].s = s => mail[j].kind # "done"
  <2>1. app.shown \in Busy /\ app.shown # None
    BY <1>4, FrontendAssumption DEF Busy
  <2>2. app.running /\ ~app.compacting
    BY <2>1 DEF ScreenInv, InSync, CompactShown
  <2>. QED  BY <1>4, <2>1, <2>2 DEF ScreenInv, InSync
<1>7. \A j \in DOMAIN mail : mail[j].s = s => mail[j].why # "blocked"
  BY <1>1, <1>6, OutsideIs
<1>. QED  BY <1>1, <1>2, <1>4, <1>5, <1>7 DEF OwnPrompt

LEMMA CoreOnce ==
    ASSUME ScreenInv, OnceInv, NEW s \in Sessions, CoreWorks(s)
    PROVE  OnceInv'
<1>1. CoreTyped /\ CoreTyped' /\ MailKept /\ Written(s) /\ app' = app /\ insync' = insync /\ brought' = brought
  BY CoreSteps DEF ScreenInv, CoreWorks
<1>. SUFFICES ASSUME insync PROVE OnceInv'
  BY <1>1 DEF OnceInv
<1>2. Held' = Held /\ app.shown \in Sessions \cup {None}
  BY <1>1 DEF Held, ScreenInv, AppTyped
<1>3. OwnPrompt' \subseteq OwnPrompt /\ Foreign' \subseteq Foreign
  BY CoreOutside
<1>4. Taken' \subseteq Places'
  BY DEF Taken
<1>5. PICK f : Carries(f)
  <2>1. CASE app.shown \in Sessions
    BY <2>1, CoreCarries
  <2>2. CASE app.shown \notin Sessions
    <3>1. Places' = {} /\ Taken = {}
      BY <1>1, <1>2, <2>2 DEF Places, Taken
    <3>. QED  BY <3>1 DEF Carries
  <2>. QED  BY <2>1, <2>2
<1>6. /\ \A t \in Turns : \A y \in working[t].prompt : y \in IF t = app.shown THEN OwnPrompt ELSE Foreign
      /\ \A t \in Turns : t # app.shown => \A k \in 1..Len(pending[t]) : pending[t][k] \subseteq Foreign
  BY <1>1, OutsideIs
<1>7. \A y \in Foreign : y \in brought \/ (y \notin Held /\ y \notin OwnPrompt' /\ \A k \in Places' : y \notin Line'[k])
  BY <1>3, <1>5 DEF OnceInv, ForeignApart, Carries
<1>8. \A y \in OwnPrompt : y \in brought \/ (y \notin Held /\ \A k \in Places' : y \notin Line'[k])
  BY <1>5 DEF OnceInv, PromptApart, Carries
<1>9. ASSUME NEW y \in said', y \notin said
      PROVE  \/ y \in brought
             \/ y \notin Held /\ y \notin OwnPrompt' /\ \A k \in Places' : y \notin Line'[k]
             \/ \E k \in Taken' : y \in Line'[k]
  <2>1. PICK i \in (Len(mail) + 1)..Len(mail') :
            \/ mail'[i].kind = "accepted" /\ y \in mail'[i].x
            \/ mail'[i].kind = "done" /\ mail'[i].why # "blocked" /\ y \in mail'[i].of
    BY <1>9, SaidIs
  <2>2. /\ \/ /\ s \in Turns /\ mail'[i].kind \in OfSteer
              /\ \E k \in 1..Len(pending[s]) : mail'[i].x = pending[s][k]
           \/ s \in Turns /\ mail'[i].kind = "done" /\ mail'[i].of = working[s].prompt
           \/ mail'[i].kind \in {"error", "compacted"}
    BY <1>1, CoreTexts
  <2>3. mail'[i].s = s /\ i \in DOMAIN mail'
    BY <1>1, MailIs DEF Written
  <2>4. CASE s # app.shown
    BY <1>6, <1>7, <2>1, <2>2, <2>4 DEF OfSteer
  <2>5. CASE s = app.shown /\ mail'[i].kind = "accepted" /\ y \in mail'[i].x
    <3>1. (app.shown \in Sessions)'
      BY <1>1, <2>5
    <3>2. LineFacts'
      BY <1>1, <3>1, LineIs, PTL
    <3>3. i \in Taken' /\ Line'[i] = mail'[i].x
      BY <1>1, <2>3, <2>5, <3>2 DEF LineFacts, OfSteer
    <3>. QED  BY <2>5, <3>3
  <2>6. CASE s = app.shown /\ mail'[i].kind = "done" /\ mail'[i].why # "blocked" /\ y \in mail'[i].of
    <3>1. s \in Turns /\ mail'[i].of = working[s].prompt
      BY <2>2, <2>6 DEF OfSteer
    <3>2. OwnPrompt' = {}
      BY <2>6, <3>1, PromptGone
    <3>. QED  BY <1>6, <1>8, <2>6, <3>1, <3>2
  <2>. QED  BY <2>1, <2>4, <2>5, <2>6
<1>10. \A y \in said' : \/ y \in said \/ y \in brought
                        \/ y \notin Held /\ y \notin OwnPrompt' /\ \A k \in Places' : y \notin Line'[k]
                        \/ \E k \in Taken' : y \in Line'[k]
  BY <1>9
<1>. QED  BY <1>1, <1>2, <1>3, <1>4, <1>5, <1>10, OnceMoves

\* A session with nothing on its way to the app.
Calm(s, m) == s # None => pending[s] = <<>> /\ \A i \in DOMAIN m : m[i].s # s

\* When the session shown has nothing on its way, only its own prompt is out.
CalmFacts == Places = {} /\ \A y \in OwnPrompt : app.shown \in Turns /\ y \in working[app.shown].prompt

LEMMA MailFrom == ASSUME CoreTyped PROVE \A i \in DOMAIN mail : mail[i].s \in Sessions
<1>1. mail \in Seq(Letters)
  BY DEF CoreTyped
<1>2. \A i \in DOMAIN mail : mail[i] \in Letters
  BY <1>1
<1>. QED  BY <1>2 DEF Letters

LEMMA CalmIs == CoreTyped /\ app.shown \in Sessions \cup {None} /\ Calm(app.shown, mail) => CalmFacts
<1>. SUFFICES ASSUME CoreTyped, app.shown \in Sessions \cup {None}, Calm(app.shown, mail) PROVE CalmFacts
  OBVIOUS
<1>1. \A i \in DOMAIN mail : mail[i].s # app.shown
  BY MailFrom, FrontendAssumption DEF Calm
<1>2. Places = {}
  <2>1. CASE app.shown = None
    BY <2>1 DEF Places
  <2>2. CASE app.shown # None
    <3>1. app.shown \in Sessions /\ Len(pending[app.shown]) = 0
      BY <2>2 DEF Calm
    <3>. QED  BY <1>1, <3>1, LineIs DEF LineFacts
  <2>. QED  BY <2>1, <2>2
<1>. QED  BY <1>1, <1>2 DEF CalmFacts, OwnPrompt

LEMMA CalmAfter ==
    ASSUME CoreTyped', app'.shown \in Sessions \cup {None}, Calm(app.shown, mail)'
    PROVE  CalmFacts'
<1>1. (app.shown \in Sessions \cup {None})'
  OBVIOUS
<1>. QED  BY <1>1, CalmIs, PTL

\* It has none when it works on nothing and has nothing unread.
LEMMA CalmFree ==
    ASSUME CoreTyped, NEW s \in Sessions, s \notin Busy
    PROVE  Calm(s, mail) /\ s \notin Turns
BY DEF Calm, CoreTyped, Busy, Turns

\* A text the app holds that it has sent was steered.
LEMMA SentIsSteered ==
    ASSUME ScreenInv, OnceInv, insync, NEW y \in Held, NEW k \in Places, y \in Line[k], y \notin brought
    PROVE  y \in Joined(SubSeq(app.queued, 1, app.steered))
<1>1. app.queued \in Seq(Texts) /\ app.steered \in Nat /\ app.steered <= Len(app.queued)
  BY DEF ScreenInv, AppTyped, QueueInv, App
<1>2. y \notin app.draft
  BY DEF OnceInv, LineDraft
<1>3. PICK j \in 1..Len(app.queued) : y \in app.queued[j]
  BY <1>1, <1>2, JoinedIs DEF Held
<1>4. j <= app.steered
  BY <1>3 DEF OnceInv, LineQueue
<1>5. /\ SubSeq(app.queued, 1, app.steered) \in Seq(Texts) /\ Len(SubSeq(app.queued, 1, app.steered)) = app.steered
      /\ \A i \in 1..app.steered : SubSeq(app.queued, 1, app.steered)[i] = app.queued[i]
  BY <1>1
<1>6. j \in 1..app.steered
  BY <1>1, <1>4
<1>. QED  BY <1>3, <1>5, <1>6, JoinedIs

\* Whatever session is shown next, what is another's then was another's, or of
\* the one shown.
LEMMA ForeignAfter ==
    ASSUME CoreTyped, app.shown \in Sessions \cup {None}, pending' = pending,
           \A i \in DOMAIN mail' : \E j \in DOMAIN mail : mail'[i] = mail[j],
           \A t \in Turns' : t # app'.shown => t \in Turns /\ working'[t].prompt = working[t].prompt
    PROVE  /\ \A y \in Foreign' : y \in Foreign \/ y \in OwnPrompt \/ \E k \in Places : y \in Line[k]
           /\ app'.shown = app.shown => Foreign' \subseteq Foreign
<1>1. app.shown \in Sessions => LineFacts
  BY LineIs
<1>2. ASSUME NEW y \in Foreign'
      PROVE  /\ y \in Foreign \/ y \in OwnPrompt \/ \E k \in Places : y \in Line[k]
             /\ app'.shown = app.shown => y \in Foreign
  <2>1. y \in 1..MaxTyped
    BY DEF Foreign
  <2>2. ASSUME NEW t \in Turns', t # app'.shown, y \in working'[t].prompt
        PROVE  /\ y \in Foreign \/ y \in OwnPrompt
               /\ app'.shown = app.shown => y \in Foreign
    <3>1. t \in Turns /\ y \in working[t].prompt
      BY <2>2
    <3>. QED  BY <2>1, <2>2, <3>1 DEF Foreign, OwnPrompt
  <2>3. ASSUME NEW t \in Turns', t # app'.shown, NEW k \in DOMAIN pending'[t], y \in pending'[t][k]
        PROVE  /\ y \in Foreign \/ \E l \in Places : y \in Line[l]
               /\ app'.shown = app.shown => y \in Foreign
    <3>1. t \in Turns /\ t \in Sessions /\ k \in DOMAIN pending[t] /\ y \in pending[t][k]
      BY <2>3 DEF Turns
    <3>2. CASE t = app.shown
      <4>1. pending[t] \in Seq(Texts)
        BY <3>1 DEF CoreTyped
      <4>2. k \in 1..Len(pending[t])
        BY <3>1, <4>1, LenProperties
      <4>3. Len(mail) + k \in Places /\ Line[Len(mail) + k] = pending[t][k]
        BY <1>1, <3>1, <3>2, <4>2 DEF LineFacts
      <4>. QED  BY <2>3, <3>1, <3>2, <4>3
    <3>3. CASE t # app.shown
      BY <2>1, <3>1, <3>3 DEF Foreign
    <3>. QED  BY <3>2, <3>3
  <2>4. ASSUME NEW i \in DOMAIN mail', mail'[i].s # app'.shown,
               \/ mail'[i].kind \in OfSteer /\ y \in mail'[i].x
               \/ mail'[i].why = "blocked" /\ y \in mail'[i].of
        PROVE  /\ y \in Foreign \/ y \in OwnPrompt \/ \E l \in Places : y \in Line[l]
               /\ app'.shown = app.shown => y \in Foreign
    <3>1. PICK j \in DOMAIN mail : mail'[i] = mail[j]
      OBVIOUS
    <3>2. CASE mail[j].s # app.shown
      BY <2>1, <2>4, <3>1, <3>2 DEF Foreign
    <3>3. CASE mail[j].s = app.shown /\ mail[j].kind \in OfSteer /\ y \in mail[j].x
      <4>1. app.shown \in Sessions
        BY <3>3, MailFrom
      <4>2. j \in Places /\ Line[j] = mail[j].x
        BY <1>1, <3>3, <4>1 DEF LineFacts
      <4>. QED  BY <2>4, <3>1, <3>3, <4>2
    <3>4. CASE mail[j].s = app.shown /\ mail[j].why = "blocked" /\ y \in mail[j].of
      BY <2>1, <2>4, <3>1, <3>4 DEF OwnPrompt
    <3>. QED  BY <2>4, <3>1, <3>2, <3>3, <3>4
  <2>. QED  BY <2>2, <2>3, <2>4 DEF Foreign
<1>. QED  BY <1>2

\* Where only the prompt x, if any, is out of what the app held.
LEMMA CalmOnce ==
    ASSUME CalmFacts', NEW H, NEW x, Held' \cup x \subseteq H, x \cap Held' \subseteq brought',
           H \cap said' \subseteq brought', H \cap Foreign' \subseteq brought', QueueApart',
           app'.shown \in Turns' => working'[app'.shown].prompt \subseteq x
    PROVE  OnceInv'
<1>1. Places' = {} /\ Taken' = {} /\ OwnPrompt' \subseteq x
  BY DEF CalmFacts, Taken
<1>2. LineApart' /\ LineQueue' /\ LineDraft'
  BY <1>1 DEF LineApart, LineQueue, LineDraft
<1>3. PromptApart' /\ SaidOnce' /\ ForeignApart'
  BY <1>1 DEF PromptApart, SaidOnce, ForeignApart
<1>. QED  BY <1>2, <1>3 DEF OnceInv

\* What is out is as it was when the core's state and the session shown are.
LEMMA OutKept ==
    ASSUME WorkKept, pending' = pending, mail' = mail, app'.shown = app.shown
    PROVE  Places' = Places /\ Line' = Line /\ Taken' = Taken /\ OwnPrompt' = OwnPrompt /\ Foreign' = Foreign
<1>1. Places' = Places
  BY DEF Places
<1>2. Line' = Line /\ Taken' = Taken
  BY <1>1 DEF Line, Taken
<1>3. Turns' = Turns /\ \A s \in Turns : working'[s].prompt = working[s].prompt
  BY KeptTurns DEF WorkKept, Turns
<1>4. OwnPrompt' = OwnPrompt
  BY <1>3 DEF OwnPrompt
<1>5. Foreign' = Foreign
  <2>1. \A y : y \in Foreign' <=> y \in Foreign
    BY <1>3 DEF Foreign
  <2>. QED  BY <2>1
<1>. QED  BY <1>1, <1>2, <1>4, <1>5

LEMMA EscOnce == ASSUME ScreenInv, OnceInv, Esc PROVE OnceInv'
<1>1. app' = app /\ insync' = insync /\ said' = said /\ brought' = brought /\ Held' = Held
  BY EscIs DEF Held
<1>2. Places' = Places /\ Line' = Line /\ Taken' = Taken /\ OwnPrompt' = OwnPrompt /\ Foreign' = Foreign
  BY <1>1, EscIs, OutKept
<1>. QED  BY <1>1, <1>2 DEF OnceInv, LineApart, LineQueue, LineDraft, QueueApart, PromptApart, SaidOnce, ForeignApart

LEMMA TypeOnce == ASSUME ScreenInv, TextInv, OnceInv, Type PROVE OnceInv'
<1>1. /\ typed \in Nat /\ app'.draft = app.draft \cup {typed + 1}
      /\ app'.shown = app.shown /\ app'.queued = app.queued /\ app'.steered = app.steered
      /\ working' = working /\ pending' = pending /\ mail' = mail /\ insync' = insync
      /\ said' = said /\ brought' = brought
  BY TypeIs
<1>. SUFFICES ASSUME insync PROVE OnceInv'
  BY <1>1 DEF OnceInv
<1>2. WorkKept
  BY <1>1 DEF WorkKept
<1>3. Places' = Places /\ Line' = Line /\ Taken' = Taken /\ OwnPrompt' = OwnPrompt /\ Foreign' = Foreign
  BY <1>1, <1>2, OutKept
<1>4. Held' = Held \cup {typed + 1} /\ typed + 1 \notin 1..typed
  BY <1>1 DEF Held
\* What is typed is new.
<1>5. Held \subseteq 1..typed /\ said \subseteq 1..typed
  BY DEF TextInv, AllTyped
<1>6. \A k \in Places : Line[k] \subseteq 1..typed
  <2>. TAKE k \in Places
  <2>1. app.shown \in Sessions
    BY DEF Places, ScreenInv, AppTyped
  <2>2. LineFacts /\ CoreTyped
    BY <2>1, LineIs DEF ScreenInv
  <2>3. CASE k \in DOMAIN mail
    BY <2>2, <2>3 DEF LineFacts, TextInv, AllTyped
  <2>4. ASSUME NEW i \in 1..Len(pending[app.shown]), k = Len(mail) + i PROVE Line[k] \subseteq 1..typed
    <3>1. pending[app.shown] \in Seq(Texts)
      BY <2>1, <2>2 DEF CoreTyped
    <3>2. i \in DOMAIN pending[app.shown]
      BY <3>1, LenProperties
    <3>. QED  BY <2>1, <2>2, <2>4, <3>2 DEF LineFacts, TextInv, AllTyped
  <2>. QED  BY <2>2, <2>3, <2>4 DEF LineFacts
<1>7. OwnPrompt \subseteq 1..typed /\ Foreign \subseteq 1..typed
  <2>1. \A i \in DOMAIN mail : mail[i].why = "blocked" => mail[i].kind = "done"
    BY OutsideIs DEF ScreenInv
  <2>2. \A s \in Turns : s \in Sessions
    BY DEF Turns
  <2>. QED  BY <2>1, <2>2 DEF OwnPrompt, Foreign, TextInv, AllTyped
<1>8. \A i \in 1..Len(app.queued) : app.queued[i] \subseteq 1..typed
  <2>1. app.queued \in Seq(Texts)
    BY DEF ScreenInv, AppTyped, App
  <2>. QED  BY <1>5, <2>1, JoinedIs DEF Held
<1>. DEFINE z == typed + 1
<1>9. z \notin Held /\ z \notin said /\ z \notin OwnPrompt /\ z \notin Foreign
  BY <1>4, <1>5, <1>7
<1>10. (\A k \in Places : z \notin Line[k]) /\ (\A i \in 1..Len(app.queued) : z \notin app.queued[i])
  BY <1>4, <1>6, <1>8
<1>11. app'.draft = app.draft \cup {z} /\ Held' = Held \cup {z}
  BY <1>1, <1>4
<1>. HIDE DEF z
<1>12. LineApart' /\ LineQueue' /\ LineDraft' /\ QueueApart'
  BY <1>1, <1>3, <1>10, <1>11 DEF OnceInv, LineApart, LineQueue, LineDraft, QueueApart
<1>13. PromptApart' /\ SaidOnce' /\ ForeignApart'
  BY <1>1, <1>3, <1>9, <1>11 DEF OnceInv, PromptApart, SaidOnce, ForeignApart
<1>. QED  BY <1>12, <1>13 DEF OnceInv

LEMMA UpOnce == ASSUME ScreenInv, OnceInv, Up PROVE OnceInv'
<1>1. /\ app.draft = {} /\ app.queued \in Seq(Texts) /\ app.steered \in Nat /\ app.steered < Len(app.queued)
      /\ app'.draft = app.queued[Len(app.queued)] /\ app'.queued \in Seq(Texts)
      /\ Joined(app.queued) = app'.draft \cup Joined(app'.queued)
      /\ Len(app'.queued) = Len(app.queued) - 1 /\ \A i \in 1..Len(app'.queued) : app'.queued[i] = app.queued[i]
  BY UpIs
<1>2. /\ app'.shown = app.shown /\ app'.steered = app.steered
      /\ working' = working /\ pending' = pending /\ mail' = mail /\ insync' = insync
      /\ said' = said /\ brought' = brought
  BY UpIs
<1>. SUFFICES ASSUME insync PROVE OnceInv'
  BY <1>2 DEF OnceInv
<1>3. WorkKept
  BY <1>2 DEF WorkKept
<1>4. Places' = Places /\ Line' = Line /\ Taken' = Taken /\ OwnPrompt' = OwnPrompt /\ Foreign' = Foreign
  BY <1>2, <1>3, OutKept
<1>5. Held' = Held
  BY <1>1 DEF Held
<1>. DEFINE n == Len(app.queued)
<1>6. /\ n \in 1..n /\ ~(n <= app.steered)
      /\ \A i \in 1..Len(app'.queued) : i \in 1..n /\ i # n /\ app'.queued[i] = app.queued[i]
  BY <1>1
<1>7. LineApart' /\ LineQueue'
  BY <1>2, <1>4, <1>6 DEF OnceInv, LineApart, LineQueue
<1>8. LineDraft'
  BY <1>1, <1>2, <1>4, <1>6 DEF OnceInv, LineQueue, LineDraft
<1>9. QueueApart'
  BY <1>1, <1>2, <1>6 DEF OnceInv, QueueApart
<1>10. PromptApart' /\ SaidOnce' /\ ForeignApart'
  BY <1>2, <1>4, <1>5 DEF OnceInv, PromptApart, SaidOnce, ForeignApart
<1>. QED  BY <1>7, <1>8, <1>9, <1>10 DEF OnceInv

\* An app in sync that shows no turn or compaction running has nothing on its way.
LEMMA CalmBefore ==
    ASSUME ScreenInv, OnceInv, insync, ~app.running
    PROVE  /\ Places = {} /\ OwnPrompt = {} /\ Held \cap said \subseteq brought
           /\ app.shown # None => app.shown \notin Busy
<1>1. CoreTyped /\ app.shown \in Sessions \cup {None} /\ (app.shown # None => app.shown \notin Busy)
  BY DEF ScreenInv, AppTyped, InSync
<1>2. app.shown \notin Turns /\ Calm(app.shown, mail)
  BY <1>1, CalmFree, FrontendAssumption DEF Turns, Calm
<1>3. Places = {} /\ OwnPrompt = {}
  BY <1>1, <1>2, CalmIs DEF CalmFacts
<1>. QED  BY <1>1, <1>3 DEF OnceInv, SaidOnce, Taken

LEMMA CompactOnce == ASSUME ScreenInv, ScreenInv', OnceInv, Compact PROVE OnceInv'
<1>1. /\ app.shown \in Sessions /\ pending[app.shown] = <<>> /\ pending' = pending
      /\ app.shown \notin Turns /\ Turns' = Turns /\ \A s \in Turns : working'[s] = working[s]
      /\ app'.shown = app.shown /\ app'.queued = app.queued
      /\ app'.steered = app.steered /\ app'.draft = app.draft
      /\ insync' = (insync /\ ~Unread(app.shown, mail))
      /\ mail' = mail /\ said' = said /\ brought' = brought
  BY CompactIs
<1>. SUFFICES ASSUME insync, ~Unread(app.shown, mail) PROVE OnceInv'
  BY <1>1 DEF OnceInv
<1>2. CoreTyped /\ CoreTyped' /\ app'.shown \in Sessions \cup {None} /\ app.shown \in Sessions \cup {None}
  BY <1>1 DEF ScreenInv
<1>3. Calm(app.shown, mail) /\ Calm(app.shown, mail)'
  BY <1>1 DEF Calm, Unread
<1>4. CalmFacts /\ CalmFacts'
  BY <1>2, <1>3, CalmIs, CalmAfter
<1>5. Held' = Held /\ Held \cap said \subseteq brought
  BY <1>1, <1>4 DEF Held, CalmFacts, OnceInv, SaidOnce, Taken
<1>6. Foreign' \subseteq Foreign
  <2>1. \A i \in DOMAIN mail' : \E j \in DOMAIN mail : mail'[i] = mail[j]
    BY <1>1
  <2>. QED  BY <1>1, <1>2, <2>1, ForeignAfter
<1>7. QueueApart' /\ Held \cap Foreign' \subseteq brought'
  BY <1>1, <1>6 DEF OnceInv, QueueApart, ForeignApart
<1>8. Held' \cup {} \subseteq Held /\ {} \cap Held' \subseteq brought' /\ Held \cap said' \subseteq brought'
  BY <1>1, <1>5
<1>. QED  BY <1>1, <1>4, <1>7, <1>8, CalmOnce

LEMMA DeleteOnce == ASSUME ScreenInv, ScreenInv', OnceInv, Delete, ~DeletesRunning PROVE OnceInv'
<1>1. /\ WorkKept /\ Turns' = Turns /\ pending' = pending /\ mail' = mail /\ app'.shown = None
      /\ app'.queued = app.queued /\ app'.steered = app.steered /\ app'.draft = app.draft
      /\ insync' = insync /\ said' = said /\ brought' = brought
  BY DeleteIs
<1>. SUFFICES ASSUME insync PROVE OnceInv'
  BY <1>1 DEF OnceInv
<1>2. ~app.running /\ app.shown \in Sessions \cup {None}
  BY DEF Delete, ScreenInv, AppTyped
<1>3. Places = {} /\ OwnPrompt = {} /\ Held \cap said \subseteq brought
  BY <1>2, CalmBefore
<1>4. CoreTyped /\ CoreTyped' /\ app'.shown \in Sessions \cup {None}
  BY <1>1 DEF ScreenInv
<1>5. Calm(app.shown, mail)'
  BY <1>1 DEF Calm
<1>6. CalmFacts'
  BY <1>4, <1>5, CalmAfter
<1>7. Foreign' \subseteq Foreign
  <2>1. /\ \A i \in DOMAIN mail' : \E j \in DOMAIN mail : mail'[i] = mail[j]
        /\ \A t \in Turns' : t # app'.shown => t \in Turns /\ working'[t].prompt = working[t].prompt
    BY <1>1 DEF WorkKept, Turns
  <2>2. \A y \in Foreign' : y \in Foreign \/ y \in OwnPrompt \/ \E k \in Places : y \in Line[k]
    BY <1>1, <1>2, <1>4, <2>1, ForeignAfter
  <2>. QED  BY <1>3, <2>2
<1>8. QueueApart' /\ Held \cap Foreign' \subseteq brought'
  BY <1>1, <1>7 DEF OnceInv, QueueApart, ForeignApart
<1>9. Held' \cup {} \subseteq Held /\ {} \cap Held' \subseteq brought' /\ Held \cap said' \subseteq brought'
  BY <1>1, <1>3 DEF Held
<1>10. app'.shown \notin Turns'
  BY <1>1, FrontendAssumption DEF Turns
<1>. QED  BY <1>6, <1>8, <1>9, <1>10, CalmOnce

\* A leave: what was sent and may be taken is in brought.
LEMMA LeaveOnce == ASSUME ScreenInv, ScreenInv', OnceInv, NEW s, New \/ Resume(s) PROVE OnceInv'
<1>1. /\ WorkKept /\ Turns' = Turns /\ pending' = pending /\ mail' = mail
      /\ app'.queued = <<>> /\ app'.draft = Held
      /\ app'.shown = None \/ (app'.shown = s /\ (insync' => s \notin Busy))
      /\ brought' = brought \cup (IF insync THEN Joined(SubSeq(app.queued, 1, app.steered)) ELSE Held)
      /\ said' = said
  BY LeaveIs
<1>. SUFFICES ASSUME insync' PROVE OnceInv'
  BY DEF OnceInv
<1>2. /\ CoreTyped /\ CoreTyped' /\ app.shown \in Sessions \cup {None} /\ app'.shown \in Sessions \cup {None}
  BY DEF ScreenInv, AppTyped
<1>3. Held' = Held
  <2>1. Joined(<<>>) = {}
    BY DEF Joined
  <2>. QED  BY <1>1, <2>1 DEF Held
<1>4. Calm(app.shown, mail)' /\ app'.shown \notin Turns'
  <2>1. CASE app'.shown = None
    BY <1>1, <2>1, FrontendAssumption DEF Calm, Turns
  <2>2. CASE app'.shown # None
    BY <1>1, <1>2, <2>2, CalmFree DEF Calm
  <2>. QED  BY <2>1, <2>2
<1>5. CalmFacts'
  BY <1>2, <1>4, CalmAfter
<1>6. ASSUME NEW y \in Held, y \in said \/ y \in Foreign', insync, y \notin brought
      PROVE  y \in Joined(SubSeq(app.queued, 1, app.steered))
  <2>1. /\ \A i \in DOMAIN mail' : \E j \in DOMAIN mail : mail'[i] = mail[j]
        /\ \A t \in Turns' : t # app'.shown => t \in Turns /\ working'[t].prompt = working[t].prompt
    BY <1>1 DEF WorkKept, Turns
  <2>2. \A z \in Foreign' : z \in Foreign \/ z \in OwnPrompt \/ \E k \in Places : z \in Line[k]
    BY <1>1, <1>2, <2>1, ForeignAfter
  <2>3. \E k \in Places : y \in Line[k]
    <3>1. CASE y \in said
      BY <1>6, <3>1 DEF OnceInv, SaidOnce, Taken
    <3>2. CASE y \in Foreign'
      BY <1>6, <2>2, <3>2 DEF OnceInv, PromptApart, ForeignApart
    <3>. QED  BY <1>6, <3>1, <3>2
  <2>. QED  BY <1>6, <2>3, SentIsSteered
<1>7. \A y \in Held : y \in said \/ y \in Foreign' => y \in brought'
  BY <1>1, <1>6
<1>8. QueueApart'
  BY <1>1 DEF QueueApart
<1>9. /\ Held' \cup {} \subseteq Held /\ {} \cap Held' \subseteq brought'
      /\ Held \cap said' \subseteq brought' /\ Held \cap Foreign' \subseteq brought'
  BY <1>1, <1>3, <1>7
<1>. QED  BY <1>4, <1>5, <1>8, <1>9, CalmOnce

\* What is queued without being steered, or steered, leaves the composer.
LEMMA QueuedOnce ==
    ASSUME ScreenInv, OnceInv, insync, working' = working, pending' = pending, mail' = mail,
           app'.shown = app.shown, app'.queued = Append(app.queued, app.draft), app'.draft = {},
           app'.steered = app.steered, said' = said, brought' = brought
    PROVE  OnceInv'
<1>1. app.queued \in Seq(Texts) /\ app.draft \in Texts /\ app.steered \in Nat
  BY DEF ScreenInv, AppTyped, App
<1>. DEFINE n == Len(app.queued)
<1>2. /\ n \in Nat /\ Len(app'.queued) = n + 1 /\ app'.queued[n + 1] = app.draft
      /\ \A j \in 1..n : app'.queued[j] = app.queued[j]
  BY <1>1, AppendProperties
<1>3. \A j \in 1..Len(app'.queued) : (j \in 1..n /\ app'.queued[j] = app.queued[j]) \/ (j = n + 1 /\ app'.queued[j] = app.draft)
  BY <1>2
<1>4. Held' = Held /\ app.draft \subseteq Held
  BY <1>1, JoinedAppend DEF Held
<1>. HIDE DEF n
<1>5. WorkKept
  BY DEF WorkKept
<1>6. Places' = Places /\ Line' = Line /\ Taken' = Taken /\ OwnPrompt' = OwnPrompt /\ Foreign' = Foreign
  BY <1>5, OutKept
<1>7. \A i \in 1..n : app.queued[i] \cap app.draft \subseteq brought
  BY DEF OnceInv, QueueApart, n
<1>8. \A i, j \in 1..n : i # j => app.queued[i] \cap app.queued[j] \subseteq brought
  BY DEF OnceInv, QueueApart, n
<1>9. QueueApart'
  BY <1>3, <1>7, <1>8 DEF QueueApart
<1>10. LineQueue'
  <2>1. \A k \in Places : \A j \in 1..n :
            Line[k] \cap app.queued[j] \subseteq brought \/ (j <= app.steered /\ app.queued[j] = Line[k])
    BY DEF OnceInv, LineQueue, n
  <2>2. \A k \in Places : Line[k] \cap app.draft \subseteq brought
    BY DEF OnceInv, LineDraft
  <2>. QED  BY <1>3, <1>6, <2>1, <2>2 DEF LineQueue
<1>11. LineApart' /\ LineDraft'
  BY <1>6 DEF OnceInv, LineApart, LineDraft
<1>12. PromptApart' /\ SaidOnce' /\ ForeignApart'
  BY <1>4, <1>6 DEF OnceInv, PromptApart, SaidOnce, ForeignApart
<1>. QED  BY <1>9, <1>10, <1>11, <1>12 DEF OnceInv

LEMMA SteeredOnce ==
    ASSUME ScreenInv, ScreenInv', OnceInv, insync, app.shown \in Sessions,
           app.steered = Len(app.queued), Steer(app.shown, app.draft), mail' = mail,
           app'.shown = app.shown, app'.queued = Append(app.queued, app.draft), app'.draft = {},
           app'.steered = app.steered + 1, said' = said, brought' = brought
    PROVE  OnceInv'
<1>1. app.queued \in Seq(Texts) /\ app.draft \in Texts /\ CoreTyped /\ CoreTyped'
  BY DEF ScreenInv, AppTyped, App
<1>. DEFINE n == Len(app.queued)
            m == Len(pending[app.shown])
            p == Len(mail) + (m + 1)
<1>2. /\ n \in Nat /\ Len(app'.queued) = n + 1 /\ app'.queued[n + 1] = app.draft
      /\ \A j \in 1..n : app'.queued[j] = app.queued[j]
  BY <1>1, AppendProperties
<1>3. \A j \in 1..Len(app'.queued) :
          \/ j \in 1..n /\ j <= app'.steered /\ app'.queued[j] = app.queued[j]
          \/ j = n + 1 /\ j <= app'.steered /\ app'.queued[j] = app.draft
  BY <1>2
<1>4. Held' = Held /\ app.draft \subseteq Held
  BY <1>1, JoinedAppend DEF Held
<1>5. /\ app.shown \in Turns /\ working' = working /\ \A t \in Sessions \ {app.shown} : pending'[t] = pending[t]
      /\ Len(pending'[app.shown]) = m + 1 /\ pending'[app.shown][m + 1] = app.draft
      /\ \A k \in 1..m : pending'[app.shown][k] = pending[app.shown][k]
  BY <1>1, SteerIs
<1>6. m \in Nat /\ Len(mail) \in Nat /\ DOMAIN mail = 1..Len(mail)
  <2>1. pending[app.shown] \in Seq(Texts)
    BY <1>1 DEF CoreTyped
  <2>. QED  BY <1>1, <2>1, LettersAre, LenProperties
<1>7. /\ \A k \in Places' : k = p \/ (k \in Places /\ Line'[k] = Line[k])
      /\ p \in Places' /\ Line'[p] = app.draft /\ p \notin Taken' /\ Taken' = Taken
  <2>1. LineFacts /\ app'.shown = app.shown
    BY <1>1, LineIs
  <2>2. (app.shown \in Sessions)'
    OBVIOUS
  <2>3. LineFacts'
    BY <1>1, <2>2, LineIs, PTL
  <2>4. m + 1 \in 1..Len(pending'[app.shown])
    BY <1>5, <1>6
  <2>5. p \in Places' /\ Line'[p] = app.draft /\ p \notin Taken'
    <3>1. \A k \in 1..Len(pending'[app.shown]) :
              Len(mail) + k \in Places' /\ Line'[Len(mail) + k] = pending'[app.shown][k] /\ Len(mail) + k \notin Taken'
      BY <2>1, <2>3 DEF LineFacts
    <3>. QED  BY <1>5, <2>4, <3>1
  <2>6. Taken' = Taken
    <3>1. \A k : k \in Taken <=> k \in DOMAIN mail /\ mail[k].s = app.shown /\ mail[k].kind = "accepted"
      BY <2>1 DEF LineFacts
    <3>2. \A k : k \in Taken' <=> k \in DOMAIN mail /\ mail[k].s = app.shown /\ mail[k].kind = "accepted"
      BY <2>1, <2>3 DEF LineFacts
    <3>. QED  BY <3>1, <3>2
  <2>7. ASSUME NEW k \in Places', k # p PROVE k \in Places /\ Line'[k] = Line[k]
    <3>1. CASE k \in DOMAIN mail
      BY <2>1, <2>3, <2>7, <3>1 DEF LineFacts
    <3>2. ASSUME NEW i \in 1..Len(pending'[app.shown]), k = Len(mail) + i PROVE k \in Places /\ Line'[k] = Line[k]
      <4>1. i \in 1..m
        <5>1. i \in 1..(m + 1) /\ i # m + 1
          BY <1>5, <2>7, <3>2
        <5>. QED  BY <1>6, <5>1
      <4>. QED  BY <1>5, <2>1, <2>3, <3>2, <4>1 DEF LineFacts
    <3>. QED  BY <2>1, <2>3, <2>7, <3>1, <3>2 DEF LineFacts
  <2>. QED  BY <2>5, <2>6, <2>7
<1>8. OwnPrompt' = OwnPrompt /\ Foreign' = Foreign
  <2>1. Turns' = Turns
    BY <1>5 DEF Turns
  <2>2. OwnPrompt' = OwnPrompt
    BY <1>5, <2>1 DEF OwnPrompt
  <2>3. \A t \in Turns \ {app.shown} : pending'[t] = pending[t]
    BY <1>5 DEF Turns
  <2>4. \A y : y \in Foreign' <=> y \in Foreign
    BY <1>5, <2>1, <2>3 DEF Foreign
  <2>. QED  BY <2>2, <2>4
<1>. HIDE DEF n, m, p
<1>9. /\ \A i \in 1..n : app.queued[i] \cap app.draft \subseteq brought
      /\ \A i, j \in 1..n : i # j => app.queued[i] \cap app.queued[j] \subseteq brought
  BY DEF OnceInv, QueueApart, n
<1>10. QueueApart'
  BY <1>3, <1>9 DEF QueueApart
<1>11. \A k \in Places : Line[k] \cap app.draft \subseteq brought
  BY DEF OnceInv, LineDraft
<1>12. LineQueue'
  <2>1. \A k \in Places : \A j \in 1..n :
            Line[k] \cap app.queued[j] \subseteq brought \/ app.queued[j] = Line[k]
    BY DEF OnceInv, LineQueue, n
  <2>2. ASSUME NEW k \in Places', NEW j \in 1..Len(app'.queued)
        PROVE  Line'[k] \cap app'.queued[j] \subseteq brought \/ (j <= app'.steered /\ app'.queued[j] = Line'[k])
    <3>1. CASE k = p
      BY <1>3, <1>7, <1>9, <3>1
    <3>2. CASE k \in Places /\ Line'[k] = Line[k]
      BY <1>3, <1>11, <2>1, <3>2
    <3>. QED  BY <1>7, <3>1, <3>2
  <2>. QED  BY <2>2 DEF LineQueue
<1>13. LineApart'
  <2>1. \A k, l \in Places : k # l => Line[k] \cap Line[l] \subseteq brought
    BY DEF OnceInv, LineApart
  <2>2. \A k, l \in Places' : k # l => Line'[k] \cap Line'[l] \subseteq brought
    BY <1>7, <1>11, <2>1
  <2>. QED  BY <2>2 DEF LineApart
<1>14. LineDraft'
  BY DEF LineDraft
<1>15. PromptApart' /\ ForeignApart'
  BY <1>4, <1>7, <1>8 DEF OnceInv, PromptApart, ForeignApart
<1>16. SaidOnce'
  <2>1. app.draft \cap said \subseteq brought
    BY <1>4, <1>11 DEF OnceInv, SaidOnce, Taken
  <2>2. \A y \in (Held \cap said) \ brought : \E k \in Taken : y \in Line[k]
    BY DEF OnceInv, SaidOnce
  <2>3. \A k \in Taken' : Line'[k] = Line[k]
    BY <1>7 DEF Taken
  <2>4. \A k \in Places' \ Taken' : Line'[k] \cap said \subseteq brought
    BY <1>7, <2>1 DEF OnceInv, SaidOnce
  <2>. QED  BY <1>4, <1>7, <2>2, <2>3, <2>4 DEF SaidOnce
<1>. QED  BY <1>10, <1>12, <1>13, <1>14, <1>15, <1>16 DEF OnceInv

LEMMA SubmitOnce == ASSUME ScreenInv, ScreenInv', OnceInv, Submit PROVE OnceInv'
<1>1. /\ app.draft \in Texts /\ app.queued \in Seq(Texts) /\ app'.draft = {}
      /\ mail' = mail /\ said' = said /\ insync' = insync /\ brought' = brought
  BY SubmitIs
<1>. SUFFICES ASSUME insync PROVE OnceInv'
  BY <1>1 DEF OnceInv
<1>2. CASE app.running
  <2>1. /\ app.shown \in Sessions /\ app'.shown = app.shown /\ app'.queued = Append(app.queued, app.draft)
        /\ \/ /\ app.steered = Len(app.queued) /\ Steer(app.shown, app.draft) /\ app'.steered = app.steered + 1
           \/ working' = working /\ pending' = pending /\ app'.steered = app.steered
    BY <1>2, SubmitIs
  <2>. QED  BY <1>1, <2>1, SteeredOnce, QueuedOnce
<1>3. CASE ~app.running
  <2>1. /\ app'.queued = app.queued /\ Goes(app'.shown)
        /\ \/ Begin(app'.shown, "turn", app.draft)
           \/ working' = working /\ pending' = pending
    BY <1>3, SubmitIs
  <2>2. /\ Places = {} /\ OwnPrompt = {} /\ Held \cap said \subseteq brought
        /\ app.shown # None => app.shown \notin Busy
    BY <1>3, CalmBefore
  <2>3. /\ CoreTyped /\ CoreTyped' /\ app.shown \in Sessions \cup {None} /\ app'.shown \in Sessions
        /\ app'.shown \notin Busy
    BY <2>1, <2>2 DEF ScreenInv, AppTyped, Goes
  <2>4. Calm(app'.shown, mail) /\ app'.shown \notin Turns
    BY <2>3, CalmFree
  <2>5. /\ pending' = pending /\ \A t \in Turns' : t # app'.shown => t \in Turns /\ working'[t].prompt = working[t].prompt
        /\ app'.shown \in Turns' => working'[app'.shown].prompt = app.draft
    <3>1. CASE Begin(app'.shown, "turn", app.draft)
      <4>1. /\ pending' = pending /\ working'[app'.shown].prompt = app.draft /\ Turns' = Turns \cup {app'.shown}
            /\ \A t \in Sessions \ {app'.shown} : working'[t] = working[t]
        BY <1>1, <2>3, <3>1, BeginIs
      <4>. QED  BY <4>1 DEF Turns
    <3>2. CASE working' = working /\ pending' = pending
      BY <2>4, <3>2 DEF Turns
    <3>. QED  BY <2>1, <3>1, <3>2
  <2>6. Calm(app.shown, mail)'
    BY <1>1, <2>4, <2>5 DEF Calm
  <2>7. CalmFacts'
    BY <2>3, <2>6, CalmAfter
  <2>8. Foreign' \subseteq Foreign
    <3>1. \A i \in DOMAIN mail' : \E j \in DOMAIN mail : mail'[i] = mail[j]
      BY <1>1
    <3>2. \A y \in Foreign' : y \in Foreign \/ y \in OwnPrompt \/ \E k \in Places : y \in Line[k]
      BY <2>3, <2>5, <3>1, ForeignAfter
    <3>. QED  BY <2>2, <3>2
  <2>9. Held' \cup app.draft \subseteq Held /\ app.draft \cap Held' \subseteq brought'
    <3>1. Held' = Joined(app.queued)
      BY <1>1, <2>1 DEF Held
    <3>2. ASSUME NEW y \in app.draft, y \in Joined(app.queued) PROVE y \in brought
      <4>1. PICK i \in 1..Len(app.queued) : y \in app.queued[i]
        BY <1>1, <3>2, JoinedIs
      <4>. QED  BY <3>2, <4>1 DEF OnceInv, QueueApart
    <3>. QED  BY <1>1, <3>1, <3>2 DEF Held
  <2>10. Held \cap said' \subseteq brought' /\ Held \cap Foreign' \subseteq brought'
    BY <1>1, <2>2, <2>8 DEF OnceInv, ForeignApart
  <2>11. QueueApart'
    BY <1>1, <2>1 DEF OnceInv, QueueApart
  <2>. QED  BY <2>5, <2>7, <2>9, <2>10, <2>11, CalmOnce
<1>. QED  BY <1>2, <1>3

\* The places once the first letter was read.
Shifted ==
    /\ \A k \in Places' : k + 1 \in Places /\ Line'[k] = Line[k + 1] /\ (k + 1 \in Taken <=> k \in Taken')
    /\ \A k \in Places : k = 1 \/ \E l \in Places' : k = l + 1
    /\ Places' \subseteq Nat \ {0} /\ Taken' \subseteq Places'

LEMMA ShiftIs ==
    ASSUME CoreTyped, CoreTyped', mail # <<>>, mail' = Tail(mail), app.shown \in Sessions,
           app'.shown = app.shown, pending' = pending
    PROVE  Shifted
<1>. DEFINE m == Len(pending[app.shown])
<1>1. /\ DOMAIN mail = 1..Len(mail) /\ DOMAIN mail' = 1..Len(mail') /\ Len(mail) \in Nat /\ Len(mail') = Len(mail) - 1
      /\ \A i \in DOMAIN mail' : i + 1 \in DOMAIN mail /\ mail'[i] = mail[i + 1]
      /\ \A i \in DOMAIN mail : i # 1 => i - 1 \in DOMAIN mail' /\ mail'[i - 1] = mail[i]
  BY TailIs
<1>2. LineFacts
  BY LineIs
<1>3. LineFacts'
  <2>1. (app.shown \in Sessions)'
    OBVIOUS
  <2>. QED  BY <2>1, LineIs, PTL
<1>4. m \in Nat /\ Len(pending'[app.shown]) = m
  <2>1. pending[app.shown] \in Seq(Texts)
    BY DEF CoreTyped
  <2>. QED  BY <2>1, LenProperties
<1>5. ASSUME NEW k \in Places' PROVE k + 1 \in Places /\ Line'[k] = Line[k + 1] /\ (k + 1 \in Taken <=> k \in Taken')
  <2>1. CASE k \in DOMAIN mail'
    <3>1. k + 1 \in DOMAIN mail /\ mail'[k] = mail[k + 1]
      BY <1>1, <2>1
    <3>2. k + 1 \in Places /\ Line[k + 1] = mail[k + 1].x
      BY <1>2, <1>3, <1>5, <2>1, <3>1 DEF LineFacts
    <3>3. Line'[k] = mail'[k].x
      BY <1>3, <1>5, <2>1 DEF LineFacts
    <3>4. k + 1 \in Taken <=> k \in Taken'
      BY <1>2, <1>3, <2>1, <3>1 DEF LineFacts
    <3>. QED  BY <3>1, <3>2, <3>3, <3>4
  <2>2. ASSUME NEW i \in 1..m, k = Len(mail') + i
        PROVE  k + 1 \in Places /\ Line'[k] = Line[k + 1] /\ (k + 1 \in Taken <=> k \in Taken')
    <3>1. k + 1 = Len(mail) + i
      BY <1>1, <1>4, <2>2
    <3>2. Line'[k] = pending'[app'.shown][i] /\ k \notin Taken'
      BY <1>3, <1>4, <2>2 DEF LineFacts
    <3>3. k + 1 \in Places /\ Line[k + 1] = pending[app.shown][i] /\ k + 1 \notin Taken
      BY <1>2, <3>1 DEF LineFacts
    <3>. QED  BY <3>2, <3>3
  <2>. QED  BY <1>3, <1>4, <1>5, <2>1, <2>2 DEF LineFacts
<1>6. ASSUME NEW k \in Places, k # 1 PROVE \E l \in Places' : k = l + 1
  <2>1. CASE k \in DOMAIN mail
    <3>1. k - 1 \in DOMAIN mail' /\ mail'[k - 1] = mail[k] /\ k = (k - 1) + 1
      BY <1>1, <1>6, <2>1
    <3>2. k - 1 \in Places'
      BY <1>2, <1>3, <1>6, <2>1, <3>1 DEF LineFacts
    <3>. QED  BY <3>1, <3>2
  <2>2. ASSUME NEW i \in 1..m, k = Len(mail) + i PROVE \E l \in Places' : k = l + 1
    <3>1. k = (Len(mail') + i) + 1
      BY <1>1, <1>4, <2>2
    <3>2. Len(mail') + i \in Places'
      BY <1>3, <1>4 DEF LineFacts
    <3>. QED  BY <3>1, <3>2
  <2>. QED  BY <1>2, <1>6, <2>1, <2>2 DEF LineFacts
<1>7. ASSUME NEW k \in Places' PROVE k \in Nat \ {0}
  <2>1. ASSUME NEW i \in 1..m, k = Len(mail') + i PROVE k \in Nat \ {0}
    BY <1>1, <1>4, <2>1
  <2>2. CASE k \in DOMAIN mail'
    BY <1>1, <2>2
  <2>. QED  BY <1>3, <1>4, <1>7, <2>1, <2>2 DEF LineFacts
<1>. QED  BY <1>3, <1>5, <1>6, <1>7 DEF Shifted, LineFacts

\* What is out of other turns, while only letters leave.
LEMMA OutsideRead ==
    ASSUME working' = working, pending' = pending, app'.shown = app.shown,
           \A i \in DOMAIN mail' : \E j \in DOMAIN mail : mail'[i] = mail[j]
    PROVE  OwnPrompt' \subseteq OwnPrompt /\ Foreign' \subseteq Foreign
<1>1. Turns' = Turns
  BY DEF Turns
<1>2. \A y \in OwnPrompt' : y \in OwnPrompt
  BY <1>1 DEF OwnPrompt
<1>3. \A y \in Foreign' : y \in Foreign
  BY <1>1 DEF Foreign
<1>. QED  BY <1>2, <1>3

\* A letter of another session is read: nothing the app holds moves.
LEMMA ElsewhereOnce ==
    ASSUME ScreenInv, ScreenInv', OnceInv, insync, mail # <<>>, mail' = Tail(mail), mail[1].s # app.shown,
           working' = working, pending' = pending, app'.shown = app.shown, app'.queued = app.queued,
           app'.draft = app.draft, app'.steered = app.steered, said' = said, brought' = brought
    PROVE  OnceInv'
<1>1. CoreTyped /\ CoreTyped' /\ app.shown \in Sessions \cup {None} /\ Held' = Held
  BY DEF ScreenInv, AppTyped, Held
<1>2. 1 \in DOMAIN mail /\ \A i \in DOMAIN mail' : \E j \in DOMAIN mail : mail'[i] = mail[j]
  BY <1>1, TailIs
<1>3. OwnPrompt' \subseteq OwnPrompt /\ Foreign' \subseteq Foreign
  BY <1>2, OutsideRead
<1>4. Taken' \subseteq Places'
  BY DEF Taken
<1>5. PICK f : Carries(f)
  <2>1. CASE app.shown = None
    <3>1. Places' = {} /\ Taken = {}
      BY <2>1 DEF Places, Taken
    <3>. QED  BY <3>1 DEF Carries
  <2>2. CASE app.shown \in Sessions
    <3>1. Shifted /\ LineFacts
      BY <1>1, <2>2, ShiftIs, LineIs
    <3>2. 1 \notin Places
      BY <1>2, <3>1 DEF LineFacts
    <3>. DEFINE f == [k \in Places' |-> k + 1]
    <3>3. \A k \in Places' : f[k] \in Places /\ Line'[k] = Line[f[k]] /\ (f[k] \in Taken => k \in Taken')
      BY <3>1 DEF Shifted
    <3>4. \A k, l \in Places' : k # l => f[k] # f[l]
      BY <3>1 DEF Shifted
    <3>5. \A k \in Taken : \E l \in Taken' : Line'[l] = Line[k]
      <4>. TAKE k \in Taken
      <4>1. k \in Places /\ k # 1
        BY <3>2 DEF Taken
      <4>2. PICK l \in Places' : k = l + 1
        BY <3>1, <4>1 DEF Shifted
      <4>. QED  BY <3>1, <4>2 DEF Shifted
    <3>. QED  BY <3>3, <3>4, <3>5 DEF Carries
  <2>. QED  BY <1>1, <2>1, <2>2
<1>. QED  BY <1>1, <1>3, <1>4, <1>5, OnceMoves

\* What stays in the queue keeps its order, and is not the steer that left.
Keeps(a, x, g) ==
    \A j \in 1..Len(a.queued) :
        /\ g[j] \in 1..Len(app.queued) /\ a.queued[j] = app.queued[g[j]] /\ (g[j] <= app.steered => j <= a.steered)
        /\ \A i \in 1..Len(a.queued) : i # j => g[i] # g[j]
        /\ g[j] <= app.steered /\ app.queued[g[j]] = x =>
              \E k \in 1..Len(app.queued) : k # g[j] /\ app.queued[k] = x

LEMMA RemovedKeeps ==
    ASSUME ScreenInv, NEW a \in App, NEW x, Removed(a, x)
    PROVE  \E g : Keeps(a, x, g)
<1>1. app.queued \in Seq(Texts) /\ app.steered \in Nat /\ app.steered <= Len(app.queued) /\ Len(app.queued) \in Nat
  BY DEF ScreenInv, AppTyped, QueueInv, App
<1>2. CASE a.queued = app.queued /\ a.steered = app.steered /\ \A i \in 1..app.steered : app.queued[i] # x
  <2>. DEFINE g == [j \in 1..Len(a.queued) |-> j]
  <2>1. \A j \in 1..Len(a.queued) : g[j] = j
    OBVIOUS
  <2>. HIDE DEF g
  <2>2. Keeps(a, x, g)
    BY <1>1, <1>2, <2>1 DEF Keeps
  <2>. QED  BY <2>2
<1>3. ASSUME NEW k \in 1..app.steered, app.queued[k] = x, a.steered = app.steered - 1, Len(a.queued) = Len(app.queued) - 1,
             \A i \in 1..(Len(app.queued) - 1) : a.queued[i] = app.queued[IF i < k THEN i ELSE i + 1]
      PROVE  \E g : Keeps(a, x, g)
  <2>. DEFINE n == Len(app.queued)
              g == [j \in 1..(n - 1) |-> IF j < k THEN j ELSE j + 1]
  <2>1. k \in 1..n /\ Len(a.queued) = n - 1 /\ n \in Nat
    BY <1>1, <1>3
  <2>2. \A j \in 1..(n - 1) : /\ g[j] \in 1..n /\ g[j] # k /\ (g[j] <= app.steered => j <= app.steered - 1)
                              /\ \A i \in 1..(n - 1) : i # j => g[i] # g[j]
    BY <1>1, <2>1
  <2>3. \A j \in 1..(n - 1) : a.queued[j] = app.queued[g[j]]
    BY <1>3
  <2>. HIDE DEF g
  <2>4. Keeps(a, x, g)
    BY <1>3, <2>1, <2>2, <2>3 DEF Keeps
  <2>. QED  BY <2>4
<1>. QED  BY <1>2, <1>3 DEF Removed

\* The app is told that the turn took a steer, or that a hook refused it.
LEMMA SteerToldOnce ==
    ASSUME ScreenInv, ScreenInv', OnceInv, insync, mail # <<>>, mail' = Tail(mail),
           mail[1].s = app.shown, mail[1].kind \in OfSteer, app.shown \in Sessions,
           NEW a \in App, Removed(a, mail[1].x),
           a.draft = IF mail[1].kind = "blocked" THEN app.draft \cup mail[1].x ELSE app.draft,
           working' = working, pending' = pending, app'.shown = app.shown, app'.queued = a.queued,
           app'.draft = a.draft, app'.steered = a.steered, said' = said, brought' = brought
    PROVE  OnceInv'
<1>. DEFINE x == mail[1].x
            n == Len(app'.queued)
<1>1. CoreTyped /\ CoreTyped' /\ Shifted /\ LineFacts
  BY ShiftIs, LineIs DEF ScreenInv
<1>2. 1 \in DOMAIN mail /\ \A i \in DOMAIN mail' : \E j \in DOMAIN mail : mail'[i] = mail[j]
  BY <1>1, TailIs
<1>3. OwnPrompt' \subseteq OwnPrompt /\ Foreign' \subseteq Foreign
  BY <1>2, OutsideRead
<1>4. 1 \in Places /\ Line[1] = x /\ (1 \in Taken <=> mail[1].kind = "accepted")
  BY <1>1, <1>2 DEF LineFacts
<1>5. PICK g : Keeps(a, x, g)
  BY RemovedKeeps
<1>6. \A j \in 1..n :
          /\ g[j] \in 1..Len(app.queued) /\ app'.queued[j] = app.queued[g[j]] /\ (g[j] <= app.steered => j <= app'.steered)
          /\ \A i \in 1..n : i # j => g[i] # g[j]
          /\ g[j] <= app.steered /\ app.queued[g[j]] = x =>
                \E k \in 1..Len(app.queued) : k # g[j] /\ app.queued[k] = x
  BY <1>5 DEF Keeps
<1>7. /\ Held' \subseteq Held \cup x
      /\ app'.draft = app.draft \/ (mail[1].kind = "blocked" /\ app'.draft = app.draft \cup x)
      /\ \A y \in Held' : y \in app'.draft \/ \E j \in 1..n : y \in app'.queued[j]
  <2>1. Joined(app'.queued) \subseteq Joined(app.queued)
    BY RemovedIs
  <2>2. \A y : y \in Joined(app'.queued) <=> \E j \in 1..n : y \in app'.queued[j]
    <3>1. app'.queued \in Seq(Texts)
      BY DEF App
    <3>. QED  BY <3>1, JoinedIs
  <2>. QED  BY <2>1, <2>2 DEF Held
<1>8. \A k \in Places' : k + 1 \in Places /\ Line'[k] = Line[k + 1] /\ (k + 1 \in Taken <=> k \in Taken')
  BY <1>1 DEF Shifted
<1>9. \A k \in Places' : k \in Nat /\ k + 1 # 1
  BY <1>1 DEF Shifted
<1>. HIDE DEF x, n
\* What stays in the queue has nothing of the steer told of.
<1>10. \A j \in 1..n : x \cap app'.queued[j] \subseteq brought
  <2>. TAKE j \in 1..n
  <2>1. CASE x \cap app.queued[g[j]] \subseteq brought
    BY <1>6, <2>1
  <2>2. CASE g[j] <= app.steered /\ app.queued[g[j]] = x
    <3>1. PICK k \in 1..Len(app.queued) : k # g[j] /\ app.queued[k] = x
      BY <1>6, <2>2
    <3>. QED  BY <1>6, <3>1 DEF OnceInv, QueueApart
  <2>. QED  BY <1>4, <1>6, <2>1, <2>2 DEF OnceInv, LineQueue
<1>11. LineApart'
  <2>1. \A k, l \in Places : k # l => Line[k] \cap Line[l] \subseteq brought
    BY DEF OnceInv, LineApart
  <2>2. \A k, l \in Places' : k # l => k + 1 # l + 1
    BY <1>9
  <2>3. \A k, l \in Places' : k # l => Line'[k] \cap Line'[l] \subseteq brought
    BY <1>8, <2>1, <2>2
  <2>. QED  BY <2>3 DEF LineApart
<1>12. LineQueue'
  <2>1. \A k \in Places' : \A j \in 1..n :
            Line'[k] \cap app'.queued[j] \subseteq brought \/ (j <= app'.steered /\ app'.queued[j] = Line'[k])
    BY <1>6, <1>8 DEF OnceInv, LineQueue
  <2>. QED  BY <2>1 DEF LineQueue, n
<1>13. LineDraft'
  <2>1. \A k \in Places' : Line'[k] \cap x \subseteq brought
    BY <1>4, <1>8, <1>9 DEF OnceInv, LineApart
  <2>2. \A k \in Places' : Line'[k] \cap app.draft \subseteq brought
    BY <1>8 DEF OnceInv, LineDraft
  <2>. QED  BY <1>7, <2>1, <2>2 DEF LineDraft
<1>14. QueueApart'
  <2>1. \A i \in 1..n : app'.queued[i] \cap app.draft \subseteq brought
    BY <1>6 DEF OnceInv, QueueApart
  <2>2. \A i, j \in 1..n : i # j => app'.queued[i] \cap app'.queued[j] \subseteq brought
    BY <1>6 DEF OnceInv, QueueApart
  <2>. QED  BY <1>7, <1>10, <2>1, <2>2 DEF QueueApart, n
<1>15. PromptApart'
  <2>1. \A k \in Places : OwnPrompt \cap Line[k] \subseteq brought
    BY DEF OnceInv, PromptApart
  <2>2. \A k \in Places' : OwnPrompt' \cap Line'[k] \subseteq brought
    BY <1>3, <1>8, <2>1
  <2>3. OwnPrompt' \cap (Held' \cup said) \subseteq brought
    BY <1>3, <1>4, <1>7, <2>1 DEF OnceInv, PromptApart
  <2>. QED  BY <2>2, <2>3 DEF PromptApart
<1>16. ForeignApart'
  <2>1. \A k \in Places : Foreign \cap Line[k] \subseteq brought
    BY DEF OnceInv, ForeignApart
  <2>2. \A k \in Places' : Foreign' \cap Line'[k] \subseteq brought
    BY <1>3, <1>8, <2>1
  <2>3. Foreign' \cap (Held' \cup OwnPrompt') \subseteq brought
    BY <1>3, <1>4, <1>7, <2>1 DEF OnceInv, ForeignApart
  <2>. QED  BY <2>2, <2>3 DEF ForeignApart
<1>17. SaidOnce'
  <2>1. /\ \A k \in Places \ Taken : Line[k] \cap said \subseteq brought
        /\ \A y \in (Held \cap said) \ brought : \E k \in Taken : y \in Line[k]
    BY DEF OnceInv, SaidOnce
  <2>2. \A k \in Places' \ Taken' : Line'[k] \cap said \subseteq brought
    BY <1>8, <2>1
  <2>3. ASSUME NEW y \in Held', y \in said, y \notin brought PROVE \E k \in Taken' : y \in Line'[k]
    <3>1. y \in Held
      <4>1. CASE mail[1].kind = "blocked"
        <5>1. 1 \notin Taken
          BY <1>4, <4>1
        <5>. QED  BY <1>4, <1>7, <2>1, <2>3, <5>1
      <4>2. CASE mail[1].kind # "blocked"
        <5>1. app'.draft = app.draft
          BY <1>7, <4>2
        <5>2. Joined(app'.queued) \subseteq Joined(app.queued)
          BY RemovedIs
        <5>. QED  BY <2>3, <5>1, <5>2 DEF Held
      <4>. QED  BY <4>1, <4>2
    <3>2. PICK k \in Taken : y \in Line[k]
      BY <2>1, <2>3, <3>1
    <3>3. k # 1
      <4>1. SUFFICES ASSUME 1 \in Taken, y \in x PROVE FALSE
        BY <1>4, <3>2
      <4>2. y \notin app.draft
        BY <1>4, <2>3, <4>1 DEF OnceInv, LineDraft
      <4>3. y \in app'.draft
        BY <1>7, <1>10, <2>3, <4>1
      <4>4. mail[1].kind = "accepted"
        BY <1>4, <4>1
      <4>. QED  BY <1>7, <4>2, <4>3, <4>4
    <3>4. k \in Places
      BY DEF Taken
    <3>5. PICK l \in Places' : k = l + 1
      BY <1>1, <3>3, <3>4 DEF Shifted
    <3>. QED  BY <1>8, <3>2, <3>5
  <2>. QED  BY <2>2, <2>3 DEF SaidOnce
<1>. QED  BY <1>11, <1>12, <1>13, <1>14, <1>15, <1>16, <1>17 DEF OnceInv

\* The last letter of a work in the session shown is read.
LEMMA EndReadOnce ==
    ASSUME ScreenInv, ScreenInv', OnceInv, insync, insync', mail # <<>>, mail' = Tail(mail),
           mail[1].s = app.shown, mail[1].kind \in Kinds \ OfSteer, app.shown \in Sessions,
           NEW a \in App, After(a), Flushed(a), a.shown = app.shown, ~a.running,
           HeldIn(a) = IF mail[1].kind = "done" /\ mail[1].why = "blocked" THEN Held \cup app.submit ELSE Held,
           a.queued = <<>> \/ (a.queued = app.queued /\ a.draft = app.draft),
           said' = said, brought' = brought
    PROVE  OnceInv'
<1>1. /\ CoreTyped /\ CoreTyped' /\ AppTyped /\ LineFacts /\ app.shown # None
  BY LineIs, FrontendAssumption DEF ScreenInv
<1>2. /\ 1 \in DOMAIN mail /\ \A i \in DOMAIN mail' : \E j \in DOMAIN mail : mail'[i] = mail[j]
      /\ \A i \in DOMAIN mail : i # 1 => \E j \in DOMAIN mail' : mail'[j] = mail[i]
  <2>1. /\ 1 \in DOMAIN mail
        /\ \A i \in DOMAIN mail' : i + 1 \in DOMAIN mail /\ mail'[i] = mail[i + 1]
        /\ \A i \in DOMAIN mail : i # 1 => i - 1 \in DOMAIN mail' /\ mail'[i - 1] = mail[i]
    BY <1>1, TailIs
  <2>. QED  BY <2>1
<1>3. app.shown \notin BusyAfter
  BY <1>1 DEF After
<1>4. working[app.shown] = None /\ app.shown \notin Turns /\ pending[app.shown] = <<>>
  BY <1>1, <1>3 DEF BusyAfter, Turns, CoreTyped
<1>5. /\ \A i \in DOMAIN mail' : mail'[i].s # app.shown
      /\ \A i \in DOMAIN mail : mail[i].s = app.shown => i = 1
  BY <1>2, <1>3 DEF BusyAfter
<1>6. Places = {} /\ Taken = {}
  <2>1. Len(pending[app.shown]) = 0
    BY <1>4
  <2>2. \A k \in Places : k \in DOMAIN mail
    BY <1>1, <2>1 DEF LineFacts
  <2>3. \A k \in DOMAIN mail : k \notin Places
    BY <1>1, <1>5 DEF LineFacts
  <2>. QED  BY <2>2, <2>3 DEF Taken
<1>7. HeldIn(a) \subseteq Held \cup OwnPrompt
  <2>1. CASE mail[1].kind = "done" /\ mail[1].why = "blocked"
    <3>1. app.running
      <4>1. app.shown \in Busy
        BY <1>2 DEF Busy
      <4>. QED  BY <1>1, <4>1 DEF ScreenInv, InSync
    <3>2. ~app.compacting
      BY <1>2, <2>1 DEF ScreenInv, CompactShown
    <3>3. mail[1].of = app.submit
      BY <1>1, <1>2, <2>1, <3>1, <3>2 DEF ScreenInv, InSync
    <3>4. mail[1].of \in Texts
      BY <1>1, <1>2, <2>1 DEF CoreTyped
    <3>5. \A y \in mail[1].of : y \in OwnPrompt
      BY <1>2, <2>1, <3>4 DEF OwnPrompt, Texts
    <3>. QED  BY <2>1, <3>3, <3>5
  <2>2. CASE ~(mail[1].kind = "done" /\ mail[1].why = "blocked")
    BY <2>2
  <2>. QED  BY <2>1, <2>2
<1>8. HeldIn(a) \cap said' \subseteq brought'
  BY <1>6, <1>7 DEF OnceInv, SaidOnce, PromptApart
<1>9. /\ \/ /\ working' = working /\ pending' = pending /\ app'.shown = app.shown
            /\ \/ app'.queued = a.queued /\ app'.draft = a.draft
               \/ app'.queued = <<>> /\ app'.draft = HeldIn(a)
         \/ /\ app'.shown = app.shown /\ a.queued # <<>>
            /\ Begin(app.shown, "turn", Head(a.queued))
            /\ app'.queued = Tail(a.queued) /\ app'.draft = a.draft
  <2>1. \A s : Goes(s) => s = app.shown
    BY <1>1 DEF Goes
  <2>2. Goes(app'.shown) => app'.shown = app.shown
    BY <2>1
  <2>. QED  BY <1>1, <2>2, FlushedIs
<1>10. a.queued \in Seq(Texts) /\ Joined(<<>>) = {} /\ Len(<<>>) = 0
  BY DEF App, Joined
<1>11. ASSUME pending' = pending, app'.shown = app.shown,
              \A t \in Turns' : t # app.shown => t \in Turns /\ working'[t].prompt = working[t].prompt
       PROVE  CalmFacts' /\ HeldIn(a) \cap Foreign' \subseteq brought'
  <2>1. Calm(app.shown, mail)'
    BY <1>4, <1>5, <1>11 DEF Calm
  <2>2. (app.shown \in Sessions \cup {None})'
    BY <1>11
  <2>3. CalmFacts'
    BY <1>1, <2>1, <2>2, CalmAfter
  <2>4. Foreign' \subseteq Foreign
    BY <1>1, <1>2, <1>11, ForeignAfter
  <2>. QED  BY <1>7, <2>3, <2>4 DEF OnceInv, ForeignApart
<1>12. CASE /\ working' = working /\ pending' = pending /\ app'.shown = app.shown
            /\ \/ app'.queued = a.queued /\ app'.draft = a.draft
               \/ app'.queued = <<>> /\ app'.draft = HeldIn(a)
  <2>1. Held' = HeldIn(a)
    BY <1>10, <1>12 DEF Held, HeldIn
  <2>2. Turns' = Turns
    BY <1>12 DEF Turns
  <2>3. CalmFacts' /\ HeldIn(a) \cap Foreign' \subseteq brought'
    BY <1>11, <1>12, <2>2
  <2>4. QueueApart'
    <3>1. CASE app'.queued = <<>>
      <4>1. Len(app'.queued) = 0
        BY <1>10, <3>1
      <4>2. 1..Len(app'.queued) = {}
        BY <4>1
      <4>. QED  BY <4>2 DEF QueueApart
    <3>2. CASE app'.queued = app.queued /\ app'.draft = app.draft
      BY <3>2 DEF OnceInv, QueueApart
    <3>. QED  BY <1>12, <3>1, <3>2
  <2>5. Held' \cup {} \subseteq HeldIn(a) /\ {} \cap Held' \subseteq brought' /\ app'.shown \notin Turns'
    BY <1>4, <1>12, <2>1, <2>2
  <2>. QED  BY <1>8, <2>3, <2>4, <2>5, CalmOnce
<1>13. CASE /\ app'.shown = app.shown /\ a.queued # <<>>
            /\ Begin(app.shown, "turn", Head(a.queued))
            /\ app'.queued = Tail(a.queued) /\ app'.draft = a.draft
  <2>. DEFINE x == Head(a.queued)
              n == Len(app.queued)
  <2>1. /\ Joined(a.queued) = x \cup Joined(app'.queued) /\ x = app.queued[1] /\ x \in Texts
        /\ app'.queued \in Seq(Texts) /\ Len(app'.queued) = n - 1 /\ n \in Nat /\ n >= 1
        /\ \A i \in 1..(n - 1) : app'.queued[i] = app.queued[i + 1]
        /\ a.draft = app.draft
    BY <1>10, <1>13, JoinedTail
  <2>2. /\ pending' = pending /\ working'[app.shown].prompt = x
        /\ \A t \in Sessions \ {app.shown} : working'[t] = working[t]
        /\ Turns' = Turns \cup {app.shown}
    BY <1>1, <1>13, <2>1, BeginIs
  <2>. HIDE DEF x
  <2>3. CalmFacts' /\ HeldIn(a) \cap Foreign' \subseteq brought'
    <3>1. \A t \in Turns' : t # app.shown => t \in Turns /\ working'[t].prompt = working[t].prompt
      BY <2>2 DEF Turns
    <3>. QED  BY <1>11, <1>13, <2>2, <3>1
  <2>4. \A i \in 1..(n - 1) : i + 1 \in 1..n /\ i + 1 # 1
    BY <2>1
  <2>5. /\ \A i \in 1..n : app.queued[i] \cap app.draft \subseteq brought
        /\ \A i, j \in 1..n : i # j => app.queued[i] \cap app.queued[j] \subseteq brought
    BY DEF OnceInv, QueueApart
  <2>6. 1 \in 1..n
    BY <2>1
  <2>. HIDE DEF n
  <2>7. QueueApart'
    <3>1. \A i, j \in 1..(n - 1) : i # j => i + 1 # j + 1
      BY <2>1
    <3>2. \A i, j \in 1..(n - 1) : i # j => app'.queued[i] \cap app'.queued[j] \subseteq brought
      BY <2>1, <2>4, <2>5, <3>1
    <3>3. \A i \in 1..(n - 1) : app'.queued[i] \cap app'.draft \subseteq brought
      BY <1>13, <2>1, <2>4, <2>5
    <3>. QED  BY <2>1, <3>2, <3>3 DEF QueueApart
  <2>8. x \cap Held' \subseteq brought'
    <3>1. x \cap app'.draft \subseteq brought
      BY <1>13, <2>1, <2>5, <2>6
    <3>2. \A i \in 1..(n - 1) : x \cap app'.queued[i] \subseteq brought
      BY <2>1, <2>4, <2>5, <2>6
    <3>3. \A y : y \in Joined(app'.queued) => \E i \in 1..(n - 1) : y \in app'.queued[i]
      BY <2>1, JoinedIs
    <3>. QED  BY <3>1, <3>2, <3>3 DEF Held
  <2>9. Held' \cup x \subseteq HeldIn(a)
    BY <1>13, <2>1 DEF Held, HeldIn, x
  <2>10. app'.shown \in Turns' => working'[app'.shown].prompt \subseteq x
    BY <1>13, <2>2
  <2>. QED  BY <1>8, <2>3, <2>7, <2>8, <2>9, <2>10, CalmOnce
<1>. QED  BY <1>9, <1>12, <1>13

LEMMA ReadOnce == ASSUME ScreenInv, ScreenInv', OnceInv, Read PROVE OnceInv'
<1>. DEFINE e == mail[1]
<1>1. /\ mail' = Tail(mail) /\ mail # <<>> /\ said' = said /\ brought' = brought
      /\ e.kind \in Kinds /\ e \in Letters /\ (insync' => insync)
  BY ReadIs
<1>. SUFFICES ASSUME insync, insync' PROVE OnceInv'
  BY <1>1 DEF OnceInv
<1>2. PICK a \in App :
          /\ After(a) /\ Flushed(a) /\ a.shown = app.shown
          /\ e.s # app.shown => a.queued = app.queued /\ a.draft = app.draft /\ a.steered = app.steered /\ ~a.flush
          /\ e.s = app.shown =>
                /\ e.kind \in OfSteer =>
                      /\ Removed(a, e.x) /\ ~a.flush
                      /\ a.draft = IF e.kind = "blocked" THEN app.draft \cup e.x ELSE app.draft
                /\ e.kind \notin OfSteer =>
                      /\ HeldIn(a) = IF e.kind = "done" /\ e.why = "blocked" THEN Held \cup app.submit ELSE Held
                      /\ a.queued = <<>> \/ (a.queued = app.queued /\ a.draft = app.draft)
                      /\ e.kind = "done" \/ app.compacting => ~a.running
  BY ReadIs
<1>3. AppTyped /\ e.s \in Sessions /\ app.shown \in Sessions \cup {None}
  BY <1>1 DEF ScreenInv, AppTyped, Letters
<1>4. ~a.flush =>
          /\ working' = working /\ pending' = pending /\ app'.shown = app.shown
          /\ app'.queued = a.queued /\ app'.draft = a.draft /\ app'.steered = a.steered
  BY <1>2, <1>3, FlushedIs
<1>5. CASE e.s # app.shown
  <2>1. /\ working' = working /\ pending' = pending /\ app'.shown = app.shown
        /\ app'.queued = app.queued /\ app'.draft = app.draft /\ app'.steered = app.steered
    BY <1>2, <1>4, <1>5
  <2>. QED  BY <1>1, <1>5, <2>1, ElsewhereOnce
<1>6. CASE e.s = app.shown /\ e.kind \in OfSteer
  <2>1. /\ working' = working /\ pending' = pending /\ app'.shown = app.shown
        /\ app'.queued = a.queued /\ app'.draft = a.draft /\ app'.steered = a.steered
    BY <1>2, <1>4, <1>6
  <2>2. /\ Removed(a, mail[1].x) /\ app.shown \in Sessions
        /\ a.draft = IF mail[1].kind = "blocked" THEN app.draft \cup mail[1].x ELSE app.draft
    BY <1>2, <1>3, <1>6
  <2>3. mail[1].s = app.shown /\ mail[1].kind \in OfSteer
    BY <1>6
  <2>. QED  BY <1>1, <2>1, <2>2, <2>3, SteerToldOnce
<1>7. CASE e.s = app.shown /\ e.kind \notin OfSteer
  <2>1. e.kind = "done" \/ app.compacting
    <3>1. 1 \in DOMAIN mail /\ app.shown # None
      BY <1>1, <1>3, <1>7, TailIs, FrontendAssumption DEF ScreenInv
    <3>2. app.shown \in Busy
      BY <1>3, <1>7, <3>1 DEF Busy
    <3>. QED  BY <1>7, <3>1, <3>2 DEF ScreenInv, InSync
  <2>2. /\ ~a.running /\ mail[1].s = app.shown /\ mail[1].kind \in Kinds \ OfSteer /\ app.shown \in Sessions
        /\ HeldIn(a) = IF mail[1].kind = "done" /\ mail[1].why = "blocked" THEN Held \cup app.submit ELSE Held
        /\ a.queued = <<>> \/ (a.queued = app.queued /\ a.draft = app.draft)
    BY <1>1, <1>2, <1>3, <1>7, <2>1
  <2>. QED  BY <1>1, <1>2, <2>2, EndReadOnce
<1>. QED  BY <1>5, <1>6, <1>7

LEMMA OnceInit == FInit => OnceInv
<1>. SUFFICES ASSUME FInit PROVE OnceInv
  OBVIOUS
<1>1. /\ working = [s \in Sessions |-> None] /\ pending = [s \in Sessions |-> <<>>] /\ mail = <<>> /\ said = {}
      /\ app.shown = None /\ app.queued = <<>> /\ app.draft = {}
  BY DEF FInit, Init
<1>2. Held = {} /\ Turns = {} /\ Places = {} /\ 1..Len(app.queued) = {}
  BY <1>1 DEF Held, Joined, Turns, Places
<1>3. OwnPrompt = {} /\ Foreign = {}
  BY <1>1, <1>2 DEF OwnPrompt, Foreign
<1>. QED  BY <1>1, <1>2, <1>3
          DEF OnceInv, LineApart, LineQueue, LineDraft, QueueApart, PromptApart, SaidOnce, ForeignApart

LEMMA OnceNext ==
    ASSUME ScreenInv, ScreenInv', TextInv, OnceInv, [FNext]_vars, ~DeletesRunning
    PROVE  OnceInv'
<1>1. CASE Type
  BY <1>1, TypeOnce
<1>2. CASE Submit
  BY <1>2, SubmitOnce
<1>3. CASE Up
  BY <1>3, UpOnce
<1>4. CASE Esc
  BY <1>4, EscOnce
<1>5. CASE Compact
  BY <1>5, CompactOnce
<1>6. ASSUME NEW s, New \/ Resume(s) PROVE OnceInv'
  BY <1>6, LeaveOnce
<1>7. CASE Delete
  BY <1>7, DeleteOnce
<1>8. CASE Read
  BY <1>8, ReadOnce
<1>9. ASSUME NEW s \in Sessions, CoreWorks(s) PROVE OnceInv'
  BY <1>9, CoreOnce
<1>10. CASE UNCHANGED vars
  <2>1. /\ WorkKept /\ pending' = pending /\ mail' = mail /\ app' = app
        /\ said' = said /\ insync' = insync /\ brought' = brought
    BY <1>10 DEF vars, core, front, history, WorkKept
  <2>2. /\ Places' = Places /\ Line' = Line /\ Taken' = Taken /\ OwnPrompt' = OwnPrompt /\ Foreign' = Foreign
        /\ Held' = Held
    BY <2>1, OutKept DEF Held
  <2>. QED  BY <2>1, <2>2
            DEF OnceInv, LineApart, LineQueue, LineDraft, QueueApart, PromptApart, SaidOnce, ForeignApart
<1>. QED  BY <1>1, <1>2, <1>3, <1>4, <1>5, <1>6, <1>7, <1>8, <1>9, <1>10 DEF FNext

\* What the app holds the core has only for a steer on its way out of the
\* queue, or for what a left session brought.
LEMMA OnceShows == ScreenInv /\ TextInv /\ OnceInv => TextsReachOnce
<1>. SUFFICES ASSUME ScreenInv, TextInv, OnceInv PROVE TextsReachOnce
  OBVIOUS
<1>1. SteersAreQueued /\ TextsKept
  BY DEF ScreenInv, QueueInv, SteersAreQueued, TextInv
<1>2. ASSUME insync, NEW y \in Held, y \in said \/ y \in InTurns, y \notin brought PROVE y \in Accepted
  <2>1. CASE y \in said
    <3>1. PICK k \in Taken : y \in Line[k]
      BY <1>2, <2>1 DEF OnceInv, SaidOnce
    <3>2. k \in Places /\ k <= Len(mail) /\ mail[k].kind = "accepted"
      BY DEF Taken
    <3>3. app.shown \in Sessions /\ CoreTyped
      BY <3>2 DEF Places, ScreenInv, AppTyped
    <3>4. k \in DOMAIN mail /\ Line[k] = mail[k].x
      BY <3>2, <3>3, LineIs DEF LineFacts
    <3>. QED  BY <3>1, <3>2, <3>4 DEF Accepted
  <2>2. CASE y \in InTurns
    <3>1. PICK s \in Turns : y \in working[s].prompt
      BY <2>2, InTurnsIs
    <3>2. y \in IF s = app.shown THEN OwnPrompt ELSE Foreign
      BY <3>1, OutsideIs DEF ScreenInv
    <3>. QED  BY <1>2, <3>2 DEF OnceInv, PromptApart, ForeignApart
  <2>. QED  BY <1>2, <2>1, <2>2
<1>3. SentOnce
  BY <1>2 DEF SentOnce
<1>. QED  BY <1>1, <1>3 DEF TextsReachOnce

\* Where every text is, as an invariant of the steps: what is held, out or
\* said was typed, nothing typed is nowhere, and no text is in two places.
THEOREM TextsInvariant ==
    ASSUME ~DeletesRunning, ~CompactsEarly
    PROVE  FSpec => [](ScreenInv /\ TextInv /\ OnceInv)
<1>1. FInit => ScreenInv /\ TextInv /\ OnceInv
  BY ScreenInit, TextInit, OnceInit
<1>2. ScreenInv /\ TextInv /\ OnceInv /\ [FNext]_vars => (ScreenInv /\ TextInv /\ OnceInv)'
  <2>. SUFFICES ASSUME ScreenInv, TextInv, OnceInv, [FNext]_vars PROVE ScreenInv' /\ TextInv' /\ OnceInv'
    OBVIOUS
  <2>1. ScreenInv' /\ TextInv'
    BY ScreenNext, TextNext
  <2>. QED  BY <2>1, OnceNext
<1>. QED  BY <1>1, <1>2, PTL DEF FSpec

\* Each text typed reaches the core once, or comes back, or was refused to the
\* user's face, and the queue knows which of its texts the turn has: for any
\* sessions and any texts (app.rs:362, :2921, :2937, :3246).
THEOREM TextsOnce ==
    ASSUME ~DeletesRunning, ~CompactsEarly
    PROVE  FSpec => []TextsReachOnce
<1>. QED  BY TextsInvariant, OnceShows, PTL
================================================================================
