------------------------------ MODULE TurnContract ------------------------------
(***************************************************************************)
(* What a frontend is promised of the turns it starts: one work at a time  *)
(* in a session, what it is told of the steers it sent, and one receipt    *)
(* when the work has settled, after which it may start the next.           *)
(***************************************************************************)
EXTENDS Naturals, Sequences

CONSTANTS Sessions, None

VARIABLES
    working,  \* working[s]: the turn or compaction in s, None without one
    pending,  \* pending[s]: the steers it took and has not told of, in order
    mail      \* what the frontend has not read, oldest first

core == <<working, pending, mail>>

\* x is the steer told of; a turn's receipt says which prompt it was, and why it ended.
Event(s, kind, x) == [s |-> s, kind |-> kind, x |-> x, of |-> None, why |-> ""]
Reasons == {"stop", "blocked", "cancelled", "error"}

Init ==
    /\ working = [s \in Sessions |-> None]
    /\ pending = [s \in Sessions |-> <<>>] /\ mail = <<>>

\* What the frontend calls.
Begin(s, kind, prompt) ==
    /\ working[s] = None
    /\ working' = [working EXCEPT ![s] = [kind |-> kind, prompt |-> prompt, stop |-> FALSE, heard |-> FALSE]]
    /\ UNCHANGED pending
TakesSteers(s) == working[s] # None /\ working[s].kind = "turn"
Steer(s, x) == TakesSteers(s) /\ pending' = [pending EXCEPT ![s] = Append(@, x)] /\ UNCHANGED working
Stop(s) ==
    /\ working' = IF working[s] = None THEN working ELSE [working EXCEPT ![s].stop = TRUE]
    /\ UNCHANGED pending

\* What the work does.  A steer is let in after all before it, or refused;
\* none is let in once the work was asked to stop.
Tell(s, kind, told) ==
    /\ mail' = mail \o [i \in DOMAIN told |-> Event(s, kind, told[i])]
    /\ working' = [working EXCEPT ![s].heard = TRUE]
Accept(s) ==
    /\ TakesSteers(s) /\ ~working[s].stop
    /\ \E n \in 1..Len(pending[s]) :
          /\ Tell(s, "accepted", SubSeq(pending[s], 1, n))
          /\ pending' = [pending EXCEPT ![s] = SubSeq(@, n + 1, Len(@))]
Without(q, i) == SubSeq(q, 1, i - 1) \o SubSeq(q, i + 1, Len(q))
Refuse(s) ==
    /\ TakesSteers(s)
    /\ \E i \in DOMAIN pending[s] :
          Tell(s, "blocked", <<pending[s][i]>>) /\ pending' = [pending EXCEPT ![s] = Without(@, i)]
Forget(s) ==
    /\ TakesSteers(s) /\ \E n \in 1..Len(pending[s]) : pending' = [pending EXCEPT ![s] = SubSeq(@, n + 1, Len(@))]
    /\ UNCHANGED <<working, mail>>
Fail(s) ==
    /\ working[s] # None
    /\ mail' = Append(mail, Event(s, "error", None)) /\ UNCHANGED <<working, pending>>

\* The receipt goes out after the session is free.  A prompt is refused
\* before any steer is looked at.
Receipts(s) ==
    LET w == working[s] IN
    IF w.kind = "turn"
    THEN {[s |-> s, kind |-> "done", x |-> None, of |-> w.prompt, why |-> r] :
            r \in {q \in Reasons : (q = "blocked" => ~w.heard) /\ (q = "cancelled" => w.stop)}}
    ELSE {Event(s, kind, None) : kind \in {"compacted", "error"}}
Settle(s) ==
    /\ working[s] # None
    /\ \E e \in Receipts(s) : mail' = Append(mail, e)
    /\ working' = [working EXCEPT ![s] = None] /\ pending' = [pending EXCEPT ![s] = <<>>]

Work(s) == Accept(s) \/ Refuse(s) \/ Forget(s) \/ Fail(s) \/ Settle(s)

\* A frontend's own steps, with any prompt and any steer.
Call(s) ==
    /\ \/ working[s] = None /\ working'[s] # None /\ Begin(s, working'[s].kind, working'[s].prompt)
       \/ Len(pending'[s]) > 0 /\ Steer(s, pending'[s][Len(pending'[s])])
       \/ Stop(s)
    /\ UNCHANGED mail

Next == \E s \in Sessions : Call(s) \/ Work(s)
Steps == Init /\ [][Next]_core
Settles == \A s \in Sessions : WF_core(Settle(s))
Spec == Steps /\ Settles
=============================================================================
