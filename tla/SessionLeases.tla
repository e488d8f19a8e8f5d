---------------------------- MODULE SessionLeases ----------------------------
(***************************************************************************)
(* What the session store promises the processes that share it: a set of   *)
(* sessions, each leased to at most one process at a time, where only the  *)
(* holder of a session's lease writes its transcript or removes it, and a  *)
(* removed session never returns.                                          *)
(***************************************************************************)
CONSTANTS Procs, Sessions, None

VARIABLES
    live,    \* the sessions that exist
    gone,    \* those that existed and were removed
    holder,  \* holder[s]: the process that may write session s
    backed   \* the live sessions with a transcript

vars == <<live, gone, holder, backed>>

Init ==
    /\ live = {} /\ gone = {} /\ backed = {}
    /\ holder = [s \in Sessions |-> None]

\* A new session appears, whole: with its history if it branches from another.
Create(s, history) ==
    /\ s \notin live \cup gone
    /\ live' = live \cup {s}
    /\ backed' = backed \cup (IF history THEN {s} ELSE {})
    /\ UNCHANGED <<gone, holder>>

Acquire(p, s) ==
    /\ s \in live /\ holder[s] = None
    /\ holder' = [holder EXCEPT ![s] = p]
    /\ UNCHANGED <<live, gone, backed>>

\* A process lets go of one session, or dies and lets go of all it held.
Release(p, S) ==
    /\ \A s \in S : holder[s] = p
    /\ holder' = [s \in Sessions |-> IF s \in S THEN None ELSE holder[s]]
    /\ UNCHANGED <<live, gone, backed>>

Write(p, s) ==
    /\ s \in live /\ holder[s] = p
    /\ backed' = backed \cup {s}
    /\ UNCHANGED <<live, gone, holder>>

Remove(p, s) ==
    /\ s \in live /\ holder[s] = p
    /\ live' = live \ {s} /\ gone' = gone \cup {s} /\ backed' = backed \ {s}
    /\ holder' = [holder EXCEPT ![s] = None]

Next ==
    \/ \E s \in Sessions, history \in BOOLEAN : Create(s, history)
    \/ \E p \in Procs, s \in Sessions : Acquire(p, s) \/ Write(p, s) \/ Remove(p, s)
    \/ \E p \in Procs, S \in SUBSET Sessions : Release(p, S)

Spec == Init /\ [][Next]_vars
=============================================================================
