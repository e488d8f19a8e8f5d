------------------------------ MODULE MCPolicies ------------------------------
(***************************************************************************)
(* Three parts of the core that share nothing, checked by one run: a       *)
(* behaviour is of the approval modes, of the hooks or of one request, and *)
(* leaves the others as they began.                                        *)
(***************************************************************************)
EXTENDS ApprovalModes, HookPolicy, ClientStream, TLC

CONSTANTS top, nested, human, second
CONSTANTS mine, theirs, other, gate, ending, prompt, look, script, one, two

VARIABLES about

\* Two projects, one in the other, and two processes.
MCChain == (top :> <<top>>) @@ (nested :> <<nested, top>>)
MCProject == [p \in Procs |-> IF p = second THEN nested ELSE top]
MCWorktree == [p \in Procs |-> nested]
MCTeams == {{}, {human}}
Entry(t, n) == (top :> t) @@ (nested :> n)
MCStores == {[projects |-> {top}, modes |-> Entry("ask", "auto")],
             [projects |-> {nested}, modes |-> Entry("auto", "readonly")]}

\* A stem with a place in the project and one in the data directory, and
\* another stem.
MCStem == (mine :> 1) @@ (theirs :> 1) @@ (other :> 2)
MCEvent == (gate :> "pre_tool_use") @@ (ending :> "turn_end") @@ (prompt :> "user_prompt_submit") @@ (look :> "turn_end")
MCScript == (gate :> script) @@ (ending :> script) @@ (prompt :> script) @@ (look :> None)
Place(m, t, o) == (mine :> m) @@ (theirs :> t) @@ (other :> o)
MCInstalled == {Place(Junk, gate, gate)}
MCShipped == script :> one

\* What the servers may mean to say: a text, two calls of one name, a call
\* more than a reply may hold, and a text before a call.
ToCall(name, mid) == [id |-> Null, name |-> name, args |-> <<"open", mid, "close">>]
MCPlans == {[texts |-> 1, calls |-> <<>>],
            [texts |-> 0, calls |-> <<ToCall(<<"g", "g", "h">>, "x"), ToCall(<<"g", "g", "h">>, "y")>>],
            [texts |-> 0, calls |-> [i \in 1..3 |-> ToCall(<<"f">>, "x")]],
            [texts |-> 1, calls |-> <<ToCall(<<"f">>, "x")>>]}

ASSUME ClientAssumption
ASSUME ChainAssumption /\ ProcsAssumption
ASSUME HooksAssumption

MCInit ==
    /\ about \in {"modes", "hooks", "request"} /\ ModesInit /\ Init /\ ClientInit
    /\ about # "hooks" => hashes = {} /\ ~hooks.auto
    /\ about # "modes" => ~exists /\ spawned = {}
    /\ about # "request" => api = CHOOSE a \in Apis : TRUE

all == <<about, modes_vars, vars, request>>

OfHooks == about = "hooks" /\ UNCHANGED <<about, modes_vars, request>>
OfRequest == about = "request" /\ UNCHANGED <<about, modes_vars, vars>>
OfModes == about = "modes" /\ UNCHANGED <<about, vars, request>>

MCNext == (OfModes /\ ModesNext) \/ (OfHooks /\ Next) \/ (OfRequest /\ ClientNext)

MCSpec == MCInit /\ [][MCNext]_all /\ WF_all(OfRequest /\ OwnSteps)

-----------------------------------------------------------------------------
(* What is checked of the three.                                           *)

\* A request ends whatever the server does (client.rs:308).
RequestOver == about = "request" ~> phase = "over"
=============================================================================
