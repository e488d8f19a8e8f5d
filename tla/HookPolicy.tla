------------------------------- MODULE HookPolicy -------------------------------
(***************************************************************************)
(* Which hooks a turn runs, and what they keep from happening.             *)
(*                                                                         *)
(* A turn discovers its hooks once, from the manifests on disk and, unless *)
(* it is in auto mode, from what the ledger says a human approved; then    *)
(* calls, prompts and ends are put to them one hook after another.  The    *)
(* files change at any moment, by the agent's own writes or anyone's.  A   *)
(* content is its own hash.                                                *)
(***************************************************************************)
EXTENDS Naturals, FiniteSets

CONSTANTS
    Files,      \* the places of hook manifests
    Global,     \* those of them in the data directory, not the project's
    Stem,       \* the file stem of each, a number: stems sort
    Manifests,  \* the contents that parse
    Installed,  \* what the places hold to begin with
    Event,      \* the event each declares
    Blocking,   \* the turn_end hooks among them that ask to block
    Script,     \* the project file each hands to the host, or None
    Scripts,    \* such files
    Bodies,     \* what they may hold
    Shipped,    \* and hold to begin with
    Unstartable,\* manifests whose command is not there to start
    Absent, Junk, None,
    Modes,      \* the approval modes a turn may start in
    Cap,        \* MAX_HOOKS_PER_EVENT
    MaxRefusals,\* MAX_TURN_END_CONTINUATIONS
    MaxEdits, MaxActs \* changes of the files, and acts of a human

HooksAssumption ==
    /\ Global \subseteq Files /\ Stem \in [Files -> Nat]
    /\ \A f, g \in Files : Stem[f] = Stem[g] /\ (f \in Global <=> g \in Global) => f = g
    /\ Event \in [Manifests -> {"pre_tool_use", "post_tool_use", "user_prompt_submit", "turn_end"}]
    /\ Blocking \subseteq {m \in Manifests : Event[m] = "turn_end"}
    /\ Script \in [Manifests -> Scripts \cup {None}] /\ Unstartable \subseteq Manifests
    /\ Installed \subseteq [Files -> Manifests \cup {Absent, Junk}] /\ Shipped \in [Scripts -> Bodies]
    /\ Absent \notin Bodies \cup Manifests /\ Junk \notin Manifests /\ None \notin Manifests \cup Scripts \cup Files
    /\ Cap \in Nat /\ MaxRefusals \in Nat /\ MaxEdits \in Nat /\ MaxActs \in Nat

VARIABLES
    manifest, code,    \* the files
    hashes, shape,     \* the ledger: contents approved, and what was approved at each path
    readable,          \* whether its chain verifies
    hooks,             \* this turn's Hooks
    due,               \* history: the gates a human had installed at its discovery
    call,              \* what is being put to the hooks
    refusals,          \* end attempts refused in this turn
    last,              \* history: how the last one went
    ran,               \* history: the hook process the last step ran
    edits, acts

vars == <<manifest, code, hashes, shape, readable, hooks, due, call, refusals, last, ran, edits, acts>>
disk == <<manifest, code, edits>>
ledger == <<hashes, shape, readable, acts>>

IsGate(m) == Event[m] \in {"pre_tool_use", "user_prompt_submit"} \/ m \in Blocking
Targets == Files \cup Scripts
InProject(t) == t \notin Global

-----------------------------------------------------------------------------
(* Discovery.                                                              *)

\* discover_in_dirs: one file per stem, the project's before the global one.
Considered ==
    {f \in Files : /\ manifest[f] # Absent
                   /\ ~\E g \in Files \ Global : f \in Global /\ Stem[g] = Stem[f] /\ manifest[g] # Absent}
Parsed == {f \in Considered : manifest[f] \in Manifests}
Winners(f) == {g \in Considered : g # f /\ Stem[g] = Stem[f]}

\* The manifest and the code it runs, both approved content.
Approved(f) ==
    /\ manifest[f] \in hashes
    /\ Script[manifest[f]] = None \/ code[Script[manifest[f]]] \in hashes

WasLive == {f \in Files : shape[f] # None}
LiveGates == {f \in WasLive : IsGate(shape[f])}

\* apply_cap: of the hooks kept for an event, the first stems run.
PastCap(kept) ==
    {f \in kept : Cap <= Cardinality({g \in kept : /\ Event[manifest[g]] = Event[manifest[f]]
                                                   /\ Stem[g] < Stem[f]})}
OverGates(kept) == {f \in PastCap(kept) : IsGate(manifest[f])}

\* The carve-out of a hook that fails closed: it, its code as approved, and
\* whatever holds its stem.
Repair(f) ==
    {f} \cup Winners(f) \cup (IF shape[f] # None /\ Script[shape[f]] # None THEN {Script[shape[f]]} ELSE {})

\* What a turn keeps of its hooks: the contents it parsed, and the code bound.
Loaded(auto, live, closed, repair) ==
    [auto |-> auto, live |-> live, spec |-> [f \in live |-> manifest[f]],
     bound |-> [s \in {Script[manifest[f]] : f \in live} \ {None} |-> IF auto THEN None ELSE code[s]],
     closed |-> closed, repair |-> repair, unverifiable |-> FALSE]

NoHooks == [Loaded(FALSE, {}, {}, {}) EXCEPT !.unverifiable = TRUE]

\* discover_for_mode in auto: the files on disk are the policy.
DiscoverAuto ==
    LET broken == (Considered \ Parsed) \cup OverGates(Parsed)
    IN  Loaded(TRUE, Parsed \ PastCap(Parsed), broken, broken)

Kept == {f \in Parsed : Approved(f)}

RevokedAsWritten == {f \in (Parsed \ Kept) \cap WasLive : IsGate(manifest[f])}

\* Modified gates, by what was approved and not by what the file now says.
Revoked == {f \in (Parsed \ Kept) \cap WasLive : IsGate(shape[f])}

\* retain_approved: what a human approved and can no longer run fails closed,
\* unless a hook they also approved has taken its stem.
DiscoverApproved ==
    LET broken == (Considered \ Parsed) \cap WasLive
        missing == {f \in WasLive : manifest[f] = Absent}
        shadowed == {f \in WasLive \ Considered : manifest[f] # Absent /\ Winners(f) \cap Kept = {}}
    IN  Loaded(FALSE, Kept \ PastCap(Kept),
               broken \cup Revoked \cup missing \cup (shadowed \cap LiveGates) \cup OverGates(Kept),
               UNION {Repair(f) : f \in ((Parsed \ Kept) \cap WasLive) \cup broken \cup missing \cup shadowed})

Discover(auto) ==
    IF auto THEN DiscoverAuto ELSE IF readable THEN DiscoverApproved ELSE NoHooks

-----------------------------------------------------------------------------
\* Of each gate a human had installed: what it was, what approved content its
\* file holds now, and whether an approved hook has taken its stem, the
\* precedence a human built.
Due ==
    [f \in LiveGates |->
        [was |-> shape[f], now |-> IF f \in Kept THEN manifest[f] ELSE None,
         overridden |-> Winners(f) \cap Kept # {} /\ f \notin Considered]]

Idle == [kind |-> "none", target |-> None, todo |-> {}, judged |-> {}, unverified |-> FALSE]
NotAsked == [kind |-> "none", how |-> "none", target |-> None, judged |-> {}]

Init ==
    /\ manifest \in Installed /\ code = Shipped
    /\ \E A \in SUBSET {f \in Files : manifest[f] \in Manifests} :
          /\ shape = [f \in Files |-> IF f \in A THEN manifest[f] ELSE None]
          /\ hashes = {manifest[f] : f \in A} \cup
                      {code[Script[manifest[f]]] : f \in {g \in A : Script[manifest[g]] # None}}
    /\ readable = TRUE
    /\ \E m \in Modes : hooks = Discover(m = "auto")
    /\ due = Due
    /\ call = Idle /\ refusals = 0 /\ last = NotAsked /\ ran = {}
    /\ edits = 0 /\ acts = 0

TypeOK ==
    /\ manifest \in [Files -> Manifests \cup {Absent, Junk}]
    /\ code \in [Scripts -> Bodies \cup {Absent}]
    /\ hashes \subseteq Manifests \cup Bodies /\ shape \in [Files -> Manifests \cup {None}]
    /\ readable \in BOOLEAN /\ hooks.live \subseteq Files /\ hooks.closed \subseteq Files
    /\ hooks.repair \subseteq Targets /\ DOMAIN due \subseteq Files
    /\ call.kind \in {"none", "tool", "prompt", "end"} /\ call.target \in Targets \cup {None}
    /\ call.judged \subseteq hooks.live /\ call.unverified \in BOOLEAN
    /\ last.how \in {"none", "passed", "blocked", "cancelled", "refused", "unverified"}
    /\ refusals \in 0..MaxRefusals

\* A turn starts, or its mode changed: it discovers its hooks anew.
Start(auto) ==
    /\ call = Idle
    /\ hooks' = Discover(auto) /\ due' = Due
    /\ refusals' = 0 /\ last' = NotAsked /\ ran' = {}
    /\ UNCHANGED <<disk, ledger, call>>

EventOf(kind) == CASE kind = "tool" -> "pre_tool_use" [] kind = "prompt" -> "user_prompt_submit" [] OTHER -> "turn_end"

Chosen(event) == {f \in hooks.live : Event[hooks.spec[f]] = event}

\* fail_closed_reason, and repairs_failed_hook.
FailsClosed == hooks.unverifiable \/ hooks.closed # {}
RepairsFailed(t) == t # None /\ InProject(t) /\ t \in hooks.repair

End(how) ==
    /\ call' = Idle
    /\ last' = [kind |-> call.kind, how |-> how,
                target |-> IF how = "passed" THEN call.target ELSE None,
                judged |-> IF how = "passed" THEN call.judged ELSE {}]

\* A call, a prompt or an end is put to the hooks of its event.  A tool call is
\* refused at once while anything fails closed, a prompt only by the ledger.
Put(kind, t) ==
    /\ call = Idle /\ (kind = "tool" \/ t = None)
    /\ last.how # "cancelled" /\ (last.kind = "end" => last.how = "refused") \* else the turn is over
    /\ \/ /\ kind = "tool" /\ FailsClosed /\ ~RepairsFailed(t)
          /\ last' = [kind |-> kind, how |-> "blocked", target |-> None, judged |-> {}] /\ UNCHANGED call
       \/ /\ kind = "prompt" /\ hooks.unverifiable
          /\ last' = [kind |-> kind, how |-> "blocked", target |-> None, judged |-> {}] /\ UNCHANGED call
       \/ /\ ~(kind = "tool" /\ FailsClosed /\ ~RepairsFailed(t)) /\ ~(kind = "prompt" /\ hooks.unverifiable)
          /\ call' = [kind |-> kind, target |-> t, todo |-> Chosen(EventOf(kind)), judged |-> {},
                      unverified |-> FALSE]
          /\ UNCHANGED last
    /\ ran' = {}
    /\ UNCHANGED <<disk, ledger, hooks, due, refusals>>

-----------------------------------------------------------------------------
(* One hook.                                                               *)

\* They come in the order of their stems, which differ.
Current == CHOOSE f \in call.todo : \A g \in call.todo : Stem[f] <= Stem[g]
Body(f) == IF Script[hooks.spec[f]] = None THEN None ELSE code[Script[hooks.spec[f]]]

CodeUnchecked(f) == FALSE

\* code_changed_since_approval: in auto nothing was bound.
CodeChanged(f) == ~hooks.auto /\ Script[hooks.spec[f]] # None /\ Body(f) # hooks.bound[Script[hooks.spec[f]]]

\* cannot_start_reason
CannotStart(f) == hooks.spec[f] \in Unstartable \/ Body(f) = Absent

IsOwnRepair(f, t) == t # None /\ InProject(t) /\ t \in {f, Script[hooks.spec[f]]}

RepairsOwn(t) == \E f \in hooks.live : IsOwnRepair(f, t) /\ CannotStart(f)

\* A broken hook does not gate another's repair.
RepairsBroken(t) == RepairsOwn(t) \/ RepairsFailed(t)

NextHook(judged, unverified) ==
    /\ call' = [call EXCEPT !.todo = @ \ {Current}, !.judged = @ \cup judged, !.unverified = @ \/ unverified]
    /\ UNCHANGED last

\* What a hook that judged nothing means, event by event.
Unstarted(f) ==
    CASE call.kind = "tool" -> IF hooks.auto /\ RepairsBroken(call.target) THEN NextHook({}, FALSE) ELSE End("blocked")
      [] call.kind = "prompt" -> IF hooks.auto /\ InProject(f) THEN NextHook({}, FALSE) ELSE End("blocked")
      [] OTHER -> NextHook({}, IsGate(hooks.spec[f]))

Skip ==
    /\ call.todo # {} /\ call.kind = "tool" /\ hooks.auto /\ IsOwnRepair(Current, call.target)
    /\ NextHook({}, FALSE)
    /\ ran' = {} /\ UNCHANGED <<disk, ledger, hooks, due, refusals>>

\* turn_end honors so many refusals of a turn.
MayRefuse == refusals < MaxRefusals

\* A refusal: of an end, only a gate's counts, and only while one may still
\* be honored; a refusal that cannot be saved is not.
Blocked(f) ==
    \/ call.kind # "end" /\ End("blocked") /\ UNCHANGED refusals
    \/ call.kind = "end" /\ ~IsGate(hooks.spec[f]) /\ NextHook({f}, FALSE) /\ UNCHANGED refusals
    \/ /\ call.kind = "end" /\ IsGate(hooks.spec[f]) /\ MayRefuse
       /\ \/ End("refused") /\ refusals' = refusals + 1
          \/ End("unverified") /\ UNCHANGED refusals
    \/ /\ call.kind = "end" /\ IsGate(hooks.spec[f]) /\ ~MayRefuse
       /\ NextHook({f}, TRUE) /\ UNCHANGED refusals

RunHook ==
    /\ call.todo # {}
    /\ ~(call.kind = "tool" /\ hooks.auto /\ IsOwnRepair(Current, call.target))
    /\ \/ CodeChanged(Current) /\ Blocked(Current) /\ ran' = {}
       \/ /\ ~CodeChanged(Current) /\ CannotStart(Current) /\ ran' = {}
          /\ IF call.kind = "end" /\ IsGate(hooks.spec[Current]) /\ ~hooks.auto
             THEN Blocked(Current) ELSE Unstarted(Current) /\ UNCHANGED refusals
       \/ /\ ~CodeChanged(Current) /\ ~CannotStart(Current)
          /\ ran' = {[spec |-> hooks.spec[Current], body |-> Body(Current)]}
          /\ \/ NextHook({Current}, FALSE) /\ UNCHANGED refusals
             \/ Blocked(Current)
    /\ UNCHANGED <<disk, ledger, hooks, due>>

\* A cancel while a hook runs.  A turn_end hook has a token of its own.
Cancelled ==
    /\ call.todo # {} /\ call.kind # "end" /\ End("cancelled")
    /\ ran' = {} /\ UNCHANGED <<disk, ledger, hooks, due, refusals>>

Pass ==
    /\ call.kind # "none" /\ call.todo = {}
    /\ End(IF call.unverified THEN "unverified" ELSE "passed")
    /\ ran' = {} /\ UNCHANGED <<disk, ledger, hooks, due, refusals>>

-----------------------------------------------------------------------------
(* The files and the human.                                                *)

Edit ==
    /\ edits < MaxEdits /\ edits' = edits + 1
    /\ \/ \E f \in Files, c \in Manifests \cup {Absent, Junk} :
             manifest[f] # c /\ manifest' = [manifest EXCEPT ![f] = c] /\ UNCHANGED code
       \/ \E s \in Scripts, b \in Bodies \cup {Absent} :
             code[s] # b /\ code' = [code EXCEPT ![s] = b] /\ UNCHANGED manifest
    /\ ran' = {} /\ UNCHANGED <<ledger, hooks, due, call, refusals, last>>

\* openmax --approve: the manifest as it is, and the code it names.
Approve(f) ==
    /\ acts < MaxActs /\ acts' = acts + 1 /\ readable /\ manifest[f] \in Manifests
    /\ shape' = [shape EXCEPT ![f] = manifest[f]]
    /\ hashes' = hashes \cup {manifest[f]} \cup
                 (IF Script[manifest[f]] = None THEN {} ELSE {code[Script[manifest[f]]]} \ {Absent})
    /\ ran' = {} /\ UNCHANGED <<disk, readable, hooks, due, call, refusals, last>>

\* openmax --forget: the path is retired, no content is.
Retire(f) ==
    /\ acts < MaxActs /\ acts' = acts + 1 /\ readable /\ f \in WasLive
    /\ shape' = [shape EXCEPT ![f] = None]
    /\ ran' = {} /\ UNCHANGED <<disk, hashes, readable, hooks, due, call, refusals, last>>

\* The chain stops verifying, or a human repairs it.
Damage ==
    /\ acts < MaxActs /\ acts' = acts + 1 /\ readable' = ~readable
    /\ ran' = {} /\ UNCHANGED <<disk, hashes, shape, hooks, due, call, refusals, last>>

Next ==
    \/ \E auto \in BOOLEAN : Start(auto)
    \/ \E kind \in {"tool", "prompt", "end"}, t \in Targets \cup {None} : Put(kind, t)
    \/ Skip \/ RunHook \/ Cancelled \/ Pass
    \/ Edit \/ Damage
    \/ \E f \in Files : Approve(f) \/ Retire(f)

Spec == Init /\ [][Next]_vars

-----------------------------------------------------------------------------
(* Properties.                                                             *)

\* The gate f, as installed, is in force for a call that went through.
InForce(f) ==
    /\ f \in hooks.live /\ hooks.spec[f] = due[f].was
    /\ Event[due[f].was] = "pre_tool_use" => f \in last.judged

Passed(kind) == last.kind = kind /\ last.how = "passed"

\* What goes through was judged by every hook that gates it, unless it repairs
\* a broken one.  Outside auto those are the gates a human had installed when
\* the turn began: one that was edited, deleted, shadowed, crowded out or that
\* lost its code stops calls and never just stops gating (hooks.rs:160), but
\* where the file now holds other bytes a human approved (hooks.rs:938).
EveryGateJudges ==
    /\ Passed("tool") /\ ~hooks.auto /\ ~RepairsFailed(last.target) =>
          \A f \in DOMAIN due : InForce(f) \/ due[f].overridden \/ due[f].now \notin {None, due[f].was}
    /\ Passed("tool") /\ last.target = None =>
          \A f \in hooks.live : Event[hooks.spec[f]] = "pre_tool_use" => f \in last.judged
    /\ Passed("end") =>
          \A f \in hooks.live : hooks.spec[f] \in Blocking => f \in last.judged

\* The gates hold, in states of the shape the code keeps.
GatesHold == TypeOK /\ EveryGateJudges

\* Outside auto no hook process runs a manifest or code no human approved,
\* however the files change between discovery and the run (hooks.rs:1486).
UnapprovedNeverRuns ==
    ~hooks.auto => \A r \in ran : r.spec \in hashes /\ r.body \in hashes \cup {None}

\* In auto, where the agent writes the hooks, broken ones never close every way
\* to mend one of them, as long as all that fails closed is in the project
\* (hooks.rs:744).
Open(t) ==
    /\ FailsClosed => RepairsFailed(t)
    /\ \A f \in hooks.live : Event[hooks.spec[f]] = "pre_tool_use" =>
          IsOwnRepair(f, t) \/ ~CannotStart(f) \/ RepairsBroken(t)
Broken == hooks.closed \cup {f \in hooks.live : Event[hooks.spec[f]] = "pre_tool_use" /\ CannotStart(f)}

AutoNeverLocksOut ==
    hooks.auto /\ hooks.closed \cap Global = {} /\ Broken \ Global # {} =>
        \E t \in Targets \ Global :
            Open(t) /\ (t \in hooks.closed \/ \E f \in Broken \ hooks.closed : IsOwnRepair(f, t))
=============================================================================
