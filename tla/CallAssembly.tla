------------------------------ MODULE CallAssembly ------------------------------
(***************************************************************************)
(* Tool calls put together from the deltas of a chat stream.               *)
(*                                                                         *)
(* Servers mark the pieces of their calls differently: by an index, by an  *)
(* id, by both or by neither.  A text is the sequence of its pieces; the   *)
(* arguments of a call are a JSON object when they open and close.         *)
(***************************************************************************)
EXTENDS Naturals, Sequences, SequencesExt, FiniteSets, FiniteSetsExt

CONSTANTS MaxCalls, Null

Complete(args) == args # <<>> /\ Head(args) = "open" /\ Last(args) = "close"

Opened(index) == [index |-> index, id |-> Null, name |-> <<>>, repeats |-> 0, args |-> <<>>]
IndexOf(call) == IF call.index = Null THEN 0 ELSE call.index

\* starts_call: a delta that names a function begins the next call when it
\* carries another id, or, with no ids to compare and no index, when its own
\* arguments are whole and the call's are complete.
StartsCall(call, d) ==
    /\ d.name # <<>> /\ call.name # <<>>
    /\ IF d.id # Null /\ call.id # Null
       THEN d.id # call.id
       ELSE d.index = Null /\ Complete(d.args) /\ Complete(call.args)

\* The calls a delta may continue; it continues the latest of them.
Candidates(calls, d) ==
    LET named == {i \in DOMAIN calls : d.id # Null /\ calls[i].id = d.id}
    IN  CASE d.index # Null -> {i \in DOMAIN calls : IndexOf(calls[i]) = d.index}
          [] d.index = Null /\ named # {} -> named
          [] OTHER -> DOMAIN calls

\* Mutant: a delta always continues the call that bears its mark.
SlotByMark(calls, d) ==
    LET old == Candidates(calls, d)
    IN  IF old # {} THEN Max(old) ELSE Len(calls) + 1

\* tool_slot: the place of the call a delta belongs to, past the end for a new
\* one, or 0 past the limit.
Slot(calls, d) ==
    LET old == Candidates(calls, d)
    IN  CASE d.index # Null /\ d.index >= MaxCalls -> 0
          [] old # {} /\ ~StartsCall(calls[Max(old)], d) -> Max(old)
          [] Len(calls) >= MaxCalls -> 0
          [] OTHER -> Len(calls) + 1

Repeated(name, n) == FlattenSeq([i \in 1..n |-> name])

\* The first id is the call's.  A piece equal to the name so far waits: part of
\* the name if a different one follows, a repeat if none does.
Grown(call, d) ==
    [call EXCEPT
        !.id = IF @ = Null THEN d.id ELSE @,
        !.repeats = CASE d.name = <<>> -> @ [] d.name = call.name -> @ + 1 [] OTHER -> 0,
        !.name = IF d.name \in {<<>>, call.name} THEN @ ELSE @ \o Repeated(@, call.repeats) \o d.name,
        !.args = @ \o d.args]

Assembled(calls, d) ==
    LET at == Slot(calls, d)
    IN  IF at > Len(calls) THEN Append(calls, Grown(Opened(d.index), d)) ELSE [calls EXCEPT ![at] = Grown(@, d)]

\* finalize_tool_calls: a call without a name is none; an id is made up where
\* none came, and no arguments mean the empty object.
Finalized(calls) ==
    LET final == [i \in DOMAIN calls |->
                     [id |-> IF calls[i].id = Null THEN <<"call", i>> ELSE calls[i].id,
                      name |-> calls[i].name,
                      args |-> IF calls[i].args = <<>> THEN <<"open", "close">> ELSE calls[i].args]]
    IN  SelectSeq(final, LAMBDA c : c.name # <<>>)
=============================================================================
