------------------------------ MODULE ClientStream ------------------------------
(***************************************************************************)
(* One request to a provider: its attempts, and the stream of each.        *)
(*                                                                         *)
(* stream_chat_with_note sends one body up to MaxAttempts times and reads  *)
(* what comes back as one of three wires.  The server has a reply in mind, *)
(* sends it event by event, and may fail, or be cut off, at any of them.   *)
(***************************************************************************)
EXTENDS CallAssembly

CONSTANTS
    Apis,           \* the wires a provider may speak
    Plans,          \* the replies a server may have in mind: texts and calls
    Dialects,       \* how a chat server marks the pieces of its calls
    MaxAttempts,    \* MAX_ATTEMPTS
    MaxUnreached    \* UNREACHED_ATTEMPTS

ClientAssumption ==
    /\ Apis \subseteq {"chat", "responses", "messages"}
    /\ MaxCalls \in Nat \ {0} /\ MaxAttempts \in Nat \ {0} /\ MaxUnreached \in 1..MaxAttempts
    /\ \A p \in Plans : p.texts \in Nat
    /\ \A p \in Plans : \A i \in DOMAIN p.calls : p.calls[i].name # <<>> /\ Complete(p.calls[i].args)

VARIABLES
    api, phase,     \* where the request is: ready, sent, reading, waiting, over
    attempt, unreached,
    plan, capped,   \* what this attempt's server means to say, and whether its
                    \* output limit stops it in its last call
    asked,          \* it asks for a retry only after longer than a minute
    rest,           \* the events it has still to send
    content, calls, \* the reply so far
    finish,         \* its finish_reason
    terminated,     \* the server said it was done
    shown,          \* the text the caller was given, over all attempts
    announced,      \* the last StreamDelta::Retry
    failed,         \* history: this attempt's server reported a failure
    cancelled, result

request == <<api, phase, attempt, unreached, plan, capped, asked, rest, content, calls, finish, terminated,
          shown, announced, failed, cancelled, result>>
reply == <<content, calls, finish, terminated>>
server == <<plan, capped, asked, rest, failed>>

-----------------------------------------------------------------------------
(* What servers send.                                                      *)

Delta(index, id, name, args) == [k |-> "call", index |-> index, id |-> id, name |-> name, args |-> args]
First(j, x) == IF j = 1 THEN x ELSE <<>>

\* The deltas of the i-th call, in each dialect.
DeltasOf(dialect, i, c) ==
    CASE dialect = "indexed" ->
            <<Delta(i - 1, <<"id", i>>, c.name, <<>>)>> \o
            [j \in DOMAIN c.args |-> Delta(i - 1, Null, <<>>, <<c.args[j]>>)]
      [] dialect = "repeating" ->
            [j \in DOMAIN c.args |-> Delta(i - 1, <<"id", i>>, c.name, <<c.args[j]>>)]
      [] dialect = "minting" ->
            [j \in DOMAIN c.args |-> Delta(i - 1, <<"id", i, j>>, First(j, c.name), <<c.args[j]>>)]
      [] dialect = "one index" ->
            [j \in DOMAIN c.args |-> Delta(0, IF j = 1 THEN <<"id", i>> ELSE Null, First(j, c.name), <<c.args[j]>>)]
      [] dialect = "ids" ->
            [j \in DOMAIN c.args |-> Delta(Null, <<"id", i>>, First(j, c.name), <<c.args[j]>>)]
      [] dialect = "whole" -> <<Delta(Null, Null, c.name, c.args)>>
      [] dialect = "spelled" ->
            [j \in DOMAIN c.name |-> Delta(i - 1, <<"id", i>>, <<c.name[j]>>, <<>>)] \o
            <<Delta(i - 1, Null, <<>>, c.args)>>

\* The pieces of two calls may interleave where each carries its own mark.
Interleaves(dialect) == dialect \in {"indexed", "repeating", "minting", "ids"}
Mixed(s, t) == FlattenSeq([j \in 1..Max({Len(s), Len(t)}) |-> SubSeq(s, j, Min({j, Len(s)})) \o SubSeq(t, j, Min({j, Len(t)}))])

\* An output limit cuts the last piece of the last call.
Cut(deltas, cut) == IF cut THEN Front(deltas) ELSE deltas
Said(p, cut) ==
    [i \in DOMAIN p.calls |->
        [p.calls[i] EXCEPT !.args = IF cut /\ i = Len(p.calls) THEN Front(@) ELSE @]]

Sent(k) == <<[k |-> k]>>
Texts(p) == [i \in 1..p.texts |-> [k |-> "text", n |-> i]]
Ending(p, cut) == IF cut THEN "length" ELSE IF p.calls = <<>> THEN "stop" ELSE "tool_calls"
Finish(p, cut) == <<[k |-> "finish", reason |-> Ending(p, cut)]>>

\* A chat stream; one that announces calls and sends none; and a whole reply
\* labeled as a stream.
ChatScripts(p, cut) ==
    LET of(d) == [i \in DOMAIN p.calls |-> DeltasOf(d, i, p.calls[i])]
        in_turn == {Cut(FlattenSeq(of(d)), cut) : d \in Dialects}
        mixed == IF Len(p.calls) >= 2 THEN {Cut(Mixed(of(d)[1], of(d)[2]) \o FlattenSeq(Tail(Tail(of(d)))), cut) : d \in {x \in Dialects : Interleaves(x)}} ELSE {}
    IN  {Texts(p) \o deltas \o Finish(p, cut) \o Sent("done") : deltas \in in_turn \cup mixed}
        \cup {Sent("whole") \o Sent("done")}
        \cup IF p.calls = <<>> \/ cut THEN {} ELSE {Finish(p, cut) \o Sent("done")}

\* A Responses stream carries whole items, and its text as it goes or only in
\* the completed event; a Messages stream carries blocks.
ItemsOf(p) == [i \in DOMAIN p.calls |-> [k |-> "item", at |-> i]]
BlocksOf(said) == FlattenSeq([i \in DOMAIN said |->
    <<[k |-> "open", at |-> i]>> \o [j \in DOMAIN said[i].args |-> [k |-> "piece", args |-> <<said[i].args[j]>>]]
    \o Sent("close")])

ScriptsOf(a, p, cut) ==
    CASE a = "chat" -> ChatScripts(p, cut)
      [] a = "responses" ->
            {t \o ItemsOf(p) \o Sent(IF cut THEN "incomplete" ELSE "completed") : t \in {Texts(p), <<>>}}
      [] OTHER -> {Texts(p) \o BlocksOf(Said(p, cut)) \o Finish(p, cut) \o Sent("stop")}
-----------------------------------------------------------------------------
(* The request.                                                            *)

Nothing == [how |-> "none", content |-> <<>>, calls |-> <<>>, finish |-> "stop"]
Quiet == /\ plan = CHOOSE p \in Plans : TRUE
         /\ capped = FALSE /\ asked = FALSE /\ rest = <<>> /\ failed = FALSE

ClientInit ==
    /\ api \in Apis /\ phase = "ready" /\ attempt = 0 /\ unreached = 0
    /\ Quiet
    /\ content = <<>> /\ calls = <<>> /\ finish = "stop" /\ terminated = FALSE
    /\ shown = <<>> /\ announced = [attempt |-> 0, last |-> 0]
    /\ cancelled = FALSE /\ result = Nothing

ClientTypeOK ==
    /\ api \in Apis /\ phase \in {"ready", "sent", "reading", "waiting", "over"}
    /\ attempt \in 0..MaxAttempts /\ unreached \in 0..MaxUnreached
    /\ plan \in Plans /\ {capped, asked, failed, terminated, cancelled} \subseteq BOOLEAN
    /\ api = "chat" => Len(calls) <= MaxCalls
    /\ announced.attempt <= announced.last /\ announced.last <= MaxAttempts
    /\ phase = "waiting" => announced.attempt = attempt + 1
    /\ phase = "over" <=> result.how # "none"

Over(how, text, called, why) ==
    /\ phase' = "over" /\ result' = [how |-> how, content |-> text, calls |-> called, finish |-> why]
    /\ UNCHANGED announced
Fail == Over("err", <<>>, <<>>, "error")
Interrupted == Over("ok", <<>>, <<>>, "cancelled")

\* resend_after: announce the retry and the attempt it counts to, then wait.
Resend(to) ==
    /\ phase' = "waiting" /\ announced' = [attempt |-> attempt + 1, last |-> to]
    /\ UNCHANGED result
RetryUpTo(to) == IF attempt < to THEN Resend(to) ELSE Fail

Go ==
    /\ phase = "ready"
    /\ phase' = "sent" /\ attempt' = attempt + 1
    /\ content' = <<>> /\ calls' = <<>> /\ finish' = "stop" /\ terminated' = FALSE
    /\ UNCHANGED <<api, unreached, server, shown, announced, cancelled, result>>

\* The attempts a dead address may spend: MaxUnreached of them in a row.
LastUnreached(n) == Min({MaxAttempts, attempt + MaxUnreached - n})

Unreachable ==
    /\ phase = "sent" /\ unreached' = unreached + 1
    /\ RetryUpTo(LastUnreached(unreached'))
    /\ UNCHANGED <<api, attempt, server, reply, shown, cancelled>>

\* Any other fault before a status line: a reset is resent, a redirect to
\* another server is not; silence is.
Fault ==
    /\ phase = "sent" /\ unreached' = 0
    /\ RetryUpTo(MaxAttempts) \/ Fail
    /\ UNCHANGED <<api, attempt, server, reply, shown, cancelled>>
SendSilence ==
    /\ phase = "sent" /\ unreached' = 0
    /\ RetryUpTo(MaxAttempts)
    /\ UNCHANGED <<api, attempt, server, reply, shown, cancelled>>

\* A refusal by status, or in a JSON body: retryable or not, with its quota
\* gone, or asking for a wait beyond RETRY_AFTER_CAP_SECS; or a body cut short.
Refused ==
    /\ phase = "sent" /\ unreached' = 0
    /\ RetryUpTo(MaxAttempts) \/ Fail
    /\ UNCHANGED <<api, attempt, server, reply, shown, cancelled>>

Answered ==
    /\ phase = "sent" /\ unreached' = 0 /\ phase' = "reading"
    /\ failed' = FALSE /\ asked' \in BOOLEAN
    /\ \E p \in Plans, cut \in BOOLEAN :
          /\ plan' = p /\ capped' = cut /\ (cut => p.calls # <<>>)
          /\ rest' \in ScriptsOf(api, p, cut)
    /\ UNCHANGED <<api, attempt, reply, shown, announced, cancelled, result>>

\* parse_complete_response: a JSON body in place of the stream is parsed at
\* once.  Its text is shown before its calls are found to be too many.
Labels(p) == [i \in 1..p.texts |-> <<attempt, i>>]
WholeReply ==
    /\ shown' = shown \o Labels(plan)
    /\ IF Len(plan.calls) > MaxCalls
       THEN Fail
       ELSE Over("ok", Labels(plan),
                 [i \in DOMAIN plan.calls |-> [Said(plan, capped)[i] EXCEPT !.id = <<"id", i>>]],
                 Ending(plan, capped))

-----------------------------------------------------------------------------
(* The stream.                                                             *)

\* The restart rules: nothing the caller keeps has streamed, and the budget
\* has an attempt left.
Restartable == content = <<>> /\ attempt < MaxAttempts

\* What a stream that ended comes to: why it is unfinished, and what it holds.
Ended(why, text, called, reason) ==
    CASE why = "interrupted" /\ Restartable -> Resend(MaxAttempts)
      [] why = "retryable" /\ Restartable /\ ~asked -> Resend(MaxAttempts)
      [] why \in {"retryable", "failed"} -> Fail
      [] OTHER -> Over("ok", text, called, reason)

\* A chat reply is what was read, unless it was announced as calls and has
\* neither calls nor text.  The other wires give calls only with a whole reply.
ChatEnds(why, reason) ==
    LET called == Finalized(calls)
        named == IF called # <<>> /\ reason = "stop" THEN "tool_calls" ELSE reason
    IN  IF called = <<>> /\ content = <<>> /\ named = "tool_calls" /\ why = "none"
        THEN Ended("failed", content, called, named)
        ELSE Ended(why, content, called, named)
Stops(why, reason) ==
    IF api = "chat" THEN ChatEnds(why, reason) ELSE Ended(why, content, <<>>, reason)

Read == phase = "reading" /\ rest # <<>>
Still == UNCHANGED <<api, attempt, unreached, plan, capped, asked, cancelled>>
Hears(k) == Read /\ Head(rest).k = k /\ rest' = Tail(rest) /\ Still /\ UNCHANGED failed
Onward == UNCHANGED <<phase, announced, result>>

Text ==
    /\ Hears("text") /\ Onward
    /\ content' = Append(content, <<attempt, Head(rest).n>>) /\ shown' = Append(shown, <<attempt, Head(rest).n>>)
    /\ UNCHANGED <<calls, finish, terminated>>

CallDelta ==
    /\ Hears("call")
    /\ IF Slot(calls, Head(rest)) = 0
       THEN ChatEnds("none", "truncated") /\ UNCHANGED <<reply, shown>>
       ELSE calls' = Assembled(calls, Head(rest)) /\ Onward /\ UNCHANGED <<content, finish, terminated, shown>>

\* finish_reason of a chat, stop_reason of a message.
FinishChunk ==
    /\ Hears("finish") /\ Onward
    /\ finish' = Head(rest).reason /\ terminated' = (api = "chat")
    /\ UNCHANGED <<content, calls, shown>>

ChatDone == Hears("done") /\ ChatEnds("none", finish) /\ UNCHANGED <<reply, shown>>
Whole == Hears("whole") /\ WholeReply /\ UNCHANGED reply

\* Finished items stay inert until the response completes.
Item ==
    /\ Hears("item") /\ Onward
    /\ calls' = Append(calls, [Opened(Null) EXCEPT !.id = <<"id", Head(rest).at>>,
                                   !.name = plan.calls[Head(rest).at].name, !.args = plan.calls[Head(rest).at].args])
    /\ UNCHANGED <<content, finish, terminated, shown>>
\* The completed event's own output is the reply; its text is shown now if
\* none of it was streamed.
Completed ==
    /\ Hears("completed")
    /\ IF Len(calls) > MaxCalls
       THEN Stops("failed", "truncated") /\ UNCHANGED shown
       ELSE /\ Over("ok", Labels(plan), Finalized(calls), Ending(plan, FALSE))
            /\ shown' = IF content = <<>> THEN shown \o Labels(plan) ELSE shown
    /\ UNCHANGED reply
Incomplete == Hears("incomplete") /\ Stops("none", "truncated") /\ UNCHANGED <<reply, shown>>

\* The blocks of a message: a call's arguments are parsed as its block closes.
BlockOpen ==
    /\ Hears("open") /\ Onward
    /\ calls' = Append(calls, [Opened(Null) EXCEPT !.id = <<"id", Head(rest).at>>, !.name = plan.calls[Head(rest).at].name])
    /\ UNCHANGED <<content, finish, terminated, shown>>
BlockPiece ==
    /\ Hears("piece") /\ Onward
    /\ calls' = [calls EXCEPT ![Len(calls)].args = @ \o Head(rest).args]
    /\ UNCHANGED <<content, finish, terminated, shown>>
BlockClose ==
    /\ Hears("close")
    /\ IF Complete(Last(calls).args) THEN Onward ELSE Stops("failed", "truncated")
    /\ UNCHANGED <<reply, shown>>
\* validate_blocks and complete: not too many calls, and calls exactly when the
\* stop reason says so.
MessageStop ==
    /\ Hears("stop")
    /\ IF Len(calls) <= MaxCalls /\ (finish = "tool_calls") = (calls # <<>>)
       THEN Over("ok", content, Finalized(calls), finish) ELSE Stops("failed", "truncated")
    /\ UNCHANGED <<reply, shown>>

\* The connection ends: cut short, failing, or silent for the idle interval.
\* After a chat server finished, the reply stands.
Cuts == IF terminated THEN Stops("none", finish) ELSE Stops("interrupted", "truncated")
Severed ==
    /\ phase = "reading" /\ Cuts
    /\ Still /\ UNCHANGED <<rest, failed, reply, shown>>
\* Mutant: only the first byte is waited for with a limit.
SilenceBeforeText ==
    /\ phase = "reading" /\ content = <<>> /\ Cuts
    /\ Still /\ UNCHANGED <<rest, failed, reply, shown>>
Silence ==
    /\ phase = "reading" /\ Cuts
    /\ Still /\ UNCHANGED <<rest, failed, reply, shown>>

\* A line that cannot be read is a chunk lost.
Garbled ==
    /\ Read /\ rest' = Tail(rest)
    /\ IF api = "messages" THEN Stops("failed", "truncated") ELSE Cuts
    /\ Still /\ UNCHANGED <<failed, reply, shown>>

\* The server fails inside the stream, or it ran past MAX_RESPONSE_BYTES.
ServerFailed ==
    /\ phase = "reading" /\ failed' = TRUE
    /\ \E why \in {"retryable", "failed"} : Stops(why, "truncated")
    /\ Still /\ UNCHANGED <<rest, reply, shown>>
TooLarge ==
    /\ phase = "reading" /\ Stops("none", "truncated")
    /\ Still /\ UNCHANGED <<rest, failed, reply, shown>>

-----------------------------------------------------------------------------
Wait ==
    /\ phase = "waiting" /\ phase' = "ready"
    /\ UNCHANGED <<api, attempt, unreached, server, reply, shown, announced, cancelled, result>>

Cancel ==
    /\ ~cancelled /\ phase # "over" /\ cancelled' = TRUE
    /\ UNCHANGED <<api, phase, attempt, unreached, server, reply, shown, announced, result>>

\* Every wait of the request also waits for the cancel.
CancelSeen ==
    /\ cancelled
    /\ \/ phase \in {"sent", "waiting"} /\ Interrupted
       \/ phase = "reading" /\ Stops("none", "cancelled")
    /\ UNCHANGED <<api, attempt, unreached, server, reply, shown, cancelled>>

Stopped == phase = "over" /\ UNCHANGED request

ClientNext ==
    \/ Go \/ Unreachable \/ Fault \/ SendSilence \/ Refused \/ Answered
    \/ Text \/ CallDelta \/ FinishChunk \/ ChatDone \/ Whole
    \/ Item \/ Completed \/ Incomplete \/ BlockOpen \/ BlockPiece \/ BlockClose \/ MessageStop
    \/ Severed \/ Silence \/ Garbled \/ ServerFailed \/ TooLarge
    \/ Wait \/ Cancel \/ CancelSeen \/ Stopped

\* The client's own timers and its loop; nothing is assumed of the server.
OwnSteps == Go \/ Wait \/ SendSilence \/ Silence

-----------------------------------------------------------------------------
(* Properties.                                                             *)

\* The caller is never shown a text twice, nor one of a reply it does not get:
\* once text of an attempt was shown no other attempt begins, and a reply
\* returned is exactly what was shown (client.rs:812).
ShownOnce ==
    /\ \A i \in DOMAIN shown : shown[i][1] = attempt
    /\ phase = "waiting" => shown = <<>>
    /\ result.how = "ok" /\ result.finish # "cancelled" => result.content = shown

\* A call the agent goes on to run is one the server sent whole, as it sent
\* it, and all of them are, each under an id of its own, however they were
\* marked and mixed; nothing runs of a reply that was cut, cancelled or failed
\* (client.rs:899, agent.rs:2100).  One exception, which the agent accepts
\* (agent.rs:2118): a call capped before its first argument has none.
ToRun == SelectSeq(result.calls, LAMBDA c : Complete(c.args))
EmptyCall(c) == [c EXCEPT !.args = <<"open", "close">>]
Meant ==
    IF capped THEN {Front(plan.calls), Append(Front(plan.calls), EmptyCall(Last(plan.calls)))} ELSE {plan.calls}
Bare(cs) == [i \in DOMAIN cs |-> [name |-> cs[i].name, args |-> cs[i].args]]

OnlyMeantCallsRun ==
    result.how = "ok" /\ result.finish \notin {"truncated", "cancelled"} =>
        /\ ~failed
        /\ Bare(ToRun) \in {Bare(cs) : cs \in Meant}
        /\ Cardinality({c.id : c \in ToSet(result.calls)}) = Len(result.calls)

\* What comes of a request is one reply as the server meant it, shown once
\* (client.rs:812, :899).
RepliesAreMeant == ClientTypeOK /\ ShownOnce /\ OnlyMeantCallsRun

=============================================================================
