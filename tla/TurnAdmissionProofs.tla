-------------------------- MODULE TurnAdmissionProofs --------------------------
(***************************************************************************)
(* What holds of the works of one openmax process for any sessions, works, *)
(* steers and requests: one work at a time on one transcript.              *)
(***************************************************************************)
EXTENDS TurnAdmission, SequenceTheorems, TLAPS

\* A work that has begun and is not over.
Active(w) == work[w].pc \notin {"new", "done"}

TurnPCs == {"gate", "resolve", "boundary", "judge", "request", "consult", "close"}
EarlyPCs == {"new", "gate", "hydrate", "build", "insert", "take", "resolve",
             "boundary", "judge", "request", "consult"}

\* What a work's place says of it: its kind, its requests and its queue.
PlaceOK(k) ==
    /\ k.kind = "none" <=> k.pc = "new"
    /\ k.kind # "none" => k.s \in Sessions
    /\ k.pc \in TurnPCs => k.kind = "turn"
    /\ k.pc = "prune" => k.kind = "compact"
    /\ k.pc = "commit" => k.kind # "reload"
    /\ k.pc \in EarlyPCs => k.iter < MaxIter
    /\ k.last => k.pc \in {"boundary", "judge", "ended", "done"} /\ k.iter + 1 < MaxIter
    /\ k.pc # "judge" => k.queue = <<>> /\ k.accepted = <<>>
PlaceInv == \A w \in Works : PlaceOK(work[w])

\* A session has one work at a time.
OneInv == \A v, w \in Works : Active(v) /\ Active(w) /\ work[v].s = work[w].s => v = w

\* A session is marked running, with the token of its work and a queue if that
\* is a turn, while a turn or a compaction is in it.
MarkInv ==
    /\ \A w \in Works : Live(w) => work[w].s \in running
    /\ \A s \in Sessions :
        /\ s \in running => token[s] \in Works /\ Live(token[s]) /\ work[token[s]].s = s
        /\ token[s] # None => s \in running
        /\ steers[s] # None <=> s \in running /\ work[token[s]].kind = "turn"

\* A session is claimed while a work is in it, and while it is loaded; one to
\* be let go of has a work that will.
ClaimInv ==
    /\ \A s \in Sessions :
        /\ s \in running \/ data[s] # None => owner[s] \in {"held", "detaching"}
        /\ owner[s] = "detaching" => s \in running
    /\ \A w \in Works : Active(w) /\ work[w].kind = "reload" => owner[work[w].s] = "held"

\* The transcript of s is out, under the guard g.
Out(s, g) ==
    /\ data[s] # None /\ data[s].text = <<>> /\ data[s].take = g.take
    /\ g.text # <<>> /\ IsPrefix(disk[s], g.text)

\* A guard's transcript is out, and the file is behind it; so it is without
\* the prompt that may be taken back.
GuardInv ==
    \A w \in Works : work[w].pc \in GuardPCs =>
        /\ Out(work[w].s, work[w]) /\ restoring[work[w].s] = None
        /\ work[w].pc = "resolve" => Front(work[w].text) # <<>> /\ IsPrefix(disk[work[w].s], Front(work[w].text))

\* What is restored is a transcript that is out, in a session that has not settled.
RestoringInv ==
    \A s \in Sessions : restoring[s] # None =>
        /\ Out(s, restoring[s])
        /\ \E w \in Works : Live(w) /\ work[w].s = s /\ work[w].pc = "ended"

\* A transcript that is out is in a guard or being restored; one that is in
\* is not behind the file, whether loaded or about to be.
RestInv ==
    /\ \A s \in Sessions : data[s] # None =>
        IF data[s].text = <<>>
          THEN restoring[s] # None \/ \E w \in Works : work[w].s = s /\ work[w].pc \in GuardPCs
          ELSE IsPrefix(disk[s], data[s].text)
    /\ \A w \in Works :
        /\ work[w].pc = "insert" => work[w].text # <<>> /\ IsPrefix(disk[work[w].s], work[w].text)
        /\ work[w].pc = "take" => data[work[w].s] # None

WorkRecs == [kind : {"none", "turn", "compact", "reload"}, s : Sessions \cup {None},
             pc : {"new", "ended", "done"} \cup InnerPCs, take : Nat, text : Texts,
             queue : Seq(Steers), accepted : Seq(Steers), last : BOOLEAN, iter : 0..MaxIter,
             why : Reasons]

\* The reports are a sequence, each of its kind.
Reports == [s : Sessions, kind : {"done"}, w : Works, x : Reasons]
           \cup [s : Sessions, kind : {"accepted", "blocked"}, w : Works, x : Steers]
           \cup [s : Sessions, kind : {"compacted", "error"}, w : Works, x : {None}]
ReportsInv == events \in Seq(Reports)

AdmissionInv ==
    /\ TypeOK /\ ReportsInv /\ PlaceInv /\ OneInv /\ MarkInv /\ ClaimInv
    /\ GuardInv /\ RestoringInv /\ RestInv

------------------------------------------------------------------------------
(* Sequences and prefixes *)

LEMMA PrefixSelf ==
    ASSUME NEW S, NEW a \in Seq(S)
    PROVE  IsPrefix(a, a)
BY DEF IsPrefix

LEMMA PrefixEmpty ==
    ASSUME NEW S, NEW a \in Seq(S)
    PROVE  IsPrefix(<<>>, a)
BY SubSeqEmpty, EmptySeq DEF IsPrefix

\* A prefix is element by element the sequence it begins.
LEMMA PrefixElements ==
    ASSUME NEW S, NEW a \in Seq(S), NEW b \in Seq(S)
    PROVE  IsPrefix(a, b) <=> Len(a) <= Len(b) /\ \A i \in 1..Len(a) : a[i] = b[i]
BY DEF IsPrefix

LEMMA PrefixConcat ==
    ASSUME NEW S, NEW a \in Seq(S), NEW b \in Seq(S), NEW c \in Seq(S), IsPrefix(a, b)
    PROVE  IsPrefix(a, b \o c) /\ (b # <<>> => b \o c # <<>>)
<1>1. /\ b \o c \in Seq(S) /\ Len(b \o c) = Len(b) + Len(c)
      /\ \A i \in 1..Len(b) : (b \o c)[i] = b[i]
  BY ConcatProperties
<1>2. Len(a) <= Len(b) /\ \A i \in 1..Len(a) : a[i] = b[i]
  BY PrefixElements
<1>3. Len(a) <= Len(b \o c) /\ \A i \in 1..Len(a) : a[i] = (b \o c)[i]
  BY <1>1, <1>2
<1>4. b # <<>> => b \o c # <<>>
  BY ConcatEmptySeq
<1>. QED  BY <1>1, <1>3, <1>4, PrefixElements

LEMMA PrefixAppend ==
    ASSUME NEW S, NEW a \in Seq(S), NEW b \in Seq(S), NEW x \in S, IsPrefix(a, b)
    PROVE  IsPrefix(a, Append(b, x)) /\ Append(b, x) # <<>>
<1>1. /\ Append(b, x) \in Seq(S) /\ Append(b, x) # <<>> /\ Len(Append(b, x)) = Len(b) + 1
      /\ \A i \in 1..Len(b) : Append(b, x)[i] = b[i]
  BY AppendProperties
<1>2. Len(a) <= Len(b) /\ \A i \in 1..Len(a) : a[i] = b[i]
  BY PrefixElements
<1>3. Len(a) <= Len(Append(b, x)) /\ \A i \in 1..Len(a) : a[i] = Append(b, x)[i]
  BY <1>1, <1>2
<1>. QED  BY <1>1, <1>3, PrefixElements

\* What is appended comes off again.
LEMMA FrontAppend ==
    ASSUME NEW S, NEW a \in Seq(S), NEW x \in S
    PROVE  Front(Append(a, x)) = a
<1>1. Append(a, x) \in Seq(S) /\ Len(Append(a, x)) = Len(a) + 1
  BY AppendProperties
<1>2. Front(Append(a, x)) = SubSeq(Append(a, x), 1, Len(a))
  BY <1>1 DEF Front
<1>. QED  BY <1>1, <1>2

LEMMA FrontInSeq ==
    ASSUME NEW S, NEW a \in Seq(S), a # <<>>
    PROVE  Front(a) \in Seq(S)
BY DEF Front

------------------------------------------------------------------------------
(* The parts of the invariant that only a work's own record can disturb *)

\* Work w alone takes a step, to a record of its type and place.
Moves(w) ==
    /\ work' \in [Works -> WorkRecs] /\ PlaceOK(work'[w])
    /\ \A v \in Works \ {w} : work'[v] = work[v]

\* And it stays what it is, in its session, under the session's mark and claim.
Keeps(w) ==
    /\ Moves(w) /\ Active(w) /\ Active(w)'
    /\ work'[w].kind = work[w].kind /\ work'[w].s = work[w].s
    /\ UNCHANGED <<running, token, owner>>
    /\ \A s \in Sessions : steers'[s] # None <=> steers[s] # None
    /\ \A s \in Sessions \ {work[w].s} : data'[s] # None <=> data[s] # None

LEMMA MovesPlace ==
    ASSUME PlaceInv, NEW w \in Works, Moves(w)
    PROVE  PlaceInv'
BY DEF PlaceInv, Moves

\* Where a work is its session is claimed.
LEMMA ActiveClaimed ==
    ASSUME TypeOK, PlaceInv, MarkInv, ClaimInv, NEW w \in Works, Active(w)
    PROVE  work[w].s \in Sessions /\ owner[work[w].s] \in {"held", "detaching"}
<1>1. work[w] \in WorkRecs
  BY DEF TypeOK, WorkRecs
<1>2. work[w].kind \in {"turn", "compact", "reload"} /\ work[w].s \in Sessions
  BY <1>1 DEF PlaceInv, PlaceOK, Active, WorkRecs
<1>3. CASE work[w].kind = "reload"
  BY <1>2, <1>3 DEF ClaimInv
<1>4. CASE work[w].kind # "reload"
  BY <1>2, <1>4 DEF ClaimInv, MarkInv, Live, Active
<1>. QED  BY <1>2, <1>3, <1>4

LEMMA KeepsClaims ==
    ASSUME TypeOK, PlaceInv, OneInv, MarkInv, ClaimInv, NEW w \in Works, Keeps(w)
    PROVE  OneInv' /\ MarkInv' /\ ClaimInv'
<1>1. \A v \in Works : /\ Active(v)' <=> Active(v)
                       /\ Live(v)' <=> Live(v)
                       /\ work'[v].s = work[v].s /\ work'[v].kind = work[v].kind
  BY DEF Keeps, Moves, Active, Live
<1>2. OneInv'
  BY <1>1 DEF OneInv
<1>3. MarkInv'
  BY <1>1 DEF MarkInv, Keeps
<1>4. ClaimInv'
  <2>1. \A s \in Sessions : s \in running \/ data'[s] # None => owner[s] \in {"held", "detaching"}
    BY ActiveClaimed DEF ClaimInv, Keeps
  <2>. QED  BY <1>1, <2>1 DEF ClaimInv, Keeps
<1>. QED  BY <1>2, <1>3, <1>4

\* Work w goes on with the transcript it has out.
StaysOut(w) ==
    LET s == work[w].s IN
    /\ Moves(w) /\ work'[w].s = s /\ work'[w].take = work[w].take
    /\ work[w].pc \in GuardPCs /\ work'[w].pc \in GuardPCs \ {"resolve"}
    /\ work'[w].text # <<>> /\ IsPrefix(disk'[s], work'[w].text)
    /\ UNCHANGED <<data, restoring>>
    /\ disk' \in [Sessions -> Texts] /\ \A t \in Sessions \ {s} : disk'[t] = disk[t]

\* Work w begins, goes on or is over without one.
StaysIn(w) ==
    LET s == work'[w].s IN
    /\ Moves(w) /\ work[w].pc \notin GuardPCs /\ work'[w].pc \notin GuardPCs
    /\ Live(w) => work[w].pc # "ended"
    /\ work'[w].pc = "insert" => work'[w].text # <<>> /\ IsPrefix(disk[s], work'[w].text)
    /\ work'[w].pc = "take" => data[s] # None
    /\ UNCHANGED <<data, restoring, disk>>

\* A work is in a session of its own.
LEMMA WorkInSession ==
    ASSUME TypeOK, PlaceInv, OneInv, NEW w \in Works, Active(w)
    PROVE  /\ work[w] \in WorkRecs /\ work[w].s \in Sessions /\ work[w].kind # "none"
           /\ \A v \in Works \ {w} : work[v].s = work[w].s => ~Active(v)
BY DEF TypeOK, PlaceInv, PlaceOK, OneInv, Active, WorkRecs

LEMMA OutKeepsTranscripts ==
    ASSUME TypeOK, PlaceInv, OneInv, GuardInv, RestoringInv, RestInv, NEW w \in Works, StaysOut(w)
    PROVE  GuardInv' /\ RestoringInv' /\ RestInv'
<1>. DEFINE s == work[w].s
<1>1. Active(w)
  BY DEF StaysOut, Active, GuardPCs
<1>2. /\ s \in Sessions /\ restoring[s] = None /\ Out(s, work[w])
      /\ \A v \in Works \ {w} : Active(v) => work[v].s # s
  BY <1>1, WorkInSession DEF StaysOut, GuardInv
<1>3. \A v \in Works \ {w} : Active(v) => work[v].s \in Sessions \ {s}
  BY <1>2, WorkInSession
<1>4. \A v \in Works : work[v].pc \in GuardPCs \cup {"insert", "take"} => Active(v)
  BY DEF Active, GuardPCs
<1>5. GuardInv'
  <2>. SUFFICES ASSUME NEW v \in Works, (work[v].pc \in GuardPCs)'
                PROVE  (/\ Out(work[v].s, work[v]) /\ restoring[work[v].s] = None
                        /\ work[v].pc = "resolve" => Front(work[v].text) # <<>> /\ IsPrefix(disk[work[v].s], Front(work[v].text)))'
    BY DEF GuardInv
  <2>1. CASE v = w
    BY <1>2, <2>1 DEF StaysOut, Out
  <2>2. CASE v # w
    <3>1. work'[v] = work[v] /\ disk'[work[v].s] = disk[work[v].s]
      BY <1>3, <1>4, <2>2 DEF StaysOut, Moves
    <3>. QED  BY <2>2, <3>1 DEF StaysOut, GuardInv, Out
  <2>. QED  BY <2>1, <2>2
<1>6. RestoringInv'
  <2>. SUFFICES ASSUME NEW t \in Sessions, restoring[t] # None
                PROVE  (Out(t, restoring[t]) /\ \E v \in Works : Live(v) /\ work[v].s = t /\ work[v].pc = "ended")'
    BY DEF RestoringInv, StaysOut
  <2>1. t # s
    BY <1>2
  <2>2. PICK v \in Works : Live(v) /\ work[v].s = t /\ work[v].pc = "ended"
    BY DEF RestoringInv
  <2>3. work'[v] = work[v]
    BY <2>1, <2>2 DEF StaysOut, Moves
  <2>4. Out(t, restoring[t])'
    BY <2>1 DEF RestoringInv, StaysOut, Out
  <2>. QED  BY <2>2, <2>3, <2>4 DEF Live
<1>7. RestInv'
  <2>1. ASSUME NEW t \in Sessions, data[t] # None
        PROVE  (IF data[t].text = <<>>
                  THEN restoring[t] # None \/ \E v \in Works : work[v].s = t /\ work[v].pc \in GuardPCs
                  ELSE IsPrefix(disk[t], data[t].text))'
    <3>1. CASE t = s
      BY <1>2, <3>1 DEF StaysOut, Out
    <3>2. CASE t # s
      <4>1. \A v \in Works : work[v].s = t => work'[v] = work[v]
        BY <3>2 DEF StaysOut, Moves
      <4>. QED  BY <2>1, <3>2, <4>1 DEF RestInv, StaysOut
    <3>. QED  BY <3>1, <3>2
  <2>2. ASSUME NEW v \in Works
        PROVE  (/\ work[v].pc = "insert" => work[v].text # <<>> /\ IsPrefix(disk[work[v].s], work[v].text)
                /\ work[v].pc = "take" => data[work[v].s] # None)'
    <3>1. CASE v = w
      BY <3>1 DEF StaysOut, GuardPCs
    <3>2. CASE v # w
      <4>1. work'[v] = work[v] /\ (work[v].pc \in {"insert", "take"} => disk'[work[v].s] = disk[work[v].s])
        BY <1>3, <1>4, <3>2 DEF StaysOut, Moves
      <4>. QED  BY <4>1 DEF StaysOut, RestInv
    <3>. QED  BY <3>1, <3>2
  <2>. QED  BY <2>1, <2>2 DEF RestInv, StaysOut
<1>. QED  BY <1>5, <1>6, <1>7

LEMMA InKeepsTranscripts ==
    ASSUME TypeOK, PlaceInv, OneInv, GuardInv, RestoringInv, RestInv, NEW w \in Works, StaysIn(w)
    PROVE  GuardInv' /\ RestoringInv' /\ RestInv'
<1>1. \A v \in Works : work[v].pc \in GuardPCs => v # w /\ work'[v] = work[v]
  BY DEF StaysIn, Moves
<1>2. \A v \in Works : work'[v].pc \in GuardPCs => v # w /\ work'[v] = work[v]
  BY DEF StaysIn, Moves
<1>3. GuardInv'
  BY <1>2 DEF GuardInv, StaysIn, Out
<1>4. RestoringInv'
  <2>1. \A v \in Works : Live(v) /\ work[v].pc = "ended" => work'[v] = work[v]
    BY DEF StaysIn, Moves
  <2>. QED  BY <2>1 DEF RestoringInv, StaysIn, Out, Live
<1>5. RestInv'
  <2>1. ASSUME NEW v \in Works
        PROVE  (/\ work[v].pc = "insert" => work[v].text # <<>> /\ IsPrefix(disk[work[v].s], work[v].text)
                /\ work[v].pc = "take" => data[work[v].s] # None)'
    BY DEF StaysIn, Moves, RestInv
  <2>2. \A t \in Sessions : (data[t] # None =>
          IF data[t].text = <<>>
            THEN restoring[t] # None \/ \E v \in Works : work[v].s = t /\ work[v].pc \in GuardPCs
            ELSE IsPrefix(disk[t], data[t].text))'
    BY <1>1 DEF StaysIn, RestInv
  <2>. QED  BY <2>1, <2>2 DEF RestInv
<1>. QED  BY <1>3, <1>4, <1>5

------------------------------------------------------------------------------
(* The steps of the inner task *)

USE ConstantsAssumption

\* The record a work steps to is the rest of the proof that it moves.
LEMMA PutMoves ==
    ASSUME TypeOK, NEW w \in Works, NEW r \in WorkRecs, PlaceOK(r), work' = [work EXCEPT ![w] = r]
    PROVE  Moves(w) /\ work'[w] = r
<1>1. work \in [Works -> WorkRecs]
  BY DEF TypeOK, WorkRecs
<1>. QED  BY <1>1 DEF Moves

LEMMA WorkTyped ==
    ASSUME AdmissionInv, NEW w \in Works
    PROVE  work[w] \in WorkRecs /\ PlaceOK(work[w])
BY DEF AdmissionInv, TypeOK, PlaceInv, WorkRecs

\* A step that only changes a work's place, and perhaps why it ends.
LEMMA GoesMoves ==
    ASSUME AdmissionInv, NEW w \in Works, NEW l \in {"ended", "done"} \cup InnerPCs,
           Goto(w, l) \/ GotoFor(w, l, Reasons), PlaceOK([work[w] EXCEPT !.pc = l])
    PROVE  /\ Moves(w) /\ work'[w].pc = l /\ work'[w].kind = work[w].kind /\ work'[w].s = work[w].s
           /\ work'[w].take = work[w].take /\ work'[w].text = work[w].text
<1>. DEFINE k == work[w]
<1>1. k \in WorkRecs /\ PlaceOK([k EXCEPT !.pc = l])
  BY WorkTyped
<1>2. \/ work' = [work EXCEPT ![w] = [k EXCEPT !.pc = l]]
      \/ \E why \in Reasons : work' = [work EXCEPT ![w] = [k EXCEPT !.pc = l, !.why = why]]
  BY DEF Goto, GotoFor
<1>. HIDE DEF k
<1>3. ASSUME NEW r \in WorkRecs, PlaceOK(r), work' = [work EXCEPT ![w] = r],
             r.pc = l /\ r.kind = k.kind /\ r.s = k.s /\ r.take = k.take /\ r.text = k.text
      PROVE  /\ Moves(w) /\ work'[w].pc = l /\ work'[w].kind = k.kind /\ work'[w].s = k.s
             /\ work'[w].take = k.take /\ work'[w].text = k.text
  BY <1>3, PutMoves DEF AdmissionInv
<1>4. CASE work' = [work EXCEPT ![w] = [k EXCEPT !.pc = l]]
  <2>1. [k EXCEPT !.pc = l] \in WorkRecs
    BY <1>1 DEF WorkRecs
  <2>2. LET r == [k EXCEPT !.pc = l] IN
        r.pc = l /\ r.kind = k.kind /\ r.s = k.s /\ r.take = k.take /\ r.text = k.text
    BY <1>1 DEF WorkRecs
  <2>. QED  BY <1>1, <1>3, <1>4, <2>1, <2>2 DEF k
<1>5. ASSUME NEW why \in Reasons, work' = [work EXCEPT ![w] = [k EXCEPT !.pc = l, !.why = why]]
      PROVE  /\ Moves(w) /\ work'[w].pc = l /\ work'[w].kind = k.kind /\ work'[w].s = k.s
             /\ work'[w].take = k.take /\ work'[w].text = k.text
  <2>1. [k EXCEPT !.pc = l, !.why = why] \in WorkRecs
    BY <1>1 DEF WorkRecs
  <2>2. LET r == [k EXCEPT !.pc = l, !.why = why] IN
        r.pc = l /\ r.kind = k.kind /\ r.s = k.s /\ r.take = k.take /\ r.text = k.text
    BY <1>1 DEF WorkRecs
  <2>3. PlaceOK([k EXCEPT !.pc = l, !.why = why])
    BY <1>1 DEF WorkRecs, PlaceOK
  <2>. QED  BY <1>3, <1>5, <2>1, <2>2, <2>3
<1>. QED  BY <1>2, <1>4, <1>5 DEF k

\* What is left of a step of w that keeps the session's mark and claim.
LEMMA WorkKeeps ==
    ASSUME AdmissionInv, NEW w \in Works, Keeps(w), TypeOK', ReportsInv', GuardInv', RestoringInv', RestInv'
    PROVE  AdmissionInv'
BY KeepsClaims, MovesPlace DEF AdmissionInv, Keeps

\* The types of what the steps read.
LEMMA Typed ==
    ASSUME AdmissionInv
    PROVE  /\ data \in [Sessions -> Entries \cup {None}]
           /\ restoring \in [Sessions -> Entries \cup {None}]
           /\ disk \in [Sessions -> Texts]
           /\ steers \in [Sessions -> Seq(Steers) \cup {None}]
           /\ owner \in [Sessions -> {"free", "held", "detaching", "foreign"}]
           /\ \A w \in Works : work[w].text \in Texts /\ work[w].take \in Nat
           /\ takes \in Nat
<1>1. \A w \in Works : work[w] \in WorkRecs
  BY WorkTyped
<1>2. \A w \in Works : work[w].text \in Texts /\ work[w].take \in Nat
  BY <1>1 DEF WorkRecs
<1>. QED  BY <1>2 DEF AdmissionInv, TypeOK

LEMMA EmptyText == <<>> \in Texts /\ None \notin Entries
BY DEF Texts

LEMMA GateKeeps ==
    ASSUME AdmissionInv, NEW w \in Works, Gate(w)
    PROVE  AdmissionInv'
<1>1. work[w] \in WorkRecs /\ PlaceOK(work[w]) /\ work[w].pc = "gate"
  BY WorkTyped DEF Gate
<1>2. \E l \in {"hydrate", "ended"} : Goto(w, l) \/ GotoFor(w, l, Reasons)
  BY DEF Gate, GotoFor, Cut, Reasons
<1>3. \A l \in {"hydrate", "ended"} : PlaceOK([work[w] EXCEPT !.pc = l])
  BY <1>1 DEF WorkRecs, PlaceOK, EarlyPCs, TurnPCs
<1>4. /\ Moves(w) /\ work'[w].kind = work[w].kind /\ work'[w].s = work[w].s
      /\ work'[w].pc \in {"hydrate", "ended"}
  BY <1>2, <1>3, GoesMoves DEF InnerPCs
<1>5. TypeOK' /\ ReportsInv'
  BY <1>4 DEF AdmissionInv, TypeOK, ReportsInv, Gate, Moves, WorkRecs
<1>6. Keeps(w)
  BY <1>1, <1>4 DEF Keeps, Active, Gate
<1>7. StaysIn(w)
  BY <1>1, <1>4 DEF StaysIn, Active, Gate, GuardPCs
<1>. QED  BY <1>5, <1>6, <1>7, WorkKeeps, InKeepsTranscripts DEF AdmissionInv

LEMMA HydrateKeeps ==
    ASSUME AdmissionInv, NEW w \in Works, Hydrate(w)
    PROVE  AdmissionInv'
<1>1. work[w] \in WorkRecs /\ PlaceOK(work[w]) /\ work[w].pc = "hydrate"
  BY WorkTyped DEF Hydrate
<1>2. \E l \in {"build", "take"} : Goto(w, l) /\ (l = "take" => data[work[w].s] # None)
  BY DEF Hydrate
<1>3. \A l \in {"build", "take"} : PlaceOK([work[w] EXCEPT !.pc = l])
  BY <1>1 DEF WorkRecs, PlaceOK, EarlyPCs, TurnPCs
<1>4. /\ Moves(w) /\ work'[w].kind = work[w].kind /\ work'[w].s = work[w].s
      /\ work'[w].pc \in {"build", "take"} /\ (work'[w].pc = "take" => data[work[w].s] # None)
  BY <1>2, <1>3, GoesMoves DEF InnerPCs
<1>5. TypeOK' /\ ReportsInv'
  BY <1>4 DEF AdmissionInv, TypeOK, ReportsInv, Hydrate, Moves, WorkRecs
<1>6. Keeps(w)
  BY <1>1, <1>4 DEF Keeps, Active, Hydrate
<1>7. StaysIn(w)
  BY <1>1, <1>4 DEF StaysIn, Active, Live, Hydrate, GuardPCs
<1>. QED  BY <1>5, <1>6, <1>7, WorkKeeps, InKeepsTranscripts DEF AdmissionInv

LEMMA BuildKeeps ==
    ASSUME AdmissionInv, NEW w \in Works, Build(w)
    PROVE  AdmissionInv'
<1>. DEFINE s == work[w].s
            text == IF disk[s] = <<>> THEN <<System>> ELSE disk[s]
<1>1. work[w] \in WorkRecs /\ PlaceOK(work[w]) /\ work[w].pc = "build" /\ Active(w)
  BY WorkTyped DEF Build, Active
<1>2. s \in Sessions /\ owner[s] \in {"held", "detaching"}
  BY <1>1, ActiveClaimed DEF AdmissionInv
<1>3. owner' = owner
  BY <1>2 DEF Build, Owned, AdmissionInv, TypeOK
<1>4. text \in Texts /\ text # <<>> /\ IsPrefix(disk[s], text)
  <2>1. disk[s] \in Texts /\ <<System>> \in Texts /\ <<System>> # <<>>
    BY <1>2 DEF AdmissionInv, TypeOK, Texts
  <2>. QED  BY <2>1, PrefixSelf, PrefixEmpty DEF Texts
<1>5. /\ Moves(w) /\ work'[w].kind = work[w].kind /\ work'[w].s = s
      /\ \/ work'[w].pc = "insert" /\ work'[w].text = text
         \/ work'[w].pc = "ended"
  <2>1. CASE GotoFor(w, "ended", {"error"})
    <3>1. PlaceOK([work[w] EXCEPT !.pc = "ended"])
      BY <1>1 DEF WorkRecs, PlaceOK, EarlyPCs, TurnPCs
    <3>2. GotoFor(w, "ended", Reasons)
      BY <2>1 DEF GotoFor, Reasons
    <3>. QED  BY <3>1, <3>2, GoesMoves
  <2>2. CASE work' = [work EXCEPT ![w].pc = "insert", ![w].text = text]
    <3>. DEFINE k == work[w]
                r == [k EXCEPT !.pc = "insert", !.text = text]
    <3>1. k \in WorkRecs /\ PlaceOK(k) /\ k.pc = "build" /\ work' = [work EXCEPT ![w] = r]
      BY <1>1, <2>2
    <3>. HIDE DEF k, text
    <3>2. r \in WorkRecs /\ r.pc = "insert" /\ r.text = text /\ r.kind = k.kind /\ r.s = k.s
      BY <1>4, <3>1 DEF WorkRecs, InnerPCs
    <3>3. PlaceOK(r)
      BY <1>4, <3>1 DEF WorkRecs, PlaceOK, EarlyPCs, TurnPCs
    <3>. HIDE DEF r
    <3>. QED  BY <3>1, <3>2, <3>3, PutMoves DEF AdmissionInv, k
  <2>. QED  BY <2>1, <2>2 DEF Build
<1>6. TypeOK' /\ ReportsInv'
  BY <1>3, <1>5 DEF AdmissionInv, TypeOK, ReportsInv, Build, Moves, WorkRecs
<1>7. Keeps(w)
  BY <1>1, <1>3, <1>5 DEF Keeps, Active, Build
<1>8. StaysIn(w)
  BY <1>1, <1>4, <1>5 DEF StaysIn, Active, Live, Build, GuardPCs
<1>. QED  BY <1>6, <1>7, <1>8, WorkKeeps, InKeepsTranscripts DEF AdmissionInv

LEMMA InsertKeeps ==
    ASSUME AdmissionInv, NEW w \in Works, Insert(w)
    PROVE  AdmissionInv'
<1>. DEFINE s == work[w].s
<1>1. work[w] \in WorkRecs /\ PlaceOK(work[w]) /\ work[w].pc = "insert" /\ Active(w) /\ s \in Sessions
  BY WorkTyped, ActiveClaimed DEF Insert, Active, AdmissionInv
<1>2. Moves(w) /\ work'[w].kind = work[w].kind /\ work'[w].s = s /\ work'[w].pc = "take"
  <2>. DEFINE k == work[w]
              r == [k EXCEPT !.pc = "take", !.text = <<>>]
  <2>1. k \in WorkRecs /\ PlaceOK(k) /\ k.pc = "insert" /\ work' = [work EXCEPT ![w] = r]
    BY <1>1 DEF Insert
  <2>. HIDE DEF k
  <2>2. r \in WorkRecs /\ r.pc = "take" /\ r.kind = k.kind /\ r.s = k.s
    BY <2>1, EmptyText DEF WorkRecs, InnerPCs
  <2>3. PlaceOK(r)
    BY <2>1 DEF WorkRecs, PlaceOK, EarlyPCs, TurnPCs
  <2>. HIDE DEF r
  <2>. QED  BY <2>1, <2>2, <2>3, PutMoves DEF AdmissionInv, k
<1>3. /\ data' \in [Sessions -> Entries \cup {None}]
      /\ \A t \in Sessions : data[t] # None => data'[t] = data[t]
      /\ \A t \in Sessions \ {s} : data'[t] = data[t]
      /\ data[s] = None => data'[s].text = work[w].text
      /\ data'[s] # None
  <2>. DEFINE e == [take |-> 0, text |-> work[w].text]
  <2>1. data \in [Sessions -> Entries \cup {None}] /\ work[w].text \in Texts
    BY Typed
  <2>2. e \in Entries /\ e # None /\ e.text = work[w].text
    <3>1. e \in Entries
      BY <2>1 DEF Entries
    <3>. QED  BY <3>1, EmptyText
  <2>3. data' = [data EXCEPT ![s] = IF data[s] = None THEN e ELSE data[s]]
    BY DEF Insert
  <2>. HIDE DEF e
  <2>. QED  BY <1>1, <2>1, <2>2, <2>3
<1>4. TypeOK' /\ ReportsInv'
  BY <1>2, <1>3 DEF AdmissionInv, TypeOK, ReportsInv, Insert, Moves, WorkRecs
<1>5. Keeps(w)
  BY <1>1, <1>2, <1>3 DEF Keeps, Active, Insert
<1>6. GuardInv'
  BY <1>2, <1>3, WorkInSession DEF AdmissionInv, GuardInv, Insert, Out, Moves, GuardPCs, Active
<1>7. RestoringInv'
  BY <1>2, <1>3 DEF AdmissionInv, RestoringInv, Insert, Out, Moves, Live
<1>8. RestInv'
  <2>1. ASSUME NEW t \in Sessions, data'[t] # None
        PROVE  (IF data[t].text = <<>>
                  THEN restoring[t] # None \/ \E v \in Works : work[v].s = t /\ work[v].pc \in GuardPCs
                  ELSE IsPrefix(disk[t], data[t].text))'
    <3>1. CASE data[t] = None
      <4>1. t = s /\ work[w].text # <<>> /\ IsPrefix(disk[s], work[w].text)
        BY <1>1, <1>3, <2>1, <3>1 DEF AdmissionInv, RestInv
      <4>. QED  BY <1>3, <3>1, <4>1 DEF Insert
    <3>2. CASE data[t] # None
      <4>1. \A v \in Works : work[v].pc \in GuardPCs => work'[v] = work[v]
        BY <1>1, <1>2 DEF Moves, GuardPCs
      <4>2. data'[t] = data[t] /\ restoring' = restoring /\ disk' = disk
        BY <1>3, <3>2 DEF Insert
      <4>3. IF data[t].text = <<>>
              THEN restoring[t] # None \/ \E v \in Works : work[v].s = t /\ work[v].pc \in GuardPCs
              ELSE IsPrefix(disk[t], data[t].text)
        BY <3>2 DEF AdmissionInv, RestInv
      <4>. QED  BY <4>1, <4>2, <4>3
    <3>. QED  BY <3>1, <3>2
  <2>2. ASSUME NEW v \in Works
        PROVE  (/\ work[v].pc = "insert" => work[v].text # <<>> /\ IsPrefix(disk[work[v].s], work[v].text)
                /\ work[v].pc = "take" => data[work[v].s] # None)'
    BY <1>1, <1>2, <1>3, WorkInSession DEF AdmissionInv, RestInv, Insert, Moves, Active
  <2>. QED  BY <2>1, <2>2 DEF RestInv
<1>. QED  BY <1>4, <1>5, <1>6, <1>7, <1>8, WorkKeeps

\* A work about to take its session's transcript finds it, at rest.
LEMMA FoundAtTake ==
    ASSUME AdmissionInv, NEW w \in Works, work[w].pc = "take"
    PROVE  LET s == work[w].s IN
           /\ s \in Sessions /\ data[s] \in Entries /\ restoring[s] = None
           /\ data[s].text # <<>> /\ IsPrefix(disk[s], data[s].text)
<1>. DEFINE s == work[w].s
<1>1. Active(w)
  BY DEF Active
<1>2. s \in Sessions /\ \A v \in Works : Active(v) /\ work[v].s = s => v = w
  BY <1>1, WorkInSession DEF AdmissionInv
<1>3. data[s] # None /\ data[s] \in Entries
  BY <1>2, Typed DEF AdmissionInv, RestInv
<1>4. restoring[s] = None
  BY <1>2 DEF AdmissionInv, RestoringInv, Live, Active
<1>5. \A v \in Works : ~(work[v].s = s /\ work[v].pc \in GuardPCs)
  BY <1>2 DEF Active, GuardPCs
<1>. QED  BY <1>2, <1>3, <1>4, <1>5 DEF AdmissionInv, RestInv

LEMMA TakeKeeps ==
    ASSUME AdmissionInv, NEW w \in Works, Take(w)
    PROVE  AdmissionInv'
<1>. DEFINE s == work[w].s
<1>1. work[w] \in WorkRecs /\ PlaceOK(work[w]) /\ work[w].pc = "take" /\ Active(w)
  BY WorkTyped DEF Take, Active
<1>2. /\ s \in Sessions /\ data[s] \in Entries /\ restoring[s] = None
      /\ data[s].text # <<>> /\ IsPrefix(disk[s], data[s].text)
  BY <1>1, FoundAtTake
<1>3. CASE GotoFor(w, "ended", {"error"}) /\ UNCHANGED <<data, takes>>
  <2>1. PlaceOK([work[w] EXCEPT !.pc = "ended"])
    BY <1>1 DEF WorkRecs, PlaceOK, EarlyPCs, TurnPCs
  <2>2. GotoFor(w, "ended", Reasons)
    BY <1>3 DEF GotoFor, Reasons
  <2>3. Moves(w) /\ work'[w].kind = work[w].kind /\ work'[w].s = work[w].s /\ work'[w].pc = "ended"
    BY <2>1, <2>2, GoesMoves
  <2>4. TypeOK' /\ ReportsInv'
    BY <1>3, <2>3 DEF AdmissionInv, TypeOK, ReportsInv, Take, Moves, WorkRecs
  <2>5. Keeps(w)
    BY <1>1, <1>3, <2>3 DEF Keeps, Active, Take
  <2>6. StaysIn(w)
    BY <1>1, <1>3, <2>3 DEF StaysIn, Active, Live, Take, GuardPCs
  <2>. QED  BY <2>4, <2>5, <2>6, WorkKeeps, InKeepsTranscripts DEF AdmissionInv
<1>4. CASE /\ work[w].kind \in {"turn", "compact"}
           /\ takes' = takes + 1
           /\ data' = [data EXCEPT ![s] = [take |-> takes + 1, text |-> <<>>]]
           /\ work' = [work EXCEPT ![w].take = takes + 1, ![w].text = Taken(w),
                        ![w].pc = IF work[w].kind = "turn" THEN "resolve" ELSE "prune"]
  <2>. DEFINE text == Taken(w)
              pc == IF work[w].kind = "turn" THEN "resolve" ELSE "prune"
  <2>1. /\ text \in Texts /\ text # <<>> /\ IsPrefix(disk[s], text)
        /\ work[w].kind = "turn" => Front(text) # <<>> /\ IsPrefix(disk[s], Front(text))
    <3>1. data[s].text \in Texts /\ disk[s] \in Texts /\ w \in Works \cup Steers \cup {System, Foreign}
      BY <1>2, Typed DEF Entries
    <3>2. CASE work[w].kind = "turn"
      <4>1. text = Append(data[s].text, w)
        BY <3>2 DEF Taken
      <4>2. Front(text) = data[s].text
        BY <3>1, <4>1, FrontAppend DEF Texts
      <4>3. text \in Texts /\ text # <<>> /\ IsPrefix(disk[s], text)
        BY <1>2, <3>1, <4>1, PrefixAppend, AppendProperties DEF Texts
      <4>. QED  BY <1>2, <4>2, <4>3
    <3>3. CASE work[w].kind # "turn"
      BY <1>2, <3>1, <3>3 DEF Taken
    <3>. QED  BY <3>2, <3>3
  <2>2. /\ Moves(w) /\ work'[w].kind = work[w].kind /\ work'[w].s = s /\ work'[w].pc = pc
        /\ work'[w].take = takes + 1 /\ work'[w].text = text
    <3>. DEFINE k == work[w]
                r == [k EXCEPT !.take = takes + 1, !.text = text, !.pc = pc]
    <3>1. k \in WorkRecs /\ PlaceOK(k) /\ k.pc = "take" /\ k.kind \in {"turn", "compact"}
          /\ work' = [work EXCEPT ![w] = r] /\ takes \in Nat /\ text \in Texts
          /\ pc \in {"resolve", "prune"} /\ (pc = "resolve" <=> k.kind = "turn")
      BY <1>1, <1>4, <2>1, Typed
    <3>. HIDE DEF k, text, pc
    <3>2. r.pc = pc /\ r.text = text /\ r.kind = k.kind /\ r.s = k.s /\ r.take = takes + 1
      BY <3>1 DEF WorkRecs
    <3>4. pc \in {"new", "ended", "done"} \cup InnerPCs /\ takes + 1 \in Nat
      BY <3>1 DEF InnerPCs, GuardPCs
    <3>5. r \in WorkRecs
      BY <3>1, <3>4 DEF WorkRecs
    <3>3. PlaceOK(r)
      BY <3>1, <3>2 DEF WorkRecs, PlaceOK, EarlyPCs, TurnPCs
    <3>. HIDE DEF r
    <3>. QED  BY <3>1, <3>2, <3>3, <3>5, PutMoves DEF AdmissionInv, k
  <2>. HIDE DEF text
  <2>3. /\ data' \in [Sessions -> Entries \cup {None}]
        /\ data'[s] = [take |-> takes + 1, text |-> <<>>] /\ data'[s] # None
        /\ \A t \in Sessions \ {s} : data'[t] = data[t]
    <3>. DEFINE e == [take |-> takes + 1, text |-> <<>>]
    <3>1. e \in Entries /\ e # None
      BY EmptyText, Typed DEF Entries
    <3>2. data' = [data EXCEPT ![s] = e]
      BY <1>4
    <3>. HIDE DEF e
    <3>3. data' \in [Sessions -> Entries \cup {None}] /\ data'[s] = e /\ \A t \in Sessions \ {s} : data'[t] = data[t]
      BY <1>2, <3>1, <3>2, Typed
    <3>. QED  BY <3>1, <3>3 DEF e
  <2>4. TypeOK' /\ ReportsInv'
    BY <1>4, <2>2, <2>3 DEF AdmissionInv, TypeOK, ReportsInv, Take, Moves, WorkRecs
  <2>5. Keeps(w)
    BY <1>1, <2>2, <2>3 DEF Keeps, Active, Take
  <2>6. \A v \in Works \ {w} : Active(v) => work[v].s \in Sessions \ {s}
    BY <1>1, WorkInSession DEF AdmissionInv
  <2>7. \A v \in Works : work[v].pc \in GuardPCs \cup {"insert", "take"} => Active(v)
    BY DEF Active, GuardPCs
  <2>8. UNCHANGED <<restoring, disk>>
    BY DEF Take
  <2>9. GuardInv'
    <3>. SUFFICES ASSUME NEW v \in Works, (work[v].pc \in GuardPCs)'
                  PROVE  (/\ Out(work[v].s, work[v]) /\ restoring[work[v].s] = None
                          /\ work[v].pc = "resolve" => Front(work[v].text) # <<>> /\ IsPrefix(disk[work[v].s], Front(work[v].text)))'
      BY DEF GuardInv
    <3>1. CASE v = w
      <4>1. work'[v].s = s /\ work'[v].text = text /\ work'[v].take = takes + 1
            /\ (work'[v].pc = "resolve" => work[w].kind = "turn")
        BY <2>2, <3>1
      <4>2. data'[s].text = <<>> /\ data'[s].take = takes + 1 /\ data'[s] # None
        BY <2>3
      <4>3. Out(work[v].s, work[v])'
        BY <2>1, <2>8, <4>1, <4>2 DEF Out
      <4>. QED  BY <1>2, <2>1, <2>8, <4>1, <4>3
    <3>2. CASE v # w
      <4>1. work'[v] = work[v] /\ work[v].s \in Sessions \ {s}
        BY <2>2, <2>6, <2>7, <3>2 DEF Moves
      <4>. QED  BY <2>3, <2>8, <4>1 DEF AdmissionInv, GuardInv, Out
    <3>. QED  BY <3>1, <3>2
  <2>10. RestoringInv'
    BY <1>1, <1>2, <2>2, <2>3, <2>8 DEF AdmissionInv, RestoringInv, Moves, Live, Out
  <2>11. RestInv'
    <3>1. ASSUME NEW t \in Sessions, data'[t] # None
          PROVE  (IF data[t].text = <<>>
                    THEN restoring[t] # None \/ \E v \in Works : work[v].s = t /\ work[v].pc \in GuardPCs
                    ELSE IsPrefix(disk[t], data[t].text))'
      <4>1. CASE t = s
        BY <2>2, <2>3, <4>1 DEF GuardPCs
      <4>2. CASE t # s
        <5>1. data'[t] = data[t] /\ \A v \in Works : work[v].s = t => work'[v] = work[v]
          BY <2>2, <2>3, <4>2 DEF Moves
        <5>2. IF data[t].text = <<>>
                THEN restoring[t] # None \/ \E v \in Works : work[v].s = t /\ work[v].pc \in GuardPCs
                ELSE IsPrefix(disk[t], data[t].text)
          BY <3>1, <5>1 DEF AdmissionInv, RestInv
        <5>. QED  BY <2>8, <5>1, <5>2
      <4>. QED  BY <4>1, <4>2
    <3>2. ASSUME NEW v \in Works
          PROVE  (/\ work[v].pc = "insert" => work[v].text # <<>> /\ IsPrefix(disk[work[v].s], work[v].text)
                  /\ work[v].pc = "take" => data[work[v].s] # None)'
      <4>1. CASE v = w
        BY <2>2, <4>1
      <4>2. CASE v # w
        <5>1. work'[v] = work[v]
          BY <2>2, <4>2 DEF Moves
        <5>. QED  BY <2>3, <2>6, <2>7, <2>8, <4>2, <5>1 DEF AdmissionInv, RestInv
      <4>. QED  BY <4>1, <4>2
    <3>. QED  BY <3>1, <3>2 DEF RestInv
  <2>. QED  BY <2>4, <2>5, <2>9, <2>10, <2>11, WorkKeeps
<1>5. \/ GotoFor(w, "ended", {"error"}) /\ UNCHANGED <<data, takes>>
      \/ /\ work[w].kind \in {"turn", "compact"}
         /\ takes' = takes + 1
         /\ data' = [data EXCEPT ![s] = [take |-> takes + 1, text |-> <<>>]]
         /\ work' = [work EXCEPT ![w].take = takes + 1, ![w].text = Taken(w),
                        ![w].pc = IF work[w].kind = "turn" THEN "resolve" ELSE "prune"]
  BY DEF Take
<1>. QED  BY <1>3, <1>4, <1>5

\* The end of a reload frees nothing: a reload has no mark.
LEMMA ReloadEnds ==
    ASSUME AdmissionInv, NEW w \in Works, Active(w), work[w].kind = "reload", Goto(w, "done"),
           UNCHANGED <<running, token, steers, owner, data, restoring>>
    PROVE  Moves(w) /\ PlaceInv' /\ OneInv' /\ MarkInv' /\ ClaimInv'
<1>1. work[w] \in WorkRecs /\ PlaceOK(work[w])
  BY WorkTyped
<1>2. PlaceOK([work[w] EXCEPT !.pc = "done"])
  BY <1>1 DEF WorkRecs, PlaceOK, EarlyPCs, TurnPCs, Active
<1>3. Moves(w) /\ work'[w].pc = "done" /\ work'[w].kind = "reload" /\ work'[w].s = work[w].s
  BY <1>2, GoesMoves
<1>4. \A v \in Works : /\ Active(v)' => Active(v)
                       /\ Live(v)' <=> Live(v)
                       /\ work'[v].s = work[v].s /\ work'[v].kind = work[v].kind
  BY <1>3 DEF Moves, Active, Live
<1>5. OneInv' /\ MarkInv' /\ ClaimInv'
  BY <1>4 DEF AdmissionInv, OneInv, MarkInv, ClaimInv
<1>. QED  BY <1>3, <1>5, MovesPlace DEF AdmissionInv

LEMMA ReloadFailsKeeps ==
    ASSUME AdmissionInv, NEW w \in Works, ReloadFails(w)
    PROVE  AdmissionInv'
<1>1. Active(w) /\ work[w].kind = "reload" /\ Goto(w, "done") /\ work[w].pc \in {"hydrate", "ended"}
  BY DEF ReloadFails, Active
<1>2. Moves(w) /\ PlaceInv' /\ OneInv' /\ MarkInv' /\ ClaimInv'
  BY <1>1, ReloadEnds DEF ReloadFails
<1>3. PlaceOK([work[w] EXCEPT !.pc = "done"])
  BY <1>1, WorkTyped DEF WorkRecs, PlaceOK, EarlyPCs, TurnPCs, Active
<1>4. work'[w].pc = "done" /\ work'[w].s = work[w].s
  BY <1>1, <1>3, GoesMoves
<1>5. TypeOK' /\ ReportsInv'
  BY <1>2 DEF AdmissionInv, TypeOK, ReportsInv, ReloadFails, Moves, WorkRecs
<1>6. StaysIn(w)
  BY <1>1, <1>2, <1>4 DEF StaysIn, Live, ReloadFails, GuardPCs
<1>. QED  BY <1>2, <1>5, <1>6, InKeepsTranscripts DEF AdmissionInv

LEMMA FreezeKeeps ==
    ASSUME AdmissionInv, NEW w \in Works, Freeze(w)
    PROVE  AdmissionInv'
<1>. DEFINE s == work[w].s
<1>1. Active(w) /\ work[w].kind = "reload" /\ Goto(w, "done") /\ work[w].pc = "take"
  BY DEF Freeze, Active
<1>2. Moves(w) /\ PlaceInv' /\ OneInv' /\ MarkInv' /\ ClaimInv'
  BY <1>1, ReloadEnds DEF Freeze
<1>3. PlaceOK([work[w] EXCEPT !.pc = "done"])
  BY <1>1, WorkTyped DEF WorkRecs, PlaceOK, EarlyPCs, TurnPCs, Active
<1>4. work'[w].pc = "done" /\ work'[w].s = s
  BY <1>1, <1>3, GoesMoves
<1>5. /\ s \in Sessions /\ data[s] \in Entries /\ restoring[s] = None
      /\ data[s].text # <<>> /\ IsPrefix(disk[s], data[s].text)
  BY <1>1, FoundAtTake
<1>6. disk' \in [Sessions -> Texts] /\ IsPrefix(disk'[s], data[s].text)
      /\ \A t \in Sessions \ {s} : disk'[t] = disk[t]
  <2>1. data[s].text \in Texts /\ disk \in [Sessions -> Texts]
    BY <1>5, Typed DEF Entries
  <2>2. IsPrefix(data[s].text, data[s].text)
    BY <2>1, PrefixSelf DEF Texts
  <2>3. disk' = disk \/ disk' = [disk EXCEPT ![s] = data[s].text]
    BY DEF Freeze
  <2>. QED  BY <1>5, <2>1, <2>2, <2>3
<1>7. TypeOK' /\ ReportsInv'
  BY <1>2, <1>6 DEF AdmissionInv, TypeOK, ReportsInv, Freeze, Moves, WorkRecs
<1>8. \A v \in Works \ {w} : Active(v) => work[v].s \in Sessions \ {s}
  BY <1>1, WorkInSession DEF AdmissionInv
<1>9. \A v \in Works : (work[v].pc \in GuardPCs \cup {"insert", "take"} => Active(v))
                       /\ (work'[v].pc \in GuardPCs \cup {"insert", "take"} => v # w /\ work'[v] = work[v])
  BY <1>2, <1>4 DEF Active, GuardPCs, Moves
<1>10. UNCHANGED <<data, restoring>>
  BY DEF Freeze
<1>11. GuardInv'
  BY <1>6, <1>8, <1>9, <1>10 DEF AdmissionInv, GuardInv, Out
<1>12. RestoringInv'
  BY <1>1, <1>2, <1>5, <1>6, <1>10 DEF AdmissionInv, RestoringInv, Moves, Live, Out
<1>13. RestInv'
  <2>1. ASSUME NEW t \in Sessions, data'[t] # None
        PROVE  (IF data[t].text = <<>>
                  THEN restoring[t] # None \/ \E v \in Works : work[v].s = t /\ work[v].pc \in GuardPCs
                  ELSE IsPrefix(disk[t], data[t].text))'
    <3>1. CASE t = s
      BY <1>5, <1>6, <1>10, <3>1
    <3>2. CASE t # s
      <4>1. \A v \in Works : work[v].pc \in GuardPCs => work'[v] = work[v]
        BY <1>1, <1>2 DEF Moves, GuardPCs
      <4>2. IF data[t].text = <<>>
              THEN restoring[t] # None \/ \E v \in Works : work[v].s = t /\ work[v].pc \in GuardPCs
              ELSE IsPrefix(disk[t], data[t].text)
        BY <1>10, <2>1 DEF AdmissionInv, RestInv
      <4>. QED  BY <1>6, <1>10, <3>2, <4>1, <4>2
    <3>. QED  BY <3>1, <3>2
  <2>2. ASSUME NEW v \in Works
        PROVE  (/\ work[v].pc = "insert" => work[v].text # <<>> /\ IsPrefix(disk[work[v].s], work[v].text)
                /\ work[v].pc = "take" => data[work[v].s] # None)'
    BY <1>6, <1>8, <1>9, <1>10 DEF AdmissionInv, RestInv
  <2>. QED  BY <2>1, <2>2 DEF RestInv
<1>. QED  BY <1>2, <1>7, <1>11, <1>12, <1>13 DEF AdmissionInv

\* Reports have the types TypeOK says.
LEMMA ReportsTyped ==
    ASSUME ReportsInv
    PROVE  \A i \in DOMAIN events :
              LET e == events[i] IN
              /\ e.s \in Sessions /\ e.w \in Works
              /\ \/ e.kind = "done" /\ e.x \in Reasons
                 \/ e.kind \in {"accepted", "blocked"} /\ e.x \in Steers
                 \/ e.kind \in {"compacted", "error"} /\ e.x = None
<1>. SUFFICES ASSUME NEW i \in DOMAIN events
              PROVE  LET e == events[i] IN
                     /\ e.s \in Sessions /\ e.w \in Works
                     /\ \/ e.kind = "done" /\ e.x \in Reasons
                        \/ e.kind \in {"accepted", "blocked"} /\ e.x \in Steers
                        \/ e.kind \in {"compacted", "error"} /\ e.x = None
  OBVIOUS
<1>1. events[i] \in Reports
  BY DEF ReportsInv
<1>. QED  BY <1>1 DEF Reports

\* A work with its transcript out goes on with it.
LEMMA OutGoesOn ==
    ASSUME AdmissionInv, NEW w \in Works, StaysOut(w), work'[w].kind = work[w].kind,
           UNCHANGED <<running, token, cancelled, owner, takes, sent>>,
           steers' \in [Sessions -> Seq(Steers) \cup {None}],
           \A s \in Sessions : steers'[s] # None <=> steers[s] # None,
           ReportsInv'
    PROVE  AdmissionInv'
<1>1. TypeOK'
  <2>1. (\A i \in DOMAIN events :
            LET e == events[i] IN
            /\ e.s \in Sessions /\ e.w \in Works
            /\ \/ e.kind = "done" /\ e.x \in Reasons
               \/ e.kind \in {"accepted", "blocked"} /\ e.x \in Steers
               \/ e.kind \in {"compacted", "error"} /\ e.x = None)'
    BY ReportsTyped, PTL
  <2>. QED  BY <2>1 DEF AdmissionInv, TypeOK, StaysOut, Moves, WorkRecs
<1>2. Keeps(w)
  BY DEF StaysOut, Keeps, Moves, Active, GuardPCs
<1>. QED  BY <1>1, <1>2, WorkKeeps, OutKeepsTranscripts DEF AdmissionInv

\* So it does when its transcript is what it was, saved or not.
LEMMA SameTextStaysOut ==
    ASSUME AdmissionInv, NEW w \in Works, work[w].pc \in GuardPCs,
           Moves(w), work'[w].s = work[w].s, work'[w].take = work[w].take, work'[w].text = work[w].text,
           work'[w].pc \in GuardPCs \ {"resolve"}, Saved(work[w].s, work[w].text), UNCHANGED <<data, restoring>>
    PROVE  StaysOut(w)
<1>. DEFINE s == work[w].s
            text == work[w].text
<1>1. Active(w)
  BY DEF Active, GuardPCs
<1>2. s \in Sessions
  BY <1>1, WorkInSession DEF AdmissionInv
<1>3. text \in Texts /\ text # <<>> /\ IsPrefix(disk[s], text) /\ disk \in [Sessions -> Texts]
  BY Typed DEF AdmissionInv, GuardInv, Out
<1>4. IsPrefix(text, text)
  BY <1>3, PrefixSelf DEF Texts
<1>5. IsPrefix(disk'[s], text) /\ disk' \in [Sessions -> Texts] /\ \A t \in Sessions \ {s} : disk'[t] = disk[t]
  BY <1>2, <1>3, <1>4 DEF Saved
<1>. QED  BY <1>3, <1>5 DEF StaysOut

LEMMA ResolveKeeps ==
    ASSUME AdmissionInv, NEW w \in Works, Resolve(w)
    PROVE  AdmissionInv'
<1>. DEFINE s == work[w].s
<1>1. work[w] \in WorkRecs /\ PlaceOK(work[w]) /\ work[w].pc = "resolve"
  BY WorkTyped DEF Resolve
<1>2. StaysOut(w) /\ work'[w].kind = work[w].kind
  <2>1. CASE Goto(w, "boundary")
    <3>1. PlaceOK([work[w] EXCEPT !.pc = "boundary"])
      BY <1>1 DEF WorkRecs, PlaceOK, EarlyPCs, TurnPCs
    <3>2. /\ Moves(w) /\ work'[w].pc = "boundary" /\ work'[w].kind = work[w].kind /\ work'[w].s = work[w].s
          /\ work'[w].take = work[w].take /\ work'[w].text = work[w].text
      BY <2>1, <3>1, GoesMoves DEF InnerPCs, GuardPCs
    <3>3. Saved(work[w].s, work[w].text) /\ UNCHANGED <<data, restoring>>
      BY DEF Resolve, Saved
    <3>. QED  BY <1>1, <3>2, <3>3, SameTextStaysOut DEF GuardPCs
  <2>2. CASE work' = [work EXCEPT ![w].pc = "commit", ![w].text = Front(@), ![w].why = "error"]
    <3>. DEFINE k == work[w]
                text == Front(k.text)
                r == [k EXCEPT !.pc = "commit", !.text = text, !.why = "error"]
    <3>1. /\ text # <<>> /\ IsPrefix(disk[s], text) /\ k.text \in Texts /\ k.text # <<>>
          /\ s \in Sessions /\ disk \in [Sessions -> Texts]
      BY <1>1, Typed, WorkInSession DEF AdmissionInv, GuardInv, GuardPCs, Out, Active
    <3>2. k \in WorkRecs /\ PlaceOK(k) /\ k.pc = "resolve" /\ work' = [work EXCEPT ![w] = r] /\ text \in Texts
      BY <1>1, <2>2, <3>1, FrontInSeq DEF Texts
    <3>. HIDE DEF k, text
    <3>3. r \in WorkRecs
      BY <3>2 DEF WorkRecs, InnerPCs, GuardPCs, Reasons
    <3>4. r.pc = "commit" /\ r.text = text /\ r.kind = k.kind /\ r.s = k.s /\ r.take = k.take
      BY <3>2 DEF WorkRecs
    <3>5. PlaceOK(r)
      BY <3>2 DEF WorkRecs, PlaceOK, EarlyPCs, TurnPCs
    <3>. HIDE DEF r
    <3>6. Moves(w) /\ work'[w] = r
      BY <3>2, <3>3, <3>5, PutMoves DEF AdmissionInv
    <3>. QED  BY <1>1, <3>1, <3>4, <3>6 DEF StaysOut, GuardPCs, Resolve, k
  <2>. QED  BY <2>1, <2>2 DEF Resolve
<1>. QED  BY <1>2, Typed, OutGoesOn DEF Resolve, AdmissionInv, ReportsInv

LEMMA TakeSteersKeeps ==
    ASSUME AdmissionInv, NEW w \in Works, TakeSteers(w)
    PROVE  AdmissionInv'
<1>. DEFINE s == work[w].s
<1>1. work[w] \in WorkRecs /\ PlaceOK(work[w]) /\ work[w].pc = "boundary" /\ Live(w) /\ s \in Sessions
      /\ work[w].kind = "turn"
  <2>1. work[w] \in WorkRecs /\ PlaceOK(work[w]) /\ work[w].pc = "boundary"
    BY WorkTyped DEF TakeSteers
  <2>. QED  BY <2>1 DEF PlaceOK, TurnPCs, Live
<1>2. steers[s] # None /\ steers[s] \in Seq(Steers)
  <2>1. s \in running /\ token[s] = w
    BY <1>1 DEF AdmissionInv, MarkInv, OneInv, Live, Active
  <2>. QED  BY <1>1, <2>1, Typed DEF AdmissionInv, MarkInv
<1>3. StaysOut(w) /\ work'[w].kind = work[w].kind
  <2>. DEFINE k == work[w]
              q == steers[s]
              r == [k EXCEPT !.pc = "judge", !.queue = q, !.accepted = <<>>]
  <2>0. work' = [work EXCEPT ![w] = r] /\ <<>> \in Seq(Steers)
    <3>1. work' = [work EXCEPT ![w].pc = "judge", ![w].queue = steers[s], ![w].accepted = <<>>]
      BY DEF TakeSteers
    <3>2. <<>> \in Seq(Steers)
      OBVIOUS
    <3>. QED  BY <3>1, <3>2
  <2>1. k \in WorkRecs /\ PlaceOK(k) /\ k.pc = "boundary" /\ work' = [work EXCEPT ![w] = r] /\ q \in Seq(Steers)
        /\ <<>> \in Seq(Steers)
    BY <1>1, <1>2, <2>0
  <2>. HIDE DEF k, q
  <2>2. r \in WorkRecs
    BY <2>1 DEF WorkRecs, InnerPCs, GuardPCs
  <2>3. r.pc = "judge" /\ r.text = k.text /\ r.kind = k.kind /\ r.s = k.s /\ r.take = k.take
    BY <2>1 DEF WorkRecs
  <2>4. PlaceOK(r)
    BY <2>1 DEF WorkRecs, PlaceOK, EarlyPCs, TurnPCs
  <2>. HIDE DEF r
  <2>5. Moves(w) /\ work'[w] = r
    BY <2>1, <2>2, <2>4, PutMoves DEF AdmissionInv
  <2>6. Saved(work[w].s, work[w].text) /\ UNCHANGED <<data, restoring>>
    BY DEF TakeSteers, Saved
  <2>. QED  BY <1>1, <2>3, <2>5, <2>6, SameTextStaysOut DEF GuardPCs, k
<1>4. steers' \in [Sessions -> Seq(Steers) \cup {None}] /\ \A t \in Sessions : steers'[t] # None <=> steers[t] # None
  <2>1. <<>> \in Seq(Steers) /\ <<>> # None
    <3>1. <<>> \in Seq(Steers)
      OBVIOUS
    <3>. QED  BY <3>1
  <2>2. steers' = [steers EXCEPT ![s] = <<>>]
    BY DEF TakeSteers
  <2>3. steers \in [Sessions -> Seq(Steers) \cup {None}]
    BY Typed
  <2>. QED  BY <1>1, <1>2, <2>1, <2>2, <2>3
<1>. QED  BY <1>3, <1>4, OutGoesOn DEF TakeSteers, AdmissionInv, ReportsInv

LEMMA SendTyped ==
    ASSUME ReportsInv, NEW e \in Reports, Send(e)
    PROVE  ReportsInv'
BY AppendProperties DEF ReportsInv, Send

LEMMA EventTyped ==
    ASSUME NEW s \in Sessions, NEW w \in Works
    PROVE  /\ \A x \in Steers, kind \in {"accepted", "blocked"} : Event(s, kind, w, x) \in Reports
           /\ \A why \in Reasons : Event(s, "done", w, why) \in Reports
           /\ \A kind \in {"compacted", "error"} : Event(s, kind, w, None) \in Reports
BY DEF Event, Reports

LEMMA JudgeKeeps ==
    ASSUME AdmissionInv, NEW w \in Works, Judge(w)
    PROVE  AdmissionInv'
<1>. DEFINE s == work[w].s
            k == work[w]
            x == Head(k.queue)
            in == [k EXCEPT !.queue = Tail(k.queue), !.accepted = Append(k.accepted, x)]
            out == [k EXCEPT !.queue = Tail(k.queue)]
<1>1. k \in WorkRecs /\ PlaceOK(k) /\ k.pc = "judge" /\ k.queue # <<>>
  BY WorkTyped DEF Judge
<1>2. s \in Sessions
  BY <1>1, WorkInSession DEF AdmissionInv, Active
<1>3. \/ work' = [work EXCEPT ![w] = in] /\ UNCHANGED events
      \/ work' = [work EXCEPT ![w] = out] /\ Send(Event(s, "blocked", w, x))
  BY DEF Judge
<1>4. Saved(s, k.text) /\ UNCHANGED <<data, restoring>>
  BY DEF Judge, Saved
<1>. HIDE DEF k, s
<1>5. k.queue \in Seq(Steers) /\ k.accepted \in Seq(Steers)
  BY <1>1 DEF WorkRecs
<1>6. x \in Steers /\ Tail(k.queue) \in Seq(Steers) /\ Append(k.accepted, x) \in Seq(Steers)
  BY <1>1, <1>5, HeadTailProperties, AppendProperties
<1>. HIDE DEF x
<1>7. /\ in \in WorkRecs /\ out \in WorkRecs
      /\ \A r \in {in, out} : r.pc = "judge" /\ r.text = k.text /\ r.kind = k.kind /\ r.s = k.s /\ r.take = k.take
  BY <1>1, <1>6 DEF WorkRecs
<1>8. PlaceOK(in) /\ PlaceOK(out)
  BY <1>1 DEF WorkRecs, PlaceOK, EarlyPCs, TurnPCs
<1>. HIDE DEF in, out
<1>9. Moves(w) /\ work'[w] \in {in, out}
  BY <1>3, <1>7, <1>8, PutMoves DEF AdmissionInv
<1>10. StaysOut(w) /\ work'[w].kind = work[w].kind
  BY <1>1, <1>4, <1>7, <1>9, SameTextStaysOut DEF GuardPCs, k, s
<1>11. ReportsInv'
  BY <1>2, <1>3, <1>6, SendTyped, EventTyped DEF AdmissionInv, ReportsInv
<1>. QED  BY <1>10, <1>11, Typed, OutGoesOn DEF Judge

LEMMA RequestKeeps ==
    ASSUME AdmissionInv, NEW w \in Works, Request(w)
    PROVE  AdmissionInv'
<1>. DEFINE s == work[w].s
            k == work[w]
<1>1. k \in WorkRecs /\ PlaceOK(k) /\ k.pc = "request" /\ k.iter \in 0..MaxIter /\ k.iter < MaxIter /\ k.last = FALSE
  BY WorkTyped DEF Request, PlaceOK, EarlyPCs, WorkRecs
<1>2. Saved(s, k.text) /\ UNCHANGED <<data, restoring>>
  BY DEF Request
<1>3. /\ Moves(w) /\ work'[w].pc \in GuardPCs \ {"resolve"} /\ work'[w].kind = k.kind /\ work'[w].s = k.s
      /\ work'[w].take = k.take /\ work'[w].text = k.text
  <2>1. ASSUME NEW l \in {"close", "consult"}, Goto(w, l) \/ GotoFor(w, l, Reasons)
        PROVE  /\ Moves(w) /\ work'[w].pc \in GuardPCs \ {"resolve"} /\ work'[w].kind = k.kind /\ work'[w].s = k.s
               /\ work'[w].take = k.take /\ work'[w].text = k.text
    <3>1. PlaceOK([work[w] EXCEPT !.pc = l])
      BY <1>1 DEF WorkRecs, PlaceOK, EarlyPCs, TurnPCs
    <3>. QED  BY <2>1, <3>1, GoesMoves DEF InnerPCs, GuardPCs
  <2>2. CASE work' = [work EXCEPT ![w].iter = @ + 1, ![w].pc = NextIteration(w)]
    <3>. DEFINE l == NextIteration(w)
                r == [k EXCEPT !.iter = k.iter + 1, !.pc = l]
    <3>1. /\ l \in {"boundary", "close"} /\ (l = "boundary" => k.iter + 1 < MaxIter)
          /\ work' = [work EXCEPT ![w] = r]
      BY <2>2 DEF NextIteration
    <3>. HIDE DEF k, l
    <3>2. k.iter + 1 \in 0..MaxIter /\ l \in InnerPCs
      BY <1>1, <3>1 DEF InnerPCs, GuardPCs
    <3>3. r \in WorkRecs /\ r.pc = l /\ r.iter = k.iter + 1 /\ r.kind = k.kind /\ r.s = k.s /\ r.take = k.take /\ r.text = k.text
      BY <1>1, <3>2 DEF WorkRecs
    <3>4. PlaceOK(r)
      BY <1>1, <3>1 DEF WorkRecs, PlaceOK, EarlyPCs, TurnPCs
    <3>. HIDE DEF r
    <3>. QED  BY <3>1, <3>3, <3>4, PutMoves DEF AdmissionInv, GuardPCs
  <2>3. CASE work' = [work EXCEPT ![w].pc = "boundary", ![w].last = TRUE] /\ k.iter + 1 < MaxIter
    <3>. DEFINE r == [k EXCEPT !.pc = "boundary", !.last = TRUE]
    <3>1. work' = [work EXCEPT ![w] = r]
      BY <2>3
    <3>. HIDE DEF k
    <3>2. r \in WorkRecs
      BY <1>1 DEF WorkRecs, InnerPCs, GuardPCs
    <3>3. r.pc = "boundary" /\ r.kind = k.kind /\ r.s = k.s /\ r.take = k.take /\ r.text = k.text
      BY <1>1 DEF WorkRecs
    <3>4. PlaceOK(r)
      BY <1>1, <2>3 DEF WorkRecs, PlaceOK, EarlyPCs, TurnPCs
    <3>. HIDE DEF r
    <3>. QED  BY <3>1, <3>2, <3>3, <3>4, PutMoves DEF AdmissionInv, GuardPCs
  <2>. QED  BY <2>1, <2>2, <2>3 DEF Request, GotoFor, Cut, Reasons
<1>4. StaysOut(w) /\ work'[w].kind = work[w].kind
  BY <1>1, <1>2, <1>3, SameTextStaysOut DEF GuardPCs
<1>. QED  BY <1>4, Typed, OutGoesOn DEF Request, AdmissionInv, ReportsInv

LEMMA ConsultKeeps ==
    ASSUME AdmissionInv, NEW w \in Works, Consult(w)
    PROVE  AdmissionInv'
<1>. DEFINE s == work[w].s
            k == work[w]
<1>1. k \in WorkRecs /\ PlaceOK(k) /\ k.pc = "consult" /\ k.iter \in 0..MaxIter /\ k.iter < MaxIter /\ k.last = FALSE
  BY WorkTyped DEF Consult, PlaceOK, EarlyPCs, WorkRecs
<1>2. Saved(s, k.text) /\ UNCHANGED <<data, restoring>>
  BY DEF Consult, Saved
<1>3. /\ Moves(w) /\ work'[w].pc \in GuardPCs \ {"resolve"} /\ work'[w].kind = k.kind /\ work'[w].s = k.s
      /\ work'[w].take = k.take /\ work'[w].text = k.text
  <2>1. CASE Goto(w, "close")
    <3>1. PlaceOK([work[w] EXCEPT !.pc = "close"])
      BY <1>1 DEF WorkRecs, PlaceOK, EarlyPCs, TurnPCs
    <3>2. /\ Moves(w) /\ work'[w].pc = "close" /\ work'[w].kind = k.kind /\ work'[w].s = k.s
          /\ work'[w].take = k.take /\ work'[w].text = k.text
      BY <2>1, <3>1, GoesMoves DEF InnerPCs, GuardPCs
    <3>. QED  BY <3>2 DEF GuardPCs
  <2>2. CASE work' = [work EXCEPT ![w].iter = @ + 1, ![w].pc = NextIteration(w)]
    <3>. DEFINE l == NextIteration(w)
                r == [k EXCEPT !.iter = k.iter + 1, !.pc = l]
    <3>1. /\ l \in {"boundary", "close"} /\ (l = "boundary" => k.iter + 1 < MaxIter)
          /\ work' = [work EXCEPT ![w] = r]
      BY <2>2 DEF NextIteration
    <3>. HIDE DEF k, l
    <3>2. k.iter + 1 \in 0..MaxIter /\ l \in InnerPCs
      BY <1>1, <3>1 DEF InnerPCs, GuardPCs
    <3>3. r \in WorkRecs /\ r.pc = l /\ r.iter = k.iter + 1 /\ r.kind = k.kind /\ r.s = k.s /\ r.take = k.take /\ r.text = k.text
      BY <1>1, <3>2 DEF WorkRecs
    <3>4. PlaceOK(r)
      BY <1>1, <3>1 DEF WorkRecs, PlaceOK, EarlyPCs, TurnPCs
    <3>. HIDE DEF r
    <3>. QED  BY <3>1, <3>3, <3>4, PutMoves DEF AdmissionInv, GuardPCs
  <2>. QED  BY <2>1, <2>2 DEF Consult
<1>4. StaysOut(w) /\ work'[w].kind = work[w].kind
  BY <1>1, <1>2, <1>3, SameTextStaysOut DEF GuardPCs
<1>. QED  BY <1>4, Typed, OutGoesOn DEF Consult, AdmissionInv, ReportsInv

LEMMA PruneKeeps ==
    ASSUME AdmissionInv, NEW w \in Works, Prune(w)
    PROVE  AdmissionInv'
<1>1. work[w] \in WorkRecs /\ PlaceOK(work[w]) /\ work[w].pc = "prune" /\ work[w].s \in Sessions
  BY WorkTyped, WorkInSession DEF Prune, Active, AdmissionInv
<1>2. PlaceOK([work[w] EXCEPT !.pc = "commit"]) /\ GotoFor(w, "commit", Reasons)
  <2>1. PlaceOK([work[w] EXCEPT !.pc = "commit"])
    BY <1>1 DEF WorkRecs, PlaceOK, EarlyPCs, TurnPCs
  <2>2. GotoFor(w, "commit", {"stop", "error"})
    BY DEF Prune
  <2>3. GotoFor(w, "commit", Reasons)
    BY <2>2 DEF GotoFor, Reasons
  <2>. QED  BY <2>1, <2>3
<1>3. /\ Moves(w) /\ work'[w].pc = "commit" /\ work'[w].kind = work[w].kind /\ work'[w].s = work[w].s
      /\ work'[w].take = work[w].take /\ work'[w].text = work[w].text
  BY <1>2, GoesMoves DEF InnerPCs, GuardPCs
<1>4. Saved(work[w].s, work[w].text) /\ UNCHANGED <<data, restoring>>
  BY DEF Prune, Saved
<1>5. ReportsInv'
  <2>1. UNCHANGED events \/ Send(Event(work[w].s, "error", w, None))
    BY DEF Prune
  <2>. QED  BY <1>1, <2>1, SendTyped, EventTyped DEF AdmissionInv, ReportsInv
<1>6. StaysOut(w)
  BY <1>1, <1>3, <1>4, SameTextStaysOut DEF GuardPCs
<1>. QED  BY <1>3, <1>5, <1>6, Typed, OutGoesOn DEF Prune

LEMMA CloseKeeps ==
    ASSUME AdmissionInv, NEW w \in Works, Close(w)
    PROVE  AdmissionInv'
<1>1. work[w] \in WorkRecs /\ PlaceOK(work[w]) /\ work[w].pc = "close"
  BY WorkTyped DEF Close
<1>2. PlaceOK([work[w] EXCEPT !.pc = "commit"]) /\ Goto(w, "commit")
  BY <1>1 DEF WorkRecs, PlaceOK, EarlyPCs, TurnPCs, Close
<1>3. /\ Moves(w) /\ work'[w].pc = "commit" /\ work'[w].kind = work[w].kind /\ work'[w].s = work[w].s
      /\ work'[w].take = work[w].take /\ work'[w].text = work[w].text
  BY <1>2, GoesMoves DEF InnerPCs, GuardPCs
<1>4. StaysOut(w)
  BY <1>1, <1>3, SameTextStaysOut DEF GuardPCs, Close
<1>. QED  BY <1>3, <1>4, Typed, OutGoesOn DEF Close, AdmissionInv, ReportsInv

\* What enters is reported steer by steer.
LEMMA AcceptedTyped ==
    ASSUME ReportsInv, NEW s \in Sessions, NEW w \in Works, NEW q \in Seq(Steers),
           events' = events \o [i \in DOMAIN q |-> Event(s, "accepted", w, q[i])]
    PROVE  ReportsInv'
<1>. DEFINE told == [i \in DOMAIN q |-> Event(s, "accepted", w, q[i])]
<1>1. DOMAIN q = 1..Len(q) /\ Len(q) \in Nat
  OBVIOUS
<1>2. \A i \in 1..Len(q) : told[i] \in Reports
  BY <1>1, EventTyped
<1>3. told \in Seq(Reports)
  BY <1>1, <1>2, IsASeq
<1>. QED  BY <1>3, ConcatProperties DEF ReportsInv

LEMMA AcceptSteersKeeps ==
    ASSUME AdmissionInv, NEW w \in Works, AcceptSteers(w)
    PROVE  AdmissionInv'
<1>. DEFINE s == work[w].s
            k == work[w]
            enter == k.accepted # <<>> /\ w \notin cancelled
            text == IF enter THEN k.text \o k.accepted ELSE k.text
            iter == IF k.last /\ enter THEN k.iter + 1 ELSE k.iter
            why == IF k.last /\ w \in cancelled THEN "cancelled" ELSE k.why
            pc == CASE ~k.last -> "request"
                    [] k.last /\ enter -> "boundary"
                    [] OTHER -> IF w \in cancelled THEN "close" ELSE "consult"
            r == [k EXCEPT !.text = text, !.queue = <<>>, !.accepted = <<>>, !.last = FALSE,
                           !.iter = iter, !.why = why, !.pc = pc]
<1>1. /\ k \in WorkRecs /\ PlaceOK(k) /\ k.pc = "judge" /\ k.iter \in 0..MaxIter /\ k.iter < MaxIter /\ k.last \in BOOLEAN
      /\ k.accepted \in Seq(Steers) /\ k.why \in Reasons /\ k.text \in Texts /\ k.kind = "turn"
  BY WorkTyped DEF AcceptSteers, PlaceOK, EarlyPCs, TurnPCs, WorkRecs
<1>2. s \in Sessions /\ disk \in [Sessions -> Texts] /\ k.text # <<>> /\ IsPrefix(disk[s], k.text)
  BY <1>1, Typed, WorkInSession DEF AdmissionInv, Active, GuardInv, GuardPCs, Out
<1>3. text \in Texts /\ text # <<>> /\ IsPrefix(disk[s], text)
  <2>1. k.accepted \in Texts /\ disk[s] \in Texts
    <3>1. k.accepted \in Seq(Works \cup Steers \cup {System, Foreign})
      <4>1. Steers \subseteq Works \cup Steers \cup {System, Foreign}
        OBVIOUS
      <4>2. Seq(Steers) \subseteq Seq(Works \cup Steers \cup {System, Foreign})
        BY <4>1, SeqMonotonic
      <4>. QED  BY <1>1, <4>2
    <3>. QED  BY <1>2, <3>1 DEF Texts
  <2>2. k.text \o k.accepted \in Texts /\ k.text \o k.accepted # <<>> /\ IsPrefix(disk[s], k.text \o k.accepted)
    BY <1>1, <1>2, <2>1, PrefixConcat, ConcatProperties DEF Texts
  <2>. QED  BY <1>1, <1>2, <2>2
<1>4. work' = [work EXCEPT ![w] = r]
  BY DEF AcceptSteers
<1>5. /\ disk' = disk \/ disk' = [disk EXCEPT ![s] = text]
      /\ UNCHANGED events \/ events' = events \o [i \in DOMAIN k.accepted |-> Event(s, "accepted", w, k.accepted[i])]
  BY DEF AcceptSteers, Saved
<1>6. /\ disk' \in [Sessions -> Texts] /\ IsPrefix(disk'[s], text)
      /\ \A t \in Sessions \ {s} : disk'[t] = disk[t]
  <2>1. IsPrefix(text, text)
    BY <1>3, PrefixSelf DEF Texts
  <2>. HIDE DEF text
  <2>. QED  BY <1>2, <1>3, <1>5, <2>1
<1>7. ReportsInv'
  BY <1>1, <1>2, <1>5, AcceptedTyped DEF AdmissionInv, ReportsInv
<1>8. /\ iter \in 0..MaxIter /\ iter < MaxIter /\ why \in Reasons
      /\ pc \in {"request", "boundary", "close", "consult"}
  BY <1>1 DEF PlaceOK, Reasons
<1>9. <<>> \in Seq(Steers) /\ pc \in InnerPCs
  BY <1>8 DEF InnerPCs, GuardPCs
<1>. HIDE DEF k, text, iter, why, pc
<1>10. r \in WorkRecs
  BY <1>1, <1>3, <1>8, <1>9 DEF WorkRecs
<1>11. r.pc = pc /\ r.text = text /\ r.kind = k.kind /\ r.s = k.s /\ r.take = k.take /\ r.iter = iter
       /\ r.last = FALSE /\ r.queue = <<>> /\ r.accepted = <<>>
  BY <1>1 DEF WorkRecs
<1>. HIDE DEF r
<1>12. r.kind = "turn" /\ r.s \in Sessions
  BY <1>1, <1>2, <1>11 DEF k
<1>13. PlaceOK(r)
  BY <1>8, <1>11, <1>12 DEF PlaceOK, EarlyPCs, TurnPCs
<1>14. Moves(w) /\ work'[w] = r
  BY <1>4, <1>10, <1>13, PutMoves DEF AdmissionInv
<1>15. UNCHANGED <<data, restoring>>
  BY DEF AcceptSteers
<1>16. StaysOut(w)
  BY <1>1, <1>3, <1>6, <1>8, <1>11, <1>14, <1>15 DEF StaysOut, GuardPCs, k, s
<1>. QED  BY <1>7, <1>11, <1>14, <1>16, Typed, OutGoesOn DEF AcceptSteers, k

------------------------------------------------------------------------------
(* Putting the transcript back *)

\* What is put back where it was taken from is what the session then has.
LEMMA RestoredOut ==
    ASSUME AdmissionInv, NEW s \in Sessions, NEW g, g.text \in Texts, Out(s, g)
    PROVE  /\ Restored(s, g) \in [Sessions -> Entries \cup {None}]
           /\ Restored(s, g)[s] # None /\ Restored(s, g)[s].text = g.text
           /\ \A t \in Sessions \ {s} : Restored(s, g)[t] = data[t]
<1>. DEFINE e == [data[s] EXCEPT !.text = g.text]
<1>1. data \in [Sessions -> Entries \cup {None}] /\ data[s] \in Entries
  BY Typed DEF Out
<1>2. Restored(s, g) = [data EXCEPT ![s] = e]
  BY DEF Restored, Out
<1>3. e \in Entries /\ e.text = g.text
  BY <1>1 DEF Entries
<1>4. e # None
  BY <1>3, EmptyText
<1>. HIDE DEF e
<1>. QED  BY <1>1, <1>2, <1>3, <1>4

\* A work that lets go of its transcript puts it back or leaves it to be.
LEMMA LeavesGuard ==
    ASSUME AdmissionInv, NEW w \in Works, work[w].pc \in GuardPCs, Moves(w),
           work'[w].kind = work[w].kind, work'[w].s = work[w].s, work'[w].pc = "ended",
           UNCHANGED <<running, token, cancelled, steers, owner, takes, disk, sent, events>>,
           \/ data' = Restored(work[w].s, work[w]) /\ UNCHANGED restoring
           \/ /\ restoring' = [restoring EXCEPT ![work[w].s] = [take |-> work[w].take, text |-> work[w].text]]
              /\ UNCHANGED data
    PROVE  AdmissionInv'
<1>. DEFINE s == work[w].s
            g == [take |-> work[w].take, text |-> work[w].text]
<1>1. /\ Active(w) /\ Live(w) /\ s \in Sessions /\ work[w].text \in Texts /\ work[w].take \in Nat
      /\ Out(s, work[w]) /\ restoring[s] = None
  <2>1. Active(w) /\ work[w].pc # "new" /\ work[w].pc # "done"
    BY DEF Active, GuardPCs
  <2>2. work[w].kind \in {"turn", "compact"}
    BY WorkTyped DEF GuardPCs, PlaceOK, TurnPCs, WorkRecs
  <2>. QED  BY <2>1, <2>2, Typed, WorkInSession DEF Live, AdmissionInv, GuardInv
<1>2. \A v \in Works \ {w} : Active(v) => work[v].s \in Sessions \ {s}
  BY <1>1, WorkInSession DEF AdmissionInv
<1>3. \A v \in Works : /\ work[v].pc \in GuardPCs \cup {"insert", "take"} => Active(v)
                       /\ work'[v].pc \in GuardPCs \cup {"insert", "take"} => v # w /\ work'[v] = work[v]
  BY DEF Active, GuardPCs, Moves
<1>4. /\ data' \in [Sessions -> Entries \cup {None}] /\ restoring' \in [Sessions -> Entries \cup {None}]
      /\ \A t \in Sessions \ {s} : data'[t] = data[t] /\ restoring'[t] = restoring[t]
      /\ data'[s] # None
      /\ \/ data'[s].text = work[w].text /\ restoring'[s] = None
         \/ data'[s] = data[s] /\ restoring'[s] = g /\ g # None
  <2>1. CASE data' = Restored(s, work[w]) /\ UNCHANGED restoring
    BY <1>1, <2>1, RestoredOut, Typed
  <2>2. CASE restoring' = [restoring EXCEPT ![s] = g] /\ UNCHANGED data
    <3>1. g \in Entries
      BY <1>1 DEF Entries
    <3>2. g # None
      BY <3>1, EmptyText
    <3>3. restoring \in [Sessions -> Entries \cup {None}] /\ data \in [Sessions -> Entries \cup {None}]
      BY Typed
    <3>4. data[s] # None
      BY <1>1 DEF Out
    <3>. HIDE DEF g
    <3>. QED  BY <1>1, <2>2, <3>1, <3>2, <3>3, <3>4
  <2>. QED  BY <2>1, <2>2
<1>5. TypeOK' /\ ReportsInv'
  BY <1>4 DEF AdmissionInv, TypeOK, ReportsInv, Moves, WorkRecs
<1>6. Keeps(w)
  BY <1>1, <1>4 DEF Keeps, Active
<1>7. GuardInv'
  <2>. SUFFICES ASSUME NEW v \in Works, (work[v].pc \in GuardPCs)'
                PROVE  (/\ Out(work[v].s, work[v]) /\ restoring[work[v].s] = None
                        /\ work[v].pc = "resolve" => Front(work[v].text) # <<>> /\ IsPrefix(disk[work[v].s], Front(work[v].text)))'
    BY DEF GuardInv
  <2>1. work'[v] = work[v] /\ work[v].s \in Sessions \ {s}
    BY <1>2, <1>3
  <2>. QED  BY <1>4, <2>1 DEF AdmissionInv, GuardInv, Out
<1>8. RestoringInv'
  <2>. SUFFICES ASSUME NEW t \in Sessions, restoring'[t] # None
                PROVE  (Out(t, restoring[t]) /\ \E v \in Works : Live(v) /\ work[v].s = t /\ work[v].pc = "ended")'
    BY DEF RestoringInv
  <2>1. CASE t = s
    <3>1. Live(w)' /\ work'[w].s = t /\ work'[w].pc = "ended"
      BY <1>1, <2>1 DEF Live
    <3>2. data'[s] = data[s] /\ restoring'[s] = g
      BY <1>4, <2>1
    <3>3. Out(t, restoring[t])'
      BY <1>1, <2>1, <3>2 DEF Out
    <3>. QED  BY <3>1, <3>3
  <2>2. CASE t # s
    <3>1. PICK v \in Works : Live(v) /\ work[v].s = t /\ work[v].pc = "ended"
      BY <1>4, <2>2 DEF AdmissionInv, RestoringInv
    <3>2. work'[v] = work[v]
      BY <2>2, <3>1 DEF Moves
    <3>3. Out(t, restoring[t])'
      BY <1>4, <2>2 DEF AdmissionInv, RestoringInv, Out
    <3>. QED  BY <3>1, <3>2, <3>3 DEF Live
  <2>. QED  BY <2>1, <2>2
<1>9. RestInv'
  <2>1. ASSUME NEW t \in Sessions, data'[t] # None
        PROVE  (IF data[t].text = <<>>
                  THEN restoring[t] # None \/ \E v \in Works : work[v].s = t /\ work[v].pc \in GuardPCs
                  ELSE IsPrefix(disk[t], data[t].text))'
    <3>1. CASE t = s
      BY <1>1, <1>4, <3>1 DEF Out
    <3>2. CASE t # s
      <4>1. data'[t] = data[t] /\ restoring'[t] = restoring[t]
            /\ \A v \in Works : work[v].s = t => work'[v] = work[v]
        BY <1>4, <3>2 DEF Moves
      <4>2. IF data[t].text = <<>>
              THEN restoring[t] # None \/ \E v \in Works : work[v].s = t /\ work[v].pc \in GuardPCs
              ELSE IsPrefix(disk[t], data[t].text)
        BY <2>1, <4>1 DEF AdmissionInv, RestInv
      <4>. QED  BY <4>1, <4>2
    <3>. QED  BY <3>1, <3>2
  <2>2. ASSUME NEW v \in Works
        PROVE  (/\ work[v].pc = "insert" => work[v].text # <<>> /\ IsPrefix(disk[work[v].s], work[v].text)
                /\ work[v].pc = "take" => data[work[v].s] # None)'
    BY <1>2, <1>3, <1>4 DEF AdmissionInv, RestInv
  <2>. QED  BY <2>1, <2>2 DEF RestInv
<1>. QED  BY <1>5, <1>6, <1>7, <1>8, <1>9, WorkKeeps

LEMMA CommitKeeps ==
    ASSUME AdmissionInv, NEW w \in Works, Commit(w)
    PROVE  AdmissionInv'
<1>. DEFINE k == work[w]
            r == [k EXCEPT !.pc = "ended", !.text = <<>>]
<1>1. k \in WorkRecs /\ PlaceOK(k) /\ k.pc = "commit" /\ work' = [work EXCEPT ![w] = r]
  BY WorkTyped DEF Commit
<1>. HIDE DEF k
<1>2. r \in WorkRecs
  BY <1>1, EmptyText DEF WorkRecs
<1>3. r.pc = "ended" /\ r.kind = k.kind /\ r.s = k.s
  BY <1>1 DEF WorkRecs
<1>4. PlaceOK(r)
  BY <1>1 DEF WorkRecs, PlaceOK, EarlyPCs, TurnPCs
<1>. HIDE DEF r
<1>5. Moves(w) /\ work'[w] = r
  BY <1>1, <1>2, <1>4, PutMoves DEF AdmissionInv
<1>. QED  BY <1>1, <1>3, <1>5, LeavesGuard DEF Commit, GuardPCs, k

LEMMA PanicKeeps ==
    ASSUME AdmissionInv, NEW w \in Works, Panic(w)
    PROVE  AdmissionInv'
<1>. DEFINE k == work[w]
            r == [k EXCEPT !.pc = "ended", !.text = <<>>, !.queue = <<>>, !.accepted = <<>>, !.why = "error"]
<1>1. k \in WorkRecs /\ PlaceOK(k) /\ k.pc \in InnerPCs /\ k.kind # "reload" /\ work' = [work EXCEPT ![w] = r]
  BY WorkTyped DEF Panic
<1>. HIDE DEF k
<1>2. <<>> \in Seq(Steers)
  OBVIOUS
<1>3. r \in WorkRecs
  BY <1>1, <1>2, EmptyText DEF WorkRecs, Reasons
<1>4. r.pc = "ended" /\ r.kind = k.kind /\ r.s = k.s /\ r.last = k.last /\ r.iter = k.iter
      /\ r.queue = <<>> /\ r.accepted = <<>>
  BY <1>1 DEF WorkRecs
<1>5. k.pc # "new" /\ k.pc # "done" /\ k.pc # "ended"
  BY <1>1 DEF InnerPCs, GuardPCs
<1>. HIDE DEF r
<1>6. PlaceOK(r)
  BY <1>1, <1>4, <1>5 DEF PlaceOK, EarlyPCs, TurnPCs
<1>7. Moves(w) /\ work'[w] = r
  BY <1>1, <1>3, <1>6, PutMoves DEF AdmissionInv
<1>8. CASE k.pc \in GuardPCs
  <2>1. \/ data' = Restored(work[w].s, work[w]) /\ UNCHANGED restoring
        \/ /\ restoring' = [restoring EXCEPT ![work[w].s] = [take |-> work[w].take, text |-> work[w].text]]
           /\ UNCHANGED data
    BY <1>8 DEF Panic, Restored, k
  <2>. QED  BY <1>4, <1>7, <1>8, <2>1, LeavesGuard DEF Panic, k
<1>9. CASE k.pc \notin GuardPCs
  <2>1. UNCHANGED <<running, token, cancelled, steers, owner, data, restoring, takes, disk, sent, events>>
    BY <1>9 DEF Panic, k
  <2>2. TypeOK' /\ ReportsInv'
    BY <1>7, <2>1 DEF AdmissionInv, TypeOK, ReportsInv, Moves, WorkRecs
  <2>3. Keeps(w)
    BY <1>4, <1>5, <1>7, <2>1 DEF Keeps, Active, k
  <2>4. StaysIn(w)
    BY <1>4, <1>5, <1>7, <1>9, <2>1 DEF StaysIn, Active, GuardPCs, k
  <2>. QED  BY <2>2, <2>3, <2>4, WorkKeeps, InKeepsTranscripts DEF AdmissionInv
<1>. QED  BY <1>8, <1>9

LEMMA RestoreKeeps ==
    ASSUME AdmissionInv, NEW s \in Sessions, Restore(s)
    PROVE  AdmissionInv'
<1>. DEFINE g == restoring[s]
<1>1. g \in Entries /\ g.text \in Texts /\ Out(s, g)
  <2>1. g \in Entries /\ Out(s, g)
    BY Typed DEF Restore, AdmissionInv, RestoringInv
  <2>. QED  BY <2>1 DEF Entries
<1>2. /\ data' \in [Sessions -> Entries \cup {None}] /\ restoring' \in [Sessions -> Entries \cup {None}]
      /\ data'[s] # None /\ data'[s].text = g.text /\ restoring'[s] = None
      /\ \A t \in Sessions \ {s} : data'[t] = data[t] /\ restoring'[t] = restoring[t]
  <2>1. data' = Restored(s, g) /\ restoring' = [restoring EXCEPT ![s] = None]
    BY DEF Restore
  <2>2. restoring \in [Sessions -> Entries \cup {None}]
    BY Typed
  <2>. HIDE DEF g
  <2>. QED  BY <1>1, <2>1, <2>2, RestoredOut
<1>3. UNCHANGED <<running, token, cancelled, steers, owner, takes, work, disk, sent, events>>
  BY DEF Restore
<1>4. TypeOK' /\ ReportsInv'
  BY <1>2, <1>3 DEF AdmissionInv, TypeOK, ReportsInv
<1>5. PlaceInv' /\ OneInv' /\ MarkInv'
  BY <1>3 DEF AdmissionInv, PlaceInv, OneInv, MarkInv, Active, Live
<1>6. ClaimInv'
  BY <1>1, <1>2, <1>3 DEF AdmissionInv, ClaimInv, Active, Out
<1>7. \A v \in Works : work[v].pc \in GuardPCs => work[v].s \in Sessions \ {s}
  BY WorkInSession DEF Restore, AdmissionInv, GuardInv, Active, GuardPCs
<1>8. GuardInv'
  BY <1>2, <1>3, <1>7 DEF AdmissionInv, GuardInv, Out
<1>9. RestoringInv'
  BY <1>2, <1>3 DEF AdmissionInv, RestoringInv, Out, Live
<1>10. RestInv'
  <2>1. ASSUME NEW t \in Sessions, data'[t] # None
        PROVE  (IF data[t].text = <<>>
                  THEN restoring[t] # None \/ \E v \in Works : work[v].s = t /\ work[v].pc \in GuardPCs
                  ELSE IsPrefix(disk[t], data[t].text))'
    <3>1. CASE t = s
      BY <1>1, <1>2, <1>3, <3>1 DEF Out
    <3>2. CASE t # s
      BY <1>2, <1>3, <2>1, <3>2 DEF AdmissionInv, RestInv
    <3>. QED  BY <3>1, <3>2
  <2>2. ASSUME NEW v \in Works
        PROVE  (/\ work[v].pc = "insert" => work[v].text # <<>> /\ IsPrefix(disk[work[v].s], work[v].text)
                /\ work[v].pc = "take" => data[work[v].s] # None)'
    <3>1. work[v].pc = "take" => work[v].s \in Sessions
      BY FoundAtTake
    <3>. QED  BY <1>2, <1>3, <3>1 DEF AdmissionInv, RestInv
  <2>. QED  BY <2>1, <2>2 DEF RestInv
<1>. QED  BY <1>4, <1>5, <1>6, <1>8, <1>9, <1>10 DEF AdmissionInv

------------------------------------------------------------------------------
(* The end of a work, and what frontends and other processes do *)

LEMMA SettleKeeps ==
    ASSUME AdmissionInv, NEW w \in Works, Settle(w)
    PROVE  AdmissionInv'
<1>. DEFINE s == work[w].s
<1>1. /\ work[w] \in WorkRecs /\ PlaceOK(work[w]) /\ work[w].pc = "ended" /\ Live(w) /\ Active(w)
      /\ s \in Sessions /\ restoring[s] = None
  BY WorkTyped, WorkInSession DEF Settle, RestorationOver, Live, Active, AdmissionInv
<1>2. s \in running /\ owner[s] \in {"held", "detaching"}
      /\ \A v \in Works \ {w} : Active(v) => work[v].s \in Sessions \ {s}
  BY <1>1, ActiveClaimed, WorkInSession DEF AdmissionInv, MarkInv
<1>3. /\ Moves(w) /\ work'[w].pc = "done" /\ work'[w].kind = work[w].kind /\ work'[w].s = s
  <2>1. PlaceOK([work[w] EXCEPT !.pc = "done"])
    BY <1>1 DEF WorkRecs, PlaceOK, EarlyPCs, TurnPCs
  <2>. QED  BY <2>1, GoesMoves DEF Settle
<1>4. /\ token' = [token EXCEPT ![s] = None] /\ steers' = [steers EXCEPT ![s] = None]
      /\ running' = running \ {s} /\ UNCHANGED <<cancelled, restoring, takes, disk, sent>>
  BY DEF Settle
<1>5. /\ owner' \in [Sessions -> {"free", "held", "detaching", "foreign"}]
      /\ data' \in [Sessions -> Entries \cup {None}]
      /\ \A t \in Sessions \ {s} : owner'[t] = owner[t] /\ data'[t] = data[t]
      /\ \/ owner'[s] = "free" /\ data'[s] = None
         \/ owner'[s] = "held" /\ data'[s] = data[s]
  <2>1. FinishDetach(s)
    BY DEF Settle
  <2>. QED  BY <1>1, <1>2, <2>1, Typed DEF FinishDetach
<1>6. ReportsInv'
  <2>1. work[w].why \in Reasons
    BY <1>1 DEF WorkRecs
  <2>2. Receipt(w) \in Reports
    BY <1>1, <2>1, EventTyped DEF Receipt
  <2>. QED  BY <2>2, SendTyped DEF Settle, AdmissionInv
<1>7. TypeOK'
  <2>1. (\A i \in DOMAIN events :
            LET e == events[i] IN
            /\ e.s \in Sessions /\ e.w \in Works
            /\ \/ e.kind = "done" /\ e.x \in Reasons
               \/ e.kind \in {"accepted", "blocked"} /\ e.x \in Steers
               \/ e.kind \in {"compacted", "error"} /\ e.x = None)'
    BY <1>6, ReportsTyped, PTL
  <2>2. token' \in [Sessions -> Works \cup {None}] /\ steers' \in [Sessions -> Seq(Steers) \cup {None}]
        /\ running' \subseteq Sessions
    BY <1>4 DEF AdmissionInv, TypeOK
  <2>. QED  BY <1>3, <1>4, <1>5, <2>1, <2>2 DEF AdmissionInv, TypeOK, Moves, WorkRecs
<1>8. PlaceInv'
  BY <1>3, MovesPlace DEF AdmissionInv
<1>9. \A v \in Works : (Active(v)' => Active(v) /\ v # w /\ work'[v] = work[v] /\ work[v].s \in Sessions \ {s})
                       /\ (Live(v)' => Live(v) /\ Active(v)')
  BY <1>2, <1>3 DEF Moves, Active, Live
<1>10. OneInv'
  BY <1>9 DEF AdmissionInv, OneInv
<1>11. MarkInv'
  <2>1. \A v \in Works : Live(v)' => work'[v].s \in running'
    BY <1>4, <1>9 DEF AdmissionInv, MarkInv
  <2>2. ASSUME NEW t \in Sessions
        PROVE  (/\ t \in running => token[t] \in Works /\ Live(token[t]) /\ work[token[t]].s = t
                /\ token[t] # None => t \in running
                /\ steers[t] # None <=> t \in running /\ work[token[t]].kind = "turn")'
    <3>1. CASE t = s
      BY <1>4, <3>1 DEF AdmissionInv, TypeOK
    <3>2. CASE t # s
      <4>1. token'[t] = token[t] /\ steers'[t] = steers[t] /\ (t \in running' <=> t \in running)
        BY <1>4, <3>2 DEF AdmissionInv, TypeOK
      <4>2. t \in running => token[t] \in Works /\ Live(token[t]) /\ work[token[t]].s = t
        BY DEF AdmissionInv, MarkInv
      <4>3. t \in running => work'[token[t]] = work[token[t]]
        BY <1>3, <3>2, <4>2 DEF Moves
      <4>. QED  BY <4>1, <4>2, <4>3 DEF AdmissionInv, MarkInv, Live
    <3>. QED  BY <3>1, <3>2
  <2>. QED  BY <2>1, <2>2 DEF MarkInv
<1>12. ClaimInv'
  <2>1. \A v \in Works : Active(v)' /\ work'[v].kind = "reload" => owner'[work'[v].s] = "held"
    BY <1>5, <1>9 DEF AdmissionInv, ClaimInv
  <2>. QED  BY <1>4, <1>5, <2>1 DEF AdmissionInv, ClaimInv
<1>13. \A v \in Works : /\ work[v].pc \in GuardPCs \cup {"insert", "take"} => Active(v) /\ v # w
                        /\ work'[v].pc \in GuardPCs \cup {"insert", "take"} => v # w /\ work'[v] = work[v]
  BY <1>1, <1>3 DEF Active, GuardPCs, Moves
<1>14. GuardInv'
  BY <1>2, <1>4, <1>5, <1>13 DEF AdmissionInv, GuardInv, Out
<1>15. RestoringInv'
  BY <1>1, <1>3, <1>4, <1>5 DEF AdmissionInv, RestoringInv, Out, Moves, Live
<1>16. RestInv'
  <2>1. ASSUME NEW t \in Sessions, data'[t] # None
        PROVE  (IF data[t].text = <<>>
                  THEN restoring[t] # None \/ \E v \in Works : work[v].s = t /\ work[v].pc \in GuardPCs
                  ELSE IsPrefix(disk[t], data[t].text))'
    <3>1. data'[t] = data[t] /\ restoring'[t] = restoring[t] /\ disk'[t] = disk[t]
      BY <1>4, <1>5, <2>1
    <3>2. \A v \in Works : work[v].pc \in GuardPCs => work'[v] = work[v]
      BY <1>3, <1>13 DEF Moves
    <3>3. IF data[t].text = <<>>
            THEN restoring[t] # None \/ \E v \in Works : work[v].s = t /\ work[v].pc \in GuardPCs
            ELSE IsPrefix(disk[t], data[t].text)
      BY <2>1, <3>1 DEF AdmissionInv, RestInv
    <3>. QED  BY <3>1, <3>2, <3>3
  <2>2. ASSUME NEW v \in Works
        PROVE  (/\ work[v].pc = "insert" => work[v].text # <<>> /\ IsPrefix(disk[work[v].s], work[v].text)
                /\ work[v].pc = "take" => data[work[v].s] # None)'
    BY <1>2, <1>4, <1>5, <1>13 DEF AdmissionInv, RestInv
  <2>. QED  BY <2>1, <2>2 DEF RestInv
<1>. QED  BY <1>6, <1>7, <1>8, <1>10, <1>11, <1>12, <1>14, <1>15, <1>16 DEF AdmissionInv

\* Nobody works in a session that is not running while no reload is under way.
LEMMA NobodyIn ==
    ASSUME AdmissionInv, ~Reloading, NEW s \in Sessions, s \notin running
    PROVE  \A v \in Works : Active(v) => work[v].s # s
<1>. SUFFICES ASSUME NEW v \in Works, Active(v), work[v].s = s
              PROVE  FALSE
  OBVIOUS
<1>1. work[v] \in WorkRecs /\ PlaceOK(work[v])
  BY WorkTyped
<1>2. work[v].kind # "reload"
  BY DEF Reloading, Active
<1>3. Live(v)
  BY <1>1, <1>2 DEF Live, Active, PlaceOK, WorkRecs
<1>. QED  BY <1>3 DEF AdmissionInv, MarkInv

LEMMA CancelKeeps ==
    ASSUME AdmissionInv, NEW s \in Sessions, Cancel(s)
    PROVE  AdmissionInv'
<1>1. cancelled' \subseteq Works
  BY DEF Cancel, AdmissionInv, TypeOK
<1>2. UNCHANGED <<running, token, steers, owner, data, restoring, takes, work, disk, sent, events>>
  BY DEF Cancel
<1>3. TypeOK' /\ ReportsInv'
  BY <1>1, <1>2 DEF AdmissionInv, TypeOK, ReportsInv
<1>4. PlaceInv' /\ OneInv' /\ MarkInv' /\ ClaimInv'
  BY <1>2 DEF AdmissionInv, PlaceInv, OneInv, MarkInv, ClaimInv, Active, Live
<1>5. GuardInv' /\ RestoringInv' /\ RestInv'
  BY <1>2 DEF AdmissionInv, GuardInv, RestoringInv, RestInv, Out, Live
<1>. QED  BY <1>3, <1>4, <1>5 DEF AdmissionInv

LEMMA SteerKeeps ==
    ASSUME AdmissionInv, NEW s \in Sessions, Steer(s)
    PROVE  AdmissionInv'
<1>1. UNCHANGED <<running, token, cancelled, owner, data, restoring, takes, work, disk, events>>
  BY DEF Steer
<1>2. sent + 1 \in Steers /\ sent' \in 0..MaxSteers
  BY DEF Steer, Steers, AdmissionInv, TypeOK
<1>3. /\ steers' \in [Sessions -> Seq(Steers) \cup {None}]
      /\ \A t \in Sessions : steers'[t] # None <=> steers[t] # None
  <2>1. steers \in [Sessions -> Seq(Steers) \cup {None}] /\ steers[s] \in Seq(Steers)
    BY Typed DEF Steer
  <2>2. Append(steers[s], sent + 1) \in Seq(Steers)
    BY <1>2, <2>1, AppendProperties
  <2>3. steers' = [steers EXCEPT ![s] = Append(steers[s], sent + 1)] /\ steers[s] # None
    BY DEF Steer
  <2>4. Append(steers[s], sent + 1) # None
    BY <2>2
  <2>. QED  BY <2>1, <2>2, <2>3, <2>4
<1>4. TypeOK' /\ ReportsInv'
  BY <1>1, <1>2, <1>3 DEF AdmissionInv, TypeOK, ReportsInv
<1>5. PlaceInv' /\ OneInv' /\ MarkInv' /\ ClaimInv'
  BY <1>1, <1>3 DEF AdmissionInv, PlaceInv, OneInv, MarkInv, ClaimInv, Active, Live
<1>6. GuardInv' /\ RestoringInv' /\ RestInv'
  BY <1>1 DEF AdmissionInv, GuardInv, RestoringInv, RestInv, Out, Live
<1>. QED  BY <1>4, <1>5, <1>6 DEF AdmissionInv

LEMMA AttachKeeps ==
    ASSUME AdmissionInv, NEW s \in Sessions, Attach(s)
    PROVE  AdmissionInv'
<1>1. UNCHANGED <<running, token, cancelled, steers, data, restoring, takes, work, disk, sent, events>>
  BY DEF Attach
<1>2. /\ owner' \in [Sessions -> {"free", "held", "detaching", "foreign"}] /\ owner'[s] = "held"
      /\ \A t \in Sessions \ {s} : owner'[t] = owner[t]
  BY Typed DEF Attach, Attached
<1>3. TypeOK' /\ ReportsInv'
  BY <1>1, <1>2 DEF AdmissionInv, TypeOK, ReportsInv
<1>4. PlaceInv' /\ OneInv' /\ MarkInv'
  BY <1>1 DEF AdmissionInv, PlaceInv, OneInv, MarkInv, Active, Live
<1>5. ClaimInv'
  <2>1. \A v \in Works : Active(v) => work[v].s \in Sessions
    BY WorkInSession DEF AdmissionInv
  <2>. QED  BY <1>1, <1>2, <2>1 DEF AdmissionInv, ClaimInv, Active
<1>6. GuardInv' /\ RestoringInv' /\ RestInv'
  BY <1>1 DEF AdmissionInv, GuardInv, RestoringInv, RestInv, Out, Live
<1>. QED  BY <1>3, <1>4, <1>5, <1>6 DEF AdmissionInv

LEMMA DetachKeeps ==
    ASSUME AdmissionInv, NEW s \in Sessions, Detach(s)
    PROVE  AdmissionInv'
<1>1. UNCHANGED <<running, token, cancelled, steers, restoring, takes, work, disk, sent, events>> /\ ~Reloading
  BY DEF Detach
<1>2. /\ owner' \in [Sessions -> {"free", "held", "detaching", "foreign"}]
      /\ data' \in [Sessions -> Entries \cup {None}]
      /\ \A t \in Sessions \ {s} : owner'[t] = owner[t] /\ data'[t] = data[t]
  BY Typed DEF Detach
<1>3. \A v \in Works : ~(Active(v) /\ work[v].kind = "reload")
  BY <1>1 DEF Reloading, Active
<1>4. TypeOK' /\ ReportsInv'
  BY <1>1, <1>2 DEF AdmissionInv, TypeOK, ReportsInv
<1>5. PlaceInv' /\ OneInv' /\ MarkInv'
  BY <1>1 DEF AdmissionInv, PlaceInv, OneInv, MarkInv, Active, Live
<1>6. CASE s \in running
  <2>1. owner'[s] = "detaching" /\ data' = data
    BY <1>6, Typed DEF Detach, AdmissionInv, ClaimInv
  <2>2. ClaimInv'
    BY <1>1, <1>2, <1>3, <1>6, <2>1 DEF AdmissionInv, ClaimInv, Active
  <2>3. GuardInv' /\ RestoringInv' /\ RestInv'
    BY <1>1, <2>1 DEF AdmissionInv, GuardInv, RestoringInv, RestInv, Out, Live
  <2>. QED  BY <1>4, <1>5, <2>2, <2>3 DEF AdmissionInv
<1>7. CASE s \notin running
  <2>1. data'[s] = None /\ owner'[s] \in {"free", "foreign"}
    BY <1>7, Typed DEF Detach, AdmissionInv, ClaimInv
  <2>2. ClaimInv'
    BY <1>1, <1>2, <1>3, <1>7, <2>1 DEF AdmissionInv, ClaimInv, Active
  <2>3. \A v \in Works : Active(v) => work[v].s \in Sessions \ {s}
    BY <1>1, <1>7, NobodyIn, WorkInSession DEF AdmissionInv
  <2>4. \A v \in Works : work[v].pc \in GuardPCs \cup {"insert", "take"} => work[v].s \in Sessions \ {s}
    BY <2>3 DEF Active, GuardPCs
  <2>5. restoring[s] = None
    BY <2>3 DEF AdmissionInv, RestoringInv, Live, Active
  <2>6. GuardInv'
    BY <1>1, <1>2, <2>4 DEF AdmissionInv, GuardInv, Out
  <2>7. RestoringInv'
    BY <1>1, <1>2, <2>5 DEF AdmissionInv, RestoringInv, Out, Live
  <2>8. RestInv'
    <3>1. ASSUME NEW t \in Sessions, data'[t] # None
          PROVE  (IF data[t].text = <<>>
                    THEN restoring[t] # None \/ \E v \in Works : work[v].s = t /\ work[v].pc \in GuardPCs
                    ELSE IsPrefix(disk[t], data[t].text))'
      BY <1>1, <1>2, <2>1, <3>1 DEF AdmissionInv, RestInv
    <3>2. ASSUME NEW v \in Works
          PROVE  (/\ work[v].pc = "insert" => work[v].text # <<>> /\ IsPrefix(disk[work[v].s], work[v].text)
                  /\ work[v].pc = "take" => data[work[v].s] # None)'
      BY <1>1, <1>2, <2>4 DEF AdmissionInv, RestInv
    <3>. QED  BY <3>1, <3>2 DEF RestInv
  <2>. QED  BY <1>4, <1>5, <2>2, <2>6, <2>7, <2>8 DEF AdmissionInv
<1>. QED  BY <1>6, <1>7

\* Another process comes to a session only while this one has nothing there.
LEMMA OtherProcessKeeps ==
    ASSUME AdmissionInv, NEW s \in Sessions, OtherProcess(s)
    PROVE  AdmissionInv'
<1>1. UNCHANGED <<running, token, cancelled, steers, data, restoring, takes, work, sent, events>>
  BY DEF OtherProcess
<1>2. /\ owner[s] \in {"free", "foreign"} /\ owner'[s] \in {"free", "foreign"}
      /\ owner' \in [Sessions -> {"free", "held", "detaching", "foreign"}]
      /\ \A t \in Sessions \ {s} : owner'[t] = owner[t]
  BY Typed DEF OtherProcess
<1>3. disk' \in [Sessions -> Texts] /\ \A t \in Sessions \ {s} : disk'[t] = disk[t]
  <2>1. disk \in [Sessions -> Texts] /\ disk[s] \in Texts
    BY Typed
  <2>2. <<System, Foreign>> \in Texts /\ Append(disk[s], Foreign) \in Texts
    BY <2>1 DEF Texts
  <2>3. disk' = disk \/ disk' = [disk EXCEPT ![s] = IF disk[s] = <<>> THEN <<System, Foreign>> ELSE Append(disk[s], Foreign)]
    BY DEF OtherProcess
  <2>. QED  BY <2>1, <2>2, <2>3
<1>4. s \notin running /\ data[s] = None
  BY <1>2 DEF AdmissionInv, ClaimInv
<1>5. \A v \in Works : Active(v) => work[v].s \in Sessions \ {s}
  BY <1>2, ActiveClaimed DEF AdmissionInv
<1>6. \A v \in Works : work[v].pc \in GuardPCs \cup {"insert", "take"} => work[v].s \in Sessions \ {s}
  BY <1>5 DEF Active, GuardPCs
<1>7. TypeOK' /\ ReportsInv'
  BY <1>1, <1>2, <1>3 DEF AdmissionInv, TypeOK, ReportsInv
<1>8. PlaceInv' /\ OneInv' /\ MarkInv'
  BY <1>1 DEF AdmissionInv, PlaceInv, OneInv, MarkInv, Active, Live
<1>9. ClaimInv'
  BY <1>1, <1>2, <1>4, <1>5 DEF AdmissionInv, ClaimInv, Active
<1>10. GuardInv'
  BY <1>1, <1>3, <1>6 DEF AdmissionInv, GuardInv, Out
<1>11. RestoringInv'
  BY <1>1, <1>3, <1>4 DEF AdmissionInv, RestoringInv, Out, Live
<1>12. RestInv'
  <2>1. ASSUME NEW t \in Sessions, data'[t] # None
        PROVE  (IF data[t].text = <<>>
                  THEN restoring[t] # None \/ \E v \in Works : work[v].s = t /\ work[v].pc \in GuardPCs
                  ELSE IsPrefix(disk[t], data[t].text))'
    BY <1>1, <1>3, <1>4, <2>1 DEF AdmissionInv, RestInv
  <2>2. ASSUME NEW v \in Works
        PROVE  (/\ work[v].pc = "insert" => work[v].text # <<>> /\ IsPrefix(disk[work[v].s], work[v].text)
                /\ work[v].pc = "take" => data[work[v].s] # None)'
    BY <1>1, <1>3, <1>6 DEF AdmissionInv, RestInv
  <2>. QED  BY <2>1, <2>2 DEF RestInv
<1>. QED  BY <1>7, <1>8, <1>9, <1>10, <1>11, <1>12 DEF AdmissionInv

\* A work begins in a session nobody works in.
LEMMA BeginsKeeps ==
    ASSUME AdmissionInv, NEW s \in Sessions, NEW w \in Works, NEW kind \in {"turn", "compact", "reload"},
           NEW pc \in {"gate", "hydrate"}, pc = "gate" => kind = "turn",
           ~Reloading, work[w].pc = "new", s \notin running, Attached(s),
           work' = [work EXCEPT ![w].kind = kind, ![w].s = s, ![w].pc = pc],
           UNCHANGED <<cancelled, data, restoring, takes, disk, sent, events>>,
           IF kind = "reload" THEN UNCHANGED <<running, token>>
             ELSE token' = [token EXCEPT ![s] = w] /\ running' = running \cup {s},
           steers' = IF kind = "turn" THEN [steers EXCEPT ![s] = <<>>] ELSE steers
    PROVE  AdmissionInv'
<1>. DEFINE k == work[w]
            r == [k EXCEPT !.kind = kind, !.s = s, !.pc = pc]
<1>1. k \in WorkRecs /\ PlaceOK(k) /\ k.pc = "new" /\ work' = [work EXCEPT ![w] = r]
  BY WorkTyped
<1>. HIDE DEF k
<1>2. r \in WorkRecs
  BY <1>1 DEF WorkRecs, InnerPCs
<1>3. r.pc = pc /\ r.kind = kind /\ r.s = s
  BY <1>1 DEF WorkRecs
<1>4. PlaceOK(r)
  BY <1>1 DEF WorkRecs, PlaceOK, EarlyPCs, TurnPCs
<1>. HIDE DEF r
<1>5. Moves(w) /\ work'[w] = r
  BY <1>1, <1>2, <1>4, PutMoves DEF AdmissionInv
<1>6. \A v \in Works : (Active(v) => work[v].s \in Sessions \ {s} /\ v # w) /\ ~(Active(v) /\ work[v].kind = "reload")
  BY <1>1, NobodyIn, WorkInSession DEF AdmissionInv, Reloading, Active, k
<1>7. /\ owner' \in [Sessions -> {"free", "held", "detaching", "foreign"}] /\ owner'[s] = "held"
      /\ \A t \in Sessions \ {s} : owner'[t] = owner[t]
  BY Typed DEF Attached
<1>8. <<>> \in Seq(Steers) /\ <<>> # None
  <2>1. <<>> \in Seq(Steers)
    OBVIOUS
  <2>. QED  BY <2>1
<1>9. /\ steers' \in [Sessions -> Seq(Steers) \cup {None}]
      /\ \A t \in Sessions \ {s} : steers'[t] = steers[t]
      /\ steers'[s] # None <=> kind = "turn"
  <2>1. steers \in [Sessions -> Seq(Steers) \cup {None}] /\ steers[s] = None
    BY Typed DEF AdmissionInv, MarkInv
  <2>. QED  BY <1>8, <2>1
<1>10. /\ token' \in [Sessions -> Works \cup {None}] /\ running' \subseteq Sessions
       /\ \A t \in Sessions \ {s} : token'[t] = token[t] /\ (t \in running' <=> t \in running)
       /\ kind # "reload" => token'[s] = w /\ s \in running'
       /\ kind = "reload" => s \notin running' /\ token'[s] = None
  <2>1. token \in [Sessions -> Works \cup {None}] /\ running \subseteq Sessions /\ token[s] = None
    BY DEF AdmissionInv, TypeOK, MarkInv
  <2>. QED  BY <2>1
<1>11. TypeOK' /\ ReportsInv'
  BY <1>5, <1>7, <1>9, <1>10 DEF AdmissionInv, TypeOK, ReportsInv, Moves, WorkRecs
<1>12. PlaceInv'
  BY <1>5, MovesPlace DEF AdmissionInv
<1>13. \A v \in Works \ {w} : (Active(v)' <=> Active(v)) /\ (Live(v)' <=> Live(v)) /\ work'[v] = work[v]
                              /\ (Live(v) => Active(v))
  BY <1>5 DEF Moves, Active, Live
<1>14. OneInv'
  <2>1. ASSUME NEW v \in Works \ {w}, Active(v)'
        PROVE  work'[v].s # work'[w].s
    BY <1>3, <1>5, <1>6, <1>13, <2>1
  <2>2. ASSUME NEW u \in Works \ {w}, NEW v \in Works \ {w}, Active(u)', Active(v)', work'[u].s = work'[v].s
        PROVE  u = v
    BY <1>13, <2>2 DEF AdmissionInv, OneInv
  <2>. QED  BY <2>1, <2>2 DEF OneInv
<1>15. Live(w)' <=> kind # "reload"
  BY <1>3, <1>5 DEF Live
<1>16. MarkInv'
  <2>1. \A v \in Works : Live(v)' => work'[v].s \in running'
    <3>1. ASSUME NEW v \in Works \ {w}, Live(v)'
          PROVE  work'[v].s \in running'
      BY <1>6, <1>10, <1>13, <3>1 DEF AdmissionInv, MarkInv
    <3>. QED  BY <1>3, <1>5, <1>10, <1>15, <3>1
  <2>2. ASSUME NEW t \in Sessions
        PROVE  (/\ t \in running => token[t] \in Works /\ Live(token[t]) /\ work[token[t]].s = t
                /\ token[t] # None => t \in running
                /\ steers[t] # None <=> t \in running /\ work[token[t]].kind = "turn")'
    <3>1. CASE t = s
      BY <1>3, <1>5, <1>9, <1>10, <1>15, <3>1
    <3>2. CASE t # s
      <4>1. t \in running => token[t] \in Works /\ Live(token[t]) /\ work[token[t]].s = t
        BY DEF AdmissionInv, MarkInv
      <4>2. t \in running => token[t] # w
        BY <1>1, <4>1 DEF Live, k
      <4>3. t \in running => work'[token[t]] = work[token[t]]
        BY <1>5, <4>1, <4>2 DEF Moves
      <4>4. token'[t] = token[t] /\ steers'[t] = steers[t] /\ (t \in running' <=> t \in running)
        BY <1>9, <1>10, <3>2
      <4>. QED  BY <4>1, <4>3, <4>4 DEF AdmissionInv, MarkInv, Live
    <3>. QED  BY <3>1, <3>2
  <2>. QED  BY <2>1, <2>2 DEF MarkInv
<1>17. ClaimInv'
  <2>1. \A v \in Works : Active(v)' /\ work'[v].kind = "reload" => owner'[work'[v].s] = "held"
    <3>. SUFFICES ASSUME NEW v \in Works, Active(v)', work'[v].kind = "reload"
                  PROVE  owner'[work'[v].s] = "held"
      OBVIOUS
    <3>1. CASE v = w
      BY <1>3, <1>5, <1>7, <3>1
    <3>2. CASE v # w
      BY <1>6, <1>13, <3>2
    <3>. QED  BY <3>1, <3>2
  <2>2. \A t \in Sessions : /\ (t \in running \/ data[t] # None => owner[t] \in {"held", "detaching"})'
                            /\ (owner[t] = "detaching" => t \in running)'
    BY <1>7, <1>10 DEF AdmissionInv, ClaimInv
  <2>. QED  BY <2>1, <2>2 DEF ClaimInv
<1>18. StaysIn(w)
  BY <1>1, <1>3, <1>5 DEF StaysIn, GuardPCs, Live, k
<1>. QED  BY <1>11, <1>12, <1>14, <1>16, <1>17, <1>18, InKeepsTranscripts DEF AdmissionInv

LEMMA StartKeeps ==
    ASSUME AdmissionInv, NEW s \in Sessions, NEW w \in Works, Start(w, s) \/ Compact(w, s) \/ Reload(w, s)
    PROVE  AdmissionInv'
<1>1. CASE Start(w, s)
  BY <1>1, BeginsKeeps DEF Start, Admit
<1>2. CASE Compact(w, s)
  BY <1>2, BeginsKeeps DEF Compact, Admit
<1>3. CASE Reload(w, s)
  BY <1>3, BeginsKeeps DEF Reload
<1>. QED  BY <1>1, <1>2, <1>3

------------------------------------------------------------------------------
LEMMA AdmissionInit == Init => AdmissionInv
<1>. SUFFICES ASSUME Init PROVE AdmissionInv
  OBVIOUS
<1>. DEFINE k == [kind |-> "none", s |-> None, pc |-> "new",
                  take |-> 0, text |-> <<>>, queue |-> <<>>, accepted |-> <<>>,
                  last |-> FALSE, iter |-> 0, why |-> "stop"]
<1>1. <<>> \in Seq(Steers) /\ <<>> \in Seq(Reports) /\ DOMAIN <<>> = {}
  OBVIOUS
<1>2. k \in WorkRecs
  BY <1>1, EmptyText DEF WorkRecs, Reasons
<1>3. PlaceOK(k)
  BY DEF PlaceOK, EarlyPCs, TurnPCs
<1>4. \A w \in Works : work[w] = k
  BY DEF Init
<1>5. work \in [Works -> WorkRecs]
  BY <1>2 DEF Init
<1>6. k.pc = "new"
  OBVIOUS
<1>. HIDE DEF k
<1>7. TypeOK /\ ReportsInv
  <2>1. ReportsInv /\ DOMAIN events = {}
    BY <1>1 DEF Init, ReportsInv
  <2>2. data \in [Sessions -> Entries \cup {None}] /\ restoring \in [Sessions -> Entries \cup {None}]
        /\ steers \in [Sessions -> Seq(Steers) \cup {None}] /\ token \in [Sessions -> Works \cup {None}]
    BY DEF Init
  <2>3. disk \in [Sessions -> Texts]
    BY EmptyText DEF Init
  <2>4. owner \in [Sessions -> {"free", "held", "detaching", "foreign"}]
        /\ running \subseteq Sessions /\ cancelled \subseteq Works /\ takes \in Nat /\ sent \in 0..MaxSteers
    BY DEF Init
  <2>. QED  BY <1>5, <2>1, <2>2, <2>3, <2>4 DEF TypeOK, WorkRecs
<1>8. PlaceInv
  BY <1>3, <1>4 DEF PlaceInv
<1>9. \A w \in Works : work[w].pc = "new"
  BY <1>4, <1>6
<1>10. OneInv /\ MarkInv /\ ClaimInv
  BY <1>9 DEF OneInv, MarkInv, ClaimInv, Active, Live, Init
<1>11. GuardInv /\ RestoringInv /\ RestInv
  BY <1>9 DEF GuardInv, RestoringInv, RestInv, GuardPCs, Init
<1>. QED  BY <1>7, <1>8, <1>10, <1>11 DEF AdmissionInv

LEMMA AdmissionStep == AdmissionInv /\ [Next]_vars => AdmissionInv'
<1>. SUFFICES ASSUME AdmissionInv, [Next]_vars PROVE AdmissionInv'
  OBVIOUS
<1>1. ASSUME NEW w \in Works, Run(w)
      PROVE  AdmissionInv'
  BY <1>1, GateKeeps, HydrateKeeps, BuildKeeps, InsertKeeps, TakeKeeps, FreezeKeeps, ResolveKeeps,
     TakeSteersKeeps, JudgeKeeps, AcceptSteersKeeps, RequestKeeps, ConsultKeeps, PruneKeeps, CloseKeeps,
     CommitKeeps, SettleKeeps, ReloadFailsKeeps DEF Run
<1>2. ASSUME NEW s \in Sessions, Call(s)
      PROVE  AdmissionInv'
  BY <1>2, StartKeeps, CancelKeeps, SteerKeeps, AttachKeeps, DetachKeeps DEF Call
<1>3. CASE UNCHANGED vars
  <2>. USE <1>3 DEF vars
  <2>1. TypeOK' /\ ReportsInv'
    BY DEF AdmissionInv, TypeOK, ReportsInv
  <2>4. PlaceInv' /\ OneInv'
    BY DEF AdmissionInv, PlaceInv, OneInv, Active
  <2>2. MarkInv' /\ ClaimInv'
    BY DEF AdmissionInv, MarkInv, ClaimInv, Active, Live
  <2>3. GuardInv' /\ RestoringInv' /\ RestInv'
    BY DEF AdmissionInv, GuardInv, RestoringInv, RestInv, Out, Live
  <2>. QED  BY <2>1, <2>2, <2>3, <2>4 DEF AdmissionInv
<1>. QED  BY <1>1, <1>2, <1>3, PanicKeeps, RestoreKeeps, OtherProcessKeeps DEF Next, Background

\* The inductive invariant: places, marks, claims, and where each transcript is.
THEOREM AdmissionInvariant == Spec => []AdmissionInv
BY AdmissionInit, AdmissionStep, PTL DEF Spec

------------------------------------------------------------------------------
(* One work, one transcript *)

\* Where a loaded session's transcript is: in the map, in a guard, or with the
\* task that will put it back.
TextOut(s, w) == work[w].s = s /\ work[w].pc \in GuardPCs
Located(s) ==
    data[s] # None =>
        /\ data[s].text # <<>> => Transcript(s) = data[s].text
        /\ restoring[s] # None => Transcript(s) = restoring[s].text
        /\ \A w \in Works : TextOut(s, w) => Transcript(s) = work[w].text
        /\ data[s].text # <<>> \/ restoring[s] # None \/ \E w \in Works : TextOut(s, w)
        /\ Transcript(s) \in Texts

LocatedInv == \A s \in Sessions : Located(s)

LEMMA WhereTheTextIs == AdmissionInv => LocatedInv
<1>. SUFFICES ASSUME AdmissionInv, NEW s \in Sessions, data[s] # None
              PROVE  /\ data[s].text # <<>> => Transcript(s) = data[s].text
                     /\ restoring[s] # None => Transcript(s) = restoring[s].text
                     /\ \A w \in Works : TextOut(s, w) => Transcript(s) = work[w].text
                     /\ data[s].text # <<>> \/ restoring[s] # None \/ \E w \in Works : TextOut(s, w)
                     /\ Transcript(s) \in Texts
  BY DEF Located, LocatedInv
<1>1. data[s].text # <<>> => Transcript(s) = data[s].text
  BY DEF Transcript
<1>2. restoring[s] # None => Transcript(s) = restoring[s].text
  BY DEF Transcript, AdmissionInv, RestoringInv, Out
<1>3. ASSUME NEW w \in Works, TextOut(s, w)
      PROVE  Transcript(s) = work[w].text
  <2>. DEFINE ws == {v \in LiveIn(s) : work[v].pc \in GuardPCs}
  <2>1. Active(w) /\ Out(s, work[w]) /\ restoring[s] = None
    BY <1>3 DEF TextOut, Active, GuardPCs, AdmissionInv, GuardInv
  <2>2. w \in ws
    <3>1. work[w] \in WorkRecs /\ PlaceOK(work[w])
      BY WorkTyped
    <3>2. work[w].kind \in {"turn", "compact"}
      BY <1>3, <3>1 DEF TextOut, GuardPCs, PlaceOK, TurnPCs, WorkRecs
    <3>. QED  BY <1>3, <2>1, <3>2 DEF LiveIn, Live, TextOut, Active
  <2>3. \A v \in ws : v = w
    BY <1>3, <2>1, WorkInSession DEF LiveIn, Live, Active, TextOut, AdmissionInv, GuardPCs
  <2>4. ws # {} /\ (CHOOSE v \in ws : TRUE) = w
    BY <2>2, <2>3
  <2>. QED  BY <2>1, <2>4 DEF Transcript, Out
<1>4. data[s].text # <<>> \/ restoring[s] # None \/ \E w \in Works : TextOut(s, w)
  BY DEF AdmissionInv, RestInv, TextOut
<1>5. /\ data[s].text \in Texts /\ (restoring[s] # None => restoring[s].text \in Texts)
      /\ \A w \in Works : work[w].text \in Texts
  BY Typed DEF Entries
<1>. QED  BY <1>1, <1>2, <1>3, <1>4, <1>5

LEMMA AdmissionMeans == AdmissionInv => OneWorkOneTranscript
<1>. SUFFICES ASSUME AdmissionInv PROVE OneWorkOneTranscript
  OBVIOUS
<1>1. RunningIsCancellable
  <2>. SUFFICES ASSUME NEW s \in Sessions
                PROVE  LiveIn(s) = IF s \in running THEN {token[s]} ELSE {}
    BY DEF AdmissionInv, MarkInv, RunningIsCancellable
  <2>1. s \in running => token[s] \in LiveIn(s)
    BY DEF AdmissionInv, MarkInv, LiveIn
  <2>2. \A v \in LiveIn(s) : s \in running /\ v = token[s]
    BY <2>1 DEF AdmissionInv, MarkInv, OneInv, LiveIn, Live, Active
  <2>. QED  BY <2>1, <2>2
<1>2. OwnedWhileLoaded
  BY DEF AdmissionInv, ClaimInv, OwnedWhileLoaded
<1>3. HydratedAtTake
  <2>. SUFFICES ASSUME NEW w \in Works, work[w].pc = "take"
                PROVE  data[work[w].s] # None /\ data[work[w].s].text # <<>>
    BY DEF HydratedAtTake
  <2>. QED  BY FoundAtTake, EmptyText
<1>4. DiskBehindMemory
  <2>. SUFFICES ASSUME NEW s \in Sessions PROVE IsPrefix(disk[s], Transcript(s))
    BY DEF DiskBehindMemory
  <2>1. CASE data[s] = None
    <3>1. disk[s] \in Texts
      BY Typed
    <3>. QED  BY <2>1, <3>1, PrefixSelf DEF Transcript, Texts
  <2>2. CASE data[s] # None
    <3>1. Located(s)
      BY WhereTheTextIs DEF LocatedInv
    <3>2. CASE data[s].text # <<>>
      BY <2>2, <3>1, <3>2 DEF Located, AdmissionInv, RestInv
    <3>3. CASE restoring[s] # None
      BY <2>2, <3>1, <3>3 DEF Located, AdmissionInv, RestoringInv, Out
    <3>4. ASSUME NEW w \in Works, TextOut(s, w)
          PROVE  IsPrefix(disk[s], Transcript(s))
      <4>1. IsPrefix(disk[s], work[w].text)
        BY <3>4 DEF TextOut, AdmissionInv, GuardInv, Out
      <4>. QED  BY <2>2, <3>1, <3>4, <4>1 DEF Located
    <3>. QED  BY <2>2, <3>1, <3>2, <3>3, <3>4 DEF Located
  <2>. QED  BY <2>1, <2>2
<1>. QED  BY <1>1, <1>2, <1>3, <1>4 DEF OneWorkOneTranscript, AdmissionInv

\* At any moment a session is served by one work, which can be cancelled, on a
\* transcript that is claimed, loaded and no older than the file.
THEOREM OneWorkEach == Spec => []OneWorkOneTranscript
BY AdmissionInvariant, AdmissionMeans, PTL

------------------------------------------------------------------------------
(* A transcript only grows *)

\* Before its endpoint resolves a turn's transcript ends with its prompt.
PromptInv == \A w \in Works : work[w].pc = "resolve" => work[w].text = Append(Front(work[w].text), w)

\* All of a work's own step that the transcripts can tell.
WorkOnly(w) == \A v \in Works \ {w} : work'[v] = work[v]

LEMMA StepIsOfOne ==
    ASSUME AdmissionInv, NEW w \in Works, Run(w) \/ Panic(w) \/ \E s \in Sessions : Start(w, s) \/ Compact(w, s) \/ Reload(w, s)
    PROVE  WorkOnly(w)
<1>1. work \in [Works -> WorkRecs]
  BY DEF AdmissionInv, TypeOK, WorkRecs
<1>2. CASE Gate(w) \/ Hydrate(w) \/ Build(w) \/ Insert(w) \/ Take(w) \/ Freeze(w)
  BY <1>1, <1>2 DEF WorkOnly, Gate, Hydrate, Build, Insert, Take, Freeze, Goto, GotoFor
<1>3. CASE Resolve(w) \/ TakeSteers(w) \/ Judge(w) \/ AcceptSteers(w) \/ Request(w) \/ Consult(w)
  BY <1>1, <1>3 DEF WorkOnly, Resolve, TakeSteers, Judge, AcceptSteers, Request, Consult, Goto, GotoFor
<1>4. CASE Prune(w) \/ Close(w) \/ Commit(w) \/ Settle(w) \/ ReloadFails(w) \/ Panic(w)
  BY <1>1, <1>4 DEF WorkOnly, Prune, Close, Commit, Settle, ReloadFails, Panic, Goto, GotoFor
<1>5. CASE \E s \in Sessions : Start(w, s) \/ Compact(w, s) \/ Reload(w, s)
  BY <1>1, <1>5 DEF WorkOnly, Start, Compact, Reload
<1>. QED  BY <1>2, <1>3, <1>4, <1>5 DEF Run

\* A work with its transcript out that goes on with it, or with more.
GoesOn(w) ==
    /\ work[w].pc \in GuardPCs /\ work'[w].pc \in GuardPCs \ {"resolve"} /\ work'[w].s = work[w].s
    /\ IsPrefix(work[w].text, work'[w].text)
    /\ UNCHANGED <<data, restoring>>

LEMMA SameTextGoesOn ==
    ASSUME AdmissionInv, NEW w \in Works, work[w].pc \in GuardPCs, work'[w].pc \in GuardPCs \ {"resolve"},
           work'[w].s = work[w].s, work'[w].text = work[w].text, UNCHANGED <<data, restoring>>
    PROVE  GoesOn(w)
<1>1. work[w].text \in Texts
  BY Typed
<1>. QED  BY <1>1, PrefixSelf DEF GoesOn, Texts

LEMMA TurnGoesOn ==
    ASSUME AdmissionInv, NEW w \in Works,
           TakeSteers(w) \/ Judge(w) \/ Request(w) \/ Consult(w) \/ Prune(w) \/ Close(w)
    PROVE  GoesOn(w) /\ (work'[w].pc = "judge" => TakeSteers(w) \/ Judge(w))
<1>1. work \in [Works -> WorkRecs]
  BY DEF AdmissionInv, TypeOK, WorkRecs
<1>2. work[w] \in WorkRecs
  BY <1>1
<1>3. ASSUME TakeSteers(w)
      PROVE  work[w].pc = "boundary" /\ work'[w].pc = "judge" /\ work'[w].s = work[w].s /\ work'[w].text = work[w].text
  BY <1>1, <1>2, <1>3 DEF TakeSteers, WorkRecs
<1>4. ASSUME Judge(w)
      PROVE  work[w].pc = "judge" /\ work'[w].pc = "judge" /\ work'[w].s = work[w].s /\ work'[w].text = work[w].text
  BY <1>1, <1>2, <1>4 DEF Judge, WorkRecs
<1>5. ASSUME Request(w)
      PROVE  /\ work[w].pc = "request" /\ work'[w].s = work[w].s /\ work'[w].text = work[w].text
             /\ work'[w].pc \in {"close", "boundary", "consult"}
  BY <1>1, <1>2, <1>5 DEF Request, Goto, GotoFor, NextIteration, WorkRecs
<1>6. ASSUME Consult(w)
      PROVE  /\ work[w].pc = "consult" /\ work'[w].s = work[w].s /\ work'[w].text = work[w].text
             /\ work'[w].pc \in {"close", "boundary"}
  BY <1>1, <1>2, <1>6 DEF Consult, Goto, NextIteration, WorkRecs
<1>7. ASSUME Prune(w)
      PROVE  /\ work[w].pc = "prune" /\ work'[w].pc = "commit" /\ work'[w].s = work[w].s
             /\ work'[w].text = work[w].text
  BY <1>1, <1>2, <1>7 DEF Prune, GotoFor, WorkRecs
<1>8. ASSUME Close(w)
      PROVE  /\ work[w].pc = "close" /\ work'[w].pc = "commit" /\ work'[w].s = work[w].s
             /\ work'[w].text = work[w].text
  BY <1>1, <1>2, <1>8 DEF Close, Goto, WorkRecs
<1>9. UNCHANGED <<data, restoring>>
  BY DEF TakeSteers, Judge, Request, Consult, Prune, Close
<1>. QED  BY <1>3, <1>4, <1>5, <1>6, <1>7, <1>8, <1>9, SameTextGoesOn DEF GuardPCs

LEMMA AcceptGoesOn ==
    ASSUME AdmissionInv, NEW w \in Works, AcceptSteers(w)
    PROVE  GoesOn(w) /\ work'[w].pc # "judge"
<1>. DEFINE k == work[w]
            enter == k.accepted # <<>> /\ w \notin cancelled
            text == IF enter THEN k.text \o k.accepted ELSE k.text
            iter == IF k.last /\ enter THEN k.iter + 1 ELSE k.iter
            why == IF k.last /\ w \in cancelled THEN "cancelled" ELSE k.why
            pc == CASE ~k.last -> "request"
                    [] k.last /\ enter -> "boundary"
                    [] OTHER -> IF w \in cancelled THEN "close" ELSE "consult"
            r == [k EXCEPT !.text = text, !.queue = <<>>, !.accepted = <<>>, !.last = FALSE,
                           !.iter = iter, !.why = why, !.pc = pc]
<1>1. k \in WorkRecs /\ k.pc = "judge" /\ k.last \in BOOLEAN /\ work \in [Works -> WorkRecs]
  BY WorkTyped DEF AcceptSteers, WorkRecs, AdmissionInv, TypeOK
<1>2. IsPrefix(k.text, text)
  <2>1. k.text \in Texts /\ k.accepted \in Seq(Steers)
    BY <1>1 DEF WorkRecs
  <2>2. k.accepted \in Texts
    <3>1. Steers \subseteq Works \cup Steers \cup {System, Foreign}
      OBVIOUS
    <3>. QED  BY <2>1, <3>1, SeqMonotonic DEF Texts
  <2>3. IsPrefix(k.text, k.text)
    BY <2>1, PrefixSelf DEF Texts
  <2>4. IsPrefix(k.text, k.text \o k.accepted)
    BY <2>1, <2>2, <2>3, PrefixConcat DEF Texts
  <2>. QED  BY <2>3, <2>4
<1>3. pc \in {"request", "boundary", "close", "consult"}
  BY <1>1
<1>4. work' = [work EXCEPT ![w] = r] /\ UNCHANGED <<data, restoring>>
  BY DEF AcceptSteers
<1>. HIDE DEF text, iter, why, pc, k
<1>5. r.pc = pc /\ r.text = text /\ r.s = k.s
  BY <1>1 DEF WorkRecs
<1>. HIDE DEF r
<1>6. work'[w] = r
  BY <1>1, <1>4
<1>. QED  BY <1>1, <1>2, <1>3, <1>4, <1>5, <1>6 DEF GoesOn, GuardPCs, k

\* The steps of a work that has no transcript out, but for its take.
LEMMA StaysWithout ==
    ASSUME AdmissionInv, NEW w \in Works,
           \/ Gate(w) \/ Hydrate(w) \/ Build(w) \/ Insert(w) \/ Freeze(w) \/ Settle(w) \/ ReloadFails(w)
           \/ \E s \in Sessions : Start(w, s) \/ Compact(w, s) \/ Reload(w, s)
    PROVE  /\ work[w].pc \notin GuardPCs /\ work'[w].pc \notin GuardPCs /\ UNCHANGED restoring
           /\ \A s \in Sessions : data[s] # None /\ data'[s] # None => data'[s] = data[s]
<1>1. work \in [Works -> WorkRecs] /\ data \in [Sessions -> Entries \cup {None}] /\ UNCHANGED restoring
  BY Typed DEF AdmissionInv, TypeOK, WorkRecs, Gate, Hydrate, Build, Insert, Freeze, Settle, ReloadFails,
               Start, Compact, Reload
<1>2. work[w] \in WorkRecs
  BY <1>1
<1>3. CASE Gate(w)
  BY <1>1, <1>2, <1>3 DEF Gate, Goto, GotoFor, GuardPCs, WorkRecs
<1>4. CASE Hydrate(w)
  BY <1>1, <1>2, <1>4 DEF Hydrate, Goto, GuardPCs, WorkRecs
<1>5. CASE Build(w)
  BY <1>1, <1>2, <1>5 DEF Build, GotoFor, GuardPCs, WorkRecs
<1>6. CASE Insert(w)
  BY <1>1, <1>2, <1>6 DEF Insert, GuardPCs, WorkRecs
<1>7. CASE Freeze(w) \/ ReloadFails(w)
  BY <1>1, <1>2, <1>7 DEF Freeze, ReloadFails, Goto, GuardPCs, WorkRecs
<1>8. CASE Settle(w)
  <2>1. work[w].pc = "ended" /\ work'[w].pc = "done"
    BY <1>1, <1>2, <1>8 DEF Settle, Goto, WorkRecs
  <2>2. data' = data \/ data' = [data EXCEPT ![work[w].s] = None]
    BY <1>8 DEF Settle, FinishDetach
  <2>. QED  BY <1>1, <2>1, <2>2 DEF GuardPCs
<1>9. CASE \E s \in Sessions : Start(w, s) \/ Compact(w, s) \/ Reload(w, s)
  <2>1. work[w].pc = "new" /\ UNCHANGED data
    BY <1>9 DEF Start, Compact, Reload
  <2>2. \E s \in Sessions, k \in {"turn", "compact", "reload"}, l \in {"gate", "hydrate"} :
          work' = [work EXCEPT ![w].kind = k, ![w].s = s, ![w].pc = l]
    BY <1>9 DEF Start, Compact, Reload
  <2>3. work'[w].pc \in {"gate", "hydrate"}
    <3>1. PICK s \in Sessions, k \in {"turn", "compact", "reload"}, l \in {"gate", "hydrate"} :
            work' = [work EXCEPT ![w].kind = k, ![w].s = s, ![w].pc = l]
      BY <2>2
    <3>. DEFINE m == work[w]
                q == [m EXCEPT !.kind = k, !.s = s, !.pc = l]
    <3>2. m \in WorkRecs /\ work' = [work EXCEPT ![w] = q]
      BY <1>2, <3>1
    <3>. HIDE DEF m
    <3>3. q.pc = l
      BY <3>2 DEF WorkRecs
    <3>. HIDE DEF q
    <3>4. work'[w] = q
      BY <1>1, <3>2
    <3>. QED  BY <3>3, <3>4
  <2>. QED  BY <1>1, <2>1, <2>3 DEF GuardPCs
<1>. QED  BY <1>1, <1>3, <1>4, <1>5, <1>6, <1>7, <1>8, <1>9

\* A work that lets go of its transcript puts it back, or leaves that to be done.
LEMMA LetsGo ==
    ASSUME AdmissionInv, NEW w \in Works, Commit(w) \/ (Panic(w) /\ work[w].pc \in GuardPCs)
    PROVE  LET s == work[w].s
               g == [take |-> work[w].take, text |-> work[w].text]
           IN  /\ work[w].pc \in GuardPCs /\ work'[w].pc \notin GuardPCs
               /\ \/ data' = Restored(s, g) /\ UNCHANGED restoring
                  \/ restoring' = [restoring EXCEPT ![s] = g] /\ UNCHANGED data
<1>1. work \in [Works -> WorkRecs] /\ work[w] \in WorkRecs
  BY WorkTyped DEF AdmissionInv, TypeOK, WorkRecs
<1>2. CASE Commit(w)
  <2>1. work[w].pc = "commit" /\ work'[w].pc = "ended"
    BY <1>1, <1>2 DEF Commit, WorkRecs
  <2>. QED  BY <1>2, <2>1 DEF Commit, Restored, GuardPCs
<1>3. CASE Panic(w) /\ work[w].pc \in GuardPCs
  <2>1. work'[w].pc = "ended"
    BY <1>1, <1>3 DEF Panic, WorkRecs
  <2>. QED  BY <1>3, <2>1 DEF Panic, GuardPCs
<1>. QED  BY <1>2, <1>3

\* Without its transcript a panic changes none.
LEMMA PanicsWithout ==
    ASSUME AdmissionInv, NEW w \in Works, Panic(w), work[w].pc \notin GuardPCs
    PROVE  work'[w].pc \notin GuardPCs /\ UNCHANGED <<data, restoring>>
<1>1. work \in [Works -> WorkRecs] /\ work[w] \in WorkRecs
  BY WorkTyped DEF AdmissionInv, TypeOK, WorkRecs
<1>2. work'[w].pc = "ended"
  BY <1>1 DEF Panic, WorkRecs
<1>. QED  BY <1>2 DEF Panic, GuardPCs

\* What a take leaves: the transcript, with a turn's prompt on it, in the guard.
LEMMA TakesOut ==
    ASSUME AdmissionInv, NEW w \in Works, Take(w)
    PROVE  /\ work[w].pc = "take" /\ work'[w].s = work[w].s /\ UNCHANGED restoring
           /\ \A t \in Sessions \ {work[w].s} : data'[t] = data[t]
           /\ \/ work'[w].pc = "ended" /\ UNCHANGED data
              \/ /\ work'[w].pc = IF work[w].kind = "turn" THEN "resolve" ELSE "prune"
                 /\ work'[w].text = Taken(w) /\ data[work[w].s] # None
<1>1. work \in [Works -> WorkRecs] /\ work[w] \in WorkRecs /\ data \in [Sessions -> Entries \cup {None}]
  BY WorkTyped, Typed DEF AdmissionInv, TypeOK, WorkRecs
<1>2. work[w].pc = "take" /\ UNCHANGED restoring
  BY DEF Take
<1>3. CASE GotoFor(w, "ended", {"error"}) /\ UNCHANGED <<data, takes>>
  BY <1>1, <1>2, <1>3 DEF GotoFor, WorkRecs
<1>4. CASE /\ data[work[w].s] # None
           /\ data' = [data EXCEPT ![work[w].s] = [take |-> takes + 1, text |-> <<>>]]
           /\ work' = [work EXCEPT ![w].take = takes + 1, ![w].text = Taken(w),
                         ![w].pc = IF work[w].kind = "turn" THEN "resolve" ELSE "prune"]
  <2>1. /\ work'[w].pc = IF work[w].kind = "turn" THEN "resolve" ELSE "prune"
        /\ work'[w].text = Taken(w) /\ work'[w].s = work[w].s
    BY <1>1, <1>4 DEF WorkRecs
  <2>. QED  BY <1>1, <1>2, <1>4, <2>1
<1>. QED  BY <1>3, <1>4 DEF Take

\* What a transcript becomes by a step: itself, more, or itself without the
\* prompt of a turn whose endpoint does not resolve.
Grows(s) ==
    data[s] # None /\ data'[s] # None =>
        \/ IsPrefix(Transcript(s), Transcript(s)')
        \/ \E w \in Works : work[w].pc = "resolve" /\ Transcript(s) = Append(Transcript(s)', w)

\* It is where it was, or where its guard has more of it.
LEMMA SameHolder ==
    ASSUME NEW s \in Sessions, Located(s), Located(s)', data[s] # None, data'[s] = data[s], restoring'[s] = restoring[s],
           \A w \in Works : TextOut(s, w) => TextOut(s, w)' /\ IsPrefix(work[w].text, work'[w].text)
    PROVE  Grows(s)
<1>1. Transcript(s) \in Texts /\ IsPrefix(Transcript(s), Transcript(s))
  <2>1. Transcript(s) \in Texts
    BY DEF Located
  <2>. QED  BY <2>1, PrefixSelf DEF Texts
<1>2. CASE data[s].text # <<>>
  BY <1>1, <1>2 DEF Located, Grows
<1>3. CASE restoring[s] # None
  BY <1>1, <1>3 DEF Located, Grows
<1>4. ASSUME NEW w \in Works, TextOut(s, w)
      PROVE  Grows(s)
  <2>1. TextOut(s, w)' /\ IsPrefix(work[w].text, work'[w].text)
    BY <1>4
  <2>2. Transcript(s) = work[w].text /\ Transcript(s)' = work'[w].text
    BY <1>4, <2>1 DEF Located
  <2>. QED  BY <2>1, <2>2 DEF Grows
<1>. QED  BY <1>2, <1>3, <1>4 DEF Located

\* What only work w and the map's entry for its session see changes no other
\* session's transcript.
LEMMA OthersGrow ==
    ASSUME AdmissionInv, NEW w \in Works, WorkOnly(w), NEW s \in Sessions, Located(s), Located(s)',
           data[s] # None, data'[s] = data[s], restoring'[s] = restoring[s], ~TextOut(s, w)
    PROVE  Grows(s)
<1>1. \A v \in Works : TextOut(s, v) => v # w /\ work'[v] = work[v] /\ work[v].text \in Texts
  BY Typed DEF WorkOnly
<1>2. \A v \in Works : TextOut(s, v) => TextOut(s, v)' /\ IsPrefix(work[v].text, work'[v].text)
  BY <1>1, PrefixSelf DEF TextOut, Texts
<1>. QED  BY <1>2, SameHolder

LEMMA GoesOnGrows ==
    ASSUME AdmissionInv, NEW w \in Works, WorkOnly(w), GoesOn(w), NEW s \in Sessions, Located(s), Located(s)', data[s] # None
    PROVE  Grows(s)
<1>1. CASE ~TextOut(s, w)
  BY <1>1, OthersGrow DEF GoesOn
<1>2. CASE TextOut(s, w)
  <2>1. \A v \in Works : TextOut(s, v) => v = w
    BY <1>2, WorkInSession DEF TextOut, Active, GuardPCs, AdmissionInv
  <2>2. TextOut(s, w)' /\ IsPrefix(work[w].text, work'[w].text)
    BY <1>2 DEF TextOut, GoesOn
  <2>. QED  BY <2>1, <2>2, SameHolder DEF GoesOn
<1>. QED  BY <1>1, <1>2

LEMMA ResolveGrows ==
    ASSUME AdmissionInv, PromptInv, NEW w \in Works, WorkOnly(w), Resolve(w),
           NEW s \in Sessions, Located(s), Located(s)', data[s] # None
    PROVE  Grows(s)
<1>1. work \in [Works -> WorkRecs] /\ work[w] \in WorkRecs /\ work[w].pc = "resolve" /\ UNCHANGED <<data, restoring>>
  BY WorkTyped DEF AdmissionInv, TypeOK, WorkRecs, Resolve
<1>2. CASE Goto(w, "boundary")
  <2>1. work'[w].pc = "boundary" /\ work'[w].s = work[w].s /\ work'[w].text = work[w].text
    BY <1>1, <1>2 DEF Goto, WorkRecs
  <2>2. GoesOn(w)
    BY <1>1, <2>1, SameTextGoesOn DEF GuardPCs
  <2>. QED  BY <2>2, GoesOnGrows
<1>3. CASE work' = [work EXCEPT ![w].pc = "commit", ![w].text = Front(@), ![w].why = "error"]
  <2>1. work'[w].pc = "commit" /\ work'[w].s = work[w].s /\ work'[w].text = Front(work[w].text)
    BY <1>1, <1>3 DEF WorkRecs
  <2>2. CASE ~TextOut(s, w)
    BY <1>1, <2>2, OthersGrow
  <2>3. CASE TextOut(s, w)
    <3>1. TextOut(s, w)'
      BY <2>1, <2>3 DEF TextOut, GuardPCs
    <3>2. Transcript(s) = work[w].text /\ Transcript(s)' = Front(work[w].text)
      BY <1>1, <2>1, <2>3, <3>1 DEF Located
    <3>3. work[w].text = Append(Front(work[w].text), w)
      BY <1>1 DEF PromptInv
    <3>. QED  BY <1>1, <3>2, <3>3 DEF Grows
  <2>. QED  BY <2>2, <2>3
<1>. QED  BY <1>2, <1>3 DEF Resolve

LEMMA LetsGoGrows ==
    ASSUME AdmissionInv, NEW w \in Works, WorkOnly(w), Commit(w) \/ (Panic(w) /\ work[w].pc \in GuardPCs),
           NEW s \in Sessions, Located(s), Located(s)', data[s] # None
    PROVE  Grows(s)
<1>. DEFINE g == [take |-> work[w].take, text |-> work[w].text]
<1>1. /\ work[w].pc \in GuardPCs /\ work'[w].pc \notin GuardPCs
      /\ \/ data' = Restored(work[w].s, g) /\ UNCHANGED restoring
         \/ restoring' = [restoring EXCEPT ![work[w].s] = g] /\ UNCHANGED data
  BY LetsGo
<1>2. /\ work[w].s \in Sessions /\ Out(work[w].s, g) /\ g.text = work[w].text /\ g \in Entries
  <2>1. Active(w) /\ Out(work[w].s, work[w]) /\ work[w].text \in Texts /\ work[w].take \in Nat
    BY <1>1, Typed DEF AdmissionInv, GuardInv, Active, GuardPCs
  <2>. QED  BY <2>1, WorkInSession DEF Out, AdmissionInv, Entries
<1>3. g # None /\ g.text \in Texts /\ restoring \in [Sessions -> Entries \cup {None}]
  BY <1>2, EmptyText, Typed DEF Entries
<1>. HIDE DEF g
<1>4. CASE s # work[w].s
  <2>1. data'[s] = data[s] /\ restoring'[s] = restoring[s]
    BY <1>1, <1>2, <1>3, <1>4, RestoredOut
  <2>. QED  BY <1>4, <2>1, OthersGrow DEF TextOut
<1>5. CASE s = work[w].s
  <2>1. Transcript(s) = g.text /\ IsPrefix(g.text, g.text)
    BY <1>1, <1>2, <1>3, <1>5, PrefixSelf DEF Located, TextOut, Texts
  <2>2. CASE data' = Restored(work[w].s, g)
    <3>1. data'[s] # None /\ data'[s].text = g.text /\ g.text # <<>>
      BY <1>2, <1>3, <1>5, <2>2, RestoredOut DEF Out
    <3>. QED  BY <2>1, <3>1 DEF Located, Grows
  <2>3. CASE restoring' = [restoring EXCEPT ![work[w].s] = g] /\ UNCHANGED data
    <3>1. restoring'[s] = g
      BY <1>2, <1>3, <1>5, <2>3
    <3>. QED  BY <1>3, <2>1, <2>3, <3>1 DEF Located, Grows
  <2>. QED  BY <1>1, <2>2, <2>3
<1>. QED  BY <1>4, <1>5

LEMMA TakeGrows ==
    ASSUME AdmissionInv, NEW w \in Works, WorkOnly(w), Take(w),
           NEW s \in Sessions, Located(s), Located(s)', data[s] # None
    PROVE  Grows(s)
<1>1. /\ work[w].pc = "take" /\ work'[w].s = work[w].s /\ UNCHANGED restoring
      /\ \A t \in Sessions \ {work[w].s} : data'[t] = data[t]
      /\ \/ work'[w].pc = "ended" /\ UNCHANGED data
         \/ /\ work'[w].pc = IF work[w].kind = "turn" THEN "resolve" ELSE "prune"
            /\ work'[w].text = Taken(w) /\ data[work[w].s] # None
  BY TakesOut
<1>2. ~TextOut(s, w)
  BY <1>1 DEF TextOut, GuardPCs
<1>3. CASE s # work[w].s \/ UNCHANGED data
  BY <1>1, <1>2, <1>3, OthersGrow
<1>4. CASE s = work[w].s /\ work'[w].pc \in GuardPCs /\ work'[w].text = Taken(w)
  <2>1. data[s].text # <<>> /\ data[s].text \in Texts
    <3>1. data[s] \in Entries /\ data[s].text # <<>>
      BY <1>1, <1>4, FoundAtTake
    <3>. QED  BY <3>1 DEF Entries
  <2>2. Transcript(s) = data[s].text
    BY <2>1 DEF Located
  <2>3. TextOut(s, w)'
    BY <1>1, <1>4 DEF TextOut
  <2>4. IsPrefix(data[s].text, data[s].text) /\ IsPrefix(data[s].text, Append(data[s].text, w))
    BY <2>1, PrefixSelf, PrefixAppend DEF Texts
  <2>5. IsPrefix(data[s].text, Taken(w))
    BY <1>4, <2>4 DEF Taken
  <2>. QED  BY <1>4, <2>2, <2>3, <2>5 DEF Located, Grows
<1>. QED  BY <1>1, <1>3, <1>4 DEF GuardPCs

LEMMA RestoreGrows ==
    ASSUME AdmissionInv, NEW r \in Sessions, Restore(r), NEW s \in Sessions, Located(s), Located(s)', data[s] # None
    PROVE  Grows(s)
<1>. DEFINE g == restoring[r]
<1>1. g \in Entries /\ g # None /\ Out(r, g) /\ restoring \in [Sessions -> Entries \cup {None}]
  BY Typed, EmptyText DEF Restore, AdmissionInv, RestoringInv
<1>2. g.text \in Texts /\ data' = Restored(r, g) /\ restoring' = [restoring EXCEPT ![r] = None] /\ UNCHANGED work
  BY <1>1 DEF Restore, Entries
<1>. HIDE DEF g
<1>3. CASE s = r
  <2>1. data'[s] # None /\ data'[s].text = g.text /\ g.text # <<>>
    BY <1>1, <1>2, <1>3, RestoredOut DEF Out
  <2>2. Transcript(s) = g.text /\ Transcript(s)' = g.text
    BY <1>1, <1>3, <2>1 DEF Located, g
  <2>. QED  BY <1>2, <2>2, PrefixSelf DEF Grows, Texts
<1>4. CASE s # r
  <2>1. data'[s] = data[s] /\ restoring'[s] = restoring[s]
    BY <1>1, <1>2, <1>4, RestoredOut
  <2>2. \A v \in Works : TextOut(s, v) => TextOut(s, v)' /\ IsPrefix(work[v].text, work'[v].text)
    BY <1>2, Typed, PrefixSelf DEF TextOut, Texts
  <2>. QED  BY <2>1, <2>2, SameHolder
<1>. QED  BY <1>3, <1>4

\* What frontends and other processes do leaves a session that stays loaded as it is.
LEMMA CallsGrow ==
    ASSUME AdmissionInv, NEW r \in Sessions, Cancel(r) \/ Steer(r) \/ Attach(r) \/ Detach(r) \/ OtherProcess(r),
           NEW s \in Sessions, Located(s), Located(s)', data[s] # None
    PROVE  Grows(s)
<1>1. UNCHANGED <<work, restoring>> /\ (data' = data \/ data' = [data EXCEPT ![r] = None])
  BY DEF Cancel, Steer, Attach, Detach, OtherProcess
<1>2. data \in [Sessions -> Entries \cup {None}]
  BY Typed
<1>3. data'[s] = data[s] \/ data'[s] = None
  BY <1>1, <1>2
<1>4. \A v \in Works : TextOut(s, v) => TextOut(s, v)' /\ IsPrefix(work[v].text, work'[v].text)
  BY <1>1, Typed, PrefixSelf DEF TextOut, Texts
<1>. QED  BY <1>1, <1>3, <1>4, SameHolder DEF Grows

LEMMA EveryStepGrows ==
    ASSUME AdmissionInv, AdmissionInv', PromptInv, Next
    PROVE  \A s \in Sessions : Grows(s)
<1>. SUFFICES ASSUME NEW s \in Sessions, data[s] # None, data'[s] # None PROVE Grows(s)
  BY DEF Grows
<1>1. Located(s) /\ Located(s)'
  <2>1. LocatedInv /\ LocatedInv'
    BY WhereTheTextIs, PTL
  <2>. QED  BY <2>1 DEF LocatedInv
<1>2. ASSUME NEW w \in Works, Run(w) \/ Panic(w) \/ \E r \in Sessions : Start(w, r) \/ Compact(w, r) \/ Reload(w, r)
      PROVE  Grows(s)
  <2>1. WorkOnly(w)
    BY <1>2, StepIsOfOne
  <2>2. CASE TakeSteers(w) \/ Judge(w) \/ Request(w) \/ Consult(w) \/ Prune(w) \/ Close(w) \/ AcceptSteers(w)
    BY <1>1, <2>1, <2>2, TurnGoesOn, AcceptGoesOn, GoesOnGrows
  <2>3. CASE \/ Gate(w) \/ Hydrate(w) \/ Build(w) \/ Insert(w) \/ Freeze(w) \/ Settle(w) \/ ReloadFails(w)
             \/ \E r \in Sessions : Start(w, r) \/ Compact(w, r) \/ Reload(w, r)
    <3>1. work[w].pc \notin GuardPCs /\ UNCHANGED restoring /\ data'[s] = data[s]
      BY <2>3, StaysWithout
    <3>. QED  BY <1>1, <2>1, <3>1, OthersGrow DEF TextOut
  <2>4. CASE Resolve(w)
    BY <1>1, <2>1, <2>4, ResolveGrows
  <2>5. CASE Take(w)
    BY <1>1, <2>1, <2>5, TakeGrows
  <2>6. CASE Commit(w) \/ (Panic(w) /\ work[w].pc \in GuardPCs)
    BY <1>1, <2>1, <2>6, LetsGoGrows
  <2>7. CASE Panic(w) /\ work[w].pc \notin GuardPCs
    BY <1>1, <2>1, <2>7, PanicsWithout, OthersGrow DEF TextOut
  <2>. QED  BY <1>2, <2>2, <2>3, <2>4, <2>5, <2>6, <2>7 DEF Run
<1>3. ASSUME NEW r \in Sessions, Restore(r)
      PROVE  Grows(s)
  BY <1>1, <1>3, RestoreGrows
<1>4. ASSUME NEW r \in Sessions, Cancel(r) \/ Steer(r) \/ Attach(r) \/ Detach(r) \/ OtherProcess(r)
      PROVE  Grows(s)
  BY <1>1, <1>4, CallsGrow
<1>. QED  BY <1>2, <1>3, <1>4 DEF Next, Background, Call

\* Only a take leads to where an endpoint resolves, and it adds the prompt.
LEMMA PromptStep == AdmissionInv /\ PromptInv /\ [Next]_vars => PromptInv'
<1>. SUFFICES ASSUME AdmissionInv, PromptInv, [Next]_vars, NEW w \in Works, work'[w].pc = "resolve"
              PROVE  work'[w].text = Append(Front(work'[w].text), w)
  BY DEF PromptInv
<1>1. CASE work'[w] = work[w]
  BY <1>1 DEF PromptInv
<1>2. CASE Take(w)
  <2>1. work[w].kind = "turn" /\ work'[w].text = Taken(w) /\ work[w].pc = "take"
    BY <1>2, TakesOut
  <2>2. data[work[w].s].text \in Texts
    <3>1. data[work[w].s] \in Entries
      BY <2>1, FoundAtTake
    <3>. QED  BY <3>1 DEF Entries
  <2>3. work'[w].text = Append(data[work[w].s].text, w)
    BY <2>1 DEF Taken
  <2>. QED  BY <2>2, <2>3, FrontAppend DEF Texts
<1>3. ASSUME Run(w) \/ Panic(w) \/ \E s \in Sessions : Start(w, s) \/ Compact(w, s) \/ Reload(w, s), ~Take(w)
      PROVE  FALSE
  <2>1. ~GoesOn(w) /\ "resolve" \in GuardPCs
    BY DEF GoesOn, GuardPCs
  <2>2. CASE Resolve(w)
    <3>1. work \in [Works -> WorkRecs] /\ work[w] \in WorkRecs
      BY WorkTyped DEF AdmissionInv, TypeOK, WorkRecs
    <3>. QED  BY <2>2, <3>1 DEF Resolve, Goto, WorkRecs
  <2>. QED  BY <1>3, <2>1, <2>2, TurnGoesOn, AcceptGoesOn, StaysWithout, LetsGo, PanicsWithout DEF Run
<1>4. CASE \E v \in Works : /\ v # w
                            /\ Run(v) \/ Panic(v) \/ \E s \in Sessions : Start(v, s) \/ Compact(v, s) \/ Reload(v, s)
  BY <1>1, <1>4, StepIsOfOne DEF WorkOnly
<1>5. CASE \E s \in Sessions : Restore(s) \/ Cancel(s) \/ Steer(s) \/ Attach(s) \/ Detach(s) \/ OtherProcess(s)
  BY <1>1, <1>5 DEF Restore, Cancel, Steer, Attach, Detach, OtherProcess
<1>6. CASE UNCHANGED vars
  BY <1>1, <1>6 DEF vars
<1>. QED  BY <1>2, <1>3, <1>4, <1>5, <1>6 DEF Next, Background, Call

LEMMA PromptInvariant == Spec => [](AdmissionInv /\ PromptInv)
<1>1. Init => PromptInv
  BY DEF Init, PromptInv
<1>. QED  BY <1>1, AdmissionInvariant, PromptStep, PTL DEF Spec

\* While a session stays in memory its transcript only grows, but for the
\* prompt of a turn whose endpoint does not resolve.
THEOREM TranscriptsGrow == Spec => TranscriptGrows
<1>1. AdmissionInv /\ PromptInv /\ AdmissionInv' /\ [Next]_vars =>
        [\A s \in Sessions : data[s] # None /\ data'[s] # None =>
            \/ IsPrefix(Transcript(s), Transcript(s)')
            \/ \E w \in Works : work[w].pc = "resolve" /\ Transcript(s) = Append(Transcript(s)', w)]_vars
  BY EveryStepGrows DEF Grows
<1>. QED  BY <1>1, PromptInvariant, PTL DEF Spec, TranscriptGrows

------------------------------------------------------------------------------
(* Steers are told of once and in order *)

\* A sequence of steers in the order they were sent, and one ahead of another.
Rising(q) == \A i, j \in DOMAIN q : i < j => q[i] < q[j]
Below(p, q) == \A i \in DOMAIN p, j \in DOMAIN q : p[i] < q[j]

Queue == [s \in Sessions |-> IF steers[s] = None THEN <<>> ELSE steers[s]]
Holds(k, x) == (\E i \in DOMAIN k.accepted : k.accepted[i] = x) \/ \E i \in DOMAIN k.queue : k.queue[i] = x
Waiting == [s \in Sessions |->
    {x \in Steers : \/ \E i \in DOMAIN Queue[s] : Queue[s][i] = x
                    \/ \E w \in Works : work[w].s = s /\ Holds(work[w], x)}]
Told(e) == e.kind \in {"accepted", "blocked"}

\* The steers of a session that have not been told of: the accepted, then the
\* judged, then the queue, in the order they were sent.
OrderInv ==
    /\ \A s \in Sessions : Rising(Queue[s])
    /\ \A w \in Works : Rising(work[w].accepted) /\ Rising(work[w].queue) /\ Below(work[w].accepted, work[w].queue)
    /\ \A w \in Works, s \in Sessions : work[w].s = s => Below(work[w].accepted, Queue[s]) /\ Below(work[w].queue, Queue[s])

\* A steer waits in one session.
ApartInv ==
    \A s \in Sessions : \A x \in Waiting[s] :
        /\ x <= sent
        /\ \A t \in Sessions : x \in Waiting[t] => s = t

\* A steer told of waits no more, and those told to be in came before those waiting.
ToldInv ==
    \A i \in DOMAIN events : Told(events[i]) =>
        /\ events[i].x <= sent
        /\ \A s \in Sessions : events[i].x \notin Waiting[s]
        /\ events[i].kind = "accepted" => \A x \in Waiting[events[i].s] : events[i].x < x

SteerInv == OrderInv /\ ApartInv /\ ToldInv /\ SteersInOrder

\* What waits is a steer, and the works of a session that do not judge hold none.
LEMMA WaitsOf ==
    ASSUME AdmissionInv, NEW s \in Sessions
    PROVE  /\ Queue[s] \in Seq(Steers)
           /\ \A w \in Works : work[w].accepted \in Seq(Steers) /\ work[w].queue \in Seq(Steers)
           /\ \A w \in Works : work[w].pc # "judge" => work[w].accepted = <<>> /\ work[w].queue = <<>>
<1>1. Queue[s] \in Seq(Steers)
  <2>1. <<>> \in Seq(Steers)
    OBVIOUS
  <2>. QED  BY <2>1, Typed DEF Queue
<1>2. \A w \in Works : work[w].accepted \in Seq(Steers) /\ work[w].queue \in Seq(Steers)
  BY WorkTyped DEF WorkRecs
<1>3. \A w \in Works : work[w].pc # "judge" => work[w].accepted = <<>> /\ work[w].queue = <<>>
  BY WorkTyped DEF PlaceOK
<1>. QED  BY <1>1, <1>2, <1>3

LEMMA ToldTyped ==
    ASSUME ReportsInv, NEW i \in DOMAIN events, Told(events[i])
    PROVE  events[i].x \in Steers /\ events[i].s \in Sessions
<1>1. events[i] \in Reports
  BY DEF ReportsInv
<1>. QED  BY <1>1 DEF Reports, Told

\* A step after which no more waits than before, and that tells of no steer.
LEMMA FewerWait ==
    ASSUME AdmissionInv, AdmissionInv', SteerInv, OrderInv', sent' = sent,
           \A s \in Sessions : Waiting'[s] \subseteq Waiting[s],
           \A i \in DOMAIN events' : Told(events'[i]) => i \in DOMAIN events /\ events'[i] = events[i]
    PROVE  SteerInv'
<1>1. ApartInv'
  BY DEF SteerInv, ApartInv
<1>2. \A i \in DOMAIN events' : Told(events'[i]) => i \in DOMAIN events /\ events'[i] = events[i] /\ Told(events[i]) /\ events[i].x \in Steers
                                           /\ events[i].s \in Sessions
  BY ToldTyped DEF Told, AdmissionInv
<1>3. ToldInv'
  BY <1>2 DEF SteerInv, ToldInv
<1>4. SteersInOrder'
  <2>. SUFFICES ASSUME NEW i \in DOMAIN events', NEW j \in DOMAIN events', i < j, Told(events'[i]), Told(events'[j])
                PROVE  /\ events'[i].x # events'[j].x
                       /\ events'[i].kind = "accepted" /\ events'[j].kind = "accepted" /\ events'[i].s = events'[j].s
                            => events'[i].x < events'[j].x
    BY DEF SteersInOrder, Told
  <2>. QED  BY <1>2 DEF SteerInv, SteersInOrder, Told
<1>. QED  BY <1>1, <1>3, <1>4 DEF SteerInv

\* A step tells of the steers q of session s.
Tells(s, w, kind, q) == events' = events \o [i \in DOMAIN q |-> Event(s, kind, w, q[i])]

\* A step that tells of steers which waited and do so no more.
LEMMA TellsSteers ==
    ASSUME AdmissionInv, AdmissionInv', SteerInv, OrderInv', sent' = sent,
           \A t \in Sessions : Waiting'[t] \subseteq Waiting[t],
           NEW s \in Sessions, NEW w \in Works, NEW kind \in {"accepted", "blocked"}, NEW q \in Seq(Steers),
           Tells(s, w, kind, q), Rising(q), \A i \in DOMAIN q : q[i] \in Waiting[s] /\ \A t \in Sessions : q[i] \notin Waiting'[t],
           kind = "accepted" => \A i \in DOMAIN q, x \in Waiting'[s] : q[i] < x
    PROVE  SteerInv'
<1>. DEFINE n == Len(events)
            new == [i \in DOMAIN q |-> Event(s, kind, w, q[i])]
<1>1. events \in Seq(Reports) /\ n \in Nat /\ DOMAIN events = 1..n
  BY DEF AdmissionInv, ReportsInv
<1>2. DOMAIN q = 1..Len(q) /\ Len(q) \in Nat /\ \A i \in DOMAIN q : q[i] \in Steers
  OBVIOUS
<1>3. DOMAIN new = 1..Len(q) /\ Len(new) = Len(q) /\ \A i \in 1..Len(q) : new[i] = Event(s, kind, w, q[i])
  BY <1>2
<1>4. /\ DOMAIN events' = 1..(n + Len(q))
      /\ \A i \in 1..n : events'[i] = events[i]
      /\ \A i \in 1..(n + Len(q)) : i > n => events'[i] = new[i - n]
  BY <1>1, <1>2, <1>3 DEF Tells
<1>. HIDE DEF new
<1>5. \A i \in DOMAIN events' :
        \/ i \in DOMAIN events /\ events'[i] = events[i]
        \/ /\ i > n /\ i - n \in DOMAIN q
           /\ events'[i].s = s /\ events'[i].kind = kind /\ events'[i].x = q[i - n] /\ q[i - n] \in Steers
  <2>. SUFFICES ASSUME NEW i \in 1..(n + Len(q)), i > n
                PROVE  /\ i - n \in DOMAIN q
                       /\ events'[i].s = s /\ events'[i].kind = kind /\ events'[i].x = q[i - n] /\ q[i - n] \in Steers
    BY <1>1, <1>2, <1>4
  <2>1. i - n \in 1..Len(q)
    BY <1>1, <1>2
  <2>2. events'[i] = Event(s, kind, w, q[i - n])
    BY <1>3, <1>4, <2>1
  <2>. QED  BY <1>2, <2>1, <2>2 DEF Event
<1>6. \A i \in DOMAIN events : Told(events[i]) => events[i].x \in Steers /\ events[i].s \in Sessions
  BY ToldTyped DEF AdmissionInv
<1>7. ApartInv'
  BY DEF SteerInv, ApartInv
<1>8. ToldInv'
  <2>. SUFFICES ASSUME NEW i \in DOMAIN events', Told(events'[i])
                PROVE  /\ events'[i].x <= sent
                       /\ \A t \in Sessions : events'[i].x \notin Waiting'[t]
                       /\ events'[i].kind = "accepted" => \A x \in Waiting'[events'[i].s] : events'[i].x < x
    BY DEF ToldInv
  <2>1. CASE i \in DOMAIN events /\ events'[i] = events[i]
    <3>1. Told(events[i])
      BY <2>1 DEF Told
    <3>. QED  BY <1>6, <2>1, <3>1 DEF SteerInv, ToldInv
  <2>2. CASE /\ i > n /\ i - n \in DOMAIN q
             /\ events'[i].s = s /\ events'[i].kind = kind /\ events'[i].x = q[i - n] /\ q[i - n] \in Steers
    BY <2>2 DEF SteerInv, ApartInv
  <2>. QED  BY <1>5, <2>1, <2>2
<1>9. SteersInOrder'
  <2>. SUFFICES ASSUME NEW i \in DOMAIN events', NEW j \in DOMAIN events', i < j, Told(events'[i]), Told(events'[j])
                PROVE  /\ events'[i].x # events'[j].x
                       /\ events'[i].kind = "accepted" /\ events'[j].kind = "accepted" /\ events'[i].s = events'[j].s
                            => events'[i].x < events'[j].x
    BY DEF SteersInOrder, Told
  <2>1. CASE j \in DOMAIN events /\ events'[j] = events[j]
    <3>1. i \in DOMAIN events /\ events'[i] = events[i]
      BY <1>1, <1>4, <2>1
    <3>. QED  BY <2>1, <3>1 DEF SteerInv, SteersInOrder, Told
  <2>2. CASE /\ j > n /\ j - n \in DOMAIN q
             /\ events'[j].s = s /\ events'[j].kind = kind /\ events'[j].x = q[j - n] /\ q[j - n] \in Steers
    <3>1. q[j - n] \in Waiting[s]
      BY <2>2
    <3>2. CASE i \in DOMAIN events /\ events'[i] = events[i]
      <4>1. Told(events[i])
        BY <3>2 DEF Told
      <4>. QED  BY <2>2, <3>1, <3>2, <4>1 DEF SteerInv, ToldInv
    <3>3. CASE /\ i > n /\ i - n \in DOMAIN q
               /\ events'[i].s = s /\ events'[i].kind = kind /\ events'[i].x = q[i - n] /\ q[i - n] \in Steers
      <4>1. i - n < j - n
        BY <1>1, <1>4
      <4>2. q[i - n] < q[j - n]
        BY <2>2, <3>3, <4>1 DEF Rising
      <4>. QED  BY <2>2, <3>3, <4>2 DEF Steers
    <3>. QED  BY <1>5, <3>2, <3>3
  <2>. QED  BY <1>5, <2>1, <2>2
<1>. QED  BY <1>7, <1>8, <1>9 DEF SteerInv

\* Only taking and judging them leaves a work with steers.
LEMMA NotJudging ==
    ASSUME AdmissionInv, NEW w \in Works, ~TakeSteers(w), ~Judge(w),
           Run(w) \/ Panic(w) \/ \E s \in Sessions : Start(w, s) \/ Compact(w, s) \/ Reload(w, s)
    PROVE  work'[w].pc # "judge"
<1>1. "judge" \in GuardPCs
  BY DEF GuardPCs
<1>2. CASE Resolve(w)
  <2>1. work \in [Works -> WorkRecs] /\ work[w] \in WorkRecs
    BY WorkTyped DEF AdmissionInv, TypeOK, WorkRecs
  <2>. QED  BY <1>2, <2>1 DEF Resolve, Goto, WorkRecs
<1>3. CASE Take(w)
  BY <1>3, TakesOut
<1>4. CASE Request(w) \/ Consult(w) \/ Prune(w) \/ Close(w)
  BY <1>4, TurnGoesOn
<1>5. CASE AcceptSteers(w)
  BY <1>5, AcceptGoesOn
<1>6. CASE Commit(w) \/ Panic(w)
  BY <1>1, <1>6, LetsGo, PanicsWithout
<1>7. CASE \/ Gate(w) \/ Hydrate(w) \/ Build(w) \/ Insert(w) \/ Freeze(w) \/ Settle(w) \/ ReloadFails(w)
           \/ \E s \in Sessions : Start(w, s) \/ Compact(w, s) \/ Reload(w, s)
  BY <1>1, <1>7, StaysWithout
<1>. QED  BY <1>2, <1>3, <1>4, <1>5, <1>6, <1>7 DEF Run

\* A step that leaves every queue as it is, or empty, leaves the order.
LEMMA QuietOrder ==
    ASSUME SteerInv,
           \A s \in Sessions : Queue'[s] = Queue[s] \/ Queue'[s] = <<>>,
           \A w \in Works : \/ /\ work'[w].accepted = work[w].accepted /\ work'[w].queue = work[w].queue
                               /\ work'[w].s = work[w].s
                            \/ work'[w].accepted = <<>> /\ work'[w].queue = <<>>
    PROVE  OrderInv' /\ \A s \in Sessions : Waiting'[s] \subseteq Waiting[s]
<1>1. \A s \in Sessions : Waiting'[s] \subseteq Waiting[s]
  BY DEF Waiting, Holds
<1>2. \A s \in Sessions : Rising(Queue[s])'
  BY DEF SteerInv, OrderInv, Rising
<1>3. \A w \in Works : (Rising(work[w].accepted) /\ Rising(work[w].queue) /\ Below(work[w].accepted, work[w].queue))'
  BY DEF SteerInv, OrderInv, Rising, Below
<1>4. \A w \in Works, s \in Sessions : (work[w].s = s => Below(work[w].accepted, Queue[s]) /\ Below(work[w].queue, Queue[s]))'
  <2>. SUFFICES ASSUME NEW w \in Works, NEW s \in Sessions, work'[w].s = s
                PROVE  Below(work'[w].accepted, Queue'[s]) /\ Below(work'[w].queue, Queue'[s])
    OBVIOUS
  <2>1. CASE (work'[w].accepted = <<>> /\ work'[w].queue = <<>>) \/ Queue'[s] = <<>>
    BY <2>1 DEF Below
  <2>2. CASE /\ work'[w].accepted = work[w].accepted /\ work'[w].queue = work[w].queue /\ work'[w].s = work[w].s
             /\ Queue'[s] = Queue[s]
    BY <2>2 DEF SteerInv, OrderInv
  <2>. QED  BY <2>1, <2>2
<1>. QED  BY <1>1, <1>2, <1>3, <1>4 DEF OrderInv

\* So a step that tells of none keeps all that is said of steers.
LEMMA QuietStep ==
    ASSUME AdmissionInv, AdmissionInv', SteerInv, sent' = sent,
           \A s \in Sessions : Queue'[s] = Queue[s] \/ Queue'[s] = <<>>,
           \A w \in Works : \/ /\ work'[w].accepted = work[w].accepted /\ work'[w].queue = work[w].queue
                               /\ work'[w].s = work[w].s
                            \/ work'[w].accepted = <<>> /\ work'[w].queue = <<>>,
           \A i \in DOMAIN events' : Told(events'[i]) => i \in DOMAIN events /\ events'[i] = events[i]
    PROVE  SteerInv'
BY QuietOrder, FewerWait

\* What a step appends to the events tells of a steer only by its kind.
LEMMA AppendsTold ==
    ASSUME ReportsInv, NEW e, e.kind \notin {"accepted", "blocked"}, events' = Append(events, e)
    PROVE  \A i \in DOMAIN events' : Told(events'[i]) => i \in DOMAIN events /\ events'[i] = events[i]
<1>1. events \in Seq(Reports)
  BY DEF ReportsInv
<1>2. /\ DOMAIN events' = 1..(Len(events) + 1) /\ events'[Len(events) + 1] = e
      /\ \A i \in 1..Len(events) : events'[i] = events[i]
  BY <1>1
<1>. QED  BY <1>1, <1>2 DEF Told

\* The steps that take, judge and tell of no steer.
LEMMA OthersQuiet ==
    ASSUME AdmissionInv, AdmissionInv', SteerInv, NEW w \in Works,
           Run(w) \/ Panic(w) \/ \E s \in Sessions : Start(w, s) \/ Compact(w, s) \/ Reload(w, s),
           ~TakeSteers(w), ~Judge(w), ~AcceptSteers(w)
    PROVE  SteerInv'
<1>1. sent' = sent
  <2>1. CASE Gate(w) \/ Hydrate(w) \/ Build(w) \/ Insert(w) \/ Take(w) \/ Freeze(w) \/ Resolve(w)
    BY <2>1 DEF Gate, Hydrate, Build, Insert, Take, Freeze, Resolve
  <2>2. CASE Request(w) \/ Consult(w) \/ Prune(w) \/ Close(w) \/ Commit(w) \/ Settle(w) \/ ReloadFails(w) \/ Panic(w)
    BY <2>2 DEF Request, Consult, Prune, Close, Commit, Settle, ReloadFails, Panic
  <2>3. CASE \E s \in Sessions : Start(w, s) \/ Compact(w, s) \/ Reload(w, s)
    BY <2>3 DEF Start, Compact, Reload
  <2>. QED  BY <2>1, <2>2, <2>3 DEF Run
<1>2. \A s \in Sessions : Queue'[s] = Queue[s] \/ Queue'[s] = <<>>
  <2>1. \/ steers' = steers
        \/ \E s \in Sessions \cup {None} : steers' = [steers EXCEPT ![s] = <<>>] \/ steers' = [steers EXCEPT ![s] = None]
    <3>1. CASE Gate(w) \/ Hydrate(w) \/ Build(w) \/ Insert(w) \/ Take(w) \/ Freeze(w) \/ Resolve(w)
      BY <3>1 DEF Gate, Hydrate, Build, Insert, Take, Freeze, Resolve
    <3>2. CASE Request(w) \/ Consult(w) \/ Prune(w) \/ Close(w) \/ Commit(w) \/ ReloadFails(w) \/ Panic(w)
      BY <3>2 DEF Request, Consult, Prune, Close, Commit, ReloadFails, Panic
    <3>3. CASE \E s \in Sessions : Start(w, s) \/ Compact(w, s) \/ Reload(w, s)
      BY <3>3 DEF Start, Compact, Reload
    <3>4. CASE Settle(w)
      <4>1. work[w].s \in Sessions \cup {None}
        BY WorkTyped DEF WorkRecs
      <4>. QED  BY <3>4, <4>1 DEF Settle
    <3>. QED  BY <3>1, <3>2, <3>3, <3>4 DEF Run
  <2>2. steers \in [Sessions -> Seq(Steers) \cup {None}]
    BY Typed
  <2>. QED  BY <2>1, <2>2 DEF Queue
<1>3. \A v \in Works : \/ /\ work'[v].accepted = work[v].accepted /\ work'[v].queue = work[v].queue
                          /\ work'[v].s = work[v].s
                       \/ work'[v].accepted = <<>> /\ work'[v].queue = <<>>
  <2>1. WorkOnly(w) /\ work'[w].pc # "judge"
    BY StepIsOfOne, NotJudging
  <2>2. work'[w].accepted = <<>> /\ work'[w].queue = <<>>
    BY <2>1 DEF AdmissionInv, PlaceInv, PlaceOK
  <2>. QED  BY <2>1, <2>2 DEF WorkOnly
<1>4. \A i \in DOMAIN events' : Told(events'[i]) => i \in DOMAIN events /\ events'[i] = events[i]
  <2>1. CASE events' = events
    BY <2>1 DEF Told
  <2>2. CASE Settle(w)
    <3>1. events' = Append(events, Receipt(w)) /\ Receipt(w).kind \in {"done", "error", "compacted"}
      BY <2>2 DEF Settle, Send, Receipt, Event
    <3>. QED  BY <3>1, AppendsTold DEF AdmissionInv
  <2>3. CASE events' = Append(events, Event(work[w].s, "error", w, None))
    <3>1. Event(work[w].s, "error", w, None).kind = "error"
      BY DEF Event
    <3>. QED  BY <2>3, <3>1, AppendsTold DEF AdmissionInv
  <2>4. events' = events \/ Settle(w) \/ events' = Append(events, Event(work[w].s, "error", w, None))
    <3>1. CASE Gate(w) \/ Hydrate(w) \/ Build(w) \/ Insert(w) \/ Take(w) \/ Freeze(w) \/ Resolve(w)
      BY <3>1 DEF Gate, Hydrate, Build, Insert, Take, Freeze, Resolve
    <3>2. CASE Request(w) \/ Consult(w) \/ Prune(w) \/ Close(w) \/ Commit(w) \/ ReloadFails(w) \/ Panic(w)
      BY <3>2 DEF Request, Consult, Prune, Close, Commit, ReloadFails, Panic, Send
    <3>3. CASE \E s \in Sessions : Start(w, s) \/ Compact(w, s) \/ Reload(w, s)
      BY <3>3 DEF Start, Compact, Reload
    <3>. QED  BY <3>1, <3>2, <3>3 DEF Run
  <2>. QED  BY <2>1, <2>2, <2>3, <2>4
<1>. QED  BY <1>1, <1>2, <1>3, <1>4, QuietStep

\* What waits in a session, read off its queue and its works.
LEMMA WaitingHas ==
    ASSUME AdmissionInv, NEW s \in Sessions
    PROVE  /\ Waiting[s] \subseteq Steers
           /\ \A i \in DOMAIN Queue[s] : Queue[s][i] \in Waiting[s]
           /\ \A w \in Works : work[w].s = s =>
                /\ \A i \in DOMAIN work[w].accepted : work[w].accepted[i] \in Waiting[s]
                /\ \A i \in DOMAIN work[w].queue : work[w].queue[i] \in Waiting[s]
<1>1. Waiting[s] = {x \in Steers : \/ \E i \in DOMAIN Queue[s] : Queue[s][i] = x
                                   \/ \E w \in Works : work[w].s = s /\ Holds(work[w], x)}
  BY DEF Waiting
<1>2. \A i \in DOMAIN Queue[s] : Queue[s][i] \in Steers
  BY WaitsOf
<1>3. \A w \in Works : /\ \A i \in DOMAIN work[w].accepted : work[w].accepted[i] \in Steers
                       /\ \A i \in DOMAIN work[w].queue : work[w].queue[i] \in Steers
  BY WaitsOf
<1>. QED  BY <1>1, <1>2, <1>3 DEF Holds

\* And nothing else does.
LEMMA WaitingOnly ==
    ASSUME NEW s \in Sessions, NEW x \in Waiting[s]
    PROVE  \/ \E i \in DOMAIN Queue[s] : Queue[s][i] = x
           \/ \E w \in Works : work[w].s = s /\ Holds(work[w], x)
BY DEF Waiting

LEMMA SteerOrdered ==
    ASSUME AdmissionInv, AdmissionInv', SteerInv, NEW s \in Sessions, Steer(s)
    PROVE  SteerInv'
<1>1. /\ sent \in 0..MaxSteers /\ sent < MaxSteers /\ sent' = sent + 1 /\ sent + 1 \in Steers /\ sent + 1 > sent
      /\ UNCHANGED <<work, events>>
  BY DEF Steer, AdmissionInv, TypeOK, Steers
<1>2. /\ Queue[s] \in Seq(Steers) /\ Queue'[s] = Append(Queue[s], sent + 1)
      /\ \A t \in Sessions \ {s} : Queue'[t] = Queue[t]
  <2>1. steers \in [Sessions -> Seq(Steers) \cup {None}]
    BY Typed
  <2>2. Append(steers[s], sent + 1) # None
    BY <1>1, <2>1 DEF Steer
  <2>. QED  BY <2>1, <2>2, WaitsOf DEF Steer, Queue
<1>. DEFINE n == Len(Queue[s])
<1>3. /\ DOMAIN Queue[s] = 1..n /\ n \in Nat /\ DOMAIN Queue'[s] = 1..(n + 1) /\ Queue'[s][n + 1] = sent + 1
      /\ \A i \in 1..n : Queue'[s][i] = Queue[s][i]
  BY <1>1, <1>2
<1>. HIDE DEF n
<1>4. \A t \in Sessions : \A x \in Waiting[t] : x \in Steers /\ x <= sent /\ x < sent + 1
  BY <1>1, WaitingHas DEF SteerInv, ApartInv, Steers
<1>5. \A t \in Sessions : \A x \in Waiting'[t] : x \in Waiting[t] \/ (t = s /\ x = sent + 1)
  <2>. SUFFICES ASSUME NEW t \in Sessions, NEW x \in Waiting'[t]
                PROVE  x \in Waiting[t] \/ (t = s /\ x = sent + 1)
    OBVIOUS
  <2>1. x \in Steers /\ (\/ \E i \in DOMAIN Queue'[t] : Queue'[t][i] = x
                         \/ \E w \in Works : work[w].s = t /\ Holds(work[w], x))
    BY <1>1 DEF Waiting
  <2>2. \A i \in DOMAIN Queue'[t] : \/ i \in DOMAIN Queue[t] /\ Queue'[t][i] = Queue[t][i]
                                    \/ t = s /\ Queue'[t][i] = sent + 1
    BY <1>2, <1>3
  <2>. QED  BY <2>1, <2>2 DEF Waiting
<1>6. \A i \in 1..n : Queue[s][i] \in Waiting[s]
  BY <1>3, WaitingHas
<1>7. OrderInv'
  <2>1. \A t \in Sessions : Rising(Queue'[t])
    <3>1. \A i, j \in 1..(n + 1) : i < j => i \in 1..n /\ (j \in 1..n \/ j = n + 1)
      BY <1>3
    <3>2. Rising(Queue[s])
      BY DEF SteerInv, OrderInv
    <3>3. \A i, j \in 1..(n + 1) : i < j => Queue'[s][i] < Queue'[s][j]
      <4>1. \A i, j \in 1..n : i < j => Queue'[s][i] < Queue'[s][j]
        BY <1>3, <3>2 DEF Rising
      <4>2. \A i \in 1..n : Queue'[s][i] < Queue'[s][n + 1]
        BY <1>3, <1>4, <1>6
      <4>. QED  BY <3>1, <4>1, <4>2
    <3>4. Rising(Queue'[s])
      BY <1>3, <3>3 DEF Rising
    <3>. QED  BY <1>2, <3>4 DEF SteerInv, OrderInv
  <2>2. ASSUME NEW w \in Works, NEW t \in Sessions, work[w].s = t
        PROVE  Below(work[w].accepted, Queue'[t]) /\ Below(work[w].queue, Queue'[t])
    <3>1. Below(work[w].accepted, Queue[t]) /\ Below(work[w].queue, Queue[t])
      BY <2>2 DEF SteerInv, OrderInv
    <3>2. CASE t # s
      BY <1>2, <3>1, <3>2
    <3>3. CASE t = s
      <4>1. /\ \A i \in DOMAIN work[w].accepted : work[w].accepted[i] < sent + 1
            /\ \A i \in DOMAIN work[w].queue : work[w].queue[i] < sent + 1
        BY <1>4, <2>2, WaitingHas
      <4>2. \A j \in DOMAIN Queue'[s] : Queue'[s][j] = sent + 1 \/ (j \in DOMAIN Queue[s] /\ Queue'[s][j] = Queue[s][j])
        BY <1>3
      <4>. QED  BY <3>1, <3>3, <4>1, <4>2 DEF Below
    <3>. QED  BY <3>2, <3>3
  <2>3. \A w \in Works : Rising(work'[w].accepted) /\ Rising(work'[w].queue) /\ Below(work'[w].accepted, work'[w].queue)
    BY <1>1 DEF SteerInv, OrderInv
  <2>. QED  BY <1>1, <2>1, <2>2, <2>3 DEF OrderInv
<1>8. ApartInv'
  <2>. SUFFICES ASSUME NEW t \in Sessions, NEW x \in Waiting'[t]
                PROVE  x <= sent + 1 /\ \A u \in Sessions : x \in Waiting'[u] => t = u
    BY <1>1 DEF ApartInv
  <2>1. CASE x = sent + 1
    BY <1>1, <1>4, <1>5, <2>1
  <2>2. CASE x \in Waiting[t]
    <3>1. x <= sent + 1 /\ x # sent + 1
      <4>1. x \in Steers /\ x < sent + 1
        BY <1>4, <2>2
      <4>. QED  BY <1>1, <4>1 DEF Steers
    <3>. QED  BY <1>5, <2>2, <3>1 DEF SteerInv, ApartInv
  <2>. QED  BY <1>5, <2>1, <2>2
<1>9. ToldInv'
  <2>. SUFFICES ASSUME NEW i \in DOMAIN events, Told(events[i])
                PROVE  /\ events[i].x <= sent + 1
                       /\ \A t \in Sessions : events[i].x \notin Waiting'[t]
                       /\ events[i].kind = "accepted" => \A x \in Waiting'[events[i].s] : events[i].x < x
    BY <1>1 DEF ToldInv
  <2>1. /\ events[i].x \in Steers /\ events[i].s \in Sessions /\ events[i].x <= sent
        /\ \A t \in Sessions : events[i].x \notin Waiting[t]
        /\ events[i].kind = "accepted" => \A x \in Waiting[events[i].s] : events[i].x < x
    BY ToldTyped DEF AdmissionInv, SteerInv, ToldInv
  <2>2. events[i].x < sent + 1
    BY <1>1, <2>1 DEF Steers
  <2>3. events[i].x <= sent + 1 /\ events[i].x # sent + 1
    BY <1>1, <2>1, <2>2 DEF Steers
  <2>. QED  BY <1>5, <2>1, <2>2, <2>3
<1>10. SteersInOrder'
  BY <1>1 DEF SteerInv, SteersInOrder
<1>. QED  BY <1>7, <1>8, <1>9, <1>10 DEF SteerInv

LEMMA TakeSteersOrdered ==
    ASSUME AdmissionInv, AdmissionInv', SteerInv, NEW w \in Works, TakeSteers(w)
    PROVE  SteerInv'
<1>. DEFINE s == work[w].s
            k == work[w]
            r == [k EXCEPT !.pc = "judge", !.queue = steers[s], !.accepted = <<>>]
<1>1. /\ k \in WorkRecs /\ PlaceOK(k) /\ k.pc = "boundary" /\ work' = [work EXCEPT ![w] = r]
      /\ work \in [Works -> WorkRecs] /\ steers' = [steers EXCEPT ![s] = <<>>] /\ sent' = sent /\ events' = events
  <2>1. work \in [Works -> WorkRecs]
    BY DEF AdmissionInv, TypeOK, WorkRecs
  <2>2. k.pc = "boundary" /\ steers' = [steers EXCEPT ![s] = <<>>] /\ sent' = sent /\ events' = events
    BY DEF TakeSteers
  <2>3. work' = [work EXCEPT ![w] = r]
    BY DEF TakeSteers
  <2>. QED  BY <2>1, <2>2, <2>3, WorkTyped
<1>2. s \in Sessions /\ k.kind = "turn" /\ Active(w)
  BY <1>1, WorkInSession DEF AdmissionInv, Active, PlaceOK, TurnPCs
<1>3. steers[s] # None
  BY <1>2 DEF AdmissionInv, MarkInv, Live, Active, OneInv
<1>4. r.queue = steers[s] /\ r.accepted = <<>> /\ r.s = s
  BY <1>1 DEF WorkRecs
<1>. HIDE DEF r
<1>5. work'[w] = r /\ \A v \in Works \ {w} : work'[v] = work[v]
  BY <1>1
<1>6. Queue[s] = steers[s] /\ Queue'[s] = <<>> /\ \A t \in Sessions \ {s} : Queue'[t] = Queue[t]
  BY <1>1, <1>2, <1>3, Typed DEF Queue
<1>7. \A v \in Works \ {w} : work[v].s = s => work[v].accepted = <<>> /\ work[v].queue = <<>>
  BY <1>2, WaitsOf DEF AdmissionInv, OneInv, Active
<1>8. \A t \in Sessions : Waiting'[t] \subseteq Waiting[t]
  <2>. SUFFICES ASSUME NEW t \in Sessions, NEW x \in Waiting'[t] PROVE x \in Waiting[t]
    OBVIOUS
  <2>1. x \in Steers /\ (\/ \E i \in DOMAIN Queue'[t] : Queue'[t][i] = x
                         \/ \E v \in Works : work'[v].s = t /\ Holds(work'[v], x))
    BY DEF Waiting
  <2>2. CASE \E i \in DOMAIN Queue'[t] : Queue'[t][i] = x
    BY <1>6, <2>1, <2>2 DEF Waiting
  <2>3. ASSUME NEW v \in Works, work'[v].s = t, Holds(work'[v], x)
        PROVE  x \in Waiting[t]
    <3>1. CASE v # w
      BY <1>5, <2>1, <2>3, <3>1 DEF Waiting
    <3>2. CASE v = w
      <4>1. t = s /\ \E i \in DOMAIN Queue[s] : Queue[s][i] = x
        BY <1>4, <1>5, <1>6, <2>3, <3>2 DEF Holds
      <4>. QED  BY <2>1, <4>1 DEF Waiting
    <3>. QED  BY <3>1, <3>2
  <2>. QED  BY <2>1, <2>2, <2>3
<1>9. OrderInv'
  <2>1. \A t \in Sessions : Rising(Queue'[t])
    BY <1>6 DEF SteerInv, OrderInv, Rising
  <2>2. ASSUME NEW v \in Works
        PROVE  Rising(work'[v].accepted) /\ Rising(work'[v].queue) /\ Below(work'[v].accepted, work'[v].queue)
    <3>1. CASE v # w
      BY <1>5, <3>1 DEF SteerInv, OrderInv
    <3>2. CASE v = w
      <4>1. Rising(Queue[s])
        BY <1>2 DEF SteerInv, OrderInv
      <4>2. work'[v].accepted = <<>> /\ work'[v].queue = Queue[s]
        BY <1>4, <1>5, <1>6, <3>2
      <4>. QED  BY <4>1, <4>2 DEF Rising, Below
    <3>. QED  BY <3>1, <3>2
  <2>3. ASSUME NEW v \in Works, NEW t \in Sessions, work'[v].s = t
        PROVE  Below(work'[v].accepted, Queue'[t]) /\ Below(work'[v].queue, Queue'[t])
    <3>1. CASE t = s
      BY <1>6, <3>1 DEF Below
    <3>2. CASE t # s
      <4>1. work'[v] = work[v] /\ Queue'[t] = Queue[t]
        BY <1>4, <1>5, <1>6, <2>3, <3>2
      <4>. QED  BY <2>3, <4>1 DEF SteerInv, OrderInv
    <3>. QED  BY <3>1, <3>2
  <2>. QED  BY <2>1, <2>2, <2>3 DEF OrderInv
<1>. QED  BY <1>1, <1>8, <1>9, FewerWait

\* The head of a rising sequence goes behind those below it all.
LEMMA HeadPasses ==
    ASSUME NEW a \in Seq(Steers), NEW q \in Seq(Steers), NEW z \in Seq(Steers), q # <<>>,
           Rising(a), Rising(q), Below(a, q), Below(a, z), Below(q, z)
    PROVE  /\ Rising(Append(a, Head(q))) /\ Rising(Tail(q)) /\ Below(Append(a, Head(q)), Tail(q)) /\ Below(a, Tail(q))
           /\ Below(Append(a, Head(q)), z) /\ Below(Tail(q), z)
           /\ \A i \in DOMAIN Append(a, Head(q)) : \/ i \in DOMAIN a /\ Append(a, Head(q))[i] = a[i]
                                                   \/ Append(a, Head(q))[i] = Head(q)
           /\ \A i \in DOMAIN Tail(q) : Tail(q)[i] # Head(q) /\ \E j \in DOMAIN q : Tail(q)[i] = q[j]
           /\ \A i \in DOMAIN a : a[i] # Head(q)
           /\ \A i \in DOMAIN z : z[i] # Head(q)
           /\ Head(q) \in Steers /\ \E j \in DOMAIN q : Head(q) = q[j]
<1>. DEFINE x == Head(q)
            b == Append(a, x)
            r == Tail(q)
<1>1. x = q[1] /\ 1 \in DOMAIN q /\ x \in Steers /\ DOMAIN q = 1..Len(q) /\ Len(q) \in Nat
      /\ DOMAIN a = 1..Len(a) /\ Len(a) \in Nat /\ DOMAIN z = 1..Len(z) /\ Len(z) \in Nat
  OBVIOUS
<1>2. /\ DOMAIN r = 1..(Len(q) - 1) /\ \A i \in DOMAIN r : i + 1 \in DOMAIN q /\ 1 < i + 1 /\ r[i] = q[i + 1]
  OBVIOUS
<1>3. /\ DOMAIN b = 1..(Len(a) + 1) /\ b[Len(a) + 1] = x /\ \A i \in DOMAIN a : b[i] = a[i]
  BY <1>1
<1>4. \A i \in DOMAIN a : a[i] \in Steers
  OBVIOUS
<1>5. (\A i \in DOMAIN q : q[i] \in Steers) /\ (\A i \in DOMAIN z : z[i] \in Steers)
  OBVIOUS
<1>. HIDE DEF x, b, r
<1>6. \A i \in DOMAIN b : \/ i \in DOMAIN a /\ b[i] = a[i]
                          \/ i = Len(a) + 1 /\ b[i] = x
  BY <1>1, <1>3
<1>7. \A i \in DOMAIN a : a[i] < x
  BY <1>1 DEF Below
<1>8. \A i \in DOMAIN r : x < r[i]
  BY <1>1, <1>2 DEF Rising
<1>9. Rising(b)
  <2>. SUFFICES ASSUME NEW i \in DOMAIN b, NEW j \in DOMAIN b, i < j PROVE b[i] < b[j]
    BY DEF Rising
  <2>1. i \in DOMAIN a /\ b[i] = a[i]
    BY <1>1, <1>3
  <2>. QED  BY <1>6, <1>7, <2>1 DEF Rising
<1>10. Rising(r)
  <2>. SUFFICES ASSUME NEW i \in DOMAIN r, NEW j \in DOMAIN r, i < j PROVE r[i] < r[j]
    BY DEF Rising
  <2>1. i + 1 < j + 1
    BY <1>1, <1>2
  <2>. QED  BY <1>2, <2>1 DEF Rising
<1>11. Below(a, r)
  BY <1>2 DEF Below
<1>12. Below(b, r)
  BY <1>6, <1>8, <1>11 DEF Below
<1>13. Below(b, z) /\ Below(r, z)
  BY <1>1, <1>2, <1>6 DEF Below
<1>14. \A i \in DOMAIN z : z[i] # x
  <2>. SUFFICES ASSUME NEW i \in DOMAIN z PROVE z[i] # x
    OBVIOUS
  <2>1. x < z[i]
    BY <1>1 DEF Below
  <2>2. x \in Nat /\ z[i] \in Nat
    BY <1>1, <1>5 DEF Steers
  <2>. QED  BY <2>1, <2>2
<1>15. \A i \in DOMAIN a : a[i] # x
  BY <1>1, <1>4, <1>7 DEF Steers
<1>16. \A i \in DOMAIN r : r[i] # x /\ \E j \in DOMAIN q : r[i] = q[j]
  BY <1>1, <1>2, <1>5, <1>8 DEF Steers
<1>17. /\ Rising(b) /\ Rising(r) /\ Below(b, r) /\ Below(a, r)
       /\ Below(b, z) /\ Below(r, z)
       /\ \A i \in DOMAIN b : \/ i \in DOMAIN a /\ b[i] = a[i]
                              \/ b[i] = x
       /\ \A i \in DOMAIN r : r[i] # x /\ \E j \in DOMAIN q : r[i] = q[j]
       /\ \A i \in DOMAIN a : a[i] # x
       /\ \A i \in DOMAIN z : z[i] # x
       /\ x \in Steers /\ \E j \in DOMAIN q : x = q[j]
  BY <1>1, <1>6, <1>9, <1>10, <1>11, <1>12, <1>13, <1>14, <1>15, <1>16
<1>. QED  BY ONLY <1>17, Zenon DEF b, r, x

LEMMA JudgeOrdered ==
    ASSUME AdmissionInv, AdmissionInv', SteerInv, NEW w \in Works, Judge(w)
    PROVE  SteerInv'
<1>. DEFINE s == work[w].s
            k == work[w]
            x == Head(k.queue)
            a == k.accepted
            in == [k EXCEPT !.queue = Tail(k.queue), !.accepted = Append(k.accepted, x)]
            out == [k EXCEPT !.queue = Tail(k.queue)]
<1>1. k \in WorkRecs /\ k.pc = "judge" /\ k.queue # <<>> /\ work \in [Works -> WorkRecs]
  BY WorkTyped DEF Judge, AdmissionInv, TypeOK, WorkRecs
<1>2. s \in Sessions /\ Active(w)
  BY <1>1, WorkInSession DEF AdmissionInv, Active
<1>3. /\ \/ work' = [work EXCEPT ![w] = in] /\ events' = events
         \/ work' = [work EXCEPT ![w] = out] /\ events' = Append(events, Event(s, "blocked", w, x))
      /\ sent' = sent /\ steers' = steers
  BY DEF Judge, Send
<1>4. /\ in.queue = Tail(k.queue) /\ in.accepted = Append(a, x) /\ in.s = s
      /\ out.queue = Tail(k.queue) /\ out.accepted = a /\ out.s = s
  BY <1>1 DEF WorkRecs
<1>. HIDE DEF in, out
<1>5. /\ work'[w] \in {in, out} /\ \A v \in Works \ {w} : work'[v] = work[v]
      /\ Queue' = Queue
  BY <1>1, <1>3 DEF Queue
<1>6. a \in Seq(Steers) /\ k.queue \in Seq(Steers) /\ Queue[s] \in Seq(Steers)
  BY <1>2, WaitsOf
<1>7. /\ Rising(a) /\ Rising(k.queue) /\ Below(a, k.queue) /\ Below(a, Queue[s]) /\ Below(k.queue, Queue[s])
  BY <1>2 DEF SteerInv, OrderInv
<1>. DEFINE r == Tail(k.queue)
            b == Append(a, x)
            q == k.queue
<1>8. /\ Rising(b) /\ Rising(r) /\ Below(b, r) /\ Below(a, r)
      /\ Below(b, Queue[s]) /\ Below(r, Queue[s])
      /\ \A i \in DOMAIN b : (i \in DOMAIN a /\ b[i] = a[i]) \/ b[i] = x
      /\ \A i \in DOMAIN r : r[i] # x /\ \E j \in DOMAIN q : r[i] = q[j]
      /\ \A i \in DOMAIN a : a[i] # x
      /\ \A i \in DOMAIN Queue[s] : Queue[s][i] # x
      /\ x \in Steers /\ \E j \in DOMAIN q : x = q[j]
  <2>. DEFINE z == Queue[s]
  <2>1. /\ a \in Seq(Steers) /\ q \in Seq(Steers) /\ z \in Seq(Steers) /\ q # <<>>
        /\ Rising(a) /\ Rising(q) /\ Below(a, q) /\ Below(a, z) /\ Below(q, z)
    BY <1>1, <1>6, <1>7
  <2>. HIDE DEF a, q, z
  <2>. QED  BY ONLY <2>1, HeadPasses DEF z, q
<1>. HIDE DEF r, b, x, q
<1>9. /\ work'[w].s = s /\ work'[w].queue = r
      /\ \/ work'[w].accepted = b /\ events' = events
         \/ work'[w].accepted = a /\ events' = Append(events, Event(s, "blocked", w, x))
  BY <1>1, <1>3, <1>4 DEF r, b
<1>10. \A y : Holds(work'[w], y) => Holds(work[w], y)
  <2>1. Holds(work[w], x)
    BY <1>8 DEF Holds, q
  <2>. QED  BY <1>8, <1>9, <2>1 DEF Holds, q
<1>11. \A t \in Sessions : Waiting'[t] \subseteq Waiting[t]
  <2>. SUFFICES ASSUME NEW t \in Sessions, NEW y \in Waiting'[t] PROVE y \in Waiting[t]
    OBVIOUS
  <2>1. y \in Steers /\ (\/ \E i \in DOMAIN Queue[t] : Queue[t][i] = y
                         \/ \E v \in Works : work'[v].s = t /\ Holds(work'[v], y))
    BY <1>5 DEF Waiting
  <2>2. \A v \in Works : work'[v].s = t /\ Holds(work'[v], y) => work[v].s = t /\ Holds(work[v], y)
    BY <1>5, <1>9, <1>10
  <2>. QED  BY <2>1, <2>2 DEF Waiting
<1>12. OrderInv'
  <2>1. ASSUME NEW v \in Works
        PROVE  Rising(work'[v].accepted) /\ Rising(work'[v].queue) /\ Below(work'[v].accepted, work'[v].queue)
    BY <1>5, <1>7, <1>8, <1>9 DEF SteerInv, OrderInv
  <2>2. ASSUME NEW v \in Works, NEW t \in Sessions, work'[v].s = t
        PROVE  Below(work'[v].accepted, Queue[t]) /\ Below(work'[v].queue, Queue[t])
    BY <1>5, <1>7, <1>8, <1>9, <2>2 DEF SteerInv, OrderInv
  <2>. QED  BY <1>5, <2>1, <2>2 DEF SteerInv, OrderInv
<1>13. CASE events' = events
  BY <1>3, <1>11, <1>12, <1>13, FewerWait
<1>14. CASE work'[w].accepted = a /\ events' = Append(events, Event(s, "blocked", w, x))
  <2>. DEFINE told == <<x>>
  <2>1. x \in Waiting[s]
    BY <1>2, <1>8, WaitingHas DEF q
  <2>2. \A t \in Sessions : x \notin Waiting'[t]
    <3>. SUFFICES ASSUME x \in Waiting'[s] PROVE FALSE
      BY <1>2, <1>11, <2>1 DEF SteerInv, ApartInv
    <3>1. \A v \in Works \ {w} : work[v].s = s => ~Holds(work[v], x)
      BY <1>2, WaitsOf DEF AdmissionInv, OneInv, Active, Holds
    <3>2. ~Holds(work'[w], x)
      BY <1>8, <1>9, <1>14 DEF Holds
    <3>3. \A v \in Works : work'[v].s = s => ~Holds(work'[v], x)
      BY <1>5, <3>1, <3>2
    <3>. QED  BY <1>2, <1>5, <1>8, <3>3 DEF Waiting
  <2>3. told \in Seq(Steers) /\ Rising(told) /\ \A i \in DOMAIN told : told[i] = x
    BY <1>8 DEF Rising
  <2>4. Tells(s, w, "blocked", told)
    <3>1. [i \in DOMAIN told |-> Event(s, "blocked", w, told[i])] = <<Event(s, "blocked", w, x)>>
      OBVIOUS
    <3>2. events \in Seq(Reports) /\ Event(s, "blocked", w, x) \in Reports
      BY <1>2, <1>8, EventTyped DEF AdmissionInv, ReportsInv
    <3>. HIDE DEF told
    <3>. QED  BY <1>14, <3>1, <3>2, AppendIsConcat DEF Tells
  <2>. HIDE DEF told
  <2>5. \A i \in DOMAIN told : told[i] \in Waiting[s] /\ \A t \in Sessions : told[i] \notin Waiting'[t]
    BY <2>1, <2>2, <2>3
  <2>. HIDE DEF s
  <2>. QED  BY <1>2, <1>3, <1>11, <1>12, <2>3, <2>4, <2>5, TellsSteers
<1>. QED  BY <1>9, <1>13, <1>14

LEMMA AcceptOrdered ==
    ASSUME AdmissionInv, AdmissionInv', SteerInv, NEW w \in Works, AcceptSteers(w)
    PROVE  SteerInv'
<1>. DEFINE s == work[w].s
            q == work[w].accepted
<1>1. work[w] \in WorkRecs /\ work[w].pc = "judge" /\ work'[w].pc # "judge" /\ WorkOnly(w)
  BY WorkTyped, AcceptGoesOn, StepIsOfOne DEF AcceptSteers, Run
<1>2. s \in Sessions /\ Active(w)
  BY <1>1, WorkInSession DEF AdmissionInv, Active
<1>3. work'[w].accepted = <<>> /\ work'[w].queue = <<>>
  BY <1>1 DEF AdmissionInv, PlaceInv, PlaceOK
<1>4. /\ sent' = sent /\ Queue' = Queue
      /\ \/ events' = events
         \/ events' = events \o [i \in DOMAIN q |-> Event(s, "accepted", w, q[i])]
  BY DEF AcceptSteers, Queue
<1>5. \A v \in Works : \/ /\ work'[v].accepted = work[v].accepted /\ work'[v].queue = work[v].queue
                          /\ work'[v].s = work[v].s
                       \/ work'[v].accepted = <<>> /\ work'[v].queue = <<>>
  BY <1>1, <1>3 DEF WorkOnly
<1>6. OrderInv' /\ \A t \in Sessions : Waiting'[t] \subseteq Waiting[t]
  BY <1>4, <1>5, QuietOrder
<1>7. CASE events' = events
  BY <1>4, <1>6, <1>7, FewerWait
<1>8. CASE events' = events \o [i \in DOMAIN q |-> Event(s, "accepted", w, q[i])]
  <2>1. q \in Seq(Steers) /\ Rising(q) /\ Below(q, Queue[s])
    BY <1>2, WaitsOf DEF SteerInv, OrderInv
  <2>2. \A x \in Waiting'[s] : \E j \in DOMAIN Queue[s] : Queue[s][j] = x
    <3>1. \A v \in Works : work'[v].s = s => work'[v].accepted = <<>> /\ work'[v].queue = <<>>
      <4>1. \A v \in Works \ {w} : work[v].s = s => work[v].accepted = <<>> /\ work[v].queue = <<>>
        BY <1>2, WaitsOf DEF AdmissionInv, OneInv, Active
      <4>. QED  BY <1>1, <1>3, <4>1 DEF WorkOnly
    <3>2. \A v \in Works : \A x : ~(work'[v].s = s /\ Holds(work'[v], x))
      BY <3>1 DEF Holds
    <3>. QED  BY <1>2, <1>4, <3>2 DEF Waiting
  <2>3. \A i \in DOMAIN q, x \in Waiting'[s] : q[i] < x
    BY <2>1, <2>2 DEF Below
  <2>4. \A i \in DOMAIN q : q[i] \in Waiting[s] /\ q[i] \in Steers
    BY <1>2, <2>1, WaitingHas
  <2>5. \A i \in DOMAIN q : \A t \in Sessions : q[i] \notin Waiting'[t]
    <3>. SUFFICES ASSUME NEW i \in DOMAIN q, NEW t \in Sessions, q[i] \in Waiting'[t]
                  PROVE  FALSE
      OBVIOUS
    <3>1. t = s
      BY <1>2, <1>6, <2>4 DEF SteerInv, ApartInv
    <3>2. q[i] < q[i] /\ q[i] \in Nat
      BY <2>3, <2>4, <3>1 DEF Steers
    <3>. QED  BY <3>2
  <2>6. Tells(s, w, "accepted", q)
    BY <1>8 DEF Tells
  <2>. HIDE DEF s, q
  <2>. QED  BY <1>2, <1>4, <1>6, <2>1, <2>3, <2>4, <2>5, <2>6, TellsSteers
<1>. QED  BY <1>4, <1>7, <1>8

\* What others do leaves every steer where it is.
LEMMA CallsQuiet ==
    ASSUME AdmissionInv, AdmissionInv', SteerInv, NEW s \in Sessions,
           Cancel(s) \/ Attach(s) \/ Detach(s) \/ OtherProcess(s) \/ Restore(s)
    PROVE  SteerInv'
<1>1. UNCHANGED <<steers, work, sent, events>>
  BY DEF Cancel, Attach, Detach, OtherProcess, Restore
<1>2. Queue' = Queue
  BY <1>1 DEF Queue
<1>. QED  BY <1>1, <1>2, QuietStep

LEMMA SteerStep == AdmissionInv /\ AdmissionInv' /\ SteerInv /\ [Next]_vars => SteerInv'
<1>. SUFFICES ASSUME AdmissionInv, AdmissionInv', SteerInv, [Next]_vars PROVE SteerInv'
  OBVIOUS
<1>1. ASSUME NEW w \in Works, Run(w) \/ Panic(w) \/ \E s \in Sessions : Start(w, s) \/ Compact(w, s) \/ Reload(w, s)
      PROVE  SteerInv'
  BY <1>1, TakeSteersOrdered, JudgeOrdered, AcceptOrdered, OthersQuiet
<1>2. ASSUME NEW s \in Sessions, Cancel(s) \/ Attach(s) \/ Detach(s) \/ OtherProcess(s) \/ Restore(s)
      PROVE  SteerInv'
  BY <1>2, CallsQuiet
<1>3. ASSUME NEW s \in Sessions, Steer(s)
      PROVE  SteerInv'
  BY <1>3, SteerOrdered
<1>4. CASE UNCHANGED vars
  <2>1. UNCHANGED <<steers, work, sent, events>>
    BY <1>4 DEF vars
  <2>2. Queue' = Queue
    BY <2>1 DEF Queue
  <2>. QED  BY <2>1, <2>2, QuietStep
<1>. QED  BY <1>1, <1>2, <1>3, <1>4 DEF Next, Background, Call

LEMMA SteerInit == Init => SteerInv
<1>. SUFFICES ASSUME Init PROVE SteerInv
  OBVIOUS
<1>1. /\ \A s \in Sessions : Queue[s] = <<>>
      /\ \A w \in Works : work[w].accepted = <<>> /\ work[w].queue = <<>>
      /\ events = <<>>
  BY DEF Init, Queue
<1>2. \A s \in Sessions : Waiting[s] = {}
  BY <1>1 DEF Waiting, Holds
<1>3. OrderInv
  BY <1>1 DEF OrderInv, Rising, Below
<1>. QED  BY <1>1, <1>2, <1>3 DEF SteerInv, ApartInv, ToldInv, SteersInOrder

\* No steer is told of twice, and those let into a session are told of in the
\* order they were sent.
THEOREM SteersAreTold == Spec => []SteersInOrder
<1>1. Spec => [](AdmissionInv /\ SteerInv)
  BY SteerInit, SteerStep, AdmissionInvariant, PTL DEF Spec
<1>2. SteerInv => SteersInOrder
  BY DEF SteerInv
<1>. QED  BY <1>1, <1>2, PTL

(***************************************************************************)
(* What the frontend is promised: each step of the works is a step of      *)
(* TurnContract, or one the frontend does not see.                         *)
(***************************************************************************)

\* A step the frontend is allowed to see, or does not see.
ContractStep == [Contract!Next]_(Contract!core)

\* A work that has told of a steer is a turn past its prompt's gate, which let
\* the prompt in; one that ends as cancelled was cancelled; and none is
\* cancelled before it began.
HeardInv ==
    \A i \in DOMAIN events : Told(events[i]) =>
        LET k == work[events[i].w] IN k.kind = "turn" /\ k.pc \notin {"new", "gate"} /\ k.why # "blocked"
EndsInv ==
    \A w \in Works :
        /\ work[w].why = "cancelled" => w \in cancelled
        /\ work[w].why = "blocked" => work[w].pc \in {"ended", "done"}
        /\ work[w].pc = "new" => w \notin cancelled
ReceiptInv == HeardInv /\ EndsInv

\* A work the frontend heard of has told it something.
LEMMA HeardTold ==
    ASSUME NEW w \in Works
    PROVE  w \in Heard <=> \E i \in DOMAIN events : events[i].w = w /\ Told(events[i])
BY DEF Heard, Told

\* Who is at work where.
LEMMA LiveToken ==
    ASSUME AdmissionInv, NEW w \in Works, Live(w)
    PROVE  LET s == work[w].s IN
           /\ s \in Sessions /\ s \in running /\ token[s] = w
           /\ \A t \in running : t # s => token[t] # w
<1>1. Active(w) /\ work[w].s \in Sessions /\ work[w].s \in running
  BY WorkInSession DEF Live, Active, AdmissionInv, MarkInv
<1>2. \A t \in running : t \in Sessions /\ token[t] \in Works /\ Live(token[t]) /\ work[token[t]].s = t
  BY DEF AdmissionInv, MarkInv, TypeOK
<1>3. Active(token[work[w].s])
  BY <1>1, <1>2 DEF Live, Active
<1>4. token[work[w].s] = w
  BY <1>1, <1>2, <1>3 DEF AdmissionInv, OneInv
<1>. QED  BY <1>1, <1>2, <1>4

LEMMA RunningToken ==
    ASSUME AdmissionInv, NEW s \in Sessions
    PROVE  /\ s \in running => token[s] \in Works /\ Live(token[s]) /\ work[token[s]].s = s
           /\ steers[s] # None <=> s \in running /\ work[token[s]].kind = "turn"
           /\ token[s] # None => s \in running
BY DEF AdmissionInv, MarkInv

\* A step that neither moves the marks nor what a work is, has queued or has told.
LEMMA SameForFrontend ==
    ASSUME AdmissionInv, UNCHANGED <<running, token, cancelled, steers, events>>,
           \A v \in Works : Live(v) => /\ work'[v].kind = work[v].kind
                                       /\ work'[v].accepted = work[v].accepted /\ work'[v].queue = work[v].queue
    PROVE  ContractStep
<1>1. Working' = Working
  <2>1. \A s \in Sessions : s \in running => work'[token[s]].kind = work[token[s]].kind
    BY RunningToken
  <2>2. Heard' = Heard
    BY DEF Heard
  <2>. QED  BY <2>1, <2>2 DEF Working
<1>2. Pending' = Pending
  <2>1. \A s \in Sessions : steers[s] # None =>
           work'[token[s]].accepted = work[token[s]].accepted /\ work'[token[s]].queue = work[token[s]].queue
    BY RunningToken
  <2>. QED  BY <2>1 DEF Pending
<1>3. Mail' = Mail
  BY DEF Mail
<1>. QED  BY <1>1, <1>2, <1>3 DEF ContractStep, Contract!core

------------------------------------------------------------------------------
(* The mail *)

Mails == [s : Sessions, kind : {"done", "accepted", "blocked", "compacted", "error"}, x : Steers \cup {None},
          of : Works \cup {None}, why : Reasons \cup {""}]

\* What each letter says.
LEMMA MailIs ==
    ASSUME ReportsInv
    PROVE  /\ Mail \in Seq(Mails) /\ Len(Mail) = Len(events) /\ \A i \in 1..Len(events) : Mail[i] = Mailed(events[i])
           /\ \A e \in Reports : Mailed(e) \in Mails
<1>1. events \in Seq(Reports) /\ DOMAIN events = 1..Len(events) /\ Len(events) \in Nat
  BY DEF ReportsInv
<1>2. \A e \in Reports : Mailed(e) \in Mails
  <2>. SUFFICES ASSUME NEW e \in Reports PROVE Mailed(e) \in Mails
    OBVIOUS
  <2>1. CASE e \in [s : Sessions, kind : {"done"}, w : Works, x : Reasons]
    BY <2>1 DEF Mailed, Mails
  <2>2. CASE e \in [s : Sessions, kind : {"accepted", "blocked"}, w : Works, x : Steers]
    BY <2>2 DEF Mailed, Mails
  <2>3. CASE e \in [s : Sessions, kind : {"compacted", "error"}, w : Works, x : {None}]
    BY <2>3 DEF Mailed, Mails
  <2>. QED  BY <2>1, <2>2, <2>3 DEF Reports
<1>3. \A i \in 1..Len(events) : events[i] \in Reports
  BY <1>1
<1>4. Mail \in [1..Len(events) -> Mails] /\ \A i \in 1..Len(events) : Mail[i] = Mailed(events[i])
  BY <1>1, <1>2, <1>3 DEF Mail
<1>5. Mail \in Seq(Mails) /\ Len(Mail) = Len(events)
  BY <1>1, <1>4
<1>. QED  BY <1>2, <1>4, <1>5

\* A report more is a letter more.
LEMMA MailAppends ==
    ASSUME ReportsInv, ReportsInv', NEW e \in Reports, events' = Append(events, e)
    PROVE  Mail' = Append(Mail, Mailed(e))
<1>1. /\ Mail \in Seq(Mails) /\ Len(Mail) = Len(events) /\ \A i \in 1..Len(events) : Mail[i] = Mailed(events[i])
      /\ Mailed(e) \in Mails
  BY MailIs
<1>2. Mail' \in Seq(Mails) /\ Len(Mail') = Len(events') /\ \A i \in 1..Len(events') : Mail'[i] = Mailed(events'[i])
  <2>1. (ReportsInv => /\ Mail \in Seq(Mails) /\ Len(Mail) = Len(events)
                       /\ \A i \in 1..Len(events) : Mail[i] = Mailed(events[i]))'
    BY MailIs, PTL
  <2>. QED  BY <2>1 DEF Mails
<1>3. /\ Len(events) \in Nat /\ Len(events') = Len(events) + 1 /\ \A i \in 1..Len(events) : events'[i] = events[i]
      /\ events'[Len(events) + 1] = e
  BY AppendProperties DEF ReportsInv
<1>4. /\ Append(Mail, Mailed(e)) \in Seq(Mails) /\ Len(Append(Mail, Mailed(e))) = Len(Mail) + 1
      /\ \A i \in 1..Len(Mail) : Append(Mail, Mailed(e))[i] = Mail[i]
      /\ Append(Mail, Mailed(e))[Len(Mail) + 1] = Mailed(e)
  BY <1>1, AppendProperties
<1>. DEFINE a == Mail'
            b == Append(Mail, Mailed(e))
<1>5. Len(a) = Len(b) /\ \A i \in 1..Len(a) : a[i] = b[i]
  BY <1>1, <1>2, <1>3, <1>4
<1>6. a \in Seq(Mails) /\ b \in Seq(Mails)
  BY <1>2, <1>4
<1>. HIDE DEF a, b
<1>7. a = b
  BY <1>5, <1>6, SeqEqual
<1>. QED  BY <1>7 DEF a, b

\* What a turn tells of steers is what the frontend hears of them.
LEMMA MailTells ==
    ASSUME ReportsInv, ReportsInv', NEW s \in Sessions, NEW w \in Works, NEW kind \in {"accepted", "blocked"},
           NEW q \in Seq(Steers), Tells(s, w, kind, q)
    PROVE  Mail' = Mail \o [i \in DOMAIN q |-> Contract!Event(s, kind, q[i])]
<1>. DEFINE n == Len(events)
            new == [i \in DOMAIN q |-> Event(s, kind, w, q[i])]
            c == [i \in DOMAIN q |-> Contract!Event(s, kind, q[i])]
            a == Mail'
            b == Mail \o c
<1>1. Mail \in Seq(Mails) /\ Len(Mail) = n /\ \A i \in 1..n : Mail[i] = Mailed(events[i])
  BY MailIs
<1>2. Mail' \in Seq(Mails) /\ Len(Mail') = Len(events') /\ \A i \in 1..Len(events') : Mail'[i] = Mailed(events'[i])
  <2>1. (ReportsInv => /\ Mail \in Seq(Mails) /\ Len(Mail) = Len(events)
                       /\ \A i \in 1..Len(events) : Mail[i] = Mailed(events[i]))'
    BY MailIs, PTL
  <2>. QED  BY <2>1 DEF Mails
<1>3. events \in Seq(Reports) /\ n \in Nat /\ DOMAIN q = 1..Len(q) /\ Len(q) \in Nat /\ \A i \in 1..Len(q) : q[i] \in Steers
  BY DEF ReportsInv
<1>4. new \in Seq(Reports) /\ Len(new) = Len(q) /\ \A i \in 1..Len(q) : new[i] = Event(s, kind, w, q[i])
  <2>1. \A i \in 1..Len(q) : Event(s, kind, w, q[i]) \in Reports
    BY <1>3, EventTyped
  <2>. QED  BY <1>3, <2>1
<1>5. c \in Seq(Mails) /\ Len(c) = Len(q) /\ \A i \in 1..Len(q) : c[i] = Contract!Event(s, kind, q[i])
  <2>1. \A i \in 1..Len(q) : Contract!Event(s, kind, q[i]) \in Mails
    BY <1>3 DEF Contract!Event, Mails
  <2>. QED  BY <1>3, <2>1
<1>6. \A x \in Steers : Mailed(Event(s, kind, w, x)) = Contract!Event(s, kind, x)
  BY DEF Mailed, Event, Contract!Event
<1>. HIDE DEF new, c
<1>7. /\ Len(events') = n + Len(q)
      /\ \A i \in 1..(n + Len(q)) : events'[i] = IF i <= n THEN events[i] ELSE new[i - n]
  BY <1>3, <1>4, ConcatProperties DEF Tells, new
<1>8. /\ b \in Seq(Mails) /\ Len(b) = n + Len(q)
      /\ \A i \in 1..(n + Len(q)) : b[i] = IF i <= n THEN Mail[i] ELSE c[i - n]
  <2>1. /\ Mail \o c \in Seq(Mails) /\ Len(Mail \o c) = Len(Mail) + Len(c)
        /\ \A i \in 1..Len(Mail) + Len(c) : (Mail \o c)[i] = IF i <= Len(Mail) THEN Mail[i] ELSE c[i - Len(Mail)]
    <3>1. Mail \in Seq(Mails) /\ c \in Seq(Mails)
      BY <1>1, <1>5
    <3>. QED  BY <3>1, ConcatProperties
  <2>. QED  BY <1>1, <1>5, <2>1
<1>. HIDE DEF a, b
<1>9. ASSUME NEW i \in 1..(n + Len(q)) PROVE a[i] = b[i]
  <2>1. CASE i <= n
    BY <1>1, <1>2, <1>3, <1>7, <1>8, <2>1 DEF a
  <2>2. CASE i > n
    <3>1. i - n \in 1..Len(q) /\ ~(i <= n)
      BY <1>3, <2>2
    <3>2. events'[i] = Event(s, kind, w, q[i - n]) /\ b[i] = Contract!Event(s, kind, q[i - n]) /\ q[i - n] \in Steers
      BY <1>3, <1>4, <1>5, <1>7, <1>8, <3>1
    <3>. QED  BY <1>2, <1>6, <1>7, <3>2 DEF a
  <2>. QED  BY <1>3, <2>1, <2>2
<1>10. Len(a) = Len(b) /\ \A i \in 1..Len(a) : a[i] = b[i]
  BY <1>2, <1>7, <1>8, <1>9 DEF a
<1>11. a \in Seq(Mails) /\ b \in Seq(Mails)
  BY <1>2, <1>8 DEF a
<1>12. a = b
  BY <1>10, <1>11, SeqEqual
<1>. QED  BY <1>12 DEF a, b, c

------------------------------------------------------------------------------
(* Why a work ends *)

LEMMA EndsStep ==
    ASSUME AdmissionInv, NEW w \in Works,
           Run(w) \/ Panic(w) \/ \E s \in Sessions : Start(w, s) \/ Compact(w, s) \/ Reload(w, s)
    PROVE  /\ cancelled' = cancelled /\ work'[w].pc # "new"
           /\ work'[w].pc = "gate" => work[w].pc = "new"
           /\ work[w].pc # "new" => work'[w].kind = work[w].kind
           /\ \/ /\ work'[w].why = work[w].why
                 /\ work[w].pc \in {"ended", "done"} => work'[w].pc \in {"ended", "done"}
              \/ work'[w].why \in {"stop", "error"}
              \/ work'[w].why = "cancelled" /\ w \in cancelled
              \/ work'[w].why = "blocked" /\ work[w].pc = "gate" /\ work'[w].pc = "ended"
<1>1. work \in [Works -> WorkRecs] /\ work[w] \in WorkRecs
  BY WorkTyped DEF AdmissionInv, TypeOK, WorkRecs
<1>2. CASE Gate(w)
  BY <1>1, <1>2 DEF Gate, Goto, GotoFor, Cut, WorkRecs
<1>3. CASE Hydrate(w) \/ Build(w) \/ Insert(w)
  BY <1>1, <1>3 DEF Hydrate, Build, Insert, Goto, GotoFor, WorkRecs
<1>4. CASE Take(w) \/ Freeze(w) \/ Resolve(w)
  BY <1>1, <1>4 DEF Take, Freeze, Resolve, Goto, GotoFor, WorkRecs
<1>5. CASE TakeSteers(w) \/ Judge(w)
  BY <1>1, <1>5 DEF TakeSteers, Judge, WorkRecs
<1>6. CASE AcceptSteers(w)
  <2>. DEFINE k == work[w]
              enter == k.accepted # <<>> /\ w \notin cancelled
              text == IF enter THEN k.text \o k.accepted ELSE k.text
              iter == IF k.last /\ enter THEN k.iter + 1 ELSE k.iter
              why == IF k.last /\ w \in cancelled THEN "cancelled" ELSE k.why
              pc == CASE ~k.last -> "request"
                      [] k.last /\ enter -> "boundary"
                      [] OTHER -> IF w \in cancelled THEN "close" ELSE "consult"
              r == [k EXCEPT !.text = text, !.queue = <<>>, !.accepted = <<>>, !.last = FALSE,
                             !.iter = iter, !.why = why, !.pc = pc]
  <2>1. k.pc = "judge" /\ k.last \in BOOLEAN /\ cancelled' = cancelled /\ work' = [work EXCEPT ![w] = r]
    BY <1>1, <1>6 DEF AcceptSteers, WorkRecs
  <2>2. pc \in {"request", "boundary", "close", "consult"}
    BY <2>1
  <2>3. why = k.why \/ (why = "cancelled" /\ w \in cancelled)
    OBVIOUS
  <2>. HIDE DEF text, iter, why, pc
  <2>4. r.pc = pc /\ r.why = why /\ r.kind = k.kind
    BY <1>1 DEF WorkRecs
  <2>. HIDE DEF r
  <2>5. work'[w] = r
    BY <1>1, <2>1
  <2>. QED  BY <2>1, <2>2, <2>3, <2>4, <2>5
<1>7. CASE Request(w)
  BY <1>1, <1>7 DEF Request, Goto, GotoFor, Cut, NextIteration, WorkRecs
<1>8. CASE Consult(w) \/ Prune(w) \/ Close(w)
  BY <1>1, <1>8 DEF Consult, Prune, Close, Goto, GotoFor, NextIteration, WorkRecs
<1>9. CASE Commit(w) \/ Settle(w) \/ ReloadFails(w) \/ Panic(w)
  BY <1>1, <1>9 DEF Commit, Settle, ReloadFails, Panic, Goto, WorkRecs
<1>10. CASE \E s \in Sessions : Start(w, s) \/ Compact(w, s) \/ Reload(w, s)
  <2>1. PICK s \in Sessions : Start(w, s) \/ Compact(w, s) \/ Reload(w, s)
    BY <1>10
  <2>2. CASE Start(w, s)
    BY <1>1, <2>2 DEF Start, WorkRecs
  <2>3. CASE Compact(w, s)
    BY <1>1, <2>3 DEF Compact, WorkRecs
  <2>4. CASE Reload(w, s)
    BY <1>1, <2>4 DEF Reload, WorkRecs
  <2>. QED  BY <2>1, <2>2, <2>3, <2>4
<1>. QED  BY <1>2, <1>3, <1>4, <1>5, <1>6, <1>7, <1>8, <1>9, <1>10 DEF Run

\* Only a turn that judges steers tells of any, and it tells of its own.
LEMMA TellsOwn ==
    ASSUME AdmissionInv, NEW w \in Works,
           Run(w) \/ Panic(w) \/ \E s \in Sessions : Start(w, s) \/ Compact(w, s) \/ Reload(w, s),
           NEW i \in DOMAIN events', Told(events'[i])
    PROVE  \/ i \in DOMAIN events /\ events'[i] = events[i] /\ Told(events[i])
           \/ work[w].pc = "judge" /\ (Judge(w) \/ AcceptSteers(w)) /\ events'[i].w = w
<1>1. events \in Seq(Reports) /\ work[w] \in WorkRecs /\ DOMAIN events = 1..Len(events) /\ Len(events) \in Nat
  BY WorkTyped DEF AdmissionInv, ReportsInv
<1>2. CASE Judge(w)
  <2>. DEFINE e == Event(work[w].s, "blocked", w, Head(work[w].queue))
  <2>1. work[w].pc = "judge" /\ e.w = w
    BY <1>2 DEF Judge, Event
  <2>2. CASE events' = events
    BY <2>2
  <2>3. CASE events' = Append(events, e)
    <3>. HIDE DEF e
    <3>1. DOMAIN events' = 1..(Len(events) + 1) /\ events'[Len(events) + 1] = e
          /\ \A j \in 1..Len(events) : events'[j] = events[j]
      BY <1>1, <2>3
    <3>2. i \in DOMAIN events \/ i = Len(events) + 1
      BY <1>1, <3>1
    <3>. QED  BY <1>1, <1>2, <2>1, <3>1, <3>2
  <2>. QED  BY <1>2, <2>2, <2>3 DEF Judge, Send
<1>3. CASE AcceptSteers(w)
  <2>. DEFINE q == work[w].accepted
              new == [j \in DOMAIN q |-> Event(work[w].s, "accepted", w, q[j])]
  <2>1. work[w].pc = "judge" /\ q \in Seq(Steers)
    BY <1>1, <1>3 DEF AcceptSteers, WorkRecs
  <2>2. CASE events' = events
    BY <2>2
  <2>3. CASE events' = events \o new
    <3>1. Len(q) \in Nat /\ DOMAIN q = 1..Len(q)
      BY <2>1
    <3>2. DOMAIN new = 1..Len(q) /\ Len(new) = Len(q) /\ \A j \in 1..Len(q) : new[j].w = w
      BY <3>1 DEF Event
    <3>. HIDE DEF q
    <3>3. /\ DOMAIN events' = 1..(Len(events) + Len(q))
          /\ \A j \in 1..Len(events) : events'[j] = events[j]
          /\ \A j \in 1..(Len(events) + Len(q)) : j > Len(events) => events'[j] = new[j - Len(events)]
      BY <1>1, <2>3, <3>1, <3>2
    <3>. HIDE DEF new
    <3>4. CASE i \in 1..Len(events)
      BY <1>1, <3>3, <3>4
    <3>5. CASE i > Len(events) /\ i - Len(events) \in 1..Len(q)
      BY <1>3, <2>1, <3>2, <3>3, <3>5
    <3>. QED  BY <1>1, <3>1, <3>3, <3>4, <3>5
  <2>. QED  BY <1>3, <2>2, <2>3 DEF AcceptSteers
<1>4. CASE ~Judge(w) /\ ~AcceptSteers(w)
  <2>1. CASE events' = events
    BY <2>1
  <2>2. CASE Settle(w)
    <3>1. events' = Append(events, Receipt(w)) /\ Receipt(w).kind \in {"done", "error", "compacted"}
      BY <2>2 DEF Settle, Send, Receipt, Event
    <3>. QED  BY <3>1, AppendsTold DEF AdmissionInv
  <2>3. CASE events' = Append(events, Event(work[w].s, "error", w, None))
    <3>1. Event(work[w].s, "error", w, None).kind = "error"
      BY DEF Event
    <3>. QED  BY <2>3, <3>1, AppendsTold DEF AdmissionInv
  <2>4. events' = events \/ Settle(w) \/ events' = Append(events, Event(work[w].s, "error", w, None))
    <3>1. CASE Gate(w) \/ Hydrate(w) \/ Build(w) \/ Insert(w) \/ Take(w) \/ Freeze(w) \/ Resolve(w) \/ TakeSteers(w)
      BY <3>1 DEF Gate, Hydrate, Build, Insert, Take, Freeze, Resolve, TakeSteers
    <3>2. CASE Request(w) \/ Consult(w) \/ Prune(w) \/ Close(w) \/ Commit(w) \/ ReloadFails(w) \/ Panic(w)
      BY <3>2 DEF Request, Consult, Prune, Close, Commit, ReloadFails, Panic, Send
    <3>3. CASE \E s \in Sessions : Start(w, s) \/ Compact(w, s) \/ Reload(w, s)
      BY <3>3 DEF Start, Compact, Reload
    <3>. QED  BY <1>4, <3>1, <3>2, <3>3 DEF Run
  <2>. QED  BY <2>1, <2>2, <2>3, <2>4
<1>. QED  BY <1>2, <1>3, <1>4

\* A receipt is never given for what did not happen.
LEMMA ReceiptStep == AdmissionInv /\ ReceiptInv /\ [Next]_vars => ReceiptInv'
<1>. SUFFICES ASSUME AdmissionInv, ReceiptInv, [Next]_vars PROVE ReceiptInv'
  OBVIOUS
<1>1. events \in Seq(Reports) /\ \A i \in DOMAIN events : events[i].w \in Works
  BY ReportsTyped DEF AdmissionInv, ReportsInv
<1>2. CASE UNCHANGED <<work, events>> /\ \E s \in Sessions : cancelled' = cancelled \cup {token[s]} /\ token[s] # None
  <2>1. \A w \in Works : work[w].pc = "new" => w \notin cancelled'
    BY <1>2, RunningToken DEF ReceiptInv, EndsInv, Live
  <2>. QED  BY <1>2, <2>1 DEF ReceiptInv, EndsInv, HeardInv, Told
<1>3. CASE UNCHANGED <<work, events, cancelled>>
  BY <1>3 DEF ReceiptInv, EndsInv, HeardInv, Told
<1>4. ASSUME NEW w \in Works, Run(w) \/ Panic(w) \/ \E s \in Sessions : Start(w, s) \/ Compact(w, s) \/ Reload(w, s)
      PROVE  ReceiptInv'
  <2>1. WorkOnly(w)
    BY <1>4, StepIsOfOne
  <2>2. /\ cancelled' = cancelled /\ work'[w].pc # "new"
        /\ work'[w].pc = "gate" => work[w].pc = "new"
        /\ work[w].pc # "new" => work'[w].kind = work[w].kind
        /\ \/ /\ work'[w].why = work[w].why
              /\ work[w].pc \in {"ended", "done"} => work'[w].pc \in {"ended", "done"}
           \/ work'[w].why \in {"stop", "error"}
           \/ work'[w].why = "cancelled" /\ w \in cancelled
           \/ work'[w].why = "blocked" /\ work[w].pc = "gate" /\ work'[w].pc = "ended"
    BY <1>4, EndsStep
  <2>3. EndsInv'
    BY <2>1, <2>2 DEF ReceiptInv, EndsInv, WorkOnly
  <2>4. ASSUME work[w].kind = "turn", work[w].pc \notin {"new", "gate"}, work[w].why # "blocked"
        PROVE  work'[w].kind = "turn" /\ work'[w].pc \notin {"new", "gate"} /\ work'[w].why # "blocked"
    BY <2>2, <2>4
  <2>5. ASSUME NEW i \in DOMAIN events', Told(events'[i])
        PROVE  LET k == work'[events'[i].w] IN k.kind = "turn" /\ k.pc \notin {"new", "gate"} /\ k.why # "blocked"
    <3>1. CASE i \in DOMAIN events /\ events'[i] = events[i] /\ Told(events[i])
      <4>1. events[i].w \in Works /\ work[events[i].w].kind = "turn" /\ work[events[i].w].pc \notin {"new", "gate"}
            /\ work[events[i].w].why # "blocked"
        BY <1>1, <3>1 DEF ReceiptInv, HeardInv
      <4>2. CASE events[i].w = w
        BY <2>4, <3>1, <4>1, <4>2
      <4>3. CASE events[i].w # w
        BY <2>1, <3>1, <4>1, <4>3 DEF WorkOnly
      <4>. QED  BY <4>2, <4>3
    <3>2. CASE work[w].pc = "judge" /\ events'[i].w = w
      <4>1. work[w].kind = "turn" /\ work[w].why # "blocked"
        BY <3>2, WorkTyped DEF PlaceOK, TurnPCs, ReceiptInv, EndsInv
      <4>. QED  BY <2>4, <3>2, <4>1
    <3>. QED  BY <1>4, <2>5, <3>1, <3>2, TellsOwn
  <2>. QED  BY <2>3, <2>5 DEF ReceiptInv, HeardInv, Told
<1>5. CASE \E s \in Sessions : Restore(s) \/ Cancel(s) \/ Steer(s) \/ Attach(s) \/ Detach(s) \/ OtherProcess(s)
  BY <1>2, <1>3, <1>5 DEF Restore, Cancel, Steer, Attach, Detach, OtherProcess
<1>6. CASE UNCHANGED vars
  BY <1>3, <1>6 DEF vars
<1>. QED  BY <1>4, <1>5, <1>6 DEF Next, Background, Call

\* Nothing has been told at first.
LEMMA ReceiptInit == Init => ReceiptInv
BY DEF Init, ReceiptInv, HeardInv, EndsInv

------------------------------------------------------------------------------
(* The steers a turn has not told of *)

\* What is before z, and what is left without it.
LEMMA FrontGoes ==
    ASSUME NEW S, NEW b \in Seq(S), NEW z \in Seq(S)
    PROVE  /\ b \o z \in Seq(S) /\ Len(b \o z) = Len(b) + Len(z) /\ Len(b) \in Nat /\ Len(z) \in Nat
           /\ SubSeq(b \o z, 1, Len(b)) = b
           /\ SubSeq(b \o z, Len(b) + 1, Len(b \o z)) = z
<1>1. b \o z \in Seq(S) /\ Len(b \o z) = Len(b) + Len(z) /\ Len(b) \in Nat /\ Len(z) \in Nat
  BY ConcatProperties, LenProperties
<1>2. SubSeq(b \o z, 1, Len(b)) = b
  <2>1. CASE b = <<>>
    BY <1>1, <2>1, EmptySeq, SubSeqEmpty
  <2>2. CASE b # <<>>
    <3>1. 1 \in 1..Len(b) /\ Len(b) \in 1..Len(b)
      BY <2>2, EmptySeq
    <3>. QED  BY <3>1, SubSeqOfConcat1, SubSeqFull
  <2>. QED  BY <2>1, <2>2
<1>3. SubSeq(b \o z, Len(b) + 1, Len(b) + Len(z)) = z
  <2>1. CASE z = <<>>
    <3>1. Len(z) = 0 /\ Len(b) + 1 \in Int /\ Len(b) + Len(z) \in Int /\ Len(b) + Len(z) < Len(b) + 1
      BY <1>1, <2>1
    <3>. QED  BY <2>1, <3>1, SubSeqEmpty
  <2>2. CASE z # <<>>
    <3>1. Len(z) > 0
      BY <2>2, EmptySeq
    <3>2. /\ Len(b) + 1 \in Len(b) + 1..Len(b) + Len(z) /\ Len(b) + Len(z) \in Len(b) + 1..Len(b) + Len(z)
          /\ Len(b) + 1 - Len(b) = 1 /\ Len(b) + Len(z) - Len(b) = Len(z)
      BY <1>1, <3>1
    <3>3. SubSeq(b \o z, Len(b) + 1, Len(b) + Len(z)) = SubSeq(z, Len(b) + 1 - Len(b), Len(b) + Len(z) - Len(b))
      BY <3>2, SubSeqOfConcat2
    <3>. QED  BY <3>2, <3>3, SubSeqFull
  <2>. QED  BY <2>1, <2>2
<1>. QED  BY <1>1, <1>2, <1>3

\* The first of the queue may pass to the end of the accepted,
LEMMA HeadMoves ==
    ASSUME NEW S, NEW a \in Seq(S), NEW q \in Seq(S), q # <<>>
    PROVE  /\ Append(a, Head(q)) \o Tail(q) = a \o q
           /\ Append(a, Head(q)) \in Seq(S) /\ Tail(q) \in Seq(S)
<1>. DEFINE h == Head(q)
            r == Tail(q)
<1>1. h \in S /\ r \in Seq(S) /\ h = q[1] /\ 1 \in 1..Len(q) /\ Len(q) \in 1..Len(q)
  BY HeadTailProperties, EmptySeq
<1>2. q = <<h>> \o r
  <2>1. SubSeq(q, 1, Len(q)) = <<q[1]>> \o SubSeq(q, 2, Len(q))
    BY <1>1, SubSeqRecursiveFirst
  <2>. QED  BY <1>1, <2>1, SubSeqFull, TailIsSubSeq
<1>. HIDE DEF h, r
<1>3. <<h>> \in Seq(S)
  BY <1>1
<1>4. Append(a, h) = a \o <<h>> /\ Append(a, h) \in Seq(S)
  BY <1>1, AppendIsConcat, AppendProperties
<1>5. (a \o <<h>>) \o r = a \o (<<h>> \o r)
  BY <1>1, <1>3, ConcatAssociative
<1>6. Append(a, h) \o r = a \o q
  BY <1>2, <1>4, <1>5
<1>. QED  BY <1>1, <1>4, <1>6 DEF h, r

\* or go.
LEMMA HeadGoes ==
    ASSUME NEW S, NEW a \in Seq(S), NEW q \in Seq(S), NEW z \in Seq(S), q # <<>>
    PROVE  LET p == (a \o q) \o z IN
           /\ Len(a) + 1 \in DOMAIN p /\ p[Len(a) + 1] = Head(q)
           /\ (a \o Tail(q)) \o z = Contract!Without(p, Len(a) + 1)
<1>. DEFINE b == Append(a, Head(q))
            r == Tail(q)
            p == (a \o q) \o z
            y == q \o z
            x == r \o z
            n == Len(a)
<1>1. b \o r = a \o q /\ b \in Seq(S) /\ r \in Seq(S)
  BY HeadMoves
<1>2. Len(b) = n + 1 /\ b[n + 1] = Head(q) /\ n \in Nat
  BY HeadTailProperties, AppendProperties
<1>. HIDE DEF b, r
<1>3. x \in Seq(S) /\ y \in Seq(S)
  BY <1>1, ConcatProperties
<1>4. p = a \o y
  BY ConcatAssociative
<1>5. p = b \o x /\ (a \o r) \o z = a \o x
  <2>1. p = (b \o r) \o z
    BY <1>1
  <2>2. a \in Seq(S) /\ b \in Seq(S) /\ r \in Seq(S) /\ z \in Seq(S)
    BY <1>1
  <2>3. (b \o r) \o z = b \o (r \o z)
    BY <2>2, ConcatAssociative
  <2>4. (a \o r) \o z = a \o (r \o z)
    BY ONLY <2>2, ConcatAssociative
  <2>. QED  BY <2>1, <2>3, <2>4
<1>. HIDE DEF x, y, p, n
<1>6. SubSeq(p, 1, n) = a
  BY <1>3, <1>4, FrontGoes DEF n
<1>7. SubSeq(p, n + 2, Len(p)) = x /\ p \in Seq(S) /\ Len(p) = n + 1 + Len(x) /\ Len(x) \in Nat
  <2>1. SubSeq(p, Len(b) + 1, Len(p)) = x /\ p \in Seq(S) /\ Len(p) = Len(b) + Len(x) /\ Len(x) \in Nat
    BY <1>1, <1>3, <1>5, FrontGoes
  <2>2. Len(b) + 1 = n + 2
    BY <1>2
  <2>. QED  BY <1>2, <2>1, <2>2
<1>8. n + 1 \in DOMAIN p
  <2>1. DOMAIN p = 1..Len(p)
    BY <1>7, LenProperties
  <2>. QED  BY <1>2, <1>7, <2>1
<1>9. p[n + 1] = Head(q)
  <2>1. \A i \in 1..Len(b) + Len(x) : (b \o x)[i] = IF i <= Len(b) THEN b[i] ELSE x[i - Len(b)]
    BY <1>1, <1>3, ConcatProperties
  <2>2. n + 1 \in 1..Len(b) + Len(x) /\ n + 1 <= Len(b)
    BY <1>2, <1>7
  <2>. QED  BY <1>2, <1>5, <2>1, <2>2
<1>10. Contract!Without(p, n + 1) = a \o x
  <2>1. (n + 1) - 1 = n /\ (n + 1) + 1 = n + 2
    BY <1>2
  <2>2. SubSeq(p, 1, (n + 1) - 1) \o SubSeq(p, (n + 1) + 1, Len(p)) = a \o x
    BY <1>6, <1>7, <2>1
  <2>. QED  BY <2>2 DEF Contract!Without
<1>. QED  BY <1>5, <1>8, <1>9, <1>10 DEF p, r, n

------------------------------------------------------------------------------
(* What a step shows the frontend *)

\* A turn that goes on: its own steers are all of what is pending that it can touch.
LEMMA TurnsPending ==
    ASSUME AdmissionInv, NEW w \in Works, Live(w), work[w].kind = "turn", WorkOnly(w), token' = token,
           \A t \in Sessions \ {work[w].s} : steers'[t] = steers[t], steers'[work[w].s] \in Seq(Steers)
    PROVE  LET s == work[w].s IN
           /\ steers[s] \in Seq(Steers) /\ Pending[s] = (work[w].accepted \o work[w].queue) \o steers[s]
           /\ Pending' = [Pending EXCEPT ![s] = (work'[w].accepted \o work'[w].queue) \o steers'[s]]
<1>. DEFINE s == work[w].s
            p == (work'[w].accepted \o work'[w].queue) \o steers'[s]
<1>1. s \in Sessions /\ s \in running /\ token[s] = w /\ \A t \in running : t # s => token[t] # w
  BY LiveToken
<1>2. steers[s] # None /\ steers[s] \in Seq(Steers) /\ steers'[s] # None
  BY <1>1, Typed, RunningToken, ConstantsAssumption
<1>3. Pending[s] = (work[w].accepted \o work[w].queue) \o steers[s]
  BY <1>1, <1>2 DEF Pending
<1>4. Pending'[s] = p
  BY <1>1, <1>2 DEF Pending
<1>5. \A t \in Sessions \ {s} : Pending'[t] = Pending[t]
  <2>. SUFFICES ASSUME NEW t \in Sessions \ {s} PROVE Pending'[t] = Pending[t]
    OBVIOUS
  <2>1. CASE steers[t] = None
    BY <2>1 DEF Pending
  <2>2. CASE steers[t] # None
    <3>1. token[t] \in Works \ {w}
      BY <1>1, <2>2, RunningToken
    <3>. QED  BY <2>2, <3>1 DEF Pending, WorkOnly
  <2>. QED  BY <2>1, <2>2
<1>. HIDE DEF p
<1>6. Pending' = [Pending EXCEPT ![s] = p]
  <2>1. Pending = [t \in Sessions |-> Pending[t]] /\ Pending' = [t \in Sessions |-> Pending'[t]]
    BY DEF Pending
  <2>. QED  BY <1>4, <1>5, <2>1
<1>. QED  BY <1>2, <1>3, <1>6 DEF p

\* The frontend's view of a work that goes on, but for what it was told.
LEMMA WorkGoesOn ==
    ASSUME AdmissionInv, NEW w \in Works, Live(w), WorkOnly(w), work'[w].kind = work[w].kind,
           UNCHANGED <<running, token, cancelled>>, Heard' \in {Heard, Heard \cup {w}}
    PROVE  LET s == work[w].s IN
           /\ s \in Sessions
           /\ Working[s] = [kind |-> work[w].kind, prompt |-> IF work[w].kind = "turn" THEN w ELSE None,
                             stop |-> w \in cancelled, heard |-> w \in Heard]
           /\ Working[s] # None
           /\ Heard' = Heard => Working' = Working
           /\ Heard' = Heard \cup {w} => Working' = [Working EXCEPT ![s].heard = TRUE]
<1>. DEFINE s == work[w].s
            job == [kind |-> work[w].kind, prompt |-> IF work[w].kind = "turn" THEN w ELSE None,
                    stop |-> w \in cancelled, heard |-> w \in Heard]
<1>1. s \in Sessions /\ s \in running /\ token[s] = w /\ \A t \in running : t # s => token[t] # w
  BY LiveToken
<1>2. Working[s] = job
  BY <1>1 DEF Working
<1>3. Working[s] # None
  <2>1. job \in Jobs
    BY DEF Jobs, Live
  <2>. QED  BY <1>2, <2>1, ConstantsAssumption
<1>4. \A t \in Sessions \ {s} : Working'[t] = Working[t]
  <2>. SUFFICES ASSUME NEW t \in Sessions \ {s} PROVE Working'[t] = Working[t]
    OBVIOUS
  <2>1. CASE t \notin running
    BY <2>1 DEF Working
  <2>2. CASE t \in running
    <3>1. token[t] \in Works \ {w} /\ work'[token[t]] = work[token[t]]
      BY <1>1, <2>2, RunningToken DEF WorkOnly
    <3>2. token[t] \in Heard' <=> token[t] \in Heard
      BY <3>1
    <3>. QED  BY <2>2, <3>1, <3>2 DEF Working
  <2>. QED  BY <2>1, <2>2
<1>5. Working'[s] = [job EXCEPT !.heard = w \in Heard']
  BY <1>1 DEF Working
<1>6. Working = [t \in Sessions |-> Working[t]] /\ Working' = [t \in Sessions |-> Working'[t]]
  BY DEF Working
<1>7. ASSUME Heard' = Heard PROVE Working' = Working
  <2>1. Working'[s] = Working[s]
    BY <1>2, <1>5, <1>7
  <2>. QED  BY <1>1, <1>4, <1>6, <2>1
<1>8. ASSUME Heard' = Heard \cup {w} PROVE Working' = [Working EXCEPT ![s].heard = TRUE]
  <2>1. Working'[s] = [Working[s] EXCEPT !.heard = TRUE]
    BY <1>2, <1>5, <1>8
  <2>. QED  BY <1>1, <1>4, <1>6, <2>1
<1>. QED  BY <1>1, <1>2, <1>3, <1>7, <1>8

\* The parts of a job.
LEMMA JobIs ==
    ASSUME NEW j, NEW kind, NEW p, NEW S, NEW T, NEW w,
           j = [kind |-> kind, prompt |-> p, stop |-> w \in S, heard |-> w \in T]
    PROVE  j.kind = kind /\ j.prompt = p /\ (j.stop <=> w \in S) /\ (j.heard <=> w \in T)
OBVIOUS

\* A work that tells of steers is heard of from then on,
LEMMA HeardTells ==
    ASSUME ReportsInv, NEW s \in Sessions, NEW w \in Works, NEW kind \in {"accepted", "blocked"},
           NEW q \in Seq(Steers), q # <<>>, Tells(s, w, kind, q)
    PROVE  Heard' = Heard \cup {w}
<1>. DEFINE n == Len(events)
            new == [i \in DOMAIN q |-> Event(s, kind, w, q[i])]
<1>1. events \in Seq(Reports) /\ n \in Nat /\ DOMAIN events = 1..n
  BY DEF ReportsInv
<1>2. DOMAIN q = 1..Len(q) /\ Len(q) \in Nat /\ Len(q) > 0
  BY EmptySeq
<1>3. DOMAIN new = 1..Len(q) /\ Len(new) = Len(q) /\ \A i \in 1..Len(q) : new[i] = Event(s, kind, w, q[i])
  BY <1>2
<1>4. /\ DOMAIN events' = 1..(n + Len(q))
      /\ \A i \in 1..n : events'[i] = events[i]
      /\ \A i \in 1..(n + Len(q)) : i > n => events'[i] = new[i - n]
  BY <1>1, <1>2, <1>3 DEF Tells
<1>. HIDE DEF new
<1>5. \A i \in 1..(n + Len(q)) : i > n => events'[i].w = w /\ events'[i].kind = kind
  <2>. SUFFICES ASSUME NEW i \in 1..(n + Len(q)), i > n PROVE events'[i].w = w /\ events'[i].kind = kind
    OBVIOUS
  <2>1. i - n \in 1..Len(q)
    BY <1>1, <1>2
  <2>. QED  BY <1>3, <1>4, <2>1 DEF Event
<1>6. \A i \in DOMAIN events' : (i \in DOMAIN events /\ events'[i] = events[i]) \/ events'[i].w = w
  BY <1>1, <1>2, <1>4, <1>5
<1>7. \A i \in DOMAIN events : i \in DOMAIN events' /\ events'[i] = events[i]
  BY <1>1, <1>2, <1>4
<1>8. w \in Heard'
  <2>1. n + 1 \in DOMAIN events' /\ events'[n + 1].w = w /\ events'[n + 1].kind = kind
    BY <1>1, <1>2, <1>4, <1>5
  <2>. QED  BY <2>1 DEF Heard
<1>9. ASSUME NEW v \in Heard' PROVE v \in Heard \cup {w}
  BY <1>6 DEF Heard
<1>10. ASSUME NEW v \in Heard PROVE v \in Heard'
  BY <1>7 DEF Heard
<1>. QED  BY <1>8, <1>9, <1>10

\* and a report of another kind says nothing of steers.
LEMMA HeardSame ==
    ASSUME ReportsInv, NEW e \in Reports, e.kind \notin {"accepted", "blocked"}, events' = Append(events, e)
    PROVE  Heard' = Heard
<1>1. \A i \in DOMAIN events' : Told(events'[i]) => i \in DOMAIN events /\ events'[i] = events[i]
  BY AppendsTold
<1>2. \A i \in DOMAIN events : i \in DOMAIN events' /\ events'[i] = events[i]
  <2>1. events \in Seq(Reports) /\ Len(events) \in Nat /\ DOMAIN events = 1..Len(events)
    BY DEF ReportsInv
  <2>2. events' \in Seq(Reports) /\ Len(events') = Len(events) + 1 /\ \A i \in 1..Len(events) : events'[i] = events[i]
    BY <2>1, AppendProperties
  <2>3. DOMAIN events' = 1..Len(events')
    BY <2>2
  <2>. QED  BY <2>1, <2>2, <2>3
<1>3. ASSUME NEW v \in Heard' PROVE v \in Heard
  BY <1>1 DEF Heard, Told
<1>4. ASSUME NEW v \in Heard PROVE v \in Heard'
  BY <1>2 DEF Heard
<1>. QED  BY <1>3, <1>4

------------------------------------------------------------------------------
(* Every step is one of the contract's, or shows nothing *)

LEMMA Unseen ==
    ASSUME Working' = Working, Pending' = Pending, Mail' = Mail
    PROVE  ContractStep
BY DEF ContractStep, Contract!core

LEMMA Seen ==
    ASSUME NEW s \in Sessions, Contract!Work(s) \/ Contract!Call(s)
    PROVE  ContractStep
BY DEF ContractStep, Contract!Next

\* The places of a work that tell the frontend nothing.
LEMMA QuietWork ==
    ASSUME AdmissionInv, NEW w \in Works,
           \/ Gate(w) \/ Hydrate(w) \/ Build(w) \/ Insert(w) \/ Take(w) \/ Freeze(w) \/ Resolve(w)
           \/ Request(w) \/ Consult(w) \/ Close(w) \/ Commit(w) \/ ReloadFails(w)
    PROVE  ContractStep
<1>1. work \in [Works -> WorkRecs] /\ work[w] \in WorkRecs
  BY WorkTyped DEF AdmissionInv, TypeOK, WorkRecs
<1>2. WorkOnly(w)
  BY StepIsOfOne DEF Run
<1>3. /\ UNCHANGED <<running, token, cancelled, steers, events>>
      /\ work'[w].kind = work[w].kind /\ work'[w].accepted = work[w].accepted /\ work'[w].queue = work[w].queue
  <2>1. CASE Gate(w) \/ Hydrate(w)
    BY <1>1, <2>1 DEF Gate, Hydrate, Goto, GotoFor, WorkRecs
  <2>2. CASE Build(w) \/ Insert(w)
    BY <1>1, <2>2 DEF Build, Insert, GotoFor, WorkRecs
  <2>3. CASE Take(w) \/ Freeze(w)
    BY <1>1, <2>3 DEF Take, Freeze, Goto, GotoFor, WorkRecs
  <2>4. CASE Resolve(w) \/ Consult(w)
    BY <1>1, <2>4 DEF Resolve, Consult, Goto, WorkRecs
  <2>5. CASE Request(w)
    BY <1>1, <2>5 DEF Request, Goto, GotoFor, WorkRecs
  <2>6. CASE Close(w) \/ Commit(w) \/ ReloadFails(w)
    BY <1>1, <2>6 DEF Close, Commit, ReloadFails, Goto, WorkRecs
  <2>. QED  BY <2>1, <2>2, <2>3, <2>4, <2>5, <2>6
<1>. QED  BY <1>2, <1>3, SameForFrontend DEF WorkOnly

\* The calls and tasks that tell it nothing.
LEMMA QuietCalls ==
    ASSUME AdmissionInv, NEW s \in Sessions,
           Attach(s) \/ Detach(s) \/ OtherProcess(s) \/ Restore(s) \/ \E w \in Works : Reload(w, s)
    PROVE  ContractStep
<1>1. CASE Attach(s) \/ Detach(s) \/ OtherProcess(s) \/ Restore(s)
  <2>1. UNCHANGED <<running, token, cancelled, steers, events, work>>
    BY <1>1 DEF Attach, Detach, OtherProcess, Restore
  <2>. QED  BY <2>1, SameForFrontend
<1>2. ASSUME NEW w \in Works, Reload(w, s) PROVE ContractStep
  <2>1. WorkOnly(w)
    BY <1>2, StepIsOfOne
  <2>2. ~Live(w) /\ UNCHANGED <<running, token, cancelled, steers, events>>
    BY <1>2 DEF Reload, Live
  <2>. QED  BY <2>1, <2>2, SameForFrontend DEF WorkOnly
<1>. QED  BY <1>1, <1>2

\* The queue is taken whole.
LEMMA TakeSteersKept ==
    ASSUME AdmissionInv, NEW w \in Works, TakeSteers(w)
    PROVE  ContractStep
<1>. DEFINE s == work[w].s
<1>1. work \in [Works -> WorkRecs] /\ work[w] \in WorkRecs /\ work[w].pc = "boundary" /\ work[w].kind = "turn" /\ Live(w)
  BY WorkTyped DEF AdmissionInv, TypeOK, WorkRecs, TakeSteers, PlaceOK, TurnPCs, Live
<1>2. WorkOnly(w) /\ s \in Sessions
  BY <1>1, StepIsOfOne, LiveToken DEF Run
<1>3. /\ work'[w].kind = work[w].kind /\ work'[w].accepted = <<>> /\ work'[w].queue = steers[s]
      /\ steers' = [steers EXCEPT ![s] = <<>>] /\ UNCHANGED <<running, token, cancelled, events>>
  BY <1>1 DEF TakeSteers, WorkRecs
<1>4. steers'[s] = <<>> /\ \A t \in Sessions \ {s} : steers'[t] = steers[t]
  BY <1>2, <1>3, Typed
<1>5. work[w].accepted = <<>> /\ work[w].queue = <<>> /\ <<>> \in Seq(Steers)
  BY <1>1, <1>2, WaitsOf
<1>6. /\ steers[s] \in Seq(Steers) /\ Pending[s] = (<<>> \o <<>>) \o steers[s]
      /\ Pending' = [Pending EXCEPT ![s] = (<<>> \o steers[s]) \o <<>>]
  BY <1>1, <1>2, <1>3, <1>4, <1>5, TurnsPending
<1>7. (<<>> \o <<>>) \o steers[s] = steers[s] /\ (<<>> \o steers[s]) \o <<>> = steers[s]
  BY <1>5, <1>6, ConcatEmptySeq
<1>8. Pending' = Pending
  BY <1>2, <1>6, <1>7 DEF Pending
<1>9. Heard' = Heard /\ Mail' = Mail
  BY <1>3 DEF Heard, Mail
<1>10. Working' = Working
  BY <1>1, <1>2, <1>3, <1>9, WorkGoesOn
<1>. QED  BY <1>8, <1>9, <1>10, Unseen

\* A steer is judged: it passes, or the frontend hears it was blocked.
LEMMA JudgeKept ==
    ASSUME AdmissionInv, AdmissionInv', NEW w \in Works, Judge(w)
    PROVE  ContractStep
<1>. DEFINE s == work[w].s
            k == work[w]
            x == Head(k.queue)
            a == k.accepted
            q == k.queue
            z == steers[s]
            in == [k EXCEPT !.queue = Tail(k.queue), !.accepted = Append(k.accepted, x)]
            out == [k EXCEPT !.queue = Tail(k.queue)]
<1>1. /\ k \in WorkRecs /\ k.pc = "judge" /\ q # <<>> /\ k.kind = "turn" /\ Live(w) /\ work \in [Works -> WorkRecs]
      /\ w \notin cancelled
  BY WorkTyped DEF Judge, AdmissionInv, TypeOK, WorkRecs, PlaceOK, TurnPCs, Live
<1>2. WorkOnly(w) /\ s \in Sessions
  BY <1>1, StepIsOfOne, LiveToken DEF Run
<1>3. /\ \/ work' = [work EXCEPT ![w] = in] /\ events' = events
         \/ work' = [work EXCEPT ![w] = out] /\ events' = Append(events, Event(s, "blocked", w, x))
      /\ UNCHANGED <<running, token, cancelled, steers>>
  BY DEF Judge, Send
<1>4. /\ in.queue = Tail(q) /\ in.accepted = Append(a, x) /\ in.kind = k.kind
      /\ out.queue = Tail(q) /\ out.accepted = a /\ out.kind = k.kind
  BY <1>1 DEF WorkRecs
<1>. HIDE DEF in, out
<1>5. /\ work'[w].kind = k.kind /\ work'[w].queue = Tail(q)
      /\ \/ work'[w].accepted = Append(a, x) /\ events' = events
         \/ work'[w].accepted = a /\ events' = Append(events, Event(s, "blocked", w, x))
  BY <1>1, <1>3, <1>4
<1>6. a \in Seq(Steers) /\ q \in Seq(Steers) /\ x \in Steers
  <2>1. a \in Seq(Steers) /\ q \in Seq(Steers)
    BY <1>1 DEF WorkRecs
  <2>. QED  BY <1>1, <2>1, HeadTailProperties
<1>7. /\ z \in Seq(Steers) /\ Pending[s] = (a \o q) \o z
      /\ Pending' = [Pending EXCEPT ![s] = (work'[w].accepted \o work'[w].queue) \o z]
  <2>1. steers'[s] \in Seq(Steers) /\ \A t \in Sessions \ {s} : steers'[t] = steers[t]
    BY <1>1, <1>2, <1>3, Typed, RunningToken, LiveToken
  <2>. QED  BY <1>1, <1>2, <1>3, <2>1, TurnsPending
<1>. HIDE DEF x, a, q, z, k
<1>8. CASE work'[w].accepted = Append(a, x) /\ events' = events
  <2>. x = Head(q) /\ q # <<>>
    BY <1>1 DEF x, q
  <2>1. Append(a, x) \o Tail(q) = a \o q
    BY <1>6, HeadMoves
  <2>2. Pending' = Pending
    <3>1. Pending' = [Pending EXCEPT ![s] = Pending[s]]
      BY <1>5, <1>7, <1>8, <2>1
    <3>2. Pending = [t \in Sessions |-> Pending[t]]
      BY DEF Pending
    <3>. QED  BY <3>1, <3>2
  <2>3. Heard' = Heard /\ Mail' = Mail
    BY <1>8 DEF Heard, Mail
  <2>4. Working' = Working
    BY <1>1, <1>2, <1>3, <1>5, <2>3, WorkGoesOn DEF k
  <2>. QED  BY <2>2, <2>3, <2>4, Unseen
<1>9. CASE work'[w].accepted = a /\ events' = Append(events, Event(s, "blocked", w, x))
  <2>. DEFINE told == <<x>>
              i == Len(a) + 1
              p == (a \o q) \o z
  <2>1. told \in Seq(Steers) /\ told # <<>>
    BY <1>6
  <2>2. Tells(s, w, "blocked", told)
    <3>1. [j \in DOMAIN told |-> Event(s, "blocked", w, told[j])] = <<Event(s, "blocked", w, x)>>
      OBVIOUS
    <3>2. events \in Seq(Reports) /\ Event(s, "blocked", w, x) \in Reports
      BY <1>2, <1>6, EventTyped DEF AdmissionInv, ReportsInv
    <3>. HIDE DEF told
    <3>. QED  BY <1>9, <3>1, <3>2, AppendIsConcat DEF Tells
  <2>. HIDE DEF told, s
  <2>3. Mail' = Mail \o [j \in DOMAIN told |-> Contract!Event(s, "blocked", told[j])]
    BY <1>2, <2>1, <2>2, MailTells DEF AdmissionInv
  <2>4. Heard' = Heard \cup {w}
    BY <1>2, <2>1, <2>2, HeardTells DEF AdmissionInv
  <2>5. /\ Working[s] # None /\ Working[s].kind = "turn" /\ Working' = [Working EXCEPT ![s].heard = TRUE]
    <3>1. /\ Live(w) /\ work'[w].kind = work[w].kind /\ work[w].kind = "turn"
          /\ UNCHANGED <<running, token, cancelled>>
      BY <1>1, <1>3, <1>5 DEF k
    <3>2. /\ Working[work[w].s] = [kind |-> work[w].kind, prompt |-> IF work[w].kind = "turn" THEN w ELSE None,
                                   stop |-> w \in cancelled, heard |-> w \in Heard]
          /\ Working[work[w].s] # None /\ Working' = [Working EXCEPT ![work[w].s].heard = TRUE]
      BY <1>2, <2>4, <3>1, WorkGoesOn
    <3>. QED  BY <3>1, <3>2 DEF s
  <2>6. q # <<>> /\ x = Head(q)
    BY <1>1 DEF x, q
  <2>7. i \in DOMAIN p /\ p[i] = x /\ (a \o Tail(q)) \o z = Contract!Without(p, i)
    BY ONLY <1>6, <1>7, <2>6, HeadGoes
  <2>8. Pending[s] = p /\ Pending' = [Pending EXCEPT ![s] = Contract!Without(p, i)]
    BY <1>5, <1>7, <1>9, <2>7
  <2>. HIDE DEF i, p
  <2>9. Contract!Tell(s, "blocked", <<Pending[s][i]>>)
    BY <2>3, <2>5, <2>7, <2>8 DEF Contract!Tell, told
  <2>10. Pending' = [Pending EXCEPT ![s] = Contract!Without(@, i)] /\ i \in DOMAIN Pending[s]
    BY <2>7, <2>8
  <2>11. Contract!TakesSteers(s)
    BY <2>5 DEF Contract!TakesSteers
  <2>12. Contract!Refuse(s)
    BY <2>9, <2>10, <2>11 DEF Contract!Refuse
  <2>. QED  BY <1>2, <2>12, Seen DEF Contract!Work, s
<1>. QED  BY <1>5, <1>8, <1>9

\* A turn that drops the steers it took tells of none of them.
LEMMA DropKept ==
    ASSUME AdmissionInv, NEW w \in Works, Live(w), work[w].kind = "turn", WorkOnly(w),
           work'[w].kind = "turn", work'[w].accepted = <<>>, work'[w].queue = <<>>,
           UNCHANGED <<running, token, cancelled, steers, events>>
    PROVE  ContractStep
<1>. DEFINE s == work[w].s
            b == work[w].accepted \o work[w].queue
            z == steers[s]
            p == b \o z
            n == Len(b)
<1>1. s \in Sessions /\ Heard' = Heard /\ Mail' = Mail
  BY LiveToken DEF Heard, Mail
<1>2. Working' = Working /\ Working[s] # None /\ Working[s].kind = "turn"
  <2>1. /\ Working[s] = [kind |-> work[w].kind, prompt |-> IF work[w].kind = "turn" THEN w ELSE None,
                          stop |-> w \in cancelled, heard |-> w \in Heard]
        /\ Working[s] # None /\ Working' = Working
    BY <1>1, WorkGoesOn
  <2>. QED  BY <2>1
<1>3. z \in Seq(Steers) /\ Pending[s] = p /\ Pending' = [Pending EXCEPT ![s] = (<<>> \o <<>>) \o z]
  <2>1. steers'[s] = z /\ z \in Seq(Steers) /\ \A t \in Sessions \ {s} : steers'[t] = steers[t]
    BY <1>1, Typed, RunningToken, LiveToken
  <2>. QED  BY <1>1, <2>1, TurnsPending
<1>4. (<<>> \o <<>>) \o z = z
  BY <1>3, ConcatEmptySeq, EmptySeq
<1>5. b \in Seq(Steers)
  BY <1>1, WaitsOf, ConcatProperties
<1>. HIDE DEF b, z, s
<1>6. p \in Seq(Steers) /\ Len(p) = n + Len(z) /\ n \in Nat /\ Len(z) \in Nat /\ SubSeq(p, n + 1, Len(p)) = z
  BY <1>3, <1>5, FrontGoes
<1>7. CASE b = <<>>
  <2>1. p = z
    BY <1>3, <1>7, ConcatEmptySeq
  <2>2. Pending' = [Pending EXCEPT ![s] = Pending[s]]
    BY <1>3, <1>4, <2>1
  <2>3. Pending' = Pending
    <3>1. Pending = [t \in Sessions |-> Pending[t]]
      BY DEF Pending
    <3>. QED  BY <2>2, <3>1
  <2>. QED  BY <1>1, <1>2, <2>3, Unseen
<1>8. CASE b # <<>>
  <2>1. n \in 1..Len(Pending[s])
    BY <1>3, <1>5, <1>6, <1>8, EmptySeq
  <2>2. Pending' = [Pending EXCEPT ![s] = SubSeq(@, n + 1, Len(@))]
    BY <1>3, <1>4, <1>6
  <2>3. Contract!Forget(s)
    BY <1>1, <1>2, <2>1, <2>2 DEF Contract!Forget, Contract!TakesSteers
  <2>. QED  BY <1>1, <2>3, Seen DEF Contract!Work
<1>. QED  BY <1>7, <1>8

\* All that passed enter, in order, unless the turn was cancelled.
LEMMA AcceptKept ==
    ASSUME AdmissionInv, AdmissionInv', NEW w \in Works, AcceptSteers(w)
    PROVE  ContractStep
<1>. DEFINE s == work[w].s
            q == work[w].accepted
            z == steers[s]
<1>1. /\ work[w] \in WorkRecs /\ work[w].pc = "judge" /\ work[w].kind = "turn" /\ Live(w)
      /\ work[w].queue = <<>> \/ w \in cancelled
  BY WorkTyped DEF AcceptSteers, AdmissionInv, TypeOK, WorkRecs, PlaceOK, TurnPCs, Live
<1>2. WorkOnly(w) /\ s \in Sessions /\ work'[w].pc # "judge"
  BY <1>1, StepIsOfOne, LiveToken, AcceptGoesOn DEF Run
<1>3. UNCHANGED <<running, token, cancelled, steers>>
  BY DEF AcceptSteers
<1>4. work'[w].kind = "turn" /\ work'[w].accepted = <<>> /\ work'[w].queue = <<>>
  <2>1. work'[w].kind = work[w].kind
    BY <1>1, EndsStep DEF Run
  <2>. QED  BY <1>1, <1>2, <2>1 DEF AdmissionInv, PlaceInv, PlaceOK
<1>5. CASE ~(q # <<>> /\ w \notin cancelled)
  <2>1. events' = events
    BY <1>5 DEF AcceptSteers
  <2>. QED  BY <1>1, <1>2, <1>3, <1>4, <2>1, DropKept
<1>6. CASE q # <<>> /\ w \notin cancelled
  <2>1. events' = events \o [i \in DOMAIN q |-> Event(s, "accepted", w, q[i])]
    BY <1>6 DEF AcceptSteers
  <2>2. q \in Seq(Steers) /\ work[w].queue = <<>>
    BY <1>1, <1>6 DEF WorkRecs
  <2>3. z \in Seq(Steers) /\ Pending[s] = (q \o <<>>) \o z /\ Pending' = [Pending EXCEPT ![s] = (<<>> \o <<>>) \o z]
    <3>1. steers'[s] = z /\ z \in Seq(Steers) /\ \A t \in Sessions \ {s} : steers'[t] = steers[t]
      BY <1>1, <1>2, <1>3, Typed, RunningToken, LiveToken
    <3>. QED  BY <1>1, <1>2, <1>3, <1>4, <2>2, <3>1, TurnsPending
  <2>4. q \o <<>> = q /\ (<<>> \o <<>>) \o z = z
    BY <2>2, <2>3, ConcatEmptySeq, EmptySeq
  <2>5. Tells(s, w, "accepted", q)
    BY <2>1 DEF Tells
  <2>. HIDE DEF q, z, s
  <2>6. Mail' = Mail \o [i \in DOMAIN q |-> Contract!Event(s, "accepted", q[i])]
    BY <1>2, <2>2, <2>5, MailTells DEF AdmissionInv
  <2>7. Heard' = Heard \cup {w}
    BY <1>2, <1>6, <2>2, <2>5, HeardTells DEF AdmissionInv
  <2>8. /\ Working[s] # None /\ Working[s].kind = "turn" /\ ~Working[s].stop
        /\ Working' = [Working EXCEPT ![s].heard = TRUE]
    <3>1. /\ Working[work[w].s] = [kind |-> work[w].kind, prompt |-> IF work[w].kind = "turn" THEN w ELSE None,
                                   stop |-> w \in cancelled, heard |-> w \in Heard]
          /\ Working[work[w].s] # None /\ Working' = [Working EXCEPT ![work[w].s].heard = TRUE]
      BY <1>1, <1>2, <1>3, <1>4, <2>7, WorkGoesOn
    <3>2. work[w].kind = "turn" /\ w \notin cancelled
      BY <1>1, <1>6
    <3>3. Working[work[w].s].kind = "turn" /\ ~Working[work[w].s].stop
      BY <3>1, <3>2, JobIs
    <3>. QED  BY <3>1, <3>3 DEF s
  <2>. DEFINE p == q \o z
              n == Len(q)
  <2>9. /\ p \in Seq(Steers) /\ Len(p) = n + Len(z) /\ n \in Nat /\ Len(z) \in Nat
        /\ SubSeq(p, 1, n) = q /\ SubSeq(p, n + 1, Len(p)) = z
    BY <2>2, <2>3, FrontGoes
  <2>10. Pending[s] = p /\ Pending' = [Pending EXCEPT ![s] = z]
    BY <2>3, <2>4
  <2>11. n \in 1..Len(Pending[s])
    BY <1>6, <2>2, <2>9, <2>10, EmptySeq
  <2>. HIDE DEF p, n
  <2>12. SubSeq(Pending[s], 1, n) = q /\ Pending' = [Pending EXCEPT ![s] = SubSeq(@, n + 1, Len(@))]
    BY <2>9, <2>10
  <2>13. Contract!Tell(s, "accepted", SubSeq(Pending[s], 1, n))
    BY <2>6, <2>8, <2>12 DEF Contract!Tell
  <2>14. Contract!Accept(s)
    BY <2>8, <2>11, <2>12, <2>13 DEF Contract!Accept, Contract!TakesSteers
  <2>. QED  BY <1>2, <2>14, Seen DEF Contract!Work, s
<1>. QED  BY <1>5, <1>6

\* A compaction reports a save that failed ahead of its receipt.
LEMMA PruneKept ==
    ASSUME AdmissionInv, AdmissionInv', NEW w \in Works, Prune(w)
    PROVE  ContractStep
<1>. DEFINE s == work[w].s
            e == Event(s, "error", w, None)
<1>1. /\ work \in [Works -> WorkRecs] /\ work[w] \in WorkRecs /\ work[w].pc = "prune" /\ work[w].kind = "compact" /\ Live(w)
  BY WorkTyped DEF Prune, AdmissionInv, TypeOK, WorkRecs, PlaceOK, Live
<1>2. WorkOnly(w) /\ s \in Sessions
  BY <1>1, StepIsOfOne, LiveToken DEF Run
<1>3. /\ work'[w].kind = work[w].kind /\ work'[w].accepted = work[w].accepted /\ work'[w].queue = work[w].queue
      /\ UNCHANGED <<running, token, cancelled, steers>>
  BY <1>1 DEF Prune, GotoFor, WorkRecs
<1>4. CASE events' = events
  BY <1>2, <1>3, <1>4, SameForFrontend DEF WorkOnly
<1>5. CASE events' = Append(events, e)
  <2>1. e \in Reports /\ e.kind = "error" /\ Mailed(e) = Contract!Event(s, "error", None)
    <3>1. e \in Reports
      BY <1>2, EventTyped
    <3>. QED  BY <3>1 DEF Event, Mailed, Contract!Event
  <2>. HIDE DEF e, s
  <2>2. Heard' = Heard /\ Mail' = Append(Mail, Contract!Event(s, "error", None))
    BY <1>5, <2>1, HeardSame, MailAppends DEF AdmissionInv
  <2>3. Working[s] # None /\ Working' = Working
    BY <1>1, <1>2, <1>3, <2>2, WorkGoesOn DEF s
  <2>4. Pending' = Pending
    <3>1. \A t \in Sessions : steers[t] # None => token[t] \in Works \ {w}
      BY <1>1, RunningToken
    <3>. QED  BY <1>2, <1>3, <3>1 DEF Pending, WorkOnly
  <2>5. Contract!Fail(s)
    BY <2>2, <2>3, <2>4 DEF Contract!Fail
  <2>. QED  BY <1>2, <2>5, Seen DEF Contract!Work, s
<1>. QED  BY <1>4, <1>5 DEF Prune, Send

\* A panic tells the frontend nothing; what the turn had taken is dropped.
LEMMA PanicKept ==
    ASSUME AdmissionInv, AdmissionInv', NEW w \in Works, Panic(w)
    PROVE  ContractStep
<1>1. /\ work \in [Works -> WorkRecs] /\ work[w] \in WorkRecs /\ work[w].kind \in {"turn", "compact"} /\ Live(w)
  BY WorkTyped DEF Panic, AdmissionInv, TypeOK, WorkRecs, PlaceOK, Live, InnerPCs, GuardPCs
<1>2. WorkOnly(w)
  BY StepIsOfOne
<1>3. /\ work'[w].kind = work[w].kind /\ work'[w].accepted = <<>> /\ work'[w].queue = <<>>
      /\ UNCHANGED <<running, token, cancelled, steers, events>>
  BY <1>1 DEF Panic, WorkRecs
<1>4. CASE work[w].kind = "turn"
  BY <1>1, <1>2, <1>3, <1>4, DropKept
<1>5. CASE work[w].kind = "compact"
  <2>1. work[w].pc # "judge"
    BY <1>5, WorkTyped DEF PlaceOK, TurnPCs
  <2>2. work[w].accepted = <<>> /\ work[w].queue = <<>>
    BY <2>1, WorkTyped DEF PlaceOK
  <2>. QED  BY <1>2, <1>3, <2>2, SameForFrontend DEF WorkOnly
<1>. QED  BY <1>1, <1>4, <1>5

\* The receipt says why the work ended, once the session is free.
LEMMA ReceiptIsDue ==
    ASSUME AdmissionInv, ReceiptInv, NEW w \in Works, Live(w), work[w].pc = "ended"
    PROVE  LET s == work[w].s IN
           Receipt(w) \in Reports /\ Receipt(w).kind \notin {"accepted", "blocked"} /\ Mailed(Receipt(w)) \in Contract!Receipts(s)
<1>. DEFINE s == work[w].s
            k == work[w]
<1>1. k \in WorkRecs /\ k.kind \in {"turn", "compact"} /\ s \in Sessions /\ s \in running /\ token[s] = w
  BY WorkTyped, LiveToken DEF Live
<1>2. Working[s] = [kind |-> k.kind, prompt |-> IF k.kind = "turn" THEN w ELSE None,
                    stop |-> w \in cancelled, heard |-> w \in Heard]
  BY <1>1 DEF Working
<1>3. CASE k.kind = "turn"
  <2>1. Receipt(w) = Event(s, "done", w, k.why) /\ k.why \in Reasons /\ k.why \in Contract!Reasons
    BY <1>1, <1>3 DEF Receipt, WorkRecs, Reasons, Contract!Reasons
  <2>2. Receipt(w) \in Reports /\ Receipt(w).kind = "done"
    <3>1. Event(s, "done", w, k.why) \in Reports
      BY <1>1, <2>1, EventTyped
    <3>. QED  BY <2>1, <3>1 DEF Event
  <2>3. Mailed(Receipt(w)) = [s |-> s, kind |-> "done", x |-> None, of |-> w, why |-> k.why]
    BY <2>1 DEF Mailed, Event
  <2>4. k.why = "blocked" => w \notin Heard
    <3>1. w \in Heard => \E i \in DOMAIN events : events[i].w = w /\ Told(events[i])
      BY HeardTold
    <3>. QED  BY <3>1 DEF ReceiptInv, HeardInv
  <2>5. k.why = "cancelled" => w \in cancelled
    BY DEF ReceiptInv, EndsInv
  <2>6. /\ Working[s].kind = "turn" /\ Working[s].prompt = w
        /\ (Working[s].heard <=> w \in Heard) /\ (Working[s].stop <=> w \in cancelled)
    BY <1>2, <1>3, JobIs
  <2>7. /\ k.why \in {q \in Contract!Reasons : (q = "blocked" => ~Working[s].heard) /\ (q = "cancelled" => Working[s].stop)}
    BY <2>1, <2>4, <2>5, <2>6
  <2>. HIDE DEF s, k
  <2>8. Mailed(Receipt(w)) = [s |-> s, kind |-> "done", x |-> None, of |-> Working[s].prompt, why |-> k.why]
    BY <2>3, <2>6
  <2>9. Mailed(Receipt(w)) \in Contract!Receipts(s)
    BY <2>6, <2>7, <2>8 DEF Contract!Receipts
  <2>. QED  BY <2>2, <2>9 DEF s
<1>4. CASE k.kind = "compact"
  <2>. DEFINE kind == IF k.why = "error" THEN "error" ELSE "compacted"
  <2>1. Receipt(w) = Event(s, kind, w, None)
    BY <1>4 DEF Receipt
  <2>2. kind \in {"compacted", "error"}
    OBVIOUS
  <2>. HIDE DEF kind
  <2>3. Receipt(w) \in Reports /\ Receipt(w).kind = kind
    <3>1. Event(s, kind, w, None) \in Reports
      BY <1>1, <2>2, EventTyped
    <3>. QED  BY <2>1, <3>1 DEF Event
  <2>4. Mailed(Receipt(w)) = Contract!Event(s, kind, None)
    <3>1. CASE kind = "compacted"
      BY <2>1, <3>1 DEF Mailed, Event, Contract!Event
    <3>2. CASE kind = "error"
      BY <2>1, <3>2 DEF Mailed, Event, Contract!Event
    <3>. QED  BY <2>2, <3>1, <3>2
  <2>5. Working[s].kind # "turn"
    BY <1>2, <1>4
  <2>6. Mailed(Receipt(w)) \in Contract!Receipts(s)
    BY <2>2, <2>4, <2>5 DEF Contract!Receipts
  <2>. QED  BY <2>2, <2>3, <2>6
<1>. QED  BY <1>1, <1>3, <1>4

\* A work settles: the session is free, and the receipt comes last.
LEMMA SettleKept ==
    ASSUME AdmissionInv, AdmissionInv', ReceiptInv, NEW w \in Works, Settle(w)
    PROVE  ContractStep
<1>. DEFINE s == work[w].s
<1>1. /\ Live(w) /\ work[w].pc = "ended" /\ s \in Sessions /\ s \in running /\ token[s] = w
      /\ \A t \in running : t # s => token[t] # w
  BY LiveToken DEF Settle
<1>2. WorkOnly(w)
  BY StepIsOfOne DEF Run
<1>3. /\ token' = [token EXCEPT ![s] = None] /\ steers' = [steers EXCEPT ![s] = None] /\ running' = running \ {s}
      /\ cancelled' = cancelled /\ events' = Append(events, Receipt(w))
  BY DEF Settle, Send
<1>4. /\ s \notin running' /\ steers'[s] = None
      /\ \A t \in Sessions \ {s} : /\ t \in running' <=> t \in running
                                  /\ token'[t] = token[t] /\ steers'[t] = steers[t]
  BY <1>1, <1>3, Typed DEF AdmissionInv, TypeOK
<1>. DEFINE e == Receipt(w)
<1>5. e \in Reports /\ e.kind \notin {"accepted", "blocked"} /\ Mailed(e) \in Contract!Receipts(s)
  BY <1>1, ReceiptIsDue
<1>. HIDE DEF e
<1>6. Heard' = Heard /\ Mail' = Append(Mail, Mailed(e))
  BY <1>3, <1>5, HeardSame, MailAppends DEF AdmissionInv, e
<1>7. Working[s] # None
  <2>1. Working[s] = [kind |-> work[w].kind, prompt |-> IF work[w].kind = "turn" THEN w ELSE None,
                      stop |-> w \in cancelled, heard |-> w \in Heard]
    BY <1>1 DEF Working
  <2>2. Working[s] \in Jobs
    BY <1>1, <2>1 DEF Jobs, Live
  <2>. QED  BY <2>2, ConstantsAssumption
<1>8. ASSUME NEW t \in Sessions \ {s}
      PROVE  Working'[t] = Working[t] /\ Pending'[t] = Pending[t]
  <2>1. t \in running => token[t] \in Works \ {w}
    BY <1>1, RunningToken
  <2>2. t \in running => work'[token[t]] = work[token[t]]
    BY <1>2, <2>1 DEF WorkOnly
  <2>3. steers[t] # None => t \in running
    BY RunningToken
  <2>4. Working'[t] = Working[t]
    BY <1>3, <1>4, <1>6, <2>2 DEF Working
  <2>5. Pending'[t] = Pending[t]
    BY <1>4, <2>2, <2>3 DEF Pending
  <2>. QED  BY <2>4, <2>5
<1>9. Working'[s] = None /\ Pending'[s] = <<>>
  BY <1>1, <1>4 DEF Working, Pending
<1>10. /\ Working = [t \in Sessions |-> Working[t]] /\ Working' = [t \in Sessions |-> Working'[t]]
       /\ Pending = [t \in Sessions |-> Pending[t]] /\ Pending' = [t \in Sessions |-> Pending'[t]]
  BY DEF Working, Pending
<1>. HIDE DEF s
<1>11. Working' = [Working EXCEPT ![s] = None] /\ Pending' = [Pending EXCEPT ![s] = <<>>]
  BY <1>8, <1>9, <1>10
<1>12. Contract!Settle(s)
  BY <1>5, <1>6, <1>7, <1>11 DEF Contract!Settle
<1>. QED  BY <1>1, <1>12, Seen DEF Contract!Work, s

\* A turn or a compaction begins in a session that is free.
LEMMA BeginKept ==
    ASSUME AdmissionInv, AdmissionInv', ReceiptInv, NEW w \in Works, NEW s \in Sessions, Start(w, s) \/ Compact(w, s)
    PROVE  ContractStep
<1>. DEFINE kind == IF Start(w, s) THEN "turn" ELSE "compact"
            prompt == IF kind = "turn" THEN w ELSE None
            job == [kind |-> kind, prompt |-> prompt, stop |-> FALSE, heard |-> FALSE]
<1>1. /\ s \notin running /\ work[w].pc = "new" /\ token' = [token EXCEPT ![s] = w] /\ running' = running \cup {s}
      /\ UNCHANGED <<cancelled, events>>
  BY DEF Start, Compact, Admit
<1>2. WorkOnly(w)
  BY StepIsOfOne
<1>3. /\ work'[w].kind = kind /\ kind \in {"turn", "compact"}
      /\ steers'[s] = IF kind = "turn" THEN <<>> ELSE None
      /\ \A t \in Sessions \ {s} : steers'[t] = steers[t] /\ token'[t] = token[t]
      /\ token'[s] = w
  <2>1. work \in [Works -> WorkRecs] /\ work[w] \in WorkRecs /\ token \in [Sessions -> Works \cup {None}]
    BY WorkTyped DEF AdmissionInv, TypeOK, WorkRecs
  <2>2. steers[s] = None
    BY <1>1, RunningToken
  <2>3. CASE Start(w, s)
    BY <1>1, <2>1, <2>3, Typed DEF Start, WorkRecs
  <2>4. CASE ~Start(w, s) /\ Compact(w, s)
    BY <1>1, <2>1, <2>2, <2>4, Typed DEF Compact, WorkRecs
  <2>. QED  BY <2>3, <2>4
<1>. HIDE DEF kind
<1>4. work'[w].accepted = <<>> /\ work'[w].queue = <<>>
  <2>1. work'[w].pc # "judge"
    BY StepIsOfOne, EndsStep, NotJudging, <1>1 DEF TakeSteers, Judge
  <2>. QED  BY <2>1 DEF AdmissionInv, PlaceInv, PlaceOK
<1>5. w \notin cancelled /\ w \notin Heard
  <2>1. w \notin cancelled
    BY <1>1 DEF ReceiptInv, EndsInv
  <2>2. w \in Heard => \E i \in DOMAIN events : events[i].w = w /\ Told(events[i])
    BY HeardTold
  <2>. QED  BY <1>1, <2>1, <2>2 DEF ReceiptInv, HeardInv
<1>6. Heard' = Heard /\ Mail' = Mail
  BY <1>1 DEF Heard, Mail
<1>7. Working[s] = None /\ Pending[s] = <<>> /\ steers[s] = None
  BY <1>1, RunningToken DEF Working, Pending
<1>8. Working'[s] = job
  <2>1. s \in running' /\ token'[s] = w /\ cancelled' = cancelled
    BY <1>1, <1>3
  <2>2. Working'[s] = [kind |-> work'[w].kind, prompt |-> IF work'[w].kind = "turn" THEN w ELSE None,
                       stop |-> w \in cancelled', heard |-> w \in Heard']
    BY <2>1 DEF Working
  <2>3. (w \in cancelled') = FALSE /\ (w \in Heard') = FALSE
    BY <1>5, <1>6, <2>1
  <2>4. Working'[s] = [kind |-> work'[w].kind, prompt |-> IF work'[w].kind = "turn" THEN w ELSE None,
                       stop |-> FALSE, heard |-> FALSE]
    BY <2>2, <2>3, Zenon
  <2>5. work'[w].kind = kind
    BY <1>3
  <2>. QED  BY <2>4, <2>5, Zenon
<1>9. Pending'[s] = <<>>
  <2>1. Pending'[s] = IF kind = "turn" THEN (<<>> \o <<>>) \o <<>> ELSE <<>>
    <3>1. <<>> # None
      BY ConstantsAssumption, EmptySeq
    <3>. QED  BY <1>3, <1>4, <3>1 DEF Pending
  <2>2. (<<>> \o <<>>) \o <<>> = <<>>
    OBVIOUS
  <2>. QED  BY <2>1, <2>2
<1>10. ASSUME NEW t \in Sessions \ {s} PROVE Working'[t] = Working[t] /\ Pending'[t] = Pending[t]
  <2>1. t \in running => work'[token[t]] = work[token[t]]
    <3>1. t \in running => token[t] \in Works /\ work[token[t]].pc # "new"
      BY RunningToken DEF Live
    <3>. QED  BY <1>1, <1>2, <3>1 DEF WorkOnly
  <2>2. steers[t] # None => t \in running
    BY RunningToken
  <2>3. (t \in running' <=> t \in running) /\ token'[t] = token[t] /\ steers'[t] = steers[t]
    BY <1>1, <1>3
  <2>4. Working'[t] = Working[t]
    BY <1>1, <1>6, <2>1, <2>3 DEF Working
  <2>5. Pending'[t] = Pending[t]
    BY <2>1, <2>2, <2>3 DEF Pending
  <2>. QED  BY <2>4, <2>5
<1>11. /\ Working = [t \in Sessions |-> Working[t]] /\ Working' = [t \in Sessions |-> Working'[t]]
       /\ Pending = [t \in Sessions |-> Pending[t]] /\ Pending' = [t \in Sessions |-> Pending'[t]]
  BY DEF Working, Pending
<1>12. job # None /\ job.kind = kind /\ job.prompt = prompt
  <2>1. job \in Jobs
    BY <1>3 DEF Jobs
  <2>. QED  BY <2>1, ConstantsAssumption
<1>. HIDE DEF job, prompt
<1>13. Working' = [Working EXCEPT ![s] = job] /\ Pending' = Pending
  BY <1>7, <1>8, <1>9, <1>10, <1>11
<1>14. Contract!Begin(s, Working'[s].kind, Working'[s].prompt)
  <2>1. job = [kind |-> job.kind, prompt |-> job.prompt, stop |-> FALSE, heard |-> FALSE]
    BY <1>12 DEF job
  <2>. QED  BY <1>7, <1>8, <1>13, <2>1 DEF Contract!Begin
<1>15. Contract!Call(s)
  BY <1>6, <1>7, <1>8, <1>12, <1>14 DEF Contract!Call
<1>. QED  BY <1>15, Seen

\* What the jobs are once the stop of one is raised.
LEMMA StopIs ==
    ASSUME NEW W, NEW s \in Sessions, NEW V, W = [t \in Sessions |-> W[t]], V = [t \in Sessions |-> V[t]],
           W[s] \in Jobs, \A t \in Sessions \ {s} : V[t] = W[t],
           V[s] = [kind |-> W[s].kind, prompt |-> W[s].prompt, stop |-> TRUE, heard |-> W[s].heard]
    PROVE  V = [W EXCEPT ![s].stop = TRUE]
<1>1. [W EXCEPT ![s].stop = TRUE]
          = [W EXCEPT ![s] = [kind |-> W[s].kind, prompt |-> W[s].prompt, stop |-> TRUE, heard |-> W[s].heard]]
  BY DEF Jobs
<1>. QED  BY <1>1

\* A cancel raises the stop of the work that runs.
LEMMA CancelKept ==
    ASSUME AdmissionInv, NEW s \in Sessions, Cancel(s)
    PROVE  ContractStep
<1>1. /\ token[s] # None /\ cancelled' = cancelled \cup {token[s]}
      /\ UNCHANGED <<running, token, steers, work, events>>
  BY DEF Cancel
<1>2. s \in running /\ token[s] \in Works /\ Live(token[s]) /\ work[token[s]].s = s
  BY <1>1, RunningToken
<1>3. Heard' = Heard /\ Mail' = Mail /\ Pending' = Pending
  BY <1>1 DEF Heard, Mail, Pending
<1>. DEFINE w == token[s]
<1>4. Working[s] = [kind |-> work[w].kind, prompt |-> IF work[w].kind = "turn" THEN w ELSE None,
                    stop |-> w \in cancelled, heard |-> w \in Heard]
  BY <1>2 DEF Working
<1>5. Working'[s] = [kind |-> work[w].kind, prompt |-> IF work[w].kind = "turn" THEN w ELSE None,
                     stop |-> TRUE, heard |-> w \in Heard]
  BY <1>1, <1>2, <1>3 DEF Working
<1>6. Working[s] \in Jobs /\ Working'[s] \in Jobs /\ Working[s] # None
  <2>1. Working[s] \in Jobs /\ Working'[s] \in Jobs
    BY <1>2, <1>4, <1>5 DEF Jobs, Live
  <2>. QED  BY <2>1, ConstantsAssumption
<1>7. ASSUME NEW t \in Sessions \ {s} PROVE Working'[t] = Working[t]
  <2>1. t \in running => token[t] # token[s]
    BY <1>2, RunningToken
  <2>. QED  BY <1>1, <1>3, <2>1 DEF Working
<1>8. Working = [t \in Sessions |-> Working[t]] /\ Working' = [t \in Sessions |-> Working'[t]]
  BY DEF Working
<1>9. Working' = [Working EXCEPT ![s].stop = TRUE]
  <2>. DEFINE p == IF work[w].kind = "turn" THEN w ELSE None
  <2>. HIDE DEF w, p
  <2>1. /\ Working[s].kind = work[w].kind /\ Working[s].prompt = p /\ (Working[s].heard <=> w \in Heard)
    BY <1>4, JobIs DEF p
  <2>2. Working'[s].kind = work[w].kind /\ Working'[s].prompt = p
    BY <1>5 DEF p
  <2>3. Working'[s].heard <=> w \in Heard
    <3>1. CASE w \in Heard
      <4>1. (w \in Heard) = TRUE
        BY <3>1
      <4>2. Working'[s] = [kind |-> work[w].kind, prompt |-> p, stop |-> TRUE, heard |-> TRUE]
        BY <1>5, <4>1, Zenon DEF p
      <4>. QED  BY <3>1, <4>2
    <3>2. CASE w \notin Heard
      <4>1. (w \in Heard) = FALSE
        BY <3>2
      <4>2. Working'[s] = [kind |-> work[w].kind, prompt |-> p, stop |-> TRUE, heard |-> FALSE]
        BY <1>5, <4>1, Zenon DEF p
      <4>. QED  BY <3>2, <4>2
    <3>. QED  BY <3>1, <3>2
  <2>4. Working'[s].stop
    BY <1>5
  <2>5. Working'[s].stop = TRUE /\ Working'[s].heard = Working[s].heard
    BY <1>6, <2>1, <2>3, <2>4 DEF Jobs
  <2>6. Working'[s] = [kind |-> Working[s].kind, prompt |-> Working[s].prompt, stop |-> TRUE, heard |-> Working[s].heard]
    BY <1>6, <2>1, <2>2, <2>5 DEF Jobs
  <2>. QED  BY <1>6, <1>7, <1>8, <2>6, StopIs
<1>10. Contract!Call(s)
  BY <1>3, <1>6, <1>9 DEF Contract!Call, Contract!Stop
<1>. QED  BY <1>10, Seen

\* A steer joins what is pending.
LEMMA SteerKept ==
    ASSUME AdmissionInv, NEW s \in Sessions, Steer(s)
    PROVE  ContractStep
<1>. DEFINE w == token[s]
            x == sent + 1
            b == work[w].accepted \o work[w].queue
            z == steers[s]
            p == b \o z
<1>1. /\ steers[s] # None /\ x \in Steers /\ steers' = [steers EXCEPT ![s] = Append(@, x)]
      /\ UNCHANGED <<running, token, cancelled, work, events>>
  <2>1. /\ sent < MaxSteers /\ steers[s] # None /\ steers' = [steers EXCEPT ![s] = Append(@, x)]
        /\ UNCHANGED <<running, token, cancelled, work, events>>
    BY DEF Steer
  <2>2. sent \in 0..MaxSteers /\ MaxSteers \in Nat
    BY ConstantsAssumption DEF AdmissionInv, TypeOK
  <2>3. x \in Steers
    BY <2>1, <2>2 DEF Steers
  <2>. QED  BY <2>1, <2>3
<1>2. s \in running /\ w \in Works /\ Live(w) /\ work[w].s = s /\ work[w].kind = "turn" /\ WorkOnly(w)
  BY <1>1, RunningToken DEF WorkOnly
<1>3. z \in Seq(Steers) /\ steers'[s] = Append(z, x) /\ \A t \in Sessions \ {s} : steers'[t] = steers[t]
  BY <1>1, Typed
<1>4. Append(z, x) \in Seq(Steers) /\ Append(z, x) = z \o <<x>> /\ <<x>> \in Seq(Steers)
  BY <1>1, <1>3, AppendProperties, AppendIsConcat
<1>5. Pending[s] = p /\ Pending' = [Pending EXCEPT ![s] = b \o Append(z, x)]
  <2>1. steers'[work[w].s] \in Seq(Steers) /\ \A t \in Sessions \ {work[w].s} : steers'[t] = steers[t]
    BY <1>2, <1>3, <1>4
  <2>2. token' = token /\ work' = work
    BY <1>1
  <2>3. /\ Pending[work[w].s] = (work[w].accepted \o work[w].queue) \o steers[work[w].s]
        /\ Pending' = [Pending EXCEPT ![work[w].s] = (work'[w].accepted \o work'[w].queue) \o steers'[work[w].s]]
    BY <1>2, <2>1, <2>2, TurnsPending
  <2>. QED  BY <1>2, <1>3, <2>2, <2>3
<1>6. b \in Seq(Steers)
  BY <1>2, WaitsOf, ConcatProperties
<1>. HIDE DEF b, z, x
<1>7. b \o Append(z, x) = Append(p, x)
  <2>1. (b \o z) \o <<x>> = b \o (z \o <<x>>)
    BY <1>3, <1>4, <1>6, ConcatAssociative
  <2>2. p \in Seq(Steers)
    BY <1>3, <1>6, ConcatProperties
  <2>3. Append(p, x) = p \o <<x>>
    BY <1>1, <2>2, AppendIsConcat
  <2>. QED  BY <1>4, <2>1, <2>3
<1>8. Append(p, x)[Len(Append(p, x))] = x /\ Len(Append(p, x)) > 0
  <2>1. p \in Seq(Steers) /\ Len(p) \in Nat
    BY <1>3, <1>6, ConcatProperties, LenProperties
  <2>. HIDE DEF p
  <2>. QED  BY <1>1, <2>1, AppendProperties
<1>9. Heard' = Heard /\ Mail' = Mail
  BY <1>1 DEF Heard, Mail
<1>10. Working' = Working
  BY <1>1, <1>9 DEF Working
<1>11. Working[s] # None /\ Working[s].kind = "turn"
  <2>1. Working[s] = [kind |-> work[w].kind, prompt |-> IF work[w].kind = "turn" THEN w ELSE None,
                      stop |-> w \in cancelled, heard |-> w \in Heard]
    BY <1>2 DEF Working
  <2>2. Working[s] \in Jobs
    BY <1>2, <2>1 DEF Jobs
  <2>. QED  BY <1>2, <2>1, <2>2, ConstantsAssumption, JobIs
<1>. HIDE DEF p
<1>12. Pending' = [Pending EXCEPT ![s] = Append(@, x)] /\ Pending'[s] = Append(p, x)
  <2>1. Pending[s] = p /\ Pending' = [Pending EXCEPT ![s] = Append(p, x)] /\ DOMAIN Pending = Sessions
    BY <1>5, <1>7 DEF Pending
  <2>. QED  BY <2>1
<1>13. Pending'[s][Len(Pending'[s])] = x /\ Len(Pending'[s]) > 0
  BY <1>8, <1>12
<1>14. Contract!Steer(s, x)
  BY <1>10, <1>11, <1>12 DEF Contract!Steer, Contract!TakesSteers
<1>15. Contract!Call(s)
  BY <1>9, <1>13, <1>14 DEF Contract!Call
<1>. QED  BY <1>15, Seen

\* Every step is one the contract allows, or none at all.
LEMMA EveryStepKeeps ==
    ASSUME AdmissionInv, AdmissionInv', ReceiptInv, [Next]_vars
    PROVE  ContractStep
<1>1. ASSUME NEW w \in Works, Run(w) \/ Panic(w) PROVE ContractStep
  BY <1>1, QuietWork, TakeSteersKept, JudgeKept, AcceptKept, PruneKept, SettleKept, PanicKept DEF Run
<1>2. ASSUME NEW s \in Sessions, Restore(s) \/ OtherProcess(s) PROVE ContractStep
  BY <1>2, QuietCalls
<1>3. ASSUME NEW s \in Sessions, Call(s) PROVE ContractStep
  BY <1>3, QuietCalls, BeginKept, CancelKept, SteerKept DEF Call
<1>4. CASE UNCHANGED vars
  <2>1. UNCHANGED <<running, token, cancelled, steers, events, work>>
    BY <1>4 DEF vars
  <2>. QED  BY <2>1, SameForFrontend
<1>. QED  BY <1>1, <1>2, <1>3, <1>4 DEF Next, Background

\* At first nobody works and nothing is told.
LEMMA ContractInit == Init => Contract!Init
<1>. SUFFICES ASSUME Init PROVE Contract!Init
  OBVIOUS
<1>1. Working = [s \in Sessions |-> None] /\ Pending = [s \in Sessions |-> <<>>]
  BY DEF Init, Working, Pending
<1>2. Mail = <<>>
  BY DEF Init, Mail
<1>. QED  BY <1>1, <1>2 DEF Contract!Init

\* The turns keep the contract: whatever panics, fails or is cancelled, a
\* session's works come one after the other, each steer is told of at most once
\* and in order, and a receipt comes once the session is free and says why.
THEOREM TurnsKeepContract == Spec => KeepsContract
<1>1. Spec => [](AdmissionInv /\ ReceiptInv)
  BY ReceiptInit, ReceiptStep, AdmissionInvariant, PTL DEF Spec
<1>2. AdmissionInv /\ AdmissionInv' /\ ReceiptInv /\ [Next]_vars => [Contract!Next]_(Contract!core)
  BY EveryStepKeeps DEF ContractStep
<1>. QED  BY <1>1, <1>2, ContractInit, PTL DEF Spec, KeepsContract, Contract!Steps
================================================================================
