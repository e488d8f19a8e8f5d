-------------------------- MODULE TurnTranscriptProofs --------------------------
(***************************************************************************)
(* What holds of a conversation of any length: every request carries each  *)
(* call's answer, the file is what a resume must replay, divided between   *)
(* turns, and nothing on disk for good is lost.  The model's repairs and   *)
(* prunes speak of places in a transcript, so most lemmas are about places  *)
(* and their order, and then about the turns the messages there are of.     *)
(***************************************************************************)
EXTENDS TurnTranscript, FiniteSetTheorems, SequenceTheorems, WellFoundedInduction, TLAPS

\* What a message is: an assistant's is the only one with calls, and a call's
\* name is a number that is not zero.
Roles == {"system", "user", "assistant", "tool", "refusal", "digest"}
Names == 1..MaxCalls + 1
Messages ==
    {m \in [id : Nat \X Nat, role : Roles, calls : SUBSET Names, of : Nat, turn : Nat,
            noted : BOOLEAN, cut : BOOLEAN] : m.role # "assistant" => m.calls = {}}

\* i is h, or a tool message of the run after it.
Follows(T, h, i) ==
    /\ h \in 1..i /\ T[h].role # "tool"
    /\ \A j \in h + 1..i : T[j].role = "tool"

\* Every tool message is in the run of the call it answers.
Placed(T) ==
    \A i \in 1..Len(T) : T[i].role = "tool" =>
        \E h \in 1..i : Follows(T, h, i) /\ T[i].of \in T[h].calls

\* Every call of message h is answered in its run.
Replied(T, h) ==
    \A c \in T[h].calls : \E i \in h + 1..Len(T) : Follows(T, h, i) /\ T[i].of = c

\* What a request may carry, and what a turn may hold while its last message's
\* calls run.
Settled(T) == Placed(T) /\ \A h \in 1..Len(T) : T[h].role # "tool" => Replied(T, h)
Open(T) == Placed(T) /\ \A h \in 1..Len(T) : T[h].role # "tool" => Replied(T, h) \/ Follows(T, h, Len(T))

------------------------------------------------------------------------------
(* Numbers *)

\* A set of numbers that is not empty has a least one.
LEMMA LeastNumber ==
    ASSUME NEW S \in SUBSET Nat, S # {}
    PROVE  \E i \in S : \A j \in S : i <= j
<1>1. PICK i \in S : \A j \in S : <<j, i>> \notin OpToRel(<, Nat)
  BY NatLessThanWellFounded, WFMin, Zenon
<1>2. \A j \in S : ~(j < i)
  BY <1>1, Zenon DEF OpToRel
<1> QED BY <1>2

\* One with a bound has a greatest.
LEMMA GreatestNumber ==
    ASSUME NEW S \in SUBSET Nat, S # {}, NEW n \in Nat, \A i \in S : i <= n
    PROVE  \E i \in S : \A j \in S : j <= i
<1> DEFINE D == {n - i : i \in S}
<1>1. D \in SUBSET Nat
  OBVIOUS
<1>5. PICK s \in S : TRUE
  OBVIOUS
<1>6. n - s \in D
  OBVIOUS
<1>2. PICK d \in D : \A e \in D : d <= e
  BY <1>1, <1>6, LeastNumber
<1>3. PICK i \in S : d = n - i
  OBVIOUS
<1>4. \A j \in S : j <= i
  <2> SUFFICES ASSUME NEW j \in S PROVE j <= i
    OBVIOUS
  <2>1. n - j \in D
    OBVIOUS
  <2>2. d <= n - j
    BY <1>2, <2>1
  <2> QED BY <1>3, <2>2
<1> QED BY <1>4

LEMMA MinIs ==
    ASSUME NEW S \in SUBSET Nat, S # {}
    PROVE  Min(S) \in S /\ \A j \in S : Min(S) <= j
<1>1. \E i \in S : \A j \in S : i <= j
  BY LeastNumber
<1> QED BY <1>1 DEF Min

LEMMA MaxIs ==
    ASSUME NEW S \in SUBSET Nat, S # {}, NEW n \in Nat, \A i \in S : i <= n
    PROVE  Max(S) \in S /\ \A j \in S : j <= Max(S)
<1>1. \E i \in S : \A j \in S : i >= j
  BY GreatestNumber
<1> QED BY <1>1 DEF Max

\* What the code's searches find.
LEMMA RunHeadIs ==
    ASSUME NEW T \in Seq(Messages), NEW i \in 0..Len(T)
    PROVE  /\ RunHead(T, i) \in 0..i
           /\ RunHead(T, i) = 0 => \A j \in 1..i : T[j].role = "tool"
           /\ RunHead(T, i) > 0 => Follows(T, RunHead(T, i), i)
<1> DEFINE I == {j \in 1..i : T[j].role # "tool"}
<1>1. RunHead(T, i) = IF I # {} THEN Max(I) ELSE 0
  BY DEF RunHead, SelectLastInSubSeq
<1>2. CASE I = {}
  BY <1>1, <1>2
<1>3. CASE I # {}
  <2>1. I \in SUBSET Nat /\ i \in Nat /\ \A j \in I : j <= i
    OBVIOUS
  <2>2. Max(I) \in I /\ \A j \in I : j <= Max(I)
    BY <1>3, <2>1, MaxIs
  <2>3. RunHead(T, i) = Max(I)
    BY <1>1, <1>3
  <2> HIDE DEF I
  <2> DEFINE h == RunHead(T, i)
  <2>4. h \in 1..i /\ T[h].role # "tool"
    BY <2>2, <2>3 DEF I
  <2>5. ASSUME NEW j \in h + 1..i PROVE T[j].role = "tool"
    <3>1. j \in 1..i /\ j > h
      BY <2>4
    <3>2. j \notin I
      BY <2>2, <2>3, <2>4, <3>1
    <3> QED BY <3>1, <3>2 DEF I
  <2> QED BY <2>4, <2>5 DEF Follows
<1> QED BY <1>2, <1>3

\* A message follows one message at most, and that is the head of its run.
LEMMA FollowsOne ==
    ASSUME NEW T, NEW i \in Nat, NEW h \in Nat, NEW g \in Nat, Follows(T, h, i), Follows(T, g, i)
    PROVE  h = g
BY DEF Follows

LEMMA FollowsHead ==
    ASSUME NEW T \in Seq(Messages), NEW i \in 1..Len(T), NEW h \in Nat, Follows(T, h, i)
    PROVE  RunHead(T, i) = h
<1>1. RunHead(T, i) \in 0..i
  BY RunHeadIs
<1>2. RunHead(T, i) # 0
  BY RunHeadIs DEF Follows
<1>3. Follows(T, RunHead(T, i), i)
  BY <1>1, <1>2, RunHeadIs
<1> QED BY <1>1, <1>3, FollowsOne

\* The end of a message's run.
LEMMA RunEnds ==
    ASSUME NEW T \in Seq(Messages), NEW h \in 1..Len(T), T[h].role # "tool"
    PROVE  \E e \in h..Len(T) : /\ Follows(T, h, e) /\ EndsRun(T, e) /\ RunHead(T, e) = h
                                /\ \A i \in 1..Len(T) : Follows(T, h, i) => i <= e
<1> DEFINE S == {i \in h..Len(T) : Follows(T, h, i)}
<1>1. S \in SUBSET Nat /\ (\A i \in S : i <= Len(T)) /\ h \in S /\ Len(T) \in Nat
  BY DEF Follows
<1>2. PICK e \in S : \A i \in S : i <= e
  BY <1>1, GreatestNumber
<1>3. e \in h..Len(T) /\ Follows(T, h, e)
  OBVIOUS
<1>4. ASSUME ~EndsRun(T, e) PROVE FALSE
  <2>1. e + 1 \in h..Len(T) /\ T[e + 1].role = "tool"
    BY <1>3, <1>4 DEF EndsRun
  <2>2. Follows(T, h, e + 1)
    BY <1>3, <2>1 DEF Follows
  <2>3. e + 1 \in S
    BY <2>1, <2>2
  <2> QED BY <1>2, <1>3, <2>3
<1>5. ASSUME NEW i \in 1..Len(T), Follows(T, h, i) PROVE i <= e
  BY <1>2, <1>5 DEF Follows
<1>6. RunHead(T, e) = h
  BY <1>3, FollowsHead
<1> QED BY <1>3, <1>4, <1>5, <1>6

LEMMA MissingIs ==
    ASSUME NEW T \in Seq(Messages), NEW i \in 1..Len(T)
    PROVE  /\ Missing(T, i) \subseteq Names
           /\ \A c : c \in Missing(T, i) <=>
                 /\ RunHead(T, i) > 0 /\ EndsRun(T, i) /\ c \in T[RunHead(T, i)].calls
                 /\ \A k \in RunHead(T, i) + 1..i : T[k].of # c
<1>1. RunHead(T, i) \in 0..i
  BY RunHeadIs
<1>2. RunHead(T, i) > 0 => T[RunHead(T, i)] \in Messages
  BY <1>1
<1>3. RunHead(T, i) > 0 => T[RunHead(T, i)].calls \subseteq Names
  BY <1>2 DEF Messages
<1> QED BY <1>1, <1>3, Zenon DEF Missing

LEMMA StrayIs ==
    ASSUME NEW T \in Seq(Messages), NEW i \in 1..Len(T)
    PROVE  Stray(T, i) <=> T[i].role = "tool" /\ ~\E h \in 1..i : Follows(T, h, i) /\ T[i].of \in T[h].calls
<1>1. RunHead(T, i) \in 0..i /\ (RunHead(T, i) > 0 => Follows(T, RunHead(T, i), i))
  BY RunHeadIs
<1>2. ASSUME NEW h \in 1..i, Follows(T, h, i) PROVE RunHead(T, i) = h
  BY <1>2, FollowsHead
<1> QED BY <1>1, <1>2 DEF Stray

LEMMA RepliedIs ==
    ASSUME NEW T \in Seq(Messages), NEW h \in 1..Len(T), T[h].role # "tool"
    PROVE  Replied(T, h) <=> \A i \in 1..Len(T) : Follows(T, h, i) => Missing(T, i) = {}
<1>1. ASSUME Replied(T, h), NEW i \in 1..Len(T), Follows(T, h, i), NEW c \in Missing(T, i) PROVE FALSE
  <2>1. RunHead(T, i) = h
    BY <1>1, FollowsHead
  <2>2. EndsRun(T, i) /\ c \in T[h].calls /\ \A k \in h + 1..i : T[k].of # c
    BY <1>1, <2>1, MissingIs
  <2>3. PICK k \in h + 1..Len(T) : Follows(T, h, k) /\ T[k].of = c
    BY <1>1, <2>2 DEF Replied
  <2>4. k > i
    BY <2>2, <2>3
  <2>5. T[i + 1].role = "tool"
    BY <1>1, <2>3, <2>4 DEF Follows
  <2> QED BY <2>2, <2>4, <2>5 DEF EndsRun
<1>2. ASSUME \A i \in 1..Len(T) : Follows(T, h, i) => Missing(T, i) = {} PROVE Replied(T, h)
  <2>1. PICK e \in h..Len(T) : Follows(T, h, e) /\ EndsRun(T, e) /\ RunHead(T, e) = h
    BY RunEnds
  <2>2. e \in 1..Len(T) /\ Missing(T, e) = {}
    BY <1>2, <2>1
  <2>3. ASSUME NEW c \in T[h].calls PROVE \E k \in h + 1..e : T[k].of = c
    BY <2>1, <2>2, MissingIs
  <2>4. ASSUME NEW k \in h + 1..e PROVE Follows(T, h, k)
    BY <2>1 DEF Follows
  <2> QED BY <2>3, <2>4 DEF Replied
<1> QED BY <1>1, <1>2

\* A provider accepts exactly the settled transcripts.
LEMMA AnsweredIs ==
    ASSUME NEW T \in Seq(Messages)
    PROVE  /\ Answered(T) <=> Settled(T)
           /\ Placed(T) <=> \A i \in 1..Len(T) : ~Stray(T, i)
<1>1. Placed(T) <=> \A i \in 1..Len(T) : ~Stray(T, i)
  BY StrayIs DEF Placed
<1>2. ASSUME \A i \in 1..Len(T) : Missing(T, i) = {}, NEW h \in 1..Len(T), T[h].role # "tool"
      PROVE  Replied(T, h)
  BY <1>2, RepliedIs
<1>3. ASSUME \A h \in 1..Len(T) : T[h].role # "tool" => Replied(T, h),
             NEW i \in 1..Len(T), NEW c \in Missing(T, i)
      PROVE  FALSE
  <2> DEFINE h == RunHead(T, i)
  <2>1. h \in 1..i /\ Follows(T, h, i)
    BY RunHeadIs, MissingIs
  <2>2. T[h].role # "tool" /\ h \in 1..Len(T)
    BY <2>1 DEF Follows
  <2>3. Replied(T, h)
    BY <1>3, <2>2
  <2> QED BY <1>3, <2>1, <2>2, <2>3, RepliedIs
<1> QED BY <1>1, <1>2, <1>3 DEF Answered, Settled

Places == Nat \X Nat

LEMMA BeforeOrders ==
    /\ \A x, y \in Places : x = y \/ Before(x, y) \/ Before(y, x)
    /\ \A x, y, z \in Places : Before(x, y) /\ Before(y, z) => Before(x, z)
    /\ \A x, y \in Places : Before(x, y) => ~Before(y, x) /\ x # y
BY DEF Before, Places

\* How many places of S are before one: the order of those ranks is theirs.
LEMMA RankIs ==
    ASSUME NEW S \in SUBSET Places, IsFiniteSet(S)
    PROVE  /\ Cardinality(S) \in Nat
           /\ \A x \in Places : Rank(S, x) \in 0..Cardinality(S)
           /\ \A x \in S : Rank(S, x) < Cardinality(S)
           /\ \A x, y \in Places : Before(x, y) => Rank(S, x) <= Rank(S, y)
           /\ \A x \in S, y \in Places : Before(x, y) => Rank(S, x) < Rank(S, y)
           /\ \A x, y \in S : Before(x, y) <=> Rank(S, x) < Rank(S, y)
           /\ \A x, y \in S : Rank(S, x) = Rank(S, y) => x = y
<1> DEFINE B(x) == {y \in S : Before(y, x)}
<1>1. Cardinality(S) \in Nat
  BY FS_CardinalityType
<1>2. ASSUME NEW x \in Places
      PROVE  /\ IsFiniteSet(B(x)) /\ Rank(S, x) = Cardinality(B(x))
             /\ Rank(S, x) \in 0..Cardinality(S)
             /\ x \in S => Rank(S, x) < Cardinality(S)
  <2>1. B(x) \in SUBSET S
    OBVIOUS
  <2>2. IsFiniteSet(B(x)) /\ Cardinality(B(x)) <= Cardinality(S) /\ (Cardinality(S) = Cardinality(B(x)) => S = B(x))
    BY <2>1, FS_Subset
  <2>3. Cardinality(B(x)) \in Nat
    BY <2>2, FS_CardinalityType
  <2>4. x \notin B(x)
    BY BeforeOrders
  <2>5. x \in S => Cardinality(B(x)) # Cardinality(S)
    BY <2>2, <2>4
  <2>6. Rank(S, x) = Cardinality(B(x))
    BY DEF Rank
  <2> HIDE DEF B
  <2> QED BY <1>1, <2>2, <2>3, <2>5, <2>6
<1>3. ASSUME NEW x \in Places, NEW y \in Places, Before(x, y)
      PROVE  /\ Rank(S, x) <= Rank(S, y)
             /\ x \in S => Rank(S, x) < Rank(S, y)
  <2>1. B(x) \in SUBSET B(y)
    BY <1>3, BeforeOrders
  <2>2. Cardinality(B(x)) <= Cardinality(B(y)) /\ (Cardinality(B(y)) = Cardinality(B(x)) => B(y) = B(x))
    BY <1>2, <2>1, FS_Subset, Zenon
  <2>3. x \in S => x \in B(y) /\ x \notin B(x)
    BY <1>3, BeforeOrders
  <2>4. Rank(S, x) = Cardinality(B(x)) /\ Rank(S, y) = Cardinality(B(y)) /\ Rank(S, x) \in Nat /\ Rank(S, y) \in Nat
    BY <1>1, <1>2, SMTT(60)
  <2> HIDE DEF B
  <2> QED BY <2>2, <2>3, <2>4
<1>4. ASSUME NEW x \in S, NEW y \in S
      PROVE  /\ Before(x, y) <=> Rank(S, x) < Rank(S, y)
             /\ Rank(S, x) = Rank(S, y) => x = y
  <2>1. x \in Places /\ y \in Places
    OBVIOUS
  <2>4. Rank(S, x) \in 0..Cardinality(S) /\ Rank(S, y) \in 0..Cardinality(S)
    BY <1>2, <2>1, Zenon
  <2>3. Rank(S, x) \in Nat /\ Rank(S, y) \in Nat
    BY <1>1, <2>4
  <2>2. x = y \/ Before(x, y) \/ Before(y, x)
    BY <2>1, BeforeOrders
  <2> QED BY <1>3, <2>1, <2>2, <2>3
<1> QED BY <1>1, <1>2, <1>3, <1>4

\* The places of S in order.
LEMMA InOrderIs ==
    ASSUME NEW S \in SUBSET Places, IsFiniteSet(S)
    PROVE  /\ DOMAIN InOrder(S) = 1..Cardinality(S)
           /\ \A k \in 1..Cardinality(S) : InOrder(S)[k] \in S /\ Rank(S, InOrder(S)[k]) = k - 1
           /\ \A x \in S : Rank(S, x) + 1 \in 1..Cardinality(S) /\ InOrder(S)[Rank(S, x) + 1] = x
<1> DEFINE n == Cardinality(S)
           R == [x \in S |-> Rank(S, x)]
           W == {<<Rank(S, x), x>> : x \in S}
<1>1. n \in Nat /\ (\A x \in S : Rank(S, x) \in 0..n - 1) /\ \A x, y \in S : Rank(S, x) = Rank(S, y) => x = y
  BY RankIs
<1>2. R \in Injection(S, 0..n - 1)
  BY <1>1 DEF Injection, IsInjective
<1>3. IsFiniteSet(0..n - 1) /\ Cardinality(0..n - 1) = n
  <2>1. Cardinality(0..n - 1) = IF 0 > n - 1 THEN 0 ELSE (n - 1) - 0 + 1
    BY <1>1, FS_Interval
  <2>2. IsFiniteSet(0..n - 1)
    BY <1>1, FS_Interval
  <2> QED BY <1>1, <2>1, <2>2
<1>4. R \in Surjection(S, 0..n - 1)
  BY <1>2, <1>3, FS_Injection
<1>5. ASSUME NEW k \in 0..n - 1 PROVE \E x \in S : Rank(S, x) = k
  BY <1>4 DEF Surjection
<1>6. ASSUME NEW x \in S PROVE (CHOOSE r \in W : r[1] = Rank(S, x)) = <<Rank(S, x), x>>
  <2>1. <<Rank(S, x), x>> \in W /\ <<Rank(S, x), x>>[1] = Rank(S, x)
    OBVIOUS
  <2>2. ASSUME NEW r \in W, r[1] = Rank(S, x) PROVE r = <<Rank(S, x), x>>
    <3>1. PICK y \in S : r = <<Rank(S, y), y>>
      OBVIOUS
    <3> QED BY <1>1, <2>2, <3>1
  <2> QED BY <2>1, <2>2
<1>7. InOrder(S) = [k \in 1..n |-> (CHOOSE r \in W : r[1] = k - 1)[2]]
  BY DEF InOrder
<1>8. ASSUME NEW x \in S PROVE Rank(S, x) + 1 \in 1..n /\ InOrder(S)[Rank(S, x) + 1] = x
  <2>1. Rank(S, x) + 1 \in 1..n /\ (Rank(S, x) + 1) - 1 = Rank(S, x)
    BY <1>1
  <2> HIDE DEF W, n
  <2>2. InOrder(S)[Rank(S, x) + 1] = (CHOOSE r \in W : r[1] = (Rank(S, x) + 1) - 1)[2]
    BY <1>7, <2>1
  <2>3. (CHOOSE r \in W : r[1] = Rank(S, x)) = <<Rank(S, x), x>>
    BY <1>6
  <2>4. InOrder(S)[Rank(S, x) + 1] = (CHOOSE r \in W : r[1] = Rank(S, x))[2]
    BY <2>1, <2>2
  <2>5. <<Rank(S, x), x>>[2] = x
    OBVIOUS
  <2>6. InOrder(S)[Rank(S, x) + 1] = <<Rank(S, x), x>>[2]
    BY <2>3, <2>4, Zenon
  <2> QED BY <2>1, <2>5, <2>6
<1>9. ASSUME NEW k \in 1..n PROVE InOrder(S)[k] \in S /\ Rank(S, InOrder(S)[k]) = k - 1
  <2>1. k - 1 \in 0..n - 1
    BY <1>1
  <2>2. PICK x \in S : Rank(S, x) = k - 1
    BY <1>5, <2>1
  <2>3. Rank(S, x) + 1 = k
    BY <1>1, <2>2
  <2> QED BY <1>8, <2>2, <2>3
<1>10. DOMAIN InOrder(S) = 1..n
  BY <1>7
<1> QED BY <1>8, <1>9, <1>10

\* A number of things one to one with an interval from one.
LEMMA Counted ==
    ASSUME NEW n \in Nat, NEW S, NEW f \in [1..n -> S],
           \A i, j \in 1..n : f[i] = f[j] => i = j, \A x \in S : \E i \in 1..n : f[i] = x
    PROVE  IsFiniteSet(S) /\ Cardinality(S) = n
<1>1. f \in Bijection(1..n, S)
  BY DEF Bijection, Injection, IsInjective, Surjection
<1>2. ExistsBijection(1..n, S)
  BY <1>1 DEF ExistsBijection
<1>3. IsFiniteSet(1..n) /\ Cardinality(1..n) = n
  <2>1. IsFiniteSet(1..n) /\ Cardinality(1..n) = IF 1 > n THEN 0 ELSE n - 1 + 1
    BY FS_Interval
  <2> QED BY <2>1
<1> QED BY <1>2, <1>3, FS_Bijection

LEMMA KeptIs ==
    ASSUME NEW T \in Seq(Messages)
    PROVE  /\ Kept(T) \in SUBSET Places /\ IsFiniteSet(Kept(T)) /\ Cardinality(Kept(T)) = Len(T)
           /\ \A i \in 1..Len(T), c \in Nat : Rank(Kept(T), <<i, c>>) = IF c = 0 THEN i - 1 ELSE i
<1>1. Kept(T) \in SUBSET Places
  BY DEF Kept, Places
<1>2. ASSUME NEW n \in 0..Len(T) PROVE IsFiniteSet({<<i, 0>> : i \in 1..n}) /\ Cardinality({<<i, 0>> : i \in 1..n}) = n
  <2> DEFINE f == [i \in 1..n |-> <<i, 0>>]
             S == {<<i, 0>> : i \in 1..n}
  <2>1. f \in [1..n -> S] /\ n \in Nat
    OBVIOUS
  <2>2. \A i, j \in 1..n : f[i] = f[j] => i = j
    OBVIOUS
  <2>3. \A x \in S : \E i \in 1..n : f[i] = x
    OBVIOUS
  <2> HIDE DEF f
  <2> QED BY <2>1, <2>2, <2>3, Counted
<1>3. IsFiniteSet(Kept(T)) /\ Cardinality(Kept(T)) = Len(T)
  <2>1. Len(T) \in 0..Len(T)
    OBVIOUS
  <2> QED BY <1>2, <2>1, Zenon DEF Kept
<1>4. ASSUME NEW i \in 1..Len(T), NEW c \in Nat PROVE Rank(Kept(T), <<i, c>>) = IF c = 0 THEN i - 1 ELSE i
  <2> DEFINE n == IF c = 0 THEN i - 1 ELSE i
  <2>1. {y \in Kept(T) : Before(y, <<i, c>>)} = {<<j, 0>> : j \in 1..n}
    BY DEF Kept, Before
  <2>2. n \in 0..Len(T)
    OBVIOUS
  <2> QED BY <1>2, <2>1, <2>2 DEF Rank
<1> QED BY <1>1, <1>3, <1>4

LEMMA StubsAre ==
    ASSUME NEW T \in Seq(Messages)
    PROVE  /\ Stubs(T) \in SUBSET Places /\ IsFiniteSet(Stubs(T))
           /\ \A x \in Stubs(T) : /\ x[1] \in 1..Len(T) /\ x[2] \in Missing(T, x[1]) /\ x[2] \in Names
                                  /\ x = <<x[1], x[2]>> /\ x[2] # 0
           /\ \A i \in 1..Len(T) : \A c : <<i, c>> \in Stubs(T) <=> c \in Missing(T, i)
<1>1. ASSUME NEW x \in Stubs(T)
      PROVE  /\ x[1] \in 1..Len(T) /\ x[2] \in Missing(T, x[1]) /\ x[2] \in Names
             /\ x = <<x[1], x[2]>> /\ x[2] # 0 /\ x \in (1..Len(T)) \X Names
  <2>1. PICK i \in 1..Len(T) : x \in {<<i, c>> : c \in Missing(T, i)}
    BY DEF Stubs
  <2>2. PICK c \in Missing(T, i) : x = <<i, c>>
    BY <2>1
  <2>3. c \in Names
    BY MissingIs
  <2> QED BY <2>2, <2>3 DEF Names
<1>2. IsFiniteSet((1..Len(T)) \X Names)
  <2>1. MaxCalls + 1 \in Int /\ Len(T) \in Int
    BY ConstantsAssumption DEF ConstantsAssumption
  <2>2. IsFiniteSet(1..Len(T)) /\ IsFiniteSet(Names)
    BY <2>1, FS_Interval DEF Names
  <2> QED BY <2>2, FS_Product
<1>3. Stubs(T) \in SUBSET ((1..Len(T)) \X Names)
  BY <1>1
<1>4. IsFiniteSet(Stubs(T))
  BY <1>2, <1>3, FS_Subset
<1>5. Stubs(T) \in SUBSET Places
  BY <1>3 DEF Places, Names
<1>6. ASSUME NEW i \in 1..Len(T), NEW c PROVE <<i, c>> \in Stubs(T) <=> c \in Missing(T, i)
  <2>1. <<i, c>> \in Stubs(T) => c \in Missing(T, i)
    BY <1>1
  <2>2. c \in Missing(T, i) => <<i, c>> \in Stubs(T)
    BY DEF Stubs
  <2> QED BY <2>1, <2>2
<1> QED BY <1>1, <1>4, <1>5, <1>6

Has(S, i, n) == <<i, n>> \in S
AtPlace(T, i, n) == IF n = 0 THEN T[i] ELSE Reply(T[RunHead(T, i)], n)

\* V is what is at the places S of T in their order: message k of V is at place
\* <<a[k], c[k]>>.
Arranges(T, S, V, a, c) ==
    /\ T \in Seq(Messages) /\ S \subseteq Kept(T) \cup Stubs(T) /\ V \in Seq(Messages)
    /\ a \in [1..Len(V) -> Nat] /\ c \in [1..Len(V) -> Nat]
    /\ \A k \in 1..Len(V) : /\ a[k] \in 1..Len(T) /\ c[k] \in Nat
                            /\ Has(S, a[k], c[k]) /\ V[k] = AtPlace(T, a[k], c[k])
    /\ \A i \in 1..Len(T), n \in Nat : Has(S, i, n) => \E k \in 1..Len(V) : a[k] = i /\ c[k] = n
    /\ \A j, k \in 1..Len(V) : j < k <=> a[j] < a[k] \/ (a[j] = a[k] /\ c[j] < c[k])

LEMMA MessageIs ==
    ASSUME NEW m \in Messages
    PROVE  /\ m.id \in Nat \X Nat /\ m.id[1] \in Nat /\ m.role \in Roles /\ m.calls \subseteq Names
           /\ m.of \in Nat /\ m.turn \in Nat /\ m.noted \in BOOLEAN /\ m.cut \in BOOLEAN
           /\ m.role # "assistant" => m.calls = {}
BY DEF Messages

LEMMA PlaceIs ==
    ASSUME NEW T \in Seq(Messages), NEW x \in Kept(T) \cup Stubs(T)
    PROVE  \E i \in 1..Len(T), n \in Nat : x = <<i, n>>
<1>1. CASE x \in Kept(T)
  BY <1>1 DEF Kept
<1>2. CASE x \in Stubs(T)
  <2>1. x[1] \in 1..Len(T) /\ x[2] \in Names /\ x = <<x[1], x[2]>>
    BY <1>2, StubsAre
  <2>2. x[2] \in Nat
    BY <2>1 DEF Names
  <2> QED BY <2>1, <2>2
<1> QED BY <1>1, <1>2

LEMMA AtIs ==
    ASSUME NEW T \in Seq(Messages), NEW i \in 1..Len(T), NEW n \in Nat,
           <<i, n>> \in Kept(T) \cup Stubs(T)
    PROVE  /\ At(T, <<i, n>>) \in Messages
           /\ n = 0 => At(T, <<i, n>>) = T[i]
           /\ n # 0 => /\ <<i, n>> \in Stubs(T) /\ n \in Missing(T, i) /\ n \in Names
                       /\ RunHead(T, i) \in 1..Len(T) /\ Follows(T, RunHead(T, i), i)
                       /\ n \in T[RunHead(T, i)].calls /\ EndsRun(T, i)
                       /\ At(T, <<i, n>>) = Reply(T[RunHead(T, i)], n)
<1>1. CASE n = 0
  <2>1. At(T, <<i, n>>) = T[i] /\ T[i] \in Messages
    BY <1>1 DEF At
  <2> QED BY <1>1, <2>1
<1>2. CASE n # 0
  <2> DEFINE h == RunHead(T, i)
  <2>0. <<i, n>> \in Stubs(T)
    BY <1>2 DEF Kept
  <2>1. n \in Missing(T, i) /\ n \in Names
    BY <2>0, StubsAre, MissingIs
  <2>2. h > 0 /\ EndsRun(T, i) /\ n \in T[h].calls
    BY <2>1, MissingIs
  <2>3. h \in 1..i /\ Follows(T, h, i)
    BY <2>2, RunHeadIs
  <2>4. h \in 1..Len(T) /\ T[h] \in Messages
    BY <2>3
  <2>5. At(T, <<i, n>>) = Reply(T[h], n)
    BY <1>2 DEF At
  <2>6. T[h].id[1] \in Nat /\ T[h].turn \in Nat
    BY <2>4, MessageIs
  <2>7. <<T[h].id[1], n>> \in Nat \X Nat
    BY <2>6
  <2>8. Reply(T[h], n) \in Messages
    BY <2>6, <2>7 DEF Reply, Message, Messages, Roles
  <2> QED BY <1>2, <2>0, <2>1, <2>2, <2>3, <2>4, <2>5, <2>8
<1> QED BY <1>1, <1>2

LEMMA ReplyIs ==
    ASSUME NEW m, NEW n
    PROVE  /\ Reply(m, n).role = "tool" /\ Reply(m, n).of = n /\ Reply(m, n).calls = {}
           /\ Reply(m, n).turn = m.turn /\ Reply(m, n).cut = FALSE /\ Reply(m, n).noted = FALSE
           /\ Reply(m, n).id = <<m.id[1], n>>
BY DEF Reply, Message

LEMMA InOrderArranges ==
    ASSUME NEW T \in Seq(Messages), NEW S \in SUBSET (Kept(T) \cup Stubs(T))
    PROVE  LET V == [k \in DOMAIN InOrder(S) |-> At(T, InOrder(S)[k])]
               a == [k \in 1..Len(V) |-> InOrder(S)[k][1]]
               c == [k \in 1..Len(V) |-> InOrder(S)[k][2]]
           IN  /\ V \in Seq(Messages) /\ Len(V) = Cardinality(S)
               /\ a \in [1..Len(V) -> Nat] /\ c \in [1..Len(V) -> Nat] /\ Arranges(T, S, V, a, c)
               /\ \A k \in 1..Len(V) : InOrder(S)[k] = <<a[k], c[k]>> /\ Rank(S, <<a[k], c[k]>>) = k - 1
               /\ IsFiniteSet(S) /\ S \in SUBSET Places
<1> DEFINE V == [k \in DOMAIN InOrder(S) |-> At(T, InOrder(S)[k])]
           n == Cardinality(S)
           s == InOrder(S)
           a == [k \in 1..Len(V) |-> s[k][1]]
           c == [k \in 1..Len(V) |-> s[k][2]]
<1>1. S \in SUBSET Places /\ IsFiniteSet(S)
  <2>1. IsFiniteSet(Kept(T) \cup Stubs(T))
    BY KeptIs, StubsAre, FS_Union
  <2>2. IsFiniteSet(S)
    BY <2>1, FS_Subset
  <2> QED BY <2>2, PlaceIs DEF Places
<1>2. DOMAIN s = 1..n /\ n \in Nat
  BY <1>1, InOrderIs, RankIs
<1>3. ASSUME NEW k \in 1..n
      PROVE  /\ s[k] \in S /\ Rank(S, s[k]) = k - 1
             /\ \E i \in 1..Len(T), m \in Nat : s[k] = <<i, m>>
             /\ At(T, s[k]) \in Messages
  <2>1. s[k] \in S /\ Rank(S, s[k]) = k - 1
    BY <1>1, InOrderIs
  <2>2. s[k] \in Kept(T) \cup Stubs(T)
    BY <2>1
  <2>3. PICK i \in 1..Len(T), m \in Nat : s[k] = <<i, m>>
    BY <2>2, PlaceIs
  <2>4. At(T, <<i, m>>) \in Messages
    BY <2>2, <2>3, AtIs
  <2> HIDE DEF s
  <2> QED BY <2>1, <2>3, <2>4
<1>4. V \in Seq(Messages) /\ Len(V) = n /\ \A k \in 1..n : V[k] = At(T, s[k])
  <2>1. V = [k \in 1..n |-> At(T, s[k])]
    BY <1>2, Zenon DEF s
  <2> HIDE DEF n, s, V
  <2>2. V \in [1..n -> Messages]
    BY <1>3, <2>1
  <2> QED BY <1>2, <2>1, <2>2
<1> HIDE DEF n, V, s
<1>5. ASSUME NEW k \in 1..n
      PROVE  /\ a[k] \in 1..Len(T) /\ c[k] \in Nat /\ s[k] = <<a[k], c[k]>>
             /\ <<a[k], c[k]>> \in S /\ V[k] = At(T, <<a[k], c[k]>>) /\ Rank(S, <<a[k], c[k]>>) = k - 1
  <2>1. PICK i \in 1..Len(T), m \in Nat : s[k] = <<i, m>>
    BY <1>3
  <2>2. a[k] = s[k][1] /\ c[k] = s[k][2]
    BY <1>4
  <2>3. a[k] = i /\ c[k] = m
    BY <2>1, <2>2
  <2> HIDE DEF a, c
  <2>4. s[k] = <<a[k], c[k]>>
    BY <2>1, <2>3
  <2> QED BY <1>3, <1>4, <2>1, <2>3, <2>4
<1>10. a \in [1..Len(V) -> Nat] /\ c \in [1..Len(V) -> Nat]
  <2>1. DOMAIN a = 1..Len(V) /\ DOMAIN c = 1..Len(V) /\ a = [k \in 1..Len(V) |-> a[k]] /\ c = [k \in 1..Len(V) |-> c[k]]
    OBVIOUS
  <2> HIDE DEF a, c
  <2>3. \A k \in 1..n : a[k] \in 1..Len(T) /\ c[k] \in Nat
    BY <1>5
  <2>2. \A k \in 1..Len(V) : a[k] \in Nat /\ c[k] \in Nat
    BY <1>4, <2>3
  <2> QED BY <2>1, <2>2
<1> HIDE DEF a, c
<1>6. ASSUME NEW i \in 1..Len(T), NEW m \in Nat, Has(S, i, m)
      PROVE  \E k \in 1..n : a[k] = i /\ c[k] = m
  <2>1. PICK k \in 1..n : s[k] = <<i, m>>
    BY <1>1, <1>6, InOrderIs DEF s, n, Has
  <2>2. <<a[k], c[k]>> = <<i, m>>
    BY <1>5, <2>1
  <2> QED BY <2>2
<1>7. ASSUME NEW j \in 1..n, NEW k \in 1..n
      PROVE  j < k <=> a[j] < a[k] \/ (a[j] = a[k] /\ c[j] < c[k])
  <2> DEFINE x == <<a[j], c[j]>>
             y == <<a[k], c[k]>>
  <2>1. x \in S /\ y \in S /\ Rank(S, x) = j - 1 /\ Rank(S, y) = k - 1
    BY <1>5
  <2>2. Before(x, y) <=> Rank(S, x) < Rank(S, y)
    BY <1>1, <2>1, RankIs
  <2>3. Before(x, y) <=> a[j] < a[k] \/ (a[j] = a[k] /\ c[j] < c[k])
    BY DEF Before
  <2> HIDE DEF x, y
  <2> QED BY <2>1, <2>2, <2>3, <1>2
<1>11. ASSUME NEW k \in 1..n
       PROVE a[k] \in 1..Len(T) /\ c[k] \in Nat /\ Has(S, a[k], c[k]) /\ V[k] = AtPlace(T, a[k], c[k])
  BY <1>5 DEF Has, AtPlace, At
<1>8. Arranges(T, S, V, a, c)
  BY <1>4, <1>6, <1>7, <1>10, <1>11 DEF Arranges
<1>9. \A k \in 1..Len(V) : s[k] = <<a[k], c[k]>> /\ Rank(S, <<a[k], c[k]>>) = k - 1
  BY <1>4, <1>5
<1> QED BY <1>1, <1>4, <1>8, <1>9, <1>10 DEF s, V, n, a, c

\* A message of an arrangement.
LEMMA ArrangedOne ==
    ASSUME NEW T, NEW S, NEW V, NEW a, NEW c, Arranges(T, S, V, a, c), NEW k \in 1..Len(V)
    PROVE  /\ a[k] \in 1..Len(T) /\ c[k] \in Nat /\ Has(S, a[k], c[k])
           /\ c[k] = 0 => V[k] = T[a[k]]
           /\ c[k] # 0 => V[k].role = "tool"
<1>0. T \in Seq(Messages) /\ V \in Seq(Messages) /\ a \in [1..Len(V) -> Nat] /\ c \in [1..Len(V) -> Nat]
  BY DEF Arranges
<1>1. a[k] \in 1..Len(T) /\ c[k] \in Nat /\ Has(S, a[k], c[k]) /\ V[k] = AtPlace(T, a[k], c[k])
  BY DEF Arranges
<1>2. c[k] = 0 => V[k] = T[a[k]]
  BY <1>0, <1>1 DEF AtPlace
<1>3. c[k] # 0 => V[k].role = "tool"
  BY <1>0, <1>1 DEF AtPlace, Reply, Message
<1> QED BY <1>1, <1>2, <1>3

\* A reply an arrangement adds.
LEMMA ArrangedStub ==
    ASSUME NEW T, NEW S, NEW V, NEW a, NEW c, Arranges(T, S, V, a, c), NEW k \in 1..Len(V), c[k] # 0
    PROVE  /\ c[k] \in Missing(T, a[k]) /\ RunHead(T, a[k]) \in 1..Len(T)
           /\ Follows(T, RunHead(T, a[k]), a[k]) /\ c[k] \in T[RunHead(T, a[k])].calls
           /\ V[k] = Reply(T[RunHead(T, a[k])], c[k]) /\ EndsRun(T, a[k])
<1> DEFINE i == a[k]
           n == c[k]
<1>6. T \in Seq(Messages) /\ S \subseteq Kept(T) \cup Stubs(T)
  BY DEF Arranges
<1>1. i \in 1..Len(T) /\ n \in Nat /\ Has(S, i, n) /\ V[k] = AtPlace(T, i, n)
  BY DEF Arranges
<1> HIDE DEF i, n
<1>2. n # 0
  BY DEF n
<1>3. <<i, n>> \in Kept(T) \cup Stubs(T)
  BY <1>1, <1>6 DEF Has
<1>4. /\ n \in Missing(T, i) /\ RunHead(T, i) \in 1..Len(T) /\ Follows(T, RunHead(T, i), i)
      /\ n \in T[RunHead(T, i)].calls /\ EndsRun(T, i)
  BY <1>1, <1>2, <1>3, <1>6, AtIs
<1>5. V[k] = Reply(T[RunHead(T, i)], n)
  BY <1>1, <1>2 DEF AtPlace
<1> QED BY <1>4, <1>5 DEF i, n

\* The runs of an arrangement that keeps every message but some tool messages.
LEMMA ArrangedRuns ==
    ASSUME NEW T, NEW S, NEW V, NEW a, NEW c, Arranges(T, S, V, a, c),
           \A h \in 1..Len(T) : T[h].role # "tool" => Has(S, h, 0)
    PROVE  \A j, k \in 1..Len(V) : Follows(V, j, k) <=> c[j] = 0 /\ Follows(T, a[j], a[k])
<1>0. T \in Seq(Messages) /\ V \in Seq(Messages) /\ a \in [1..Len(V) -> Nat] /\ c \in [1..Len(V) -> Nat]
  BY DEF Arranges
<1> TAKE j, k \in 1..Len(V)
<1>1. \A p, q \in 1..Len(V) : p < q <=> a[p] < a[q] \/ (a[p] = a[q] /\ c[p] < c[q])
  BY DEF Arranges
<1>2. ASSUME NEW p \in 1..Len(V)
      PROVE  /\ a[p] \in 1..Len(T) /\ c[p] \in Nat
             /\ V[p].role # "tool" <=> c[p] = 0 /\ T[a[p]].role # "tool"
  <2>1. a[p] \in 1..Len(T) /\ c[p] \in Nat
    BY ArrangedOne
  <2>2. c[p] = 0 => V[p] = T[a[p]]
    BY ArrangedOne
  <2>3. c[p] # 0 => V[p].role = "tool"
    BY ArrangedOne
  <2> QED BY <2>1, <2>2, <2>3
<1>3. ASSUME NEW m \in 1..Len(T), T[m].role # "tool"
      PROVE  \E p \in 1..Len(V) : a[p] = m /\ c[p] = 0
  <2>1. Has(S, m, 0) /\ 0 \in Nat
    BY <1>3
  <2>2. \A i \in 1..Len(T), n \in Nat : Has(S, i, n) => \E k1 \in 1..Len(V) : a[k1] = i /\ c[k1] = n
    BY DEF Arranges
  <2> QED BY <2>1, <2>2
<1>4. ASSUME Follows(V, j, k) PROVE c[j] = 0 /\ Follows(T, a[j], a[k])
  <2>1. j <= k /\ V[j].role # "tool"
    BY <1>4 DEF Follows
  <2>2. c[j] = 0 /\ T[a[j]].role # "tool" /\ a[j] \in 1..Len(T) /\ a[k] \in 1..Len(T) /\ c[k] \in Nat
    BY <1>2, <2>1
  <2>3. a[j] <= a[k]
    BY <1>1, <2>1, <2>2
  <2>4. ASSUME NEW m \in a[j] + 1..a[k], T[m].role # "tool" PROVE FALSE
    <3>1. m \in 1..Len(T)
      BY <2>2
    <3>2. PICK p \in 1..Len(V) : a[p] = m /\ c[p] = 0
      BY <1>3, <2>4, <3>1
    <3>3. j < p /\ ~(k < p)
      BY <1>1, <2>2, <2>4, <3>1, <3>2, SMTT(60)
    <3>4. V[p].role # "tool"
      BY <1>2, <2>4, <3>2
    <3>5. p \in j + 1..k
      BY <3>2, <3>3
    <3> QED BY <1>4, <3>4, <3>5 DEF Follows
  <2> QED BY <2>2, <2>3, <2>4 DEF Follows
<1>5. ASSUME c[j] = 0, Follows(T, a[j], a[k]) PROVE Follows(V, j, k)
  <2>1. a[j] \in 1..Len(T) /\ a[k] \in 1..Len(T) /\ c[k] \in Nat
    BY <1>2
  <2>2. a[j] <= a[k] /\ T[a[j]].role # "tool"
    BY <1>5 DEF Follows
  <2>3. ~(k < j)
    BY <1>1, <1>5, <2>1, <2>2
  <2>4. V[j].role # "tool"
    BY <1>2, <1>5, <2>2
  <2>5. ASSUME NEW p \in j + 1..k PROVE V[p].role = "tool"
    <3>1. p \in 1..Len(V) /\ j < p /\ ~(k < p)
      OBVIOUS
    <3>2. a[p] \in 1..Len(T) /\ c[p] \in Nat
      BY <1>2, <3>1
    <3>3. a[p] <= a[k]
      BY <1>1, <2>1, <3>1, <3>2
    <3>4. c[p] = 0 => a[p] > a[j]
      BY <1>1, <1>5, <2>1, <3>1, <3>2
    <3>5. c[p] = 0 => T[a[p]].role = "tool"
      BY <1>5, <2>1, <3>2, <3>3, <3>4 DEF Follows
    <3> QED BY <1>2, <3>1, <3>5
  <2> QED BY <2>3, <2>4, <2>5 DEF Follows
<1> QED BY <1>4, <1>5

AllPlaces(T) == Kept(T) \cup Stubs(T)
StayPlaces(T) == {x \in Kept(T) : ~Stray(T, x[1])}

\* Message k of V is the k-th of the places S.
Ranked(S, V, a, c) == \A k \in 1..Len(V) : Rank(S, <<a[k], c[k]>>) = k - 1

LEMMA HasPlaces ==
    ASSUME NEW T \in Seq(Messages), NEW i \in 1..Len(T), NEW n \in Nat
    PROVE  /\ Has(AllPlaces(T), i, n) <=> n = 0 \/ n \in Missing(T, i)
           /\ Has(StayPlaces(T), i, n) <=> n = 0 /\ ~Stray(T, i)
           /\ Has(Kept(T), i, n) <=> n = 0
<1>1. <<i, n>> \in Kept(T) <=> n = 0
  BY DEF Kept
<1>2. <<i, n>> \in Stubs(T) <=> n \in Missing(T, i)
  BY StubsAre
<1>3. <<i, n>> \in StayPlaces(T) <=> n = 0 /\ ~Stray(T, i)
  BY <1>1 DEF StayPlaces
<1> QED BY <1>1, <1>2, <1>3 DEF Has, AllPlaces

\* The stubs' repair, and the strays'.
LEMMA CompletedIs ==
    ASSUME NEW T \in Seq(Messages)
    PROVE  /\ Completed(T).msgs \in Seq(Messages)
           /\ \E a, c : /\ Arranges(T, AllPlaces(T), Completed(T).msgs, a, c)
                        /\ Ranked(AllPlaces(T), Completed(T).msgs, a, c)
<1> DEFINE S == AllPlaces(T)
           V == [k \in DOMAIN InOrder(S) |-> At(T, InOrder(S)[k])]
           a == [k \in 1..Len(V) |-> InOrder(S)[k][1]]
           c == [k \in 1..Len(V) |-> InOrder(S)[k][2]]
<1>1. Completed(T).msgs = V
  BY DEF Completed, AllPlaces
<1>2. S \in SUBSET (Kept(T) \cup Stubs(T))
  BY DEF AllPlaces
<1>3. /\ V \in Seq(Messages) /\ Arranges(T, S, V, a, c)
      /\ \A k \in 1..Len(V) : Rank(S, <<a[k], c[k]>>) = k - 1
  BY <1>2, InOrderArranges, Zenon
<1>4. Ranked(S, V, a, c)
  BY <1>3, Zenon DEF Ranked
<1> QED BY <1>1, <1>3, <1>4, Zenon

LEMMA UnstrayedIs ==
    ASSUME NEW T \in Seq(Messages)
    PROVE  /\ Unstrayed(T).msgs \in Seq(Messages)
           /\ \E a, c : /\ Arranges(T, StayPlaces(T), Unstrayed(T).msgs, a, c)
                        /\ Ranked(StayPlaces(T), Unstrayed(T).msgs, a, c)
<1> DEFINE S == StayPlaces(T)
           V == [k \in DOMAIN InOrder(S) |-> At(T, InOrder(S)[k])]
           a == [k \in 1..Len(V) |-> InOrder(S)[k][1]]
           c == [k \in 1..Len(V) |-> InOrder(S)[k][2]]
<1>1. Unstrayed(T).msgs = V
  BY DEF Unstrayed, StayPlaces
<1>2. S \in SUBSET (Kept(T) \cup Stubs(T))
  BY DEF StayPlaces
<1>3. /\ V \in Seq(Messages) /\ Arranges(T, S, V, a, c)
      /\ \A k \in 1..Len(V) : Rank(S, <<a[k], c[k]>>) = k - 1
  BY <1>2, InOrderArranges, Zenon
<1>4. Ranked(S, V, a, c)
  BY <1>3, Zenon DEF Ranked
<1> QED BY <1>1, <1>3, <1>4, Zenon

LEMMA FollowsTyped ==
    ASSUME NEW T, NEW h, NEW i \in Nat, Follows(T, h, i)
    PROVE  h \in 1..i /\ T[h].role # "tool" /\ \A j \in h..i : Follows(T, h, j) /\ (j # h => T[j].role = "tool")
BY DEF Follows

\* With its stubs every message is replied to, and no other reply strays.
LEMMA CompletedRuns ==
    ASSUME NEW T, NEW U, NEW a, NEW c, Arranges(T, AllPlaces(T), U, a, c)
    PROVE  /\ \A j, k \in 1..Len(U) : Follows(U, j, k) <=> c[j] = 0 /\ Follows(T, a[j], a[k])
           /\ \A k \in 1..Len(U) : Stray(U, k) <=> c[k] = 0 /\ Stray(T, a[k])
           /\ \A j \in 1..Len(U) : U[j].role # "tool" => Replied(U, j)
<1> DEFINE S == AllPlaces(T)
<1>0. T \in Seq(Messages) /\ U \in Seq(Messages) /\ a \in [1..Len(U) -> Nat] /\ c \in [1..Len(U) -> Nat]
  BY DEF Arranges
<1>1. \A h \in 1..Len(T) : Has(S, h, 0)
  BY <1>0, HasPlaces
<1>2. \A j, k \in 1..Len(U) : Follows(U, j, k) <=> c[j] = 0 /\ Follows(T, a[j], a[k])
  BY <1>1, ArrangedRuns
<1> HIDE DEF S
<1>3. ASSUME NEW i \in 1..Len(T), NEW n \in Nat, n = 0 \/ n \in Missing(T, i)
      PROVE  \E k \in 1..Len(U) : a[k] = i /\ c[k] = n
  <2>1. Has(AllPlaces(T), i, n)
    BY <1>0, <1>3, HasPlaces
  <2>2. \A i1 \in 1..Len(T), n1 \in Nat : Has(AllPlaces(T), i1, n1) => \E k \in 1..Len(U) : a[k] = i1 /\ c[k] = n1
    BY DEF Arranges
  <2> QED BY <2>1, <2>2
<1>4. ASSUME NEW k \in 1..Len(U)
      PROVE  /\ a[k] \in 1..Len(T) /\ c[k] \in Nat /\ (c[k] = 0 => U[k] = T[a[k]])
             /\ c[k] # 0 => U[k].role = "tool" /\ U[k].of = c[k]
  <2>1. a[k] \in 1..Len(T) /\ c[k] \in Nat /\ (c[k] = 0 => U[k] = T[a[k]])
    BY ArrangedOne
  <2>2. c[k] # 0 => U[k].role = "tool" /\ U[k].of = c[k]
    <3>1. c[k] # 0 => U[k] = Reply(T[RunHead(T, a[k])], c[k])
      BY ArrangedStub
    <3> QED BY <3>1 DEF Reply, Message
  <2> QED BY <2>1, <2>2
<1>5. ASSUME NEW j \in 1..Len(U), U[j].role # "tool", NEW m \in U[j].calls
      PROVE  \E i \in j + 1..Len(U) : Follows(U, j, i) /\ U[i].of = m
  <2>1. c[j] = 0 /\ U[j] = T[a[j]] /\ a[j] \in 1..Len(T)
    BY <1>4, <1>5
  <2> DEFINE h == a[j]
  <2>2. h \in 1..Len(T) /\ T[h].role # "tool" /\ m \in T[h].calls
    BY <1>5, <2>1
  <2>3. PICK e \in h..Len(T) : Follows(T, h, e) /\ EndsRun(T, e) /\ RunHead(T, e) = h
    BY <1>0, <2>2, RunEnds
  <2>4. m \in Names /\ m \in Nat
    <3>1. T[h].calls \subseteq Names
      BY <1>0, <2>2, MessageIs
    <3> QED BY <2>2, <3>1, ConstantsAssumption DEF Names, ConstantsAssumption
  <2>5. CASE \E k \in h + 1..e : T[k].of = m
    <3>1. PICK k \in h + 1..e : T[k].of = m
      BY <2>5
    <3>2. k \in 1..Len(T) /\ Follows(T, h, k) /\ k # h
      BY <2>2, <2>3, <3>1 DEF Follows
    <3>3. PICK i \in 1..Len(U) : a[i] = k /\ c[i] = 0
      BY <1>3, <3>2
    <3>4. Follows(U, j, i) /\ U[i].of = m
      BY <1>2, <1>4, <2>1, <3>1, <3>2, <3>3
    <3>5. i # j
      BY <3>2, <3>3
    <3>6. i \in j + 1..Len(U)
      BY <3>4, <3>5 DEF Follows
    <3> QED BY <3>4, <3>6
  <2>6. CASE ~\E k \in h + 1..e : T[k].of = m
    <3>0. e \in 1..Len(T) /\ RunHead(T, e) > 0
      BY <2>2, <2>3
    <3>1. e \in 1..Len(T) /\ m \in Missing(T, e)
      <4> HIDE DEF h
      <4> QED BY <1>0, <2>2, <2>3, <2>6, <3>0, MissingIs
    <3>2. PICK i \in 1..Len(U) : a[i] = e /\ c[i] = m
      BY <1>3, <2>4, <3>1
    <3>3. m # 0
      BY <2>4 DEF Names
    <3>4. Follows(U, j, i) /\ U[i].of = m
      BY <1>2, <1>4, <2>1, <2>3, <3>2, <3>3
    <3>5. i # j
      BY <2>1, <3>2, <3>3
    <3>6. i \in j + 1..Len(U)
      BY <3>4, <3>5 DEF Follows
    <3> QED BY <3>4, <3>6
  <2> QED BY <2>5, <2>6
<1>6. ASSUME NEW k \in 1..Len(U) PROVE Stray(U, k) <=> c[k] = 0 /\ Stray(T, a[k])
  <2>1. CASE c[k] = 0
    <3>1. U[k] = T[a[k]] /\ a[k] \in 1..Len(T)
      BY <1>4, <2>1
    <3>2. ASSUME NEW j \in 1..k, Follows(U, j, k), U[k].of \in U[j].calls
          PROVE  a[j] \in 1..a[k] /\ Follows(T, a[j], a[k]) /\ T[a[k]].of \in T[a[j]].calls
      <4>1. j \in 1..Len(U)
        OBVIOUS
      <4>2. c[j] = 0 /\ Follows(T, a[j], a[k])
        BY <1>2, <3>2, <4>1
      <4>3. U[j] = T[a[j]] /\ a[j] \in 1..Len(T)
        BY <1>4, <4>1, <4>2
      <4> QED BY <3>1, <3>2, <4>2, <4>3 DEF Follows
    <3>3. ASSUME NEW h \in 1..a[k], Follows(T, h, a[k]), T[a[k]].of \in T[h].calls
          PROVE  \E j \in 1..k : Follows(U, j, k) /\ U[k].of \in U[j].calls
      <4>1. h \in 1..Len(T)
        BY <3>1
      <4>2. PICK j \in 1..Len(U) : a[j] = h /\ c[j] = 0
        BY <1>3, <4>1
      <4>3. Follows(U, j, k) /\ U[j] = T[h]
        BY <1>2, <1>4, <3>3, <4>2
      <4>4. j \in 1..k
        BY <4>3 DEF Follows
      <4> QED BY <3>1, <3>3, <4>3, <4>4
    <3>4. Stray(U, k) <=> U[k].role = "tool" /\ ~\E j \in 1..k : Follows(U, j, k) /\ U[k].of \in U[j].calls
      BY <1>0, StrayIs
    <3>5. Stray(T, a[k]) <=> T[a[k]].role = "tool" /\ ~\E h \in 1..a[k] : Follows(T, h, a[k]) /\ T[a[k]].of \in T[h].calls
      BY <1>0, <3>1, StrayIs
    <3> QED BY <2>1, <3>1, <3>2, <3>3, <3>4, <3>5
  <2>2. CASE c[k] # 0
    <3> DEFINE h == RunHead(T, a[k])
    <3>1. h \in 1..Len(T) /\ Follows(T, h, a[k]) /\ c[k] \in T[h].calls
      BY <2>2, ArrangedStub
    <3>2. PICK j \in 1..Len(U) : a[j] = h /\ c[j] = 0
      BY <1>3, <3>1
    <3>3. Follows(U, j, k) /\ U[j] = T[h] /\ U[k].of = c[k]
      BY <1>2, <1>4, <2>2, <3>1, <3>2
    <3>4. j \in 1..k
      BY <3>3 DEF Follows
    <3>5. ~Stray(U, k)
      BY <1>0, <3>1, <3>3, <3>4, StrayIs
    <3> QED BY <2>2, <3>5
  <2> QED BY <2>1, <2>2
<1>7. ASSUME NEW j \in 1..Len(U), U[j].role # "tool" PROVE Replied(U, j)
  BY <1>5, <1>7 DEF Replied
<1> QED BY <1>2, <1>6, <1>7

\* Without its strays every reply is in place, and every answer is there still.
LEMMA UnstrayedRuns ==
    ASSUME NEW U, NEW V, NEW a, NEW c, Arranges(U, StayPlaces(U), V, a, c)
    PROVE  /\ \A j, k \in 1..Len(V) : Follows(V, j, k) <=> Follows(U, a[j], a[k])
           /\ \A k \in 1..Len(V) : a[k] \in 1..Len(U) /\ V[k] = U[a[k]] /\ ~Stray(U, a[k])
           /\ \A j, k \in 1..Len(V) : j < k <=> a[j] < a[k]
           /\ \A i \in 1..Len(U) : ~Stray(U, i) => \E k \in 1..Len(V) : a[k] = i
           /\ Placed(V)
           /\ \A k \in 1..Len(V) : V[k].role # "tool" /\ Replied(U, a[k]) => Replied(V, k)
<1>0. U \in Seq(Messages) /\ V \in Seq(Messages) /\ a \in [1..Len(V) -> Nat] /\ c \in [1..Len(V) -> Nat]
  BY DEF Arranges
<1>1. ASSUME NEW h \in 1..Len(U), U[h].role # "tool" PROVE Has(StayPlaces(U), h, 0)
  BY <1>0, <1>1, HasPlaces DEF Stray
<1>2. \A j, k \in 1..Len(V) : Follows(V, j, k) <=> c[j] = 0 /\ Follows(U, a[j], a[k])
  BY <1>1, ArrangedRuns
<1>3. ASSUME NEW k \in 1..Len(V) PROVE a[k] \in 1..Len(U) /\ c[k] = 0 /\ V[k] = U[a[k]] /\ ~Stray(U, a[k])
  <2>1. a[k] \in 1..Len(U) /\ c[k] \in Nat /\ Has(StayPlaces(U), a[k], c[k]) /\ (c[k] = 0 => V[k] = U[a[k]])
    BY ArrangedOne
  <2>2. c[k] = 0 /\ ~Stray(U, a[k])
    BY <1>0, <2>1, HasPlaces
  <2> QED BY <2>1, <2>2
<1>4. ASSUME NEW i \in 1..Len(U), ~Stray(U, i) PROVE \E k \in 1..Len(V) : a[k] = i
  <2>1. Has(StayPlaces(U), i, 0)
    BY <1>0, <1>4, HasPlaces
  <2>2. \A i1 \in 1..Len(U), n1 \in Nat : Has(StayPlaces(U), i1, n1) => \E k \in 1..Len(V) : a[k] = i1 /\ c[k] = n1
    BY DEF Arranges
  <2> QED BY <2>1, <2>2
<1>5. \A j, k \in 1..Len(V) : Follows(V, j, k) <=> Follows(U, a[j], a[k])
  BY <1>2, <1>3
<1>6. \A j, k \in 1..Len(V) : j < k <=> a[j] < a[k]
  <2>1. \A j, k \in 1..Len(V) : j < k <=> a[j] < a[k] \/ (a[j] = a[k] /\ c[j] < c[k])
    BY DEF Arranges
  <2> QED BY <1>3, <2>1
<1>7. ASSUME NEW k \in 1..Len(V), V[k].role = "tool"
      PROVE  \E j \in 1..k : Follows(V, j, k) /\ V[k].of \in V[j].calls
  <2>1. a[k] \in 1..Len(U) /\ V[k] = U[a[k]] /\ ~Stray(U, a[k])
    BY <1>3
  <2>2. PICK h \in 1..a[k] : Follows(U, h, a[k]) /\ U[a[k]].of \in U[h].calls
    BY <1>0, <1>7, <2>1, StrayIs
  <2>3. h \in 1..Len(U) /\ ~Stray(U, h)
    BY <2>1, <2>2 DEF Follows, Stray
  <2>4. PICK j \in 1..Len(V) : a[j] = h
    BY <1>4, <2>3
  <2>5. Follows(V, j, k) /\ V[j] = U[h]
    BY <1>3, <1>5, <2>2, <2>4
  <2> QED BY <2>1, <2>2, <2>5 DEF Follows
<1>8. ASSUME NEW k \in 1..Len(V), V[k].role # "tool", Replied(U, a[k]), NEW m \in V[k].calls
      PROVE  \E i \in k + 1..Len(V) : Follows(V, k, i) /\ V[i].of = m
  <2>1. a[k] \in 1..Len(U) /\ V[k] = U[a[k]]
    BY <1>3
  <2>2. PICK i \in a[k] + 1..Len(U) : Follows(U, a[k], i) /\ U[i].of = m
    BY <1>8, <2>1 DEF Replied
  <2>3. i \in 1..Len(U) /\ ~Stray(U, i)
    <3>1. i \in 1..Len(U) /\ a[k] \in 1..i /\ U[i].of \in U[a[k]].calls
      BY <1>8, <2>1, <2>2
    <3> QED BY <1>0, <2>2, <3>1, StrayIs
  <2>4. PICK p \in 1..Len(V) : a[p] = i
    BY <1>4, <2>3
  <2>5. Follows(V, k, p) /\ V[p].of = m /\ k < p
    BY <1>3, <1>5, <1>6, <2>1, <2>2, <2>4
  <2> QED BY <2>5
<1>9. Placed(V)
  BY <1>7 DEF Placed
<1>10. ASSUME NEW k \in 1..Len(V), V[k].role # "tool", Replied(U, a[k]) PROVE Replied(V, k)
  BY <1>8, <1>10 DEF Replied
<1> QED BY <1>3, <1>4, <1>5, <1>6, <1>9, <1>10

\* Messages p to q of A are those of B, d places on, but for ids, marks and turns.
Like(A, B, p, q, d) ==
    /\ A \in Seq(Messages) /\ B \in Seq(Messages) /\ d \in Int /\ p \in Nat /\ q \in Nat
    /\ 1 <= p /\ q <= Len(A) /\ 1 <= p + d /\ q + d <= Len(B)
    /\ \A k \in p..q : A[k].role = B[k + d].role /\ A[k].of = B[k + d].of /\ A[k].calls = B[k + d].calls
    /\ p <= q => A[p].role # "tool" \/ (p = 1 /\ d = 0)

\* They have the same runs.
LEMMA LikeRuns ==
    ASSUME NEW A, NEW B, NEW p, NEW q, NEW d, Like(A, B, p, q, d)
    PROVE  /\ \A j, k \in p..q : Follows(A, j, k) <=> Follows(B, j + d, k + d)
           /\ \A h, k \in Nat : k \in p..q /\ h < p => ~Follows(A, h, k)
           /\ \A h, k \in Nat : k \in p..q /\ h < p + d => ~Follows(B, h, k + d)
           /\ \A k \in p..q : Stray(A, k) <=> Stray(B, k + d)
<1>1. /\ A \in Seq(Messages) /\ B \in Seq(Messages) /\ d \in Int /\ p \in Nat /\ q \in Nat
      /\ 1 <= p /\ q <= Len(A) /\ 1 <= p + d /\ q + d <= Len(B)
      /\ p <= q => A[p].role # "tool" \/ (p = 1 /\ d = 0)
  BY DEF Like
<1>2. \A k \in p..q : A[k].role = B[k + d].role /\ A[k].of = B[k + d].of /\ A[k].calls = B[k + d].calls
  BY DEF Like
<1>3. ASSUME NEW j \in p..q, NEW k \in p..q PROVE Follows(A, j, k) <=> Follows(B, j + d, k + d)
  <2>1. ASSUME Follows(A, j, k) PROVE Follows(B, j + d, k + d)
    <3>1. j \in 1..k /\ A[j].role # "tool"
      BY <2>1 DEF Follows
    <3>2. j + d \in 1..k + d /\ B[j + d].role # "tool"
      BY <1>1, <1>2, <3>1
    <3>3. ASSUME NEW i \in (j + d) + 1..k + d PROVE B[i].role = "tool"
      <4>1. i - d \in j + 1..k /\ i - d \in p..q /\ (i - d) + d = i
        BY <1>1, <3>1
      <4>2. A[i - d].role = "tool"
        BY <2>1, <4>1 DEF Follows
      <4> QED BY <1>2, <4>1, <4>2
    <3> QED BY <3>2, <3>3 DEF Follows
  <2>2. ASSUME Follows(B, j + d, k + d) PROVE Follows(A, j, k)
    <3>1. j + d \in 1..k + d /\ B[j + d].role # "tool"
      BY <2>2 DEF Follows
    <3>2. j \in 1..k /\ A[j].role # "tool"
      BY <1>1, <1>2, <3>1, SMTT(30)
    <3>3. ASSUME NEW i \in j + 1..k PROVE A[i].role = "tool"
      <4>1. i + d \in (j + d) + 1..k + d /\ i \in p..q
        BY <1>1, <3>1
      <4>2. B[i + d].role = "tool"
        BY <2>2, <4>1 DEF Follows
      <4> QED BY <1>2, <4>1, <4>2
    <3> QED BY <3>2, <3>3 DEF Follows
  <2> QED BY <2>1, <2>2
<1>4. ASSUME NEW h \in Nat, NEW k \in p..q, h < p PROVE ~Follows(A, h, k)
  <2>1. CASE p = 1
    BY <1>4, <2>1 DEF Follows
  <2>2. CASE p # 1
    <3>1. A[p].role # "tool"
      BY <1>1, <2>2
    <3> QED BY <1>1, <1>4, <3>1 DEF Follows
  <2> QED BY <2>1, <2>2
<1>5. ASSUME NEW h \in Nat, NEW k \in p..q, h < p + d PROVE ~Follows(B, h, k + d)
  <2>1. CASE p = 1 /\ d = 0
    BY <1>5, <2>1 DEF Follows
  <2>2. CASE ~(p = 1 /\ d = 0)
    <3>1. A[p].role # "tool"
      BY <1>1, <2>2
    <3>2. B[p + d].role # "tool"
      BY <1>1, <1>2, <3>1
    <3> QED BY <1>1, <1>5, <3>2 DEF Follows
  <2> QED BY <2>1, <2>2
<1>6. ASSUME NEW k \in p..q PROVE Stray(A, k) <=> Stray(B, k + d)
  <2>1. k \in 1..Len(A) /\ k + d \in 1..Len(B)
    BY <1>1
  <2>2. Stray(A, k) <=> A[k].role = "tool" /\ ~\E h \in 1..k : Follows(A, h, k) /\ A[k].of \in A[h].calls
    BY <1>1, <2>1, StrayIs
  <2>3. Stray(B, k + d) <=> B[k + d].role = "tool" /\ ~\E h \in 1..k + d : Follows(B, h, k + d) /\ B[k + d].of \in B[h].calls
    BY <1>1, <2>1, StrayIs
  <2>4. ASSUME NEW h \in 1..k, Follows(A, h, k), A[k].of \in A[h].calls
        PROVE  \E g \in 1..k + d : Follows(B, g, k + d) /\ B[k + d].of \in B[g].calls
    <3>1. h \in p..q
      BY <1>1, <1>4, <2>4
    <3>2. Follows(B, h + d, k + d) /\ B[k + d].of \in B[h + d].calls
      BY <1>2, <1>3, <2>4, <3>1
    <3>3. h + d \in 1..k + d
      BY <1>1, <3>1
    <3> QED BY <3>2, <3>3
  <2>5. ASSUME NEW g \in 1..k + d, Follows(B, g, k + d), B[k + d].of \in B[g].calls
        PROVE  \E h \in 1..k : Follows(A, h, k) /\ A[k].of \in A[h].calls
    <3>1. g >= p + d
      BY <1>1, <1>5, <2>5
    <3>2. g - d \in p..q /\ (g - d) + d = g /\ g - d \in 1..k
      BY <1>1, <3>1
    <3>3. Follows(A, g - d, k) /\ A[k].of \in A[g - d].calls
      <4>1. Follows(A, g - d, k)
        BY <1>3, <2>5, <3>2
      <4>2. A[g - d].calls = B[g].calls
        BY <1>2, <3>2
      <4> QED BY <1>2, <2>5, <4>1, <4>2
    <3> QED BY <3>2, <3>3
  <2> QED BY <1>2, <2>2, <2>3, <2>4, <2>5
<1>7. \A h, k \in Nat : k \in p..q /\ h < p => ~Follows(A, h, k)
  BY <1>4
<1>8. \A h, k \in Nat : k \in p..q /\ h < p + d => ~Follows(B, h, k + d)
  BY <1>5
<1> QED BY <1>3, <1>6, <1>7, <1>8

\* A reply stays one in what is like it.
LEMMA LikeReplied ==
    ASSUME NEW A, NEW B, NEW p, NEW q, NEW d, Like(A, B, p, q, d), NEW h \in p..q, Replied(B, h + d),
           q + d = Len(B) \/ (q < Len(A) /\ B[q + d + 1].role # "tool")
    PROVE  Replied(A, h)
<1>1. /\ A \in Seq(Messages) /\ B \in Seq(Messages) /\ d \in Int /\ p \in Nat /\ q \in Nat
      /\ 1 <= p /\ q <= Len(A) /\ 1 <= p + d /\ q + d <= Len(B)
  BY DEF Like
<1>2. \A k \in p..q : A[k].role = B[k + d].role /\ A[k].of = B[k + d].of /\ A[k].calls = B[k + d].calls
  BY DEF Like
<1> SUFFICES ASSUME NEW m \in A[h].calls PROVE \E i \in h + 1..Len(A) : Follows(A, h, i) /\ A[i].of = m
  BY DEF Replied
<1>3. m \in B[h + d].calls
  BY <1>2
<1>4. PICK i \in (h + d) + 1..Len(B) : Follows(B, h + d, i) /\ B[i].of = m
  BY <1>3 DEF Replied
<1>5. i <= q + d
  <2>1. ASSUME i > q + d PROVE FALSE
    <3>1. q + d # Len(B) /\ B[q + d + 1].role # "tool"
      BY <1>1, <1>4, <2>1
    <3>2. q + d + 1 \in (h + d) + 1..i
      BY <1>1, <1>4, <2>1
    <3> QED BY <1>4, <3>1, <3>2 DEF Follows
  <2> QED BY <1>1, <1>4, <2>1
<1>6. i - d \in h + 1..Len(A) /\ i - d \in p..q /\ (i - d) + d = i
  BY <1>1, <1>4, <1>5
<1>7. Follows(A, h, i - d) /\ A[i - d].of = m
  <2>1. Follows(A, h, i - d) <=> Follows(B, h + d, (i - d) + d)
    BY <1>6, LikeRuns
  <2>2. A[i - d].of = B[(i - d) + d].of
    BY <1>2, <1>6
  <2> QED BY <1>4, <1>6, <2>1, <2>2
<1> QED BY <1>6, <1>7

\* Like throughout: the same repairs, the same verdicts.
LEMMA LikeWhole ==
    ASSUME NEW A, NEW B, Like(A, B, 1, Len(A), 0), Len(A) = Len(B)
    PROVE  /\ \A k \in 1..Len(A) : Stray(A, k) <=> Stray(B, k)
           /\ \A h, k \in 1..Len(A) : Follows(A, h, k) <=> Follows(B, h, k)
           /\ Settled(B) => Settled(A)
           /\ Open(B) => Open(A)
<1>1. A \in Seq(Messages) /\ B \in Seq(Messages) /\ Len(A) \in Nat
  BY DEF Like
<1>2. \A k \in 1..Len(A) : A[k].role = B[k + 0].role /\ A[k].of = B[k + 0].of /\ A[k].calls = B[k + 0].calls
  BY DEF Like
<1>3. \A k \in 1..Len(A) : A[k].role = B[k].role /\ A[k].of = B[k].of /\ A[k].calls = B[k].calls
  BY <1>2, <1>1
<1>4. ASSUME NEW k \in 1..Len(A), NEW h \in 1..Len(A)
      PROVE  (Follows(A, h, k) <=> Follows(B, h, k)) /\ (Stray(A, k) <=> Stray(B, k))
  <2>1. h + 0 = h /\ k + 0 = k
    BY <1>1
  <2>2. (Follows(A, h, k) <=> Follows(B, h + 0, k + 0)) /\ (Stray(A, k) <=> Stray(B, k + 0))
    BY LikeRuns
  <2> QED BY <2>1, <2>2
<1>5. Placed(B) => Placed(A)
  BY <1>1, <1>4, AnsweredIs
<1>6. ASSUME NEW h \in 1..Len(A), Replied(B, h) PROVE Replied(A, h)
  <2>1. h + 0 = h /\ Len(A) + 0 = Len(B)
    BY <1>1
  <2>2. Replied(B, h + 0)
    BY <1>6, <2>1
  <2> QED BY <2>1, <2>2, LikeReplied
<1>7. Settled(B) => Settled(A)
  BY <1>3, <1>5, <1>6 DEF Settled
<1>8. Open(B) => Open(A)
  BY <1>1, <1>3, <1>4, <1>5, <1>6 DEF Open
<1> QED BY <1>4, <1>7, <1>8

LEMMA AppendLike ==
    ASSUME NEW T \in Seq(Messages), NEW m \in Messages
    PROVE  /\ Append(T, m) \in Seq(Messages) /\ Len(Append(T, m)) = Len(T) + 1
           /\ \A i \in 1..Len(T) : Append(T, m)[i] = T[i]
           /\ Append(T, m)[Len(T) + 1] = m
           /\ Like(T, Append(T, m), 1, Len(T), 0)
           /\ Like(Append(T, m), T, 1, Len(T), 0)
<1> DEFINE A == Append(T, m)
<1>1. A \in Seq(Messages) /\ Len(A) = Len(T) + 1 /\ (\A i \in 1..Len(T) : A[i] = T[i]) /\ A[Len(T) + 1] = m
  BY AppendProperties
<1> HIDE DEF A
<1>2. Like(T, A, 1, Len(T), 0) /\ Like(A, T, 1, Len(T), 0)
  BY <1>1 DEF Like
<1> QED BY <1>1, <1>2 DEF A

\* A turn adds messages: after all replies a message that is none, whose calls
\* are open then, or the reply to an open call.
LEMMA AppendMessage ==
    ASSUME NEW T \in Seq(Messages), Settled(T), NEW m \in Messages, m.role # "tool"
    PROVE  /\ Open(Append(T, m))
           /\ m.calls = {} => Settled(Append(T, m))
<1> DEFINE A == Append(T, m)
<1>1. A \in Seq(Messages) /\ Len(A) = Len(T) + 1 /\ (\A i \in 1..Len(T) : A[i] = T[i]) /\ A[Len(T) + 1] = m
  BY AppendLike
<1>2. Like(A, T, 1, Len(T), 0)
  BY AppendLike
<1> HIDE DEF A
<1>3. ASSUME NEW k \in 1..Len(T) PROVE Stray(A, k) <=> Stray(T, k)
  <2>1. Stray(A, k) <=> Stray(T, k + 0)
    BY <1>2, LikeRuns
  <2> QED BY <2>1
<1>4. Placed(A)
  <2>1. \A k \in 1..Len(T) : ~Stray(T, k)
    BY AnsweredIs DEF Settled
  <2>2. ~Stray(A, Len(T) + 1)
    BY <1>1 DEF Stray
  <2>3. \A k \in 1..Len(A) : ~Stray(A, k)
    BY <1>1, <1>3, <2>1, <2>2
  <2> QED BY <1>1, <2>3, AnsweredIs
<1>5. ASSUME NEW h \in 1..Len(T), A[h].role # "tool" PROVE Replied(A, h)
  <2>1. Replied(T, h + 0) /\ Len(T) + 0 = Len(T)
    BY <1>1, <1>5 DEF Settled
  <2> QED BY <1>2, <2>1, LikeReplied
<1>6. Follows(A, Len(A), Len(A))
  BY <1>1 DEF Follows
<1>7. m.calls = {} => Replied(A, Len(T) + 1)
  BY <1>1 DEF Replied
<1>8. \A h \in 1..Len(A) : h \in 1..Len(T) \/ h = Len(T) + 1
  BY <1>1
<1>9. Open(A)
  BY <1>1, <1>4, <1>5, <1>6, <1>8 DEF Open
<1>10. m.calls = {} => Settled(A)
  BY <1>4, <1>5, <1>7, <1>8 DEF Settled
<1> QED BY <1>9, <1>10 DEF A

LEMMA AppendReply ==
    ASSUME NEW T \in Seq(Messages), Open(T), NEW n \in Missing(T, Len(T)), T # <<>>
    PROVE  LET m == Reply(T[RunHead(T, Len(T))], n)
           IN  m \in Messages /\ Open(Append(T, m)) /\ RunHead(T, Len(T)) \in 1..Len(T)
<1> DEFINE h == RunHead(T, Len(T))
           m == Reply(T[h], n)
           A == Append(T, m)
<1>0. Len(T) \in 1..Len(T)
  BY EmptySeq
<1>1. h \in 1..Len(T) /\ Follows(T, h, Len(T)) /\ n \in T[h].calls /\ n \in Names
  <2>1. h \in 0..Len(T) /\ h > 0 /\ n \in T[h].calls /\ n \in Names
    BY <1>0, MissingIs, RunHeadIs
  <2> QED BY <1>0, <2>1, RunHeadIs
<1>2. m \in Messages
  <2>1. n \in Nat /\ T[h].id[1] \in Nat /\ T[h].turn \in Nat
    BY <1>1, MessageIs, ConstantsAssumption DEF Names, ConstantsAssumption
  <2>2. <<T[h].id[1], n>> \in Nat \X Nat
    BY <2>1
  <2> QED BY <2>1, <2>2 DEF Reply, Message, Messages, Roles
<1>3. m.role = "tool" /\ m.of = n
  BY DEF Reply, Message
<1>4. A \in Seq(Messages) /\ Len(A) = Len(T) + 1 /\ (\A i \in 1..Len(T) : A[i] = T[i]) /\ A[Len(T) + 1] = m
  BY <1>2, AppendLike
<1>5. Like(A, T, 1, Len(T), 0)
  BY <1>2, AppendLike
<1> HIDE DEF A, m, h
<1>6. ASSUME NEW k \in 1..Len(T), NEW j \in 1..Len(T)
      PROVE  (Stray(A, k) <=> Stray(T, k)) /\ (Follows(A, j, k) <=> Follows(T, j, k))
  <2>1. (Stray(A, k) <=> Stray(T, k + 0)) /\ (Follows(A, j, k) <=> Follows(T, j + 0, k + 0))
    BY <1>5, LikeRuns
  <2>2. j + 0 = j /\ k + 0 = k
    OBVIOUS
  <2> QED BY <2>1, <2>2
<1>7. ASSUME NEW j \in 1..Len(T), Follows(T, j, Len(T)) PROVE Follows(A, j, Len(T) + 1)
  <2>1. j \in 1..Len(T) + 1 /\ A[j].role # "tool"
    BY <1>4, <1>7 DEF Follows
  <2>2. ASSUME NEW i \in j + 1..Len(T) + 1 PROVE A[i].role = "tool"
    BY <1>3, <1>4, <1>7 DEF Follows
  <2> QED BY <2>1, <2>2 DEF Follows
<1>8. Placed(A)
  <2>1. \A k \in 1..Len(T) : ~Stray(T, k)
    BY AnsweredIs DEF Open
  <2>2. ~Stray(A, Len(T) + 1)
    <3>1. Follows(A, h, Len(T) + 1) /\ A[Len(T) + 1].of \in A[h].calls /\ h \in 1..Len(T) + 1
      BY <1>1, <1>3, <1>4, <1>7
    <3> QED BY <1>4, <3>1, StrayIs
  <2>3. \A k \in 1..Len(A) : ~Stray(A, k)
    BY <1>4, <1>6, <2>1, <2>2
  <2> QED BY <1>4, <2>3, AnsweredIs
<1>9. ASSUME NEW j \in 1..Len(A), A[j].role # "tool" PROVE Replied(A, j) \/ Follows(A, j, Len(A))
  <2>1. j \in 1..Len(T) /\ T[j].role # "tool"
    BY <1>3, <1>4, <1>9
  <2>2. CASE Follows(T, j, Len(T))
    BY <1>4, <1>7, <2>1, <2>2
  <2>3. CASE Replied(T, j)
    <3>1. ASSUME NEW c \in A[j].calls PROVE \E i \in j + 1..Len(A) : Follows(A, j, i) /\ A[i].of = c
      <4>1. PICK i \in j + 1..Len(T) : Follows(T, j, i) /\ T[i].of = c
        BY <1>4, <2>1, <2>3, <3>1 DEF Replied
      <4>2. Follows(A, j, i) /\ A[i].of = c
        BY <1>4, <1>6, <2>1, <4>1
      <4> QED BY <1>4, <4>1, <4>2
    <3> QED BY <3>1 DEF Replied
  <2> QED BY <2>1, <2>2, <2>3 DEF Open
<1> QED BY <1>1, <1>2, <1>8, <1>9 DEF Open, A, m, h

\* The last call answered.
LEMMA OpenSettles ==
    ASSUME NEW T \in Seq(Messages), Open(T), T # <<>> => Missing(T, Len(T)) = {}
    PROVE  Settled(T)
<1>1. ASSUME NEW h \in 1..Len(T), T[h].role # "tool", Follows(T, h, Len(T)) PROVE Replied(T, h)
  <2>1. Len(T) \in 1..Len(T) /\ T # <<>>
    BY EmptySeq
  <2>2. ASSUME NEW i \in 1..Len(T), Follows(T, h, i), NEW c \in Missing(T, i) PROVE FALSE
    <3>1. RunHead(T, i) = h
      BY <2>2, FollowsHead
    <3>2. EndsRun(T, i)
      BY MissingIs
    <3>3. i = Len(T)
      <4>1. ASSUME i # Len(T) PROVE FALSE
        <5>1. i + 1 \in h + 1..Len(T) /\ T[i + 1].role # "tool"
          BY <2>2, <3>2, <4>1 DEF EndsRun, Follows
        <5> QED BY <1>1, <5>1 DEF Follows
      <4> QED BY <4>1
    <3> QED BY <2>1, <2>2, <3>3
  <2> QED BY <1>1, <2>2, RepliedIs
<1> QED BY <1>1 DEF Open, Settled

LEMMA SettledIsOpen ==
    ASSUME NEW T, Settled(T) PROVE Open(T)
BY DEF Settled, Open

\* Without its last message, when that is no reply.
LEMMA FrontSettled ==
    ASSUME NEW T \in Seq(Messages), T # <<>>, Settled(T), T[Len(T)].role # "tool"
    PROVE  /\ Front(T) \in Seq(Messages) /\ Len(Front(T)) = Len(T) - 1 /\ Len(T) >= 1
           /\ \A i \in 1..Len(T) - 1 : Front(T)[i] = T[i]
           /\ Settled(Front(T))
           /\ Like(Front(T), T, 1, Len(T) - 1, 0)
<1> DEFINE A == Front(T)
           n == Len(T) - 1
<1>0. Len(T) >= 1 /\ n \in Nat
  BY EmptySeq
<1>1. A \in Seq(Messages) /\ Len(A) = n /\ \A i \in 1..n : A[i] = T[i]
  <2>1. \A i \in 1..n : T[i] \in Messages
    BY <1>0
  <2>2. A = SubSeq(T, 1, n)
    BY DEF Front
  <2>3. /\ SubSeq(T, 1, n) \in Seq(Messages) /\ Len(SubSeq(T, 1, n)) = IF 1 <= n THEN n - 1 + 1 ELSE 0
        /\ \A i \in 1..n - 1 + 1 : SubSeq(T, 1, n)[i] = T[1 + i - 1]
    BY <1>0, <2>1, SubSeqProperties
  <2> HIDE DEF A
  <2>6. (IF 1 <= n THEN n - 1 + 1 ELSE 0) = n
    <3>1. n \in Nat
      BY <1>0
    <3> HIDE DEF n
    <3>2. CASE 1 <= n
      BY <3>1, <3>2
    <3>3. CASE n = 0
      BY <3>1, <3>3
    <3> QED BY <3>1, <3>2, <3>3
  <2>7. SubSeq(T, 1, n) \in Seq(Messages) /\ Len(SubSeq(T, 1, n)) = n
    BY <2>3, <2>6
  <2>4. A \in Seq(Messages) /\ Len(A) = n
    BY <2>2, <2>7
  <2>5. ASSUME NEW i \in 1..n PROVE A[i] = T[i]
    <3>1. i \in 1..n - 1 + 1 /\ 1 + i - 1 = i
      BY <1>0
    <3> HIDE DEF n
    <3> QED BY <2>2, <2>3, <3>1
  <2> QED BY <2>4, <2>5
<1> HIDE DEF A
<1>2. Like(A, T, 1, n, 0)
  BY <1>0, <1>1 DEF Like
<1>3. Placed(A)
  <2>1. \A k \in 1..Len(T) : ~Stray(T, k)
    BY AnsweredIs DEF Settled
  <2>2. ASSUME NEW k \in 1..n PROVE ~Stray(A, k)
    <3>1. Stray(A, k) <=> Stray(T, k + 0)
      BY <1>2, LikeRuns
    <3> QED BY <1>0, <2>1, <3>1
  <2> QED BY <1>1, <2>2, AnsweredIs
<1>4. ASSUME NEW h \in 1..n, A[h].role # "tool" PROVE Replied(A, h)
  <2>1. Replied(T, h)
    BY <1>0, <1>1, <1>4 DEF Settled
  <2>2. ASSUME NEW c \in A[h].calls PROVE \E i \in h + 1..Len(A) : Follows(A, h, i) /\ A[i].of = c
    <3>1. PICK i \in h + 1..Len(T) : Follows(T, h, i) /\ T[i].of = c
      BY <1>1, <2>1, <2>2 DEF Replied
    <3>2. i # Len(T)
      BY <3>1 DEF Follows
    <3>3. i \in h + 1..n
      BY <1>0, <3>1, <3>2
    <3>4. Follows(A, h, i) <=> Follows(T, h + 0, i + 0)
      BY <1>2, <3>3, LikeRuns
    <3>5. h + 0 = h /\ i + 0 = i
      BY <3>3
    <3> QED BY <1>1, <3>1, <3>3, <3>4, <3>5
  <2> QED BY <2>2 DEF Replied
<1>5. Settled(A)
  BY <1>1, <1>3, <1>4 DEF Settled
<1> QED BY <1>0, <1>1, <1>2, <1>5 DEF A

\* Every stub of an open transcript goes to its end.
LEMMA OpenMissing ==
    ASSUME NEW T \in Seq(Messages), Open(T), NEW i \in 1..Len(T), NEW n \in Missing(T, i)
    PROVE  i = Len(T) /\ Follows(T, RunHead(T, i), i) /\ RunHead(T, i) \in 1..i /\ ~Settled(T)
<1> DEFINE h == RunHead(T, i)
<1>1. h \in 1..i /\ Follows(T, h, i) /\ EndsRun(T, i)
  <2>1. h \in 0..i /\ h > 0 /\ EndsRun(T, i)
    BY MissingIs, RunHeadIs
  <2> QED BY <2>1, RunHeadIs
<1>2. h \in 1..Len(T) /\ T[h].role # "tool"
  BY <1>1 DEF Follows
<1>3. ~Replied(T, h)
  BY <1>1, <1>2, RepliedIs
<1>4. Follows(T, h, Len(T))
  BY <1>2, <1>3 DEF Open
<1>5. ASSUME i # Len(T) PROVE FALSE
  <2>1. i + 1 \in h + 1..Len(T) /\ T[i + 1].role # "tool"
    BY <1>1, <1>5 DEF EndsRun
  <2> QED BY <1>4, <2>1 DEF Follows
<1>6. ~Settled(T)
  BY <1>2, <1>3 DEF Settled
<1> QED BY <1>1, <1>5, <1>6

LEMMA CompletedAt ==
    ASSUME NEW T \in Seq(Messages)
    PROVE  /\ Completed(T).at \in Seq(Nat)
           /\ Completed(T).at = <<>> <=> Stubs(T) = {}
           /\ Len(Completed(T).at) = Cardinality(Stubs(T))
           /\ \A k \in DOMAIN Completed(T).at :
                 \E x \in Stubs(T) : Completed(T).at[k] = Rank(AllPlaces(T), x) /\ Rank(Stubs(T), x) = k - 1
<1> DEFINE S == Stubs(T)
           n == Cardinality(S)
           A == AllPlaces(T)
           at == [k \in DOMAIN InOrder(S) |-> Rank(A, InOrder(S)[k])]
<1>1. Completed(T).at = at
  BY DEF Completed, AllPlaces
<1>2. S \in SUBSET Places /\ IsFiniteSet(S) /\ n \in Nat /\ DOMAIN InOrder(S) = 1..n
  BY StubsAre, InOrderIs, RankIs
<1>3. A \in SUBSET Places /\ IsFiniteSet(A)
  BY KeptIs, StubsAre, FS_Union DEF AllPlaces
<1>4. ASSUME NEW k \in 1..n PROVE InOrder(S)[k] \in S /\ Rank(S, InOrder(S)[k]) = k - 1 /\ Rank(A, InOrder(S)[k]) \in Nat
  <2>1. InOrder(S)[k] \in S /\ Rank(S, InOrder(S)[k]) = k - 1
    BY <1>2, InOrderIs
  <2>2. InOrder(S)[k] \in Places
    BY <1>2, <2>1
  <2>3. Rank(A, InOrder(S)[k]) \in 0..Cardinality(A) /\ Cardinality(A) \in Nat
    BY <1>3, <2>2, RankIs
  <2> QED BY <2>1, <2>3
<1>5. at = [k \in 1..n |-> Rank(A, InOrder(S)[k])]
  BY <1>2, Zenon
<1> HIDE DEF at
<1>6. at \in Seq(Nat) /\ Len(at) = n /\ DOMAIN at = 1..n
  <2>1. at \in [1..n -> Nat]
    BY <1>4, <1>5
  <2> HIDE DEF n
  <2> QED BY <1>2, <2>1
<1>7. n = 0 <=> S = {}
  BY <1>2, FS_EmptySet
<1>8. at = <<>> <=> S = {}
  BY <1>6, <1>7, EmptySeq
<1>9. ASSUME NEW k \in 1..n PROVE \E x \in S : at[k] = Rank(A, x) /\ Rank(S, x) = k - 1
  <2>1. at[k] = Rank(A, InOrder(S)[k])
    BY <1>5
  <2> QED BY <1>4, <2>1
<1> HIDE DEF n, S, A
<1>10. \A k \in DOMAIN at : \E x \in S : at[k] = Rank(A, x) /\ Rank(S, x) = k - 1
  BY <1>6, <1>9
<1> QED BY <1>1, <1>6, <1>8, <1>10, Zenon DEF n, S, A

LEMMA AllPlacesAre ==
    ASSUME NEW T \in Seq(Messages)
    PROVE  AllPlaces(T) \in SUBSET Places /\ IsFiniteSet(AllPlaces(T))
BY KeptIs, StubsAre, FS_Union DEF AllPlaces

\* After the stubs of an open transcript nothing of it has moved.
LEMMA CompletedOpen ==
    ASSUME NEW T \in Seq(Messages), Open(T)
    PROVE  LET U == Completed(T).msgs IN
           /\ U \in Seq(Messages) /\ Len(T) <= Len(U)
           /\ \A i \in 1..Len(T) : U[i] = T[i]
           /\ \A k \in Len(T) + 1..Len(U) :
                 \E h \in 1..Len(T), n \in Names :
                    U[k] = Reply(T[h], n) /\ Follows(T, h, Len(T)) /\ ~Replied(T, h) /\ n \in T[h].calls
           /\ Settled(U)
           /\ Settled(T) => U = T
           /\ \A k \in DOMAIN Completed(T).at : Completed(T).at[k] >= Len(T)
<1> DEFINE U == Completed(T).msgs
           S == AllPlaces(T)
<1>1. U \in Seq(Messages)
  BY CompletedIs
<1>2. PICK a, c : Arranges(T, S, U, a, c) /\ Ranked(S, U, a, c)
  BY CompletedIs
<1> HIDE DEF U
<1>3. ASSUME NEW x \in Stubs(T)
      PROVE  /\ x[1] = Len(T) /\ x[2] \in Nat /\ x[2] # 0 /\ x = <<x[1], x[2]>> /\ Len(T) \in 1..Len(T)
             /\ ~Settled(T)
  <2>1. x[1] \in 1..Len(T) /\ x[2] \in Missing(T, x[1]) /\ x[2] \in Names /\ x = <<x[1], x[2]>> /\ x[2] # 0
    BY StubsAre
  <2>2. x[1] = Len(T) /\ ~Settled(T)
    BY <2>1, OpenMissing
  <2>3. x[2] \in Nat
    BY <2>1 DEF Names
  <2> QED BY <2>1, <2>2, <2>3
<1>4. ASSUME NEW i \in 1..Len(T) PROVE Rank(S, <<i, 0>>) = i - 1
  <2>1. {y \in S : Before(y, <<i, 0>>)} = {y \in Kept(T) : Before(y, <<i, 0>>)}
    <3>1. ASSUME NEW y \in Stubs(T) PROVE ~Before(y, <<i, 0>>)
      <4>1. y[1] = Len(T) /\ y[2] \in Nat
        BY <1>3
      <4> QED BY <4>1 DEF Before
    <3> QED BY <3>1 DEF AllPlaces
  <2>2. Rank(S, <<i, 0>>) = Rank(Kept(T), <<i, 0>>)
    BY <2>1 DEF Rank
  <2>3. 0 \in Nat /\ Rank(Kept(T), <<i, 0>>) = IF 0 = 0 THEN i - 1 ELSE i
    BY KeptIs
  <2> QED BY <2>2, <2>3
<1>5. ASSUME NEW i \in 1..Len(T) PROVE i \in 1..Len(U) /\ a[i] = i /\ c[i] = 0 /\ U[i] = T[i]
  <2>1. Has(S, i, 0)
    BY HasPlaces
  <2>2. \A i1 \in 1..Len(T), n1 \in Nat : Has(S, i1, n1) => \E k \in 1..Len(U) : a[k] = i1 /\ c[k] = n1
    BY <1>2 DEF Arranges
  <2>3. PICK k \in 1..Len(U) : a[k] = i /\ c[k] = 0
    BY <2>1, <2>2
  <2>4. Rank(S, <<a[k], c[k]>>) = k - 1
    BY <1>2 DEF Ranked
  <2>5. k = i
    BY <1>4, <2>3, <2>4, <1>1
  <2>6. c[k] = 0 => U[k] = T[a[k]]
    BY <1>2, ArrangedOne
  <2> QED BY <2>3, <2>5, <2>6
<1>6. Len(T) <= Len(U)
  <2>1. CASE Len(T) = 0
    BY <1>1, <2>1
  <2>2. CASE Len(T) # 0
    <3>1. Len(T) \in 1..Len(T)
      BY <2>2
    <3> QED BY <1>1, <1>5, <3>1
  <2> QED BY <2>1, <2>2
<1>7. ASSUME NEW k \in 1..Len(U), ~(k \in 1..Len(T))
      PROVE  \E h \in 1..Len(T), n \in Names :
                    U[k] = Reply(T[h], n) /\ Follows(T, h, Len(T)) /\ ~Replied(T, h) /\ n \in T[h].calls
  <2>1. a[k] \in 1..Len(T) /\ c[k] \in Nat
    BY <1>2, ArrangedOne
  <2>2. c[k] # 0
    <3>1. ASSUME c[k] = 0 PROVE FALSE
      <4>1. Rank(S, <<a[k], c[k]>>) = k - 1
        BY <1>2 DEF Ranked
      <4>2. Rank(S, <<a[k], 0>>) = a[k] - 1
        BY <1>4, <2>1
      <4>3. k = a[k]
        BY <2>1, <3>1, <4>1, <4>2, <1>1
      <4> QED BY <1>7, <2>1, <4>3
    <3> QED BY <3>1
  <2> DEFINE h == RunHead(T, a[k])
  <2>3. h \in 1..Len(T) /\ Follows(T, h, a[k]) /\ U[k] = Reply(T[h], c[k]) /\ c[k] \in Missing(T, a[k]) /\ c[k] \in T[h].calls
    BY <1>2, <2>2, ArrangedStub
  <2>4. a[k] = Len(T)
    BY <2>1, <2>3, OpenMissing
  <2>5. c[k] \in Names
    BY <2>1, <2>3, MissingIs
  <2>6. ~Replied(T, h)
    BY <2>1, <2>3, RepliedIs DEF Follows
  <2> QED BY <2>3, <2>4, <2>5, <2>6
<1>8. \A k \in Len(T) + 1..Len(U) :
          \E h \in 1..Len(T), n \in Names :
             U[k] = Reply(T[h], n) /\ Follows(T, h, Len(T)) /\ ~Replied(T, h) /\ n \in T[h].calls
  BY <1>7, <1>1, SMTT(30)
<1>9. Settled(U)
  <2>1. /\ \A k \in 1..Len(U) : Stray(U, k) <=> c[k] = 0 /\ Stray(T, a[k])
        /\ \A j \in 1..Len(U) : U[j].role # "tool" => Replied(U, j)
    BY <1>2, CompletedRuns
  <2>2. \A i \in 1..Len(T) : ~Stray(T, i)
    BY AnsweredIs DEF Open
  <2>3. \A k \in 1..Len(U) : a[k] \in 1..Len(T)
    BY <1>2, ArrangedOne
  <2>4. Placed(U)
    BY <1>1, <2>1, <2>2, <2>3, AnsweredIs
  <2> QED BY <2>1, <2>4 DEF Settled
<1>10. ASSUME Settled(T) PROVE U = T
  <2>1. ASSUME NEW k \in 1..Len(U) PROVE k \in 1..Len(T)
    <3>1. ASSUME ~(k \in 1..Len(T)) PROVE FALSE
      <4>1. PICK h \in 1..Len(T) : Follows(T, h, Len(T)) /\ ~Replied(T, h)
        BY <1>7, <3>1
      <4> QED BY <1>10, <4>1 DEF Settled, Follows
    <3> QED BY <3>1
  <2>2. Len(U) = Len(T)
    <3>1. Len(U) <= Len(T)
      BY <1>1, <2>1
    <3> QED BY <1>1, <1>6, <3>1
  <2> QED BY <1>1, <1>5, <2>2, SeqEqual
<1>11. ASSUME NEW k \in DOMAIN Completed(T).at PROVE Completed(T).at[k] >= Len(T)
  <2>1. PICK x \in Stubs(T) : Completed(T).at[k] = Rank(S, x)
    BY CompletedAt
  <2>2. x = <<Len(T), x[2]>> /\ x[2] \in Nat /\ x[2] # 0 /\ Len(T) \in 1..Len(T)
    BY <1>3, <2>1
  <2>3. Rank(Kept(T), x) = Len(T)
    <3> DEFINE m == x[2]
    <3>1. m \in Nat /\ m # 0 /\ x = <<Len(T), m>>
      BY <2>2
    <3> HIDE DEF m
    <3>2. Rank(Kept(T), <<Len(T), m>>) = IF m = 0 THEN Len(T) - 1 ELSE Len(T)
      BY <2>2, <3>1, KeptIs
    <3> QED BY <3>1, <3>2
  <2>4. Rank(Kept(T), x) <= Rank(S, x)
    <3> DEFINE P == {y \in Kept(T) : Before(y, x)}
               Q == {y \in S : Before(y, x)}
    <3>1. P \in SUBSET Q
      BY DEF AllPlaces
    <3>2. IsFiniteSet(Q)
      BY AllPlacesAre, FS_Subset
    <3>3. Cardinality(P) <= Cardinality(Q)
      BY <3>1, <3>2, FS_Subset
    <3> QED BY <3>3 DEF Rank
  <2>5. Rank(S, x) \in 0..Cardinality(S) /\ Cardinality(S) \in Nat
    <3>1. x \in Places
      BY <2>1, StubsAre
    <3> QED BY <3>1, AllPlacesAre, RankIs
  <2> QED BY <2>1, <2>3, <2>4, <2>5
<1> QED BY <1>1, <1>5, <1>6, <1>8, <1>9, <1>10, <1>11 DEF U

GoodPlaces(T) == StayPlaces(T) \cup Stubs(T)

LEMMA HasGood ==
    ASSUME NEW T \in Seq(Messages), NEW i \in 1..Len(T), NEW n \in Nat
    PROVE  /\ Has(GoodPlaces(T), i, n) <=> (n = 0 /\ ~Stray(T, i)) \/ n \in Missing(T, i)
           /\ n \in Missing(T, i) => n # 0
<1>1. Has(StayPlaces(T), i, n) <=> n = 0 /\ ~Stray(T, i)
  BY HasPlaces
<1>2. <<i, n>> \in Stubs(T) <=> n \in Missing(T, i)
  BY StubsAre
<1>3. n \in Missing(T, i) => n # 0
  BY MissingIs DEF Names
<1> QED BY <1>1, <1>2, <1>3 DEF Has, GoodPlaces

\* Every place in order is the transcript itself.
LEMMA ArrangesKept ==
    ASSUME NEW T, NEW V, NEW a, NEW c, Arranges(T, Kept(T), V, a, c), Ranked(Kept(T), V, a, c)
    PROVE  V = T
<1>0. T \in Seq(Messages) /\ V \in Seq(Messages) /\ a \in [1..Len(V) -> Nat] /\ c \in [1..Len(V) -> Nat]
  BY DEF Arranges
<1>1. ASSUME NEW k \in 1..Len(V) PROVE a[k] = k /\ k \in 1..Len(T) /\ V[k] = T[k]
  <2>1. a[k] \in 1..Len(T) /\ c[k] \in Nat /\ Has(Kept(T), a[k], c[k]) /\ (c[k] = 0 => V[k] = T[a[k]])
    BY ArrangedOne
  <2>2. c[k] = 0
    BY <1>0, <2>1, HasPlaces
  <2> DEFINE i == a[k]
             n == c[k]
  <2>3. Rank(Kept(T), <<i, n>>) = k - 1
    BY DEF Ranked
  <2>4. i \in 1..Len(T) /\ n = 0 /\ n \in Nat
    BY <2>1, <2>2
  <2> HIDE DEF i, n
  <2>5. Rank(Kept(T), <<i, n>>) = i - 1
    BY <1>0, <2>4, KeptIs
  <2>6. i = k
    BY <2>3, <2>4, <2>5
  <2> QED BY <2>1, <2>2, <2>6 DEF i
<1>2. ASSUME NEW i \in 1..Len(T) PROVE i \in 1..Len(V)
  <2>1. Has(Kept(T), i, 0)
    BY <1>0, HasPlaces
  <2>2. \A i1 \in 1..Len(T), n1 \in Nat : Has(Kept(T), i1, n1) => \E k \in 1..Len(V) : a[k] = i1 /\ c[k] = n1
    BY DEF Arranges
  <2>3. PICK k \in 1..Len(V) : a[k] = i
    BY <2>1, <2>2
  <2> QED BY <1>1, <2>3
<1>3. Len(V) = Len(T)
  <2>1. Len(V) \in Nat /\ Len(T) \in Nat
    BY <1>0
  <2>2. Len(V) <= Len(T)
    <3>1. CASE Len(V) = 0
      BY <2>1, <3>1
    <3>2. CASE Len(V) # 0
      <4>1. Len(V) \in 1..Len(V)
        BY <2>1, <3>2
      <4> QED BY <1>1, <2>1, <4>1
    <3> QED BY <3>1, <3>2
  <2>3. Len(T) <= Len(V)
    <3>1. CASE Len(T) = 0
      BY <2>1, <3>1
    <3>2. CASE Len(T) # 0
      <4>1. Len(T) \in 1..Len(T)
        BY <2>1, <3>2
      <4> QED BY <1>2, <2>1, <4>1
    <3> QED BY <3>1, <3>2
  <2> QED BY <2>1, <2>2, <2>3
<1> QED BY <1>0, <1>1, <1>3, SeqEqual

\* The two repairs together.
LEMMA RepairComposes ==
    ASSUME NEW B \in Seq(Messages)
    PROVE  LET U == Completed(B).msgs
               V == Unstrayed(U).msgs
           IN  /\ V \in Seq(Messages) /\ Settled(V)
               /\ \E a, c, x, y :
                     /\ Arranges(B, AllPlaces(B), U, a, c) /\ Ranked(AllPlaces(B), U, a, c)
                     /\ Arranges(U, StayPlaces(U), V, x, y) /\ Ranked(StayPlaces(U), V, x, y)
                     /\ Arranges(B, GoodPlaces(B), V, [k \in 1..Len(V) |-> a[x[k]]], [k \in 1..Len(V) |-> c[x[k]]])
<1> DEFINE U == Completed(B).msgs
           V == Unstrayed(U).msgs
<1>1. U \in Seq(Messages)
  BY CompletedIs
<1>2. PICK a, c : Arranges(B, AllPlaces(B), U, a, c) /\ Ranked(AllPlaces(B), U, a, c)
  BY CompletedIs
<1> HIDE DEF U
<1>3. V \in Seq(Messages)
  BY <1>1, UnstrayedIs
<1>4. PICK x, y : Arranges(U, StayPlaces(U), V, x, y) /\ Ranked(StayPlaces(U), V, x, y)
  BY <1>1, UnstrayedIs
<1> HIDE DEF V
<1> DEFINE f == [k \in 1..Len(V) |-> a[x[k]]]
           n == [k \in 1..Len(V) |-> c[x[k]]]
<1>5. a \in [1..Len(U) -> Nat] /\ c \in [1..Len(U) -> Nat] /\ x \in [1..Len(V) -> Nat]
  BY <1>2, <1>4 DEF Arranges
<1>6. \A k \in 1..Len(V) : x[k] \in 1..Len(U) /\ V[k] = U[x[k]] /\ ~Stray(U, x[k])
  BY <1>4, UnstrayedRuns
<1>7. ASSUME NEW k \in 1..Len(V)
      PROVE  f[k] \in 1..Len(B) /\ n[k] \in Nat /\ Has(GoodPlaces(B), f[k], n[k]) /\ V[k] = AtPlace(B, f[k], n[k])
  <2>1. x[k] \in 1..Len(U) /\ V[k] = U[x[k]] /\ ~Stray(U, x[k])
    BY <1>6
  <2> DEFINE i == a[x[k]]
             m == c[x[k]]
  <2>2. i \in 1..Len(B) /\ m \in Nat /\ Has(AllPlaces(B), i, m) /\ U[x[k]] = AtPlace(B, i, m)
    BY <1>2, <2>1 DEF Arranges
  <2>3. \A k1 \in 1..Len(U) : Stray(U, k1) <=> c[k1] = 0 /\ Stray(B, a[k1])
    BY <1>2, CompletedRuns
  <2>4. m = 0 => ~Stray(B, i)
    BY <2>1, <2>3
  <2>5. f[k] = i /\ n[k] = m
    OBVIOUS
  <2> HIDE DEF i, m
  <2>6. m = 0 \/ m \in Missing(B, i)
    BY <2>2, HasPlaces
  <2>7. Has(GoodPlaces(B), i, m)
    BY <2>2, <2>4, <2>6, HasGood
  <2> QED BY <2>1, <2>2, <2>5, <2>7
<1>8. ASSUME NEW i \in 1..Len(B), NEW m \in Nat, Has(GoodPlaces(B), i, m)
      PROVE  \E k \in 1..Len(V) : f[k] = i /\ n[k] = m
  <2>1. Has(AllPlaces(B), i, m)
    BY <1>8, HasGood, HasPlaces
  <2>2. \A i1 \in 1..Len(B), n1 \in Nat : Has(AllPlaces(B), i1, n1) => \E k \in 1..Len(U) : a[k] = i1 /\ c[k] = n1
    BY <1>2 DEF Arranges
  <2>3. PICK j \in 1..Len(U) : a[j] = i /\ c[j] = m
    BY <2>1, <2>2
  <2>4. Stray(U, j) <=> c[j] = 0 /\ Stray(B, a[j])
    BY <1>2, CompletedRuns
  <2>5. ~Stray(U, j)
    BY <1>8, <2>3, <2>4, HasGood
  <2>6. \A i1 \in 1..Len(U) : ~Stray(U, i1) => \E k \in 1..Len(V) : x[k] = i1
    BY <1>4, UnstrayedRuns
  <2>7. PICK k \in 1..Len(V) : x[k] = j
    BY <2>5, <2>6
  <2> QED BY <2>3, <2>7
<1>9. ASSUME NEW j \in 1..Len(V), NEW k \in 1..Len(V)
      PROVE  j < k <=> f[j] < f[k] \/ (f[j] = f[k] /\ n[j] < n[k])
  <2>1. j < k <=> x[j] < x[k]
    BY <1>4, UnstrayedRuns
  <2>2. \A p, q \in 1..Len(U) : p < q <=> a[p] < a[q] \/ (a[p] = a[q] /\ c[p] < c[q])
    BY <1>2 DEF Arranges
  <2> QED BY <1>6, <2>1, <2>2, SMTT(60)
<1>10. f \in [1..Len(V) -> Nat] /\ n \in [1..Len(V) -> Nat]
  BY <1>5, <1>6
<1> HIDE DEF f, n
<1>11. Arranges(B, GoodPlaces(B), V, f, n)
  <2>1. GoodPlaces(B) \subseteq Kept(B) \cup Stubs(B)
    BY DEF GoodPlaces, StayPlaces
  <2> QED BY <1>3, <1>7, <1>8, <1>9, <1>10, <2>1 DEF Arranges
<1>12. Settled(V)
  <2>1. Placed(V) /\ \A k \in 1..Len(V) : V[k].role # "tool" /\ Replied(U, x[k]) => Replied(V, k)
    BY <1>4, UnstrayedRuns
  <2>2. \A j \in 1..Len(U) : U[j].role # "tool" => Replied(U, j)
    BY <1>2, CompletedRuns
  <2> QED BY <1>6, <2>1, <2>2 DEF Settled
<1>13. Arranges(B, GoodPlaces(B), V, [k \in 1..Len(V) |-> a[x[k]]], [k \in 1..Len(V) |-> c[x[k]]])
  BY <1>11 DEF f, n
<1> HIDE DEF U, V
<1>14. \E a1, c1, x1, y1 :
          /\ Arranges(B, AllPlaces(B), U, a1, c1) /\ Ranked(AllPlaces(B), U, a1, c1)
          /\ Arranges(U, StayPlaces(U), V, x1, y1) /\ Ranked(StayPlaces(U), V, x1, y1)
          /\ Arranges(B, GoodPlaces(B), V, [k \in 1..Len(V) |-> a1[x1[k]]], [k \in 1..Len(V) |-> c1[x1[k]]])
  BY <1>2, <1>4, <1>13, Zenon
<1> QED BY <1>3, <1>12, <1>14, Zenon DEF U, V

LEMMA RepairArranges ==
    ASSUME NEW B \in Seq(Messages)
    PROVE  LET V == Unstrayed(Completed(B).msgs).msgs
           IN  /\ V \in Seq(Messages) /\ Settled(V)
               /\ \E f, n : Arranges(B, GoodPlaces(B), V, f, n)
<1> DEFINE U == Completed(B).msgs
           V == Unstrayed(U).msgs
<1>1. /\ V \in Seq(Messages) /\ Settled(V)
      /\ \E a, c, x, y :
            /\ Arranges(B, AllPlaces(B), U, a, c) /\ Ranked(AllPlaces(B), U, a, c)
            /\ Arranges(U, StayPlaces(U), V, x, y) /\ Ranked(StayPlaces(U), V, x, y)
            /\ Arranges(B, GoodPlaces(B), V, [k \in 1..Len(V) |-> a[x[k]]], [k \in 1..Len(V) |-> c[x[k]]])
  BY RepairComposes, Zenon
<1> HIDE DEF U, V
<1>2. \E f, n : Arranges(B, GoodPlaces(B), V, f, n)
  BY <1>1, Zenon
<1> QED BY <1>1, <1>2 DEF U, V

\* A transcript begins with the prompt and a user's message.
Opens(T) == T # <<>> /\ T[1] = System /\ (Len(T) >= 2 => T[2].role = "user")

\* A digest is in the opening run or ends it.
Digests(T) ==
    \A i \in 1..Len(T) : T[i].role = "digest" => T[i].turn = 0 /\ \A j \in 2..i - 1 : Pinned(T, j)

LEMMA PinnedIs ==
    ASSUME NEW T, NEW i
    PROVE  /\ Pinned(T, i) => T[i].role \in {"user", "refusal", "digest"}
           /\ T[i].role \in {"user", "refusal"} => Pinned(T, i)
           /\ Pinned(T, i) /\ T[i].role \notin {"user", "refusal"} => i < Len(T) /\ T[i + 1].role \in {"user", "refusal"}
<1>1. \A m : Plain(m) <=> m.role \in {"user", "refusal"}
  BY DEF Plain, IsUser, UserRoles
<1>2. Pinned(T, i) => Plain(T[i]) \/ (T[i].role = "digest" /\ i < Len(T) /\ Plain(T[i + 1]))
  BY DEF Pinned
<1>3. Plain(T[i]) => Pinned(T, i)
  BY DEF Pinned
<1> QED BY <1>1, <1>2, <1>3

\* A message that goes to another place with the one after it stays pinned.
LEMMA PinnedStays ==
    ASSUME NEW B, NEW i, NEW V, NEW k, Pinned(B, i), V[k].role = B[i].role, V[k].cut = B[i].cut,
           B[i].role = "digest" /\ i < Len(B) /\ B[i + 1].role \in {"user", "refusal"} =>
               k < Len(V) /\ V[k + 1].role = B[i + 1].role
    PROVE  Pinned(V, k)
BY DEF Pinned, Plain, IsUser, UserRoles

\* The whole messages that are in their place.
LiveIds(T) == {T[i].id : i \in {j \in 1..Len(T) : ~T[j].cut /\ ~Stray(T, j)}}

LEMMA SystemIs ==
    System \in Messages /\ System.role = "system" /\ System.calls = {} /\ System.cut = FALSE
BY DEF System, Message, Messages, Roles

\* A repair moves no message but the replies.
LEMMA RepairShape ==
    ASSUME NEW B, NEW V, NEW f, NEW n, Arranges(B, GoodPlaces(B), V, f, n), Settled(V), B # <<>>,
           B[1].role # "tool"
    PROVE  /\ Len(V) >= 1 /\ V[1] = B[1] /\ f[1] = 1 /\ n[1] = 0
           /\ LiveIds(B) \subseteq LiveIds(V)
           /\ \A k \in 1..Len(V) : V[k].role # "tool" => \E i \in 1..Len(B) : V[k] = B[i]
           /\ Opens(B) => Opens(V)
           /\ Opens(B) /\ Digests(B) => Digests(V)
<1>0. B \in Seq(Messages) /\ V \in Seq(Messages) /\ f \in [1..Len(V) -> Nat] /\ n \in [1..Len(V) -> Nat]
  BY DEF Arranges
<1>1. \A j, k \in 1..Len(V) : j < k <=> f[j] < f[k] \/ (f[j] = f[k] /\ n[j] < n[k])
  BY DEF Arranges
<1>2. ASSUME NEW k \in 1..Len(V)
      PROVE  /\ f[k] \in 1..Len(B) /\ n[k] \in Nat
             /\ n[k] = 0 => V[k] = B[f[k]] /\ ~Stray(B, f[k])
             /\ n[k] # 0 => V[k].role = "tool" /\ n[k] \in Missing(B, f[k])
  <2>1. f[k] \in 1..Len(B) /\ n[k] \in Nat /\ Has(GoodPlaces(B), f[k], n[k]) /\ (n[k] = 0 => V[k] = B[f[k]]) /\ (n[k] # 0 => V[k].role = "tool")
    BY ArrangedOne
  <2>2. Has(GoodPlaces(B), f[k], n[k]) <=> (n[k] = 0 /\ ~Stray(B, f[k])) \/ n[k] \in Missing(B, f[k])
    BY <1>0, <2>1, HasGood
  <2>3. n[k] \in Missing(B, f[k]) => n[k] # 0
    BY <1>0, <2>1, HasGood
  <2> QED BY <2>1, <2>2, <2>3
<1>3. ASSUME NEW i \in 1..Len(B), ~Stray(B, i) PROVE \E k \in 1..Len(V) : f[k] = i /\ n[k] = 0 /\ V[k] = B[i]
  <2>1. Has(GoodPlaces(B), i, 0) /\ 0 \in Nat
    BY <1>0, <1>3, HasGood
  <2>2. \A i1 \in 1..Len(B), n1 \in Nat : Has(GoodPlaces(B), i1, n1) => \E k \in 1..Len(V) : f[k] = i1 /\ n[k] = n1
    BY DEF Arranges
  <2>3. PICK k \in 1..Len(V) : f[k] = i /\ n[k] = 0
    BY <2>1, <2>2
  <2> QED BY <1>2, <2>3
<1>4. Len(V) >= 1 /\ V[1] = B[1] /\ f[1] = 1 /\ n[1] = 0
  <2>1. 1 \in 1..Len(B)
    BY <1>0, EmptySeq
  <2>2. ~Stray(B, 1)
    BY DEF Stray
  <2>3. PICK k \in 1..Len(V) : f[k] = 1 /\ n[k] = 0 /\ V[k] = B[1]
    BY <1>3, <2>1, <2>2
  <2>4. 1 \in 1..Len(V)
    BY <1>0
  <2>5. ~(1 < k)
    <3>1. f[1] >= 1 /\ n[1] >= 0 /\ f[1] \in Nat /\ n[1] \in Nat
      BY <1>2, <2>4
    <3>2. 1 < k <=> f[1] < f[k] \/ (f[1] = f[k] /\ n[1] < n[k])
      BY <1>1, <2>4
    <3> QED BY <2>3, <3>1, <3>2
  <2>6. k = 1
    BY <1>0, <2>5
  <2> QED BY <1>0, <2>3, <2>6
<1>5. LiveIds(B) \subseteq LiveIds(V)
  <2> SUFFICES ASSUME NEW i \in 1..Len(B), ~B[i].cut, ~Stray(B, i) PROVE B[i].id \in LiveIds(V)
    BY DEF LiveIds
  <2>1. PICK k \in 1..Len(V) : V[k] = B[i]
    BY <1>3
  <2>2. ~Stray(V, k)
    BY <1>0, AnsweredIs DEF Settled
  <2> QED BY <2>1, <2>2 DEF LiveIds
<1>6. \A k \in 1..Len(V) : V[k].role # "tool" => \E i \in 1..Len(B) : V[k] = B[i]
  BY <1>2
<1>7. ASSUME Opens(B), NEW k \in 2..Len(V), f[k] = 1 PROVE FALSE
  <2>1. k \in 1..Len(V) /\ 1 \in 1..Len(V)
    BY <1>0
  <2>2. n[k] # 0
    <3>1. 1 < k <=> f[1] < f[k] \/ (f[1] = f[k] /\ n[1] < n[k])
      BY <1>1, <2>1
    <3>2. n[1] < n[k]
      BY <1>4, <1>7, <3>1
    <3> QED BY <1>2, <1>4, <2>1, <3>2
  <2>3. n[k] \in Missing(B, 1) /\ 1 \in 1..Len(B)
    BY <1>2, <1>7, <2>1, <2>2
  <2>4. RunHead(B, 1) \in 0..1
    BY <1>0, <2>3, RunHeadIs
  <2>5. RunHead(B, 1) > 0 /\ n[k] \in B[RunHead(B, 1)].calls
    BY <1>0, <2>3, MissingIs
  <2>6. RunHead(B, 1) = 1
    BY <2>4, <2>5
  <2> QED BY <2>5, <2>6, <1>7, SystemIs DEF Opens
<1>8. ASSUME Opens(B) PROVE Opens(V)
  <2>1. V # <<>> /\ V[1] = System
    BY <1>0, <1>4, <1>8, EmptySeq DEF Opens
  <2>2. ASSUME Len(V) >= 2 PROVE V[2].role = "user"
    <3>1. 2 \in 1..Len(V) /\ 2 \in 2..Len(V)
      BY <1>0, <2>2
    <3>2. f[2] \in 2..Len(B)
      BY <1>2, <1>7, <1>8, <3>1
    <3>3. 2 \in 1..Len(B) /\ B[2].role = "user"
      BY <1>0, <1>8, <3>2 DEF Opens
    <3>4. PICK k \in 1..Len(V) : f[k] = 2 /\ n[k] = 0 /\ V[k] = B[2]
      BY <1>3, <3>3 DEF Stray
    <3>5. k # 1
      BY <1>4, <3>4
    <3>6. ~(2 < k)
      <4>1. 2 < k <=> f[2] < f[k] \/ (f[2] = f[k] /\ n[2] < n[k])
        BY <1>1, <3>1
      <4>2. n[2] \in Nat /\ f[2] \in Nat
        BY <1>2, <3>1
      <4> QED BY <3>2, <3>4, <4>1, <4>2
    <3>7. k = 2
      BY <3>5, <3>6
    <3> QED BY <3>3, <3>4, <3>7
  <2> QED BY <2>1, <2>2 DEF Opens
<1>9. ASSUME Opens(B), Digests(B) PROVE Digests(V)
  <2> SUFFICES ASSUME NEW i \in 1..Len(V), V[i].role = "digest"
               PROVE  V[i].turn = 0 /\ \A j \in 2..i - 1 : Pinned(V, j)
    BY DEF Digests
  <2>1. n[i] = 0 /\ f[i] \in 1..Len(B) /\ V[i] = B[f[i]]
    BY <1>2
  <2>2. V[i].turn = 0 /\ \A j \in 2..f[i] - 1 : Pinned(B, j)
    BY <1>9, <2>1 DEF Digests
  <2>4. ASSUME NEW b \in 2..f[i] - 1 PROVE B[b].role \in {"user", "refusal", "digest"} /\ B[b].calls = {} /\ Missing(B, b) = {}
    <3>1. B[b].role \in {"user", "refusal", "digest"} /\ b \in 1..Len(B) /\ B[b] \in Messages
      BY <1>0, <2>1, <2>2, PinnedIs
    <3>2. B[b].calls = {}
      BY <3>1, MessageIs
    <3>3. RunHead(B, b) = b
      <4> DEFINE r == RunHead(B, b)
      <4>1. r \in 0..b /\ (r = 0 => \A j \in 1..b : B[j].role = "tool") /\ (r > 0 => Follows(B, r, b)) /\ b \in 0..Len(B)
        BY <1>0, <3>1, RunHeadIs
      <4> HIDE DEF r
      <4>2. r # 0 /\ b \in 1..b
        BY <3>1, <4>1
      <4>3. b \notin r + 1..b
        BY <3>1, <4>1, <4>2 DEF Follows
      <4>4. r = b
        BY <4>1, <4>2, <4>3
      <4> QED BY <4>4 DEF r
    <3>4. Missing(B, b) = {}
      <4>1. ASSUME NEW c \in Missing(B, b) PROVE FALSE
        BY <1>0, <3>1, <3>2, <3>3, <4>1, MissingIs
      <4> QED BY <4>1
    <3> QED BY <3>1, <3>2, <3>4
  <2>3. ASSUME NEW j \in 2..i - 1 PROVE Pinned(V, j)
    <3>1. j \in 2..Len(V) /\ j \in 1..Len(V) /\ j < i
      BY <1>0
    <3>2. f[j] \in 2..Len(B) /\ n[j] \in Nat
      BY <1>2, <1>7, <1>9, <3>1
    <3>3. f[j] < f[i]
      <4>1. j < i <=> f[j] < f[i] \/ (f[j] = f[i] /\ n[j] < n[i])
        BY <1>1, <3>1
      <4> QED BY <2>1, <3>1, <3>2, <4>1
    <3>4. n[j] = 0
      <4>1. ASSUME n[j] # 0 PROVE FALSE
        <5>1. n[j] \in Missing(B, f[j]) /\ f[j] \in 1..Len(B)
          BY <1>2, <3>1, <3>2, <4>1
        <5> DEFINE h == RunHead(B, f[j])
        <5>2. h \in 0..f[j] /\ h > 0 /\ n[j] \in B[h].calls
          BY <1>0, <5>1, RunHeadIs, MissingIs
        <5> HIDE DEF h
        <5>3. h \in 1..Len(B) /\ h < f[i]
          BY <1>0, <2>1, <3>2, <3>3, <5>2
        <5>5. B[h].calls = {}
          <6>1. CASE h = 1
            BY <1>9, <6>1, SystemIs DEF Opens
          <6>2. CASE h # 1
            <7>1. h \in 2..f[i] - 1
              BY <2>1, <5>3, <6>2
            <7> QED BY <2>4, <7>1
          <6> QED BY <6>1, <6>2
        <5> QED BY <5>2, <5>5
      <4> QED BY <4>1
    <3>5. V[j] = B[f[j]] /\ f[j] \in 2..f[i] - 1
      BY <1>2, <2>1, <3>1, <3>2, <3>3, <3>4, SMTT(30)
    <3> DEFINE b == f[j]
    <3>6. ASSUME B[b].role = "digest", b < Len(B), B[b + 1].role \in {"user", "refusal"}
          PROVE  j < Len(V) /\ V[j + 1].role = B[b + 1].role
      <4>1. b + 1 \in 1..Len(B) /\ ~Stray(B, b + 1)
        <5>1. b \in Nat /\ Len(B) \in Nat
          <6>1. f[j] \in 1..Len(B) /\ Len(B) \in Nat
            BY <1>0, <1>2, <3>1
          <6> QED BY <6>1
        <5>2. b + 1 \in 1..Len(B)
          BY <3>6, <5>1
        <5>3. ~Stray(B, b + 1)
          BY <3>6 DEF Stray
        <5> QED BY <5>2, <5>3
      <4>2. PICK k \in 1..Len(V) : f[k] = b + 1 /\ n[k] = 0 /\ V[k] = B[b + 1]
        BY <1>3, <4>1
      <4>3. j < k
        <5>1. j < k <=> f[j] < f[k] \/ (f[j] = f[k] /\ n[j] < n[k])
          BY <1>1, <3>1
        <5> QED BY <3>2, <4>2, <5>1
      <4>4. k = j + 1
        <5>1. ASSUME k # j + 1 PROVE FALSE
          <6> DEFINE m == j + 1
          <6>1. m \in 1..Len(V) /\ j < m /\ m < k
            <7>1. j \in Nat /\ k \in Nat /\ k <= Len(V) /\ Len(V) \in Nat
              BY <1>0, <3>1
            <7> QED BY <4>3, <5>1, <7>1
          <6> HIDE DEF m
          <6>2. f[m] \in 1..Len(B) /\ n[m] \in Nat /\ (n[m] # 0 => n[m] \in Missing(B, f[m]))
            BY <1>2, <6>1
          <6>3. j < m <=> f[j] < f[m] \/ (f[j] = f[m] /\ n[j] < n[m])
            BY <1>1, <3>1, <6>1
          <6>4. m < k <=> f[m] < f[k] \/ (f[m] = f[k] /\ n[m] < n[k])
            BY <1>1, <4>2, <6>1
          <6>5. f[m] = b /\ n[m] # 0
            BY <3>2, <3>4, <4>2, <6>1, <6>2, <6>3, <6>4
          <6> QED BY <2>4, <3>5, <6>2, <6>5
        <5> QED BY <5>1
      <4> QED BY <1>0, <4>2, <4>4
    <3> HIDE DEF b
    <3>7. Pinned(B, b) /\ V[j] = B[b]
      BY <2>2, <3>5 DEF b
    <3> QED BY <3>6, <3>7, PinnedStays
  <2> QED BY <2>2, <2>3
<1> QED BY <1>4, <1>5, <1>6, <1>8, <1>9

\* A repair that edits nothing leaves the transcript as it is.
LEMMA NothingToStub ==
    ASSUME NEW T \in Seq(Messages), Stubs(T) = {}
    PROVE  Completed(T).msgs = T
<1>1. AllPlaces(T) = Kept(T)
  BY DEF AllPlaces
<1> QED BY <1>1, CompletedIs, ArrangesKept

LEMMA NothingStrays ==
    ASSUME NEW T \in Seq(Messages), \A i \in 1..Len(T) : ~Stray(T, i)
    PROVE  Unstrayed(T).msgs = T
<1>1. StayPlaces(T) = Kept(T)
  <2>1. ASSUME NEW x \in Kept(T) PROVE ~Stray(T, x[1])
    <3>1. PICK i \in 1..Len(T) : x = <<i, 0>>
      BY DEF Kept
    <3> QED BY <3>1
  <2> QED BY <2>1 DEF StayPlaces
<1> QED BY <1>1, UnstrayedIs, ArrangesKept

LEMMA UnstrayedAt ==
    ASSUME NEW T \in Seq(Messages)
    PROVE  /\ Unstrayed(T).at \in Seq(Nat)
           /\ Unstrayed(T).at = <<>> => \A i \in 1..Len(T) : ~Stray(T, i)
           /\ Len(Unstrayed(T).at) = Cardinality(Kept(T) \ StayPlaces(T))
           /\ \A k \in DOMAIN Unstrayed(T).at :
                 \E x \in Kept(T) \ StayPlaces(T) :
                    Unstrayed(T).at[k] = Rank(StayPlaces(T), x) /\ Rank(Kept(T) \ StayPlaces(T), x) = k - 1
<1> DEFINE S == Kept(T) \ StayPlaces(T)
           n == Cardinality(S)
           A == StayPlaces(T)
           at == [k \in DOMAIN InOrder(S) |-> Rank(A, InOrder(S)[k])]
<1>1. Unstrayed(T).at = at
  BY DEF Unstrayed, StayPlaces
<1>0. Kept(T) \in SUBSET Places /\ IsFiniteSet(Kept(T))
  BY KeptIs
<1>3. A \in SUBSET Places /\ IsFiniteSet(A)
  <2>1. A \in SUBSET Kept(T)
    BY DEF StayPlaces
  <2> QED BY <1>0, <2>1, FS_Subset
<1>2. S \in SUBSET Places /\ IsFiniteSet(S) /\ n \in Nat /\ DOMAIN InOrder(S) = 1..n
  <2>1. S \in SUBSET Places /\ IsFiniteSet(S)
    BY <1>0, FS_Difference
  <2> HIDE DEF S
  <2> QED BY <2>1, InOrderIs, RankIs
<1>12. S = {} => \A i \in 1..Len(T) : ~Stray(T, i)
  <2>1. ASSUME S = {}, NEW i \in 1..Len(T) PROVE ~Stray(T, i)
    <3>1. <<i, 0>> \in Kept(T)
      BY DEF Kept
    <3>2. <<i, 0>> \in StayPlaces(T)
      BY <2>1, <3>1
    <3> QED BY <3>2 DEF StayPlaces
  <2> QED BY <2>1
<1> HIDE DEF S, A
<1>4. ASSUME NEW k \in 1..n PROVE InOrder(S)[k] \in S /\ Rank(S, InOrder(S)[k]) = k - 1 /\ Rank(A, InOrder(S)[k]) \in Nat
  <2>1. InOrder(S)[k] \in S /\ Rank(S, InOrder(S)[k]) = k - 1
    BY <1>2, InOrderIs
  <2>2. InOrder(S)[k] \in Places
    BY <1>2, <2>1
  <2>3. Rank(A, InOrder(S)[k]) \in 0..Cardinality(A) /\ Cardinality(A) \in Nat
    BY <1>3, <2>2, RankIs
  <2> QED BY <2>1, <2>3
<1>5. at = [k \in 1..n |-> Rank(A, InOrder(S)[k])]
  BY <1>2, Zenon
<1> HIDE DEF at
<1>6. at \in Seq(Nat) /\ Len(at) = n /\ DOMAIN at = 1..n
  <2>1. at \in [1..n -> Nat]
    BY <1>4, <1>5
  <2> HIDE DEF n
  <2> QED BY <1>2, <2>1
<1>7. n = 0 <=> S = {}
  BY <1>2, FS_EmptySet
<1>8. at = <<>> => S = {}
  BY <1>6, <1>7, EmptySeq
<1>9. ASSUME NEW k \in 1..n PROVE \E x \in S : at[k] = Rank(A, x) /\ Rank(S, x) = k - 1
  <2>1. at[k] = Rank(A, InOrder(S)[k])
    BY <1>5
  <2> QED BY <1>4, <2>1
<1> HIDE DEF n
<1>10. \A k \in DOMAIN at : \E x \in S : at[k] = Rank(A, x) /\ Rank(S, x) = k - 1
  BY <1>6, <1>9
<1>11. at = <<>> => \A i \in 1..Len(T) : ~Stray(T, i)
  BY <1>8, <1>12
<1> QED BY <1>1, <1>6, <1>10, <1>11, Zenon DEF n, S, A

Edits == [op : {"insert", "remove"}, at : Nat]

LEMMA SystemAhead ==
    ASSUME NEW T \in Seq(Messages), T # <<>>, T[1].role = "user", Digests(T)
    PROVE  LET B == <<System>> \o T
           IN  /\ B \in Seq(Messages) /\ Len(B) = Len(T) + 1 /\ B[1] = System
               /\ \A i \in 1..Len(T) : B[i + 1] = T[i]
               /\ Opens(B) /\ Digests(B) /\ LiveIds(T) \subseteq LiveIds(B)
               /\ Like(T, B, 1, Len(T), 1)
<1> DEFINE B == <<System>> \o T
<1>0. <<System>> \in Seq(Messages) /\ Len(<<System>>) = 1 /\ <<System>>[1] = System
  BY SystemIs
<1>1. B \in Seq(Messages) /\ Len(B) = Len(T) + 1 /\ B[1] = System
  BY <1>0
<1>2. \A i \in 1..Len(T) : B[i + 1] = T[i]
  BY <1>0
<1> HIDE DEF B
<1>3. Len(T) >= 1
  BY EmptySeq
<1>4. Opens(B)
  <2>1. B[1 + 1] = T[1]
    BY <1>2, <1>3
  <2> QED BY <1>1, <1>3, <2>1, EmptySeq DEF Opens
<1>5. Like(T, B, 1, Len(T), 1)
  BY <1>1, <1>2, <1>3 DEF Like
<1>6. ASSUME NEW i \in 1..Len(B), B[i].role = "digest"
      PROVE  B[i].turn = 0 /\ \A j \in 2..i - 1 : Pinned(B, j)
  <2>1. i # 1
    BY <1>1, <1>6, SystemIs
  <2>2. i - 1 \in 1..Len(T) /\ (i - 1) + 1 = i
    BY <1>1, <2>1
  <2>3. B[i] = T[i - 1]
    BY <1>2, <2>2
  <2>4. B[i].turn = 0 /\ \A j \in 2..(i - 1) - 1 : Pinned(T, j)
    BY <1>6, <2>2, <2>3 DEF Digests
  <2>5. ASSUME NEW j \in 2..i - 1 PROVE Pinned(B, j)
    <3>1. j - 1 \in 1..Len(T) /\ (j - 1) + 1 = j
      BY <1>1, <2>2
    <3>2. B[j] = T[j - 1]
      BY <1>2, <3>1
    <3>3. j - 1 = 1 \/ j - 1 \in 2..(i - 1) - 1
      BY <2>2
    <3> DEFINE k == j - 1
    <3>4. k + 1 = j /\ B[j] = T[k] /\ (k < Len(T) => j < Len(B) /\ B[j + 1] = T[k + 1])
      <4>1. k + 1 = j /\ B[j] = T[k]
        BY <2>2, <3>1, <3>2
      <4>2. ASSUME k < Len(T) PROVE j < Len(B) /\ j \in 1..Len(T)
        BY <1>1, <3>1, <4>2
      <4> QED BY <1>2, <4>1, <4>2
    <3>5. Pinned(T, k)
      BY <2>4, <3>3, PinnedIs
    <3> HIDE DEF k
    <3> QED BY <3>4, <3>5, PinnedStays
  <2> QED BY <2>4, <2>5
<1>7. LiveIds(T) \subseteq LiveIds(B)
  <2> SUFFICES ASSUME NEW i \in 1..Len(T), ~T[i].cut, ~Stray(T, i) PROVE T[i].id \in LiveIds(B)
    BY DEF LiveIds
  <2>1. i + 1 \in 1..Len(B) /\ B[i + 1] = T[i]
    BY <1>1, <1>2
  <2>2. ~Stray(B, i + 1)
    BY <1>5, LikeRuns
  <2> QED BY <2>1, <2>2 DEF LiveIds
<1> QED BY <1>1, <1>2, <1>4, <1>5, <1>6, <1>7 DEF B, Digests

LEMMA EditsTyped ==
    ASSUME NEW at \in Seq(Nat), NEW op \in {"insert", "remove"}
    PROVE  LET e == [k \in 1..Len(at) |-> [op |-> op, at |-> at[k]]]
           IN  e \in Seq(Edits) /\ Len(e) = Len(at)
<1> DEFINE e == [k \in 1..Len(at) |-> [op |-> op, at |-> at[k]]]
<1>1. e \in [1..Len(at) -> Edits] /\ Len(at) \in Nat
  BY DEF Edits
<1> HIDE DEF e
<1>2. e \in Seq(Edits) /\ Len(e) = Len(at)
  BY <1>1
<1> QED BY <1>2 DEF e

\* What hydration makes of a file: a history a provider accepts, without a loss.
LEMMA RepairedIs ==
    ASSUME NEW T \in Seq(Messages), T # <<>>, Opens(T) \/ T[1].role = "user", Digests(T)
    PROVE  LET r == Repaired(T)
           IN  /\ r.msgs \in Seq(Messages) /\ Settled(r.msgs) /\ Opens(r.msgs) /\ Digests(r.msgs)
               /\ LiveIds(T) \subseteq LiveIds(r.msgs)
               /\ \A i \in 1..Len(r.msgs) : r.msgs[i].role = "refusal" => r.msgs[i].id \in Ids(T)
               /\ r.edits \in Seq(Edits)
               /\ r.edits = <<>> => r.msgs = T
<1> DEFINE bare == Head(T).role # "system"
           B == IF bare THEN <<System>> \o T ELSE T
           U == Completed(B).msgs
           V == Unstrayed(U).msgs
           at1 == Completed(B).at
           at2 == Unstrayed(U).at
           e0 == IF bare THEN [k \in 1..Len(<<0>>) |-> [op |-> "insert", at |-> <<0>>[k]]] ELSE <<>>
           e1 == [k \in 1..Len(at1) |-> [op |-> "insert", at |-> at1[k]]]
           e2 == [k \in 1..Len(at2) |-> [op |-> "remove", at |-> at2[k]]]
<1>1. Repaired(T) = [msgs |-> V, edits |-> (e0 \o e1) \o e2]
  BY Zenon DEF Repaired
<1>16. Head(T) = T[1]
  OBVIOUS
<1>2. /\ B \in Seq(Messages) /\ B # <<>> /\ Opens(B) /\ Digests(B) /\ LiveIds(T) \subseteq LiveIds(B)
      /\ \A i \in 1..Len(B) : B[i].role = "refusal" => B[i].id \in Ids(T)
  <2>1. CASE bare
    <3>1. T[1].role = "user"
      BY <1>16, <2>1, SystemIs DEF Opens
    <3>2. B = <<System>> \o T
      BY <2>1
    <3> HIDE DEF B
    <3>3. /\ B \in Seq(Messages) /\ Len(B) = Len(T) + 1 /\ B[1] = System
          /\ \A i \in 1..Len(T) : B[i + 1] = T[i]
          /\ Opens(B) /\ Digests(B) /\ LiveIds(T) \subseteq LiveIds(B)
      BY <3>1, <3>2, SystemAhead
    <3>4. ASSUME NEW i \in 1..Len(B), B[i].role = "refusal" PROVE B[i].id \in Ids(T)
      <4>1. i # 1
        BY <3>3, <3>4, SystemIs
      <4>2. i - 1 \in 1..Len(T) /\ (i - 1) + 1 = i
        BY <3>3, <4>1
      <4>3. B[i] = T[i - 1] /\ DOMAIN T = 1..Len(T)
        BY <3>3, <4>2
      <4> QED BY <4>2, <4>3 DEF Ids
    <3> QED BY <3>3, <3>4 DEF Opens
  <2>2. CASE ~bare
    <3>1. B = T /\ DOMAIN T = 1..Len(T)
      BY <2>2
    <3> HIDE DEF B
    <3>2. Opens(T)
      BY <1>16, <2>2
    <3> QED BY <3>1, <3>2 DEF Ids
  <2> QED BY <2>1, <2>2
<1>3. e0 \in Seq(Edits) /\ (e0 = <<>> => ~bare)
  <2>1. CASE bare
    <3>1. <<0>> \in Seq(Nat) /\ Len(<<0>>) = 1
      OBVIOUS
    <3> DEFINE s == <<0>>
               e == [k \in 1..Len(s) |-> [op |-> "insert", at |-> s[k]]]
    <3>2. e0 = e
      BY <2>1
    <3> HIDE DEF e0
    <3>3. e \in Seq(Edits) /\ Len(e) = Len(s)
      <4> HIDE DEF s
      <4>1. s \in Seq(Nat)
        BY <3>1 DEF s
      <4> QED BY <4>1, EditsTyped
    <3>4. Len(e) = 1
      BY <3>1, <3>3
    <3> HIDE DEF e
    <3>5. e # <<>>
      <4> SUFFICES ASSUME e = <<>> PROVE FALSE
        OBVIOUS
      <4>1. Len(e) = 0
        BY Zenon, EmptySeq, <3>3
      <4> QED BY <3>4, <4>1
    <3> QED BY <2>1, <3>2, <3>3, <3>5
  <2>2. CASE ~bare
    BY <2>2
  <2> QED BY <2>1, <2>2
<1> HIDE DEF e0
<1>4. U \in Seq(Messages)
  BY <1>2, CompletedIs
<1>5. at1 \in Seq(Nat) /\ (at1 = <<>> <=> Stubs(B) = {})
  BY <1>2, CompletedAt
<1>6. V \in Seq(Messages) /\ Settled(V) /\ \E f, n : Arranges(B, GoodPlaces(B), V, f, n)
  BY <1>2, RepairArranges
<1> HIDE DEF B
<1>7. at2 \in Seq(Nat) /\ (at2 = <<>> => \A i \in 1..Len(U) : ~Stray(U, i))
  <2> HIDE DEF U
  <2> QED BY <1>4, UnstrayedAt
<1>8. e1 \in Seq(Edits) /\ Len(e1) = Len(at1)
  <2> HIDE DEF at1
  <2> QED BY <1>5, EditsTyped
<1>9. e2 \in Seq(Edits) /\ Len(e2) = Len(at2)
  <2> HIDE DEF at2
  <2> QED BY <1>7, EditsTyped
<1> HIDE DEF e1, e2
<1>10. /\ (e0 \o e1) \o e2 \in Seq(Edits)
       /\ (e0 \o e1) \o e2 = <<>> => e0 = <<>> /\ Len(e1) = 0 /\ Len(e2) = 0
  <2>1. e0 \o e1 \in Seq(Edits) /\ Len(e0 \o e1) = Len(e0) + Len(e1)
    BY <1>3, <1>8
  <2>6. (e0 \o e1) \o e2 \in Seq(Edits) /\ Len((e0 \o e1) \o e2) = Len(e0 \o e1) + Len(e2)
    <3> DEFINE g == e0 \o e1
    <3>1. g \in Seq(Edits)
      BY <2>1
    <3> HIDE DEF g
    <3>2. g \o e2 \in Seq(Edits) /\ Len(g \o e2) = Len(g) + Len(e2)
      BY <1>9, <3>1, ConcatProperties
    <3> QED BY <3>2 DEF g
  <2>2. (e0 \o e1) \o e2 \in Seq(Edits) /\ Len((e0 \o e1) \o e2) = Len(e0) + Len(e1) + Len(e2)
    BY <2>1, <2>6
  <2>3. Len(e0) \in Nat /\ Len(e1) \in Nat /\ Len(e2) \in Nat
    BY <1>3, <1>8, <1>9
  <2>4. (e0 \o e1) \o e2 = <<>> => Len((e0 \o e1) \o e2) = 0
    BY <2>2, EmptySeq
  <2>5. Len(e0) = 0 => e0 = <<>>
    BY <1>3, EmptySeq
  <2> QED BY <2>2, <2>3, <2>4, <2>5
<1>11. ASSUME (e0 \o e1) \o e2 = <<>> PROVE V = T
  <2>1. ~bare /\ at1 = <<>> /\ at2 = <<>>
    <3> HIDE DEF at1, at2
    <3> QED BY <1>3, <1>5, <1>7, <1>8, <1>9, <1>10, <1>11, EmptySeq
  <2>2. B = T
    BY <2>1 DEF B
  <2>3. U = B
    BY <1>2, <1>5, <2>1, NothingToStub
  <2>4. V = U
    <3> HIDE DEF U
    <3> QED BY <1>4, <1>7, <2>1, NothingStrays
  <2> QED BY <2>2, <2>3, <2>4
<1> HIDE DEF V, U, at1, at2
<1>12. Opens(V) /\ Digests(V) /\ LiveIds(B) \subseteq LiveIds(V) /\ \A k \in 1..Len(V) : V[k].role # "tool" => \E i \in 1..Len(B) : V[k] = B[i]
  <2>1. PICK f, n : Arranges(B, GoodPlaces(B), V, f, n)
    BY <1>6
  <2>2. B[1].role # "tool"
    BY <1>2, SystemIs DEF Opens
  <2> QED BY <1>2, <1>6, <2>1, <2>2, RepairShape
<1>13. ASSUME NEW k \in 1..Len(V), V[k].role = "refusal" PROVE V[k].id \in Ids(T)
  <2>1. PICK i \in 1..Len(B) : V[k] = B[i]
    BY <1>12, <1>13
  <2> QED BY <1>2, <1>13, <2>1
<1>14. LiveIds(T) \subseteq LiveIds(V)
  BY <1>2, <1>12
<1> HIDE DEF bare
<1>15. Repaired(T).msgs = V /\ Repaired(T).edits = (e0 \o e1) \o e2
  BY <1>1
<1> QED BY <1>6, <1>10, <1>11, <1>12, <1>13, <1>14, <1>15

LEMMA Part ==
    ASSUME NEW T \in Seq(Messages), NEW p \in 1..Len(T) + 1, NEW q \in p - 1..Len(T)
    PROVE  /\ SubSeq(T, p, q) \in Seq(Messages) /\ Len(SubSeq(T, p, q)) = q - p + 1
           /\ \A i \in 1..q - p + 1 : SubSeq(T, p, q)[i] = T[p + i - 1]
<1>1. \A i \in p..q : T[i] \in Messages
  OBVIOUS
<1>2. p \in Int /\ q \in Int
  OBVIOUS
<1>3. /\ SubSeq(T, p, q) \in Seq(Messages) /\ Len(SubSeq(T, p, q)) = IF p <= q THEN q - p + 1 ELSE 0
      /\ \A i \in 1..q - p + 1 : SubSeq(T, p, q)[i] = T[p + i - 1]
  BY <1>1, <1>2, SubSeqProperties
<1>4. (IF p <= q THEN q - p + 1 ELSE 0) = q - p + 1
  <2>1. CASE p <= q
    BY <2>1
  <2>2. CASE q = p - 1
    BY <2>2
  <2> QED BY <2>1, <2>2
<1> QED BY <1>3, <1>4

LEMMA Joined ==
    ASSUME NEW A \in Seq(Messages), NEW B \in Seq(Messages)
    PROVE  /\ A \o B \in Seq(Messages) /\ Len(A \o B) = Len(A) + Len(B)
           /\ \A i \in 1..Len(A) : (A \o B)[i] = A[i]
           /\ \A i \in 1..Len(B) : (A \o B)[Len(A) + i] = B[i]
<1>1. A \o B \in Seq(Messages) /\ Len(A \o B) = Len(A) + Len(B)
  BY ConcatProperties
<1>2. \A i \in 1..Len(A) + Len(B) : (A \o B)[i] = IF i <= Len(A) THEN A[i] ELSE B[i - Len(A)]
  BY ConcatProperties
<1>3. ASSUME NEW i \in 1..Len(B) PROVE (A \o B)[Len(A) + i] = B[i]
  <2>1. Len(A) + i \in 1..Len(A) + Len(B) /\ ~(Len(A) + i <= Len(A)) /\ Len(A) + i - Len(A) = i
    OBVIOUS
  <2> QED BY <1>2, <2>1
<1> QED BY <1>1, <1>2, <1>3

LEMMA InsertAtIs ==
    ASSUME NEW T \in Seq(Messages), NEW i \in 1..Len(T) + 1, NEW m \in Messages
    PROVE  /\ InsertAt(T, i, m) \in Seq(Messages) /\ Len(InsertAt(T, i, m)) = Len(T) + 1
           /\ \A j \in 1..i - 1 : InsertAt(T, i, m)[j] = T[j]
           /\ InsertAt(T, i, m)[i] = m
           /\ \A j \in i..Len(T) : InsertAt(T, i, m)[j + 1] = T[j]
<1> DEFINE A == SubSeq(T, 1, i - 1)
           B == SubSeq(T, i, Len(T))
           M == <<m>>
           C == A \o M
           R == C \o B
<1>1. InsertAt(T, i, m) = R
  BY DEF InsertAt
<1>2. A \in Seq(Messages) /\ Len(A) = i - 1 /\ \A j \in 1..i - 1 : A[j] = T[j]
  <2>1. 1 \in 1..Len(T) + 1 /\ i - 1 \in 1 - 1..Len(T) /\ (i - 1) - 1 + 1 = i - 1
    OBVIOUS
  <2>2. A \in Seq(Messages) /\ Len(A) = (i - 1) - 1 + 1 /\ \A j \in 1..(i - 1) - 1 + 1 : A[j] = T[1 + j - 1]
    BY <2>1, Part
  <2> HIDE DEF A
  <2> QED BY <2>1, <2>2
<1>3. B \in Seq(Messages) /\ Len(B) = Len(T) - i + 1 /\ \A j \in 1..Len(T) - i + 1 : B[j] = T[i + j - 1]
  <2>1. Len(T) \in i - 1..Len(T)
    OBVIOUS
  <2> QED BY <2>1, Part
<1>4. M \in Seq(Messages) /\ Len(M) = 1 /\ M[1] = m
  OBVIOUS
<1> HIDE DEF A, B, M
<1>5. /\ C \in Seq(Messages) /\ Len(C) = i /\ (\A j \in 1..i - 1 : C[j] = T[j]) /\ C[i] = m
  <2>1. /\ C \in Seq(Messages) /\ Len(C) = Len(A) + Len(M)
        /\ \A j \in 1..Len(A) : C[j] = A[j]
        /\ \A j \in 1..Len(M) : C[Len(A) + j] = M[j]
    BY <1>2, <1>4, Joined
  <2> HIDE DEF C
  <2>2. C[Len(A) + 1] = M[1]
    BY <2>1, <1>4
  <2> QED BY <1>2, <1>4, <2>1, <2>2
<1> HIDE DEF C
<1>6. /\ R \in Seq(Messages) /\ Len(R) = Len(C) + Len(B)
      /\ \A j \in 1..Len(C) : R[j] = C[j]
      /\ \A j \in 1..Len(B) : R[Len(C) + j] = B[j]
  BY <1>3, <1>5, Joined
<1> HIDE DEF R
<1>7. ASSUME NEW j \in i..Len(T) PROVE R[j + 1] = T[j]
  <2>1. j - i + 1 \in 1..Len(B) /\ Len(C) + (j - i + 1) = j + 1 /\ j - i + 1 \in 1..Len(T) - i + 1 /\ i + (j - i + 1) - 1 = j
    BY <1>3, <1>5
  <2>2. R[Len(C) + (j - i + 1)] = B[j - i + 1]
    BY <1>6, <2>1
  <2>3. B[j - i + 1] = T[i + (j - i + 1) - 1]
    BY <1>3, <2>1
  <2> QED BY <2>1, <2>2, <2>3
<1>8. R \in Seq(Messages) /\ Len(R) = Len(T) + 1 /\ (\A j \in 1..i - 1 : R[j] = T[j]) /\ R[i] = m
  BY <1>3, <1>5, <1>6
<1> QED BY <1>1, <1>7, <1>8

LEMMA PinnedHeadIs ==
    ASSUME NEW T \in Seq(Messages), Opens(T), Len(T) >= 2
    PROVE  /\ PinnedHead(T) \in 2..Len(T)
           /\ \A j \in 2..PinnedHead(T) : Pinned(T, j)
           /\ PinnedHead(T) < Len(T) => ~Pinned(T, PinnedHead(T) + 1)
           /\ T[PinnedHead(T)].role \in {"user", "refusal"}
<1> DEFINE I == {i \in 2..Len(T) : ~Pinned(T, i)}
           n == IF I = {} THEN Len(T) ELSE Min(I) - 1
<1>1. PinnedHead(T) = IF n < 2 THEN 2 ELSE n
  BY DEF PinnedHead
<1>2. \A i \in 2..Len(T) : i \in I <=> ~Pinned(T, i)
  OBVIOUS
<1>3. 2 \notin I
  BY PinnedIs DEF Opens
<1>4. I \in SUBSET Nat
  OBVIOUS
<1>7. ASSUME NEW h \in 2..Len(T), \A j \in 2..h : Pinned(T, j), h < Len(T) => ~Pinned(T, h + 1)
      PROVE  T[h].role \in {"user", "refusal"}
  <2>1. Pinned(T, h)
    BY <1>7
  <2>2. h < Len(T) => T[h + 1].role \notin {"user", "refusal"}
    BY <1>7, PinnedIs
  <2> QED BY <2>1, <2>2, PinnedIs
<1>5. CASE I = {}
  <2>1. PinnedHead(T) = Len(T) /\ Len(T) \in 2..Len(T)
    BY <1>1, <1>5
  <2>2. \A j \in 2..Len(T) : Pinned(T, j)
    BY <1>2, <1>5
  <2> QED BY <1>7, <2>1, <2>2
<1>6. CASE I # {}
  <2>1. Min(I) \in I /\ \A j \in I : Min(I) <= j
    BY <1>4, <1>6, MinIs
  <2> DEFINE k == Min(I)
  <2>2. k \in 3..Len(T)
    BY <1>3, <2>1
  <2>3. PinnedHead(T) = k - 1
    BY <1>1, <1>6, <2>2, SMTT(30)
  <2>4. ~Pinned(T, k)
    BY <1>2, <2>1, <2>2
  <2>5. \A j \in 2..k - 1 : j \notin I
    BY <2>1, <2>2
  <2> HIDE DEF I, k
  <2> DEFINE h == k - 1
  <2>6. h \in 2..Len(T) /\ h + 1 = k /\ PinnedHead(T) = h
    BY <2>2, <2>3
  <2>7. \A j \in 2..h : Pinned(T, j)
    BY <1>2, <2>2, <2>5
  <2> HIDE DEF h
  <2> QED BY <1>7, <2>4, <2>6, <2>7
<1> QED BY <1>5, <1>6

\* A message that a prune leaves, or truncates.
Left(m, o) ==
    /\ m.id = o.id /\ m.role = o.role /\ m.calls = o.calls /\ m.of = o.of /\ m.turn = o.turn
    /\ m.noted = o.noted /\ (m.cut \/ m = o) /\ (o.role # "tool" => m = o)

LEMMA TruncatedIs ==
    ASSUME NEW T \in Seq(Messages), NEW n
    PROVE  LET C == Truncated(T, n).msgs
               G == Truncated(T, n).gone
           IN  /\ C \in Seq(Messages) /\ Len(C) = Len(T)
               /\ \A i \in 1..Len(T) : Left(C[i], T[i]) /\ (C[i] = T[i] \/ T[i].id \in G)
               /\ G \subseteq Ids(T)
<1> DEFINE these == {i \in Old(T) : Cardinality({j \in Old(T) : j <= i}) <= n}
           C == [i \in 1..Len(T) |-> IF i \in these THEN [T[i] EXCEPT !.cut = TRUE] ELSE T[i]]
           G == {T[i].id : i \in these}
<1>1. Truncated(T, n) = [msgs |-> C, gone |-> G]
  BY DEF Truncated
<1>2. \A i \in these : i \in 1..Len(T) /\ T[i].role = "tool"
  <2>1. \A i \in Old(T) : i \in 1..Len(T) /\ T[i].role = "tool"
    BY ConstantsAssumption DEF Old, ConstantsAssumption
  <2> QED BY <2>1
<1> HIDE DEF these
<1>3. ASSUME NEW i \in 1..Len(T) PROVE C[i] \in Messages /\ Left(C[i], T[i]) /\ (C[i] = T[i] \/ T[i].id \in G)
  <2>1. T[i] \in Messages
    OBVIOUS
  <2>2. CASE i \in these
    <3>1. C[i] = [T[i] EXCEPT !.cut = TRUE]
      BY <2>2
    <3>2. T[i].role = "tool" /\ T[i].id \in G
      BY <1>2, <2>2
    <3> HIDE DEF C, G
    <3>3. C[i] \in Messages
      BY <2>1, <3>1 DEF Messages
    <3>4. Left(C[i], T[i])
      BY <2>1, <3>1, <3>2 DEF Left, Messages
    <3> QED BY <3>2, <3>3, <3>4
  <2>3. CASE i \notin these
    BY <2>1, <2>3 DEF Left
  <2> QED BY <2>2, <2>3
<1>4. DOMAIN C = 1..Len(T) /\ C = [i \in 1..Len(T) |-> C[i]]
  OBVIOUS
<1> HIDE DEF C
<1>5. C \in Seq(Messages) /\ Len(C) = Len(T)
  <2>1. C \in [1..Len(T) -> Messages]
    BY <1>3, <1>4
  <2> QED BY <2>1
<1>6. G \subseteq Ids(T)
  BY <1>2 DEF Ids
<1> HIDE DEF G
<1>7. Truncated(T, n).msgs = C /\ Truncated(T, n).gone = G
  BY <1>1
<1> QED BY <1>3, <1>5, <1>6, <1>7

\* What a prune of T is: everything from the head to stop gone, and x digests
\* in its place.
PruneOf(T, M, G, h, D, stop, x) ==
    /\ T \in Seq(Messages) /\ M \in Seq(Messages)
    /\ Opens(T) /\ Digests(T) /\ Settled(T)
    /\ D \in Messages /\ D.role = "digest" /\ D.turn = 0
    /\ h \in 2..Len(T) /\ stop \in h..Len(T) /\ x \in {0, 1} /\ (x = 0 => stop = h)
    /\ Len(M) = h + x + (Len(T) - stop)
    /\ \A i \in 1..h : M[i] = T[i]
    /\ x = 1 => M[h + 1] = D
    /\ \A i \in stop + 1..Len(T) :
          Left(M[i + (h + x - stop)], T[i]) /\ (M[i + (h + x - stop)] = T[i] \/ T[i].id \in G)
    /\ \A i \in h + 1..stop : T[i].id \in G
    /\ \A i \in 2..h : Pinned(T, i)
    /\ T[h].role \in {"user", "refusal"}
    /\ stop < Len(T) => T[stop + 1].role # "tool" /\ (x = 1 => T[stop + 1].role # "digest")
    /\ h < Len(T) => ~Pinned(T, h + 1)
    /\ G \subseteq Ids(T)

LEMMA StopsIs ==
    ASSUME NEW T \in Seq(Messages), Opens(T), Settled(T), NEW h \in 2..Len(T), NEW stop \in Stops(T, h),
           T[h].role \in {"user", "refusal"}
    PROVE  stop \in h..Len(T) /\ (stop < Len(T) => T[stop + 1].role # "tool")
<1>1. stop \in h..Len(T) /\ (stop = h \/ EndsRun(T, stop))
  BY DEF Stops
<1>2. ASSUME stop < Len(T), T[stop + 1].role = "tool" PROVE FALSE
  <2>1. stop = h
    BY <1>1, <1>2 DEF EndsRun
  <2>2. ~Stray(T, stop + 1)
    BY <1>1, <1>2, AnsweredIs DEF Settled
  <2>3. PICK g \in 1..stop + 1 : Follows(T, g, stop + 1) /\ T[stop + 1].of \in T[g].calls
    BY <1>1, <1>2, <2>2, StrayIs
  <2>4. g = h
    <3>1. T[h].role # "tool"
      OBVIOUS
    <3> QED BY <1>2, <2>1, <2>3, <3>1 DEF Follows
  <2>5. T[h] \in Messages /\ T[h].role # "assistant"
    OBVIOUS
  <2> QED BY <2>3, <2>4, <2>5, MessageIs
<1> QED BY <1>1, <1>2

LEMMA PrunedIs ==
    ASSUME NEW T \in Seq(Messages), Opens(T), Digests(T), Settled(T),
           NEW D \in Messages, D.role = "digest", D.turn = 0, D.cut = FALSE,
           NEW p \in Prunes(T, D)
    PROVE  /\ p.head = PinnedHead(T) /\ p.head \in 2..Len(T) /\ DOMAIN p = {"msgs", "gone", "head"}
           /\ \E stop, x, E : E \in {D, [D EXCEPT !.cut = TRUE]} /\ PruneOf(T, p.msgs, p.gone, p.head, E, stop, x)
<1> DEFINE h == PinnedHead(T)
<1>1. PICK n \in 0..Cardinality(Old(T)), stop \in Stops(T, h), room \in BOOLEAN : p = Pruned(T, n, h, stop, D, room)
  BY DEF Prunes
<1>2. Len(T) >= 2
  <2>1. h >= 2 /\ h \in Nat
    <3> DEFINE I == {i \in 2..Len(T) : ~Pinned(T, i)}
               k == IF I = {} THEN Len(T) ELSE Min(I) - 1
    <3>1. h = IF k < 2 THEN 2 ELSE k
      BY DEF PinnedHead
    <3>2. I \in SUBSET Nat /\ \A i \in I : i >= 2
      OBVIOUS
    <3>3. I # {} => Min(I) \in I
      BY <3>2, MinIs
    <3> HIDE DEF I
    <3>5. I # {} => Min(I) \in Nat /\ Min(I) >= 2
      BY <3>2, <3>3
    <3>4. k \in Nat
      <4>1. Len(T) \in Nat
        OBVIOUS
      <4>2. CASE I = {}
        BY <4>1, <4>2
      <4>3. CASE I # {}
        BY <3>5, <4>3
      <4> QED BY <4>2, <4>3
    <3> HIDE DEF h, k
    <3> QED BY <3>1, <3>4
  <2>2. stop \in h..Len(T)
    BY DEF Stops
  <2> HIDE DEF h
  <2> QED BY <2>1, <2>2
<1>3. /\ h \in 2..Len(T) /\ \A j \in 2..h : Pinned(T, j)
      /\ T[h].role \in {"user", "refusal"}
      /\ h < Len(T) => ~Pinned(T, h + 1)
  BY <1>2, PinnedHeadIs
<1>4. stop \in h..Len(T) /\ (stop < Len(T) => T[stop + 1].role # "tool")
  BY <1>3, StopsIs
<1>5. ASSUME stop > h, stop < Len(T) PROVE T[stop + 1].role # "digest"
  <2>1. ASSUME T[stop + 1].role = "digest" PROVE FALSE
    <3>1. stop + 1 \in 1..Len(T) /\ h + 1 \in 2..(stop + 1) - 1
      BY <1>3, <1>4, <1>5
    <3>2. Pinned(T, h + 1)
      BY <2>1, <3>1 DEF Digests
    <3>3. h < Len(T)
      BY <1>3, <1>4, <1>5
    <3> QED BY <1>3, <3>2, <3>3
  <2> QED BY <2>1
<1> HIDE DEF h
<1> DEFINE C == Truncated(T, n).msgs
           A == SubSeq(C, 1, h)
           B == SubSeq(C, stop + 1, Len(T))
           msgs == A \o B
           over == Len(msgs) > h /\ msgs[h + 1].role = "digest"
           E == [D EXCEPT !.cut = stop = h]
           R == IF stop = h /\ (over \/ ~room) THEN msgs
                ELSE IF over THEN [msgs EXCEPT ![h + 1] = E]
                ELSE InsertAt(msgs, h + 1, E)
           G == Truncated(T, n).gone \cup {T[i].id : i \in h + 1..stop}
<1>6. p = [msgs |-> R, gone |-> G, head |-> h]
  BY <1>1, Zenon DEF Pruned
<1>17. E \in Messages /\ E.role = "digest" /\ E.turn = 0
  BY DEF Messages
<1>18. E \in {D, [D EXCEPT !.cut = TRUE]}
  <2>0. D.cut = FALSE /\ D \in Messages
    OBVIOUS
  <2>1. CASE stop = h
    BY <2>1
  <2>2. CASE stop # h
    <3>1. E = [D EXCEPT !.cut = FALSE]
      BY <2>2
    <3>2. [D EXCEPT !.cut = FALSE] = D
      BY <2>0 DEF Messages
    <3> QED BY <3>1, <3>2
  <2> QED BY <2>1, <2>2
<1> HIDE DEF E
<1>7. /\ C \in Seq(Messages) /\ Len(C) = Len(T)
      /\ \A i \in 1..Len(T) : Left(C[i], T[i]) /\ (C[i] = T[i] \/ T[i].id \in Truncated(T, n).gone)
      /\ Truncated(T, n).gone \subseteq Ids(T)
  BY TruncatedIs
<1>8. G \subseteq Ids(T) /\ Truncated(T, n).gone \subseteq G /\ \A i \in h + 1..stop : T[i].id \in G
  <2>1. \A i \in h + 1..stop : i \in DOMAIN T
    BY <1>3, <1>4
  <2> QED BY <1>7, <2>1 DEF Ids
<1> HIDE DEF C, G
<1>9. A \in Seq(Messages) /\ Len(A) = h /\ \A i \in 1..h : A[i] = C[i]
  <2>1. 1 \in 1..Len(C) + 1 /\ h \in 1 - 1..Len(C) /\ h - 1 + 1 = h
    BY <1>3, <1>7
  <2>2. A \in Seq(Messages) /\ Len(A) = h - 1 + 1 /\ \A i \in 1..h - 1 + 1 : A[i] = C[1 + i - 1]
    BY <1>7, <2>1, Part
  <2> HIDE DEF A
  <2> QED BY <2>1, <2>2
<1>10. B \in Seq(Messages) /\ Len(B) = Len(T) - stop /\ \A i \in 1..Len(T) - stop : B[i] = C[stop + i]
  <2> DEFINE q == stop + 1
  <2>1. q \in 1..Len(C) + 1 /\ Len(T) \in q - 1..Len(C) /\ Len(T) - q + 1 = Len(T) - stop
    BY <1>3, <1>4, <1>7
  <2>2. B = SubSeq(C, q, Len(T)) /\ q = stop + 1
    OBVIOUS
  <2> HIDE DEF B, q
  <2>3. B \in Seq(Messages) /\ Len(B) = Len(T) - q + 1 /\ \A i \in 1..Len(T) - q + 1 : B[i] = C[q + i - 1]
    BY <1>7, <2>1, <2>2, Part, SMTT(60)
  <2>4. ASSUME NEW i \in 1..Len(T) - stop PROVE B[i] = C[stop + i]
    <3>1. i \in 1..Len(T) - q + 1 /\ q + i - 1 = stop + i
      BY <2>1, <2>2, <1>4
    <3>2. B[i] = C[q + i - 1]
      BY <2>3, <3>1
    <3> QED BY <3>1, <3>2
  <2> QED BY <2>1, <2>3, <2>4
<1> HIDE DEF A, B
<1>11. /\ msgs \in Seq(Messages) /\ Len(msgs) = h + (Len(T) - stop)
       /\ \A i \in 1..h : msgs[i] = C[i]
       /\ \A i \in stop + 1..Len(T) : msgs[i + (h - stop)] = C[i]
  <2>1. /\ msgs \in Seq(Messages) /\ Len(msgs) = Len(A) + Len(B)
        /\ \A i \in 1..Len(A) : msgs[i] = A[i]
        /\ \A i \in 1..Len(B) : msgs[Len(A) + i] = B[i]
    BY <1>9, <1>10, Joined
  <2> HIDE DEF msgs
  <2>2. ASSUME NEW i \in stop + 1..Len(T) PROVE msgs[i + (h - stop)] = C[i]
    <3>1. i - stop \in 1..Len(B) /\ Len(A) + (i - stop) = i + (h - stop) /\ stop + (i - stop) = i
      BY <1>3, <1>4, <1>9, <1>10
    <3>2. msgs[Len(A) + (i - stop)] = B[i - stop]
      BY <2>1, <3>1
    <3>3. B[i - stop] = C[stop + (i - stop)]
      BY <1>10, <3>1
    <3> QED BY <3>1, <3>2, <3>3
  <2> QED BY <1>9, <1>10, <2>1, <2>2
<1> HIDE DEF msgs
<1>12. over <=> stop < Len(T) /\ T[stop + 1].role = "digest"
  <2>1. Len(msgs) > h <=> stop < Len(T)
    BY <1>3, <1>4, <1>11
  <2>2. ASSUME stop < Len(T) PROVE msgs[h + 1].role = T[stop + 1].role
    <3>1. stop + 1 \in stop + 1..Len(T) /\ stop + 1 + (h - stop) = h + 1 /\ stop + 1 \in 1..Len(T)
      BY <1>3, <1>4, <2>2
    <3>2. msgs[h + 1] = C[stop + 1]
      BY <1>11, <3>1
    <3> QED BY <1>7, <3>1, <3>2 DEF Left
  <2> QED BY <2>1, <2>2
<1> HIDE DEF over
<1>13. ASSUME NEW i \in 1..h PROVE C[i] = T[i]
  <2>1. i \in 1..Len(T) /\ (i = 1 \/ i \in 2..h)
    BY <1>3
  <2>2. T[i].role # "tool"
    BY <1>3, <2>1, SystemIs, PinnedIs DEF Opens
  <2> QED BY <1>7, <2>1, <2>2 DEF Left
<1>14. ASSUME NEW i \in stop + 1..Len(T) PROVE Left(C[i], T[i]) /\ (C[i] = T[i] \/ T[i].id \in G)
  <2>1. i \in 1..Len(T)
    BY <1>3, <1>4
  <2> QED BY <1>7, <1>8, <2>1
<1>15. CASE stop = h /\ (over \/ ~room)
  <2>1. R = msgs
    BY <1>15
  <2> DEFINE x == 0
  <2>2. x \in {0, 1} /\ (x = 0 => stop = h) /\ Len(msgs) = h + x + (Len(T) - stop) /\ (x = 1 => msgs[h + 1] = E)
    BY <1>11, <1>15, <1>3, <1>4
  <2>3. ASSUME NEW i \in stop + 1..Len(T) PROVE Left(msgs[i + (h + x - stop)], T[i]) /\ (msgs[i + (h + x - stop)] = T[i] \/ T[i].id \in G)
    <3>1. i + (h + x - stop) = i + (h - stop)
      BY <1>3, <1>4
    <3>2. msgs[i + (h - stop)] = C[i]
      BY <1>11
    <3> QED BY <1>14, <3>1, <3>2
  <2>4. \A i \in 1..h : msgs[i] = T[i]
    BY <1>11, <1>13
  <2>5. stop < Len(T) => T[stop + 1].role # "tool" /\ (x = 1 => T[stop + 1].role # "digest")
    BY <1>4
  <2> HIDE DEF x
  <2>6. PruneOf(T, msgs, G, h, E, stop, x)
    BY <1>3, <1>4, <1>8, <1>11, <1>17, <2>2, <2>3, <2>4, <2>5 DEF PruneOf
  <2> QED BY <1>3, <1>6, <1>18, <2>1, <2>6 DEF h
<1>16. CASE ~(stop = h /\ (over \/ ~room))
  <2>1. ~over
    <3>1. ASSUME over PROVE FALSE
      BY <1>3, <1>4, <1>5, <1>12, <1>16, <3>1
    <3> QED BY <3>1
  <2>2. R = InsertAt(msgs, h + 1, E)
    BY <1>16, <2>1
  <2> HIDE DEF R
  <2> DEFINE k == h + 1
             x == 1
  <2>3. k \in 1..Len(msgs) + 1
    BY <1>3, <1>4, <1>11
  <2>4. /\ R \in Seq(Messages) /\ Len(R) = Len(msgs) + 1
        /\ \A j \in 1..k - 1 : R[j] = msgs[j]
        /\ R[k] = E
        /\ \A j \in k..Len(msgs) : R[j + 1] = msgs[j]
    <3>1. R = InsertAt(msgs, k, E)
      BY <2>2
    <3> DEFINE Q == InsertAt(msgs, k, E)
    <3> HIDE DEF k
    <3>2. /\ Q \in Seq(Messages) /\ Len(Q) = Len(msgs) + 1
          /\ \A j \in 1..k - 1 : Q[j] = msgs[j]
          /\ Q[k] = E
          /\ \A j \in k..Len(msgs) : Q[j + 1] = msgs[j]
      <4>1. msgs \in Seq(Messages)
        BY <1>11
      <4>2. Q \in Seq(Messages) /\ Len(Q) = Len(msgs) + 1
        BY <1>17, <4>1, <2>3, InsertAtIs
      <4>3. \A j \in 1..k - 1 : Q[j] = msgs[j]
        BY <1>17, <4>1, <2>3, InsertAtIs
      <4>4. Q[k] = E
        BY <1>17, <4>1, <2>3, InsertAtIs
      <4>5. \A j \in k..Len(msgs) : Q[j + 1] = msgs[j]
        BY <1>17, <4>1, <2>3, InsertAtIs
      <4> QED BY <4>2, <4>3, <4>4, <4>5
    <3> HIDE DEF Q
    <3>3. R = Q
      BY <3>1 DEF Q
    <3> QED BY <3>2, <3>3
  <2>5. ASSUME NEW i \in stop + 1..Len(T) PROVE Left(R[i + (h + x - stop)], T[i]) /\ (R[i + (h + x - stop)] = T[i] \/ T[i].id \in G)
    <3> DEFINE j == i + (h - stop)
    <3>1. j \in k..Len(msgs) /\ i + (h + x - stop) = j + 1
      BY <1>3, <1>4, <1>11
    <3>2. R[j + 1] = msgs[j] /\ msgs[j] = C[i]
      <4>1. msgs[j] = C[i]
        BY <1>11
      <4> HIDE DEF j
      <4> QED BY <2>4, <3>1, <4>1
    <3> HIDE DEF j
    <3> QED BY <1>14, <3>1, <3>2
  <2>6. x \in {0, 1} /\ (x = 0 => stop = h) /\ Len(R) = h + x + (Len(T) - stop) /\ (x = 1 => R[h + 1] = E)
    BY <1>11, <2>4, <1>3, <1>4
  <2>7. \A i \in 1..h : R[i] = T[i]
    BY <1>3, <1>11, <1>13, <2>4
  <2>8. stop < Len(T) => T[stop + 1].role # "tool" /\ (x = 1 => T[stop + 1].role # "digest")
    BY <1>4, <1>12, <2>1
  <2> HIDE DEF x, k
  <2>9. PruneOf(T, R, G, h, E, stop, x)
    BY <1>3, <1>4, <1>8, <1>17, <2>4, <2>5, <2>6, <2>7, <2>8 DEF PruneOf
  <2> QED BY <1>3, <1>6, <1>18, <2>9 DEF h
<1> QED BY <1>15, <1>16

LEMMA PruneKeeps ==
    ASSUME NEW T, NEW M, NEW G, NEW h, NEW D, NEW stop, NEW x, PruneOf(T, M, G, h, D, stop, x)
    PROVE  /\ M \in Seq(Messages) /\ Opens(M) /\ Digests(M) /\ Settled(M)
           /\ LiveIds(T) \subseteq LiveIds(M) \cup G
           /\ \A i \in 1..Len(M) : M[i].role = "refusal" =>
                 \E j \in 1..Len(T) : T[j].role = "refusal" /\ T[j].id = M[i].id
<1>1. /\ T \in Seq(Messages) /\ M \in Seq(Messages) /\ Opens(T) /\ Digests(T) /\ Settled(T)
      /\ h \in 2..Len(T) /\ stop \in h..Len(T) /\ x \in {0, 1} /\ (x = 0 => stop = h)
      /\ Len(M) = h + x + (Len(T) - stop)
  BY DEF PruneOf
<1>2. D \in Messages /\ D.role = "digest" /\ D.turn = 0 /\ (x = 1 => M[h + 1] = D)
  BY DEF PruneOf
<1>3. \A i \in 1..h : M[i] = T[i]
  BY DEF PruneOf
<1>4. \A i \in stop + 1..Len(T) :
          Left(M[i + (h + x - stop)], T[i]) /\ (M[i + (h + x - stop)] = T[i] \/ T[i].id \in G)
  BY DEF PruneOf
<1>5. (\A i \in h + 1..stop : T[i].id \in G) /\ (\A i \in 2..h : Pinned(T, i))
  BY DEF PruneOf
<1>6. stop < Len(T) => T[stop + 1].role # "tool" /\ (x = 1 => T[stop + 1].role # "digest")
  BY DEF PruneOf
<1>18. (h < Len(T) => ~Pinned(T, h + 1)) /\ T[h].role \in {"user", "refusal"}
  BY DEF PruneOf
<1> DEFINE d == stop - (h + x)
           p == h + x + 1
<1>7. d \in Int /\ p \in Nat /\ p >= 3 /\ p + d = stop + 1 /\ Len(M) + d = Len(T) /\ p <= Len(M) + 1
  BY <1>1
<1> HIDE DEF d, p
<1>8. ASSUME NEW k \in p..Len(M)
      PROVE  k + d \in stop + 1..Len(T) /\ Left(M[k], T[k + d]) /\ (M[k] = T[k + d] \/ T[k + d].id \in G)
  <2> DEFINE i == k + d
  <2>1. i \in stop + 1..Len(T) /\ i + (h + x - stop) = k
    BY <1>1, <1>7 DEF d, p
  <2> HIDE DEF i
  <2>2. Left(M[k], T[i]) /\ (M[k] = T[i] \/ T[i].id \in G)
    BY <1>4, <2>1
  <2> QED BY <2>1, <2>2 DEF i
<1>9. ASSUME NEW k \in 1..Len(M) PROVE k \in 1..h \/ (x = 1 /\ k = h + 1) \/ k \in p..Len(M)
  BY <1>1, <1>7 DEF p
<1>10. ASSUME NEW k \in 1..h PROVE M[k] = T[k] /\ k \in 1..Len(T) /\ M[k].role \in {"system", "user", "refusal", "digest"} /\ M[k].calls = {}
  <2>1. k \in 1..Len(T) /\ (k = 1 \/ k \in 2..h) /\ M[k] = T[k]
    BY <1>1, <1>3
  <2>2. T[k].role \in {"system", "user", "refusal", "digest"}
    BY <1>1, <1>5, <2>1, SystemIs, PinnedIs DEF Opens
  <2>3. T[k] \in Messages
    BY <1>1, <2>1
  <2>4. T[k].calls = {}
    BY <2>2, <2>3, MessageIs
  <2> QED BY <2>1, <2>2, <2>4
<1>11. D.calls = {}
  BY <1>2, MessageIs
<1>12. Like(M, T, p, Len(M), d)
  <2>1. \A k \in p..Len(M) : M[k].role = T[k + d].role /\ M[k].of = T[k + d].of /\ M[k].calls = T[k + d].calls
    BY <1>8 DEF Left
  <2>2. p <= Len(M) => M[p].role # "tool"
    <3>1. ASSUME p <= Len(M) PROVE M[p].role # "tool"
      <4>1. p \in p..Len(M) /\ p + d = stop + 1 /\ stop < Len(T)
        BY <1>1, <1>7, <3>1
      <4>2. M[p].role = T[p + d].role
        BY <2>1, <4>1
      <4> QED BY <1>6, <4>1, <4>2
    <3> QED BY <3>1
  <2>3. Len(M) \in Nat /\ 1 <= p /\ Len(M) <= Len(M) /\ 1 <= p + d /\ Len(M) + d <= Len(T)
    BY <1>1, <1>7
  <2> QED BY <1>1, <1>7, <2>1, <2>2, <2>3 DEF Like
<1>13. ASSUME NEW k \in 1..Len(M) PROVE ~Stray(M, k)
  <2>1. CASE k \in 1..h
    BY <1>10, <2>1 DEF Stray
  <2>2. CASE x = 1 /\ k = h + 1
    BY <1>2, <2>2 DEF Stray
  <2>3. CASE k \in p..Len(M)
    <3>1. Stray(M, k) <=> Stray(T, k + d)
      BY <1>12, <2>3, LikeRuns
    <3>2. k + d \in 1..Len(T)
      BY <1>1, <1>8, <2>3
    <3> QED BY <1>1, <3>1, <3>2, AnsweredIs DEF Settled
  <2> QED BY <1>9, <2>1, <2>2, <2>3
<1>14. ASSUME NEW k \in 1..Len(M), M[k].role # "tool" PROVE Replied(M, k)
  <2>1. CASE k \in 1..h
    BY <1>10, <2>1 DEF Replied
  <2>2. CASE x = 1 /\ k = h + 1
    BY <1>2, <1>11, <2>2 DEF Replied
  <2>3. CASE k \in p..Len(M)
    <3>1. k + d \in 1..Len(T) /\ T[k + d].role # "tool"
      BY <1>1, <1>8, <1>14, <2>3 DEF Left
    <3>2. Replied(T, k + d)
      BY <1>1, <3>1 DEF Settled
    <3> QED BY <1>7, <1>12, <2>3, <3>2, LikeReplied
  <2> QED BY <1>9, <2>1, <2>2, <2>3
<1>15. Settled(M)
  BY <1>1, <1>13, <1>14, AnsweredIs DEF Settled
<1>16. Opens(M)
  <2>1. M[1] = T[1] /\ M[2] = T[2] /\ Len(M) >= 2 /\ Len(T) >= 2
    BY <1>1, <1>3
  <2>2. M # <<>>
    BY <1>1, <2>1, EmptySeq
  <2> QED BY <1>1, <2>1, <2>2 DEF Opens
<1>17. ASSUME NEW i \in 1..Len(M), M[i].role = "digest"
       PROVE  M[i].turn = 0 /\ \A j \in 2..i - 1 : Pinned(M, j)
  <2>0. ASSUME NEW j \in 2..h PROVE Pinned(M, j)
    <3>1. j \in 1..h /\ h \in 1..h /\ h <= Len(M)
      BY <1>1
    <3>2. M[j] = T[j] /\ Pinned(T, j)
      BY <1>3, <1>5, <3>1
    <3>3. CASE j = h
      BY <1>18, <3>2, <3>3, PinnedIs
    <3>4. CASE j # h
      <4>1. j + 1 \in 1..h /\ j < Len(M)
        BY <1>1, <3>1, <3>4
      <4>2. M[j + 1] = T[j + 1]
        BY <1>3, <4>1
      <4> QED BY <3>2, <4>1, <4>2, PinnedStays
    <3> QED BY <3>3, <3>4
  <2>1. CASE i \in 1..h
    <3>1. M[i] = T[i] /\ i \in 1..Len(T) /\ \A j \in 2..i - 1 : j \in 2..h
      BY <1>1, <1>10, <2>1
    <3>2. T[i].turn = 0
      BY <1>1, <1>17, <3>1 DEF Digests
    <3> QED BY <2>0, <3>1, <3>2
  <2>2. CASE x = 1 /\ i = h + 1
    BY <1>1, <1>2, <2>0, <2>2
  <2>3. CASE i \in p..Len(M)
    <3>1. i + d \in stop + 1..Len(T) /\ M[i].turn = T[i + d].turn /\ T[i + d].role = "digest"
      BY <1>8, <1>17, <2>3 DEF Left
    <3>2. T[i + d].turn = 0 /\ \A j \in 2..(i + d) - 1 : Pinned(T, j)
      BY <1>1, <3>1 DEF Digests
    <3>3. i + d = h + 1
      <4>1. ASSUME i + d # h + 1 PROVE FALSE
        <5>1. h < Len(T) /\ h + 1 \in 2..(i + d) - 1
          BY <1>1, <3>1, <4>1
        <5> QED BY <1>18, <3>2, <5>1
      <4> QED BY <4>1
    <3>4. stop = h /\ x = 0
      <4>1. stop = h /\ stop < Len(T)
        BY <1>1, <3>1, <3>3
      <4>2. x # 1
        BY <1>6, <3>1, <3>3, <4>1
      <4> QED BY <1>1, <4>1, <4>2
    <3>5. i = h + 1
      <4>1. d = 0
        BY <1>1, <3>4 DEF d
      <4>2. i \in Nat /\ h \in Nat
        BY <1>1
      <4> QED BY <3>3, <4>1, <4>2
    <3>6. i - 1 = h
      BY <1>1, <3>5
    <3> QED BY <2>0, <3>1, <3>2, <3>6
  <2> QED BY <1>9, <2>1, <2>2, <2>3
<1>19. LiveIds(T) \subseteq LiveIds(M) \cup G
  <2> SUFFICES ASSUME NEW i \in 1..Len(T), ~T[i].cut, T[i].id \notin G PROVE T[i].id \in LiveIds(M)
    BY DEF LiveIds
  <2>1. CASE i \in 1..h
    <3>1. M[i] = T[i] /\ i \in 1..Len(M)
      BY <1>1, <1>3, <2>1
    <3> QED BY <1>13, <3>1 DEF LiveIds
  <2>2. CASE i \in h + 1..stop
    BY <1>5, <2>2
  <2>3. CASE i \in stop + 1..Len(T)
    <3> DEFINE k == i + (h + x - stop)
    <3>1. k \in 1..Len(M)
      BY <1>1, <2>3
    <3>2. M[k] = T[i]
      BY <1>4, <2>3
    <3> HIDE DEF k
    <3> QED BY <1>13, <3>1, <3>2 DEF LiveIds
  <2> QED BY <1>1, <2>1, <2>2, <2>3
<1>20. ASSUME NEW i \in 1..Len(M), M[i].role = "refusal"
       PROVE  \E j \in 1..Len(T) : T[j].role = "refusal" /\ T[j].id = M[i].id
  <2>1. CASE i \in 1..h
    BY <1>10, <1>20, <2>1
  <2>2. CASE x = 1 /\ i = h + 1
    BY <1>2, <1>20, <2>2
  <2>3. CASE i \in p..Len(M)
    <3>1. i + d \in 1..Len(T) /\ T[i + d].role = "refusal" /\ T[i + d].id = M[i].id
      BY <1>1, <1>8, <1>20, <2>3 DEF Left
    <3> QED BY <3>1
  <2> QED BY <1>9, <2>1, <2>2, <2>3
<1> QED BY <1>1, <1>15, <1>16, <1>17, <1>19, <1>20 DEF Digests

\* The same message but for what the harness appended.
Same(m, o) ==
    m.id = o.id /\ m.role = o.role /\ m.calls = o.calls /\ m.of = o.of /\ m.turn = o.turn /\ m.cut = o.cut

LEMMA SameIs ==
    ASSUME NEW m \in Messages, NEW o \in Messages
    PROVE  [m EXCEPT !.noted = FALSE] = [o EXCEPT !.noted = FALSE] <=> Same(m, o)
<1> DEFINE a == [m EXCEPT !.noted = FALSE]
           b == [o EXCEPT !.noted = FALSE]
<1>1. a \in Messages /\ b \in Messages
  BY DEF Messages
<1>2. a.noted = FALSE /\ a.id = m.id /\ a.role = m.role /\ a.calls = m.calls /\ a.of = m.of /\ a.turn = m.turn /\ a.cut = m.cut
  BY DEF Messages
<1>3. b.noted = FALSE /\ b.id = o.id /\ b.role = o.role /\ b.calls = o.calls /\ b.of = o.of /\ b.turn = o.turn /\ b.cut = o.cut
  BY DEF Messages
<1> HIDE DEF a, b
<1>4. a = b <=> a.noted = b.noted /\ a.id = b.id /\ a.role = b.role /\ a.calls = b.calls /\ a.of = b.of /\ a.turn = b.turn /\ a.cut = b.cut
  BY <1>1 DEF Messages
<1>5. a = b <=> Same(m, o)
  BY <1>2, <1>3, <1>4 DEF Same
<1> QED BY <1>5 DEF a, b

LEMMA SegmentIs ==
    ASSUME NEW a \in Nat, NEW b \in Nat, 1..a = 1..b
    PROVE  a = b
<1>1. a = 0 \/ a \in 1..a
  OBVIOUS
<1>2. b = 0 \/ b \in 1..b
  OBVIOUS
<1>3. a = 0 \/ a \in 1..b
  BY <1>1
<1>4. b = 0 \/ b \in 1..a
  BY <1>2
<1>5. a <= b /\ b <= a
  BY <1>3, <1>4
<1> QED BY <1>5

LEMMA BareIs ==
    ASSUME NEW A \in Seq(Messages), NEW B \in Seq(Messages)
    PROVE  Bare(A) = Bare(B) <=> Len(A) = Len(B) /\ \A i \in 1..Len(A) : Same(A[i], B[i])
<1>1. DOMAIN A = 1..Len(A) /\ DOMAIN B = 1..Len(B) /\ Len(A) \in Nat /\ Len(B) \in Nat
  OBVIOUS
<1> DEFINE F(T, i) == [T[i] EXCEPT !.noted = FALSE]
<1>2. Bare(A) = [i \in 1..Len(A) |-> F(A, i)] /\ Bare(B) = [i \in 1..Len(B) |-> F(B, i)]
  BY <1>1 DEF Bare
<1>3. ASSUME NEW i \in 1..Len(A), Len(A) = Len(B) PROVE F(A, i) = F(B, i) <=> Same(A[i], B[i])
  <2>1. A[i] \in Messages /\ B[i] \in Messages
    BY <1>3
  <2> QED BY <2>1, SameIs
<1> HIDE DEF F
<1>4. ASSUME Bare(A) = Bare(B) PROVE Len(A) = Len(B) /\ \A i \in 1..Len(A) : F(A, i) = F(B, i)
  <2>1. DOMAIN Bare(A) = 1..Len(A) /\ DOMAIN Bare(B) = 1..Len(B)
    BY <1>2
  <2>2. 1..Len(A) = 1..Len(B)
    BY <1>4, <2>1
  <2>3. Len(A) = Len(B)
    BY <1>1, <2>2, SegmentIs
  <2>4. ASSUME NEW i \in 1..Len(A) PROVE F(A, i) = F(B, i)
    <3>1. Bare(A)[i] = F(A, i)
      BY <1>2
    <3>2. Bare(B)[i] = F(B, i)
      BY <1>2, <2>3
    <3> QED BY <1>4, <3>1, <3>2
  <2> QED BY <2>3, <2>4
<1>5. ASSUME Len(A) = Len(B), \A i \in 1..Len(A) : F(A, i) = F(B, i) PROVE Bare(A) = Bare(B)
  BY <1>2, <1>5
<1> QED BY <1>3, <1>4, <1>5

\* What the harness appends changes no run, no place and no id.
LEMMA BareSame ==
    ASSUME NEW A \in Seq(Messages), NEW B \in Seq(Messages), Bare(A) = Bare(B)
    PROVE  /\ Len(A) = Len(B) /\ \A i \in 1..Len(A) : Same(A[i], B[i])
           /\ Like(A, B, 1, Len(A), 0)
           /\ LiveIds(A) = LiveIds(B) /\ Ids(A) = Ids(B)
           /\ Digests(B) => Digests(A)
           /\ Settled(B) => Settled(A)
           /\ Open(B) => Open(A)
<1>1. Len(A) = Len(B) /\ \A i \in 1..Len(A) : Same(A[i], B[i])
  BY BareIs
<1>2. Like(A, B, 1, Len(A), 0)
  BY <1>1 DEF Like, Same
<1>3. \A k \in 1..Len(A) : Stray(A, k) <=> Stray(B, k)
  BY <1>1, <1>2, LikeWhole
<1>4. \A i \in 1..Len(A) : A[i].id = B[i].id /\ A[i].cut = B[i].cut /\ A[i].role = B[i].role /\ A[i].turn = B[i].turn
  BY <1>1 DEF Same
<1>5. LiveIds(A) = LiveIds(B)
  BY <1>1, <1>3, <1>4 DEF LiveIds
<1>6. Ids(A) = Ids(B)
  <2>1. DOMAIN A = 1..Len(A) /\ DOMAIN B = 1..Len(A)
    BY <1>1
  <2> QED BY <1>4, <2>1 DEF Ids
<1>7. Digests(B) => Digests(A)
  <2>1. ASSUME Digests(B), NEW i \in 1..Len(A), A[i].role = "digest"
        PROVE  A[i].turn = 0 /\ \A j \in 2..i - 1 : Pinned(A, j)
    <3>1. i \in 1..Len(B) /\ B[i].role = "digest" /\ A[i].turn = B[i].turn
      BY <1>1, <1>4, <2>1
    <3>2. B[i].turn = 0 /\ \A j \in 2..i - 1 : Pinned(B, j)
      BY <2>1, <3>1 DEF Digests
    <3>3. ASSUME NEW j \in 2..i - 1 PROVE Pinned(A, j)
      <4>1. j \in 1..Len(A) /\ j + 1 \in 1..Len(A) /\ j < Len(A)
        OBVIOUS
      <4> QED BY <1>4, <3>2, <4>1, PinnedStays
    <3> QED BY <3>1, <3>2, <3>3
  <2> QED BY <2>1 DEF Digests
<1>8. (Settled(B) => Settled(A)) /\ (Open(B) => Open(A))
  BY <1>1, <1>2, LikeWhole
<1> QED BY <1>1, <1>2, <1>5, <1>6, <1>7, <1>8

\* B is A and more.
Extends(A, B) ==
    /\ A \in Seq(Messages) /\ B \in Seq(Messages) /\ Len(A) <= Len(B) /\ \A i \in 1..Len(A) : B[i] = A[i]

LEMMA ExtendsKeeps ==
    ASSUME NEW A, NEW B, Extends(A, B)
    PROVE  /\ A \in Seq(Messages) /\ B \in Seq(Messages) /\ Len(A) <= Len(B) /\ \A i \in 1..Len(A) : B[i] = A[i]
           /\ \A i \in 1..Len(A) : Stray(B, i) <=> Stray(A, i)
           /\ LiveIds(A) \subseteq LiveIds(B) /\ Ids(A) \subseteq Ids(B)
           /\ Opens(A) /\ (Len(A) >= 2 \/ Len(B) < 2 \/ B[2].role = "user") => Opens(B)
           /\ Digests(A) /\ (\A i \in Len(A) + 1..Len(B) : B[i].role # "digest") => Digests(B)
           /\ Digests(B) => Digests(A)
           /\ Opens(B) /\ A # <<>> => Opens(A)
<1>1. A \in Seq(Messages) /\ B \in Seq(Messages) /\ Len(A) <= Len(B) /\ \A i \in 1..Len(A) : B[i] = A[i]
  BY DEF Extends
<1>2. Like(A, B, 1, Len(A), 0)
  BY <1>1 DEF Like
<1>3. ASSUME NEW i \in 1..Len(A) PROVE Stray(B, i) <=> Stray(A, i)
  <2>1. Stray(A, i) <=> Stray(B, i + 0)
    BY <1>2, LikeRuns
  <2> QED BY <1>1, <2>1
<1>4. LiveIds(A) \subseteq LiveIds(B)
  <2> SUFFICES ASSUME NEW i \in 1..Len(A), ~A[i].cut, ~Stray(A, i) PROVE A[i].id \in LiveIds(B)
    BY DEF LiveIds
  <2>1. i \in 1..Len(B) /\ B[i] = A[i] /\ ~Stray(B, i)
    BY <1>1, <1>3
  <2> QED BY <2>1 DEF LiveIds
<1>5. Ids(A) \subseteq Ids(B)
  <2> SUFFICES ASSUME NEW i \in DOMAIN A PROVE A[i].id \in Ids(B)
    BY DEF Ids
  <2>1. i \in DOMAIN B /\ B[i] = A[i]
    BY <1>1
  <2> QED BY <2>1 DEF Ids
<1>6. ASSUME Opens(A), Len(A) >= 2 \/ Len(B) < 2 \/ B[2].role = "user" PROVE Opens(B)
  <2>1. Len(A) >= 1 /\ B # <<>>
    BY <1>1, <1>6, EmptySeq DEF Opens
  <2>2. B[1] = A[1] /\ (Len(A) >= 2 => B[2] = A[2])
    BY <1>1, <2>1
  <2> QED BY <1>1, <1>6, <2>1, <2>2 DEF Opens
<1>7. ASSUME Digests(A), \A i \in Len(A) + 1..Len(B) : B[i].role # "digest", NEW i \in 1..Len(B), B[i].role = "digest"
      PROVE  B[i].turn = 0 /\ \A j \in 2..i - 1 : Pinned(B, j)
  <2>1. i \in 1..Len(A) /\ B[i] = A[i]
    BY <1>1, <1>7
  <2>2. A[i].turn = 0 /\ \A j \in 2..i - 1 : Pinned(A, j)
    BY <1>7, <2>1 DEF Digests
  <2>3. ASSUME NEW j \in 2..i - 1 PROVE Pinned(B, j)
    <3>1. j \in 1..Len(A) /\ j + 1 \in 1..Len(A) /\ j < Len(B)
      BY <2>1
    <3>2. B[j] = A[j] /\ B[j + 1] = A[j + 1]
      BY <1>1, <3>1
    <3> QED BY <2>2, <3>1, <3>2, PinnedStays
  <2> QED BY <2>1, <2>2, <2>3
<1>8. ASSUME Digests(B), NEW i \in 1..Len(A), A[i].role = "digest"
      PROVE  A[i].turn = 0 /\ \A j \in 2..i - 1 : Pinned(A, j)
  <2>1. i \in 1..Len(B) /\ B[i] = A[i]
    BY <1>1
  <2>2. B[i].turn = 0 /\ \A j \in 2..i - 1 : Pinned(B, j)
    BY <1>8, <2>1 DEF Digests
  <2>3. ASSUME NEW j \in 2..i - 1 PROVE Pinned(A, j)
    <3>1. j \in 1..Len(A) /\ j + 1 \in 1..Len(A) /\ j < Len(A)
      OBVIOUS
    <3>2. B[j] = A[j] /\ B[j + 1] = A[j + 1]
      BY <1>1, <3>1
    <3> QED BY <2>2, <3>1, <3>2, PinnedStays
  <2> QED BY <2>1, <2>2, <2>3
<1>9. ASSUME Opens(B), A # <<>> PROVE Opens(A)
  <2>1. Len(A) >= 1
    BY <1>1, <1>9, EmptySeq
  <2>2. B[1] = A[1] /\ (Len(A) >= 2 => B[2] = A[2])
    BY <1>1, <2>1
  <2> QED BY <1>1, <1>9, <2>1, <2>2 DEF Opens
<1>10. Digests(A) /\ (\A i \in Len(A) + 1..Len(B) : B[i].role # "digest") => Digests(B)
  BY <1>7 DEF Digests
<1>11. Digests(B) => Digests(A)
  BY <1>8 DEF Digests
<1>12. Opens(A) /\ (Len(A) >= 2 \/ Len(B) < 2 \/ B[2].role = "user") => Opens(B)
  BY <1>6
<1> QED BY <1>1, <1>3, <1>4, <1>5, <1>9, <1>10, <1>11, <1>12

LEMMA MovedTyped ==
    ASSUME NEW P \in SUBSET Nat, NEW e \in Edits
    PROVE  Moved(P, e) \in SUBSET Nat
<1>1. e.at \in Nat
  BY DEF Edits
<1> DEFINE a == e.at
<1>4. a \in Nat
  BY <1>1
<1> HIDE DEF a
<1>2. Inserted(P, a) \in SUBSET Nat
  <2>1. \A p \in P : (IF p >= a THEN p + 1 ELSE p) \in Nat
    BY <1>4
  <2> QED BY <2>1 DEF Inserted
<1>3. Removed(P, a) \in SUBSET Nat
  <2>1. \A p \in P : (IF p > a THEN p - 1 ELSE p) \in Nat
    BY <1>4
  <2> QED BY <2>1 DEF Removed
<1> QED BY <1>2, <1>3 DEF Moved, a

\* f holds the boundaries after each of the edits.
Follow(P, es, n, f) ==
    /\ f \in [0..n -> SUBSET Nat] /\ f[0] = P
    /\ \A k \in 1..n : f[k] = Moved(f[k - 1], es[k])

LEMMA FollowExists ==
    ASSUME NEW P \in SUBSET Nat, NEW es \in Seq(Edits), NEW n \in 0..Len(es)
    PROVE  \E f : Follow(P, es, n, f)
<1> DEFINE S == {k \in 0..n : ~\E f : Follow(P, es, k, f)}
<1>1. CASE S = {}
  <2>1. n \in 0..n
    OBVIOUS
  <2> QED BY <1>1, <2>1
<1>2. CASE S # {}
  <2>1. S \in SUBSET Nat
    OBVIOUS
  <2>2. PICK k \in S : \A j \in S : k <= j
    BY <1>2, <2>1, LeastNumber
  <2>3. k # 0
    <3> DEFINE g == [j \in 0..0 |-> P]
    <3>3. 0 \in 0..0 /\ \A j \in 1..0 : FALSE
      OBVIOUS
    <3>1. g \in [0..0 -> SUBSET Nat] /\ g[0] = P
      BY <3>3, Zenon
    <3> HIDE DEF g
    <3>2. Follow(P, es, 0, g)
      BY <3>1, <3>3, Zenon DEF Follow
    <3> QED BY <3>2
  <2>4. k - 1 \in 0..n /\ k - 1 \notin S /\ k \in 1..Len(es)
    BY <2>2, <2>3
  <2>5. PICK f : Follow(P, es, k - 1, f)
    BY <2>4
  <2> HIDE DEF S
  <2>6. /\ f \in [0..k - 1 -> SUBSET Nat] /\ f[0] = P
        /\ \A j \in 1..k - 1 : f[j] = Moved(f[j - 1], es[j])
    BY <2>5 DEF Follow
  <2> DEFINE g == [j \in 0..k |-> IF j = k THEN Moved(f[k - 1], es[k]) ELSE f[j]]
  <2>7. Moved(f[k - 1], es[k]) \in SUBSET Nat
    <3>1. es[k] \in Edits /\ f[k - 1] \in SUBSET Nat
      BY <2>4, <2>6
    <3> QED BY <3>1, MovedTyped
  <2>8. g \in [0..k -> SUBSET Nat]
    BY <2>4, <2>6, <2>7
  <2>9. g[k] = Moved(f[k - 1], es[k]) /\ \A j \in 0..k - 1 : g[j] = f[j]
    BY <2>4
  <2> HIDE DEF g
  <2>10. g[0] = P
    <3>1. 0 \in 0..k - 1
      BY <2>4
    <3> QED BY <2>6, <2>9, <3>1
  <2>11. ASSUME NEW j \in 1..k PROVE g[j] = Moved(g[j - 1], es[j])
    <3>1. j - 1 \in 0..k - 1
      BY <2>4
    <3>2. g[j - 1] = f[j - 1]
      BY <2>9, <3>1
    <3>3. CASE j = k
      BY <2>9, <3>2, <3>3
    <3>4. CASE j # k
      <4>1. j \in 1..k - 1 /\ j \in 0..k - 1
        BY <2>4, <3>4
      <4> QED BY <2>6, <2>9, <3>2, <4>1
    <3> QED BY <3>3, <3>4
  <2>12. Follow(P, es, k, g)
    BY <2>8, <2>10, <2>11 DEF Follow
  <2>13. ~\E h : Follow(P, es, k, h)
    BY <2>2 DEF S
  <2> QED BY <2>12, <2>13
<1> QED BY <1>1, <1>2

\* Where the edits leave the boundaries.
LEMMA FollowedIs ==
    ASSUME NEW P \in SUBSET Nat, NEW es \in Seq(Edits)
    PROVE  \E f : Follow(P, es, Len(es), f) /\ Followed(P, es) = f[Len(es)]
<1> DEFINE n == Len(es)
           A(g) == [k \in 0..n |-> IF k = 0 THEN P ELSE Moved(g[k - 1], es[k])]
           after == CHOOSE g : g = A(g)
<1>1. n \in Nat /\ n \in 0..Len(es)
  OBVIOUS
<1>2. Followed(P, es) = after[n]
  BY DEF Followed
<1>3. PICK f : Follow(P, es, n, f)
  BY <1>1, FollowExists
<1> HIDE DEF n
<1>4. f = A(f)
  <2>1. f \in [0..n -> SUBSET Nat] /\ f[0] = P
    BY <1>3 DEF Follow
  <2>2. ASSUME NEW k \in 0..n PROVE f[k] = IF k = 0 THEN P ELSE Moved(f[k - 1], es[k])
    <3>1. k # 0 => k \in 1..n
      BY <1>1
    <3>2. \A j \in 1..n : f[j] = Moved(f[j - 1], es[j])
      BY <1>3 DEF Follow
    <3> QED BY <2>1, <3>1, <3>2
  <2> QED BY <2>1, <2>2
<1>5. after = A(after)
  <2> HIDE DEF A
  <2> QED BY <1>4
<1>6. Follow(P, es, n, after)
  <2> HIDE DEF after
  <2>1. DOMAIN after = 0..n /\ after = [k \in 0..n |-> after[k]]
    BY <1>5
  <2>2. after[0] = P
    BY <1>1, <1>5
  <2>3. ASSUME NEW k \in 1..n PROVE after[k] = Moved(after[k - 1], es[k])
    <3>1. k \in 0..n /\ k # 0
      BY <1>1
    <3> QED BY <1>5, <3>1
  <2> DEFINE S == {k \in 0..n : after[k] \notin SUBSET Nat}
  <2>4. CASE S # {}
    <3>1. S \in SUBSET Nat
      BY <1>1
    <3>2. PICK k \in S : \A j \in S : k <= j
      BY <2>4, <3>1, LeastNumber
    <3>3. k # 0
      BY <2>2
    <3>4. k - 1 \in 0..n /\ k - 1 \notin S /\ k \in 1..Len(es)
      BY <1>1, <3>2, <3>3 DEF n
    <3>5. after[k - 1] \in SUBSET Nat /\ es[k] \in Edits
      BY <3>4
    <3>6. after[k] = Moved(after[k - 1], es[k])
      BY <2>3, <3>4 DEF n
    <3>7. after[k] \in SUBSET Nat
      BY <3>5, <3>6, MovedTyped
    <3> QED BY <3>2, <3>7
  <2>5. CASE S = {}
    <3>1. \A k \in 0..n : after[k] \in SUBSET Nat
      BY <2>5
    <3> HIDE DEF S
    <3>2. after \in [0..n -> SUBSET Nat]
      BY <2>1, <3>1
    <3> QED BY <2>2, <2>3, <3>2 DEF Follow
  <2> QED BY <2>4, <2>5
<1> HIDE DEF after
<1> QED BY <1>2, <1>6 DEF n

LEMMA FollowedTyped ==
    ASSUME NEW P \in SUBSET Nat, NEW es \in Seq(Edits)
    PROVE  Followed(P, es) \in SUBSET Nat /\ (es = <<>> => Followed(P, es) = P)
<1>1. PICK f : Follow(P, es, Len(es), f) /\ Followed(P, es) = f[Len(es)]
  BY FollowedIs
<1>2. f \in [0..Len(es) -> SUBSET Nat] /\ f[0] = P
  BY <1>1 DEF Follow
<1>3. Len(es) \in 0..Len(es) /\ (es = <<>> => Len(es) = 0)
  OBVIOUS
<1> QED BY <1>1, <1>2, <1>3

Fields == {"ok", "file", "synced", "persisted", "edits", "ends", "points", "cost"}

\* The boundaries a save leaves: as they were, or moved by the deferred edits.
Waits(o, pend) == o.edits = pend /\ o.ends = ends /\ o.points = points
Lands(o, pend) == pend # <<>> /\ o.edits = <<>> /\ o.ends = Followed(ends, pend) /\ o.points = Followed(points, pend)

\* What a save of T leaves: nothing done, T, or its tail after what was there.
KeptBy(o, count, pend) ==
    ~o.ok /\ o.file = file /\ o.synced = synced /\ o.persisted = count /\ Waits(o, pend)
WholeBy(o, T, pend) ==
    o.ok /\ o.file = T /\ o.synced = Len(T) /\ o.persisted = Len(T) /\ (Waits(o, pend) \/ Lands(o, pend))
TailBy(o, T, count, pend) ==
    /\ o.ok /\ o.file = file \o SubSeq(T, count + 1, Len(T)) /\ o.synced = synced /\ o.persisted = Len(T)
    /\ count \notin {0, Stale} /\ ~(Len(T) < count) /\ (Waits(o, pend) \/ Lands(o, pend))
Outcome(o, T, count, pend) ==
    /\ DOMAIN o = Fields /\ o.cost \in Nat /\ faults + o.cost <= MaxFaults
    /\ KeptBy(o, count, pend) \/ WholeBy(o, T, pend) \/ TailBy(o, T, count, pend)

LEMMA LandingsAre ==
    ASSUME NEW q, NEW pend, DOMAIN q = Fields, q.cost \in Nat, q.ok = TRUE, Waits(q, pend), NEW o \in Landings(q, pend)
    PROVE  /\ DOMAIN o = Fields /\ o.cost \in Nat /\ o.ok = q.ok /\ o.file = q.file /\ o.synced = q.synced
           /\ o.persisted = q.persisted /\ (Waits(o, pend) \/ Lands(o, pend))
<1>1. CASE pend = <<>>
  <2>1. o = q
    BY <1>1 DEF Landings
  <2> QED BY <2>1
<1>2. CASE pend # <<>>
  <2>1. \/ o = [q EXCEPT !.edits = <<>>, !.ends = Followed(@, pend), !.points = Followed(@, pend)]
        \/ o = [q EXCEPT !.cost = @ + 1]
    BY <1>2 DEF Landings
  <2>2. CASE o = [q EXCEPT !.cost = @ + 1]
    <3>1. DOMAIN o = Fields /\ o.cost = q.cost + 1 /\ o.ok = q.ok /\ o.file = q.file /\ o.synced = q.synced /\ o.persisted = q.persisted
      BY <2>2 DEF Fields
    <3>2. o.edits = q.edits /\ o.ends = q.ends /\ o.points = q.points
      BY <2>2 DEF Fields
    <3> QED BY <3>1, <3>2 DEF Waits
  <2>3. CASE o = [q EXCEPT !.edits = <<>>, !.ends = Followed(@, pend), !.points = Followed(@, pend)]
    <3>1. DOMAIN o = Fields /\ o.cost = q.cost /\ o.ok = q.ok /\ o.file = q.file /\ o.synced = q.synced /\ o.persisted = q.persisted
      BY <2>3 DEF Fields
    <3>2. o.edits = <<>> /\ o.ends = Followed(q.ends, pend) /\ o.points = Followed(q.points, pend)
      BY <2>3 DEF Fields
    <3> QED BY <1>2, <3>1, <3>2 DEF Waits, Lands
  <2> QED BY <2>1, <2>2, <2>3
<1> QED BY <1>1, <1>2

LEMMA SavesAre ==
    ASSUME NEW T, NEW count, NEW pend, NEW rewrite \in BOOLEAN, NEW o \in SavesOf(T, count, pend, rewrite)
    PROVE  /\ Outcome(o, T, count, pend)
           /\ rewrite => ~TailBy(o, T, count, pend) \/ WholeBy(o, T, pend)
<1> DEFINE whole == rewrite \/ count \in {0, Stale} \/ Len(T) < count
           kept == [ok |-> FALSE, file |-> file, synced |-> synced, persisted |-> count,
                    edits |-> pend, ends |-> ends, points |-> points, cost |-> 0]
           all == [kept EXCEPT !.ok = TRUE, !.file = T, !.synced = Len(T), !.persisted = Len(T)]
           tail == [kept EXCEPT !.ok = TRUE, !.file = @ \o SubSeq(T, count + 1, Len(T)), !.persisted = Len(T)]
           kept1 == [kept EXCEPT !.cost = 1]
           all1 == [all EXCEPT !.cost = 1]
<1>1. /\ o \in {kept, kept1} \cup (IF whole THEN Landings(all, pend) ELSE Landings(tail, pend) \cup (IF Len(T) > count THEN Landings(all1, pend) ELSE {}))
      /\ faults + o.cost <= MaxFaults
  BY DEF SavesOf
<1>2. /\ DOMAIN kept = Fields /\ kept.cost = 0 /\ KeptBy(kept, count, pend)
      /\ DOMAIN kept1 = Fields /\ kept1.cost = 1 /\ KeptBy(kept1, count, pend)
  BY DEF Fields, KeptBy, Waits
<1>3. /\ DOMAIN all = Fields /\ all.cost = 0 /\ all.ok = TRUE /\ Waits(all, pend)
      /\ all.file = T /\ all.synced = Len(T) /\ all.persisted = Len(T)
  BY DEF Fields, Waits
<1>4. /\ DOMAIN all1 = Fields /\ all1.cost = 1 /\ all1.ok = TRUE /\ Waits(all1, pend)
      /\ all1.file = T /\ all1.synced = Len(T) /\ all1.persisted = Len(T)
  BY DEF Fields, Waits
<1>5. /\ DOMAIN tail = Fields /\ tail.cost = 0 /\ tail.ok = TRUE /\ Waits(tail, pend)
      /\ tail.file = file \o SubSeq(T, count + 1, Len(T)) /\ tail.synced = synced /\ tail.persisted = Len(T)
  BY DEF Fields, Waits
<1> HIDE DEF kept, all, tail, kept1, all1
<1>6. CASE o \in {kept, kept1}
  <2>1. Outcome(o, T, count, pend)
    BY <1>1, <1>2, <1>6 DEF Outcome
  <2>2. ~o.ok
    BY <1>2, <1>6 DEF KeptBy
  <2> QED BY <2>1, <2>2 DEF TailBy
<1>7. ASSUME o \in Landings(all, pend) \/ o \in Landings(all1, pend)
      PROVE  Outcome(o, T, count, pend) /\ WholeBy(o, T, pend)
  <2>1. CASE o \in Landings(all, pend)
    <3>1. /\ DOMAIN o = Fields /\ o.cost \in Nat /\ o.ok = all.ok /\ o.file = all.file /\ o.synced = all.synced
          /\ o.persisted = all.persisted /\ (Waits(o, pend) \/ Lands(o, pend))
      <4>1. DOMAIN all = Fields /\ all.cost \in Nat /\ all.ok = TRUE /\ Waits(all, pend)
        BY <1>3
      <4> QED BY <2>1, <4>1, LandingsAre, Zenon
    <3> QED BY <1>1, <1>3, <3>1 DEF Outcome, WholeBy
  <2>2. CASE o \in Landings(all1, pend)
    <3>1. /\ DOMAIN o = Fields /\ o.cost \in Nat /\ o.ok = all1.ok /\ o.file = all1.file /\ o.synced = all1.synced
          /\ o.persisted = all1.persisted /\ (Waits(o, pend) \/ Lands(o, pend))
      <4>1. DOMAIN all1 = Fields /\ all1.cost \in Nat /\ all1.ok = TRUE /\ Waits(all1, pend)
        BY <1>4
      <4> QED BY <2>2, <4>1, LandingsAre, Zenon
    <3> QED BY <1>1, <1>4, <3>1 DEF Outcome, WholeBy
  <2> QED BY <1>7, <2>1, <2>2
<1>8. ASSUME o \in Landings(tail, pend), ~whole PROVE Outcome(o, T, count, pend) /\ ~rewrite
  <2>1. /\ DOMAIN o = Fields /\ o.cost \in Nat /\ o.ok = tail.ok /\ o.file = tail.file /\ o.synced = tail.synced
        /\ o.persisted = tail.persisted /\ (Waits(o, pend) \/ Lands(o, pend))
    <3>1. DOMAIN tail = Fields /\ tail.cost \in Nat /\ tail.ok = TRUE /\ Waits(tail, pend)
      BY <1>5
    <3> QED BY <1>8, <3>1, LandingsAre, Zenon
  <2>2. TailBy(o, T, count, pend)
    BY <1>5, <1>8, <2>1 DEF TailBy
  <2> QED BY <1>1, <1>8, <2>1, <2>2 DEF Outcome
<1> QED BY <1>1, <1>6, <1>7, <1>8

\* A file as any sitting leaves it.
FileIsSound(F) == F \in Seq(Messages) /\ (F # <<>> => Opens(F) \/ F[1].role = "user") /\ Digests(F)

\* The file is the first n messages of T.
Begins(F, T, n) == n \in 1..Len(T) /\ Bare(F) = Bare(SubSeq(T, 1, n))

\* What holds when T is to be saved.
SaveFrom(T, count) ==
    /\ T \in Seq(Messages) /\ Opens(T) /\ Digests(T) /\ LiveIds(file) \subseteq LiveIds(T)
    /\ FileIsSound(file) /\ synced \in 0..Len(file)
    /\ count \in Nat \cup {Stale} /\ (count \notin {0, Stale} => Begins(file, T, count))

\* The ids a power cut leaves in a file.
Lasting(F, n) == {F[i].id : i \in {j \in 1..n : ~F[j].cut /\ ~Stray(F, j)}}

LEMMA WholePart ==
    ASSUME NEW T \in Seq(Messages)
    PROVE  SubSeq(T, 1, Len(T)) = T
<1>1. 1 \in 1..Len(T) + 1 /\ Len(T) \in 1 - 1..Len(T) /\ Len(T) - 1 + 1 = Len(T)
  OBVIOUS
<1>2. /\ SubSeq(T, 1, Len(T)) \in Seq(Messages) /\ Len(SubSeq(T, 1, Len(T))) = Len(T) - 1 + 1
      /\ \A i \in 1..Len(T) - 1 + 1 : SubSeq(T, 1, Len(T))[i] = T[1 + i - 1]
  BY <1>1, Part
<1>3. ASSUME NEW i \in 1..Len(T) PROVE SubSeq(T, 1, Len(T))[i] = T[i]
  <2>1. 1 + i - 1 = i
    OBVIOUS
  <2> QED BY <1>1, <1>2, <2>1
<1> QED BY <1>1, <1>2, <1>3, SeqEqual

LEMMA BeginsIs ==
    ASSUME NEW F \in Seq(Messages), NEW T \in Seq(Messages), NEW n \in 1..Len(T)
    PROVE  Begins(F, T, n) <=> Len(F) = n /\ \A i \in 1..n : Same(F[i], T[i])
<1>1. 1 \in 1..Len(T) + 1 /\ n \in 1 - 1..Len(T) /\ n - 1 + 1 = n
  OBVIOUS
<1> DEFINE P == SubSeq(T, 1, n)
<1>2. P \in Seq(Messages) /\ Len(P) = n - 1 + 1 /\ \A i \in 1..n - 1 + 1 : P[i] = T[1 + i - 1]
  BY <1>1, Part
<1> HIDE DEF P
<1>3. P \in Seq(Messages) /\ Len(P) = n /\ \A i \in 1..n : P[i] = T[i]
  BY <1>1, <1>2
<1>4. Bare(F) = Bare(P) <=> Len(F) = Len(P) /\ \A i \in 1..Len(F) : Same(F[i], P[i])
  BY <1>3, BareIs
<1>5. Bare(F) = Bare(P) <=> Len(F) = n /\ \A i \in 1..n : Same(F[i], T[i])
  BY <1>3, <1>4
<1> QED BY <1>5 DEF Begins, P

LEMMA TailIs ==
    ASSUME NEW F \in Seq(Messages), NEW T \in Seq(Messages), NEW n, Begins(F, T, n), Opens(T), Digests(T),
           FileIsSound(F)
    PROVE  LET N == F \o SubSeq(T, n + 1, Len(T))
           IN  /\ N \in Seq(Messages) /\ Extends(F, N) /\ Bare(N) = Bare(T) /\ FileIsSound(N)
               /\ LiveIds(N) = LiveIds(T) /\ Ids(N) = Ids(T) /\ Begins(N, T, Len(T)) /\ Len(N) = Len(T)
<1> DEFINE B == SubSeq(T, n + 1, Len(T))
           N == F \o B
<1>0. n \in 1..Len(T)
  BY DEF Begins
<1>1. Len(F) = n /\ \A i \in 1..n : Same(F[i], T[i])
  BY <1>0, BeginsIs
<1>2. B \in Seq(Messages) /\ Len(B) = Len(T) - n /\ \A i \in 1..Len(T) - n : B[i] = T[n + i]
  <2> DEFINE p == n + 1
  <2>1. p \in 1..Len(T) + 1 /\ Len(T) \in p - 1..Len(T) /\ Len(T) - p + 1 = Len(T) - n
    BY <1>0
  <2>2. B = SubSeq(T, p, Len(T))
    OBVIOUS
  <2>3. \A i \in 1..Len(T) - n : p + i - 1 = n + i
    BY <1>0
  <2> HIDE DEF p, B
  <2>4. B \in Seq(Messages) /\ Len(B) = Len(T) - p + 1 /\ \A i \in 1..Len(T) - p + 1 : B[i] = T[p + i - 1]
    BY <2>1, <2>2, Part
  <2> QED BY <2>1, <2>3, <2>4
<1> HIDE DEF B
<1>3. /\ N \in Seq(Messages) /\ Len(N) = Len(F) + Len(B)
      /\ \A i \in 1..Len(F) : N[i] = F[i]
      /\ \A i \in 1..Len(B) : N[Len(F) + i] = B[i]
  BY <1>2, Joined
<1> HIDE DEF N
<1>4. Len(N) = Len(T)
  BY <1>0, <1>1, <1>2, <1>3
<1>5. ASSUME NEW i \in 1..Len(N) PROVE Same(N[i], T[i])
  <2>1. CASE i \in 1..n
    BY <1>1, <1>3, <2>1
  <2>2. CASE ~(i \in 1..n)
    <3>1. i - n \in 1..Len(T) - n /\ n + (i - n) = i
      BY <1>0, <1>4, <2>2
    <3>2. N[Len(F) + (i - n)] = B[i - n]
      BY <1>2, <1>3, <3>1
    <3>3. B[i - n] = T[n + (i - n)]
      BY <1>2, <3>1
    <3>4. N[i] = T[i]
      BY <1>1, <3>1, <3>2, <3>3
    <3> QED BY <3>4 DEF Same
  <2> QED BY <2>1, <2>2
<1>6. Bare(N) = Bare(T)
  BY <1>3, <1>4, <1>5, BareIs
<1>7. LiveIds(N) = LiveIds(T) /\ Ids(N) = Ids(T) /\ Digests(N)
  BY <1>3, <1>6, BareSame
<1>8. Extends(F, N)
  BY <1>0, <1>1, <1>3, <1>4 DEF Extends
<1>9. Opens(N)
  <2>1. 1 \in 1..n /\ 1 \in 1..Len(N) /\ F # <<>>
    BY <1>0, <1>1, <1>4, EmptySeq
  <2>2. F[1].role = "system"
    BY <1>1, <2>1, SystemIs DEF Same, Opens
  <2>3. N[1] = System
    BY <1>1, <1>3, <2>1, <2>2 DEF FileIsSound, Opens
  <2>4. ASSUME Len(N) >= 2 PROVE N[2].role = "user"
    <3>1. 2 \in 1..Len(N)
      BY <1>3, <2>4
    <3> QED BY <1>4, <1>5, <2>4, <3>1 DEF Same, Opens
  <2>5. N # <<>>
    BY <2>1
  <2> QED BY <2>3, <2>4, <2>5 DEF Opens
<1>10. FileIsSound(N)
  BY <1>3, <1>7, <1>9 DEF FileIsSound
<1>11. Len(T) \in 1..Len(T)
  BY <1>0
<1>12. Begins(N, T, Len(T))
  BY <1>3, <1>4, <1>5, <1>11, BeginsIs
<1> QED BY <1>3, <1>4, <1>6, <1>7, <1>8, <1>10, <1>12 DEF N, B

LEMMA LastingIs ==
    ASSUME NEW F \in Seq(Messages), NEW n \in 0..Len(F)
    PROVE  /\ Lasting(F, n) \subseteq LiveIds(F) /\ Lasting(F, Len(F)) = LiveIds(F)
           /\ \A N : Extends(F, N) => Lasting(F, n) \subseteq Lasting(N, n)
<1>1. Lasting(F, n) \subseteq LiveIds(F) /\ Lasting(F, Len(F)) = LiveIds(F)
  <2>1. \A j \in 1..n : j \in 1..Len(F)
    OBVIOUS
  <2> QED BY <2>1 DEF Lasting, LiveIds
<1>2. ASSUME NEW N, Extends(F, N) PROVE Lasting(F, n) \subseteq Lasting(N, n)
  <2>1. ASSUME NEW j \in 1..n PROVE N[j] = F[j] /\ (Stray(N, j) <=> Stray(F, j))
    <3>1. j \in 1..Len(F)
      OBVIOUS
    <3> QED BY <1>2, <3>1, ExtendsKeeps
  <2> QED BY <2>1 DEF Lasting
<1> QED BY <1>1, <1>2

\* What a save keeps, however it ends.
LEMMA SaveKeeps ==
    ASSUME NEW T, NEW count, NEW pend \in Seq(Edits), NEW o, Outcome(o, T, count, pend), SaveFrom(T, count)
    PROVE  /\ FileIsSound(o.file) /\ o.synced \in 0..Len(o.file)
           /\ o.persisted \in Nat \cup {Stale}
           /\ o.persisted \notin {0, Stale} => Begins(o.file, T, o.persisted)
           /\ LiveIds(o.file) \subseteq LiveIds(T)
           /\ Lasting(file, synced) \subseteq Lasting(o.file, o.synced)
           /\ o.ok => Ids(o.file) = Ids(T) /\ o.persisted = Len(T)
           /\ ~o.ok => o.file = file /\ o.persisted = count /\ o.edits = pend
           /\ o.edits \in {pend, <<>>}
<1>1. /\ T \in Seq(Messages) /\ Opens(T) /\ Digests(T) /\ LiveIds(file) \subseteq LiveIds(T)
      /\ FileIsSound(file) /\ synced \in 0..Len(file) /\ file \in Seq(Messages)
      /\ count \in Nat \cup {Stale} /\ (count \notin {0, Stale} => Begins(file, T, count))
  BY DEF SaveFrom, FileIsSound
<1>2. Len(T) \in 1..Len(T) /\ Len(T) \in Nat /\ Len(T) \notin {0, Stale}
  BY <1>1, EmptySeq DEF Opens, Stale
<1>3. CASE KeptBy(o, count, pend)
  <2>1. ~o.ok /\ o.file = file /\ o.synced = synced /\ o.persisted = count /\ o.edits = pend
    BY <1>3 DEF KeptBy, Waits
  <2> QED BY <1>1, <2>1
<1>4. CASE WholeBy(o, T, pend)
  <2>1. o.ok /\ o.file = T /\ o.synced = Len(T) /\ o.persisted = Len(T) /\ o.edits \in {pend, <<>>}
    BY <1>4 DEF WholeBy, Waits, Lands
  <2>2. FileIsSound(T)
    BY <1>1 DEF FileIsSound
  <2>3. Begins(T, T, Len(T))
    BY <1>1, <1>2, WholePart DEF Begins
  <2>4. Lasting(file, synced) \subseteq Lasting(T, Len(T))
    BY <1>1, LastingIs
  <2>5. Len(T) \in 0..Len(T)
    BY <1>2
  <2> QED BY <1>2, <2>1, <2>2, <2>3, <2>4, <2>5
<1>5. CASE TailBy(o, T, count, pend)
  <2> DEFINE N == file \o SubSeq(T, count + 1, Len(T))
  <2>1. o.ok /\ o.file = N /\ o.synced = synced /\ o.persisted = Len(T) /\ o.edits \in {pend, <<>>} /\ count \notin {0, Stale}
    BY <1>5 DEF TailBy, Waits, Lands
  <2>2. /\ N \in Seq(Messages) /\ Extends(file, N) /\ Bare(N) = Bare(T) /\ FileIsSound(N)
        /\ LiveIds(N) = LiveIds(T) /\ Ids(N) = Ids(T) /\ Begins(N, T, Len(T)) /\ Len(N) = Len(T)
    BY <1>1, <2>1, TailIs
  <2> HIDE DEF N
  <2>3. Lasting(file, synced) \subseteq Lasting(N, synced)
    BY <1>1, <2>2, LastingIs
  <2>4. synced \in 0..Len(N)
    BY <1>1, <2>2 DEF Extends
  <2> QED BY <1>2, <2>1, <2>2, <2>3, <2>4
<1> QED BY <1>3, <1>4, <1>5 DEF Outcome

\* A loaded transcript: T when the work is at ph.
Held(T, ph) ==
    /\ T \in Seq(Messages) /\ T # <<>> /\ Opens(T) /\ Digests(T)
    /\ IF ph \in {"calls", "cancelled"} THEN Open(T) ELSE Settled(T)
    /\ ph # "idle" => Len(T) >= 2
    /\ ph = "opened" => T[Len(T)].role = "user"
    /\ ph = "calls" => ~IsUser(T[Len(T)])

\* What of it the file F has, n messages counted.
OnDisk(F, T, n, ph) ==
    /\ n \notin {0, Stale} => Begins(F, T, n)
    /\ LiveIds(F) \subseteq LiveIds(T)
    /\ ph = "opened" => LiveIds(F) \subseteq LiveIds(Front(T)) /\ (n # Stale => n < Len(T))
    /\ \A i \in 1..Len(T) : T[i].role = "refusal" => T[i].id \in Ids(F)

\* A prune M of T on its way, with the messages G gone.
Candidate(M, T, G) ==
    /\ Held(M, "request") /\ LiveIds(T) \subseteq LiveIds(M) \cup G
    /\ \A i \in 1..Len(M) : M[i].role = "refusal" =>
          \E j \in 1..Len(T) : T[j].role = "refusal" /\ T[j].id = M[i].id

Cands == [msgs : Seq(Messages), gone : SUBSET (Nat \X Nat), head : Nat, back : {"idle", "request"},
          ends : SUBSET Nat, points : SUBSET Nat]

Pruning == phase \in {"archive", "index", "rewrite"}

Kinds ==
    /\ FileIsSound(file) /\ synced \in 0..Len(file)
    /\ persisted \in Nat \cup {Stale} /\ edits \in Seq(Edits)
    /\ ends \in SUBSET Nat /\ points \in SUBSET Nat
    /\ made \in 0..MaxMade /\ faults \in 0..MaxFaults /\ phase \in Phases /\ turn \in Nat

Conversation ==
    /\ mem = <<>> => phase = "idle" /\ edits = <<>> /\ persisted = 0
    /\ mem # <<>> => Held(mem, phase) /\ OnDisk(file, mem, persisted, phase)

Proposal ==
    /\ ~Pruning => cand = NoPrune
    /\ Pruning => /\ mem # <<>> /\ cand \in Cands /\ edits = <<>> /\ Candidate(cand.msgs, mem, cand.gone)
                  /\ phase # "archive" => cand.gone \subseteq archive

\* The inductive invariant.
IInv == Kinds /\ Conversation /\ Proposal

LEMMA BoundsAre ==
    /\ MaxCalls \in Nat /\ MaxMade \in Nat /\ MaxMade >= 1 /\ MaxFaults \in Nat /\ MaxDeaths \in Nat /\ MaxChanges \in Nat
    /\ Keep \in Nat /\ Whole \in Nat
BY ConstantsAssumption DEF ConstantsAssumption

LEMMA MadeIs ==
    /\ \A n, t \in Nat : User(n, t) \in Messages /\ User(n, t).role = "user" /\ User(n, t).calls = {}
    /\ \A n, t \in Nat, C \in SUBSET Names :
          /\ Assistant(n, C, t) \in Messages /\ Assistant(n, C, t).role = "assistant"
          /\ Assistant(n, C, t).calls = C /\ Assistant(n, C, t).id[1] = n /\ Assistant(n, C, t).turn = t
    /\ \A n, t \in Nat, r \in {"refusal", "digest"} :
          /\ Message(<<n, 0>>, r, {}, 0, t) \in Messages /\ Message(<<n, 0>>, r, {}, 0, t).role = r
          /\ Message(<<n, 0>>, r, {}, 0, t).turn = t /\ Message(<<n, 0>>, r, {}, 0, t).id = <<n, 0>>
<1>1. ASSUME NEW n \in Nat, NEW t \in Nat
      PROVE  User(n, t) \in Messages /\ User(n, t).role = "user" /\ User(n, t).calls = {}
  BY DEF User, Message, Messages, Roles
<1>2. ASSUME NEW n \in Nat, NEW t \in Nat, NEW C \in SUBSET Names
      PROVE  /\ Assistant(n, C, t) \in Messages /\ Assistant(n, C, t).role = "assistant"
             /\ Assistant(n, C, t).calls = C /\ Assistant(n, C, t).id[1] = n /\ Assistant(n, C, t).turn = t
  BY DEF Assistant, Message, Messages, Roles
<1>3. ASSUME NEW n \in Nat, NEW t \in Nat, NEW r \in {"refusal", "digest"}
      PROVE  /\ Message(<<n, 0>>, r, {}, 0, t) \in Messages /\ Message(<<n, 0>>, r, {}, 0, t).role = r
             /\ Message(<<n, 0>>, r, {}, 0, t).turn = t /\ Message(<<n, 0>>, r, {}, 0, t).id = <<n, 0>>
  BY DEF Message, Messages, Roles
<1> QED BY <1>1, <1>2, <1>3

LEMMA StartsSound ==
    ASSUME NEW kind \in Starts
    PROVE  LET s == Start(kind) IN
           /\ FileIsSound(s.file) /\ s.ends \in SUBSET Nat /\ s.points \in SUBSET Nat
           /\ s.made \in 0..MaxMade /\ s.turn \in Nat
<1> DEFINE n == MaxMade
           a == Assistant(n + 2, {1}, 1)
           b == Assistant(n + 2, {}, 1)
           stray == <<System, User(n + 1, 1), a, User(n + 3, 2), Reply(a, 1)>>
           bare == <<User(n + 1, 1), b>>
           note == [Message(<<n + 5, 0>>, "digest", {}, 0, 0) EXCEPT !.cut = TRUE]
           c == Assistant(n + 4, {}, 1)
           short == <<System, User(n + 1, 1), note, User(n + 3, 1), a, [Reply(a, 1) EXCEPT !.cut = TRUE], c>>
<1>0. kind \in {"new", "stray", "bare", "shortened"} /\ n + 4 \in Nat /\ n + 5 \in Nat /\ n \in Nat /\ n >= 1 /\ 1 \in Names /\ n + 1 \in Nat /\ n + 2 \in Nat /\ n + 3 \in Nat
  BY ConstantsAssumption DEF ConstantsAssumption, Names
<1> HIDE DEF n
<1>1. CASE kind = "new"
  <2>1. Start(kind) = [file |-> <<>>, ends |-> {}, points |-> {}, made |-> 0, turn |-> 0]
    BY <1>1 DEF Start
  <2>2. FileIsSound(<<>>)
    <3>1. <<>> \in Seq(Messages) /\ Len(<<>>) = 0
      OBVIOUS
    <3> QED BY <3>1 DEF FileIsSound, Digests
  <2> QED BY <2>1, <2>2, <1>0, BoundsAre
<1>2. CASE kind = "stray"
  <2>1. Start(kind) = [file |-> stray, ends |-> {3, 5}, points |-> {3}, made |-> 1, turn |-> 2]
    BY <1>2 DEF Start, n
  <2>2. System \in Messages /\ User(n + 1, 1) \in Messages /\ User(n + 3, 2) \in Messages /\ a \in Messages
    BY <1>0, SystemIs, MadeIs
  <2>7. User(n + 1, 1).role = "user" /\ User(n + 3, 2).role = "user" /\ a.role = "assistant" /\ a.id[1] = n + 2 /\ a.turn = 1
    BY <1>0, MadeIs
  <2> HIDE DEF a
  <2>3. Reply(a, 1) \in Messages
    BY <1>0, <2>7 DEF Reply, Message, Messages, Roles
  <2>4. Reply(a, 1).role = "tool"
    BY DEF Reply, Message
  <2> DEFINE u == User(n + 1, 1)
             v == User(n + 3, 2)
             w == Reply(a, 1)
  <2>5. System \in Messages /\ u \in Messages /\ v \in Messages /\ a \in Messages /\ w \in Messages
        /\ System.role = "system" /\ u.role = "user" /\ v.role = "user" /\ a.role = "assistant" /\ w.role = "tool"
    BY <2>2, <2>3, <2>4, <2>7, SystemIs
  <2>8. stray = <<System, u, a, v, w>>
    OBVIOUS
  <2> HIDE DEF u, v, w, stray
  <2>9. stray \in Seq(Messages) /\ Len(stray) = 5 /\ stray[1] = System /\ stray[2] = u /\ stray[3] = a /\ stray[4] = v /\ stray[5] = w
    BY <2>5, <2>8
  <2>10. \A i \in 1..Len(stray) : stray[i].role # "digest"
    BY <2>5, <2>9
  <2>6. FileIsSound(stray)
    <3>1. Digests(stray)
      BY <2>10 DEF Digests
    <3>3. stray # <<>>
      BY <2>9, SMTT(60)
    <3>4. stray[1] = System /\ (Len(stray) >= 2 => stray[2].role = "user")
      BY <2>5, <2>9
    <3>2. Opens(stray)
      BY <3>3, <3>4 DEF Opens
    <3> QED BY <2>9, <3>1, <3>2 DEF FileIsSound
  <2> QED BY <2>1, <2>6, <1>0 DEF n
<1>3. CASE kind = "bare"
  <2>1. Start(kind) = [file |-> bare, ends |-> {2}, points |-> {}, made |-> 1, turn |-> 1]
    BY <1>3 DEF Start, n
  <2> DEFINE u == User(n + 1, 1)
  <2>2. u \in Messages /\ b \in Messages /\ u.role = "user" /\ b.role = "assistant"
    BY <1>0, MadeIs
  <2>3. bare = <<u, b>>
    OBVIOUS
  <2> HIDE DEF u, b, bare
  <2>4. bare \in Seq(Messages) /\ Len(bare) = 2 /\ bare[1] = u /\ bare[2] = b
    BY <2>2, <2>3
  <2>5. \A i \in 1..Len(bare) : bare[i].role # "digest"
    BY <2>2, <2>4
  <2>6. FileIsSound(bare)
    BY <2>2, <2>4, <2>5 DEF FileIsSound, Digests
  <2> QED BY <2>1, <2>6, <1>0 DEF n
<1>4. CASE kind = "shortened"
  <2>1. Start(kind) = [file |-> short, ends |-> {7}, points |-> {}, made |-> 1, turn |-> 1]
    BY <1>4 DEF Start, n
  <2> DEFINE u == User(n + 1, 1)
             v == User(n + 3, 1)
             w == [Reply(a, 1) EXCEPT !.cut = TRUE]
  <2>2. System \in Messages /\ u \in Messages /\ v \in Messages /\ a \in Messages /\ c \in Messages
        /\ System.role = "system" /\ u.role = "user" /\ v.role = "user" /\ a.role = "assistant" /\ c.role = "assistant"
    BY <1>0, SystemIs, MadeIs
  <2>3. note \in Messages /\ note.role = "digest" /\ note.turn = 0 /\ note.cut = TRUE
    <3> DEFINE m == Message(<<n + 5, 0>>, "digest", {}, 0, 0)
    <3>1. m \in Messages /\ m.role = "digest" /\ m.turn = 0
      BY <1>0, MadeIs
    <3> HIDE DEF m
    <3>2. note = [m EXCEPT !.cut = TRUE]
      BY DEF m
    <3> QED BY <3>1, <3>2 DEF Messages
  <2>4. w \in Messages /\ w.role = "tool"
    <3>1. a.id[1] = n + 2 /\ a.turn = 1
      BY <1>0, MadeIs
    <3> HIDE DEF a
    <3>2. Reply(a, 1) \in Messages /\ Reply(a, 1).role = "tool"
      BY <1>0, <3>1 DEF Reply, Message, Messages, Roles
    <3> QED BY <3>2 DEF Messages
  <2>5. short = <<System, u, note, v, a, w, c>>
    OBVIOUS
  <2> HIDE DEF a, c, u, v, w, note, short
  <2>6. /\ short \in Seq(Messages) /\ Len(short) = 7 /\ short[1] = System /\ short[2] = u /\ short[3] = note
        /\ short[4] = v /\ short[5] = a /\ short[6] = w /\ short[7] = c
    BY <2>2, <2>3, <2>4, <2>5
  <2>7. Digests(short)
    <3>1. \A i \in 1..Len(short) : short[i].role = "digest" => i = 3
      BY <2>2, <2>4, <2>6
    <3>2. short[3].turn = 0 /\ \A j \in 2..3 - 1 : j = 2
      BY <2>3, <2>6
    <3>3. Pinned(short, 2)
      BY <2>2, <2>6, PinnedIs
    <3> QED BY <3>1, <3>2, <3>3 DEF Digests
  <2>8. Opens(short)
    <3>1. short # <<>>
      BY <2>6, EmptySeq
    <3> QED BY <2>2, <2>6, <3>1 DEF Opens
  <2>9. FileIsSound(short)
    BY <2>6, <2>7, <2>8 DEF FileIsSound
  <2> QED BY <2>1, <2>9, <1>0 DEF n
<1> QED BY <1>0, <1>1, <1>2, <1>3, <1>4

LEMMA InitHolds ==
    ASSUME Init PROVE IInv
<1>1. PICK kind \in Starts :
         LET s == Start(kind) IN
         /\ file = s.file /\ synced = Len(s.file)
         /\ ends = s.ends /\ points = s.points /\ made = s.made /\ turn = s.turn
  BY DEF Init
<1>2. LET s == Start(kind) IN
      /\ FileIsSound(s.file) /\ s.ends \in SUBSET Nat /\ s.points \in SUBSET Nat
      /\ s.made \in 0..MaxMade /\ s.turn \in Nat
  BY StartsSound
<1>3. mem = <<>> /\ persisted = 0 /\ edits = <<>> /\ phase = "idle" /\ cand = NoPrune /\ faults = 0
  BY DEF Init
<1>4. FileIsSound(file) /\ synced = Len(file) /\ ends \in SUBSET Nat /\ points \in SUBSET Nat /\ made \in 0..MaxMade /\ turn \in Nat
  BY <1>1, <1>2
<1>5. synced \in 0..Len(file)
  BY <1>4 DEF FileIsSound
<1>6. Kinds
  BY <1>3, <1>4, <1>5, BoundsAre DEF Kinds, Phases
<1>7. Conversation /\ Proposal
  BY <1>3 DEF Conversation, Proposal, Pruning
<1> QED BY <1>6, <1>7 DEF IInv

LEMMA InvariantMeans ==
    ASSUME IInv PROVE TypeOK /\ FileIsPrefix /\ RefusalsOnDisk /\ RequestsAnswered
<1>1. Kinds /\ Conversation /\ Proposal
  BY DEF IInv
<1>2. mem # <<>> => /\ mem \in Seq(Messages) /\ Opens(mem) /\ Len(mem) \in Nat
                    /\ persisted \in 0..Len(mem) \cup {Stale}
                    /\ persisted \notin {0, Stale} => persisted <= Len(mem) /\ Bare(file) = Bare(SubSeq(mem, 1, persisted))
  BY <1>1 DEF Kinds, Conversation, Held, OnDisk, Begins
<1>3. TypeOK
  <2>1. phase \in Phases /\ synced \in 0..Len(file) /\ ends \cup points \subseteq Nat /\ made \in 0..MaxMade /\ faults \in 0..MaxFaults
    BY <1>1 DEF Kinds
  <2>2. mem = <<>> => phase = "idle" /\ edits = <<>>
    BY <1>1 DEF Conversation
  <2>3. mem # <<>> => Head(mem) = System
    <3>1. ASSUME mem # <<>> PROVE Head(mem) = mem[1]
      BY <1>2, <3>1
    <3> QED BY <1>2, <3>1 DEF Opens
  <2>4. cand = NoPrune <=> phase \notin {"archive", "index", "rewrite"}
    <3>1. \A c \in Cands : c.back \in {"idle", "request"}
      BY DEF Cands
    <3>2. NoPrune.back = "none"
      BY DEF NoPrune
    <3> QED BY <1>1, <3>1, <3>2 DEF Proposal, Pruning
  <2>5. persisted \in 0..Len(mem) \cup {Stale}
    <3>1. CASE mem = <<>>
      BY <1>1, <3>1 DEF Conversation
    <3> QED BY <1>2, <3>1
  <2> QED BY <2>1, <2>2, <2>3, <2>4, <2>5 DEF TypeOK
<1>4. FileIsPrefix
  BY <1>2 DEF FileIsPrefix
<1>5. phase = "request" => mem # <<>> /\ Settled(mem) /\ \A i \in 1..Len(mem) : mem[i].role = "refusal" => mem[i].id \in Ids(file)
  BY <1>1 DEF Conversation, Held, OnDisk
<1>6. RefusalsOnDisk
  <2>1. mem # <<>> => DOMAIN mem = 1..Len(mem)
    BY <1>2
  <2> QED BY <1>5, <2>1 DEF RefusalsOnDisk
<1>7. RequestsAnswered
  <2>1. phase = "request" => Answered(mem)
    BY <1>2, <1>5, AnsweredIs
  <2> QED BY <2>1 DEF RequestsAnswered
<1> QED BY <1>3, <1>4, <1>6, <1>7

LEMMA AppendExtends ==
    ASSUME NEW T \in Seq(Messages), NEW m \in Messages
    PROVE  /\ Extends(T, Append(T, m)) /\ Len(Append(T, m)) = Len(T) + 1
           /\ Append(T, m)[Len(T) + 1] = m /\ Append(T, m)[Len(Append(T, m))] = m
           /\ \A i \in Len(T) + 1..Len(Append(T, m)) : Append(T, m)[i] = m
<1>1. /\ Append(T, m) \in Seq(Messages) /\ Len(Append(T, m)) = Len(T) + 1
      /\ \A i \in 1..Len(T) : Append(T, m)[i] = T[i]
      /\ Append(T, m)[Len(T) + 1] = m
  BY AppendLike
<1>2. Len(T) \in Nat
  OBVIOUS
<1>3. \A i \in Len(T) + 1..Len(T) + 1 : i = Len(T) + 1
  BY <1>2
<1> QED BY <1>1, <1>2, <1>3 DEF Extends

\* What a transcript that grows keeps.
LEMMA GrownHeld ==
    ASSUME NEW T, NEW U, NEW ph, Held(T, ph), Extends(T, U),
           \A i \in Len(T) + 1..Len(U) : U[i].role # "digest",
           Len(T) >= 2 \/ Len(U) < 2 \/ U[2].role = "user"
    PROVE  U \in Seq(Messages) /\ U # <<>> /\ Opens(U) /\ Digests(U) /\ Len(T) <= Len(U) /\ Len(T) >= 1
<1>1. T \in Seq(Messages) /\ T # <<>> /\ Opens(T) /\ Digests(T)
  BY DEF Held
<1>2. U \in Seq(Messages) /\ Opens(U) /\ Digests(U) /\ Len(T) <= Len(U)
  BY <1>1, ExtendsKeeps
<1> QED BY <1>1, <1>2, EmptySeq DEF Opens

LEMMA GrownOnDisk ==
    ASSUME NEW F, NEW T, NEW U, NEW n \in Nat \cup {Stale}, NEW ph, NEW ph2, OnDisk(F, T, n, ph), Extends(T, U),
           FileIsSound(F), \A i \in Len(T) + 1..Len(U) : U[i].role # "refusal", ph2 # "opened"
    PROVE  OnDisk(F, U, n, ph2)
<1>1. T \in Seq(Messages) /\ U \in Seq(Messages) /\ Len(T) <= Len(U) /\ \A i \in 1..Len(T) : U[i] = T[i]
  BY DEF Extends
<1>2. F \in Seq(Messages)
  BY DEF FileIsSound
<1>3. ASSUME n \notin {0, Stale} PROVE Begins(F, U, n)
  <2>1. Begins(F, T, n) /\ n \in 1..Len(T)
    BY <1>3 DEF OnDisk, Begins
  <2>2. Len(F) = n /\ \A i \in 1..n : Same(F[i], T[i])
    BY <1>1, <1>2, <2>1, BeginsIs
  <2>3. n \in 1..Len(U) /\ \A i \in 1..n : U[i] = T[i]
    BY <1>1, <2>1
  <2> QED BY <1>1, <1>2, <2>2, <2>3, BeginsIs
<1>4. LiveIds(F) \subseteq LiveIds(U)
  BY ExtendsKeeps DEF OnDisk
<1>5. ASSUME NEW i \in 1..Len(U), U[i].role = "refusal" PROVE U[i].id \in Ids(F)
  <2>1. i \in 1..Len(T)
    BY <1>1, <1>5
  <2> QED BY <1>1, <1>5, <2>1 DEF OnDisk
<1> QED BY <1>3, <1>4, <1>5 DEF OnDisk

\* What the harness appends to a message keeps.
LEMMA MarkedOnDisk ==
    ASSUME NEW F, NEW T \in Seq(Messages), NEW U \in Seq(Messages), NEW n \in Nat \cup {Stale}, NEW ph, NEW ph2,
           OnDisk(F, T, n, ph), Bare(U) = Bare(T), FileIsSound(F), ph2 # "opened"
    PROVE  OnDisk(F, U, n, ph2)
<1>1. F \in Seq(Messages)
  BY DEF FileIsSound
<1>2. Len(U) = Len(T) /\ (\A i \in 1..Len(U) : Same(U[i], T[i])) /\ LiveIds(U) = LiveIds(T)
  BY BareSame
<1>3. ASSUME n \notin {0, Stale} PROVE Begins(F, U, n)
  <2>1. Begins(F, T, n) /\ n \in 1..Len(T)
    BY <1>3 DEF OnDisk, Begins
  <2>2. Len(F) = n /\ \A i \in 1..n : Same(F[i], T[i])
    BY <1>1, <2>1, BeginsIs
  <2>3. n \in 1..Len(U) /\ \A i \in 1..n : Same(F[i], U[i])
    <3>1. n \in 1..Len(U)
      BY <1>2, <2>1
    <3>2. ASSUME NEW i \in 1..n PROVE Same(F[i], U[i])
      <4>1. i \in 1..Len(U)
        BY <3>1
      <4> QED BY <1>2, <2>2, <4>1 DEF Same
    <3> QED BY <3>1, <3>2
  <2> QED BY <1>1, <2>2, <2>3, BeginsIs
<1>4. LiveIds(F) \subseteq LiveIds(U)
  BY <1>2 DEF OnDisk
<1>5. \A i \in 1..Len(U) : U[i].role = "refusal" => U[i].id \in Ids(F)
  BY <1>2 DEF OnDisk, Same
<1> QED BY <1>3, <1>4, <1>5 DEF OnDisk

\* A message that is no reply, after a settled transcript.
LEMMA AppendHeld ==
    ASSUME NEW T, NEW ph, Held(T, ph), Settled(T), NEW m \in Messages, m.role \notin {"tool", "digest"},
           Len(T) >= 2 \/ m.role = "user"
    PROVE  LET U == Append(T, m)
           IN  /\ U \in Seq(Messages) /\ U # <<>> /\ Opens(U) /\ Digests(U) /\ Len(U) >= 2
               /\ Extends(T, U) /\ Len(U) = Len(T) + 1 /\ U[Len(U)] = m
               /\ Open(U) /\ (m.calls = {} => Settled(U))
               /\ \A i \in Len(T) + 1..Len(U) : U[i] = m
<1> DEFINE U == Append(T, m)
<1>1. T \in Seq(Messages)
  BY DEF Held
<1>2. /\ Extends(T, U) /\ Len(U) = Len(T) + 1 /\ U[Len(T) + 1] = m /\ U[Len(U)] = m
      /\ \A i \in Len(T) + 1..Len(U) : U[i] = m
  BY <1>1, AppendExtends
<1>3. Open(U) /\ (m.calls = {} => Settled(U))
  BY <1>1, AppendMessage
<1> HIDE DEF U
<1>4. Len(T) >= 2 \/ Len(U) < 2 \/ U[2].role = "user"
  <2> SUFFICES ASSUME ~(Len(T) >= 2), Len(U) >= 2 PROVE U[2].role = "user"
    <3>1. Len(U) \in Nat
      BY <1>2 DEF Extends
    <3> QED BY <3>1
  <2>1. Len(T) \in Nat
    BY <1>1
  <2>2. Len(T) + 1 = 2
    BY <1>2, <2>1
  <2> QED BY <1>2, <2>2
<1>5. U \in Seq(Messages) /\ U # <<>> /\ Opens(U) /\ Digests(U) /\ Len(T) <= Len(U) /\ Len(T) >= 1
  BY <1>2, <1>4, GrownHeld
<1>6. Len(U) >= 2
  BY <1>1, <1>2, <1>5
<1> QED BY <1>2, <1>3, <1>5, <1>6 DEF U

\* A save has been made: o is its outcome, and n what is counted then.
Saved(o, n, cost) ==
    /\ file' = o.file /\ synced' = o.synced /\ edits' = o.edits /\ archive' = archive
    /\ persisted' = n /\ n \in {o.persisted, IF o.ok THEN o.persisted ELSE Stale}
    /\ faults' = faults + cost /\ cost \in Nat /\ faults + cost <= MaxFaults

LEMMA SavedIs ==
    ASSUME Kinds, NEW T, NEW count, NEW pend \in Seq(Edits), NEW rewrite \in BOOLEAN,
           NEW o \in SavesOf(T, count, pend, rewrite), NEW n, NEW cost, Saved(o, n, cost), SaveFrom(T, count)
    PROVE  /\ FileIsSound(file') /\ synced' \in 0..Len(file') /\ persisted' \in Nat \cup {Stale}
           /\ edits' \in Seq(Edits) /\ faults' \in 0..MaxFaults
           /\ o.ends \in SUBSET Nat /\ o.points \in SUBSET Nat
           /\ Durable \subseteq Durable'
           /\ persisted' \notin {0, Stale} => Begins(file', T, persisted')
           /\ LiveIds(file') \subseteq LiveIds(T)
           /\ o.ok => Ids(file') = Ids(T)
           /\ ~o.ok => file' = file
<1>1. Outcome(o, T, count, pend)
  BY SavesAre
<1>2. /\ FileIsSound(o.file) /\ o.synced \in 0..Len(o.file)
      /\ o.persisted \in Nat \cup {Stale}
      /\ o.persisted \notin {0, Stale} => Begins(o.file, T, o.persisted)
      /\ LiveIds(o.file) \subseteq LiveIds(T)
      /\ Lasting(file, synced) \subseteq Lasting(o.file, o.synced)
      /\ o.ok => Ids(o.file) = Ids(T) /\ o.persisted = Len(T)
      /\ ~o.ok => o.file = file /\ o.persisted = count /\ o.edits = pend
      /\ o.edits \in {pend, <<>>}
  BY <1>1, SaveKeeps
<1>3. /\ file' = o.file /\ synced' = o.synced /\ edits' = o.edits /\ archive' = archive
      /\ persisted' = n /\ n \in {o.persisted, IF o.ok THEN o.persisted ELSE Stale}
      /\ faults' = faults + cost /\ cost \in Nat /\ faults + cost <= MaxFaults
  BY DEF Saved
<1>4. faults' \in 0..MaxFaults
  BY <1>3, BoundsAre DEF Kinds
<1>5. edits' \in Seq(Edits)
  <2>1. <<>> \in Seq(Edits)
    OBVIOUS
  <2> QED BY <1>2, <1>3, <2>1
<1>6. o.ends \in SUBSET Nat /\ o.points \in SUBSET Nat
  <2>1. Waits(o, pend) \/ Lands(o, pend)
    BY <1>1 DEF Outcome, KeptBy, WholeBy, TailBy
  <2>2. ends \in SUBSET Nat /\ points \in SUBSET Nat
    BY DEF Kinds
  <2>3. Followed(ends, pend) \in SUBSET Nat /\ Followed(points, pend) \in SUBSET Nat
    BY <2>2, FollowedTyped
  <2> QED BY <2>1, <2>2, <2>3 DEF Waits, Lands
<1>7. Durable \subseteq Durable'
  <2>1. Lasting(file, synced)' = Lasting(o.file, o.synced)
    BY <1>3 DEF Lasting
  <2>2. Durable = archive \cup Lasting(file, synced) /\ Durable' = archive' \cup Lasting(file, synced)'
    BY DEF Durable, Lasting
  <2> QED BY <1>2, <1>3, <2>1, <2>2
<1>8. persisted' \in Nat \cup {Stale} /\ (persisted' \notin {0, Stale} => Begins(file', T, persisted'))
  <2>1. persisted' = o.persisted \/ persisted' = Stale
    BY <1>3
  <2> QED BY <1>2, <1>3, <2>1
<1> QED BY <1>2, <1>3, <1>4, <1>5, <1>6, <1>7, <1>8

\* So has one whose transcript is the one in memory.
LEMMA SavedHeld ==
    ASSUME Kinds, NEW T, NEW count, NEW pend \in Seq(Edits), NEW rewrite \in BOOLEAN,
           NEW o \in SavesOf(T, count, pend, rewrite), NEW n, NEW cost, Saved(o, n, cost), SaveFrom(T, count),
           o.ok \/ \A i \in 1..Len(T) : T[i].role = "refusal" => T[i].id \in Ids(file),
           NEW ph, ph # "opened"
    PROVE  OnDisk(file', T, persisted', ph)
<1>1. /\ persisted' \notin {0, Stale} => Begins(file', T, persisted')
      /\ LiveIds(file') \subseteq LiveIds(T)
      /\ o.ok => Ids(file') = Ids(T)
      /\ ~o.ok => file' = file
  BY SavedIs
<1>2. \A i \in 1..Len(T) : T[i].role = "refusal" => T[i].id \in Ids(file')
  <2>1. CASE o.ok
    <3>1. DOMAIN T = 1..Len(T)
      BY DEF SaveFrom
    <3> QED BY <1>1, <2>1, <3>1 DEF Ids
  <2>2. CASE ~o.ok
    BY <1>1, <2>2
  <2> QED BY <2>1, <2>2
<1> QED BY <1>1, <1>2 DEF OnDisk

\* A transcript in memory may be saved.
LEMMA MaySave ==
    ASSUME Kinds, NEW T, NEW n, NEW ph, T \in Seq(Messages), Opens(T), Digests(T), OnDisk(file, T, n, ph),
           n \in Nat \cup {Stale}
    PROVE  SaveFrom(T, n) /\ SaveFrom(T, 0)
<1>1. FileIsSound(file) /\ synced \in 0..Len(file)
  BY DEF Kinds
<1> QED BY <1>1 DEF SaveFrom, OnDisk

\* The steps of a save are those of Saved.
LEMMA SaveStepIs ==
    ASSUME Kinds, NEW T, NEW count, NEW pend \in Seq(Edits), NEW rewrite \in BOOLEAN,
           NEW o \in SavesOf(T, count, pend, rewrite), SaveStep(o)
    PROVE  Saved(o, o.persisted, o.cost) /\ ends' = o.ends /\ points' = o.points
<1>1. Outcome(o, T, count, pend)
  BY SavesAre
<1>2. o.cost \in Nat /\ faults + o.cost <= MaxFaults
  BY <1>1 DEF Outcome
<1>3. /\ file' = o.file /\ synced' = o.synced /\ persisted' = o.persisted /\ edits' = o.edits
      /\ faults' = faults + o.cost /\ archive' = archive /\ ends' = o.ends /\ points' = o.points
  BY DEF SaveStep, Wrote
<1> QED BY <1>2, <1>3 DEF Saved

\* What an untouched disk keeps.
Untouched == UNCHANGED <<file, synced, archive>>

LEMMA UntouchedKeeps ==
    ASSUME Untouched PROVE Durable \subseteq Durable'
BY DEF Untouched, Durable

LEMMA ReplayHolds ==
    ASSUME IInv, Replay PROVE IInv' /\ Durable \subseteq Durable'
<1>1. /\ Kinds /\ Conversation /\ Proposal /\ mem = <<>>
      /\ points' = points \cup {Len(file)}
      /\ UNCHANGED <<file, synced, ends, archive, mem, persisted, edits, phase, cand, made, turn, faults>>
  BY DEF IInv, Replay, disk, data, bounds
<1>2. Len(file) \in Nat
  BY <1>1 DEF Kinds, FileIsSound
<1>3. Kinds'
  BY <1>1, <1>2 DEF Kinds
<1>4. Conversation'
  BY <1>1 DEF Conversation
<1>5. Proposal'
  BY <1>1 DEF Proposal, Pruning
<1>6. Untouched
  BY <1>1 DEF Untouched
<1> QED BY <1>3, <1>4, <1>5, <1>6, UntouchedKeeps DEF IInv

LEMMA HydrateNewHolds ==
    ASSUME IInv, HydrateNew PROVE IInv' /\ Durable \subseteq Durable'
<1>1. /\ Kinds /\ Conversation /\ Proposal /\ phase = "idle" /\ file = <<>>
      /\ mem' = <<System>> /\ persisted' = 0 /\ edits' = <<>>
      /\ UNCHANGED <<file, synced, ends, points, archive, phase, cand, made, turn, faults>>
  BY DEF IInv, HydrateNew, disk, index, bounds
<1> DEFINE T == <<System>>
<1>2. T \in Seq(Messages) /\ Len(T) = 1 /\ T[1] = System /\ T # <<>>
  BY SystemIs
<1> HIDE DEF T
<1>3. Settled(T)
  BY <1>2, SystemIs DEF Settled, Placed, Replied
<1>4. Held(T, "idle")
  BY <1>2, <1>3, SystemIs DEF Held, Opens, Digests
<1>5. OnDisk(<<>>, T, 0, "idle")
  <2>1. LiveIds(<<>>) = {}
    BY DEF LiveIds
  <2> QED BY <1>2, <2>1, SystemIs DEF OnDisk
<1>6. Kinds'
  <2>1. <<>> \in Seq(Edits)
    OBVIOUS
  <2> QED BY <1>1, <2>1 DEF Kinds
<1>7. Conversation'
  BY <1>1, <1>2, <1>4, <1>5 DEF Conversation, T
<1>8. Proposal'
  BY <1>1 DEF Proposal, Pruning
<1>9. Untouched
  BY <1>1 DEF Untouched
<1> QED BY <1>6, <1>7, <1>8, <1>9, UntouchedKeeps DEF IInv

LEMMA HydrateHolds ==
    ASSUME IInv, Hydrate PROVE IInv' /\ Durable \subseteq Durable'
<1> DEFINE r == Repaired(file)
           T == r.msgs
           E == r.edits
<1>1. /\ Kinds /\ Conversation /\ Proposal /\ phase = "idle" /\ file # <<>> /\ mem' = T
      /\ UNCHANGED <<phase, cand, made, turn>>
  BY DEF IInv, Hydrate
<1>2. \/ /\ E = <<>> /\ persisted' = Len(file) /\ edits' = <<>>
         /\ UNCHANGED <<disk, index, archive, bounds>>
      \/ \E o \in SavesOf(T, 0, E, TRUE) : SaveStep([o EXCEPT !.persisted = IF o.ok THEN @ ELSE Stale])
  BY DEF Hydrate
<1>3. file \in Seq(Messages) /\ (Opens(file) \/ file[1].role = "user") /\ Digests(file)
  BY <1>1 DEF Kinds, FileIsSound
<1>4. /\ T \in Seq(Messages) /\ Settled(T) /\ Opens(T) /\ Digests(T)
      /\ LiveIds(file) \subseteq LiveIds(T)
      /\ \A i \in 1..Len(T) : T[i].role = "refusal" => T[i].id \in Ids(file)
      /\ E \in Seq(Edits)
      /\ E = <<>> => T = file
  BY <1>1, <1>3, RepairedIs
<1> HIDE DEF r, T, E
<1>5. Held(T, "idle") /\ T # <<>>
  BY <1>4 DEF Held, Opens
<1>6. Proposal' /\ made' \in 0..MaxMade /\ turn' \in Nat /\ phase' = "idle" /\ phase' \in Phases
  BY <1>1 DEF Proposal, Pruning, Kinds, Phases
<1>7. CASE /\ E = <<>> /\ persisted' = Len(file) /\ edits' = <<>>
           /\ UNCHANGED <<disk, index, archive, bounds>>
  <2>1. UNCHANGED <<file, synced, ends, points, archive, faults>>
    BY <1>7 DEF disk, index, bounds
  <2>2. Len(file) \in Nat /\ Len(file) \in 1..Len(T) /\ Begins(file, T, Len(file))
    <3>1. T = file /\ Len(file) \in 1..Len(file)
      BY <1>1, <1>3, <1>4, <1>7, EmptySeq
    <3>2. SubSeq(file, 1, Len(file)) = file
      BY <1>3, WholePart
    <3>3. Begins(file, file, Len(file))
      BY <3>1, <3>2 DEF Begins
    <3>4. Len(file) \in Nat
      BY <1>3
    <3> QED BY <3>1, <3>3, <3>4
  <2>3. OnDisk(file, T, Len(file), "idle")
    BY <1>4, <2>2 DEF OnDisk
  <2>4. Kinds'
    <3>1. <<>> \in Seq(Edits)
      OBVIOUS
    <3> QED BY <1>1, <1>6, <1>7, <2>1, <2>2, <3>1 DEF Kinds
  <2>5. Conversation'
    BY <1>1, <1>5, <1>6, <1>7, <2>1, <2>3 DEF Conversation
  <2>6. Untouched
    BY <2>1 DEF Untouched
  <2> QED BY <1>6, <2>4, <2>5, <2>6, UntouchedKeeps DEF IInv
<1>8. CASE \E o \in SavesOf(T, 0, E, TRUE) : SaveStep([o EXCEPT !.persisted = IF o.ok THEN @ ELSE Stale])
  <2>1. PICK o \in SavesOf(T, 0, E, TRUE) : SaveStep([o EXCEPT !.persisted = IF o.ok THEN @ ELSE Stale])
    BY <1>8
  <2> DEFINE n == IF o.ok THEN o.persisted ELSE Stale
             q == [o EXCEPT !.persisted = n]
  <2>2. Outcome(o, T, 0, E)
    BY <1>4, SavesAre
  <2>3. DOMAIN o = Fields /\ o.cost \in Nat /\ faults + o.cost <= MaxFaults
    BY <2>2 DEF Outcome
  <2>4. /\ q.file = o.file /\ q.synced = o.synced /\ q.edits = o.edits /\ q.cost = o.cost /\ q.persisted = n
        /\ q.ends = o.ends /\ q.points = o.points
    BY <2>3 DEF Fields
  <2>5. SaveStep(q)
    BY <2>1
  <2> HIDE DEF q
  <2>6. /\ file' = o.file /\ synced' = o.synced /\ persisted' = n /\ edits' = o.edits
        /\ faults' = faults + o.cost /\ archive' = archive /\ ends' = o.ends /\ points' = o.points
    BY <2>4, <2>5 DEF SaveStep, Wrote
  <2>7. Saved(o, n, o.cost)
    BY <2>3, <2>6 DEF Saved
  <2>8. SaveFrom(T, 0)
    BY <1>1, <1>4 DEF SaveFrom, Kinds
  <2> HIDE DEF n
  <2>9. /\ FileIsSound(file') /\ synced' \in 0..Len(file') /\ persisted' \in Nat \cup {Stale}
        /\ edits' \in Seq(Edits) /\ faults' \in 0..MaxFaults
        /\ o.ends \in SUBSET Nat /\ o.points \in SUBSET Nat /\ Durable \subseteq Durable'
    BY <1>1, <1>4, <2>7, <2>8, SavedIs
  <2>10. OnDisk(file', T, persisted', "idle")
    BY <1>1, <1>4, <2>7, <2>8, SavedHeld
  <2>11. Kinds'
    BY <1>6, <2>6, <2>9 DEF Kinds
  <2>12. Conversation'
    BY <1>1, <1>5, <1>6, <2>10 DEF Conversation
  <2> QED BY <1>6, <2>9, <2>11, <2>12 DEF IInv
<1> QED BY <1>2, <1>7, <1>8

LEMMA ReloadHolds ==
    ASSUME IInv, Reload PROVE IInv' /\ Durable \subseteq Durable'
<1>1. /\ Kinds /\ Conversation /\ Proposal /\ phase = "idle" /\ mem # <<>>
      /\ UNCHANGED <<mem, phase, cand, made, turn>>
  BY DEF IInv, Reload
<1>2. PICK o \in SavesOf(mem, 0, edits, TRUE) : SaveStep(o)
  BY DEF Reload
<1>3. Held(mem, "idle") /\ OnDisk(file, mem, persisted, "idle") /\ persisted \in Nat \cup {Stale} /\ edits \in Seq(Edits)
  BY <1>1 DEF Conversation, Kinds
<1>4. SaveFrom(mem, 0)
  BY <1>1, <1>3, MaySave DEF Held
<1>5. Saved(o, o.persisted, o.cost) /\ ends' = o.ends /\ points' = o.points
  BY <1>1, <1>2, <1>3, SaveStepIs
<1>6. /\ FileIsSound(file') /\ synced' \in 0..Len(file') /\ persisted' \in Nat \cup {Stale}
      /\ edits' \in Seq(Edits) /\ faults' \in 0..MaxFaults
      /\ o.ends \in SUBSET Nat /\ o.points \in SUBSET Nat /\ Durable \subseteq Durable'
  BY <1>1, <1>3, <1>4, <1>5, SavedIs
<1>7. OnDisk(file', mem, persisted', "idle")
  <2>1. \A i \in 1..Len(mem) : mem[i].role = "refusal" => mem[i].id \in Ids(file)
    BY <1>3 DEF OnDisk
  <2> QED BY <1>1, <1>3, <1>4, <1>5, <2>1, SavedHeld
<1>8. Kinds'
  BY <1>1, <1>5, <1>6 DEF Kinds
<1>9. Conversation'
  BY <1>1, <1>3, <1>7 DEF Conversation
<1>10. Proposal'
  BY <1>1 DEF Proposal, Pruning
<1> QED BY <1>6, <1>8, <1>9, <1>10 DEF IInv

LEMMA OneMore ==
    ASSUME NEW T \in Seq(Messages), NEW N \in Seq(Messages), Len(N) = 1
    PROVE  T \o N = Append(T, N[1])
<1>0. N[1] \in Messages /\ Len(T) \in Nat
  OBVIOUS
<1> DEFINE A == Append(T, N[1])
           B == T \o N
<1>1. A \in Seq(Messages) /\ Len(A) = Len(T) + 1 /\ A[Len(T) + 1] = N[1] /\ \A i \in 1..Len(T) : A[i] = T[i]
  BY <1>0, AppendLike
<1>2. B \in Seq(Messages) /\ Len(B) = Len(T) + 1 /\ B[Len(T) + 1] = N[1] /\ \A i \in 1..Len(T) : B[i] = T[i]
  <2>1. /\ B \in Seq(Messages) /\ Len(B) = Len(T) + Len(N)
        /\ \A i \in 1..Len(T) : B[i] = T[i]
        /\ \A i \in 1..Len(N) : B[Len(T) + i] = N[i]
    BY Joined
  <2>2. 1 \in 1..Len(N)
    OBVIOUS
  <2> QED BY <2>1, <2>2
<1> HIDE DEF A, B
<1>3. ASSUME NEW i \in 1..Len(A) PROVE A[i] = B[i]
  <2>1. i \in 1..Len(T) \/ i = Len(T) + 1
    BY <1>0, <1>1
  <2> QED BY <1>1, <1>2, <2>1
<1>4. A = B
  BY <1>1, <1>2, <1>3, SeqEqual
<1> QED BY <1>4 DEF A, B

LEMMA TwoMore ==
    ASSUME NEW T \in Seq(Messages), NEW N \in Seq(Messages), Len(N) = 2
    PROVE  T \o N = Append(Append(T, N[1]), N[2])
<1>0. N[1] \in Messages /\ N[2] \in Messages /\ Len(T) \in Nat /\ Len(T) + 1 + 1 = Len(T) + 2
  OBVIOUS
<1> DEFINE A1 == Append(T, N[1])
           A == Append(A1, N[2])
           B == T \o N
<1>1. A1 \in Seq(Messages) /\ Len(A1) = Len(T) + 1 /\ A1[Len(T) + 1] = N[1] /\ \A i \in 1..Len(T) : A1[i] = T[i]
  BY <1>0, AppendLike
<1> HIDE DEF A1
<1>2. A \in Seq(Messages) /\ Len(A) = Len(A1) + 1 /\ A[Len(A1) + 1] = N[2] /\ \A i \in 1..Len(A1) : A[i] = A1[i]
  BY <1>0, <1>1, AppendLike
<1>3. /\ B \in Seq(Messages) /\ Len(B) = Len(T) + 2 /\ B[Len(T) + 1] = N[1] /\ B[Len(T) + 2] = N[2]
      /\ \A i \in 1..Len(T) : B[i] = T[i]
  <2>1. /\ B \in Seq(Messages) /\ Len(B) = Len(T) + Len(N)
        /\ \A i \in 1..Len(T) : B[i] = T[i]
        /\ \A i \in 1..Len(N) : B[Len(T) + i] = N[i]
    BY Joined
  <2>2. 1 \in 1..Len(N) /\ 2 \in 1..Len(N)
    OBVIOUS
  <2> QED BY <2>1, <2>2
<1> HIDE DEF A, B
<1>4. ASSUME NEW i \in 1..Len(A) PROVE A[i] = B[i]
  <2>1. i \in 1..Len(T) \/ i = Len(T) + 1 \/ i = Len(T) + 2
    BY <1>0, <1>1, <1>2
  <2>2. CASE i \in 1..Len(T)
    <3>1. i \in 1..Len(A1)
      BY <1>1, <2>2
    <3> QED BY <1>1, <1>2, <1>3, <2>2, <3>1
  <2>3. CASE i = Len(T) + 1
    <3>1. Len(T) + 1 \in 1..Len(A1)
      BY <1>0, <1>1
    <3> QED BY <1>1, <1>2, <1>3, <2>3, <3>1
  <2>4. CASE i = Len(T) + 2
    BY <1>0, <1>1, <1>2, <1>3, <2>4
  <2> QED BY <2>1, <2>2, <2>3, <2>4
<1>5. A = B
  BY <1>0, <1>1, <1>2, <1>3, <1>4, SeqEqual
<1> QED BY <1>5 DEF A, B, A1

LEMMA FrontOfAppend ==
    ASSUME NEW T \in Seq(Messages), NEW m \in Messages
    PROVE  Front(Append(T, m)) = T
<1> DEFINE U == Append(T, m)
<1>1. /\ U \in Seq(Messages) /\ Len(U) = Len(T) + 1
      /\ \A i \in 1..Len(T) : U[i] = T[i]
  BY AppendLike
<1>2. Front(U) = SubSeq(U, 1, Len(U) - 1)
  BY DEF Front
<1> HIDE DEF U
<1>3. Len(U) - 1 = Len(T) /\ Len(T) \in 1 - 1..Len(U) /\ 1 \in 1..Len(U) + 1 /\ Len(T) - 1 + 1 = Len(T)
  BY <1>1
<1> DEFINE P == SubSeq(U, 1, Len(T))
<1>4. P \in Seq(Messages) /\ Len(P) = Len(T) - 1 + 1 /\ \A i \in 1..Len(T) - 1 + 1 : P[i] = U[1 + i - 1]
  BY <1>1, <1>3, Part
<1> HIDE DEF P
<1>5. ASSUME NEW i \in 1..Len(T) PROVE P[i] = T[i]
  <2>1. 1 + i - 1 = i
    OBVIOUS
  <2> QED BY <1>1, <1>3, <1>4, <2>1
<1>6. P = T
  BY <1>3, <1>4, <1>5, SeqEqual
<1> QED BY <1>2, <1>3, <1>6 DEF P, U

\* A step that leaves the disk alone, and what it must show.
LEMMA InMemoryKeeps ==
    ASSUME IInv, InMemory
    PROVE  /\ Durable \subseteq Durable'
           /\ made' \in 0..MaxMade /\ phase' \in Phases /\ turn' \in Nat => Kinds'
           /\ file' = file /\ persisted' = persisted /\ cand' = cand
           /\ ~Pruning /\ ~Pruning' => Proposal'
           /\ mem' # <<>> /\ Held(mem', phase') /\ OnDisk(file, mem', persisted, phase') => Conversation'
<1>1. UNCHANGED <<file, synced, ends, points, archive, persisted, edits, faults, cand>>
  BY DEF InMemory, disk, index
<1>2. Kinds /\ Proposal
  BY DEF IInv
<1>3. Untouched
  BY <1>1 DEF Untouched
<1>4. made' \in 0..MaxMade /\ phase' \in Phases /\ turn' \in Nat => Kinds'
  BY <1>1, <1>2 DEF Kinds
<1>5. ~Pruning /\ ~Pruning' => Proposal'
  BY <1>1, <1>2 DEF Proposal
<1>6. mem' # <<>> /\ Held(mem', phase') /\ OnDisk(file, mem', persisted, phase') => Conversation'
  BY <1>1 DEF Conversation
<1> QED BY <1>1, <1>3, <1>4, <1>5, <1>6, UntouchedKeeps

\* The counts of a step.
LEMMA MakesIs ==
    ASSUME Kinds, NEW n \in Nat, Makes(n)
    PROVE  made \in Nat /\ turn \in Nat /\ made' \in 0..MaxMade /\ Next1 \in Nat
BY BoundsAre DEF Kinds, Makes, Next1

\* What a work has loaded.
LEMMA Loaded ==
    ASSUME IInv, mem # <<>> \/ phase # "idle"
    PROVE  /\ Kinds /\ mem # <<>> /\ Held(mem, phase) /\ OnDisk(file, mem, persisted, phase)
           /\ mem \in Seq(Messages) /\ FileIsSound(file) /\ persisted \in Nat \cup {Stale} /\ edits \in Seq(Edits)
           /\ made \in 0..MaxMade /\ turn \in Nat /\ Opens(mem) /\ Digests(mem)
BY DEF IInv, Conversation, Kinds, Held

\* The prompt's messages, one after the other.
LEMMA PromptAdds ==
    ASSUME Kinds, mem \in Seq(Messages), Prompt
    PROVE  LET u == User(made + 1, turn + 1)
               v == User(made + 2, turn + 1)
           IN  /\ u \in Messages /\ u.role = "user" /\ u.calls = {} /\ v \in Messages /\ v.role = "user" /\ v.calls = {}
               /\ u.turn = turn + 1 /\ v.turn = turn + 1 /\ made' \in 0..MaxMade
               /\ mem' = Append(mem, u) \/ mem' = Append(Append(mem, u), v)
<1> DEFINE t == turn + 1
           u == User(made + 1, t)
           v == User(made + 2, t)
           A == Append(mem, u)
           B == Append(A, v)
           N(n) == [k \in 1..n |-> User(made + k, t)]
<1>1. PICK notes \in 0..1 : Makes(notes + 1) /\ mem' = mem \o [k \in 1..notes + 1 |-> User(made + k, turn + 1)]
  BY DEF Prompt
<1>2. made \in Nat /\ turn \in Nat
  BY BoundsAre DEF Kinds
<1>3. made' \in 0..MaxMade
  <2>1. notes + 1 \in Nat
    BY <1>1
  <2> QED BY <1>1, <2>1, MakesIs
<1>4. u \in Messages /\ u.role = "user" /\ u.calls = {} /\ v \in Messages /\ v.role = "user" /\ v.calls = {}
  <2>1. made + 1 \in Nat /\ made + 2 \in Nat /\ t \in Nat
    BY <1>2
  <2> QED BY <2>1, MadeIs
<1>5. u.turn = t /\ v.turn = t
  BY DEF User, Message
<1>6. mem' = A \/ mem' = B
  <2>1. CASE notes = 0
    <3>1. mem' = mem \o N(1)
      BY <1>1, <2>1
    <3>2. N(1) \in Seq(Messages) /\ Len(N(1)) = 1 /\ N(1)[1] = u
      <4>1. N(1) = <<u>>
        BY <1>2
      <4> HIDE DEF u
      <4> QED BY <1>4, <4>1
    <3> HIDE DEF N, u
    <3>3. mem \o N(1) = Append(mem, u)
      BY <3>2, OneMore
    <3> QED BY <3>1, <3>3
  <2>2. CASE notes = 1
    <3>1. mem' = mem \o N(2)
      BY <1>1, <2>2
    <3>2. N(2) \in Seq(Messages) /\ Len(N(2)) = 2 /\ N(2)[1] = u /\ N(2)[2] = v
      <4>1. N(2) = <<u, v>>
        BY <1>2
      <4> HIDE DEF u, v
      <4> QED BY <1>4, <4>1
    <3> HIDE DEF N, u, v
    <3>3. mem \o N(2) = Append(Append(mem, u), v)
      BY <3>2, TwoMore
    <3> QED BY <3>1, <3>3
  <2> QED BY <1>1, <2>1, <2>2
<1> QED BY <1>3, <1>4, <1>5, <1>6

LEMMA PromptHolds ==
    ASSUME IInv, Prompt PROVE IInv' /\ Durable \subseteq Durable'
<1> DEFINE t == turn + 1
           u == User(made + 1, t)
           v == User(made + 2, t)
           A == Append(mem, u)
           B == Append(A, v)
<1>1. /\ phase = "idle" /\ mem # <<>> /\ turn' = turn + 1 /\ phase' = "opened" /\ InMemory
  BY DEF Prompt
<1>3. /\ Kinds /\ Held(mem, "idle") /\ OnDisk(file, mem, persisted, "idle")
      /\ mem \in Seq(Messages) /\ FileIsSound(file) /\ persisted \in Nat \cup {Stale}
      /\ made \in Nat /\ turn \in Nat /\ Settled(mem)
  BY <1>1, Loaded, BoundsAre DEF Held
<1>5. /\ u \in Messages /\ u.role = "user" /\ u.calls = {} /\ v \in Messages /\ v.role = "user" /\ v.calls = {}
      /\ made' \in 0..MaxMade /\ (mem' = A \/ mem' = B)
  BY <1>3, PromptAdds
<1>4. made' \in 0..MaxMade /\ turn' \in Nat
  BY <1>1, <1>3, <1>5
<1> HIDE DEF u, v
<1>7. /\ A \in Seq(Messages) /\ A # <<>> /\ Opens(A) /\ Digests(A) /\ Len(A) >= 2 /\ Extends(mem, A)
      /\ Len(A) = Len(mem) + 1 /\ A[Len(A)] = u /\ Settled(A) /\ \A i \in Len(mem) + 1..Len(A) : A[i] = u
  BY <1>3, <1>5, AppendHeld
<1> HIDE DEF A
<1>8. Held(A, "top") /\ OnDisk(file, A, persisted, "top") /\ Held(A, "opened")
  <2>1. Held(A, "top") /\ Held(A, "opened")
    BY <1>5, <1>7 DEF Held
  <2> QED BY <1>3, <1>5, <1>7, <2>1, GrownOnDisk
<1>9. /\ B \in Seq(Messages) /\ B # <<>> /\ Opens(B) /\ Digests(B) /\ Len(B) >= 2 /\ Extends(A, B)
      /\ Len(B) = Len(A) + 1 /\ B[Len(B)] = v /\ Settled(B) /\ \A i \in Len(A) + 1..Len(B) : B[i] = v
  BY <1>5, <1>7, <1>8, AppendHeld DEF Held
<1> HIDE DEF B
<1>10. Held(B, "opened") /\ OnDisk(file, B, persisted, "top")
  <2>1. Held(B, "opened")
    BY <1>5, <1>9 DEF Held
  <2> QED BY <1>3, <1>5, <1>8, <1>9, <2>1, GrownOnDisk
<1>11. LiveIds(file) \subseteq LiveIds(mem) /\ (persisted # Stale => persisted <= Len(mem)) /\ Len(mem) \in Nat
  <2>1. persisted \in {0, Stale} \/ persisted \in 1..Len(mem)
    BY <1>3 DEF OnDisk, Begins
  <2> QED BY <1>3, <2>1 DEF OnDisk
<1>12. OnDisk(file, A, persisted, "opened") /\ OnDisk(file, B, persisted, "opened")
  <2>1. Front(A) = mem
    BY <1>3, <1>5, FrontOfAppend DEF A
  <2>2. Front(B) = A
    BY <1>5, <1>7, FrontOfAppend DEF B
  <2>3. LiveIds(file) \subseteq LiveIds(A)
    BY <1>8 DEF OnDisk
  <2>4. persisted # Stale => persisted < Len(A) /\ persisted < Len(B)
    BY <1>3, <1>7, <1>9, <1>11
  <2>5. OnDisk(file, A, persisted, "opened")
    BY <1>8, <1>11, <2>1, <2>4 DEF OnDisk
  <2>6. OnDisk(file, B, persisted, "opened")
    BY <1>10, <2>2, <2>3, <2>4 DEF OnDisk
  <2> QED BY <2>5, <2>6
<1>13. mem' # <<>> /\ Held(mem', phase') /\ OnDisk(file, mem', persisted, phase')
  BY <1>1, <1>5, <1>7, <1>8, <1>9, <1>10, <1>12
<1>14. ~Pruning /\ ~Pruning' /\ phase' \in Phases
  BY <1>1 DEF Pruning, Phases
<1> QED BY <1>1, <1>4, <1>13, <1>14, InMemoryKeeps DEF IInv

LEMMA UnresolvedHolds ==
    ASSUME IInv, Unresolved PROVE IInv' /\ Durable \subseteq Durable'
<1>1. phase = "opened" /\ mem' = Front(mem) /\ phase' = "idle" /\ made' = made /\ turn' = turn /\ InMemory
  BY DEF Unresolved
<1>2. /\ Kinds /\ Held(mem, "opened") /\ OnDisk(file, mem, persisted, "opened")
      /\ mem \in Seq(Messages) /\ FileIsSound(file) /\ persisted \in Nat \cup {Stale} /\ mem # <<>>
      /\ made \in 0..MaxMade /\ turn \in Nat /\ Settled(mem) /\ Len(mem) >= 2 /\ mem[Len(mem)].role = "user"
      /\ Opens(mem) /\ Digests(mem)
  BY <1>1, Loaded DEF Held
<1> DEFINE F == Front(mem)
<1>3. F \in Seq(Messages) /\ Len(F) = Len(mem) - 1 /\ (\A i \in 1..Len(mem) - 1 : F[i] = mem[i]) /\ Settled(F)
  BY <1>2, FrontSettled
<1> HIDE DEF F
<1>4. Extends(F, mem) /\ F # <<>>
  BY <1>2, <1>3 DEF Extends
<1>5. Held(F, "idle")
  <2>1. Opens(F) /\ Digests(F)
    BY <1>2, <1>4, ExtendsKeeps
  <2> QED BY <1>3, <1>4, <2>1 DEF Held
<1>6. OnDisk(file, F, persisted, "idle")
  <2>1. ASSUME persisted \notin {0, Stale} PROVE Begins(file, F, persisted)
    <3>1. Begins(file, mem, persisted) /\ persisted \in 1..Len(mem) /\ persisted < Len(mem)
      BY <1>2, <2>1 DEF OnDisk, Begins
    <3>2. Len(file) = persisted /\ \A i \in 1..persisted : Same(file[i], mem[i])
      BY <1>2, <3>1, BeginsIs DEF FileIsSound
    <3>3. persisted \in 1..Len(F)
      BY <1>2, <1>3, <3>1
    <3>4. \A i \in 1..persisted : i \in 1..Len(mem) - 1
      BY <1>2, <1>3, <3>3
    <3>5. \A i \in 1..persisted : Same(file[i], F[i])
      BY <1>3, <3>2, <3>4
    <3> QED BY <1>2, <1>3, <3>2, <3>3, <3>5, BeginsIs DEF FileIsSound
  <2>2. LiveIds(file) \subseteq LiveIds(F)
    BY <1>2 DEF OnDisk, F
  <2>3. ASSUME NEW i \in 1..Len(F), F[i].role = "refusal" PROVE F[i].id \in Ids(file)
    <3>1. i \in 1..Len(mem) /\ F[i] = mem[i]
      BY <1>2, <1>3
    <3> QED BY <1>2, <2>3, <3>1 DEF OnDisk
  <2> QED BY <2>1, <2>2, <2>3 DEF OnDisk
<1>7. ~Pruning /\ ~Pruning' /\ phase' \in Phases
  BY <1>1 DEF Pruning, Phases
<1>8. mem' # <<>> /\ Held(mem', phase') /\ OnDisk(file, mem', persisted, phase')
  BY <1>1, <1>4, <1>5, <1>6 DEF F
<1> QED BY <1>1, <1>2, <1>7, <1>8, InMemoryKeeps DEF IInv

\* A save of the transcript in memory, at any place of a turn.
LEMMA TurnSaved ==
    ASSUME IInv, NEW T \in Seq(Messages), Opens(T), Digests(T), NEW ph0, OnDisk(file, T, persisted, ph0),
           NEW rewrite \in BOOLEAN, NEW o \in Saves(T, rewrite), SaveStep(o)
    PROVE  /\ Durable \subseteq Durable'
           /\ made' \in 0..MaxMade /\ phase' \in Phases /\ turn' \in Nat => Kinds'
           /\ OnDisk(file', T, persisted', "top")
           /\ (o.edits = <<>>) => (edits' = <<>>)
<1>1. Kinds /\ persisted \in Nat \cup {Stale} /\ edits \in Seq(Edits)
  BY DEF IInv, Kinds
<1>2. SaveFrom(T, persisted)
  BY <1>1, MaySave
<1>3. o \in SavesOf(T, persisted, edits, rewrite)
  BY DEF Saves
<1>4. Saved(o, o.persisted, o.cost) /\ ends' = o.ends /\ points' = o.points
  BY <1>1, <1>3, SaveStepIs
<1>5. /\ FileIsSound(file') /\ synced' \in 0..Len(file') /\ persisted' \in Nat \cup {Stale}
      /\ edits' \in Seq(Edits) /\ faults' \in 0..MaxFaults
      /\ o.ends \in SUBSET Nat /\ o.points \in SUBSET Nat /\ Durable \subseteq Durable'
  BY <1>1, <1>2, <1>3, <1>4, SavedIs
<1>6. \A i \in 1..Len(T) : T[i].role = "refusal" => T[i].id \in Ids(file)
  BY DEF OnDisk
<1>7. OnDisk(file', T, persisted', "top")
  BY <1>1, <1>2, <1>3, <1>4, <1>6, SavedHeld
<1>8. made' \in 0..MaxMade /\ phase' \in Phases /\ turn' \in Nat => Kinds'
  BY <1>4, <1>5 DEF Kinds
<1>9. edits' = o.edits
  BY <1>4 DEF Saved
<1> QED BY <1>5, <1>7, <1>8, <1>9

LEMMA Proposes ==
    ASSUME IInv, ~Pruning, ~Pruning', cand' = cand PROVE Proposal'
BY DEF IInv, Proposal

LEMMA SteerHolds ==
    ASSUME IInv, Steer PROVE IInv' /\ Durable \subseteq Durable'
<1>1. /\ phase \in {"opened", "top", "judged"} /\ Makes(1) /\ mem' = Append(mem, User(Next1, turn))
      /\ phase' \in {"top", "tell"} /\ cand' = cand /\ turn' = turn
  BY DEF Steer
<1>2. PICK o \in Saves(mem', FALSE) : SaveStep(o)
  BY DEF Steer
<1>3. /\ Kinds /\ Held(mem, phase) /\ OnDisk(file, mem, persisted, phase)
      /\ mem \in Seq(Messages) /\ FileIsSound(file) /\ persisted \in Nat \cup {Stale}
      /\ made \in Nat /\ turn \in Nat /\ Settled(mem)
  BY <1>1, Loaded, BoundsAre DEF Held
<1>4. made' \in 0..MaxMade /\ turn' \in Nat /\ Next1 \in Nat
  BY <1>1, <1>3, MakesIs
<1> DEFINE u == User(Next1, turn)
           T == Append(mem, u)
<1>5. u \in Messages /\ u.role = "user" /\ u.calls = {}
  BY <1>3, <1>4, MadeIs
<1> HIDE DEF u
<1>6. /\ T \in Seq(Messages) /\ T # <<>> /\ Opens(T) /\ Digests(T) /\ Len(T) >= 2
      /\ Extends(mem, T) /\ Settled(T) /\ \A i \in Len(mem) + 1..Len(T) : T[i] = u
  BY <1>3, <1>5, AppendHeld
<1>7. mem' = T
  BY <1>1 DEF u
<1> HIDE DEF T
<1>8. OnDisk(file, T, persisted, "top")
  BY <1>3, <1>5, <1>6, GrownOnDisk
<1>9. o \in Saves(T, FALSE)
  BY <1>2, <1>7
<1>10. /\ Durable \subseteq Durable'
       /\ made' \in 0..MaxMade /\ phase' \in Phases /\ turn' \in Nat => Kinds'
       /\ OnDisk(file', T, persisted', "top")
  <2>1. Durable \subseteq Durable'
    BY <1>2, <1>6, <1>8, <1>9, TurnSaved
  <2>2. made' \in 0..MaxMade /\ phase' \in Phases /\ turn' \in Nat => Kinds'
    BY <1>2, <1>6, <1>8, <1>9, TurnSaved
  <2>3. OnDisk(file', T, persisted', "top")
    BY <1>2, <1>6, <1>8, <1>9, TurnSaved
  <2> QED BY <2>1, <2>2, <2>3
<1>11. phase' \in Phases /\ ~Pruning /\ ~Pruning'
  BY <1>1 DEF Pruning, Phases
<1>12. Held(T, phase') /\ OnDisk(file', T, persisted', phase')
  BY <1>1, <1>6, <1>10 DEF Held, OnDisk
<1>13. Conversation'
  BY <1>6, <1>7, <1>12 DEF Conversation
<1> QED BY <1>1, <1>4, <1>10, <1>11, <1>13, Proposes DEF IInv

\* The steps of a turn that only move it on.
LEMMA MovesOn ==
    ASSUME IInv, mem' = mem, made' = made, turn' = turn, InMemory, phase # "idle", phase' # "idle",
           ~Pruning, ~Pruning', phase' \in Phases \ {"opened", "calls"}, phase' = "cancelled" \/ Settled(mem)
    PROVE  IInv' /\ Durable \subseteq Durable'
<1>1. /\ Kinds /\ Held(mem, phase) /\ OnDisk(file, mem, persisted, phase) /\ mem # <<>>
      /\ made \in 0..MaxMade /\ turn \in Nat
  BY Loaded
<1>2. Open(mem)
  BY <1>1, SettledIsOpen DEF Held
<1>3. Held(mem, phase')
  BY <1>1, <1>2 DEF Held
<1>4. OnDisk(file, mem, persisted, phase')
  BY <1>1 DEF OnDisk
<1> QED BY <1>1, <1>3, <1>4, InMemoryKeeps DEF IInv

LEMMA NoSteerHolds ==
    ASSUME IInv, NoSteer PROVE IInv' /\ Durable \subseteq Durable'
<1>1. /\ phase \in {"opened", "top"} /\ phase' \in {"tell", "closing"}
      /\ mem' = mem /\ made' = made /\ turn' = turn /\ InMemory
  BY DEF NoSteer
<1>2. Settled(mem)
  BY <1>1, Loaded DEF Held
<1>3. ~Pruning /\ ~Pruning' /\ phase' \in Phases
  BY <1>1 DEF Pruning, Phases
<1> QED BY <1>1, <1>2, <1>3, MovesOn

LEMMA RequestHolds ==
    ASSUME IInv, Request PROVE IInv' /\ Durable \subseteq Durable'
<1>1. /\ phase = "tell" /\ phase' \in {"request", "closing"}
      /\ mem' = mem /\ made' = made /\ turn' = turn /\ InMemory
  BY DEF Request
<1>2. Settled(mem)
  BY <1>1, Loaded DEF Held
<1>3. ~Pruning /\ ~Pruning' /\ phase' \in Phases
  BY <1>1 DEF Pruning, Phases
<1> QED BY <1>1, <1>2, <1>3, MovesOn

LEMMA NoReplyHolds ==
    ASSUME IInv, NoReply PROVE IInv' /\ Durable \subseteq Durable'
<1>1. /\ phase = "request" /\ phase' \in {"closing", "judged", "cancelled"}
      /\ mem' = mem /\ made' = made /\ turn' = turn /\ InMemory
  BY DEF NoReply
<1>2. Settled(mem)
  BY <1>1, Loaded DEF Held
<1>3. ~Pruning /\ ~Pruning' /\ phase' \in Phases
  BY <1>1 DEF Pruning, Phases
<1> QED BY <1>1, <1>2, <1>3, MovesOn

LEMMA CancelHolds ==
    ASSUME IInv, Cancel PROVE IInv' /\ Durable \subseteq Durable'
<1>1. /\ phase \in {"calls", "judged"} /\ phase' = "cancelled"
      /\ mem' = mem /\ made' = made /\ turn' = turn /\ InMemory
  BY DEF Cancel
<1>3. ~Pruning /\ ~Pruning' /\ phase' \in Phases
  BY <1>1 DEF Pruning, Phases
<1> QED BY <1>1, <1>3, MovesOn

LEMMA JudgeHolds ==
    ASSUME IInv, Judge PROVE IInv' /\ Durable \subseteq Durable'
<1>1. /\ phase = "judged" /\ phase' = "closing"
      /\ mem' = mem /\ made' = made /\ turn' = turn /\ InMemory
  BY DEF Judge
<1>2. Settled(mem)
  BY <1>1, Loaded DEF Held
<1>3. ~Pruning /\ ~Pruning' /\ phase' \in Phases
  BY <1>1 DEF Pruning, Phases
<1> QED BY <1>1, <1>2, <1>3, MovesOn

LEMMA AnswerHolds ==
    ASSUME IInv, Answer PROVE IInv' /\ Durable \subseteq Durable'
<1>1. phase = "request" /\ Makes(1) /\ cand' = cand /\ turn' = turn
  BY DEF Answer
<1>2. PICK n \in 0..MaxCalls :
         mem' = Append(mem, Assistant(Next1, 1..n, turn)) /\ phase' \in {"cancelled", IF n = 0 THEN "judged" ELSE "calls"}
  BY DEF Answer
<1>3. PICK o \in Saves(mem', FALSE) : SaveStep(o)
  BY DEF Answer
<1>4. /\ Kinds /\ Held(mem, phase) /\ OnDisk(file, mem, persisted, phase)
      /\ mem \in Seq(Messages) /\ FileIsSound(file) /\ persisted \in Nat \cup {Stale}
      /\ made \in Nat /\ turn \in Nat /\ Settled(mem) /\ Len(mem) >= 2
  BY <1>1, Loaded, BoundsAre DEF Held
<1>5. made' \in 0..MaxMade /\ turn' \in Nat /\ Next1 \in Nat
  BY <1>1, <1>4, MakesIs
<1> DEFINE u == Assistant(Next1, 1..n, turn)
           T == Append(mem, u)
<1>6. u \in Messages /\ u.role = "assistant" /\ u.calls = 1..n
  <2>1. 1..n \in SUBSET Names
    BY BoundsAre DEF Names
  <2> QED BY <1>4, <1>5, <2>1, MadeIs
<1> HIDE DEF u
<1>7. /\ T \in Seq(Messages) /\ T # <<>> /\ Opens(T) /\ Digests(T) /\ Len(T) >= 2
      /\ Extends(mem, T) /\ T[Len(T)] = u /\ Open(T) /\ (u.calls = {} => Settled(T))
      /\ \A i \in Len(mem) + 1..Len(T) : T[i] = u
  BY <1>4, <1>6, AppendHeld
<1>8. mem' = T
  BY <1>2 DEF u
<1> HIDE DEF T
<1>9. OnDisk(file, T, persisted, "top")
  BY <1>4, <1>6, <1>7, GrownOnDisk
<1>10. o \in Saves(T, FALSE)
  BY <1>3, <1>8
<1>11. /\ Durable \subseteq Durable'
       /\ made' \in 0..MaxMade /\ phase' \in Phases /\ turn' \in Nat => Kinds'
       /\ OnDisk(file', T, persisted', "top")
  <2>1. Durable \subseteq Durable'
    BY <1>3, <1>7, <1>9, <1>10, TurnSaved
  <2>2. made' \in 0..MaxMade /\ phase' \in Phases /\ turn' \in Nat => Kinds'
    BY <1>3, <1>7, <1>9, <1>10, TurnSaved
  <2>3. OnDisk(file', T, persisted', "top")
    BY <1>3, <1>7, <1>9, <1>10, TurnSaved
  <2> QED BY <2>1, <2>2, <2>3
<1>12. phase' \in Phases /\ ~Pruning /\ ~Pruning' /\ phase' \in {"cancelled", "judged", "calls"}
  BY <1>1, <1>2 DEF Pruning, Phases
<1>13. Held(T, phase')
  <2>1. n = 0 => Settled(T)
    <3>1. n = 0 => 1..n = {}
      OBVIOUS
    <3> QED BY <1>6, <1>7, <3>1
  <2>2. phase' = "judged" => n = 0
    BY <1>2
  <2>3. ~IsUser(T[Len(T)])
    BY <1>6, <1>7 DEF IsUser, UserRoles
  <2> QED BY <1>7, <1>12, <2>1, <2>2, <2>3 DEF Held
<1>14. OnDisk(file', T, persisted', phase')
  BY <1>11, <1>12 DEF OnDisk
<1>15. Conversation'
  BY <1>7, <1>8, <1>13, <1>14 DEF Conversation
<1> QED BY <1>1, <1>5, <1>11, <1>12, <1>15, Proposes DEF IInv

LEMMA ToolHolds ==
    ASSUME IInv, Tool PROVE IInv' /\ Durable \subseteq Durable'
<1> DEFINE c == Min(Missing(mem, Len(mem)))
           m == Reply(mem[RunHead(mem, Len(mem))], c)
           T == Append(mem, m)
<1>1. /\ phase = "calls" /\ phase' = phase /\ Missing(mem, Len(mem)) # {} /\ mem' = T
      /\ made' = made /\ turn' = turn /\ InMemory
  BY DEF Tool
<1>2. /\ Kinds /\ Held(mem, "calls") /\ OnDisk(file, mem, persisted, "calls")
      /\ mem \in Seq(Messages) /\ mem # <<>> /\ FileIsSound(file) /\ persisted \in Nat \cup {Stale}
      /\ made \in 0..MaxMade /\ turn \in Nat /\ Open(mem) /\ Len(mem) >= 2
  BY <1>1, Loaded DEF Held
<1>3. c \in Missing(mem, Len(mem))
  <2>1. Missing(mem, Len(mem)) \in SUBSET Nat
    <3>1. Len(mem) \in 1..Len(mem)
      BY <1>2
    <3>2. \A n \in Missing(mem, Len(mem)) : n \in Names
      BY <1>2, <3>1, MissingIs
    <3> QED BY <3>2 DEF Names
  <2> QED BY <1>1, <2>1, MinIs
<1> HIDE DEF c
<1>4. m \in Messages /\ Open(T)
  BY <1>2, <1>3, AppendReply
<1>5. m.role = "tool"
  BY DEF Reply, Message
<1> HIDE DEF m
<1>6. /\ Extends(mem, T) /\ Len(T) = Len(mem) + 1 /\ T[Len(T)] = m
      /\ \A i \in Len(mem) + 1..Len(T) : T[i] = m
  BY <1>2, <1>4, AppendExtends
<1> HIDE DEF T
<1>7. T \in Seq(Messages) /\ T # <<>> /\ Opens(T) /\ Digests(T) /\ Len(T) >= 2
  <2>1. \A i \in Len(mem) + 1..Len(T) : T[i].role # "digest"
    BY <1>5, <1>6
  <2>2. T \in Seq(Messages) /\ T # <<>> /\ Opens(T) /\ Digests(T)
    BY <1>2, <1>6, <2>1, GrownHeld
  <2> QED BY <1>2, <1>6, <2>2
<1>8. Held(T, "calls")
  <2>1. ~IsUser(T[Len(T)])
    BY <1>5, <1>6 DEF IsUser, UserRoles
  <2> QED BY <1>4, <1>7, <2>1 DEF Held
<1>9. OnDisk(file, T, persisted, "calls")
  BY <1>2, <1>5, <1>6, GrownOnDisk
<1>10. ~Pruning /\ ~Pruning' /\ phase' \in Phases
  BY <1>1 DEF Pruning, Phases
<1>11. mem' # <<>> /\ Held(mem', phase') /\ OnDisk(file, mem', persisted, phase')
  BY <1>1, <1>7, <1>8, <1>9
<1> QED BY <1>1, <1>2, <1>10, <1>11, InMemoryKeeps DEF IInv

LEMMA IteratedHolds ==
    ASSUME IInv, Iterated PROVE IInv' /\ Durable \subseteq Durable'
<1>1. /\ phase = "calls" /\ Missing(mem, Len(mem)) = {} /\ phase' = "top"
      /\ mem' = mem /\ cand' = cand /\ made' = made /\ turn' = turn
  BY DEF Iterated
<1>2. PICK o \in Saves(mem, FALSE) : SaveStep(o)
  BY DEF Iterated
<1>3. /\ Kinds /\ Held(mem, "calls") /\ OnDisk(file, mem, persisted, "calls") /\ mem \in Seq(Messages) /\ mem # <<>>
      /\ Opens(mem) /\ Digests(mem) /\ made \in 0..MaxMade /\ turn \in Nat
  BY <1>1, Loaded
<1>4. Held(mem, "top")
  <2>1. Settled(mem)
    BY <1>1, <1>3, OpenSettles DEF Held
  <2> QED BY <1>3, <2>1 DEF Held
<1>5. /\ Durable \subseteq Durable'
      /\ made' \in 0..MaxMade /\ phase' \in Phases /\ turn' \in Nat => Kinds'
      /\ OnDisk(file', mem, persisted', "top")
  <2>1. Durable \subseteq Durable'
    BY <1>2, <1>3, TurnSaved
  <2>2. made' \in 0..MaxMade /\ phase' \in Phases /\ turn' \in Nat => Kinds'
    BY <1>2, <1>3, TurnSaved
  <2>3. OnDisk(file', mem, persisted', "top")
    BY <1>2, <1>3, TurnSaved
  <2> QED BY <2>1, <2>2, <2>3
<1>6. phase' \in Phases /\ ~Pruning /\ ~Pruning'
  BY <1>1 DEF Pruning, Phases
<1>7. Conversation'
  BY <1>1, <1>3, <1>4, <1>5 DEF Conversation
<1> QED BY <1>1, <1>3, <1>5, <1>6, <1>7, Proposes DEF IInv

LEMMA InsertLast ==
    ASSUME NEW T \in Seq(Messages), NEW m \in Messages
    PROVE  /\ InsertAt(T, Len(T) + 1, m) = Append(T, m)
           /\ T # <<>> => InsertAt(T, Len(T), m) = Append(Append(Front(T), m), T[Len(T)])
<1>0. Len(T) \in Nat
  OBVIOUS
<1>1. InsertAt(T, Len(T) + 1, m) = Append(T, m)
  <2> DEFINE p == Len(T) + 1
             A == InsertAt(T, p, m)
             B == Append(T, m)
  <2>1. p \in 1..Len(T) + 1 /\ p - 1 = Len(T) /\ p..Len(T) = {}
    BY <1>0
  <2>2. /\ A \in Seq(Messages) /\ Len(A) = Len(T) + 1 /\ (\A j \in 1..p - 1 : A[j] = T[j]) /\ A[p] = m
    BY <2>1, InsertAtIs, ZenonT(30)
  <2>3. B \in Seq(Messages) /\ Len(B) = Len(T) + 1 /\ B[Len(T) + 1] = m /\ \A i \in 1..Len(T) : B[i] = T[i]
    BY AppendLike
  <2> HIDE DEF A, B
  <2>4. ASSUME NEW i \in 1..Len(A) PROVE A[i] = B[i]
    <3>1. i \in 1..Len(T) \/ i = Len(T) + 1
      BY <1>0, <2>2
    <3> QED BY <2>1, <2>2, <2>3, <3>1
  <2>5. A = B
    BY <2>2, <2>3, <2>4, SeqEqual
  <2> QED BY <2>5 DEF A, B
<1>2. ASSUME T # <<>> PROVE InsertAt(T, Len(T), m) = Append(Append(Front(T), m), T[Len(T)])
  <2> DEFINE n == Len(T)
             F == Front(T)
             F1 == Append(F, m)
             A == InsertAt(T, n, m)
             B == Append(F1, T[n])
  <2>1. n \in 1..Len(T) + 1 /\ n >= 1 /\ T[n] \in Messages
    BY <1>0, <1>2, EmptySeq
  <2>2. /\ A \in Seq(Messages) /\ Len(A) = Len(T) + 1 /\ (\A j \in 1..n - 1 : A[j] = T[j]) /\ A[n] = m
        /\ \A j \in n..Len(T) : A[j + 1] = T[j]
    BY <2>1, InsertAtIs
  <2>3. F \in Seq(Messages) /\ Len(F) = n - 1 /\ \A i \in 1..n - 1 : F[i] = T[i]
    <3>1. F = SubSeq(T, 1, n - 1)
      BY DEF Front
    <3>2. 1 \in 1..Len(T) + 1 /\ n - 1 \in 1 - 1..Len(T) /\ n - 1 - 1 + 1 = n - 1
      BY <1>0, <2>1
    <3> DEFINE q == n - 1
               P == SubSeq(T, 1, q)
    <3>3. P \in Seq(Messages) /\ Len(P) = q - 1 + 1 /\ \A i \in 1..q - 1 + 1 : P[i] = T[1 + i - 1]
      BY <3>2, Part
    <3> HIDE DEF P
    <3>4. ASSUME NEW i \in 1..q PROVE P[i] = T[i]
      <4>1. 1 + i - 1 = i
        OBVIOUS
      <4> QED BY <3>2, <3>3, <4>1
    <3>5. F = P
      BY <3>1 DEF P
    <3> QED BY <3>2, <3>3, <3>4, <3>5
  <2> HIDE DEF F
  <2>4. F1 \in Seq(Messages) /\ Len(F1) = Len(F) + 1 /\ F1[Len(F) + 1] = m /\ \A i \in 1..Len(F) : F1[i] = F[i]
    BY <2>3, AppendLike
  <2> HIDE DEF F1
  <2>5. B \in Seq(Messages) /\ Len(B) = Len(F1) + 1 /\ B[Len(F1) + 1] = T[n] /\ \A i \in 1..Len(F1) : B[i] = F1[i]
    BY <2>1, <2>4, AppendLike
  <2> HIDE DEF A, B
  <2>6. ASSUME NEW i \in 1..Len(A) PROVE A[i] = B[i]
    <3>0. n = Len(T) /\ n \in Nat /\ Len(F) + 1 = n /\ Len(F1) = n
      BY <1>0, <2>3, <2>4
    <3> HIDE DEF n
    <3>1. i \in 1..n - 1 \/ i = n \/ i = n + 1
      BY <2>2, <3>0
    <3>2. CASE i \in 1..n - 1
      <4>1. i \in 1..Len(F) /\ i \in 1..Len(F1)
        BY <3>0, <3>2
      <4> QED BY <2>2, <2>3, <2>4, <2>5, <3>2, <4>1
    <3>3. CASE i = n
      <4>1. n \in 1..Len(F1)
        BY <2>1, <3>0
      <4> QED BY <2>2, <2>4, <2>5, <3>0, <3>3, <4>1
    <3>4. CASE i = n + 1
      <4>1. n \in n..Len(T)
        BY <3>0
      <4> QED BY <2>2, <2>5, <3>0, <3>4, <4>1
    <3> QED BY <3>1, <3>2, <3>3, <3>4
  <2>7. Len(A) = Len(B)
    BY <1>0, <2>2, <2>3, <2>4, <2>5
  <2>8. A = B
    BY <2>2, <2>5, <2>6, <2>7, SeqEqual
  <2> QED BY <2>8 DEF A, B, F, F1
<1> QED BY <1>1, <1>2

\* What a note on the last tool reply leaves.
LEMMA NotedHeld ==
    ASSUME NEW T, NEW ph, Held(T, ph), T[Len(T)].role = "tool", ph # "opened"
    PROVE  LET U == [T EXCEPT ![Len(T)].noted = TRUE]
           IN  Held(U, ph) /\ U \in Seq(Messages) /\ Bare(U) = Bare(T) /\ U # <<>>
<1> DEFINE n == Len(T)
           U == [T EXCEPT ![n].noted = TRUE]
<1>0. T \in Seq(Messages) /\ T # <<>> /\ Opens(T) /\ Digests(T) /\ Len(T) \in Nat /\ n \in 1..Len(T) /\ T[n] \in Messages
  BY EmptySeq DEF Held
<1> HIDE DEF n
<1>1. [T[n] EXCEPT !.noted = TRUE] \in Messages /\ Same([T[n] EXCEPT !.noted = TRUE], T[n])
  BY <1>0 DEF Messages, Same
<1>2. U = [T EXCEPT ![n] = [T[n] EXCEPT !.noted = TRUE]]
  OBVIOUS
<1>3. U \in Seq(Messages) /\ Len(U) = Len(T) /\ U[n] = [T[n] EXCEPT !.noted = TRUE] /\ \A i \in 1..Len(T) : i # n => U[i] = T[i]
  <2> DEFINE N == [T[n] EXCEPT !.noted = TRUE]
  <2>1. N \in Messages /\ U = [T EXCEPT ![n] = N]
    BY <1>1, <1>2
  <2> HIDE DEF N, U
  <2>2. T \in [1..Len(T) -> Messages] /\ DOMAIN T = 1..Len(T)
    BY <1>0
  <2>3. U \in [1..Len(T) -> Messages] /\ U[n] = N /\ \A i \in 1..Len(T) : i # n => U[i] = T[i]
    BY <1>0, <2>1, <2>2
  <2>4. U \in Seq(Messages)
    BY <1>0, <2>3
  <2>5. DOMAIN U = 1..Len(U) /\ DOMAIN U = 1..Len(T) /\ Len(U) \in Nat
    BY <2>3, <2>4
  <2>6. Len(U) = Len(T)
    BY <1>0, <2>5, SegmentIs
  <2> QED BY <2>3, <2>4, <2>6 DEF N
<1> HIDE DEF U
<1>4. ASSUME NEW i \in 1..Len(T) PROVE Same(U[i], T[i])
  BY <1>1, <1>3 DEF Same
<1>5. Bare(U) = Bare(T)
  BY <1>0, <1>3, <1>4, BareIs
<1>6. Digests(U) /\ (Settled(T) => Settled(U)) /\ (Open(T) => Open(U))
  BY <1>0, <1>3, <1>5, BareSame
<1>7. Opens(U)
  <2>1. T[1].role = "system"
    BY <1>0, SystemIs DEF Opens
  <2>2. n # 1
    BY <2>1 DEF n
  <2>3. U[1] = T[1]
    BY <1>0, <1>3, <2>2
  <2>4. Len(U) >= 2 => U[2].role = "user"
    <3>1. Len(T) >= 2 => 2 \in 1..Len(T)
      BY <1>0
    <3> QED BY <1>0, <1>3, <1>4, <3>1 DEF Opens, Same
  <2>5. U # <<>>
    BY <1>0, <1>3, EmptySeq
  <2> QED BY <1>0, <2>3, <2>4, <2>5 DEF Opens
<1>8. ~IsUser(U[Len(U)])
  <2>1. U[Len(U)].role = "tool"
    BY <1>0, <1>3, <1>4 DEF Same, n
  <2> QED BY <2>1 DEF IsUser, UserRoles
<1>9. Held(U, ph)
  BY <1>3, <1>6, <1>7, <1>8 DEF Held, Opens
<1> QED BY <1>3, <1>5, <1>7, <1>9 DEF U, n, Opens

\* What a note ahead of an unsaved last message leaves.
LEMMA NoteAhead ==
    ASSUME NEW F, NEW T, NEW n \in Nat \cup {Stale}, Held(T, "tell"), OnDisk(F, T, n, "tell"), FileIsSound(F), n # Len(T),
           IsUser(T[Len(T)]), NEW m \in Messages, m.role = "user", m.calls = {}
    PROVE  LET U == InsertAt(T, Len(T), m)
           IN  Held(U, "tell") /\ OnDisk(F, U, n, "tell") /\ U # <<>>
<1> DEFINE k == Len(T)
           U == InsertAt(T, k, m)
           H == Front(T)
<1>0. /\ T \in Seq(Messages) /\ T # <<>> /\ Opens(T) /\ Digests(T) /\ Settled(T) /\ Len(T) >= 2 /\ k = Len(T) /\ k \in Nat
      /\ k \in 1..Len(T) /\ T[k] \in Messages /\ F \in Seq(Messages)
  BY DEF Held, FileIsSound
<1>1. T[k].role \notin {"tool", "assistant", "system"} /\ T[k].calls = {}
  BY <1>0 DEF IsUser, UserRoles, Messages
<1>2. /\ U \in Seq(Messages) /\ Len(U) = Len(T) + 1
      /\ \A j \in 1..k - 1 : U[j] = T[j]
      /\ U[k] = m
      /\ \A j \in k..Len(T) : U[j + 1] = T[j]
  <2>1. k \in 1..Len(T) + 1
    BY <1>0
  <2> QED BY <1>0, <2>1, InsertAtIs
<1>3. U = Append(Append(H, m), T[k])
  BY <1>0, InsertLast
<1>4. H \in Seq(Messages) /\ Len(H) = k - 1 /\ (\A i \in 1..k - 1 : H[i] = T[i]) /\ Settled(H)
  BY <1>0, <1>1, FrontSettled
<1> HIDE DEF H
<1>5. Settled(U)
  <2>1. Append(H, m) \in Seq(Messages) /\ Settled(Append(H, m))
    BY <1>4, AppendMessage, AppendLike
  <2> QED BY <1>0, <1>1, <1>3, <2>1, AppendMessage
<1> HIDE DEF U, k
<1>6. U[k + 1] = T[k] /\ Len(U) = k + 1
  <2>1. k \in k..Len(T)
    BY <1>0
  <2> QED BY <1>0, <1>2, <2>1
<1>7. Opens(U)
  <2>1. U[1] = T[1] /\ U # <<>>
    BY <1>0, <1>2
  <2>2. U[2].role = "user"
    <3>1. CASE k = 2
      BY <1>2, <3>1
    <3>2. CASE k # 2
      <4>1. 2 \in 1..k - 1
        BY <1>0, <3>2
      <4> QED BY <1>0, <1>2, <4>1 DEF Opens
    <3> QED BY <3>1, <3>2
  <2> QED BY <1>0, <2>1, <2>2 DEF Opens
<1>8. Digests(U)
  <2> SUFFICES ASSUME NEW i \in 1..Len(U), U[i].role = "digest"
               PROVE  U[i].turn = 0 /\ \A j \in 2..i - 1 : Pinned(U, j)
    BY DEF Digests
  <2>1. i \in 1..k - 1 \/ i = k + 1
    <3>1. i # k
      BY <1>2
    <3> QED BY <1>0, <1>6, <3>1
  <2>2. CASE i \in 1..k - 1
    <3>1. i \in 1..Len(T) /\ U[i] = T[i]
      BY <1>0, <1>2, <2>2
    <3>2. T[i].turn = 0 /\ \A j \in 2..i - 1 : Pinned(T, j)
      BY <1>0, <3>1 DEF Digests
    <3>3. ASSUME NEW j \in 2..i - 1 PROVE Pinned(U, j)
      <4>1. j \in 1..k - 1 /\ j + 1 \in 1..k - 1 /\ j < Len(U)
        BY <1>0, <1>2, <2>2
      <4>2. U[j] = T[j] /\ U[j + 1] = T[j + 1]
        BY <1>2, <4>1
      <4> QED BY <3>2, <4>1, <4>2, PinnedStays
    <3> QED BY <3>1, <3>2, <3>3
  <2>3. CASE i = k + 1
    <3>1. T[k].role = "digest" /\ U[i] = T[k]
      BY <1>6, <2>3
    <3>2. T[k].turn = 0 /\ \A j \in 2..k - 1 : Pinned(T, j)
      BY <1>0, <3>1 DEF Digests
    <3>3. ASSUME NEW j \in 2..i - 1 PROVE Pinned(U, j)
      <4>1. j = k \/ (j \in 1..k - 1 /\ j \in 2..k - 1)
        BY <1>0, <2>3
      <4>2. CASE j = k
        BY <1>2, <4>2, PinnedIs
      <4>3. CASE j \in 1..k - 1 /\ j \in 2..k - 1
        <5>1. U[j] = T[j] /\ Pinned(T, j) /\ j < Len(U) /\ j + 1 \in 1..k
          BY <1>0, <1>2, <3>2, <4>3
        <5>2. ASSUME T[j + 1].role \in {"user", "refusal"} PROVE U[j + 1].role = T[j + 1].role
          <6>1. j + 1 # k
            BY <3>1, <5>2
          <6>2. j + 1 \in 1..k - 1
            BY <1>0, <5>1, <6>1
          <6> QED BY <1>2, <6>2
        <5> QED BY <5>1, <5>2, PinnedStays
      <4> QED BY <4>1, <4>2, <4>3
    <3> QED BY <3>1, <3>2, <3>3
  <2> QED BY <2>1, <2>2, <2>3
<1>9. Held(U, "tell") /\ U # <<>>
  <2>1. Len(U) >= 2
    BY <1>0, <1>6
  <2> QED BY <1>2, <1>5, <1>7, <1>8, <2>1 DEF Held, Opens
<1>10. ASSUME n \notin {0, Stale} PROVE Begins(F, U, n)
  <2>1. Begins(F, T, n) /\ n \in 1..Len(T)
    BY <1>10 DEF OnDisk, Begins
  <2>2. Len(F) = n /\ \A i \in 1..n : Same(F[i], T[i])
    BY <1>0, <2>1, BeginsIs
  <2>3. n \in 1..k - 1 /\ n \in 1..Len(U)
    BY <1>0, <1>6, <2>1
  <2>4. \A i \in 1..n : i \in 1..k - 1
    BY <1>0, <2>3
  <2>5. \A i \in 1..n : Same(F[i], U[i])
    BY <1>2, <2>2, <2>4
  <2> QED BY <1>0, <1>2, <2>2, <2>3, <2>5, BeginsIs
<1>11. LiveIds(T) \subseteq LiveIds(U)
  <2>1. Extends(H, T) /\ Extends(H, U)
    <3>1. Len(H) <= Len(T) /\ Len(H) <= Len(U)
      BY <1>0, <1>4, <1>6
    <3> QED BY <1>0, <1>2, <1>4, <3>1 DEF Extends
  <2>2. (\A i \in 1..Len(H) : Stray(T, i) <=> Stray(H, i)) /\ LiveIds(H) \subseteq LiveIds(U)
    BY <2>1, ExtendsKeeps
  <2>3. ASSUME NEW j \in 1..Len(T), ~T[j].cut, ~Stray(T, j) PROVE T[j].id \in LiveIds(U)
    <3>1. CASE j \in 1..k - 1
      <4>1. j \in 1..Len(H)
        BY <1>4, <3>1
      <4>2. T[j].id \in LiveIds(H)
        BY <1>4, <2>2, <2>3, <3>1, <4>1 DEF LiveIds
      <4> QED BY <2>2, <4>2
    <3>2. CASE j = k
      <4>1. k + 1 \in 1..Len(U) /\ U[k + 1] = T[k]
        BY <1>0, <1>6
      <4>2. ~Stray(U, k + 1)
        BY <1>1, <4>1 DEF Stray
      <4> QED BY <2>3, <3>2, <4>1, <4>2 DEF LiveIds
    <3>3. j \in 1..k - 1 \/ j = k
      BY <1>0
    <3> QED BY <3>1, <3>2, <3>3
  <2> QED BY <2>3 DEF LiveIds
<1>12. ASSUME NEW i \in 1..Len(U), U[i].role = "refusal" PROVE U[i].id \in Ids(F)
  <2>1. i \in 1..k - 1 \/ i = k + 1
    <3>1. i # k
      BY <1>2, <1>12
    <3> QED BY <1>0, <1>6, <3>1
  <2>2. \E j \in 1..Len(T) : U[i] = T[j]
    <3>1. CASE i \in 1..k - 1
      <4>1. i \in 1..Len(T)
        BY <1>0, <3>1
      <4> QED BY <1>2, <3>1, <4>1
    <3>2. CASE i = k + 1
      BY <1>0, <1>6, <3>2
    <3> QED BY <2>1, <3>1, <3>2
  <2> QED BY <1>12, <2>2 DEF OnDisk
<1>13. OnDisk(F, U, n, "tell")
  BY <1>10, <1>11, <1>12 DEF OnDisk
<1> QED BY <1>9, <1>13 DEF U, k

LEMMA NarrateHolds ==
    ASSUME IInv, Narrate PROVE IInv' /\ Durable \subseteq Durable'
<1>1. phase \in {"tell", "request", "calls"} /\ phase' = phase /\ turn' = turn /\ InMemory
  BY DEF Narrate
<1>2. /\ Kinds /\ Held(mem, phase) /\ OnDisk(file, mem, persisted, phase)
      /\ mem \in Seq(Messages) /\ mem # <<>> /\ FileIsSound(file) /\ persisted \in Nat \cup {Stale}
      /\ made \in 0..MaxMade /\ turn \in Nat
  BY <1>1, Loaded
<1>3. Last(mem) = mem[Len(mem)]
  BY DEF Last
<1>4. \/ /\ mem[Len(mem)].role = "tool"
         /\ mem' = [mem EXCEPT ![Len(mem)].noted = TRUE] /\ made' = made
      \/ /\ IsUser(mem[Len(mem)]) /\ Makes(1)
         /\ mem' = InsertAt(mem, NoteAt + 1, User(Next1, turn))
  BY <1>3 DEF Narrate
<1>5. ~Pruning /\ ~Pruning' /\ phase' \in Phases
  BY <1>1 DEF Pruning, Phases
<1>6. CASE /\ mem[Len(mem)].role = "tool"
           /\ mem' = [mem EXCEPT ![Len(mem)].noted = TRUE] /\ made' = made
  <2> DEFINE U == [mem EXCEPT ![Len(mem)].noted = TRUE]
  <2>1. Held(U, phase) /\ U \in Seq(Messages) /\ Bare(U) = Bare(mem) /\ U # <<>>
    BY <1>1, <1>2, <1>6, NotedHeld
  <2>2. mem' = U
    BY <1>6
  <2> HIDE DEF U
  <2>3. phase # "opened"
    BY <1>1
  <2>4. OnDisk(file, U, persisted, phase)
    BY <1>2, <2>1, <2>3, MarkedOnDisk
  <2>5. mem' # <<>> /\ Held(mem', phase') /\ OnDisk(file, mem', persisted, phase')
    BY <1>1, <2>1, <2>2, <2>4
  <2> QED BY <1>1, <1>2, <1>5, <1>6, <2>5, InMemoryKeeps DEF IInv
<1>7. CASE /\ IsUser(mem[Len(mem)]) /\ Makes(1)
           /\ mem' = InsertAt(mem, NoteAt + 1, User(Next1, turn))
  <2>1. phase \in {"tell", "request"}
    BY <1>1, <1>2, <1>7 DEF Held
  <2>2. Held(mem, "tell") /\ OnDisk(file, mem, persisted, "tell") /\ Settled(mem) /\ Len(mem) \in Nat
    BY <1>2, <2>1 DEF Held, OnDisk
  <2>3. made' \in 0..MaxMade /\ turn' \in Nat /\ Next1 \in Nat
    BY <1>1, <1>2, <1>7, MakesIs
  <2> DEFINE u == User(Next1, turn)
  <2>4. u \in Messages /\ u.role = "user" /\ u.calls = {}
    BY <1>2, <2>3, MadeIs
  <2> HIDE DEF u
  <2>5. mem' # <<>> /\ Held(mem', "tell") /\ OnDisk(file, mem', persisted, "tell")
    <3>1. CASE persisted = Len(mem)
      <4> DEFINE U == Append(mem, u)
      <4>1. NoteAt + 1 = Len(mem) + 1
        BY <3>1 DEF NoteAt
      <4>2. mem' = U
        BY <1>2, <1>7, <2>4, <4>1, InsertLast DEF u
      <4>3. /\ U \in Seq(Messages) /\ U # <<>> /\ Opens(U) /\ Digests(U) /\ Len(U) >= 2
            /\ Extends(mem, U) /\ Settled(U) /\ \A i \in Len(mem) + 1..Len(U) : U[i] = u
        BY <2>2, <2>4, AppendHeld
      <4> HIDE DEF U
      <4>4. Held(U, "tell")
        BY <4>3 DEF Held
      <4>5. OnDisk(file, U, persisted, "tell")
        BY <1>2, <2>2, <2>4, <4>3, GrownOnDisk
      <4> QED BY <4>2, <4>3, <4>4, <4>5
    <3>2. CASE persisted # Len(mem)
      <4> DEFINE U == InsertAt(mem, Len(mem), u)
      <4>1. NoteAt + 1 = Len(mem)
        BY <2>2, <3>2 DEF NoteAt
      <4>2. mem' = U
        BY <1>7, <4>1 DEF u
      <4>3. Held(U, "tell") /\ OnDisk(file, U, persisted, "tell") /\ U # <<>>
        BY <1>2, <1>7, <2>2, <2>4, <3>2, NoteAhead
      <4> HIDE DEF U
      <4> QED BY <4>2, <4>3
    <3> QED BY <3>1, <3>2
  <2>6. Held(mem', phase') /\ OnDisk(file, mem', persisted, phase')
    BY <1>1, <2>1, <2>5 DEF Held, OnDisk
  <2> QED BY <1>1, <1>5, <2>3, <2>5, <2>6, InMemoryKeeps DEF IInv
<1> QED BY <1>4, <1>6, <1>7

\* What a save of a transcript that grew may start from.
LEMMA GrownSave ==
    ASSUME NEW F, NEW T, NEW U, NEW n \in Nat \cup {Stale}, NEW ph, OnDisk(F, T, n, ph), Extends(T, U), F \in Seq(Messages)
    PROVE  (n \notin {0, Stale} => Begins(F, U, n)) /\ LiveIds(F) \subseteq LiveIds(U)
<1>1. T \in Seq(Messages) /\ U \in Seq(Messages) /\ Len(T) <= Len(U) /\ \A i \in 1..Len(T) : U[i] = T[i]
  BY DEF Extends
<1>3. ASSUME n \notin {0, Stale} PROVE Begins(F, U, n)
  <2>1. Begins(F, T, n) /\ n \in 1..Len(T)
    BY <1>3 DEF OnDisk, Begins
  <2>2. Len(F) = n /\ \A i \in 1..n : Same(F[i], T[i])
    BY <1>1, <2>1, BeginsIs
  <2>3. n \in 1..Len(U) /\ \A i \in 1..n : U[i] = T[i]
    BY <1>1, <2>1
  <2> QED BY <1>1, <2>2, <2>3, BeginsIs
<1>4. LiveIds(F) \subseteq LiveIds(U)
  BY ExtendsKeeps DEF OnDisk
<1> QED BY <1>3, <1>4

LEMMA RefuseHolds ==
    ASSUME IInv, Refuse PROVE IInv' /\ Durable \subseteq Durable'
<1> DEFINE u == Message(<<Next1, 0>>, "refusal", {}, 0, turn)
           T == Append(mem, u)
<1>1. phase = "judged" /\ Makes(1) /\ cand' = cand /\ turn' = turn
  BY DEF Refuse
<1>2. PICK o \in Saves(T, FALSE) :
         /\ SaveStep(o)
         /\ IF o.ok THEN mem' = T /\ phase' = "top" ELSE mem' = mem /\ phase' = "closing"
  BY DEF Refuse
<1>3. /\ Kinds /\ Held(mem, phase) /\ OnDisk(file, mem, persisted, phase)
      /\ mem \in Seq(Messages) /\ mem # <<>> /\ FileIsSound(file) /\ persisted \in Nat \cup {Stale} /\ edits \in Seq(Edits)
      /\ made \in Nat /\ turn \in Nat /\ Settled(mem) /\ Len(mem) >= 2 /\ Opens(mem) /\ Digests(mem)
  BY <1>1, Loaded, BoundsAre DEF Held
<1>4. made' \in 0..MaxMade /\ turn' \in Nat /\ Next1 \in Nat
  BY <1>1, <1>3, MakesIs
<1>5. u \in Messages /\ u.role = "refusal" /\ u.calls = {}
  <2>1. u \in Messages /\ u.role = "refusal"
    BY <1>3, <1>4, MadeIs
  <2>2. u.calls = {}
    BY DEF Message
  <2> QED BY <2>1, <2>2
<1> HIDE DEF u
<1>6. /\ T \in Seq(Messages) /\ T # <<>> /\ Opens(T) /\ Digests(T) /\ Len(T) >= 2
      /\ Extends(mem, T) /\ Settled(T)
  BY <1>3, <1>5, AppendHeld
<1> HIDE DEF T
<1>7. SaveFrom(T, persisted)
  <2>1. (persisted \notin {0, Stale} => Begins(file, T, persisted)) /\ LiveIds(file) \subseteq LiveIds(T)
    BY <1>3, <1>6, GrownSave DEF FileIsSound
  <2>2. synced \in 0..Len(file)
    BY <1>3 DEF Kinds
  <2> QED BY <1>3, <1>6, <2>1, <2>2 DEF SaveFrom
<1>8. o \in SavesOf(T, persisted, edits, FALSE)
  BY DEF Saves
<1>9. Saved(o, o.persisted, o.cost) /\ ends' = o.ends /\ points' = o.points
  BY <1>2, <1>3, <1>8, SaveStepIs
<1>10. /\ FileIsSound(file') /\ synced' \in 0..Len(file') /\ persisted' \in Nat \cup {Stale}
       /\ edits' \in Seq(Edits) /\ faults' \in 0..MaxFaults
       /\ o.ends \in SUBSET Nat /\ o.points \in SUBSET Nat /\ Durable \subseteq Durable'
  BY <1>3, <1>7, <1>8, <1>9, SavedIs
<1>11. phase' \in Phases /\ ~Pruning /\ ~Pruning' /\ phase' \in {"top", "closing"}
  BY <1>1, <1>2 DEF Pruning, Phases
<1>12. Kinds'
  BY <1>4, <1>9, <1>10, <1>11 DEF Kinds
<1>13. Conversation'
  <2>1. CASE o.ok
    <3>1. mem' = T /\ phase' = "top"
      BY <1>2, <2>1
    <3>2. OnDisk(file', T, persisted', "top")
      BY <1>3, <1>7, <1>8, <1>9, <2>1, SavedHeld
    <3>3. Held(T, "top")
      BY <1>6 DEF Held
    <3> QED BY <1>6, <3>1, <3>2, <3>3 DEF Conversation
  <2>2. CASE ~o.ok
    <3>1. mem' = mem /\ phase' = "closing"
      BY <1>2, <2>2
    <3>2. o.file = file /\ o.persisted = persisted
      <4>1. Outcome(o, T, persisted, edits)
        BY <1>3, <1>8, SavesAre
      <4> QED BY <2>2, <4>1 DEF Outcome, KeptBy, WholeBy, TailBy
    <3>3. file' = file /\ persisted' = persisted
      BY <1>9, <2>2, <3>2 DEF Saved
    <3>4. OnDisk(file, mem, persisted, "closing") /\ Held(mem, "closing")
      BY <1>3 DEF OnDisk, Held
    <3> QED BY <1>3, <3>1, <3>3, <3>4 DEF Conversation
  <2> QED BY <2>1, <2>2
<1> QED BY <1>1, <1>10, <1>11, <1>12, <1>13, Proposes DEF IInv

\* A transcript with a stub for every call that is open.
LEMMA CompletedHeld ==
    ASSUME NEW T, NEW ph, Held(T, ph)
    PROVE  LET U == Completed(T).msgs
           IN  /\ Held(U, "idle") /\ U # <<>> /\ Extends(T, U) /\ U \in Seq(Messages) /\ Opens(U) /\ Digests(U) /\ Settled(U)
               /\ \A i \in Len(T) + 1..Len(U) : U[i].role = "tool"
<1> DEFINE U == Completed(T).msgs
<1>1. T \in Seq(Messages) /\ T # <<>> /\ Opens(T) /\ Digests(T) /\ Open(T) /\ Len(T) >= 1
  BY SettledIsOpen, EmptySeq DEF Held
<1>2. /\ U \in Seq(Messages) /\ Len(T) <= Len(U)
      /\ \A i \in 1..Len(T) : U[i] = T[i]
      /\ \A k \in Len(T) + 1..Len(U) :
            \E h \in 1..Len(T), n \in Names :
               U[k] = Reply(T[h], n) /\ Follows(T, h, Len(T)) /\ ~Replied(T, h) /\ n \in T[h].calls
      /\ Settled(U)
  BY <1>1, CompletedOpen
<1> HIDE DEF U
<1>3. Extends(T, U)
  BY <1>1, <1>2 DEF Extends
<1>4. ASSUME NEW k \in Len(T) + 1..Len(U)
      PROVE  U[k].role = "tool" /\ \E h \in 1..Len(T) : T[h].calls # {}
  <2>1. PICK h \in 1..Len(T), n \in Names : U[k] = Reply(T[h], n) /\ n \in T[h].calls
    BY <1>2
  <2>2. Reply(T[h], n).role = "tool"
    BY DEF Reply, Message
  <2> QED BY <2>1, <2>2
<1>5. Len(T) >= 2 \/ Len(U) < 2
  <2> SUFFICES ASSUME ~(Len(T) >= 2), Len(U) >= 2 PROVE FALSE
    <3>1. Len(U) \in Nat
      BY <1>2
    <3> QED BY <3>1
  <2>1. Len(T) = 1 /\ 2 \in Len(T) + 1..Len(U)
    <3>1. Len(T) \in Nat /\ Len(U) \in Nat /\ Len(T) >= 1
      BY <1>1, <1>2
    <3> QED BY <3>1
  <2>2. PICK h \in 1..Len(T) : T[h].calls # {}
    BY <1>4, <2>1
  <2>3. T[h] = System
    BY <1>1, <2>1, <2>2 DEF Opens
  <2> QED BY <2>2, <2>3, SystemIs
<1>6. U # <<>> /\ Opens(U) /\ Digests(U)
  <2>1. \A i \in Len(T) + 1..Len(U) : U[i].role # "digest"
    BY <1>4
  <2> QED BY <1>3, <1>5, <2>1, GrownHeld
<1>7. Held(U, "idle")
  BY <1>2, <1>6 DEF Held
<1> QED BY <1>2, <1>3, <1>4, <1>6, <1>7 DEF U

LEMMA CloseHolds ==
    ASSUME IInv, Close PROVE IInv' /\ Durable \subseteq Durable'
<1> DEFINE stubs == IF phase = "cancelled" THEN Completed(mem) ELSE [msgs |-> mem, at |-> <<>>]
           T == stubs.msgs
           rewrite == \E k \in DOMAIN stubs.at : stubs.at[k] < Len(mem)
<1>1. phase \in {"closing", "cancelled"} /\ phase' = "idle" /\ mem' = T /\ UNCHANGED <<cand, made, turn>>
  BY DEF Close
<1>2. PICK o \in Saves(T, rewrite), recorded \in BOOLEAN :
         LET lost == IF o.ok /\ ~recorded THEN 1 ELSE 0 IN
         /\ faults + o.cost + lost <= MaxFaults
         /\ Wrote([o EXCEPT !.cost = @ + lost])
         /\ ends' = IF recorded THEN o.ends \cup {Len(T)} ELSE o.ends
         /\ points' = o.points
  BY DEF Close
<1>3. rewrite \in BOOLEAN
  OBVIOUS
<1>4. /\ Kinds /\ Held(mem, phase) /\ OnDisk(file, mem, persisted, phase)
      /\ mem \in Seq(Messages) /\ mem # <<>> /\ FileIsSound(file) /\ persisted \in Nat \cup {Stale} /\ edits \in Seq(Edits)
      /\ made \in 0..MaxMade /\ turn \in Nat
  BY <1>1, Loaded
<1>5. /\ Held(T, "idle") /\ T # <<>> /\ Extends(mem, T) /\ T \in Seq(Messages) /\ Opens(T) /\ Digests(T)
      /\ \A i \in Len(mem) + 1..Len(T) : T[i].role = "tool"
  <2>1. CASE phase = "cancelled"
    <3>1. T = Completed(mem).msgs
      BY <2>1
    <3> HIDE DEF T
    <3> QED BY <1>4, <3>1, CompletedHeld
  <2>2. CASE phase = "closing"
    <3>1. T = mem
      BY <2>2
    <3> HIDE DEF T
    <3>2. Len(mem) \in Nat /\ Len(mem) + 1..Len(mem) = {}
      BY <1>4
    <3> QED BY <1>4, <2>2, <3>1, <3>2 DEF Held, Extends
  <2> QED BY <1>1, <2>1, <2>2
<1> HIDE DEF T, rewrite, stubs
<1>6. OnDisk(file, T, persisted, "idle")
  BY <1>4, <1>5, GrownOnDisk
<1>7. SaveFrom(T, persisted) /\ o \in SavesOf(T, persisted, edits, rewrite)
  BY <1>4, <1>5, <1>6, MaySave DEF Saves
<1> DEFINE lost == IF o.ok /\ ~recorded THEN 1 ELSE 0
           q == [o EXCEPT !.cost = @ + lost]
<1>8. DOMAIN o = Fields /\ o.cost \in Nat
  BY <1>3, <1>7, SavesAre DEF Outcome
<1>9. lost \in Nat
  OBVIOUS
<1>10. faults + o.cost + lost <= MaxFaults /\ Wrote(q)
  BY <1>2
<1> HIDE DEF lost
<1>11. /\ q.file = o.file /\ q.synced = o.synced /\ q.edits = o.edits /\ q.cost = o.cost + lost /\ q.persisted = o.persisted
  BY <1>8 DEF Fields
<1> HIDE DEF q
<1>12. Saved(o, o.persisted, o.cost + lost)
  <2>1. /\ file' = o.file /\ synced' = o.synced /\ persisted' = o.persisted /\ edits' = o.edits
        /\ faults' = faults + (o.cost + lost) /\ archive' = archive
    BY <1>10, <1>11 DEF Wrote
  <2>2. o.cost + lost \in Nat /\ faults + (o.cost + lost) <= MaxFaults
    <3>1. faults \in Nat /\ MaxFaults \in Nat
      BY <1>4, BoundsAre DEF Kinds
    <3> QED BY <1>8, <1>9, <1>10, <3>1
  <2> QED BY <2>1, <2>2 DEF Saved
<1>13. /\ FileIsSound(file') /\ synced' \in 0..Len(file') /\ persisted' \in Nat \cup {Stale}
       /\ edits' \in Seq(Edits) /\ faults' \in 0..MaxFaults
       /\ o.ends \in SUBSET Nat /\ o.points \in SUBSET Nat /\ Durable \subseteq Durable'
  BY <1>3, <1>4, <1>7, <1>12, SavedIs
<1>14. OnDisk(file', T, persisted', "idle")
  <2>1. \A i \in 1..Len(T) : T[i].role = "refusal" => T[i].id \in Ids(file)
    BY <1>6 DEF OnDisk
  <2> QED BY <1>3, <1>4, <1>7, <1>12, <2>1, SavedHeld
<1>15. phase' \in Phases /\ ~Pruning /\ ~Pruning'
  BY <1>1 DEF Pruning, Phases
<1>16. ends' \in SUBSET Nat /\ points' \in SUBSET Nat
  <2>1. Len(T) \in Nat
    BY <1>5
  <2> QED BY <1>2, <1>13, <2>1
<1>17. Kinds'
  BY <1>1, <1>4, <1>13, <1>15, <1>16 DEF Kinds
<1>18. Conversation'
  BY <1>1, <1>5, <1>14 DEF Conversation
<1> QED BY <1>1, <1>13, <1>15, <1>17, <1>18, Proposes DEF IInv

LEMMA PanicHolds ==
    ASSUME IInv, Panic PROVE IInv' /\ Durable \subseteq Durable'
<1>1. /\ phase \notin {"idle", "index", "rewrite"} /\ mem' = Completed(mem).msgs /\ phase' = "idle" /\ cand' = NoPrune
      /\ UNCHANGED <<file, synced, ends, points, archive, persisted, edits, made, turn, faults>>
  BY DEF Panic, disk, index
<1>2. /\ Kinds /\ Held(mem, phase) /\ OnDisk(file, mem, persisted, phase)
      /\ mem \in Seq(Messages) /\ FileIsSound(file) /\ persisted \in Nat \cup {Stale}
  BY <1>1, Loaded
<1> DEFINE T == Completed(mem).msgs
<1>3. /\ Held(T, "idle") /\ T # <<>> /\ Extends(mem, T) /\ T \in Seq(Messages)
      /\ \A i \in Len(mem) + 1..Len(T) : T[i].role = "tool"
  BY <1>2, CompletedHeld
<1> HIDE DEF T
<1>4. OnDisk(file, T, persisted, "idle")
  BY <1>2, <1>3, GrownOnDisk
<1>5. Kinds'
  BY <1>1, <1>2 DEF Kinds, Phases
<1>6. Conversation'
  BY <1>1, <1>3, <1>4 DEF Conversation, T
<1>7. Proposal'
  BY <1>1 DEF Proposal, Pruning
<1>8. Untouched
  BY <1>1 DEF Untouched
<1> QED BY <1>5, <1>6, <1>7, <1>8, UntouchedKeeps DEF IInv

\* What a prune proposes.
LEMMA ProposedIs ==
    ASSUME NEW T, NEW ph, Held(T, ph), Settled(T), NEW D \in Messages, D.role = "digest", D.turn = 0, D.cut = FALSE,
           NEW p \in Prunes(T, D)
    PROVE  /\ p.msgs \in Seq(Messages) /\ p.gone \in SUBSET (Nat \X Nat) /\ p.head \in Nat /\ Len(T) >= 2
           /\ Candidate(p.msgs, T, p.gone)
<1>1. T \in Seq(Messages) /\ Opens(T) /\ Digests(T)
  BY DEF Held
<1>2. /\ p.head \in 2..Len(T)
      /\ \E stop, x, E : PruneOf(T, p.msgs, p.gone, p.head, E, stop, x)
  BY <1>1, PrunedIs
<1>3. PICK stop, x, E : PruneOf(T, p.msgs, p.gone, p.head, E, stop, x)
  BY <1>2
<1> DEFINE M == p.msgs
           G == p.gone
           h == p.head
<1>4. /\ M \in Seq(Messages) /\ Opens(M) /\ Digests(M) /\ Settled(M)
      /\ LiveIds(T) \subseteq LiveIds(M) \cup G
      /\ \A i \in 1..Len(M) : M[i].role = "refusal" =>
            \E j \in 1..Len(T) : T[j].role = "refusal" /\ T[j].id = M[i].id
  BY <1>3, PruneKeeps
<1>5. G \subseteq Ids(T) /\ Len(M) = h + x + (Len(T) - stop) /\ stop \in h..Len(T) /\ x \in {0, 1}
  BY <1>3 DEF PruneOf
<1>6. Ids(T) \in SUBSET (Nat \X Nat)
  <2>1. DOMAIN T = 1..Len(T) /\ \A i \in 1..Len(T) : T[i] \in Messages
    BY <1>1
  <2>2. \A m \in Messages : m.id \in Nat \X Nat
    BY DEF Messages
  <2> QED BY <2>1, <2>2 DEF Ids
<1> HIDE DEF M, G, h
<1>7. Len(T) \in Nat /\ h \in 2..Len(T) /\ Len(M) \in Nat
  BY <1>1, <1>2, <1>4 DEF h
<1>8. Len(M) >= 2 /\ h \in Nat /\ Len(T) >= 2
  <2>1. stop \in Nat /\ Len(T) - stop >= 0 /\ x >= 0 /\ h >= 2 /\ h \in Nat /\ x \in Nat
    BY <1>5, <1>7
  <2> HIDE DEF M
  <2> QED BY <1>5, <1>7, <2>1
<1>9. Held(M, "request")
  BY <1>4, <1>8 DEF Held, Opens
<1>10. Candidate(M, T, G)
  BY <1>4, <1>9 DEF Candidate
<1> QED BY <1>4, <1>5, <1>6, <1>8, <1>10 DEF M, G, h

LEMMA PruneHolds ==
    ASSUME IInv, Prune PROVE IInv' /\ Durable \subseteq Durable'
<1> DEFINE back == IF phase = "idle" THEN "idle" ELSE "request"
           D == Message(<<Next1, 0>>, "digest", {}, 0, 0)
           new(p) == [msgs |-> p.msgs, gone |-> p.gone, head |-> p.head, back |-> back, ends |-> {}, points |-> {}]
           Go(p) == phase' = "archive" /\ cand' = new(p)
           Stay == phase' = (IF back = "idle" THEN "idle" ELSE "closing") /\ cand' = NoPrune
<1>1. phase \in {"tell", "idle"} /\ mem # <<>> /\ Makes(1) /\ mem' = mem /\ turn' = turn
  BY DEF Prune
<1>2. PICK p \in Prunes(mem, D) :
            IF edits = <<>>
            THEN Go(p) /\ UNCHANGED <<disk, index, persisted, edits, archive, bounds>>
            ELSE \E o \in Saves(mem, TRUE) :
                   /\ SaveStep(o)
                   /\ IF o.ok /\ o.edits = <<>> THEN Go(p) ELSE Stay
  BY DEF Prune
<1>3. /\ Kinds /\ Held(mem, phase) /\ OnDisk(file, mem, persisted, phase)
      /\ mem \in Seq(Messages) /\ FileIsSound(file) /\ persisted \in Nat \cup {Stale} /\ edits \in Seq(Edits)
      /\ made \in Nat /\ turn \in Nat /\ Settled(mem) /\ Opens(mem) /\ Digests(mem)
  BY <1>1, Loaded, BoundsAre DEF Held
<1>4. made' \in 0..MaxMade /\ turn' \in Nat /\ Next1 \in Nat
  BY <1>1, <1>3, MakesIs
<1>5. D \in Messages /\ D.role = "digest" /\ D.turn = 0 /\ D.cut = FALSE
  BY <1>4, MadeIs DEF Message
<1> HIDE DEF D
<1>6. /\ p.msgs \in Seq(Messages) /\ p.gone \in SUBSET (Nat \X Nat) /\ p.head \in Nat /\ Len(mem) >= 2
      /\ Candidate(p.msgs, mem, p.gone)
  BY <1>3, <1>5, ProposedIs
<1>7. back \in {"idle", "request"}
  OBVIOUS
<1>8. ASSUME Go(p), edits' = <<>> PROVE Proposal' /\ phase' \in Phases /\ phase' = "archive" /\ Held(mem, phase')
  <2>1. phase' = "archive" /\ cand' = new(p) /\ new(p).msgs = p.msgs /\ new(p).gone = p.gone
    BY <1>8
  <2>2. new(p) \in Cands
    BY <1>6, <1>7 DEF Cands
  <2> HIDE DEF new, Go
  <2>3. cand'.msgs = p.msgs /\ cand'.gone = p.gone /\ cand' \in Cands
    BY <2>1, <2>2
  <2>4. Held(mem, "archive")
    BY <1>1, <1>3, <1>6 DEF Held
  <2>5. Candidate(cand'.msgs, mem', cand'.gone)
    BY <1>1, <1>6, <2>3
  <2>6. Pruning' /\ phase' \in Phases
    BY <2>1 DEF Pruning, Phases
  <2>7. Proposal'
    BY <1>1, <1>8, <2>1, <2>3, <2>5, <2>6 DEF Proposal
  <2> QED BY <2>1, <2>4, <2>6, <2>7
<1>9. ASSUME Stay PROVE Proposal' /\ phase' \in Phases /\ phase' \in {"idle", "closing"} /\ Held(mem, phase')
  <2>1. phase' \in {"idle", "closing"} /\ (phase' = "closing" => phase = "tell") /\ cand' = NoPrune
    BY <1>1, <1>9
  <2>2. Held(mem, phase')
    BY <1>3, <2>1 DEF Held
  <2>3. ~Pruning' /\ phase' \in Phases
    BY <2>1 DEF Pruning, Phases
  <2> QED BY <2>1, <2>2, <2>3 DEF Proposal
<1>10. CASE edits = <<>>
  <2>1. Go(p) /\ UNCHANGED <<file, synced, ends, points, persisted, edits, archive, faults>>
    BY <1>2, <1>10 DEF disk, index, bounds
  <2> HIDE DEF Go
  <2>2. Proposal' /\ phase' \in Phases /\ phase' = "archive" /\ Held(mem, phase')
    BY <1>8, <1>10, <2>1
  <2>3. Kinds'
    BY <1>3, <1>4, <2>1, <2>2 DEF Kinds
  <2>4. OnDisk(file, mem, persisted, phase')
    BY <1>3, <2>2 DEF OnDisk
  <2>5. Conversation'
    BY <1>1, <2>1, <2>2, <2>4 DEF Conversation
  <2>6. Untouched
    BY <2>1 DEF Untouched
  <2> QED BY <2>2, <2>3, <2>5, <2>6, UntouchedKeeps DEF IInv
<1>11. CASE edits # <<>>
  <2>1. PICK o \in Saves(mem, TRUE) : SaveStep(o) /\ IF o.ok /\ o.edits = <<>> THEN Go(p) ELSE Stay
    BY <1>2, <1>11
  <2> HIDE DEF Go, Stay
  <2>2. /\ made' \in 0..MaxMade /\ phase' \in Phases /\ turn' \in Nat => Kinds'
    BY <1>3, <2>1, TurnSaved
  <2>3. Durable \subseteq Durable'
    BY <1>3, <2>1, TurnSaved
  <2>4. OnDisk(file', mem, persisted', "top")
    BY <1>3, <2>1, TurnSaved
  <2>5. edits' = o.edits
    BY <2>1 DEF SaveStep, Wrote
  <2>6. Proposal' /\ phase' \in Phases /\ phase' \in {"archive", "idle", "closing"} /\ Held(mem, phase')
    BY <1>8, <1>9, <2>1, <2>5
  <2>7. OnDisk(file', mem, persisted', phase')
    BY <2>4, <2>6 DEF OnDisk
  <2>8. Conversation'
    BY <1>1, <2>6, <2>7 DEF Conversation
  <2> QED BY <1>4, <2>2, <2>3, <2>6, <2>8 DEF IInv
<1> QED BY <1>10, <1>11

\* A prune that is under way.
LEMMA Underway ==
    ASSUME IInv, Pruning
    PROVE  /\ Kinds /\ mem # <<>> /\ Held(mem, phase) /\ OnDisk(file, mem, persisted, phase) /\ edits = <<>>
           /\ cand \in Cands /\ Candidate(cand.msgs, mem, cand.gone) /\ (phase # "archive" => cand.gone \subseteq archive)
           /\ mem \in Seq(Messages) /\ Settled(mem) /\ Len(mem) >= 2
BY DEF IInv, Proposal, Conversation, Pruning, Held

LEMMA AbandonKeeps ==
    ASSUME IInv, Pruning, Abandon, mem' = mem, file' = file, persisted' = persisted
    PROVE  phase' \in Phases /\ Proposal' /\ Conversation'
<1>1. phase' \in {"idle", "closing"} /\ cand' = NoPrune
  BY DEF Abandon
<1>2. mem # <<>> /\ Held(mem, phase) /\ OnDisk(file, mem, persisted, phase) /\ Settled(mem) /\ Len(mem) >= 2
  BY Underway
<1>3. Held(mem, phase') /\ OnDisk(file, mem, persisted, phase')
  BY <1>1, <1>2 DEF Held, OnDisk
<1>4. phase' \in Phases /\ Proposal'
  BY <1>1 DEF Phases, Proposal, Pruning
<1>5. Conversation'
  BY <1>2, <1>3 DEF Conversation
<1> QED BY <1>4, <1>5

LEMMA ArchiveHolds ==
    ASSUME IInv, Archive PROVE IInv' /\ Durable \subseteq Durable'
<1>1. /\ phase = "archive"
      /\ UNCHANGED <<file, synced, ends, points, mem, persisted, edits, made, turn>>
  BY DEF Archive, disk, index, data
<1>2. \/ archive' = archive \cup cand.gone /\ phase' = "index" /\ UNCHANGED <<cand, faults>>
      \/ faults < MaxFaults /\ faults' = faults + 1 /\ archive' \in {archive, archive \cup cand.gone} /\ Abandon
  BY DEF Archive
<1>3. Pruning
  BY <1>1 DEF Pruning
<1>4. /\ Kinds /\ mem # <<>> /\ Held(mem, phase) /\ OnDisk(file, mem, persisted, phase) /\ edits = <<>>
      /\ cand \in Cands /\ Candidate(cand.msgs, mem, cand.gone) /\ Settled(mem) /\ Len(mem) >= 2
  BY <1>3, Underway
<1>5. Durable \subseteq Durable'
  <2>1. archive \subseteq archive'
    BY <1>2
  <2> QED BY <1>1, <2>1 DEF Durable
<1>6. CASE archive' = archive \cup cand.gone /\ phase' = "index" /\ UNCHANGED <<cand, faults>>
  <2>1. Held(mem, "index") /\ OnDisk(file, mem, persisted, "index")
    BY <1>4 DEF Held, OnDisk
  <2>2. Kinds'
    BY <1>1, <1>4, <1>6 DEF Kinds, Phases
  <2>3. Conversation'
    BY <1>1, <1>4, <1>6, <2>1 DEF Conversation
  <2>4. Proposal'
    BY <1>1, <1>4, <1>6 DEF Proposal, Pruning
  <2> QED BY <1>5, <2>2, <2>3, <2>4 DEF IInv
<1>7. CASE faults < MaxFaults /\ faults' = faults + 1 /\ archive' \in {archive, archive \cup cand.gone} /\ Abandon
  <2>1. phase' \in Phases /\ Proposal' /\ Conversation'
    BY <1>1, <1>3, <1>7, AbandonKeeps
  <2>2. faults' \in 0..MaxFaults
    BY <1>4, <1>7, BoundsAre DEF Kinds
  <2>3. Kinds'
    BY <1>1, <1>4, <2>1, <2>2 DEF Kinds
  <2> QED BY <1>5, <2>1, <2>3 DEF IInv
<1> QED BY <1>2, <1>6, <1>7

LEMMA ShiftedTyped ==
    ASSUME NEW P \in SUBSET Nat, NEW b \in Nat, NEW a \in Nat, NEW h \in Nat
    PROVE  Shifted(P, b, a, h) \in SUBSET Nat
<1>1. ASSUME NEW p \in P
      PROVE  (CASE a < b /\ p >= h ->
            IF p - (b - a) > h + 1 THEN p - (b - a) ELSE h + 1
       [] a > b /\ p >= h -> p + (a - b)
       [] OTHER -> p) \in Nat
  <2>1. CASE a < b /\ p >= h
    <3>1. (IF p - (b - a) > h + 1 THEN p - (b - a) ELSE h + 1) \in Nat
      BY <1>1
    <3> QED BY <2>1, <3>1
  <2>2. CASE a > b /\ p >= h
    <3>1. p + (a - b) \in Nat /\ ~(a < b)
      BY <1>1, <2>2
    <3> QED BY <2>2, <3>1
  <2>3. CASE ~(a < b /\ p >= h) /\ ~(a > b /\ p >= h)
    BY <1>1, <2>3
  <2> QED BY <2>1, <2>2, <2>3
<1> QED BY <1>1 DEF Shifted

LEMMA ReindexHolds ==
    ASSUME IInv, Reindex PROVE IInv' /\ Durable \subseteq Durable'
<1>1. /\ phase = "index"
      /\ UNCHANGED <<file, synced, archive, mem, persisted, edits, made, turn>>
  BY DEF Reindex, disk, data
<1>2. \/ /\ ends' = Shifted(ends, Len(mem), Len(cand.msgs), cand.head)
         /\ points' = Shifted(points, Len(mem), Len(cand.msgs), cand.head)
         /\ cand' = [cand EXCEPT !.ends = ends, !.points = points]
         /\ phase' = "rewrite" /\ UNCHANGED faults
      \/ faults < MaxFaults /\ faults' = faults + 1 /\ Abandon /\ ends' = ends /\ points' = points
  BY DEF Reindex, index
<1>3. Pruning
  BY <1>1 DEF Pruning
<1>4. /\ Kinds /\ mem # <<>> /\ Held(mem, phase) /\ OnDisk(file, mem, persisted, phase) /\ edits = <<>>
      /\ cand \in Cands /\ Candidate(cand.msgs, mem, cand.gone) /\ cand.gone \subseteq archive
      /\ mem \in Seq(Messages) /\ Settled(mem) /\ Len(mem) >= 2
  BY <1>1, <1>3, Underway
<1>5. Untouched
  BY <1>1 DEF Untouched
<1>6. CASE /\ ends' = Shifted(ends, Len(mem), Len(cand.msgs), cand.head)
           /\ points' = Shifted(points, Len(mem), Len(cand.msgs), cand.head)
           /\ cand' = [cand EXCEPT !.ends = ends, !.points = points]
           /\ phase' = "rewrite" /\ UNCHANGED faults
  <2>1. ends \in SUBSET Nat /\ points \in SUBSET Nat
    BY <1>4 DEF Kinds
  <2>2. cand.msgs \in Seq(Messages) /\ cand.head \in Nat
    BY <1>4 DEF Cands
  <2>3. Len(mem) \in Nat /\ Len(cand.msgs) \in Nat
    BY <1>4, <2>2
  <2>4. ends' \in SUBSET Nat /\ points' \in SUBSET Nat
    BY <1>6, <2>1, <2>2, <2>3, ShiftedTyped
  <2>5. cand' \in Cands /\ cand'.msgs = cand.msgs /\ cand'.gone = cand.gone
    BY <1>4, <1>6, <2>1 DEF Cands
  <2>6. Held(mem, "rewrite") /\ OnDisk(file, mem, persisted, "rewrite")
    BY <1>4 DEF Held, OnDisk
  <2>7. Kinds'
    BY <1>1, <1>4, <1>6, <2>4 DEF Kinds, Phases
  <2>8. Conversation'
    BY <1>1, <1>4, <1>6, <2>6 DEF Conversation
  <2>9. Proposal'
    BY <1>1, <1>4, <1>6, <2>5 DEF Proposal, Pruning
  <2> QED BY <1>5, <2>7, <2>8, <2>9, UntouchedKeeps DEF IInv
<1>7. CASE faults < MaxFaults /\ faults' = faults + 1 /\ Abandon /\ ends' = ends /\ points' = points
  <2>1. phase' \in Phases /\ Proposal' /\ Conversation'
    BY <1>1, <1>3, <1>7, AbandonKeeps
  <2>2. faults' \in 0..MaxFaults
    BY <1>4, <1>7, BoundsAre DEF Kinds
  <2>3. Kinds'
    BY <1>1, <1>4, <1>7, <2>1, <2>2 DEF Kinds
  <2> QED BY <1>5, <2>1, <2>3, UntouchedKeeps DEF IInv
<1> QED BY <1>2, <1>6, <1>7

LEMMA RewriteHolds ==
    ASSUME IInv, Rewrite PROVE IInv' /\ Durable \subseteq Durable'
<1> DEFINE M == cand.msgs
<1>1. phase = "rewrite" /\ UNCHANGED <<archive, edits, made, turn>>
  BY DEF Rewrite
<1>2. \/ /\ file' = M /\ synced' = Len(M) /\ mem' = M /\ persisted' = Len(M)
         /\ phase' = cand.back /\ cand' = NoPrune /\ UNCHANGED <<ends, points, faults>>
      \/ /\ faults < MaxFaults /\ faults' = faults + 1 /\ ends' = cand.ends /\ points' = cand.points
         /\ Abandon /\ UNCHANGED <<file, synced, mem, persisted>>
      \/ /\ faults < MaxFaults /\ faults' = faults + 1
         /\ Abandon /\ UNCHANGED <<file, synced, ends, points, mem, persisted>>
  BY DEF Rewrite, disk, index
<1>3. Pruning
  BY <1>1 DEF Pruning
<1>4. /\ Kinds /\ mem # <<>> /\ Held(mem, phase) /\ OnDisk(file, mem, persisted, phase) /\ edits = <<>>
      /\ cand \in Cands /\ Candidate(M, mem, cand.gone) /\ cand.gone \subseteq archive
      /\ mem \in Seq(Messages) /\ Settled(mem) /\ Len(mem) >= 2
  BY <1>1, <1>3, Underway
<1>5. CASE /\ file' = M /\ synced' = Len(M) /\ mem' = M /\ persisted' = Len(M)
           /\ phase' = cand.back /\ cand' = NoPrune /\ UNCHANGED <<ends, points, faults>>
  <2>1. Held(M, "request") /\ LiveIds(mem) \subseteq LiveIds(M) \cup cand.gone
    BY <1>4 DEF Candidate
  <2>2. M \in Seq(Messages) /\ M # <<>> /\ Opens(M) /\ Digests(M) /\ Settled(M) /\ Len(M) >= 2
    BY <2>1 DEF Held
  <2>3. phase' \in {"idle", "request"}
    BY <1>4, <1>5 DEF Cands
  <2> HIDE DEF M
  <2>4. Held(M, phase')
    BY <2>2, <2>3 DEF Held
  <2>5. Len(M) \in Nat /\ Len(M) \in 1..Len(M) /\ Len(M) \in 0..Len(M)
    BY <2>2
  <2>6. OnDisk(M, M, Len(M), phase')
    <3>1. Begins(M, M, Len(M))
      BY <2>2, <2>5, WholePart DEF Begins
    <3>2. \A i \in 1..Len(M) : M[i].id \in Ids(M)
      <4>1. DOMAIN M = 1..Len(M)
        BY <2>2
      <4> QED BY <4>1 DEF Ids
    <3> QED BY <2>3, <3>1, <3>2 DEF OnDisk
  <2>7. FileIsSound(M)
    BY <2>2 DEF FileIsSound
  <2>8. Kinds'
    BY <1>1, <1>4, <1>5, <2>3, <2>5, <2>7 DEF Kinds, Phases
  <2>9. Conversation'
    BY <1>5, <2>2, <2>4, <2>6 DEF Conversation
  <2>10. Proposal'
    BY <1>5, <2>3 DEF Proposal, Pruning
  <2>11. Durable \subseteq Durable'
    <3>1. Durable = archive \cup Lasting(file, synced)
      BY DEF Durable, Lasting
    <3>2. Durable' = archive \cup Lasting(M, Len(M))
      BY <1>1, <1>5 DEF Durable, Lasting
    <3>3. Lasting(file, synced) \subseteq LiveIds(file) /\ Lasting(M, Len(M)) = LiveIds(M)
      <4>1. Lasting(file, synced) \subseteq LiveIds(file)
        <5>1. synced \in 0..Len(file)
          BY <1>4 DEF Kinds
        <5>2. \A j \in 1..synced : j \in 1..Len(file)
          <6>1. Len(file) \in Nat
            BY <1>4 DEF Kinds, FileIsSound
          <6> QED BY <5>1, <6>1
        <5> QED BY <5>2 DEF Lasting, LiveIds
      <4>2. Lasting(M, Len(M)) = LiveIds(M)
        BY DEF Lasting, LiveIds
      <4> QED BY <4>1, <4>2
    <3>4. LiveIds(file) \subseteq LiveIds(mem)
      BY <1>4 DEF OnDisk
    <3> QED BY <1>4, <2>1, <3>1, <3>2, <3>3, <3>4
  <2> QED BY <2>8, <2>9, <2>10, <2>11 DEF IInv
<1>6. CASE /\ faults < MaxFaults /\ faults' = faults + 1 /\ Abandon /\ UNCHANGED <<file, synced, mem, persisted>>
           /\ ends' \in SUBSET Nat /\ points' \in SUBSET Nat
  <2>1. phase' \in Phases /\ Proposal' /\ Conversation'
    BY <1>3, <1>6, AbandonKeeps
  <2>2. faults' \in 0..MaxFaults
    BY <1>4, <1>6, BoundsAre DEF Kinds
  <2>3. Kinds'
    BY <1>1, <1>4, <1>6, <2>1, <2>2 DEF Kinds
  <2>4. Untouched
    BY <1>1, <1>6 DEF Untouched
  <2> QED BY <2>1, <2>3, <2>4, UntouchedKeeps DEF IInv
<1>7. cand.ends \in SUBSET Nat /\ cand.points \in SUBSET Nat /\ ends \in SUBSET Nat /\ points \in SUBSET Nat
  BY <1>4 DEF Cands, Kinds
<1> QED BY <1>2, <1>5, <1>6, <1>7

LEMMA DieHolds ==
    ASSUME IInv, Die PROVE IInv' /\ Durable \subseteq Durable'
<1>1. /\ mem # <<>> /\ mem' = <<>> /\ persisted' = 0 /\ edits' = <<>> /\ phase' = "idle" /\ cand' = NoPrune
      /\ UNCHANGED <<ends, points, archive, made, turn, faults>>
  BY DEF Die, index
<1>2. PICK k \in synced..Len(file) : file' = SubSeq(file, 1, k) /\ synced' = k
  BY DEF Die
<1>3. Kinds /\ FileIsSound(file) /\ synced \in 0..Len(file) /\ file \in Seq(Messages) /\ Len(file) \in Nat
  BY <1>1 DEF IInv, Kinds, FileIsSound
<1> DEFINE P == SubSeq(file, 1, k)
<1>4. k \in 0..Len(file) /\ 1 \in 1..Len(file) + 1 /\ k \in 1 - 1..Len(file) /\ k - 1 + 1 = k /\ synced <= k
  BY <1>2, <1>3
<1>5. P \in Seq(Messages) /\ Len(P) = k - 1 + 1 /\ \A i \in 1..k - 1 + 1 : P[i] = file[1 + i - 1]
  BY <1>3, <1>4, Part
<1> HIDE DEF P
<1>6. Len(P) = k /\ \A i \in 1..k : P[i] = file[i]
  <2>1. \A i \in 1..k : 1 + i - 1 = i
    BY <1>4
  <2> QED BY <1>4, <1>5, <2>1
<1>7. Extends(P, file)
  BY <1>3, <1>4, <1>5, <1>6 DEF Extends
<1>8. FileIsSound(P)
  <2>1. Digests(P) /\ (Opens(file) /\ P # <<>> => Opens(P))
    BY <1>3, <1>7, ExtendsKeeps DEF FileIsSound
  <2>2. P # <<>> => 1 \in 1..k /\ file # <<>>
    BY <1>3, <1>4, <1>5, <1>6, EmptySeq
  <2> QED BY <1>3, <1>5, <1>6, <2>1, <2>2 DEF FileIsSound
<1>9. Durable \subseteq Durable'
  <2>1. Durable = archive \cup Lasting(file, synced)
    BY DEF Durable, Lasting
  <2>2. Durable' = archive \cup Lasting(P, k)
    BY <1>1, <1>2 DEF Durable, Lasting, P
  <2>3. \A j \in 1..synced : j \in 1..k /\ j \in 1..Len(P)
    BY <1>3, <1>4, <1>6
  <2>4. \A j \in 1..Len(P) : Stray(file, j) <=> Stray(P, j)
    BY <1>7, ExtendsKeeps
  <2>5. Lasting(file, synced) \subseteq Lasting(P, k)
    BY <1>6, <2>3, <2>4 DEF Lasting
  <2> QED BY <2>1, <2>2, <2>5
<1>10. Kinds'
  <2>1. <<>> \in Seq(Edits)
    OBVIOUS
  <2>2. FileIsSound(file') /\ synced' \in 0..Len(file')
    BY <1>2, <1>4, <1>6, <1>8 DEF P
  <2> QED BY <1>1, <1>3, <2>1, <2>2 DEF Kinds, Phases
<1>11. Conversation'
  BY <1>1 DEF Conversation
<1>12. Proposal'
  BY <1>1 DEF Proposal, Pruning
<1> QED BY <1>9, <1>10, <1>11, <1>12 DEF IInv

LEMMA NextHolds ==
    ASSUME IInv, Next PROVE IInv' /\ Durable \subseteq Durable'
<1>1. CASE Replay \/ HydrateNew \/ Hydrate \/ Reload
  BY <1>1, ReplayHolds, HydrateNewHolds, HydrateHolds, ReloadHolds
<1>2. CASE Prompt \/ Unresolved \/ Steer \/ NoSteer \/ Narrate \/ Request
  BY <1>2, PromptHolds, UnresolvedHolds, SteerHolds, NoSteerHolds, NarrateHolds, RequestHolds
<1>3. CASE NoReply \/ Answer \/ Tool \/ Cancel \/ Iterated \/ Refuse \/ Judge \/ Close
  BY <1>3, NoReplyHolds, AnswerHolds, ToolHolds, CancelHolds, IteratedHolds, RefuseHolds, JudgeHolds, CloseHolds
<1>4. CASE Prune \/ Archive \/ Reindex \/ Rewrite \/ Panic \/ Die
  BY <1>4, PruneHolds, ArchiveHolds, ReindexHolds, RewriteHolds, PanicHolds, DieHolds
<1> QED BY <1>1, <1>2, <1>3, <1>4 DEF Next

LEMMA StutterHolds ==
    ASSUME IInv, UNCHANGED vars PROVE IInv' /\ Durable \subseteq Durable'
<1>1. UNCHANGED <<file, synced, ends, points, archive, mem, persisted, edits, phase, cand, made, turn, faults>>
  BY DEF vars, disk, index, data, bounds
<1>2. Kinds /\ Conversation /\ Proposal
  BY DEF IInv
<1>3. Kinds' /\ Conversation' /\ Proposal'
  BY <1>1, <1>2 DEF Kinds, Conversation, Proposal, Pruning
<1>4. Untouched
  BY <1>1 DEF Untouched
<1> QED BY <1>3, <1>4, UntouchedKeeps DEF IInv

------------------------------------------------------------------------------
(* Turns *)

\* A reply is of the turn of its call's message, as far as it finds it.
Timed(T) ==
    \A h, i \in 1..Len(T) :
        Follows(T, h, i) /\ T[i].role = "tool" /\ T[i].of \in T[h].calls => T[i].turn = T[h].turn

\* A reply is of the turn of the message before it.
Steady(T) == \A i \in 2..Len(T) : T[i].role = "tool" => T[i].turn = T[i - 1].turn

\* No message is of a turn after t, and but for the prompt and digests each is
\* of a turn.
Dated(T, t) ==
    \A i \in 1..Len(T) :
        /\ T[i].turn <= t
        /\ T[i].turn = 0 => T[i].role = "digest" \/ (i = 1 /\ T[i].role = "system")

\* A turn ends with message b of T, when what comes after T is of turn t.
Cut(T, b, t) ==
    b \in 0..Len(T) /\ (b > 0 => IF b < Len(T) THEN T[b].turn # T[b + 1].turn ELSE T[b].turn # t)

\* A turn ends with message b of a file that may have stray replies.
Split(F, b) ==
    /\ b \in 0..Len(F)
    /\ 0 < b /\ b < Len(F) =>
          F[b + 1].role # "tool" /\ \A h \in 1..b : Follows(F, h, b) => F[h].turn # F[b + 1].turn

LEMMA SteadyRun ==
    ASSUME NEW T \in Seq(Messages), Steady(T), NEW h \in 1..Len(T), NEW i \in 1..Len(T), Follows(T, h, i)
    PROVE  T[i].turn = T[h].turn
<1>1. h \in 1..i /\ \A j \in h + 1..i : T[j].role = "tool"
  BY DEF Follows
<1> DEFINE S == {k \in h..i : T[k].turn # T[h].turn}
<1>2. CASE S = {}
  <2>1. i \in h..i
    BY <1>1
  <2> QED BY <1>2, <2>1
<1>3. CASE S # {}
  <2>1. S \in SUBSET Nat
    BY <1>1
  <2>2. PICK k \in S : \A j \in S : k <= j
    BY <1>3, <2>1, LeastNumber
  <2>3. k \in h..i /\ k # h /\ T[k].turn # T[h].turn
    BY <2>2
  <2>4. k - 1 \in h..i /\ k \in h + 1..i /\ k \in 2..Len(T) /\ ~(k <= k - 1)
    BY <1>1, <2>3
  <2>5. T[k - 1].turn = T[h].turn
    BY <2>2, <2>4
  <2>6. T[k].turn = T[k - 1].turn
    BY <1>1, <2>4 DEF Steady
  <2> QED BY <2>3, <2>5, <2>6
<1> QED BY <1>2, <1>3

LEMMA SteadyTimed ==
    ASSUME NEW T \in Seq(Messages), Steady(T)
    PROVE  Timed(T)
BY SteadyRun DEF Timed

LEMMA TimedSteady ==
    ASSUME NEW T \in Seq(Messages), Timed(T), Placed(T)
    PROVE  Steady(T)
<1> SUFFICES ASSUME NEW i \in 2..Len(T), T[i].role = "tool" PROVE T[i].turn = T[i - 1].turn
  BY DEF Steady
<1>1. PICK h \in 1..i : Follows(T, h, i) /\ T[i].of \in T[h].calls
  BY DEF Placed
<1>2. T[h].role # "tool" /\ \A j \in h + 1..i : T[j].role = "tool"
  BY <1>1 DEF Follows
<1>3. h \in 1..i - 1 /\ i - 1 \in 1..Len(T) /\ h \in 1..Len(T)
  BY <1>2
<1>4. T[i].turn = T[h].turn
  BY <1>1, <1>3 DEF Timed
<1>5. Follows(T, h, i - 1)
  BY <1>2, <1>3 DEF Follows
<1>6. CASE h = i - 1
  BY <1>4, <1>6
<1>7. CASE h # i - 1
  <2>1. T[i - 1].role = "tool"
    BY <1>2, <1>3, <1>7
  <2>2. PICK g \in 1..i - 1 : Follows(T, g, i - 1) /\ T[i - 1].of \in T[g].calls
    BY <1>3, <2>1 DEF Placed
  <2>3. g = h
    BY <1>3, <1>5, <2>2, FollowsOne
  <2> QED BY <1>3, <1>4, <2>1, <2>2, <2>3 DEF Timed
<1> QED BY <1>6, <1>7

LEMMA CutSplit ==
    ASSUME NEW T \in Seq(Messages), Steady(T), NEW b, NEW t, Cut(T, b, t)
    PROVE  Split(T, b)
<1>1. b \in 0..Len(T)
  BY DEF Cut
<1>2. ASSUME 0 < b, b < Len(T) PROVE T[b + 1].role # "tool" /\ \A h \in 1..b : Follows(T, h, b) => T[h].turn # T[b + 1].turn
  <2>1. b \in 1..Len(T) /\ b + 1 \in 2..Len(T) /\ (b + 1) - 1 = b
    BY <1>1, <1>2
  <2>2. T[b].turn # T[b + 1].turn
    BY <1>2 DEF Cut
  <2>3. T[b + 1].role # "tool"
    BY <2>1, <2>2 DEF Steady
  <2>4. ASSUME NEW h \in 1..b, Follows(T, h, b) PROVE T[h].turn = T[b].turn
    <3>1. h \in 1..Len(T)
      BY <2>1
    <3> QED BY <2>1, <2>4, <3>1, SteadyRun
  <2> QED BY <2>2, <2>3, <2>4
<1> QED BY <1>1, <1>2 DEF Split

\* F is the beginning of T, but for what was appended to its messages.
Heads(F, T) ==
    F \in Seq(Messages) /\ T \in Seq(Messages) /\ Len(F) <= Len(T) /\ \A i \in 1..Len(F) : Same(F[i], T[i])

LEMMA PrefixRuns ==
    ASSUME NEW F, NEW T, Heads(F, T), NEW i \in 1..Len(F), NEW h \in 1..Len(F)
    PROVE  Follows(F, h, i) <=> Follows(T, h, i)
<1>1. F \in Seq(Messages) /\ T \in Seq(Messages) /\ Len(F) <= Len(T) /\ \A j \in 1..Len(F) : F[j].role = T[j].role
  BY DEF Heads, Same
<1>2. \A j \in h + 1..i : j \in 1..Len(F)
  OBVIOUS
<1> QED BY <1>1, <1>2 DEF Follows

LEMMA PrefixKeeps ==
    ASSUME NEW F, NEW T, Heads(F, T)
    PROVE  /\ Timed(T) => Timed(F)
           /\ Steady(T) => Steady(F)
           /\ \A t : Dated(T, t) => Dated(F, t)
           /\ \A b : b <= Len(F) /\ Split(T, b) => Split(F, b)
           /\ \A b, t : Len(F) = Len(T) /\ Cut(T, b, t) => Cut(F, b, t)
<1>1. F \in Seq(Messages) /\ T \in Seq(Messages) /\ Len(F) <= Len(T) /\ Len(F) \in Nat /\ Len(T) \in Nat
  BY DEF Heads
<1>2. \A i \in 1..Len(F) : i \in 1..Len(T) /\ F[i].role = T[i].role /\ F[i].turn = T[i].turn /\ F[i].calls = T[i].calls /\ F[i].of = T[i].of
  BY <1>1 DEF Heads, Same
<1>3. \A i, h \in 1..Len(F) : Follows(F, h, i) <=> Follows(T, h, i)
  BY PrefixRuns
<1>4. Timed(T) => Timed(F)
  BY <1>2, <1>3 DEF Timed
<1>5. Steady(T) => Steady(F)
  <2>1. \A i \in 2..Len(F) : i \in 1..Len(F) /\ i - 1 \in 1..Len(F) /\ i \in 2..Len(T)
    BY <1>1
  <2> QED BY <1>2, <2>1 DEF Steady
<1>6. ASSUME NEW t, Dated(T, t) PROVE Dated(F, t)
  BY <1>2, <1>6 DEF Dated
<1>7. ASSUME NEW b, b <= Len(F), Split(T, b) PROVE Split(F, b)
  <2>1. b \in 0..Len(F)
    BY <1>1, <1>7 DEF Split
  <2>2. ASSUME 0 < b, b < Len(F) PROVE F[b + 1].role # "tool" /\ \A h \in 1..b : Follows(F, h, b) => F[h].turn # F[b + 1].turn
    <3>1. b \in 1..Len(F) /\ b + 1 \in 1..Len(F) /\ b < Len(T) /\ \A h \in 1..b : h \in 1..Len(F)
      BY <1>1, <2>1, <2>2
    <3>2. T[b + 1].role # "tool" /\ \A h \in 1..b : Follows(T, h, b) => T[h].turn # T[b + 1].turn
      BY <1>7, <2>2, <3>1 DEF Split
    <3> QED BY <1>2, <1>3, <3>1, <3>2
  <2> QED BY <2>1, <2>2 DEF Split
<1>8. ASSUME NEW b, NEW t, Len(F) = Len(T), Cut(T, b, t) PROVE Cut(F, b, t)
  <2>1. b \in 0..Len(F)
    BY <1>8 DEF Cut
  <2>2. CASE b > 0 /\ b < Len(F)
    <3>1. b \in 1..Len(F) /\ b + 1 \in 1..Len(F)
      BY <1>1, <2>1, <2>2
    <3>2. T[b].turn # T[b + 1].turn
      BY <1>8, <2>2 DEF Cut
    <3>3. F[b].turn # F[b + 1].turn
      BY <1>2, <3>1, <3>2
    <3> QED BY <2>1, <2>2, <3>3 DEF Cut
  <2>3. CASE b > 0 /\ ~(b < Len(F))
    <3>1. b \in 1..Len(F) /\ ~(b < Len(T))
      BY <1>1, <1>8, <2>1, <2>3
    <3>2. T[b].turn # t
      BY <1>8, <2>3, <3>1 DEF Cut
    <3>3. F[b].turn # t
      BY <1>2, <3>1, <3>2
    <3> QED BY <2>1, <2>3, <3>3 DEF Cut
  <2>4. CASE ~(b > 0)
    BY <2>1, <2>4 DEF Cut
  <2> QED BY <2>2, <2>3, <2>4
<1> QED BY <1>4, <1>5, <1>6, <1>7, <1>8

\* A turn that ended stays ended as a transcript grows, when what is new first
\* is of the turn that was to come.
LEMMA CutExtends ==
    ASSUME NEW A, NEW B, Extends(A, B), NEW b, NEW t, NEW u, Cut(A, b, t),
           \/ b # Len(A)
           \/ Len(A) < Len(B) /\ B[Len(A) + 1].turn = t
           \/ Len(A) = Len(B) /\ u = t
           \/ Len(A) = Len(B) /\ u = -1
    PROVE  Cut(B, b, u)
<1>1. /\ A \in Seq(Messages) /\ B \in Seq(Messages) /\ Len(A) <= Len(B) /\ Len(A) \in Nat /\ Len(B) \in Nat
      /\ \A i \in 1..Len(A) : B[i] = A[i] /\ A[i] \in Messages
  BY DEF Extends
<1>2. b \in 0..Len(A) /\ b \in 0..Len(B)
  BY <1>1 DEF Cut
<1>3. CASE b = 0
  BY <1>2, <1>3 DEF Cut
<1>4. CASE b \in 1..Len(A) /\ b < Len(A)
  <2>1. b + 1 \in 1..Len(A) /\ b < Len(B) /\ b > 0
    BY <1>1, <1>4
  <2>2. A[b].turn # A[b + 1].turn
    BY <1>4, <2>1 DEF Cut
  <2>3. B[b].turn # B[b + 1].turn
    BY <1>1, <1>4, <2>1, <2>2
  <2> QED BY <1>2, <2>1, <2>3 DEF Cut
<1>5. CASE b \in 1..Len(A) /\ b = Len(A)
  <2>1. ~(b < Len(A)) /\ b > 0
    BY <1>1, <1>5
  <2>2. A[b].turn # t /\ B[b] = A[b]
    BY <1>1, <1>5, <2>1 DEF Cut
  <2>3. CASE Len(A) < Len(B) /\ B[Len(A) + 1].turn = t
    BY <1>2, <1>5, <2>1, <2>2, <2>3 DEF Cut
  <2>4. CASE Len(A) = Len(B) /\ u = t
    BY <1>2, <1>5, <2>1, <2>2, <2>4 DEF Cut
  <2>5. CASE Len(A) = Len(B) /\ u = -1
    <3>1. A[b].turn # -1
      <4>1. A[b] \in Messages
        BY <1>1, <1>5
      <4>2. A[b].turn \in Nat
        BY <4>1, MessageIs
      <4> QED BY <4>2
    <3> QED BY <1>2, <1>5, <2>1, <2>2, <2>5, <3>1 DEF Cut
  <2> QED BY <1>5, <2>3, <2>4, <2>5
<1> QED BY <1>2, <1>3, <1>4, <1>5

\* What a message more, of the turn of the one before when it is a reply, keeps.
LEMMA AppendSteady ==
    ASSUME NEW T \in Seq(Messages), NEW m \in Messages, NEW t \in Nat, NEW u \in Nat, t <= u, Steady(T), Dated(T, t),
           m.role = "tool" => T # <<>> /\ m.turn = T[Len(T)].turn,
           m.turn <= u, m.turn = 0 => m.role = "digest"
    PROVE  Steady(Append(T, m)) /\ Dated(Append(T, m), u)
<1> DEFINE A == Append(T, m)
           n == Len(T)
<1>1. /\ A \in Seq(Messages) /\ Len(A) = n + 1 /\ A[n + 1] = m
      /\ \A i \in 1..n : A[i] = T[i]
  BY AppendLike
<1>2. n \in Nat
  OBVIOUS
<1>3. \A i \in 1..n : T[i].turn \in Nat
  BY MessageIs
<1> HIDE DEF A
<1>4. Steady(A)
  <2> SUFFICES ASSUME NEW i \in 2..Len(A), A[i].role = "tool" PROVE A[i].turn = A[i - 1].turn
    BY DEF Steady
  <2>1. CASE i = n + 1
    <3>1. i - 1 = n /\ n \in 1..n
      BY <1>1, <1>2, <2>1
    <3> QED BY <1>1, <2>1, <3>1
  <2>2. CASE i # n + 1
    <3>1. i \in 2..n /\ i \in 1..n /\ i - 1 \in 1..n
      BY <1>1, <1>2, <2>2
    <3> QED BY <1>1, <3>1 DEF Steady
  <2> QED BY <2>1, <2>2
<1>5. Dated(A, u)
  <2> SUFFICES ASSUME NEW i \in 1..Len(A)
               PROVE A[i].turn <= u /\ (A[i].turn = 0 => A[i].role = "digest" \/ (i = 1 /\ A[i].role = "system"))
    BY DEF Dated
  <2>1. CASE i = n + 1
    BY <1>1, <2>1
  <2>2. CASE i # n + 1
    <3>1. i \in 1..n
      BY <1>1, <1>2, <2>2
    <3>2. T[i].turn <= t /\ (T[i].turn = 0 => T[i].role = "digest" \/ (i = 1 /\ T[i].role = "system"))
      BY <3>1 DEF Dated
    <3> QED BY <1>1, <1>3, <3>1, <3>2
  <2> QED BY <2>1, <2>2
<1> QED BY <1>4, <1>5 DEF A

------------------------------------------------------------------------------
(* The way of a boundary through edits *)

Goes(b, e) ==
    IF e.op = "insert" THEN IF b >= e.at THEN b + 1 ELSE b
    ELSE IF b > e.at THEN b - 1 ELSE b

\* w is the way of boundary b through the first n of the edits.
Way(b, es, n, w) ==
    /\ w \in [0..n -> Nat] /\ w[0] = b
    /\ \A k \in 1..n : w[k] = Goes(w[k - 1], es[k])

LEMMA MovedGoes ==
    ASSUME NEW P \in SUBSET Nat, NEW e \in Edits, NEW q \in Moved(P, e)
    PROVE  \E p \in P : q = Goes(p, e)
<1>1. e.op \in {"insert", "remove"}
  BY DEF Edits
<1>2. CASE e.op = "insert"
  <2>1. q \in Inserted(P, e.at)
    BY <1>2 DEF Moved
  <2>2. PICK p \in P : q = IF p >= e.at THEN p + 1 ELSE p
    BY <2>1 DEF Inserted
  <2> QED BY <1>2, <2>2 DEF Goes
<1>3. CASE e.op = "remove"
  <2>1. q \in Removed(P, e.at)
    BY <1>3 DEF Moved
  <2>2. PICK p \in P : q = IF p > e.at THEN p - 1 ELSE p
    BY <2>1 DEF Removed
  <2> QED BY <1>3, <2>2 DEF Goes
<1> QED BY <1>1, <1>2, <1>3

LEMMA GoesTyped ==
    ASSUME NEW p \in Nat, NEW e \in Edits
    PROVE  Goes(p, e) \in Nat
<1> DEFINE a == e.at
<1>1. a \in Nat
  BY DEF Edits
<1> HIDE DEF a
<1> QED BY <1>1 DEF Goes, a

LEMMA WayOn ==
    ASSUME NEW b, NEW es, NEW n \in Nat, NEW w, Way(b, es, n, w), NEW q \in Nat, q = Goes(w[n], es[n + 1])
    PROVE  \E v : Way(b, es, n + 1, v) /\ v[n + 1] = q
<1> DEFINE v == [k \in 0..n + 1 |-> IF k = n + 1 THEN q ELSE w[k]]
<1>1. w \in [0..n -> Nat] /\ w[0] = b /\ \A k \in 1..n : w[k] = Goes(w[k - 1], es[k])
  BY DEF Way
<1>2. v \in [0..n + 1 -> Nat]
  <2>1. \A k \in 0..n + 1 : k = n + 1 \/ k \in 0..n
    OBVIOUS
  <2> QED BY <1>1, <2>1
<1>3. v[n + 1] = q /\ \A k \in 0..n : v[k] = w[k]
  <2>1. n + 1 \in 0..n + 1 /\ \A k \in 0..n : k \in 0..n + 1 /\ k # n + 1
    OBVIOUS
  <2> QED BY <2>1
<1> HIDE DEF v
<1>4. v[0] = b
  BY <1>1, <1>3
<1>5. ASSUME NEW k \in 1..n + 1 PROVE v[k] = Goes(v[k - 1], es[k])
  <2>1. CASE k = n + 1
    <3>1. k - 1 = n /\ n \in 0..n
      BY <2>1
    <3> QED BY <1>3, <2>1, <3>1
  <2>2. CASE k # n + 1
    <3>1. k \in 1..n /\ k \in 0..n /\ k - 1 \in 0..n
      BY <2>2
    <3> QED BY <1>1, <1>3, <3>1
  <2> QED BY <2>1, <2>2
<1>6. Way(b, es, n + 1, v)
  BY <1>2, <1>4, <1>5 DEF Way
<1> QED BY <1>3, <1>6

\* Each boundary after the edits is one of those before, and went a way.
LEMMA FollowedWay ==
    ASSUME NEW P \in SUBSET Nat, NEW es \in Seq(Edits), NEW q \in Followed(P, es)
    PROVE  \E b \in P : \E w : Way(b, es, Len(es), w) /\ w[Len(es)] = q
<1>1. PICK f : Follow(P, es, Len(es), f) /\ Followed(P, es) = f[Len(es)]
  BY FollowedIs
<1> DEFINE N == Len(es)
<1>2. N \in Nat /\ f \in [0..N -> SUBSET Nat] /\ f[0] = P /\ \A k \in 1..N : f[k] = Moved(f[k - 1], es[k])
  BY <1>1 DEF Follow
<1>3. \A k \in 1..N : es[k] \in Edits
  OBVIOUS
<1> HIDE DEF N
<1> DEFINE Comes(k) == \A p \in f[k] : \E b \in P : \E w : Way(b, es, k, w) /\ w[k] = p
           S == {k \in 0..N : ~Comes(k)}
<1>4. CASE S = {}
  <2>1. N \in 0..N
    BY <1>2
  <2>2. Comes(N)
    BY <1>4, <2>1
  <2> QED BY <1>1, <2>2 DEF N
<1>5. CASE S # {}
  <2>1. S \in SUBSET Nat
    BY <1>2
  <2>2. PICK k \in S : \A j \in S : k <= j
    BY <1>5, <2>1, LeastNumber
  <2>3. k \in 0..N /\ ~Comes(k)
    BY <2>2
  <2>4. CASE k = 0
    <3> SUFFICES ASSUME NEW p \in f[0] PROVE \E b \in P : \E w : Way(b, es, 0, w) /\ w[0] = p
      BY <2>3, <2>4
    <3>1. p \in P /\ p \in Nat
      BY <1>2
    <3> DEFINE w == [j \in 0..0 |-> p]
    <3>2. 0 \in 0..0 /\ \A j \in 1..0 : FALSE
      OBVIOUS
    <3>3. w \in [0..0 -> Nat] /\ w[0] = p
      BY <3>1, <3>2, Zenon
    <3> HIDE DEF w
    <3>4. Way(p, es, 0, w)
      BY <3>2, <3>3, Zenon DEF Way
    <3> QED BY <3>1, <3>3, <3>4
  <2>5. CASE k # 0
    <3>1. k - 1 \in 0..N /\ k \in 1..N /\ ~(k <= k - 1) /\ k - 1 \in Nat /\ (k - 1) + 1 = k
      BY <1>2, <2>3, <2>5
    <3>2. Comes(k - 1)
      BY <2>2, <3>1
    <3> SUFFICES ASSUME NEW p \in f[k] PROVE \E b \in P : \E w : Way(b, es, k, w) /\ w[k] = p
      BY <2>3
    <3>3. f[k - 1] \in SUBSET Nat /\ f[k] \in SUBSET Nat /\ p \in Moved(f[k - 1], es[k]) /\ es[k] \in Edits
      BY <1>2, <1>3, <3>1
    <3>4. PICK r \in f[k - 1] : p = Goes(r, es[k])
      BY <3>3, MovedGoes
    <3>5. PICK b \in P : \E w : Way(b, es, k - 1, w) /\ w[k - 1] = r
      BY <3>2
    <3>8. PICK w : Way(b, es, k - 1, w) /\ w[k - 1] = r
      BY <3>5
    <3>6. p \in Nat /\ p = Goes(w[k - 1], es[(k - 1) + 1])
      BY <3>1, <3>3, <3>4, <3>8
    <3>7. \E v : Way(b, es, (k - 1) + 1, v) /\ v[(k - 1) + 1] = p
      BY <3>1, <3>8, <3>6, WayOn
    <3> QED BY <3>1, <3>7
  <2> QED BY <2>4, <2>5
<1> QED BY <1>4, <1>5

\* A stretch of the way, through insertions of which the first m are at or
\* before where the boundary then is,
LEMMA WayUp ==
    ASSUME NEW N \in Nat, NEW w \in [0..N -> Nat], NEW s \in 0..N, NEW l \in Nat, s + l <= N, NEW m \in 0..l, NEW at \in [1..l -> Nat],
           \A k \in 1..l : w[s + k] = IF w[s + k - 1] >= at[k] THEN w[s + k - 1] + 1 ELSE w[s + k - 1],
           \A k \in 1..l : k <= m => w[s] + k - 1 >= at[k],
           \A k \in 1..l : k > m => w[s] + m < at[k]
    PROVE  w[s + l] = w[s] + m
<1> DEFINE By(k) == IF k <= m THEN k ELSE m
           S == {k \in 0..l : w[s + k] # w[s] + By(k)}
<1>1. CASE S = {}
  <2>1. l \in 0..l /\ (l <= m => l = m)
    OBVIOUS
  <2> QED BY <1>1, <2>1
<1>2. CASE S # {}
  <2>1. S \in SUBSET Nat
    OBVIOUS
  <2>2. PICK k \in S : \A j \in S : k <= j
    BY <1>2, <2>1, LeastNumber
  <2>3. k \in 0..l /\ w[s + k] # w[s] + By(k)
    BY <2>2
  <2>4. w[s] \in Nat
    OBVIOUS
  <2>5. k # 0
    BY <2>3, <2>4
  <2>6. k \in 1..l /\ k - 1 \in 0..l /\ ~(k <= k - 1) /\ s + k - 1 = s + (k - 1) /\ s + k - 1 \in 0..N
    BY <2>3, <2>5
  <2>7. w[s + k - 1] = w[s] + By(k - 1) /\ at[k] \in Nat
    BY <2>2, <2>6
  <2>8. w[s + k] = IF w[s + k - 1] >= at[k] THEN w[s + k - 1] + 1 ELSE w[s + k - 1]
    BY <2>6
  <2>9. (k <= m => w[s] + k - 1 >= at[k]) /\ (k > m => w[s] + m < at[k])
    BY <2>6
  <2>10. CASE k <= m
    <3>1. By(k) = k /\ By(k - 1) = k - 1
      BY <2>6, <2>10
    <3> HIDE DEF By
    <3> QED BY <2>3, <2>4, <2>6, <2>7, <2>8, <2>9, <2>10, <3>1
  <2>11. CASE k > m
    <3>1. By(k) = m /\ By(k - 1) = m
      BY <2>6, <2>11
    <3> HIDE DEF By
    <3> QED BY <2>3, <2>4, <2>6, <2>7, <2>8, <2>9, <2>11, <3>1
  <2> QED BY <2>6, <2>10, <2>11
<1> QED BY <1>1, <1>2

\* and through removals of which the first m are before it.
Descends(w, s, l, m, at) ==
    /\ m <= w[s]
    /\ \A k \in 1..l : w[s + k] = IF w[s + k - 1] > at[k] THEN w[s + k - 1] - 1 ELSE w[s + k - 1]
    /\ \A k \in 1..l : k <= m => w[s] - (k - 1) > at[k]
    /\ \A k \in 1..l : k > m => w[s] - m <= at[k]

LEMMA WayDown ==
    ASSUME NEW N \in Nat, NEW w \in [0..N -> Nat], NEW s \in 0..N, NEW l \in Nat, s + l <= N, NEW m \in 0..l, NEW at \in [1..l -> Nat],
           Descends(w, s, l, m, at)
    PROVE  w[s + l] = w[s] - m
<1>0. /\ m <= w[s]
      /\ \A k \in 1..l : w[s + k] = IF w[s + k - 1] > at[k] THEN w[s + k - 1] - 1 ELSE w[s + k - 1]
      /\ \A k \in 1..l : k <= m => w[s] - (k - 1) > at[k]
      /\ \A k \in 1..l : k > m => w[s] - m <= at[k]
  BY DEF Descends
<1> DEFINE By(k) == IF k <= m THEN k ELSE m
           S == {k \in 0..l : w[s + k] # w[s] - By(k)}
<1>1. CASE S = {}
  <2>1. l \in 0..l /\ (l <= m => l = m)
    OBVIOUS
  <2> QED BY <1>1, <2>1
<1>2. CASE S # {}
  <2>1. S \in SUBSET Nat
    OBVIOUS
  <2>2. PICK k \in S : \A j \in S : k <= j
    BY <1>2, <2>1, LeastNumber
  <2>3. k \in 0..l /\ w[s + k] # w[s] - By(k)
    BY <2>2
  <2>4. w[s] \in Nat
    OBVIOUS
  <2>5. k # 0
    BY <2>3, <2>4
  <2>6. k \in 1..l /\ k - 1 \in 0..l /\ ~(k <= k - 1) /\ s + k - 1 = s + (k - 1) /\ s + k - 1 \in 0..N
    BY <2>3, <2>5
  <2>7. w[s + k - 1] = w[s] - By(k - 1) /\ at[k] \in Nat
    BY <2>2, <2>6
  <2>8. w[s + k] = IF w[s + k - 1] > at[k] THEN w[s + k - 1] - 1 ELSE w[s + k - 1]
    BY <1>0, <2>6
  <2>9. (k <= m => w[s] - (k - 1) > at[k]) /\ (k > m => w[s] - m <= at[k])
    BY <1>0, <2>6
  <2>10. CASE k <= m
    <3>1. By(k) = k /\ By(k - 1) = k - 1
      BY <2>6, <2>10
    <3> HIDE DEF By
    <3> QED BY <2>3, <2>4, <2>6, <2>7, <2>8, <2>9, <2>10, <3>1
  <2>11. CASE k > m
    <3>1. By(k) = m /\ By(k - 1) = m
      BY <2>6, <2>11
    <3> HIDE DEF By
    <3> QED BY <2>3, <2>4, <2>6, <2>7, <2>8, <2>9, <2>11, <3>1
  <2> QED BY <2>6, <2>10, <2>11
<1> QED BY <1>1, <1>2

\* The places a boundary counts.
UpTo(S, b) == {x \in S : x[1] <= b}

LEMMA UpToIs ==
    ASSUME NEW S \in SUBSET Places, IsFiniteSet(S), NEW b \in Nat
    PROVE  /\ Cardinality(UpTo(S, b)) \in 0..Cardinality(S)
           /\ \A x \in S : x[1] <= b <=> Rank(S, x) < Cardinality(UpTo(S, b))
           /\ \A x \in Places : x[1] > b => Cardinality(UpTo(S, b)) <= Rank(S, x)
<1> DEFINE B(x) == {y \in S : Before(y, x)}
           C == UpTo(S, b)
<1>1. C \in SUBSET S
  BY DEF UpTo
<1>2. IsFiniteSet(C) /\ Cardinality(C) <= Cardinality(S)
  <2> HIDE DEF C
  <2> QED BY <1>1, FS_Subset
<1>3. Cardinality(C) \in 0..Cardinality(S)
  <2> HIDE DEF C
  <2>1. Cardinality(C) \in Nat /\ Cardinality(S) \in Nat
    BY <1>2, FS_CardinalityType
  <2> QED BY <1>2, <2>1
<1>4. ASSUME NEW x \in Places
      PROVE  IsFiniteSet(B(x)) /\ Rank(S, x) = Cardinality(B(x)) /\ Cardinality(B(x)) \in Nat
  <2>1. B(x) \in SUBSET S
    OBVIOUS
  <2>2. Rank(S, x) = Cardinality(B(x))
    BY DEF Rank
  <2> HIDE DEF B
  <2>3. IsFiniteSet(B(x))
    BY <2>1, FS_Subset
  <2>4. Cardinality(B(x)) \in Nat
    BY <2>3, FS_CardinalityType
  <2> QED BY <2>2, <2>3, <2>4
<1>5. \A x \in Places : x[1] \in Nat /\ x[2] \in Nat
  BY DEF Places
<1>6. ASSUME NEW x \in Places, x[1] > b PROVE Cardinality(C) <= Rank(S, x)
  <2>1. C \in SUBSET B(x)
    <3> SUFFICES ASSUME NEW y \in C PROVE y \in B(x)
      OBVIOUS
    <3>1. y \in S /\ y \in Places /\ y[1] <= b
      BY DEF UpTo
    <3>2. y[1] < x[1]
      BY <1>5, <1>6, <3>1
    <3> QED BY <3>1, <3>2 DEF Before
  <2> HIDE DEF B, C
  <2>2. Cardinality(C) <= Cardinality(B(x))
    BY <1>4, <2>1, FS_Subset
  <2> QED BY <1>4, <2>2
<1>7. ASSUME NEW x \in S, x[1] <= b PROVE Rank(S, x) < Cardinality(C)
  <2>0. x \in Places
    OBVIOUS
  <2>1. B(x) \in SUBSET C
    <3> SUFFICES ASSUME NEW y \in B(x) PROVE y \in C
      OBVIOUS
    <3>1. y \in S /\ y \in Places /\ Before(y, x)
      OBVIOUS
    <3>2. y[1] <= x[1]
      BY <1>5, <2>0, <3>1 DEF Before
    <3>3. y[1] <= b
      BY <1>5, <1>7, <2>0, <3>1, <3>2
    <3> QED BY <3>1, <3>3 DEF UpTo
  <2>2. x \in C /\ x \notin B(x)
    BY <1>7, <2>0, BeforeOrders DEF UpTo
  <2> HIDE DEF B, C
  <2>3. Cardinality(B(x)) <= Cardinality(C) /\ (Cardinality(C) = Cardinality(B(x)) => C = B(x))
    BY <1>2, <2>1, FS_Subset
  <2>4. Cardinality(C) # Cardinality(B(x)) /\ Cardinality(B(x)) \in Nat /\ Cardinality(C) \in Nat
    BY <1>3, <1>4, <2>0, <2>2, <2>3
  <2>5. Rank(S, x) = Cardinality(B(x))
    BY <1>4, <2>0
  <2> QED BY <2>3, <2>4, <2>5
<1> HIDE DEF B, C
<1>8. ASSUME NEW x \in S PROVE x[1] <= b <=> Rank(S, x) < Cardinality(C)
  <2>1. x \in Places
    OBVIOUS
  <2>2. x[1] \in Nat /\ Rank(S, x) \in Nat /\ Cardinality(C) \in Nat
    BY <1>3, <1>4, <1>5, <2>1
  <2> QED BY <1>6, <1>7, <2>1, <2>2
<1> QED BY <1>3, <1>6, <1>8 DEF C

LEMMA ApartAdd ==
    ASSUME NEW A, NEW B, IsFiniteSet(A), IsFiniteSet(B), A \cap B = {}
    PROVE  Cardinality(A \cup B) = Cardinality(A) + Cardinality(B)
<1>1. Cardinality(A \cup B) = Cardinality(A) + Cardinality(B) - Cardinality(A \cap B)
  BY FS_Union
<1>2. Cardinality(A \cap B) = 0
  BY FS_EmptySet
<1>3. Cardinality(A) \in Nat /\ Cardinality(B) \in Nat
  BY FS_CardinalityType
<1> QED BY <1>1, <1>2, <1>3

LEMMA RankAdds ==
    ASSUME NEW A, NEW B, IsFiniteSet(A), IsFiniteSet(B), A \cap B = {}, NEW x
    PROVE  Rank(A \cup B, x) = Rank(A, x) + Rank(B, x)
<1> DEFINE P == {y \in A : Before(y, x)}
           Q == {y \in B : Before(y, x)}
<1>1. P \in SUBSET A /\ Q \in SUBSET B /\ P \cap Q = {} /\ {y \in A \cup B : Before(y, x)} = P \cup Q
  OBVIOUS
<1>2. Rank(A \cup B, x) = Cardinality(P \cup Q) /\ Rank(A, x) = Cardinality(P) /\ Rank(B, x) = Cardinality(Q)
  BY <1>1 DEF Rank
<1> HIDE DEF P, Q
<1>3. IsFiniteSet(P) /\ IsFiniteSet(Q)
  BY <1>1, FS_Subset
<1> QED BY <1>1, <1>2, <1>3, ApartAdd

LEMMA UpToAdds ==
    ASSUME NEW A, NEW B, IsFiniteSet(A), IsFiniteSet(B), A \cap B = {}, NEW b
    PROVE  Cardinality(UpTo(A \cup B, b)) = Cardinality(UpTo(A, b)) + Cardinality(UpTo(B, b))
<1> DEFINE P == UpTo(A, b)
           Q == UpTo(B, b)
<1>1. P \in SUBSET A /\ Q \in SUBSET B /\ P \cap Q = {} /\ UpTo(A \cup B, b) = P \cup Q
  BY DEF UpTo
<1> HIDE DEF P, Q
<1>2. IsFiniteSet(P) /\ IsFiniteSet(Q)
  BY <1>1, FS_Subset
<1> QED BY <1>1, <1>2, ApartAdd DEF P, Q

LEMMA KeptUpTo ==
    ASSUME NEW T \in Seq(Messages), NEW b \in 0..Len(T)
    PROVE  Cardinality(UpTo(Kept(T), b)) = b
<1> DEFINE S == {<<i, 0>> : i \in 1..b}
           f == [i \in 1..b |-> <<i, 0>>]
<1>1. UpTo(Kept(T), b) = S
  <2>1. ASSUME NEW x \in UpTo(Kept(T), b) PROVE x \in S
    <3>1. PICK i \in 1..Len(T) : x = <<i, 0>>
      BY DEF UpTo, Kept
    <3>2. i <= b
      BY <3>1 DEF UpTo
    <3>3. i \in 1..b
      BY <3>2
    <3> QED BY <3>1, <3>3
  <2>2. ASSUME NEW i \in 1..b PROVE <<i, 0>> \in UpTo(Kept(T), b)
    <3>1. i \in 1..Len(T) /\ i <= b
      OBVIOUS
    <3> QED BY <3>1 DEF UpTo, Kept
  <2> QED BY <2>1, <2>2
<1>2. f \in [1..b -> S] /\ b \in Nat /\ (\A i, j \in 1..b : f[i] = f[j] => i = j) /\ \A x \in S : \E i \in 1..b : f[i] = x
  OBVIOUS
<1> HIDE DEF S, f
<1>3. Cardinality(S) = b
  BY <1>2, Counted
<1> QED BY <1>1, <1>3

\* Where the stubs go, from what is at a boundary: the first ones before it,
\* the rest after.
LEMMA StubsGo ==
    ASSUME NEW T \in Seq(Messages), NEW b \in 0..Len(T)
    PROVE  LET at == Completed(T).at
               m == Cardinality(UpTo(Stubs(T), b))
           IN  /\ at \in Seq(Nat) /\ m \in 0..Len(at)
               /\ Cardinality(UpTo(AllPlaces(T), b)) = b + m
               /\ \A k \in 1..Len(at) : (k <= m => b + k - 1 >= at[k]) /\ (k > m => b + m < at[k])
<1> DEFINE at == Completed(T).at
           m == Cardinality(UpTo(Stubs(T), b))
           S == Stubs(T)
<1>1. /\ at \in Seq(Nat) /\ Len(at) = Cardinality(S)
      /\ \A k \in DOMAIN at : \E x \in S : at[k] = Rank(AllPlaces(T), x) /\ Rank(S, x) = k - 1
  BY CompletedAt
<1>2. S \in SUBSET Places /\ IsFiniteSet(S) /\ b \in Nat
  BY StubsAre
<1>3. m \in 0..Cardinality(S) /\ \A x \in S : x[1] <= b <=> Rank(S, x) < m
  BY <1>2, UpToIs
<1>4. Kept(T) \cap S = {}
  <2>1. \A x \in Kept(T) : x[2] = 0
    BY DEF Kept
  <2>2. \A x \in S : x[2] # 0
    BY StubsAre
  <2> QED BY <2>1, <2>2
<1>5. IsFiniteSet(Kept(T)) /\ AllPlaces(T) = Kept(T) \cup S
  BY KeptIs DEF AllPlaces
<1>51. \A x \in S : x[1] \in 1..Len(T) /\ x[2] \in Names /\ x[2] # 0 /\ x = <<x[1], x[2]>>
  BY StubsAre
<1> HIDE DEF m, S
<1>6. Cardinality(UpTo(AllPlaces(T), b)) = b + m
  <2>1. Cardinality(UpTo(Kept(T) \cup S, b)) = Cardinality(UpTo(Kept(T), b)) + Cardinality(UpTo(S, b))
    BY <1>2, <1>4, <1>5, UpToAdds
  <2>2. Cardinality(UpTo(Kept(T), b)) = b
    BY KeptUpTo
  <2> QED BY <1>5, <2>1, <2>2 DEF m, S
<1>7. ASSUME NEW k \in 1..Len(at) PROVE (k <= m => b + k - 1 >= at[k]) /\ (k > m => b + m < at[k])
  <2>1. DOMAIN at = 1..Len(at)
    BY <1>1
  <2>2. PICK x \in S : at[k] = Rank(AllPlaces(T), x) /\ Rank(S, x) = k - 1
    BY <1>1, <2>1
  <2>3. x[1] \in 1..Len(T) /\ x[2] \in Names /\ x[2] # 0 /\ x = <<x[1], x[2]>>
    BY <1>51
  <2>4. x[2] \in Nat
    BY <2>3 DEF Names
  <2>5. Rank(Kept(T), <<x[1], x[2]>>) = IF x[2] = 0 THEN x[1] - 1 ELSE x[1]
    BY <2>3, <2>4, KeptIs
  <2>6. Rank(Kept(T), x) = x[1]
    BY <2>3, <2>5
  <2>7. Rank(Kept(T) \cup S, x) = Rank(Kept(T), x) + Rank(S, x)
    BY <1>2, <1>4, <1>5, RankAdds
  <2>8. at[k] = x[1] + (k - 1)
    BY <1>5, <2>2, <2>6, <2>7
  <2>9. x[1] <= b <=> k - 1 < m
    BY <1>3, <2>2
  <2>10. x[1] \in Nat /\ m \in Nat /\ k \in Nat /\ b \in Nat
    BY <1>2, <1>3, <2>3
  <2> HIDE DEF at
  <2> QED BY <2>8, <2>9, <2>10
<1> QED BY <1>1, <1>3, <1>6, <1>7 DEF m, S

\* Where the strays were, each without those before it.
LEMMA StraysGo ==
    ASSUME NEW T \in Seq(Messages), NEW b \in 0..Len(T)
    PROVE  LET at == Unstrayed(T).at
           IN  /\ at \in Seq(Nat)
               /\ \E m \in 0..Len(at) :
                     /\ m <= b /\ Cardinality(UpTo(StayPlaces(T), b)) = b - m
                     /\ \A k \in 1..Len(at) : (k <= m => b - (k - 1) > at[k]) /\ (k > m => b - m <= at[k])
<1> DEFINE at == Unstrayed(T).at
           S == Kept(T) \ StayPlaces(T)
           A == StayPlaces(T)
           m == Cardinality(UpTo(S, b))
<1>1. /\ at \in Seq(Nat) /\ Len(at) = Cardinality(S)
      /\ \A k \in DOMAIN at : \E x \in S : at[k] = Rank(A, x) /\ Rank(S, x) = k - 1
  BY UnstrayedAt
<1>2. Kept(T) \in SUBSET Places /\ IsFiniteSet(Kept(T)) /\ b \in Nat
  BY KeptIs
<1>3. A \in SUBSET Kept(T) /\ S \in SUBSET Kept(T) /\ A \cap S = {} /\ A \cup S = Kept(T)
  BY DEF StayPlaces
<1>0. \A x \in Kept(T) : \E i \in 1..Len(T) : x = <<i, 0>>
  BY DEF Kept
<1> HIDE DEF A, S
<1>4. IsFiniteSet(A) /\ IsFiniteSet(S) /\ A \in SUBSET Places /\ S \in SUBSET Places
  BY <1>2, <1>3, FS_Subset
<1>5. m \in 0..Cardinality(S) /\ \A x \in S : x[1] <= b <=> Rank(S, x) < m
  BY <1>2, <1>4, UpToIs
<1>6. Cardinality(UpTo(A, b)) \in 0..Cardinality(A) /\ \A x \in Places : x[1] > b => Cardinality(UpTo(A, b)) <= Rank(A, x)
  BY <1>2, <1>4, UpToIs
<1> HIDE DEF m
<1>7. Cardinality(UpTo(A, b)) = b - m /\ m <= b
  <2>1. Cardinality(UpTo(A \cup S, b)) = Cardinality(UpTo(A, b)) + Cardinality(UpTo(S, b))
    BY <1>3, <1>4, UpToAdds
  <2>2. Cardinality(UpTo(Kept(T), b)) = b
    BY KeptUpTo
  <2> DEFINE c == Cardinality(UpTo(A, b))
  <2>3. b = c + m
    BY <1>3, <2>1, <2>2 DEF m
  <2>4. c \in 0..Cardinality(A) /\ m \in 0..Cardinality(S)
    BY <1>5, <1>6
  <2>5. Cardinality(A) \in Nat /\ Cardinality(S) \in Nat
    BY <1>4, FS_CardinalityType
  <2> HIDE DEF c
  <2>6. c = b - m /\ m <= b
    BY <1>2, <2>3, <2>4, <2>5
  <2> QED BY <2>6 DEF c
<1>8. ASSUME NEW k \in 1..Len(at) PROVE (k <= m => b - (k - 1) > at[k]) /\ (k > m => b - m <= at[k])
  <2>1. DOMAIN at = 1..Len(at)
    BY <1>1
  <2>2. PICK x \in S : at[k] = Rank(A, x) /\ Rank(S, x) = k - 1
    BY <1>1, <2>1
  <2>3. PICK i \in 1..Len(T) : x = <<i, 0>>
    BY <1>0, <1>3
  <2>4. Rank(Kept(T), <<i, 0>>) = IF 0 = 0 THEN i - 1 ELSE i
    BY KeptIs
  <2>5. Rank(Kept(T), x) = i - 1 /\ x[1] = i
    BY <2>3, <2>4
  <2>6. Rank(A \cup S, x) = Rank(A, x) + Rank(S, x)
    BY <1>3, <1>4, RankAdds
  <2>7. at[k] + (k - 1) = i - 1
    BY <1>3, <2>2, <2>5, <2>6
  <2>8. i <= b <=> k - 1 < m
    BY <1>5, <2>2, <2>5
  <2>9. i > b => b - m <= at[k]
    <3>1. x \in Places
      BY <1>4
    <3> QED BY <1>6, <1>7, <2>2, <2>5, <3>1
  <2>10. i \in Nat /\ m \in Nat /\ k \in Nat /\ b \in Nat /\ at[k] \in Nat
    BY <1>1, <1>2, <1>5
  <2> HIDE DEF at
  <2> QED BY <2>7, <2>8, <2>9, <2>10
<1>9. m \in 0..Len(at)
  BY <1>1, <1>5
<1>10. \E m1 \in 0..Len(at) :
          /\ m1 <= b /\ Cardinality(UpTo(A, b)) = b - m1
          /\ \A k \in 1..Len(at) : (k <= m1 => b - (k - 1) > at[k]) /\ (k > m1 => b - m1 <= at[k])
  BY <1>7, <1>8, <1>9
<1> QED BY <1>1, <1>10 DEF A

\* Of V's messages, in their order from places f, the first q are at or before b.
Divides(V, f, b, q) == q \in 0..Len(V) /\ \A k \in 1..Len(V) : k <= q <=> f[k] <= b

LEMMA ArrangedDivides ==
    ASSUME NEW T, NEW S, NEW V, NEW a, NEW c, Arranges(T, S, V, a, c), Ranked(S, V, a, c),
           S \in SUBSET Places, IsFiniteSet(S), NEW b \in Nat
    PROVE  Divides(V, a, b, Cardinality(UpTo(S, b)))
<1> DEFINE m == Cardinality(UpTo(S, b))
           g == [k \in 1..Len(V) |-> <<a[k], c[k]>>]
<1>1. /\ T \in Seq(Messages) /\ S \subseteq Kept(T) \cup Stubs(T) /\ V \in Seq(Messages)
      /\ \A k \in 1..Len(V) : a[k] \in 1..Len(T) /\ c[k] \in Nat /\ <<a[k], c[k]>> \in S
      /\ \A i \in 1..Len(T), n \in Nat : <<i, n>> \in S => \E k \in 1..Len(V) : a[k] = i /\ c[k] = n
      /\ \A j, k \in 1..Len(V) : j < k <=> a[j] < a[k] \/ (a[j] = a[k] /\ c[j] < c[k])
  BY DEF Arranges, Has
<1>2. Len(V) \in Nat
  BY <1>1
<1>3. g \in [1..Len(V) -> S]
  BY <1>1
<1>4. ASSUME NEW i \in 1..Len(V), NEW j \in 1..Len(V), g[i] = g[j] PROVE i = j
  <2>1. a[i] = a[j] /\ c[i] = c[j]
    BY <1>4
  <2>2. ~(i < j) /\ ~(j < i)
    BY <1>1, <2>1
  <2> QED BY <2>2
<1>5. ASSUME NEW x \in S PROVE \E k \in 1..Len(V) : g[k] = x
  <2>1. PICK i \in 1..Len(T), n \in Nat : x = <<i, n>>
    BY <1>1, PlaceIs
  <2>2. PICK k \in 1..Len(V) : a[k] = i /\ c[k] = n
    BY <1>1, <2>1
  <2> QED BY <2>1, <2>2
<1> HIDE DEF g
<1>6. Cardinality(S) = Len(V)
  BY <1>2, <1>3, <1>4, <1>5, Counted
<1>7. m \in 0..Cardinality(S) /\ \A x \in S : x[1] <= b <=> Rank(S, x) < m
  BY UpToIs
<1> HIDE DEF m
<1>8. ASSUME NEW k \in 1..Len(V) PROVE k <= m <=> a[k] <= b
  <2>1. <<a[k], c[k]>> \in S /\ Rank(S, <<a[k], c[k]>>) = k - 1
    BY <1>1 DEF Ranked
  <2>2. a[k] <= b <=> k - 1 < m
    BY <1>7, <2>1
  <2>3. m \in Nat /\ k \in Nat
    BY <1>6, <1>7
  <2> QED BY <2>2, <2>3
<1> QED BY <1>6, <1>7, <1>8 DEF Divides, m

------------------------------------------------------------------------------
(* Repairs and turns *)

\* What a repair leaves is of the turn of the message whose run it is in.
LEMMA PlaceTurn ==
    ASSUME NEW B, NEW V, NEW f, NEW n, Arranges(B, GoodPlaces(B), V, f, n), Timed(B), NEW k \in 1..Len(V)
    PROVE  \E h \in 1..f[k] :
              /\ Follows(B, h, f[k]) /\ V[k].turn = B[h].turn
              /\ V[k].role = "tool" => B[h].calls # {}
              /\ V[k].role # "tool" => h = f[k] /\ n[k] = 0 /\ V[k] = B[f[k]]
<1> DEFINE i == f[k]
           c == n[k]
<1>1. B \in Seq(Messages) /\ i \in 1..Len(B) /\ c \in Nat /\ Has(GoodPlaces(B), i, c) /\ V[k] = AtPlace(B, i, c)
  BY DEF Arranges
<1> HIDE DEF i, c
<1>2. (c = 0 /\ ~Stray(B, i)) \/ (c \in Missing(B, i) /\ c # 0)
  BY <1>1, HasGood
<1>3. CASE c = 0 /\ ~Stray(B, i) /\ B[i].role # "tool"
  <2>1. Follows(B, i, i) /\ i \in 1..i
    BY <1>1, <1>3 DEF Follows
  <2>2. V[k] = B[i]
    BY <1>1, <1>3 DEF AtPlace
  <2> QED BY <1>3, <2>1, <2>2 DEF i, c
<1>4. CASE c = 0 /\ ~Stray(B, i) /\ B[i].role = "tool"
  <2>1. PICK h \in 1..i : Follows(B, h, i) /\ B[i].of \in B[h].calls
    BY <1>1, <1>4, StrayIs
  <2>2. V[k] = B[i]
    BY <1>1, <1>4 DEF AtPlace
  <2>3. B[i].turn = B[h].turn
    <3>1. h \in 1..Len(B)
      BY <1>1
    <3> QED BY <1>1, <1>4, <2>1, <3>1 DEF Timed
  <2> QED BY <1>4, <2>1, <2>2, <2>3 DEF i
<1>5. CASE c \in Missing(B, i) /\ c # 0
  <2> DEFINE h == RunHead(B, i)
  <2>1. h > 0 /\ c \in B[h].calls
    BY <1>1, <1>5, MissingIs
  <2>2. h \in 0..i /\ Follows(B, h, i)
    BY <1>1, <2>1, RunHeadIs
  <2>3. V[k] = Reply(B[h], c)
    BY <1>1, <1>5 DEF AtPlace
  <2> HIDE DEF h
  <2>4. Reply(B[h], c).role = "tool" /\ Reply(B[h], c).turn = B[h].turn
    BY DEF Reply, Message
  <2>5. h \in 1..i
    BY <1>1, <2>1, <2>2
  <2> QED BY <2>1, <2>2, <2>3, <2>4, <2>5 DEF i
<1> QED BY <1>2, <1>3, <1>4, <1>5

LEMMA GoodRuns ==
    ASSUME NEW B, NEW V, NEW f, NEW n, Arranges(B, GoodPlaces(B), V, f, n)
    PROVE  /\ \A j, k \in 1..Len(V) : Follows(V, j, k) <=> n[j] = 0 /\ Follows(B, f[j], f[k])
           /\ \A h \in 1..Len(B) : B[h].role # "tool" => \E k \in 1..Len(V) : f[k] = h /\ n[k] = 0
<1>1. B \in Seq(Messages)
  BY DEF Arranges
<1>2. ASSUME NEW h \in 1..Len(B), B[h].role # "tool" PROVE Has(GoodPlaces(B), h, 0)
  <2>1. ~Stray(B, h)
    BY <1>2 DEF Stray
  <2> QED BY <1>1, <2>1, HasGood
<1>3. \A i1 \in 1..Len(B), n1 \in Nat : Has(GoodPlaces(B), i1, n1) => \E k \in 1..Len(V) : f[k] = i1 /\ n[k] = n1
  BY DEF Arranges
<1>4. \A h \in 1..Len(B) : B[h].role # "tool" => \E k \in 1..Len(V) : f[k] = h /\ n[k] = 0
  BY <1>2, <1>3
<1> QED BY <1>2, <1>4, ArrangedRuns

\* A repaired transcript keeps to the turns.
LEMMA RepairTurns ==
    ASSUME NEW B, NEW V, NEW f, NEW n, Arranges(B, GoodPlaces(B), V, f, n), Settled(V), Timed(B), NEW t, Dated(B, t)
    PROVE  Steady(V) /\ Dated(V, t)
<1>1. /\ B \in Seq(Messages) /\ V \in Seq(Messages)
      /\ \A k \in 1..Len(V) : f[k] \in 1..Len(B) /\ n[k] \in Nat
      /\ \A j, k \in 1..Len(V) : j < k <=> f[j] < f[k] \/ (f[j] = f[k] /\ n[j] < n[k])
  BY DEF Arranges
<1>2. Timed(V)
  <2> SUFFICES ASSUME NEW j \in 1..Len(V), NEW k \in 1..Len(V), Follows(V, j, k) PROVE V[k].turn = V[j].turn
    BY DEF Timed
  <2>1. n[j] = 0 /\ Follows(B, f[j], f[k]) /\ V[j].role # "tool"
    BY GoodRuns DEF Follows
  <2>2. PICK h \in 1..f[k] : Follows(B, h, f[k]) /\ V[k].turn = B[h].turn
    BY PlaceTurn
  <2>3. V[j] = B[f[j]]
    BY <2>1, PlaceTurn
  <2>4. f[k] \in Nat /\ f[j] \in Nat /\ h \in Nat
    BY <1>1
  <2>5. h = f[j]
    BY <2>1, <2>2, <2>4, FollowsOne
  <2> QED BY <2>2, <2>3, <2>5
<1>3. Steady(V)
  BY <1>1, <1>2, TimedSteady DEF Settled
<1>4. ASSUME NEW k \in 1..Len(V)
      PROVE  V[k].turn <= t /\ (V[k].turn = 0 => V[k].role = "digest" \/ (k = 1 /\ V[k].role = "system"))
  <2>1. PICK h \in 1..f[k] :
              /\ Follows(B, h, f[k]) /\ V[k].turn = B[h].turn
              /\ V[k].role = "tool" => B[h].calls # {}
              /\ V[k].role # "tool" => h = f[k] /\ n[k] = 0 /\ V[k] = B[f[k]]
    BY PlaceTurn
  <2>2. f[k] \in 1..Len(B) /\ h \in 1..Len(B)
    BY <1>1
  <2>3. /\ B[h].turn <= t
        /\ B[h].turn = 0 => B[h].role = "digest" \/ (h = 1 /\ B[h].role = "system")
    BY <2>2 DEF Dated
  <2>4. ASSUME V[k].turn = 0 PROVE V[k].role = "digest" \/ (k = 1 /\ V[k].role = "system")
    <3>1. B[h].role = "digest" \/ (h = 1 /\ B[h].role = "system")
      BY <2>1, <2>3, <2>4
    <3>2. B[h] \in Messages /\ B[h].calls = {}
      <4>1. B[h] \in Messages
        BY <1>1, <2>2
      <4>2. B[h].role # "assistant"
        BY <3>1
      <4> QED BY <4>1, <4>2 DEF Messages
    <3>3. h = f[k] /\ n[k] = 0 /\ V[k] = B[f[k]]
      BY <2>1, <3>2
    <3>4. ASSUME h = 1 PROVE k = 1
      <4>1. 1 \in 1..Len(V) /\ k >= 1 /\ Len(V) \in Nat
        BY <1>1
      <4>2. f[1] \in Nat /\ f[1] >= 1 /\ n[1] \in Nat /\ ~(n[1] < 0)
        BY <1>1, <4>1
      <4>3. 1 < k <=> f[1] < f[k] \/ (f[1] = f[k] /\ n[1] < n[k])
        BY <1>1, <4>1
      <4>4. f[k] = 1 /\ n[k] = 0
        BY <3>3, <3>4
      <4>5. ~(1 < k)
        BY <4>2, <4>3, <4>4
      <4> QED BY <4>1, <4>5
    <3> QED BY <3>1, <3>3, <3>4
  <2> QED BY <2>1, <2>3, <2>4
<1>5. Dated(V, t)
  BY <1>4 DEF Dated
<1> QED BY <1>3, <1>5

\* A boundary of a file is one of the repaired transcript, where it goes.
LEMMA RepairCuts ==
    ASSUME NEW B, NEW V, NEW f, NEW n, Arranges(B, GoodPlaces(B), V, f, n), Timed(B),
           NEW b, Split(B, b), NEW q, Divides(V, f, b, q)
    PROVE  Cut(V, q, -1)
<1>1. /\ B \in Seq(Messages) /\ V \in Seq(Messages)
      /\ \A k \in 1..Len(V) : f[k] \in 1..Len(B) /\ n[k] \in Nat
      /\ \A j, k \in 1..Len(V) : j < k <=> f[j] < f[k] \/ (f[j] = f[k] /\ n[j] < n[k])
  BY DEF Arranges
<1>2. q \in 0..Len(V) /\ \A k \in 1..Len(V) : k <= q <=> f[k] <= b
  BY DEF Divides
<1>3. b \in 0..Len(B) /\ Len(B) \in Nat /\ Len(V) \in Nat
  BY <1>1 DEF Split
<1>4. ASSUME q > 0, ~(q < Len(V)) PROVE V[q].turn # -1
  <2>1. q \in 1..Len(V)
    BY <1>2, <1>3, <1>4
  <2>2. V[q] \in Messages
    BY <1>1, <2>1
  <2>3. V[q].turn \in Nat
    BY <2>2, MessageIs
  <2> QED BY <2>3
<1>5. ASSUME q > 0, q < Len(V) PROVE V[q].turn # V[q + 1].turn
  <2>1. q \in 1..Len(V) /\ q + 1 \in 1..Len(V) /\ ~(q + 1 <= q) /\ q <= q
    BY <1>2, <1>3, <1>5
  <2>2. f[q] <= b /\ ~(f[q + 1] <= b) /\ f[q] \in 1..Len(B) /\ f[q + 1] \in 1..Len(B) /\ n[q + 1] \in Nat
    BY <1>1, <1>2, <2>1
  <2>3. 0 < b /\ b < Len(B) /\ b \in 1..Len(B) /\ b + 1 \in 1..Len(B)
    BY <1>3, <2>2
  <2>4. B[b + 1].role # "tool" /\ \A h \in 1..b : Follows(B, h, b) => B[h].turn # B[b + 1].turn
    BY <2>3 DEF Split
  <2>5. PICK k \in 1..Len(V) : f[k] = b + 1 /\ n[k] = 0
    BY <2>3, <2>4, GoodRuns
  <2>6. k = q + 1
    <3>1. ~(k <= q)
      BY <1>2, <2>3, <2>5
    <3>2. ~(q + 1 < k)
      BY <1>1, <2>1, <2>2, <2>3, <2>5
    <3> QED BY <2>1, <3>1, <3>2
  <2>7. V[q + 1] = B[b + 1]
    <3>1. V[k] = AtPlace(B, f[k], n[k])
      BY DEF Arranges
    <3> QED BY <2>5, <2>6, <3>1 DEF AtPlace
  <2>8. PICK h \in 1..f[q] : Follows(B, h, f[q]) /\ V[q].turn = B[h].turn
    BY <2>1, PlaceTurn
  <2>9. Follows(B, h, b) /\ h \in 1..b
    <3> DEFINE g == RunHead(B, b)
    <3>1. g \in 0..b /\ (g = 0 => \A j \in 1..b : B[j].role = "tool") /\ (g > 0 => Follows(B, g, b))
      BY <1>1, <1>3, RunHeadIs
    <3> HIDE DEF g
    <3>2. h \in 1..b /\ B[h].role # "tool" /\ \A j \in h + 1..f[q] : B[j].role = "tool"
      BY <2>2, <2>3, <2>8 DEF Follows
    <3>3. g # 0
      BY <3>1, <3>2
    <3>4. g \in 1..b /\ Follows(B, g, b) /\ B[g].role # "tool" /\ \A j \in g + 1..b : B[j].role = "tool"
      BY <2>3, <3>1, <3>3 DEF Follows
    <3>5. h <= g
      BY <2>3, <3>2, <3>4
    <3>6. CASE g <= f[q]
      <4>1. ~(h < g)
        BY <2>2, <3>2, <3>4, <3>6
      <4> QED BY <3>2, <3>4, <3>5, <4>1
    <3>7. CASE f[q] < g
      <4>1. g \in 1..Len(B)
        BY <1>3, <3>4
      <4>2. PICK j \in 1..Len(V) : f[j] = g /\ n[j] = 0
        BY <3>4, <4>1, GoodRuns
      <4>3. q < j /\ j <= q
        BY <1>1, <1>2, <2>1, <3>4, <3>7, <4>2
      <4> QED BY <2>1, <4>3
    <3> QED BY <2>2, <3>4, <3>6, <3>7
  <2> QED BY <2>4, <2>7, <2>8, <2>9
<1> QED BY <1>2, <1>4, <1>5 DEF Cut

Repairs(B, U, at1, at2) ==
    U = Completed(B).msgs /\ at1 = Completed(B).at /\ at2 = Unstrayed(U).at

Spans(s, at1, at2, l1, l2, N) == l1 = Len(at1) /\ l2 = Len(at2) /\ N = s + l1 + l2

\* From s on, w goes through insertions at at1, then removals at at2.
Walks(w, s, at1, at2, l1, l2) ==
    /\ \A k \in 1..l1 : w[s + k] = IF w[s + k - 1] >= at1[k] THEN w[s + k - 1] + 1 ELSE w[s + k - 1]
    /\ \A k \in 1..l2 : w[s + l1 + k] = IF w[s + l1 + k - 1] > at2[k] THEN w[s + l1 + k - 1] - 1 ELSE w[s + l1 + k - 1]

\* A boundary's way through a repair's edits leads to where the messages it
\* counts end.
LEMMA RepairedWay ==
    ASSUME NEW B \in Seq(Messages), NEW at1, NEW at2, NEW U, Repairs(B, U, at1, at2),
           NEW N \in Nat, NEW w \in [0..N -> Nat], NEW s \in 0..N, NEW l1 \in Nat, NEW l2 \in Nat,
           Spans(s, at1, at2, l1, l2, N), w[s] \in 0..Len(B),
           Walks(w, s, at1, at2, l1, l2)
    PROVE  \E f, n : Arranges(B, GoodPlaces(B), Unstrayed(U).msgs, f, n) /\ Divides(Unstrayed(U).msgs, f, w[s], w[N])
<1> DEFINE V == Unstrayed(U).msgs
           b == w[s]
           m1 == Cardinality(UpTo(Stubs(B), b))
<1>0. at1 \in Seq(Nat) /\ U \in Seq(Messages)
  BY CompletedAt, CompletedIs DEF Repairs
<1>1. b \in 0..Len(B) /\ b \in Nat
  OBVIOUS
<1>2. /\ at1 \in Seq(Nat) /\ m1 \in 0..l1 /\ Cardinality(UpTo(AllPlaces(B), b)) = b + m1
      /\ \A k \in 1..l1 : (k <= m1 => b + k - 1 >= at1[k]) /\ (k > m1 => b + m1 < at1[k])
  <2> HIDE DEF b
  <2> QED BY <1>1, StubsGo DEF Repairs, Spans
<1> HIDE DEF m1
<1>3. w[s + l1] = b + m1 /\ s + l1 \in 0..N
  <2>1. at1 \in [1..l1 -> Nat] /\ s + l1 <= N /\ s + l1 \in 0..N /\ m1 \in 0..l1
    BY <1>0, <1>2 DEF Spans
  <2>3. /\ \A k \in 1..l1 : k <= m1 => w[s] + k - 1 >= at1[k]
        /\ \A k \in 1..l1 : k > m1 => w[s] + m1 < at1[k]
    BY <1>2
  <2>2. w[s + l1] = w[s] + m1
    <3>1. \A k \in 1..l1 : w[s + k] = IF w[s + k - 1] >= at1[k] THEN w[s + k - 1] + 1 ELSE w[s + k - 1]
      BY DEF Walks
    <3> QED BY <2>1, <2>3, <3>1, WayUp, ZenonT(60)
  <2> QED BY <2>1, <2>2
<1>4. PICK a, c, x, y :
        /\ Arranges(B, AllPlaces(B), U, a, c) /\ Ranked(AllPlaces(B), U, a, c)
        /\ Arranges(U, StayPlaces(U), V, x, y) /\ Ranked(StayPlaces(U), V, x, y)
        /\ Arranges(B, GoodPlaces(B), V, [k \in 1..Len(V) |-> a[x[k]]], [k \in 1..Len(V) |-> c[x[k]]])
  <2>1. U = Completed(B).msgs
    BY DEF Repairs
  <2> DEFINE W == Completed(B).msgs
             X == Unstrayed(W).msgs
  <2>2. \E a, c, x, y :
          /\ Arranges(B, AllPlaces(B), W, a, c) /\ Ranked(AllPlaces(B), W, a, c)
          /\ Arranges(W, StayPlaces(W), X, x, y) /\ Ranked(StayPlaces(W), X, x, y)
          /\ Arranges(B, GoodPlaces(B), X, [k \in 1..Len(X) |-> a[x[k]]], [k \in 1..Len(X) |-> c[x[k]]])
    BY RepairComposes, Zenon
  <2> HIDE DEF W
  <2>3. U = W /\ V = X
    BY <2>1 DEF W
  <2> HIDE DEF X, V
  <2> QED BY <2>2, <2>3, Zenon
<1> HIDE DEF V, b
<1>5. U \in Seq(Messages)
  BY <1>0
<1> DEFINE e == b + m1
<1>6. Divides(U, a, b, e)
  <2>1. AllPlaces(B) \in SUBSET Places /\ IsFiniteSet(AllPlaces(B))
    BY AllPlacesAre
  <2> QED BY <1>1, <1>2, <1>4, <2>1, ArrangedDivides
<1>7. e \in 0..Len(U) /\ e \in Nat /\ \A k \in 1..Len(U) : k <= e <=> a[k] <= b
  BY <1>6 DEF Divides
<1> HIDE DEF e
<1>8. /\ at2 \in Seq(Nat)
      /\ \E m \in 0..l2 :
            /\ m <= e /\ Cardinality(UpTo(StayPlaces(U), e)) = e - m
            /\ \A k \in 1..l2 : (k <= m => e - (k - 1) > at2[k]) /\ (k > m => e - m <= at2[k])
  <2> DEFINE z == Unstrayed(U).at
  <2>1. at2 = z /\ l2 = Len(at2)
    BY DEF Repairs, Spans
  <2>2. /\ z \in Seq(Nat)
        /\ \E m \in 0..Len(z) :
              /\ m <= e /\ Cardinality(UpTo(StayPlaces(U), e)) = e - m
              /\ \A k \in 1..Len(z) : (k <= m => e - (k - 1) > z[k]) /\ (k > m => e - m <= z[k])
    BY <1>5, <1>7, StraysGo
  <2> HIDE DEF z
  <2> QED BY <2>1, <2>2
<1>9. PICK m2 \in 0..l2 :
            /\ m2 <= e /\ Cardinality(UpTo(StayPlaces(U), e)) = e - m2
            /\ \A k \in 1..l2 : (k <= m2 => e - (k - 1) > at2[k]) /\ (k > m2 => e - m2 <= at2[k])
  BY <1>8
<1>10. w[N] = e - m2
  <2> DEFINE r == s + l1
  <2>1. at2 \in [1..l2 -> Nat] /\ r + l2 = N /\ r \in 0..N
    BY <1>3, <1>8 DEF Spans
  <2>2. w[r] = e
    BY <1>3 DEF e
  <2>3. /\ \A k \in 1..l2 : w[r + k] = IF w[r + k - 1] > at2[k] THEN w[r + k - 1] - 1 ELSE w[r + k - 1]
        /\ \A k \in 1..l2 : k <= m2 => w[r] - (k - 1) > at2[k]
        /\ \A k \in 1..l2 : k > m2 => w[r] - m2 <= at2[k]
        /\ m2 <= w[r]
    BY <1>9, <2>2 DEF Walks
  <2> HIDE DEF r
  <2>4. w[r + l2] = w[r] - m2
    <3>1. r + l2 <= N /\ m2 \in 0..l2 /\ at2 \in [1..l2 -> Nat] /\ r \in 0..N
      BY <2>1
    <3>2. Descends(w, r, l2, m2, at2)
      BY <2>3 DEF Descends
    <3> QED BY <3>1, <3>2, WayDown
  <2> QED BY <2>1, <2>2, <2>4
<1>11. Divides(V, x, e, e - m2)
  <2>1. StayPlaces(U) \in SUBSET Places /\ IsFiniteSet(StayPlaces(U))
    <3>1. Kept(U) \in SUBSET Places /\ IsFiniteSet(Kept(U)) /\ StayPlaces(U) \in SUBSET Kept(U)
      BY <1>5, KeptIs DEF StayPlaces
    <3> QED BY <3>1, FS_Subset
  <2> QED BY <1>4, <1>7, <1>9, <2>1, ArrangedDivides
<1> DEFINE f == [k \in 1..Len(V) |-> a[x[k]]]
           n == [k \in 1..Len(V) |-> c[x[k]]]
<1>12. Divides(V, f, b, e - m2)
  <2>1. \A k \in 1..Len(V) : x[k] \in 1..Len(U)
    BY <1>4 DEF Arranges
  <2>2. ASSUME NEW k \in 1..Len(V) PROVE k <= e - m2 <=> f[k] <= b
    <3>1. k <= e - m2 <=> x[k] <= e
      BY <1>11 DEF Divides
    <3>2. x[k] <= e <=> a[x[k]] <= b
      BY <1>7, <2>1
    <3> QED BY <3>1, <3>2
  <2>3. e - m2 \in 0..Len(V)
    BY <1>11 DEF Divides
  <2> HIDE DEF f
  <2> QED BY <2>2, <2>3 DEF Divides
<1>13. Arranges(B, GoodPlaces(B), V, f, n)
  BY <1>4
<1> HIDE DEF f, n
<1>14. \E f1, n1 : Arranges(B, GoodPlaces(B), V, f1, n1) /\ Divides(V, f1, b, w[N])
  BY <1>10, <1>12, <1>13
<1> QED BY <1>14 DEF V, b

LEMMA ConcatThree ==
    ASSUME NEW e0 \in Seq(Edits), NEW e1 \in Seq(Edits), NEW e2 \in Seq(Edits)
    PROVE  LET es == (e0 \o e1) \o e2
               l0 == Len(e0)
               l1 == Len(e1)
               l2 == Len(e2)
           IN  /\ es \in Seq(Edits) /\ Len(es) = l0 + l1 + l2
               /\ \A k \in 1..l0 : es[k] = e0[k]
               /\ \A k \in 1..l1 : es[l0 + k] = e1[k]
               /\ \A k \in 1..l2 : es[l0 + l1 + k] = e2[k]
<1> DEFINE g == e0 \o e1
           es == g \o e2
           l0 == Len(e0)
           l1 == Len(e1)
           l2 == Len(e2)
<1>1. /\ g \in Seq(Edits) /\ Len(g) = l0 + l1
      /\ \A k \in 1..l0 + l1 : g[k] = IF k <= l0 THEN e0[k] ELSE e1[k - l0]
  BY ConcatProperties
<1>7. l0 \in Nat /\ l1 \in Nat /\ l2 \in Nat
  OBVIOUS
<1> HIDE DEF g, l0, l1, l2
<1>6. /\ es \in Seq(Edits) /\ Len(es) = Len(g) + Len(e2)
      /\ \A k \in 1..Len(g) + Len(e2) : es[k] = IF k <= Len(g) THEN g[k] ELSE e2[k - Len(g)]
  <2>1. g \in Seq(Edits)
    BY <1>1
  <2> QED BY <2>1, ConcatProperties, Zenon
<1> HIDE DEF es
<1>2. /\ es \in Seq(Edits) /\ Len(es) = l0 + l1 + l2
      /\ \A k \in 1..l0 + l1 + l2 : es[k] = IF k <= l0 + l1 THEN g[k] ELSE e2[k - (l0 + l1)]
  BY <1>1, <1>6, <1>7 DEF l2
<1>3. ASSUME NEW k \in 1..l0 PROVE es[k] = e0[k]
  <2>1. k \in 1..l0 + l1 /\ k \in 1..l0 + l1 + l2 /\ k <= l0 /\ k <= l0 + l1
    BY <1>7
  <2> QED BY <1>1, <1>2, <2>1
<1>4. ASSUME NEW k \in 1..l1 PROVE es[l0 + k] = e1[k]
  <2>1. l0 + k \in 1..l0 + l1 /\ l0 + k \in 1..l0 + l1 + l2 /\ ~(l0 + k <= l0) /\ l0 + k <= l0 + l1 /\ (l0 + k) - l0 = k
    BY <1>7
  <2> QED BY <1>1, <1>2, <2>1
<1>5. ASSUME NEW k \in 1..l2 PROVE es[l0 + l1 + k] = e2[k]
  <2>1. l0 + l1 + k \in 1..l0 + l1 + l2 /\ ~(l0 + l1 + k <= l0 + l1) /\ (l0 + l1 + k) - (l0 + l1) = k
    BY <1>7
  <2> QED BY <1>2, <2>1
<1> QED BY <1>2, <1>3, <1>4, <1>5 DEF es, g, l0, l1, l2

\* The prompt put ahead of a transcript is of no turn.
LEMMA AheadTurns ==
    ASSUME NEW F \in Seq(Messages), F # <<>>, F[1].role = "user", Digests(F), NEW t \in Nat, Timed(F), Dated(F, t)
    PROVE  LET B == <<System>> \o F
           IN  Timed(B) /\ Dated(B, t) /\ \A b : Split(F, b) => Split(B, b + 1)
<1> DEFINE B == <<System>> \o F
<1>0. System.turn = 0 /\ System.role = "system"
  BY DEF System, Message
<1>1. /\ F \in Seq(Messages) /\ B \in Seq(Messages) /\ Len(B) = Len(F) + 1 /\ B[1] = System
      /\ \A i \in 1..Len(F) : B[i + 1] = F[i]
      /\ Like(F, B, 1, Len(F), 1)
  BY SystemAhead DEF Like
<1> HIDE DEF B
<1>2. Len(F) \in Nat /\ Len(F) >= 1
  BY <1>1, EmptySeq
<1>3. /\ \A j, k \in 1..Len(F) : Follows(F, j, k) <=> Follows(B, j + 1, k + 1)
      /\ \A h, k \in Nat : k \in 1..Len(F) /\ h < 1 + 1 => ~Follows(B, h, k + 1)
  <2>1. Like(F, B, 1, Len(F), 1)
    BY <1>1
  <2>2. \A j, k \in 1..Len(F) : Follows(F, j, k) <=> Follows(B, j + 1, k + 1)
    BY <2>1, LikeRuns, ZenonT(60)
  <2>3. \A h, k \in Nat : k \in 1..Len(F) /\ h < 1 + 1 => ~Follows(B, h, k + 1)
    BY <2>1, LikeRuns, SMTT(60)
  <2> QED BY <2>2, <2>3
<1>4. ASSUME NEW i \in 1..Len(B), i # 1 PROVE i - 1 \in 1..Len(F) /\ (i - 1) + 1 = i /\ B[i] = F[i - 1]
  BY <1>1, <1>2, <1>4
<1>5. Timed(B)
  <2> SUFFICES ASSUME NEW h \in 1..Len(B), NEW i \in 1..Len(B), Follows(B, h, i), B[i].role = "tool", B[i].of \in B[h].calls
               PROVE B[i].turn = B[h].turn
    BY DEF Timed
  <2>1. i # 1
    BY <1>0, <1>1
  <2>2. i - 1 \in 1..Len(F) /\ (i - 1) + 1 = i /\ B[i] = F[i - 1]
    BY <1>4, <2>1
  <2>3. h # 1
    <3>1. h < 1 + 1 => ~Follows(B, h, (i - 1) + 1)
      BY <1>3, <2>2
    <3> QED BY <2>2, <3>1
  <2>4. h - 1 \in 1..Len(F) /\ (h - 1) + 1 = h /\ B[h] = F[h - 1]
    BY <1>4, <2>3
  <2>5. Follows(F, h - 1, i - 1)
    BY <1>3, <2>2, <2>4
  <2> QED BY <2>2, <2>4, <2>5 DEF Timed
<1>6. Dated(B, t)
  <2> SUFFICES ASSUME NEW i \in 1..Len(B)
               PROVE B[i].turn <= t /\ (B[i].turn = 0 => B[i].role = "digest" \/ (i = 1 /\ B[i].role = "system"))
    BY DEF Dated
  <2>1. CASE i = 1
    BY <1>0, <1>1, <2>1
  <2>2. CASE i # 1
    <3>1. i - 1 \in 1..Len(F) /\ B[i] = F[i - 1]
      BY <1>4, <2>2
    <3> DEFINE j == i - 1
    <3>2. F[j].turn <= t /\ (F[j].turn = 0 => F[j].role = "digest" \/ (j = 1 /\ F[j].role = "system"))
      BY <3>1 DEF Dated
    <3>3. ~(j = 1 /\ F[j].role = "system")
      OBVIOUS
    <3> QED BY <3>1, <3>2, <3>3
  <2> QED BY <2>1, <2>2
<1>7. ASSUME NEW b, Split(F, b) PROVE Split(B, b + 1)
  <2>1. b \in 0..Len(F) /\ b + 1 \in 0..Len(B)
    BY <1>1, <1>2, <1>7 DEF Split
  <2>2. CASE b = 0
    <3>1. B[2] = F[1] /\ F[1].turn # 0
      <4>1. F[1].turn = 0 => F[1].role = "digest" \/ F[1].role = "system"
        BY <1>2 DEF Dated
      <4> QED BY <1>1, <1>2, <4>1
    <3>2. \A h \in 1..1 : B[h] = System
      BY <1>1
    <3> QED BY <1>0, <2>1, <2>2, <3>1, <3>2 DEF Split
  <2>3. CASE b # 0
    <3>1. ASSUME b + 1 < Len(B)
          PROVE  B[(b + 1) + 1].role # "tool" /\ \A h \in 1..b + 1 : Follows(B, h, b + 1) => B[h].turn # B[(b + 1) + 1].turn
      <4>1. b \in 1..Len(F) /\ b + 1 \in 1..Len(F) /\ b < Len(F) /\ 0 < b
        BY <1>1, <1>2, <2>1, <2>3, <3>1
      <4>2. F[b + 1].role # "tool" /\ \A h \in 1..b : Follows(F, h, b) => F[h].turn # F[b + 1].turn
        BY <1>7, <4>1 DEF Split
      <4>3. B[(b + 1) + 1] = F[b + 1]
        BY <1>1, <4>1
      <4>4. ASSUME NEW h \in 1..b + 1, Follows(B, h, b + 1) PROVE B[h].turn # F[b + 1].turn
        <5>1. h # 1
          BY <1>3, <4>1, <4>4
        <5>2. h - 1 \in 1..b /\ h - 1 \in 1..Len(F) /\ (h - 1) + 1 = h
          BY <4>1, <5>1
        <5>3. B[h] = F[h - 1] /\ Follows(F, h - 1, b)
          <6>1. B[(h - 1) + 1] = F[h - 1]
            BY <1>1, <5>2
          <6>2. Follows(F, h - 1, b) <=> Follows(B, (h - 1) + 1, b + 1)
            BY <1>3, <4>1, <5>2
          <6> QED BY <4>4, <5>2, <6>1, <6>2
        <5> QED BY <4>2, <5>2, <5>3
      <4> QED BY <4>2, <4>3, <4>4
    <3> QED BY <2>1, <3>1 DEF Split
  <2> QED BY <2>2, <2>3
<1> QED BY <1>5, <1>6, <1>7 DEF B

\* A repair of T and its edits, the prompt's first.
Parts(T, B, U, at1, at2, es, l0, l1, l2) ==
    /\ B = (IF T[1].role # "system" THEN <<System>> \o T ELSE T) /\ B \in Seq(Messages)
    /\ Repairs(B, U, at1, at2)
    /\ Repaired(T).msgs = Unstrayed(U).msgs /\ Repaired(T).edits = es
    /\ es \in Seq(Edits) /\ at1 \in Seq(Nat) /\ at2 \in Seq(Nat)
    /\ l0 \in Nat /\ l1 = Len(at1) /\ l2 = Len(at2) /\ Len(es) = l0 + l1 + l2
    /\ l0 = (IF T[1].role # "system" THEN 1 ELSE 0)
    /\ \A k \in 1..l0 : es[k] = [op |-> "insert", at |-> 0]
    /\ \A k \in 1..l1 : es[l0 + k] = [op |-> "insert", at |-> at1[k]]
    /\ \A k \in 1..l2 : es[l0 + l1 + k] = [op |-> "remove", at |-> at2[k]]

\* The edits a repair makes, in their order.
LEMMA RepairedParts ==
    ASSUME NEW T \in Seq(Messages), T # <<>>, Opens(T) \/ T[1].role = "user", Digests(T)
    PROVE  \E B, U, at1, at2, es, l0, l1, l2 : Parts(T, B, U, at1, at2, es, l0, l1, l2)
<1> DEFINE bare == Head(T).role # "system"
           B == IF bare THEN <<System>> \o T ELSE T
           U == Completed(B).msgs
           V == Unstrayed(U).msgs
           at1 == Completed(B).at
           at2 == Unstrayed(U).at
           e0 == IF bare THEN [k \in 1..Len(<<0>>) |-> [op |-> "insert", at |-> <<0>>[k]]] ELSE <<>>
           e1 == [k \in 1..Len(at1) |-> [op |-> "insert", at |-> at1[k]]]
           e2 == [k \in 1..Len(at2) |-> [op |-> "remove", at |-> at2[k]]]
           es == (e0 \o e1) \o e2
<1>1. Repaired(T) = [msgs |-> V, edits |-> es]
  BY Zenon DEF Repaired
<1>2. Head(T) = T[1]
  OBVIOUS
<1>3. B = (IF T[1].role # "system" THEN <<System>> \o T ELSE T) /\ B \in Seq(Messages)
  <2>1. CASE bare
    <3>1. T[1].role = "user"
      BY <1>2, <2>1, SystemIs DEF Opens
    <3>2. <<System>> \o T \in Seq(Messages)
      BY <3>1, SystemAhead
    <3> QED BY <1>2, <2>1, <3>2
  <2>2. CASE ~bare
    BY <1>2, <2>2
  <2> QED BY <2>1, <2>2
<1> DEFINE l0 == IF T[1].role # "system" THEN 1 ELSE 0
<1>4. e0 \in Seq(Edits) /\ Len(e0) = l0 /\ \A k \in 1..l0 : e0[k] = [op |-> "insert", at |-> 0]
  <2>1. CASE bare
    <3>1. <<0>> \in Seq(Nat) /\ Len(<<0>>) = 1 /\ <<0>>[1] = 0
      OBVIOUS
    <3> DEFINE s == <<0>>
               e == [k \in 1..Len(s) |-> [op |-> "insert", at |-> s[k]]]
    <3>2. e0 = e /\ l0 = 1
      BY <1>2, <2>1
    <3> HIDE DEF e0, l0
    <3>3. e \in Seq(Edits) /\ Len(e) = Len(s)
      <4> HIDE DEF s
      <4>1. s \in Seq(Nat)
        BY <3>1 DEF s
      <4> QED BY <4>1, EditsTyped
    <3>4. \A k \in 1..1 : e[k] = [op |-> "insert", at |-> 0]
      <4> SUFFICES ASSUME NEW k \in 1..1 PROVE e[k] = [op |-> "insert", at |-> 0]
        OBVIOUS
      <4>1. k = 1 /\ k \in 1..Len(s) /\ s[k] = 0
        BY <3>1
      <4> HIDE DEF s
      <4> QED BY <4>1
    <3> HIDE DEF e
    <3>5. Len(e) = 1
      BY <3>1, <3>3
    <3> QED BY <3>2, <3>3, <3>4, <3>5
  <2>2. CASE ~bare
    <3>1. e0 = <<>> /\ l0 = 0
      BY <1>2, <2>2
    <3> HIDE DEF e0, l0
    <3>2. <<>> \in Seq(Edits) /\ Len(<<>>) = 0 /\ \A k \in 1..0 : FALSE
      OBVIOUS
    <3> QED BY <3>1, <3>2
  <2> QED BY <2>1, <2>2
<1>5. at1 \in Seq(Nat)
  <2> HIDE DEF B
  <2> QED BY <1>3, CompletedAt
<1>6. U \in Seq(Messages)
  <2> HIDE DEF B
  <2> QED BY <1>3, CompletedIs
<1>7. at2 \in Seq(Nat)
  <2> HIDE DEF U
  <2> QED BY <1>6, UnstrayedAt
<1>8. Repairs(B, U, at1, at2)
  BY DEF Repairs
<1> HIDE DEF B, U, V, e0, l0
<1>9. V = Unstrayed(U).msgs
  BY DEF V
<1> HIDE DEF at1, at2
<1>10. e1 \in Seq(Edits) /\ Len(e1) = Len(at1) /\ \A k \in 1..Len(at1) : e1[k] = [op |-> "insert", at |-> at1[k]]
  <2>1. e1 \in Seq(Edits) /\ Len(e1) = Len(at1)
    BY <1>5, EditsTyped
  <2> QED BY <2>1
<1>11. e2 \in Seq(Edits) /\ Len(e2) = Len(at2) /\ \A k \in 1..Len(at2) : e2[k] = [op |-> "remove", at |-> at2[k]]
  <2>1. e2 \in Seq(Edits) /\ Len(e2) = Len(at2)
    BY <1>7, EditsTyped
  <2> QED BY <2>1
<1> HIDE DEF e1, e2
<1> DEFINE l1 == Len(at1)
           l2 == Len(at2)
<1>12. l0 \in Nat /\ l1 \in Nat /\ l2 \in Nat
  BY <1>5, <1>7 DEF l0
<1>17. l0 = Len(e0) /\ l1 = Len(e1) /\ l2 = Len(e2)
  BY <1>4, <1>10, <1>11
<1> HIDE DEF l1, l2
<1>13. /\ es \in Seq(Edits) /\ Len(es) = l0 + l1 + l2
       /\ \A k \in 1..l0 : es[k] = e0[k]
       /\ \A k \in 1..l1 : es[l0 + k] = e1[k]
       /\ \A k \in 1..l2 : es[l0 + l1 + k] = e2[k]
  <2>1. e0 \in Seq(Edits) /\ e1 \in Seq(Edits) /\ e2 \in Seq(Edits)
    BY <1>4, <1>10, <1>11
  <2>2. /\ es \in Seq(Edits) /\ Len(es) = Len(e0) + Len(e1) + Len(e2)
        /\ \A k \in 1..Len(e0) : es[k] = e0[k]
        /\ \A k \in 1..Len(e1) : es[Len(e0) + k] = e1[k]
        /\ \A k \in 1..Len(e2) : es[Len(e0) + Len(e1) + k] = e2[k]
    BY <2>1, ConcatThree, Zenon
  <2> HIDE DEF es
  <2> QED BY <1>17, <2>2
<1> HIDE DEF es
<1>14. /\ \A k \in 1..l0 : es[k] = [op |-> "insert", at |-> 0]
       /\ \A k \in 1..l1 : es[l0 + k] = [op |-> "insert", at |-> at1[k]]
       /\ \A k \in 1..l2 : es[l0 + l1 + k] = [op |-> "remove", at |-> at2[k]]
  BY <1>4, <1>10, <1>11, <1>13 DEF l1, l2
<1>15. Repaired(T).msgs = Unstrayed(U).msgs /\ Repaired(T).edits = es
  BY <1>1, <1>9
<1>16. l1 = Len(at1) /\ l2 = Len(at2) /\ l0 = (IF T[1].role # "system" THEN 1 ELSE 0)
  BY DEF l0, l1, l2
<1>18. /\ B = (IF T[1].role # "system" THEN <<System>> \o T ELSE T) /\ B \in Seq(Messages)
       /\ Repairs(B, U, at1, at2)
       /\ Repaired(T).msgs = Unstrayed(U).msgs /\ Repaired(T).edits = es
       /\ es \in Seq(Edits) /\ at1 \in Seq(Nat) /\ at2 \in Seq(Nat)
       /\ l0 \in Nat /\ l1 = Len(at1) /\ l2 = Len(at2) /\ Len(es) = l0 + l1 + l2
       /\ l0 = (IF T[1].role # "system" THEN 1 ELSE 0)
       /\ \A k \in 1..l0 : es[k] = [op |-> "insert", at |-> 0]
       /\ \A k \in 1..l1 : es[l0 + k] = [op |-> "insert", at |-> at1[k]]
       /\ \A k \in 1..l2 : es[l0 + l1 + k] = [op |-> "remove", at |-> at2[k]]
  BY <1>3, <1>5, <1>7, <1>8, <1>12, <1>13, <1>14, <1>15, <1>16, Zenon
<1>19. Parts(T, B, U, at1, at2, es, l0, l1, l2)
  BY <1>18 DEF Parts
<1> QED BY <1>19, Zenon

\* Hydration's repairs keep to the turns, and take a file's boundaries along.
LEMMA RepairedTurns ==
    ASSUME NEW T \in Seq(Messages), T # <<>>, Opens(T) \/ T[1].role = "user", Digests(T),
           NEW t \in Nat, Timed(T), Dated(T, t)
    PROVE  LET r == Repaired(T)
           IN  /\ Steady(r.msgs) /\ Dated(r.msgs, t)
               /\ \A P \in SUBSET Nat : (\A b \in P : Split(T, b)) =>
                     \A q \in Followed(P, r.edits) : Cut(r.msgs, q, -1)
<1>0. PICK B, U, at1, at2, es, l0, l1, l2 : Parts(T, B, U, at1, at2, es, l0, l1, l2)
  BY RepairedParts, Zenon
<1>1. /\ B = (IF T[1].role # "system" THEN <<System>> \o T ELSE T) /\ B \in Seq(Messages)
      /\ Repairs(B, U, at1, at2)
      /\ Repaired(T).msgs = Unstrayed(U).msgs /\ Repaired(T).edits = es
      /\ es \in Seq(Edits) /\ at1 \in Seq(Nat) /\ at2 \in Seq(Nat)
      /\ l0 \in Nat /\ l1 = Len(at1) /\ l2 = Len(at2) /\ Len(es) = l0 + l1 + l2
      /\ l0 = (IF T[1].role # "system" THEN 1 ELSE 0)
      /\ \A k \in 1..l0 : es[k] = [op |-> "insert", at |-> 0]
      /\ \A k \in 1..l1 : es[l0 + k] = [op |-> "insert", at |-> at1[k]]
      /\ \A k \in 1..l2 : es[l0 + l1 + k] = [op |-> "remove", at |-> at2[k]]
  BY <1>0 DEF Parts
<1> DEFINE V == Unstrayed(U).msgs
           N == l0 + l1 + l2
<1>2. /\ B \in Seq(Messages) /\ es \in Seq(Edits) /\ at1 \in Seq(Nat) /\ at2 \in Seq(Nat)
      /\ l0 \in Nat /\ l1 \in Nat /\ l2 \in Nat
  BY <1>1
<1>3. Timed(B) /\ Dated(B, t) /\ \A b : Split(T, b) => Split(B, b + l0)
  <2>1. CASE T[1].role # "system"
    <3>1. B = <<System>> \o T /\ l0 = 1
      BY <1>1, <2>1
    <3>2. T[1].role = "user"
      BY <2>1, SystemIs DEF Opens
    <3>3. Timed(<<System>> \o T) /\ Dated(<<System>> \o T, t) /\ \A b : Split(T, b) => Split(<<System>> \o T, b + 1)
      BY <3>2, AheadTurns
    <3> QED BY <3>1, <3>3
  <2>2. CASE ~(T[1].role # "system")
    <3>1. B = T /\ l0 = 0
      BY <1>1, <2>2
    <3>2. \A b : Split(T, b) => b + 0 = b
      BY DEF Split
    <3> QED BY <3>1, <3>2
  <2> QED BY <2>1, <2>2
<1>4. V \in Seq(Messages) /\ Settled(V) /\ \E f, n : Arranges(B, GoodPlaces(B), V, f, n)
  <2>1. V = Unstrayed(Completed(B).msgs).msgs
    BY <1>1 DEF Repairs
  <2> QED BY <1>2, <2>1, RepairArranges
<1>5. Repaired(T).msgs = V /\ Repaired(T).edits = es
  BY <1>1
<1> HIDE DEF V
<1>6. Steady(V) /\ Dated(V, t)
  BY <1>3, <1>4, RepairTurns
<1>7. Spans(l0, at1, at2, l1, l2, N) /\ Len(es) = N
  BY <1>1 DEF Spans
<1>8. N \in Nat /\ l0 \in 0..N
  BY <1>2
<1> HIDE DEF N
<1>9. ASSUME NEW P \in SUBSET Nat, \A b \in P : Split(T, b), NEW q \in Followed(P, es)
      PROVE  Cut(V, q, -1)
  <2>0. PICK b \in P : \E w : Way(b, es, Len(es), w) /\ w[Len(es)] = q
    BY <1>2, <1>9, FollowedWay
  <2>1. PICK w : Way(b, es, Len(es), w) /\ w[Len(es)] = q
    BY <2>0
  <2>2. w \in [0..N -> Nat] /\ w[0] = b /\ w[N] = q /\ \A k \in 1..N : w[k] = Goes(w[k - 1], es[k])
    BY <1>7, <2>1 DEF Way
  <2>3. Split(B, b + l0) /\ b + l0 \in 0..Len(B)
    BY <1>3, <1>9 DEF Split
  <2>4. w[l0] = b + l0
    <3>1. CASE T[1].role # "system"
      <4>1. l0 = 1 /\ es[1] = [op |-> "insert", at |-> 0] /\ 1 \in 1..N
        BY <1>1, <1>8, <3>1
      <4>4. 1 \in 1..N /\ 1 - 1 = 0
        BY <4>1
      <4>2. w[1] = Goes(b, es[1]) /\ b \in Nat
        BY <2>2, <4>4
      <4>3. Goes(b, es[1]) = b + 1
        BY <4>1, <4>2 DEF Goes
      <4> QED BY <4>1, <4>2, <4>3
    <3>2. CASE ~(T[1].role # "system")
      <4>1. l0 = 0
        BY <1>1, <3>2
      <4>2. w[0] = b /\ b \in Nat
        BY <2>2
      <4> QED BY <4>1, <4>2
    <3> QED BY <3>1, <3>2
  <2>5. ASSUME NEW k \in 1..l1
        PROVE  w[l0 + k] = IF w[l0 + k - 1] >= at1[k] THEN w[l0 + k - 1] + 1 ELSE w[l0 + k - 1]
    <3>1. l0 + k \in 1..N /\ (l0 + k) - 1 = l0 + k - 1
      BY <1>2 DEF N
    <3>2. w[l0 + k] = Goes(w[l0 + k - 1], es[l0 + k])
      BY <2>2, <3>1
    <3>3. es[l0 + k] = [op |-> "insert", at |-> at1[k]]
      BY <1>1
    <3>4. es[l0 + k].op = "insert" /\ es[l0 + k].at = at1[k]
      BY <3>3
    <3> QED BY <3>2, <3>4 DEF Goes
  <2>6. ASSUME NEW k \in 1..l2
        PROVE  w[l0 + l1 + k] = IF w[l0 + l1 + k - 1] > at2[k] THEN w[l0 + l1 + k - 1] - 1 ELSE w[l0 + l1 + k - 1]
    <3>1. l0 + l1 + k \in 1..N /\ (l0 + l1 + k) - 1 = l0 + l1 + k - 1
      BY <1>2 DEF N
    <3>2. w[l0 + l1 + k] = Goes(w[l0 + l1 + k - 1], es[l0 + l1 + k])
      BY <2>2, <3>1
    <3>3. es[l0 + l1 + k] = [op |-> "remove", at |-> at2[k]]
      BY <1>1
    <3>4. es[l0 + l1 + k].op = "remove" /\ es[l0 + l1 + k].at = at2[k]
      BY <3>3
    <3> QED BY <3>2, <3>4 DEF Goes
  <2>7. w[l0] \in 0..Len(B)
    BY <2>3, <2>4
  <2>8. Repairs(B, U, at1, at2)
    BY <1>1
  <2>9. \E f, n : Arranges(B, GoodPlaces(B), Unstrayed(U).msgs, f, n) /\ Divides(Unstrayed(U).msgs, f, w[l0], w[N])
    <3>1. Spans(l0, at1, at2, l1, l2, N) /\ w \in [0..N -> Nat]
      BY <1>7, <2>2
    <3>2. Walks(w, l0, at1, at2, l1, l2)
      BY <2>5, <2>6 DEF Walks
    <3> QED BY <1>2, <1>8, <2>7, <2>8, <3>1, <3>2, RepairedWay
  <2>10. PICK f, n : Arranges(B, GoodPlaces(B), V, f, n) /\ Divides(V, f, b + l0, q)
    BY <2>2, <2>4, <2>9 DEF V
  <2> QED BY <1>3, <2>3, <2>10, RepairCuts
<1> QED BY <1>5, <1>6, <1>9

------------------------------------------------------------------------------
(* Prunes and turns *)

\* What a prune leaves of T, by its places: the head, a digest when x = 1, and
\* the messages after stop, d places before where they were.
LEMMA PrunePlaces ==
    ASSUME NEW T, NEW M, NEW G, NEW h, NEW D, NEW stop, NEW x, PruneOf(T, M, G, h, D, stop, x),
           NEW d, d = stop - (h + x), Steady(T), NEW t \in Nat, Dated(T, t)
    PROVE  /\ T \in Seq(Messages) /\ M \in Seq(Messages) /\ d \in Int /\ Len(T) \in Nat /\ Len(M) \in Nat
           /\ h \in 2..Len(T) /\ stop \in h..Len(T) /\ x \in {0, 1} /\ (x = 0 => stop = h) /\ Len(M) = Len(T) - d
           /\ \A i \in 1..h : M[i] = T[i]
           /\ T[h].turn # 0 /\ \A i \in 2..h : M[i].role # "tool"
           /\ x = 1 => M[h + 1].turn = 0 /\ M[h + 1].role = "digest"
           /\ \A k \in h + x + 1..Len(M) : k + d \in stop + 1..Len(T) /\ M[k].turn = T[k + d].turn /\ M[k].role = T[k + d].role
           /\ stop < Len(T) => T[stop + 1].role # "tool" /\ (x = 1 => T[stop + 1].turn # 0)
<1>1. /\ T \in Seq(Messages) /\ M \in Seq(Messages)
      /\ h \in 2..Len(T) /\ stop \in h..Len(T) /\ x \in {0, 1} /\ (x = 0 => stop = h)
      /\ Len(M) = h + x + (Len(T) - stop)
      /\ \A i \in 1..h : M[i] = T[i]
  BY DEF PruneOf
<1>10. T[h].role \in {"user", "refusal"} /\ \A i \in 2..h : Pinned(T, i)
  BY DEF PruneOf
<1>2. x = 1 => M[h + 1].turn = 0 /\ M[h + 1].role = "digest"
  BY DEF PruneOf
<1>3. \A i \in stop + 1..Len(T) : Left(M[i + (h + x - stop)], T[i])
  BY DEF PruneOf
<1>4. stop < Len(T) => T[stop + 1].role # "tool" /\ (x = 1 => T[stop + 1].role # "digest")
  BY DEF PruneOf
<1>5. d \in Int /\ Len(T) \in Nat /\ Len(M) \in Nat /\ Len(M) = Len(T) - d
  BY <1>1
<1>9. T[h].turn # 0
  <2>1. h \in 1..Len(T) /\ h # 1
    BY <1>1
  <2> QED BY <1>10, <2>1 DEF Dated
<1>6. ASSUME NEW i \in 2..h PROVE M[i].role # "tool"
  <2>1. i \in 1..Len(T) /\ i # 1 /\ i \in 1..h
    BY <1>1
  <2>2. M[i] = T[i] /\ T[i].role \in {"user", "refusal", "digest"}
    BY <1>1, <1>10, <2>1, PinnedIs
  <2> QED BY <2>1, <2>2
<1>7. ASSUME NEW k \in h + x + 1..Len(M)
      PROVE  k + d \in stop + 1..Len(T) /\ M[k].turn = T[k + d].turn /\ M[k].role = T[k + d].role
  <2> DEFINE i == k + d
  <2>1. i \in stop + 1..Len(T) /\ i + (h + x - stop) = k
    <3>1. h \in Int /\ x \in Int /\ stop \in Int /\ k \in Int /\ Len(T) \in Int /\ Len(M) \in Int
      BY <1>1, <1>5
    <3>2. Len(M) = h + x + (Len(T) - stop) /\ k >= h + x + 1 /\ k <= Len(M)
      BY <1>1
    <3> QED BY <3>1, <3>2
  <2> HIDE DEF i
  <2>2. Left(M[k], T[i])
    BY <1>3, <2>1
  <2> QED BY <2>1, <2>2 DEF Left, i
<1>8. ASSUME stop < Len(T), x = 1 PROVE T[stop + 1].turn # 0
  <2>1. stop + 1 \in 1..Len(T) /\ stop + 1 # 1
    BY <1>1, <1>8
  <2> QED BY <1>4, <1>8, <2>1 DEF Dated
<1> QED BY <1>1, <1>2, <1>4, <1>5, <1>6, <1>7, <1>8, <1>9

LEMMA PruneTurns ==
    ASSUME NEW T, NEW M, NEW G, NEW h, NEW D, NEW stop, NEW x, PruneOf(T, M, G, h, D, stop, x),
           Steady(T), NEW t \in Nat, Dated(T, t)
    PROVE  Steady(M) /\ Dated(M, t)
<1> DEFINE d == stop - (h + x)
<1>1. /\ T \in Seq(Messages) /\ M \in Seq(Messages) /\ d \in Int /\ Len(T) \in Nat /\ Len(M) \in Nat
      /\ h \in 2..Len(T) /\ stop \in h..Len(T) /\ x \in {0, 1} /\ (x = 0 => stop = h) /\ Len(M) = Len(T) - d
      /\ \A i \in 1..h : M[i] = T[i]
      /\ T[h].turn # 0 /\ \A i \in 2..h : M[i].role # "tool"
      /\ x = 1 => M[h + 1].turn = 0 /\ M[h + 1].role = "digest"
      /\ \A k \in h + x + 1..Len(M) : k + d \in stop + 1..Len(T) /\ M[k].turn = T[k + d].turn /\ M[k].role = T[k + d].role
      /\ stop < Len(T) => T[stop + 1].role # "tool" /\ (x = 1 => T[stop + 1].turn # 0)
  BY PrunePlaces
<1>2. d = stop - (h + x)
  OBVIOUS
<1> HIDE DEF d
<1>3. ASSUME NEW k \in 1..Len(M) PROVE k \in 1..h \/ (x = 1 /\ k = h + 1) \/ k \in h + x + 1..Len(M)
  BY <1>1
<1>4. Steady(M)
  <2> SUFFICES ASSUME NEW i \in 2..Len(M), M[i].role = "tool" PROVE M[i].turn = M[i - 1].turn
    BY DEF Steady
  <2>1. i \in 1..Len(M) /\ ~(i \in 2..h) /\ ~(x = 1 /\ i = h + 1)
    BY <1>1
  <2>2. i \in h + x + 1..Len(M)
    BY <1>1, <1>3, <2>1
  <2>3. i + d \in stop + 1..Len(T) /\ M[i].turn = T[i + d].turn /\ T[i + d].role = "tool"
    BY <1>1, <2>2
  <2>4. i # h + x + 1
    <3>1. i = h + x + 1 => i + d = stop + 1 /\ stop < Len(T)
      BY <1>1, <1>2, <2>3
    <3> QED BY <1>1, <2>3, <3>1
  <2>5. i - 1 \in h + x + 1..Len(M) /\ (i - 1) + d = (i + d) - 1 /\ i + d \in 2..Len(T)
    BY <1>1, <2>2, <2>3, <2>4
  <2>6. M[i - 1].turn = T[(i + d) - 1].turn
    BY <1>1, <2>5
  <2> QED BY <2>3, <2>5, <2>6 DEF Steady
<1>5. ASSUME NEW i \in 1..Len(M)
      PROVE  M[i].turn <= t /\ (M[i].turn = 0 => M[i].role = "digest" \/ (i = 1 /\ M[i].role = "system"))
  <2>1. CASE i \in 1..h
    <3>1. i \in 1..Len(T) /\ M[i] = T[i]
      BY <1>1, <2>1
    <3> QED BY <3>1 DEF Dated
  <2>2. CASE x = 1 /\ i = h + 1
    BY <1>1, <2>2
  <2>3. CASE i \in h + x + 1..Len(M)
    <3> DEFINE j == i + d
    <3>1. j \in 1..Len(T) /\ j # 1 /\ M[i].turn = T[j].turn /\ M[i].role = T[j].role
      BY <1>1, <2>3
    <3> HIDE DEF j
    <3> QED BY <3>1 DEF Dated
  <2> QED BY <1>3, <2>1, <2>2, <2>3
<1> QED BY <1>4, <1>5 DEF Dated

\* Each end of a turn is one of the pruned transcript, where it goes.
LEMMA PruneCuts ==
    ASSUME NEW T, NEW M, NEW G, NEW h, NEW D, NEW stop, NEW x, PruneOf(T, M, G, h, D, stop, x),
           Steady(T), NEW t \in Nat, Dated(T, t), NEW u, u # 0, NEW b, Cut(T, b, u),
           NEW q \in Shifted({b}, Len(T), Len(M), h)
    PROVE  Cut(M, q, u)
<1> DEFINE d == stop - (h + x)
           n == Len(T)
           l == Len(M)
<1>1. /\ d \in Int /\ n \in Nat /\ l \in Nat
      /\ h \in 2..n /\ stop \in h..n /\ x \in {0, 1} /\ (x = 0 => stop = h) /\ l = n - d
      /\ \A i \in 1..h : M[i] = T[i]
      /\ T[h].turn # 0
      /\ x = 1 => M[h + 1].turn = 0
      /\ \A k \in h + x + 1..l : k + d \in stop + 1..n /\ M[k].turn = T[k + d].turn
      /\ stop < n => (x = 1 => T[stop + 1].turn # 0)
  BY PrunePlaces, SMTT(60)
<1>2. d = stop - (h + x)
  OBVIOUS
<1>3. b \in 0..n /\ (b > 0 => IF b < n THEN T[b].turn # T[b + 1].turn ELSE T[b].turn # u)
  BY DEF Cut
<1>4. q = (CASE l < n /\ b >= h -> IF b - (n - l) > h + 1 THEN b - (n - l) ELSE h + 1
             [] l > n /\ b >= h -> b + (l - n)
             [] OTHER -> b)
  BY DEF Shifted
<1> HIDE DEF d, n, l
<1>5. q = IF b < h THEN b ELSE IF d > 0 THEN IF b - d > h + 1 THEN b - d ELSE h + 1 ELSE b - d
  <2>1. b \in Nat /\ n \in Nat /\ d \in Int /\ h \in Nat /\ l = n - d
    BY <1>1, <1>3
  <2>2. CASE b < h
    BY <1>4, <2>1, <2>2
  <2>3. CASE b >= h /\ d > 0
    BY <1>4, <2>1, <2>3
  <2>4. CASE b >= h /\ d < 0
    BY <1>4, <2>1, <2>4
  <2>5. CASE b >= h /\ d = 0
    BY <1>4, <2>1, <2>5
  <2> QED BY <2>1, <2>2, <2>3, <2>4, <2>5
<1> SUFFICES q \in 0..l /\ (q > 0 => IF q < l THEN M[q].turn # M[q + 1].turn ELSE M[q].turn # u)
  BY DEF Cut, l
<1>6. CASE b < h
  <2>1. q = b /\ b <= l /\ b < n /\ b < l
    BY <1>1, <1>2, <1>3, <1>5, <1>6
  <2>2. ASSUME b > 0 PROVE M[b].turn # M[b + 1].turn
    <3>1. b \in 1..h /\ b + 1 \in 1..h
      BY <1>1, <1>3, <1>6, <2>2
    <3>2. T[b].turn # T[b + 1].turn
      BY <1>3, <2>1, <2>2
    <3> QED BY <1>1, <3>1, <3>2
  <2> QED BY <1>1, <1>3, <2>1, <2>2
<1>7. ASSUME x = 1 PROVE h + 1 \in 1..l /\ (IF h + 1 < l THEN M[h + 1].turn # M[(h + 1) + 1].turn ELSE M[h + 1].turn # u)
  <2>1. h + 1 \in 1..l /\ M[h + 1].turn = 0
    BY <1>1, <1>2, <1>7
  <2>2. ASSUME h + 1 < l PROVE M[(h + 1) + 1].turn # 0
    <3> DEFINE k == (h + 1) + 1
    <3>1. k \in h + x + 1..l /\ k + d = stop + 1 /\ stop < n
      BY <1>1, <1>2, <1>7, <2>2
    <3> HIDE DEF k
    <3>2. M[k].turn = T[stop + 1].turn
      BY <1>1, <3>1
    <3> QED BY <1>1, <1>7, <3>1, <3>2 DEF k
  <2> QED BY <2>1, <2>2
<1>8. CASE b > stop
  <2>1. q = b - d /\ b - d \in h + x + 1..l
    BY <1>1, <1>2, <1>3, <1>5, <1>8
  <2> DEFINE k == b - d
  <2>6. h \in Int /\ x \in Int /\ stop \in Int /\ d \in Int /\ l \in Int /\ n \in Int /\ b \in Int /\ l = n - d /\ h >= 2 /\ x >= 0
    BY <1>1, <1>3
  <2>2. k \in h + x + 1..l /\ k + d = b /\ k > 0 /\ b > 0
    BY <1>8, <2>1, <2>6, <1>1
  <2> HIDE DEF k
  <2>3. M[k].turn = T[b].turn
    BY <1>1, <2>2
  <2>4. CASE k < l
    <3>1. k + 1 \in h + x + 1..l /\ (k + 1) + d = b + 1 /\ b < n
      BY <2>2, <2>4, <2>6
    <3>2. M[k + 1].turn = T[b + 1].turn
      BY <1>1, <3>1
    <3>3. T[b].turn # T[b + 1].turn
      BY <1>3, <2>2, <3>1
    <3> QED BY <2>1, <2>2, <2>3, <2>4, <3>2, <3>3, <1>1 DEF k
  <2>5. CASE ~(k < l)
    <3>1. ~(b < n)
      BY <1>1, <1>3, <2>2, <2>5, SMTT(60)
    <3>2. T[b].turn # u
      BY <1>3, <2>2, <3>1
    <3> QED BY <2>1, <2>2, <2>3, <2>5, <3>2, <1>1 DEF k
  <2> QED BY <2>4, <2>5
<1>9. CASE b >= h /\ ~(b > stop) /\ x = 0
  <2>1. b = h /\ stop = h /\ d = 0 /\ q = b /\ l = n
    BY <1>1, <1>2, <1>3, <1>5, <1>9
  <2>2. b > 0 /\ b \in 1..h /\ b \in 0..l
    BY <1>1, <1>3, <2>1
  <2>3. M[b].turn = T[b].turn
    BY <1>1, <2>2
  <2>4. ASSUME b < l PROVE M[b + 1].turn = T[b + 1].turn
    <3>1. b + 1 \in h + x + 1..l /\ (b + 1) + d = b + 1
      BY <1>1, <1>9, <2>1, <2>4
    <3> QED BY <1>1, <3>1
  <2> QED BY <1>3, <2>1, <2>2, <2>3, <2>4
<1>10. CASE b >= h /\ ~(b > stop) /\ x = 1 /\ ~(stop = h + 1 /\ b = h)
  <2>1. q = h + 1
    <3>1. b \in h..stop /\ h \in Nat /\ stop \in Nat
      BY <1>1, <1>3, <1>10
    <3>2. CASE stop > h + 1
      <4>1. d > 0 /\ ~(b - d > h + 1)
        BY <1>2, <1>10, <3>1, <3>2
      <4> QED BY <1>5, <1>10, <3>1, <4>1
    <3>3. CASE stop = h + 1
      <4>1. d = 0 /\ b = h + 1
        BY <1>2, <1>10, <3>1, <3>3
      <4> QED BY <1>5, <3>1, <4>1
    <3>4. CASE stop = h
      <4>1. d = -1 /\ b = h
        BY <1>2, <1>10, <3>1, <3>4
      <4> QED BY <1>5, <3>1, <4>1
    <3> QED BY <3>1, <3>2, <3>3, <3>4
  <2> QED BY <1>1, <1>7, <1>10, <2>1
<1>11. CASE stop = h + 1 /\ b = h /\ x = 1
  <2>1. d = 0 /\ q = h /\ l = n /\ h < l /\ h > 0
    BY <1>1, <1>2, <1>5, <1>11
  <2>2. h \in 1..h /\ h \in 2..h
    BY <1>1
  <2>3. M[h].turn # 0 /\ M[h + 1].turn = 0
    BY <1>1, <1>11, <2>2
  <2> QED BY <1>1, <2>1, <2>3
<1>12. b < h \/ b > stop \/ (b >= h /\ ~(b > stop) /\ x = 0)
       \/ (b >= h /\ ~(b > stop) /\ x = 1 /\ ~(stop = h + 1 /\ b = h)) \/ (stop = h + 1 /\ b = h /\ x = 1)
  BY <1>1, <1>3
<1> QED BY <1>6, <1>8, <1>9, <1>10, <1>11, <1>12

\* A message of the turn there is, where the next one may come ahead of it or
\* answers it.
Now(T, ph, n, t) ==
    (\/ ph \in {"opened", "calls"}
     \/ ph \in {"top", "tell", "request"} /\ IsUser(T[Len(T)]) /\ n # Len(T)
     \/ ph = "cancelled" /\ ~Settled(T)) => T[Len(T)].turn = t

\* The turn the next message would be of: the one there is, or none yet.
InTurn == phase # "idle" /\ (Pruning => cand.back = "request")
Present == IF InTurn THEN turn ELSE -1

\* The boundaries, once the deferred edits have moved them.
Marks == Followed(ends, edits) \cup Followed(points, edits)
Sound == ~slipped /\ ~late

\* Replies are of their call's turn, and no turn is to come.
Clock ==
    /\ Timed(file) /\ Dated(file, turn)
    /\ mem # <<>> => Steady(mem) /\ Dated(mem, turn) /\ Now(mem, phase, persisted, turn)
    /\ Pruning => Steady(cand.msgs) /\ Dated(cand.msgs, turn)
    /\ InTurn => turn >= 1

\* The boundaries divide memory once the edits are done, and the file while
\* there are none or the file is yet to be repaired.
InMem == Sound /\ mem # <<>> /\ phase # "rewrite" => \A b \in Marks : Cut(mem, b, Present)
InFile ==
    Sound /\ phase # "rewrite" /\ (edits = <<>> \/ persisted = Stale) => \A b \in ends \cup points : Split(file, b)

\* A prune moves what divides memory to what divides its result; while the
\* index is ahead of the transcript, the old boundaries are those kept aside.
InPrune ==
    /\ phase \in {"archive", "index"} =>
          \A b : Cut(mem, b, Present) => \A q \in Shifted({b}, Len(mem), Len(cand.msgs), cand.head) : Cut(cand.msgs, q, Present)
    /\ Sound /\ phase = "rewrite" =>
          /\ \A b \in cand.ends \cup cand.points : Split(file, b) /\ Cut(mem, b, Present)
          /\ \A b \in ends \cup points : Cut(cand.msgs, b, Present)

TInv == Clock /\ InMem /\ InFile /\ InPrune

LEMMA MessageTurn ==
    ASSUME NEW T \in Seq(Messages), NEW i \in 1..Len(T)
    PROVE  T[i] \in Messages /\ T[i].turn \in Nat
<1>1. T[i] \in Messages
  OBVIOUS
<1> QED BY <1>1, MessageIs

LEMMA DatedOn ==
    ASSUME NEW T \in Seq(Messages), NEW t \in Nat, NEW u \in Nat, t <= u, Dated(T, t)
    PROVE  Dated(T, u)
<1> SUFFICES ASSUME NEW i \in 1..Len(T)
             PROVE T[i].turn <= u /\ (T[i].turn = 0 => T[i].role = "digest" \/ (i = 1 /\ T[i].role = "system"))
  BY DEF Dated
<1>1. T[i].turn \in Nat
  BY MessageTurn
<1>2. T[i].turn <= t /\ (T[i].turn = 0 => T[i].role = "digest" \/ (i = 1 /\ T[i].role = "system"))
  BY DEF Dated
<1> QED BY <1>1, <1>2

\* Whatever was to come, a turn of its own may come next, or nothing.
LEMMA CutNext ==
    ASSUME NEW T \in Seq(Messages), NEW t \in Nat, Dated(T, t), NEW b, NEW u, Cut(T, b, u)
    PROVE  Cut(T, b, t + 1) /\ Cut(T, b, -1)
<1>1. b \in 0..Len(T) /\ Len(T) \in Nat
  BY DEF Cut
<1>2. CASE b > 0 /\ ~(b < Len(T))
  <2>1. b \in 1..Len(T)
    BY <1>1, <1>2
  <2>2. T[b].turn \in Nat /\ T[b].turn <= t
    BY <2>1, MessageTurn DEF Dated
  <2>3. T[b].turn # t + 1 /\ T[b].turn # -1
    BY <2>2
  <2> QED BY <1>1, <1>2, <2>3 DEF Cut
<1>3. CASE ~(b > 0 /\ ~(b < Len(T)))
  BY <1>1, <1>3 DEF Cut
<1> QED BY <1>2, <1>3

LEMMA PresentIs ==
    ASSUME IInv, Clock
    PROVE  /\ turn \in Nat /\ Present # 0 /\ Present \in {turn, -1}
           /\ ~Pruning => Present = (IF phase = "idle" THEN -1 ELSE turn)
           /\ ~Pruning /\ phase # "idle" => turn >= 1
           /\ Pruning => Present = (IF cand.back = "idle" THEN -1 ELSE turn)
           /\ Pruning /\ cand.back # "idle" => turn >= 1
<1>1. turn \in Nat
  BY DEF IInv, Kinds
<1>2. Pruning => phase # "idle" /\ cand.back \in {"idle", "request"}
  <2>1. Pruning => phase # "idle"
    BY DEF Pruning
  <2>2. Pruning => cand \in Cands
    BY DEF IInv, Proposal
  <2>3. cand \in Cands => cand.back \in {"idle", "request"}
    BY DEF Cands
  <2> QED BY <2>1, <2>2, <2>3
<1>3. InTurn <=> phase # "idle" /\ (Pruning => cand.back = "request")
  BY DEF InTurn
<1>4. InTurn => turn >= 1
  BY DEF Clock
<1>5. Present = IF InTurn THEN turn ELSE -1
  BY DEF Present
<1>6. Present # 0
  BY <1>1, <1>4, <1>5
<1> QED BY <1>1, <1>2, <1>3, <1>4, <1>5, <1>6

LEMMA NothingFollowed ==
    ASSUME Kinds
    PROVE  edits = <<>> => Marks = ends \cup points
BY FollowedTyped DEF Kinds, Marks

\* What a file of T holds, but for what was appended to it.
LEMMA WholePrefix ==
    ASSUME NEW F \in Seq(Messages), NEW T \in Seq(Messages), Bare(F) = Bare(T)
    PROVE  Heads(F, T) /\ Len(F) = Len(T)
<1>1. Len(F) = Len(T) /\ \A i \in 1..Len(F) : Same(F[i], T[i])
  BY BareSame
<1>2. Len(F) \in Nat
  OBVIOUS
<1> QED BY <1>1, <1>2 DEF Heads

\* What a save leaves of the file and the boundaries.
Leaves(o, T, count, pend, t) ==
    /\ Timed(o.file) /\ Dated(o.file, t)
    /\ Followed(o.ends, o.edits) = Followed(ends, pend) /\ Followed(o.points, o.edits) = Followed(points, pend)
    /\ ~o.ok => o.file = file /\ o.edits = pend /\ o.ends = ends /\ o.points = points /\ o.persisted = count
    /\ o.ok => Heads(o.file, T) /\ Len(o.file) = Len(T) /\ o.persisted = Len(T)
    /\ o.edits = <<>> => o.ends = Followed(ends, pend) /\ o.points = Followed(points, pend)

LEMMA SaveTimes ==
    ASSUME Kinds, NEW T, NEW count, NEW pend \in Seq(Edits), NEW rewrite \in BOOLEAN,
           NEW o \in SavesOf(T, count, pend, rewrite), SaveFrom(T, count),
           NEW t \in Nat, Steady(T), Dated(T, t), Timed(file), Dated(file, t)
    PROVE  Leaves(o, T, count, pend, t)
<1>1. KeptBy(o, count, pend) \/ WholeBy(o, T, pend) \/ TailBy(o, T, count, pend)
  BY SavesAre DEF Outcome
<1>2. T \in Seq(Messages) /\ Opens(T) /\ Digests(T) /\ FileIsSound(file) /\ file \in Seq(Messages)
  BY DEF SaveFrom, FileIsSound
<1>3. ends \in SUBSET Nat /\ points \in SUBSET Nat
  BY DEF Kinds
<1>4. Waits(o, pend) \/ Lands(o, pend)
  BY <1>1 DEF KeptBy, WholeBy, TailBy
<1>5. Followed(ends, pend) \in SUBSET Nat /\ Followed(points, pend) \in SUBSET Nat
  BY <1>3, FollowedTyped
<1>6. /\ Followed(o.ends, o.edits) = Followed(ends, pend) /\ Followed(o.points, o.edits) = Followed(points, pend)
      /\ o.edits = <<>> => o.ends = Followed(ends, pend) /\ o.points = Followed(points, pend)
  <2>0. <<>> \in Seq(Edits)
    OBVIOUS
  <2>1. CASE Waits(o, pend)
    <3>1. o.edits = pend /\ o.ends = ends /\ o.points = points
      BY <2>1 DEF Waits
    <3>2. pend = <<>> => Followed(ends, pend) = ends /\ Followed(points, pend) = points
      BY <1>3, FollowedTyped
    <3> QED BY <3>1, <3>2
  <2>2. CASE Lands(o, pend)
    <3>1. o.edits = <<>> /\ o.ends = Followed(ends, pend) /\ o.points = Followed(points, pend)
      BY <2>2 DEF Lands
    <3>2. Followed(o.ends, <<>>) = o.ends /\ Followed(o.points, <<>>) = o.points
      BY <1>5, <2>0, <3>1, FollowedTyped
    <3> QED BY <3>1, <3>2
  <2> QED BY <1>4, <2>1, <2>2
<1>7. ~o.ok => o.file = file /\ o.edits = pend /\ o.ends = ends /\ o.points = points /\ o.persisted = count
  BY <1>1 DEF KeptBy, WholeBy, TailBy, Waits
<1>8. o.ok => Heads(o.file, T) /\ Len(o.file) = Len(T) /\ o.persisted = Len(T)
  <2>1. CASE KeptBy(o, count, pend)
    BY <2>1 DEF KeptBy
  <2>2. CASE WholeBy(o, T, pend)
    <3>1. o.file = T /\ o.persisted = Len(T)
      BY <2>2 DEF WholeBy
    <3> QED BY <1>2, <3>1, WholePrefix
  <2>3. CASE TailBy(o, T, count, pend)
    <3>1. o.file = file \o SubSeq(T, count + 1, Len(T)) /\ o.persisted = Len(T) /\ count \notin {0, Stale}
      BY <2>3 DEF TailBy
    <3>2. Begins(file, T, count)
      BY <3>1 DEF SaveFrom
    <3> DEFINE N == file \o SubSeq(T, count + 1, Len(T))
    <3>3. N \in Seq(Messages) /\ Bare(N) = Bare(T)
      BY <1>2, <3>2, TailIs
    <3>4. o.file = N
      BY <3>1
    <3> HIDE DEF N
    <3> QED BY <1>2, <3>1, <3>3, <3>4, WholePrefix
  <2> QED BY <1>1, <2>1, <2>2, <2>3
<1>9. Timed(o.file) /\ Dated(o.file, t)
  <2>1. CASE ~o.ok
    BY <1>7, <2>1
  <2>2. CASE o.ok
    <3>1. Heads(o.file, T)
      BY <1>8, <2>2
    <3>2. Timed(T)
      BY <1>2, SteadyTimed
    <3> QED BY <3>1, <3>2, PrefixKeeps
  <2> QED BY <2>1, <2>2
<1> QED BY <1>6, <1>7, <1>8, <1>9 DEF Leaves

\* The clock of a transcript at a place of a turn.
Clocked(T, ph, n, t) == Steady(T) /\ Dated(T, t) /\ Now(T, ph, n, t)

\* What is known of a loaded transcript.
LEMMA TimesNow ==
    ASSUME IInv, TInv, mem # <<>> \/ phase # "idle"
    PROVE  /\ mem \in Seq(Messages) /\ mem # <<>> /\ Steady(mem) /\ Dated(mem, turn) /\ Now(mem, phase, persisted, turn)
           /\ Timed(file) /\ Dated(file, turn) /\ turn \in Nat /\ file \in Seq(Messages)
           /\ Len(mem) \in 1..Len(mem) /\ Len(mem) \in Nat
           /\ ~Pruning /\ phase # "idle" => turn >= 1 /\ Present = turn
           /\ phase = "idle" => Present = -1 /\ ~Pruning
<1>1. Kinds /\ mem # <<>> /\ mem \in Seq(Messages) /\ FileIsSound(file)
  BY Loaded
<1>2. Clock
  BY DEF TInv
<1>3. /\ turn \in Nat
      /\ ~Pruning => Present = (IF phase = "idle" THEN -1 ELSE turn)
      /\ ~Pruning /\ phase # "idle" => turn >= 1
  BY <1>2, PresentIs
<1>4. phase = "idle" => ~Pruning
  BY DEF Pruning
<1>5. Len(mem) \in 1..Len(mem) /\ Len(mem) \in Nat
  BY <1>1, EmptySeq
<1> QED BY <1>1, <1>2, <1>3, <1>4, <1>5 DEF Clock, FileIsSound

\* What a step shows when no prune is under way after it.
LEMMA Settles ==
    ASSUME ~Pruning', Timed(file'), Dated(file', turn'),
           mem' # <<>> => Clocked(mem', phase', persisted', turn'),
           phase' # "idle" => turn' >= 1,
           Sound' /\ mem' # <<>> => \A b \in Marks' : Cut(mem', b, IF phase' = "idle" THEN -1 ELSE turn'),
           InFile'
    PROVE  TInv'
<1>1. InTurn' <=> phase' # "idle"
  BY DEF InTurn
<1>2. Present' = IF phase' = "idle" THEN -1 ELSE turn'
  BY <1>1 DEF Present
<1>3. Clock'
  BY <1>1 DEF Clock, Clocked
<1>4. InMem'
  BY <1>2 DEF InMem
<1>5. InPrune'
  <2>1. phase' \notin {"archive", "index", "rewrite"}
    BY DEF Pruning
  <2> QED BY <2>1 DEF InPrune
<1> QED BY <1>3, <1>4, <1>5 DEF TInv

\* A step in memory keeps what divided it.
LEMMA MemoryTimes ==
    ASSUME IInv, TInv, InMemory, ~Pruning, ~Pruning', mem # <<>>, turn' \in Nat, turn <= turn',
           Clocked(mem', phase', persisted, turn'), phase' # "idle" => turn' >= 1,
           \A b : Cut(mem, b, Present) => Cut(mem', b, IF phase' = "idle" THEN -1 ELSE turn')
    PROVE  TInv'
<1>1. UNCHANGED <<file, ends, points, persisted, edits, slipped, late>>
  BY DEF InMemory, disk, index
<1>2. Timed(file) /\ Dated(file, turn) /\ turn \in Nat /\ file \in Seq(Messages)
  BY TimesNow
<1>3. Timed(file') /\ Dated(file', turn')
  BY <1>1, <1>2, DatedOn
<1>4. Marks' = Marks /\ (Sound' <=> Sound)
  BY <1>1 DEF Marks, Sound
<1>5. phase # "rewrite"
  BY DEF Pruning
<1>6. Sound' => \A b \in Marks' : Cut(mem', b, IF phase' = "idle" THEN -1 ELSE turn')
  BY <1>4, <1>5 DEF TInv, InMem
<1>7. InFile'
  <2>1. InFile
    BY DEF TInv
  <2> QED BY <1>1, <1>4, <1>5, <2>1 DEF InFile
<1> QED BY <1>1, <1>3, <1>6, <1>7, Settles

\* The boundaries of a file that a save leaves.
LEMMA SaveDivides ==
    ASSUME IInv, TInv, phase # "rewrite", Sound, NEW T, NEW count, NEW pend \in Seq(Edits), NEW rewrite \in BOOLEAN,
           NEW o \in SavesOf(T, count, pend, rewrite), SaveFrom(T, count),
           NEW t \in Nat, Steady(T), Dated(T, t), Timed(file), Dated(file, t), NEW u,
           \A b \in Followed(ends, pend) \cup Followed(points, pend) : Cut(T, b, u),
           IF o.ok THEN o.edits = <<>> ELSE edits = <<>> \/ persisted = Stale
    PROVE  \A b \in o.ends \cup o.points : Split(o.file, b)
<1>1. Kinds /\ InFile
  BY DEF IInv, TInv
<1>2. /\ ~o.ok => o.file = file /\ o.ends = ends /\ o.points = points
      /\ o.ok => Heads(o.file, T) /\ Len(o.file) = Len(T)
      /\ o.edits = <<>> => o.ends = Followed(ends, pend) /\ o.points = Followed(points, pend)
  <2>1. Leaves(o, T, count, pend, t)
    BY <1>1, SaveTimes
  <2> QED BY <2>1 DEF Leaves
<1>3. CASE ~o.ok
  BY <1>1, <1>2, <1>3 DEF InFile
<1>4. CASE o.ok
  <2>1. ASSUME NEW b \in o.ends \cup o.points PROVE Split(o.file, b)
    <3>1. Cut(T, b, u)
      BY <1>2, <1>4, <2>1
    <3>2. T \in Seq(Messages)
      BY DEF SaveFrom
    <3>3. Split(T, b)
      BY <3>1, <3>2, CutSplit
    <3>4. b <= Len(o.file)
      <4>1. b \in 0..Len(T)
        BY <3>1 DEF Cut
      <4>2. Len(T) \in Nat
        BY <3>2
      <4> QED BY <1>2, <1>4, <4>1, <4>2
    <3>5. Heads(o.file, T)
      BY <1>2, <1>4
    <3> QED BY <3>3, <3>4, <3>5, PrefixKeeps
  <2> QED BY <2>1
<1> QED BY <1>3, <1>4

\* A save of a turn, or one between turns, of what divides as memory did.
LEMMA SavedTimes ==
    ASSUME IInv, TInv, ~Pruning, NEW T, NEW count, NEW rewrite \in BOOLEAN,
           NEW o \in SavesOf(T, count, edits, rewrite), SaveFrom(T, count), SaveStep(o), count \in {persisted, 0},
           turn' = turn, Steady(T), Dated(T, turn), mem # <<>>, NEW u,
           \A b : Cut(mem, b, Present) => Cut(T, b, u), phase' # "rewrite"
    PROVE  /\ Timed(file') /\ Dated(file', turn') /\ Marks' = Marks /\ (Sound' <=> Sound) /\ InFile'
           /\ Sound' => \A b \in Marks' : Cut(mem, b, Present) /\ Cut(T, b, u)
           /\ persisted' = o.persisted /\ edits' = o.edits /\ (o.ok => persisted' = Len(T))
<1>1. Kinds /\ InMem
  BY DEF IInv, TInv
<1>2. edits \in Seq(Edits) /\ Timed(file) /\ Dated(file, turn) /\ turn \in Nat
  BY <1>1, TimesNow DEF Kinds
<1>3. /\ file' = o.file /\ edits' = o.edits /\ persisted' = o.persisted /\ ends' = o.ends /\ points' = o.points
      /\ slipped' = slipped /\ late' = late
  BY DEF SaveStep, Wrote
<1>4. phase # "rewrite"
  BY DEF Pruning
<1>5. /\ Timed(o.file) /\ Dated(o.file, turn)
      /\ Followed(o.ends, o.edits) = Followed(ends, edits) /\ Followed(o.points, o.edits) = Followed(points, edits)
      /\ ~o.ok => o.edits = edits /\ o.persisted = count
      /\ o.ok => o.persisted = Len(T)
  <2>1. Leaves(o, T, count, edits, turn)
    BY <1>1, <1>2, SaveTimes
  <2> QED BY <2>1 DEF Leaves
<1>6. Marks' = Marks /\ (Sound' <=> Sound)
  BY <1>3, <1>5 DEF Marks, Sound
<1>7. Sound' => \A b \in Marks' : Cut(mem, b, Present) /\ Cut(T, b, u)
  BY <1>1, <1>4, <1>6 DEF InMem
<1>8. InFile'
  <2> SUFFICES ASSUME Sound', edits' = <<>> \/ persisted' = Stale PROVE \A b \in ends' \cup points' : Split(file', b)
    BY DEF InFile
  <2>1. Sound /\ \A b \in Followed(ends, edits) \cup Followed(points, edits) : Cut(T, b, u)
    BY <1>6, <1>7 DEF Marks
  <2>2. o.ok => o.edits = <<>>
    <3>1. T \in Seq(Messages)
      BY DEF SaveFrom
    <3>2. Len(T) \in Nat
      BY <3>1
    <3>3. o.ok => o.persisted # Stale
      BY <1>5, <3>2 DEF Stale
    <3> QED BY <1>3, <3>3
  <2>3. ~o.ok => edits = <<>> \/ persisted = Stale
    BY <1>3, <1>5 DEF Stale
  <2>4. \A b \in o.ends \cup o.points : Split(o.file, b)
    BY <1>2, <1>4, <2>1, <2>2, <2>3, SaveDivides
  <2> QED BY <1>3, <2>4
<1> QED BY <1>3, <1>5, <1>6, <1>7, <1>8

LEMMA StartsTimes ==
    ASSUME NEW kind \in Starts
    PROVE  LET s == Start(kind) IN
           /\ Timed(s.file) /\ Dated(s.file, s.turn)
           /\ \A p \in s.ends \cup s.points : Split(s.file, p)
<1> DEFINE n == MaxMade
           a == Assistant(n + 2, {1}, 1)
           b == Assistant(n + 2, {}, 1)
           u == User(n + 1, 1)
           v == User(n + 3, 2)
           w == Reply(a, 1)
           stray == <<System, u, a, v, w>>
           bare == <<u, b>>
           note == [Message(<<n + 5, 0>>, "digest", {}, 0, 0) EXCEPT !.cut = TRUE]
           x == User(n + 3, 1)
           y == [Reply(a, 1) EXCEPT !.cut = TRUE]
           z == Assistant(n + 4, {}, 1)
           short == <<System, u, note, x, a, y, z>>
<1>0. kind \in {"new", "stray", "bare", "shortened"}
  BY ConstantsAssumption DEF ConstantsAssumption
<1>1. /\ System.role = "system" /\ System.turn = 0
      /\ u.role = "user" /\ u.turn = 1 /\ v.role = "user" /\ v.turn = 2 /\ v.calls = {}
      /\ a.role = "assistant" /\ a.turn = 1 /\ b.role = "assistant" /\ b.turn = 1
      /\ w.role = "tool" /\ w.turn = 1
  BY DEF System, User, Assistant, Reply, Message
<1>5. /\ note.role = "digest" /\ note.turn = 0 /\ x.role = "user" /\ x.turn = 1
      /\ y.role = "tool" /\ y.turn = 1 /\ z.role = "assistant" /\ z.turn = 1
  BY DEF User, Assistant, Reply, Message
<1>2. CASE kind = "new"
  <2>1. Start(kind) = [file |-> <<>>, ends |-> {}, points |-> {}, made |-> 0, turn |-> 0]
    BY <1>2 DEF Start
  <2>2. Timed(<<>>) /\ Dated(<<>>, 0)
    BY DEF Timed, Dated
  <2> QED BY <2>1, <2>2
<1>3. CASE kind = "stray"
  <2>1. Start(kind) = [file |-> stray, ends |-> {3, 5}, points |-> {3}, made |-> 1, turn |-> 2]
    BY <1>3 DEF Start
  <2> HIDE DEF a, b, u, v, w
  <2>2. Len(stray) = 5 /\ stray[1] = System /\ stray[2] = u /\ stray[3] = a /\ stray[4] = v /\ stray[5] = w
    OBVIOUS
  <2> HIDE DEF stray
  <2>3. Timed(stray)
    <3> SUFFICES ASSUME NEW h \in 1..5, NEW i \in 1..5, Follows(stray, h, i), stray[i].role = "tool",
                        stray[i].of \in stray[h].calls
                 PROVE  FALSE
      BY <2>2 DEF Timed
    <3>1. i = 5
      BY <1>1, <2>2
    <3>2. stray[h].role # "tool" /\ \A j \in h + 1..5 : stray[j].role = "tool"
      BY <3>1 DEF Follows
    <3>3. h = 4
      <4>1. h # 5 /\ ~(4 \in h + 1..5)
        BY <1>1, <2>2, <3>2
      <4> QED BY <4>1
    <3> QED BY <1>1, <2>2, <3>3
  <2>4. Dated(stray, 2)
    <3> SUFFICES ASSUME NEW i \in 1..5
                 PROVE stray[i].turn <= 2 /\ (stray[i].turn = 0 => stray[i].role = "digest" \/ (i = 1 /\ stray[i].role = "system"))
      BY <2>2 DEF Dated
    <3> QED BY <1>1, <2>2
  <2>5. Split(stray, 3)
    <3>1. stray[3 + 1] = v /\ stray[3] = a
      BY <2>2
    <3>2. ASSUME NEW h \in 1..3, Follows(stray, h, 3) PROVE h = 3
      <4>1. \A j \in h + 1..3 : stray[j].role = "tool"
        BY <3>2 DEF Follows
      <4>2. ~(3 \in h + 1..3)
        BY <1>1, <3>1, <4>1
      <4> QED BY <4>2
    <3> QED BY <1>1, <2>2, <3>1, <3>2 DEF Split
  <2>6. Split(stray, 5)
    BY <2>2 DEF Split
  <2> QED BY <2>1, <2>3, <2>4, <2>5, <2>6
<1>4. CASE kind = "bare"
  <2>1. Start(kind) = [file |-> bare, ends |-> {2}, points |-> {}, made |-> 1, turn |-> 1]
    BY <1>4 DEF Start
  <2> HIDE DEF a, b, u, v, w
  <2>2. Len(bare) = 2 /\ bare[1] = u /\ bare[2] = b
    OBVIOUS
  <2> HIDE DEF bare
  <2>3. Timed(bare) /\ Dated(bare, 1)
    <3>1. \A i \in 1..2 : bare[i].role # "tool" /\ bare[i].turn = 1
      BY <1>1, <2>2
    <3> QED BY <2>2, <3>1 DEF Timed, Dated
  <2>4. Split(bare, 2)
    BY <2>2 DEF Split
  <2> QED BY <2>1, <2>3, <2>4
<1>6. CASE kind = "shortened"
  <2>1. Start(kind) = [file |-> short, ends |-> {7}, points |-> {}, made |-> 1, turn |-> 1]
    BY <1>6 DEF Start
  <2> HIDE DEF a, u, note, x, y, z
  <2>2. Len(short) = 7 /\ short[1] = System /\ short[2] = u /\ short[3] = note /\ short[4] = x /\ short[5] = a /\ short[6] = y /\ short[7] = z
    OBVIOUS
  <2> HIDE DEF short
  <2>3. Timed(short)
    <3> SUFFICES ASSUME NEW h \in 1..7, NEW i \in 1..7, Follows(short, h, i), short[i].role = "tool"
                 PROVE  short[h].turn = short[i].turn
      BY <2>2 DEF Timed
    <3>1. i = 6
      BY <1>1, <1>5, <2>2
    <3>2. h <= 6 /\ \A j \in h + 1..6 : short[j].role = "tool"
      BY <3>1 DEF Follows
    <3>3. ~(5 \in h + 1..6)
      BY <1>1, <2>2, <3>2
    <3>4. h = 5 \/ h = 6
      BY <3>2, <3>3
    <3> QED BY <1>1, <1>5, <2>2, <3>1, <3>4
  <2>4. Dated(short, 1)
    <3> SUFFICES ASSUME NEW i \in 1..7
                 PROVE short[i].turn <= 1 /\ (short[i].turn = 0 => short[i].role = "digest" \/ (i = 1 /\ short[i].role = "system"))
      BY <2>2 DEF Dated
    <3> QED BY <1>1, <1>5, <2>2
  <2>5. Split(short, 7)
    BY <2>2 DEF Split
  <2> QED BY <2>1, <2>3, <2>4, <2>5
<1> QED BY <1>0, <1>2, <1>3, <1>4, <1>6

LEMMA InitTimes ==
    ASSUME Init PROVE TInv
<1>1. PICK kind \in Starts :
         LET s == Start(kind) IN
         /\ file = s.file /\ synced = Len(s.file)
         /\ ends = s.ends /\ points = s.points /\ made = s.made /\ turn = s.turn
  BY DEF Init
<1>2. mem = <<>> /\ phase = "idle"
  BY DEF Init
<1>3. Timed(file) /\ Dated(file, turn) /\ \A p \in ends \cup points : Split(file, p)
  BY <1>1, StartsTimes
<1>4. ~Pruning /\ ~InTurn
  BY <1>2 DEF Pruning, InTurn
<1> QED BY <1>2, <1>3, <1>4 DEF TInv, Clock, InMem, InFile, InPrune

LEMMA ReplayTimes ==
    ASSUME IInv, TInv, Replay PROVE TInv'
<1>1. /\ Kinds /\ Clock /\ InFile /\ mem = <<>> /\ phase = "idle"
      /\ points' = points \cup {Len(file)}
      /\ UNCHANGED <<file, ends, mem, persisted, edits, phase, turn, slipped, late>>
  BY DEF IInv, TInv, Replay, disk, data
<1>2. ~Pruning'
  BY <1>1 DEF Pruning
<1>3. Split(file, Len(file))
  <2>1. file \in Seq(Messages)
    BY <1>1 DEF Kinds, FileIsSound
  <2>2. Len(file) \in 0..Len(file) /\ ~(Len(file) < Len(file))
    BY <2>1
  <2> QED BY <2>2 DEF Split
<1>4. InFile'
  BY <1>1, <1>3 DEF InFile, Sound
<1>5. Timed(file') /\ Dated(file', turn')
  BY <1>1 DEF Clock
<1> QED BY <1>1, <1>2, <1>4, <1>5, Settles

LEMMA HydrateNewTimes ==
    ASSUME IInv, TInv, HydrateNew PROVE TInv'
<1>1. /\ Kinds /\ Conversation /\ Clock /\ InFile /\ phase = "idle" /\ mem = <<>> /\ file = <<>>
      /\ mem' = <<System>> /\ persisted' = 0 /\ edits' = <<>>
      /\ UNCHANGED <<file, ends, points, phase, turn, slipped, late>>
  BY DEF IInv, TInv, HydrateNew, disk, index
<1>2. ~Pruning' /\ edits = <<>> /\ turn \in Nat /\ ends \in SUBSET Nat /\ points \in SUBSET Nat
  BY <1>1 DEF Pruning, Conversation, Kinds
<1> DEFINE T == <<System>>
<1>3. T \in Seq(Messages) /\ Len(T) = 1 /\ T[1] = System /\ System.role = "system" /\ System.turn = 0
  BY SystemIs DEF System, Message
<1> HIDE DEF T
<1>4. Clocked(T, "idle", 0, turn)
  <2>1. Steady(T)
    BY <1>3 DEF Steady
  <2>2. Dated(T, turn)
    BY <1>2, <1>3 DEF Dated
  <2> QED BY <2>1, <2>2 DEF Clocked, Now
<1>5. ASSUME Sound', NEW b \in Marks' PROVE Cut(T, b, -1)
  <2>1. Marks' = ends \cup points
    <3>1. <<>> \in Seq(Edits)
      OBVIOUS
    <3> QED BY <1>1, <1>2, <3>1, FollowedTyped DEF Marks
  <2>2. Split(file, b)
    BY <1>1, <1>2, <1>5, <2>1 DEF InFile, Sound
  <2>3. b = 0
    <3>1. Len(<<>>) = 0
      OBVIOUS
    <3> QED BY <1>1, <2>2, <3>1 DEF Split
  <2> QED BY <1>3, <2>3 DEF Cut
<1>6. InFile'
  BY <1>1, <1>2 DEF InFile, Sound
<1>7. Timed(file') /\ Dated(file', turn')
  BY <1>1 DEF Clock
<1>8. Clocked(mem', phase', persisted', turn') /\ (Sound' => \A b \in Marks' : Cut(mem', b, -1))
  BY <1>1, <1>4, <1>5 DEF T
<1> QED BY <1>1, <1>2, <1>6, <1>7, <1>8, Settles

LEMMA HydrateTimes ==
    ASSUME IInv, TInv, Hydrate PROVE TInv'
<1> DEFINE r == Repaired(file)
           T == r.msgs
           E == r.edits
<1>1. /\ Kinds /\ Conversation /\ Clock /\ InFile /\ phase = "idle" /\ mem = <<>> /\ file # <<>> /\ mem' = T
      /\ UNCHANGED <<phase, turn>>
  <2>1. phase = "idle" /\ mem = <<>> /\ file # <<>> /\ mem' = T /\ UNCHANGED <<phase, turn>>
    BY DEF Hydrate
  <2> QED BY <2>1 DEF IInv, TInv
<1>2. \/ /\ E = <<>> /\ persisted' = Len(file) /\ edits' = <<>>
         /\ UNCHANGED <<file, ends, points, slipped, late>>
      \/ \E o \in SavesOf(T, 0, E, TRUE) : SaveStep([o EXCEPT !.persisted = IF o.ok THEN @ ELSE Stale])
  BY DEF Hydrate, disk, index
<1>3. /\ FileIsSound(file) /\ synced \in 0..Len(file) /\ file \in Seq(Messages)
      /\ (Opens(file) \/ file[1].role = "user") /\ Digests(file)
      /\ turn \in Nat /\ ends \in SUBSET Nat /\ points \in SUBSET Nat
      /\ edits = <<>> /\ Timed(file) /\ Dated(file, turn) /\ phase # "rewrite" /\ ~Pruning'
  BY <1>1 DEF Kinds, FileIsSound, Conversation, Clock, Pruning
<1>4. /\ T \in Seq(Messages) /\ Opens(T) /\ Digests(T) /\ LiveIds(file) \subseteq LiveIds(T)
      /\ E \in Seq(Edits) /\ (E = <<>> => T = file)
  BY <1>1, <1>3, RepairedIs
<1>5. /\ Steady(T) /\ Dated(T, turn)
      /\ \A P \in SUBSET Nat : (\A b \in P : Split(file, b)) => \A q \in Followed(P, E) : Cut(T, q, -1)
  BY <1>1, <1>3, RepairedTurns
<1> HIDE DEF r, T, E
<1>6. Clocked(mem', phase', persisted', turn')
  BY <1>1, <1>5 DEF Clocked, Now
<1>7. Sound => (\A b \in Followed(ends, E) \cup Followed(points, E) : Cut(T, b, -1))
  BY <1>1, <1>3, <1>5 DEF InFile
<1>8. CASE /\ E = <<>> /\ persisted' = Len(file) /\ edits' = <<>>
           /\ UNCHANGED <<file, ends, points, slipped, late>>
  <2>1. Sound' <=> Sound
    BY <1>8 DEF Sound
  <2>2. Marks' = Followed(ends, E) \cup Followed(points, E)
    BY <1>8 DEF Marks
  <2>3. InFile'
    BY <1>1, <1>3, <1>8, <2>1 DEF InFile
  <2>4. Timed(file') /\ Dated(file', turn')
    BY <1>1, <1>3, <1>8
  <2>5. Sound' => \A b \in Marks' : Cut(mem', b, -1)
    BY <1>1, <1>7, <2>1, <2>2
  <2> QED BY <1>1, <1>3, <1>6, <2>3, <2>4, <2>5, Settles
<1>9. CASE \E o \in SavesOf(T, 0, E, TRUE) : SaveStep([o EXCEPT !.persisted = IF o.ok THEN @ ELSE Stale])
  <2>1. PICK o \in SavesOf(T, 0, E, TRUE) : SaveStep([o EXCEPT !.persisted = IF o.ok THEN @ ELSE Stale])
    BY <1>9
  <2> DEFINE n == IF o.ok THEN o.persisted ELSE Stale
             q == [o EXCEPT !.persisted = n]
  <2>2. Outcome(o, T, 0, E)
    BY <1>4, SavesAre
  <2>3. DOMAIN o = Fields
    BY <2>2 DEF Outcome
  <2>4. /\ q.file = o.file /\ q.synced = o.synced /\ q.edits = o.edits /\ q.cost = o.cost /\ q.persisted = n
        /\ q.ends = o.ends /\ q.points = o.points
    BY <2>3 DEF Fields
  <2>5. SaveStep(q)
    BY <2>1
  <2> HIDE DEF q
  <2>6. /\ file' = o.file /\ persisted' = n /\ edits' = o.edits /\ ends' = o.ends /\ points' = o.points
        /\ slipped' = slipped /\ late' = late
    BY <2>4, <2>5 DEF SaveStep, Wrote
  <2>7. SaveFrom(T, 0)
    BY <1>3, <1>4 DEF SaveFrom
  <2>8. Leaves(o, T, 0, E, turn)
    BY <1>1, <1>3, <1>4, <1>5, <2>7, SaveTimes
  <2>9. /\ Timed(o.file) /\ Dated(o.file, turn)
        /\ Followed(o.ends, o.edits) = Followed(ends, E) /\ Followed(o.points, o.edits) = Followed(points, E)
        /\ o.ok => o.persisted = Len(T)
    BY <2>8 DEF Leaves
  <2>10. Marks' = Followed(ends, E) \cup Followed(points, E) /\ (Sound' <=> Sound)
    BY <2>6, <2>9 DEF Marks, Sound
  <2>11. Sound' => \A b \in Marks' : Cut(mem', b, -1)
    BY <1>1, <1>7, <2>10
  <2>12. InFile'
    <3> SUFFICES ASSUME Sound', edits' = <<>> \/ persisted' = Stale PROVE \A b \in ends' \cup points' : Split(file', b)
      BY DEF InFile
    <3>1. o.ok => o.edits = <<>>
      <4>1. Len(T) \in Nat
        BY <1>4
      <4>2. o.ok => o.persisted # Stale
        BY <2>9, <4>1 DEF Stale
      <4> QED BY <2>6, <4>2
    <3>2. IF o.ok THEN o.edits = <<>> ELSE edits = <<>> \/ persisted = Stale
      BY <1>3, <3>1
    <3>3. \A b \in o.ends \cup o.points : Split(o.file, b)
      <4>1. Sound /\ \A b \in Followed(ends, E) \cup Followed(points, E) : Cut(T, b, -1)
        BY <1>7, <2>10
      <4> QED BY <1>3, <1>4, <1>5, <2>7, <3>2, <4>1, SaveDivides
    <3> QED BY <2>6, <3>3
  <2>13. Timed(file') /\ Dated(file', turn')
    BY <1>1, <2>6, <2>9
  <2> QED BY <1>1, <1>3, <1>6, <2>11, <2>12, <2>13, Settles
<1> QED BY <1>2, <1>8, <1>9

LEMMA ReloadTimes ==
    ASSUME IInv, TInv, Reload PROVE TInv'
<1>1. /\ phase = "idle" /\ mem # <<>> /\ UNCHANGED <<mem, phase, turn>>
  BY DEF Reload
<1>2. PICK o \in SavesOf(mem, 0, edits, TRUE) : SaveStep(o)
  BY DEF Reload
<1>3. /\ Kinds /\ OnDisk(file, mem, persisted, "idle") /\ persisted \in Nat \cup {Stale} /\ mem \in Seq(Messages)
      /\ Opens(mem) /\ Digests(mem)
  BY <1>1, Loaded
<1>4. SaveFrom(mem, 0)
  BY <1>3, MaySave
<1>5. Steady(mem) /\ Dated(mem, turn) /\ Present = -1
  BY <1>1, TimesNow
<1>6. ~Pruning /\ ~Pruning' /\ phase' # "rewrite" /\ turn' = turn
  BY <1>1 DEF Pruning
<1>7. /\ Timed(file') /\ Dated(file', turn') /\ InFile'
      /\ Sound' => \A b \in Marks' : Cut(mem, b, Present) /\ Cut(mem, b, Present)
  BY <1>1, <1>2, <1>4, <1>5, <1>6, SavedTimes
<1>8. Clocked(mem', phase', persisted', turn')
  BY <1>1, <1>5 DEF Clocked, Now
<1> QED BY <1>1, <1>5, <1>6, <1>7, <1>8, Settles

\* A transcript that grows by a message of turn u.
LEMMA Grows ==
    ASSUME NEW T \in Seq(Messages), NEW m \in Messages, NEW t \in Nat, NEW u \in Nat, t <= u, u >= 1,
           m.turn = u, Steady(T), Dated(T, t), m.role = "tool" => T # <<>> /\ T[Len(T)].turn = u
    PROVE  /\ \A ph, n : Clocked(Append(T, m), ph, n, u)
           /\ \A b : Cut(T, b, u) => Cut(Append(T, m), b, u)
<1> DEFINE A == Append(T, m)
<1>1. Extends(T, A) /\ Len(A) = Len(T) + 1 /\ A[Len(T) + 1] = m /\ A[Len(A)] = m
  BY AppendExtends
<1>2. Steady(A) /\ Dated(A, u)
  BY AppendSteady
<1> HIDE DEF A
<1>3. Len(T) < Len(A) /\ A[Len(T) + 1].turn = u
  <2>1. Len(T) \in Nat
    OBVIOUS
  <2> QED BY <1>1, <2>1
<1>4. ASSUME NEW b, Cut(T, b, u) PROVE Cut(A, b, u)
  BY <1>1, <1>3, <1>4, CutExtends
<1>5. ASSUME NEW ph, NEW n PROVE Clocked(A, ph, n, u)
  <2>1. Now(A, ph, n, u)
    BY <1>1 DEF Now
  <2> QED BY <1>2, <2>1 DEF Clocked
<1> QED BY <1>4, <1>5 DEF A

LEMMA PromptTimes ==
    ASSUME IInv, TInv, Prompt PROVE TInv'
<1> DEFINE t == turn + 1
           u == User(made + 1, t)
           v == User(made + 2, t)
           A == Append(mem, u)
           B == Append(A, v)
<1>1. phase = "idle" /\ mem # <<>> /\ turn' = t /\ phase' = "opened" /\ InMemory
  BY DEF Prompt
<1>2. Kinds /\ mem \in Seq(Messages)
  BY <1>1, Loaded
<1>3. /\ u \in Messages /\ u.role = "user" /\ v \in Messages /\ v.role = "user" /\ u.turn = t /\ v.turn = t
      /\ (mem' = A \/ mem' = B)
  BY <1>2, PromptAdds
<1>4. Steady(mem) /\ Dated(mem, turn) /\ Present = -1 /\ turn \in Nat
  BY <1>1, TimesNow
<1>5. t \in Nat /\ turn <= t /\ t >= 1
  BY <1>4
<1> HIDE DEF u, v
<1>6. /\ \A ph, n : Clocked(A, ph, n, t)
      /\ \A b : Cut(mem, b, t) => Cut(A, b, t)
  <2>1. \A ph, n : Clocked(A, ph, n, t)
    BY <1>2, <1>3, <1>4, <1>5, Grows
  <2>2. \A b : Cut(mem, b, t) => Cut(A, b, t)
    BY <1>2, <1>3, <1>4, <1>5, Grows
  <2> QED BY <2>1, <2>2
<1>7. A \in Seq(Messages) /\ Steady(A) /\ Dated(A, t)
  <2>1. Clocked(A, "opened", 0, t)
    BY <1>6
  <2> QED BY <1>2, <1>3, <2>1, AppendLike DEF Clocked
<1> HIDE DEF A
<1>8. /\ \A ph, n : Clocked(B, ph, n, t)
      /\ \A b : Cut(A, b, t) => Cut(B, b, t)
  <2>1. \A ph, n : Clocked(B, ph, n, t)
    BY <1>3, <1>5, <1>7, Grows
  <2>2. \A b : Cut(A, b, t) => Cut(B, b, t)
    BY <1>3, <1>5, <1>7, Grows
  <2> QED BY <2>1, <2>2
<1> HIDE DEF B
<1>9. ASSUME NEW b, Cut(mem, b, Present) PROVE Cut(mem', b, t)
  <2>1. Cut(mem, b, t)
    BY <1>2, <1>4, <1>9, CutNext
  <2> QED BY <1>3, <1>6, <1>8, <2>1
<1>10. Clocked(mem', phase', persisted, turn')
  BY <1>1, <1>3, <1>6, <1>8
<1>11. ~Pruning /\ ~Pruning' /\ phase' # "idle" /\ turn' \in Nat /\ turn <= turn' /\ turn' >= 1
  BY <1>1, <1>5 DEF Pruning
<1>12. \A b : Cut(mem, b, Present) => Cut(mem', b, IF phase' = "idle" THEN -1 ELSE turn')
  BY <1>1, <1>9, <1>11
<1> QED BY <1>1, <1>10, <1>11, <1>12, MemoryTimes

\* The messages ahead of the last one, which is of the turn there is.
LEMMA FrontTimes ==
    ASSUME NEW T \in Seq(Messages), T # <<>>, Settled(T), T[Len(T)].role # "tool", NEW t \in Nat, Steady(T), Dated(T, t),
           T[Len(T)].turn = t
    PROVE  LET F == Front(T)
           IN  F \in Seq(Messages) /\ Steady(F) /\ Dated(F, t) /\ \A b : Cut(T, b, t) => Cut(F, b, t)
<1> DEFINE F == Front(T)
           n == Len(T)
<1>1. n \in Nat /\ F \in Seq(Messages) /\ Len(F) = n - 1 /\ n >= 1 /\ \A i \in 1..n - 1 : F[i] = T[i]
  BY FrontSettled
<1> HIDE DEF F
<1>2. Steady(F)
  <2>1. \A i \in 2..n - 1 : i \in 1..n - 1 /\ i - 1 \in 1..n - 1 /\ i \in 2..n
    BY <1>1
  <2> QED BY <1>1, <2>1 DEF Steady
<1>3. Dated(F, t)
  <2>1. \A i \in 1..n - 1 : i \in 1..n
    BY <1>1
  <2> QED BY <1>1, <2>1 DEF Dated
<1>4. ASSUME NEW b, Cut(T, b, t) PROVE Cut(F, b, t)
  <2>1. b \in 0..n - 1
    <3>1. b \in 0..n
      BY <1>4 DEF Cut
    <3>2. b # n
      BY <1>1, <1>4 DEF Cut
    <3> QED BY <1>1, <3>1, <3>2
  <2>2. CASE b > 0
    <3>1. b \in 1..n - 1 /\ b < n
      BY <1>1, <2>1, <2>2
    <3>2. T[b].turn # T[b + 1].turn /\ F[b] = T[b]
      BY <1>1, <1>4, <2>2, <3>1 DEF Cut
    <3>3. CASE b < n - 1
      <4>1. b + 1 \in 1..n - 1
        BY <1>1, <3>1, <3>3
      <4> QED BY <1>1, <2>1, <2>2, <3>2, <3>3, <4>1 DEF Cut
    <3>4. CASE ~(b < n - 1)
      <4>1. b + 1 = n
        BY <1>1, <3>1, <3>4
      <4> QED BY <1>1, <2>1, <3>2, <3>4, <4>1 DEF Cut
    <3> QED BY <3>3, <3>4
  <2>3. CASE ~(b > 0)
    BY <1>1, <2>1, <2>3 DEF Cut
  <2> QED BY <2>2, <2>3
<1> QED BY <1>1, <1>2, <1>3, <1>4 DEF F

LEMMA UnresolvedTimes ==
    ASSUME IInv, TInv, Unresolved PROVE TInv'
<1> DEFINE F == Front(mem)
<1>1. phase = "opened" /\ mem' = F /\ phase' = "idle" /\ turn' = turn /\ InMemory
  BY DEF Unresolved
<1>2. mem \in Seq(Messages) /\ mem # <<>> /\ Settled(mem) /\ mem[Len(mem)].role = "user"
  BY <1>1, Loaded DEF Held
<1>3. ~Pruning /\ ~Pruning' /\ phase' = "idle"
  BY <1>1 DEF Pruning
<1>4. Steady(mem) /\ Dated(mem, turn) /\ mem[Len(mem)].turn = turn /\ Present = turn /\ turn \in Nat
  BY <1>1, <1>3, TimesNow DEF Now
<1>5. F \in Seq(Messages) /\ Steady(F) /\ Dated(F, turn) /\ \A b : Cut(mem, b, turn) => Cut(F, b, turn)
  BY <1>2, <1>4, FrontTimes
<1> HIDE DEF F
<1>6. \A b : Cut(mem, b, Present) => Cut(mem', b, -1)
  BY <1>1, <1>4, <1>5, CutNext
<1>7. Clocked(mem', phase', persisted, turn')
  BY <1>1, <1>5 DEF Clocked, Now
<1>8. turn' \in Nat /\ turn <= turn'
  BY <1>1, <1>4
<1> QED BY <1>1, <1>2, <1>3, <1>6, <1>7, <1>8, MemoryTimes

\* The steps of a turn that only move it on.
LEMMA MovesOnTimes ==
    ASSUME IInv, TInv, InMemory, mem' = mem, turn' = turn, phase # "idle", phase' # "idle", ~Pruning, ~Pruning',
           Now(mem, phase', persisted, turn)
    PROVE  TInv'
<1>1. mem # <<>> /\ Steady(mem) /\ Dated(mem, turn) /\ turn \in Nat /\ turn >= 1 /\ Present = turn
  BY TimesNow
<1>2. Clocked(mem', phase', persisted, turn')
  BY <1>1 DEF Clocked
<1>3. \A b : Cut(mem, b, Present) => Cut(mem', b, IF phase' = "idle" THEN -1 ELSE turn')
  BY <1>1
<1>4. turn' \in Nat /\ turn <= turn' /\ turn' >= 1
  BY <1>1
<1> QED BY <1>1, <1>2, <1>3, <1>4, MemoryTimes

LEMMA MovingTimes ==
    ASSUME IInv, TInv, NoSteer \/ Request \/ NoReply \/ Cancel \/ Judge PROVE TInv'
<1>1. /\ \/ phase \in {"opened", "top"} /\ phase' \in {"tell", "closing"}
         \/ phase = "tell" /\ phase' \in {"request", "closing"}
         \/ phase = "request" /\ phase' \in {"closing", "judged", "cancelled"}
         \/ phase \in {"calls", "judged"} /\ phase' = "cancelled"
         \/ phase = "judged" /\ phase' = "closing"
      /\ mem' = mem /\ turn' = turn /\ InMemory
  BY DEF NoSteer, Request, NoReply, Cancel, Judge
<1>2. phase # "idle" /\ phase' # "idle" /\ ~Pruning /\ ~Pruning'
  BY <1>1 DEF Pruning
<1>3. Now(mem, phase, persisted, turn) /\ (phase # "calls" => Settled(mem) \/ phase = "cancelled")
  BY <1>2, TimesNow, Loaded DEF Held
<1>4. Now(mem, phase', persisted, turn)
  BY <1>1, <1>3 DEF Now
<1> QED BY <1>1, <1>2, <1>4, MovesOnTimes

LEMMA ToolTimes ==
    ASSUME IInv, TInv, Tool PROVE TInv'
<1> DEFINE c == Min(Missing(mem, Len(mem)))
           h == RunHead(mem, Len(mem))
           m == Reply(mem[h], c)
           T == Append(mem, m)
<1>1. phase = "calls" /\ phase' = phase /\ Missing(mem, Len(mem)) # {} /\ mem' = T /\ turn' = turn /\ InMemory
  BY DEF Tool
<1>2. ~Pruning /\ ~Pruning' /\ phase' # "idle" /\ phase # "idle"
  BY <1>1 DEF Pruning
<1>3. /\ mem \in Seq(Messages) /\ mem # <<>> /\ Steady(mem) /\ Dated(mem, turn) /\ mem[Len(mem)].turn = turn
      /\ turn \in Nat /\ turn >= 1 /\ Present = turn /\ Len(mem) \in 1..Len(mem)
  BY <1>1, <1>2, TimesNow DEF Now
<1>4. c \in Missing(mem, Len(mem))
  <2>1. Missing(mem, Len(mem)) \in SUBSET Nat
    <3>1. \A n \in Missing(mem, Len(mem)) : n \in Names
      BY <1>3, MissingIs
    <3> QED BY <3>1 DEF Names
  <2> QED BY <1>1, <2>1, MinIs
<1> HIDE DEF c
<1>5. m \in Messages /\ h \in 1..Len(mem)
  <2>1. Open(mem)
    BY <1>1, Loaded DEF Held
  <2> QED BY <1>3, <1>4, <2>1, AppendReply
<1>6. m.turn = turn
  <2>1. Follows(mem, h, Len(mem))
    <3>1. h > 0 /\ Len(mem) \in 0..Len(mem)
      BY <1>3, <1>5
    <3> QED BY <1>3, <3>1, RunHeadIs
  <2> HIDE DEF h
  <2>2. mem[Len(mem)].turn = mem[h].turn
    BY <1>3, <1>5, <2>1, SteadyRun
  <2>3. m.turn = mem[h].turn
    BY DEF Reply, Message
  <2> QED BY <1>3, <2>2, <2>3
<1> HIDE DEF m
<1>7. /\ \A ph, n : Clocked(T, ph, n, turn)
      /\ \A b : Cut(mem, b, turn) => Cut(T, b, turn)
  <2>1. turn <= turn
    BY <1>3
  <2>2. \A ph, n : Clocked(T, ph, n, turn)
    BY <1>3, <1>5, <1>6, <2>1, Grows
  <2>3. \A b : Cut(mem, b, turn) => Cut(T, b, turn)
    BY <1>3, <1>5, <1>6, <2>1, Grows
  <2> QED BY <2>2, <2>3
<1> HIDE DEF T
<1>8. Clocked(mem', phase', persisted, turn')
  BY <1>1, <1>7
<1>9. \A b : Cut(mem, b, Present) => Cut(mem', b, IF phase' = "idle" THEN -1 ELSE turn')
  BY <1>1, <1>2, <1>3, <1>7
<1>10. turn' \in Nat /\ turn <= turn' /\ turn' >= 1
  BY <1>1, <1>3
<1> QED BY <1>1, <1>2, <1>3, <1>8, <1>9, <1>10, MemoryTimes

\* A turn's transcript, a message longer, may be saved.
LEMMA GrowSaves ==
    ASSUME IInv, phase # "idle", Settled(mem), NEW m \in Messages, m.role \notin {"tool", "digest"}
    PROVE  SaveFrom(Append(mem, m), persisted)
<1> DEFINE T == Append(mem, m)
<1>1. /\ Kinds /\ Held(mem, phase) /\ OnDisk(file, mem, persisted, phase) /\ Len(mem) >= 2
      /\ FileIsSound(file) /\ file \in Seq(Messages) /\ persisted \in Nat \cup {Stale}
  BY Loaded DEF Held, FileIsSound
<1>2. T \in Seq(Messages) /\ Opens(T) /\ Digests(T) /\ Extends(mem, T)
  BY <1>1, AppendHeld
<1> HIDE DEF T
<1>3. (persisted \notin {0, Stale} => Begins(file, T, persisted)) /\ LiveIds(file) \subseteq LiveIds(T)
  BY <1>1, <1>2, GrownSave
<1>4. SaveFrom(T, persisted)
  BY <1>1, <1>2, <1>3 DEF SaveFrom, Kinds
<1> QED BY <1>4 DEF T

\* A message of the turn, saved: memory has it, or, of a refused end that did
\* not get to disk, it has not.
LEMMA GrownTimes ==
    ASSUME IInv, TInv, ~Pruning, ~Pruning', phase # "idle", phase' # "idle", Settled(mem), turn' = turn,
           NEW m \in Messages, m.role \notin {"tool", "digest"}, m.turn = turn,
           NEW o \in Saves(Append(mem, m), FALSE), SaveStep(o),
           mem' = Append(mem, m) \/ (mem' = mem /\ phase' = "closing")
    PROVE  TInv'
<1> DEFINE T == Append(mem, m)
<1>1. /\ mem \in Seq(Messages) /\ mem # <<>> /\ Steady(mem) /\ Dated(mem, turn)
      /\ turn \in Nat /\ turn >= 1 /\ Present = turn
  BY TimesNow
<1>2. SaveFrom(T, persisted)
  BY GrowSaves
<1>3. /\ \A ph, n : Clocked(T, ph, n, turn)
      /\ \A b : Cut(mem, b, turn) => Cut(T, b, turn)
  <2>1. turn <= turn
    BY <1>1
  <2>2. \A ph, n : Clocked(T, ph, n, turn)
    BY <1>1, <2>1, Grows
  <2>3. \A b : Cut(mem, b, turn) => Cut(T, b, turn)
    BY <1>1, <2>1, Grows
  <2> QED BY <2>2, <2>3
<1>4. o \in SavesOf(T, persisted, edits, FALSE) /\ phase' # "rewrite"
  BY DEF Saves, Pruning
<1>5. mem' = T \/ (mem' = mem /\ phase' = "closing")
  OBVIOUS
<1> HIDE DEF T
<1>6. Steady(T) /\ Dated(T, turn)
  <2>1. Clocked(T, "top", 0, turn)
    BY <1>3
  <2> QED BY <2>1 DEF Clocked
<1>7. /\ Timed(file') /\ Dated(file', turn') /\ InFile'
      /\ Sound' => \A b \in Marks' : Cut(mem, b, Present) /\ Cut(T, b, turn)
  <2>1. \A b : Cut(mem, b, Present) => Cut(T, b, turn)
    BY <1>1, <1>3
  <2> QED BY <1>1, <1>2, <1>4, <1>6, <2>1, SavedTimes
<1>8. Clocked(mem', phase', persisted', turn')
  <2>1. Now(mem, "closing", persisted', turn)
    BY DEF Now
  <2> QED BY <1>1, <1>3, <1>5, <2>1 DEF Clocked
<1>9. Sound' => \A b \in Marks' : Cut(mem', b, turn)
  BY <1>1, <1>5, <1>7
<1> QED BY <1>1, <1>7, <1>8, <1>9, Settles

LEMMA SteerTimes ==
    ASSUME IInv, TInv, Steer PROVE TInv'
<1> DEFINE u == User(Next1, turn)
<1>1. /\ phase \in {"opened", "top", "judged"} /\ Makes(1) /\ mem' = Append(mem, u)
      /\ phase' \in {"top", "tell"} /\ turn' = turn
  BY DEF Steer
<1>2. PICK o \in Saves(mem', FALSE) : SaveStep(o)
  BY DEF Steer
<1>3. Kinds /\ Settled(mem)
  BY <1>1, Loaded DEF Held
<1>4. Next1 \in Nat /\ turn \in Nat
  BY <1>1, <1>3, MakesIs
<1>5. u \in Messages /\ u.role = "user" /\ u.turn = turn
  BY <1>4, MadeIs DEF User, Message
<1> HIDE DEF u
<1>6. ~Pruning /\ ~Pruning' /\ phase # "idle" /\ phase' # "idle"
  BY <1>1 DEF Pruning
<1> QED BY <1>1, <1>2, <1>3, <1>5, <1>6, GrownTimes

LEMMA AnswerTimes ==
    ASSUME IInv, TInv, Answer PROVE TInv'
<1>1. phase = "request" /\ Makes(1) /\ turn' = turn
  BY DEF Answer
<1>2. PICK n \in 0..MaxCalls :
         mem' = Append(mem, Assistant(Next1, 1..n, turn)) /\ phase' \in {"cancelled", IF n = 0 THEN "judged" ELSE "calls"}
  BY DEF Answer
<1>3. PICK o \in Saves(mem', FALSE) : SaveStep(o)
  BY DEF Answer
<1>4. Kinds /\ Settled(mem)
  BY <1>1, Loaded DEF Held
<1>5. Next1 \in Nat /\ turn \in Nat
  BY <1>1, <1>4, MakesIs
<1> DEFINE u == Assistant(Next1, 1..n, turn)
<1>6. u \in Messages /\ u.role = "assistant" /\ u.turn = turn
  <2>1. 1..n \in SUBSET Names
    BY BoundsAre DEF Names
  <2> QED BY <1>5, <2>1, MadeIs
<1>7. mem' = Append(mem, u)
  BY <1>2
<1> HIDE DEF u
<1>8. ~Pruning /\ ~Pruning' /\ phase # "idle" /\ phase' # "idle"
  BY <1>1, <1>2 DEF Pruning
<1> QED BY <1>1, <1>3, <1>4, <1>6, <1>7, <1>8, GrownTimes

LEMMA RefuseTimes ==
    ASSUME IInv, TInv, Refuse PROVE TInv'
<1> DEFINE u == Message(<<Next1, 0>>, "refusal", {}, 0, turn)
           T == Append(mem, u)
<1>1. phase = "judged" /\ Makes(1) /\ turn' = turn
  BY DEF Refuse
<1>2. PICK o \in Saves(T, FALSE) :
         SaveStep(o) /\ (IF o.ok THEN mem' = T /\ phase' = "top" ELSE mem' = mem /\ phase' = "closing")
  BY DEF Refuse
<1>3. Kinds /\ Settled(mem)
  BY <1>1, Loaded DEF Held
<1>4. Next1 \in Nat /\ turn \in Nat
  BY <1>1, <1>3, MakesIs
<1>5. u \in Messages /\ u.role = "refusal" /\ u.turn = turn
  BY <1>4, MadeIs
<1> HIDE DEF u
<1>6. ~Pruning /\ ~Pruning' /\ phase # "idle" /\ phase' # "idle"
  BY <1>1, <1>2 DEF Pruning
<1> QED BY <1>1, <1>2, <1>3, <1>5, <1>6, GrownTimes

LEMMA IteratedTimes ==
    ASSUME IInv, TInv, Iterated PROVE TInv'
<1>1. phase = "calls" /\ phase' = "top" /\ mem' = mem /\ turn' = turn
  BY DEF Iterated
<1>2. PICK o \in Saves(mem, FALSE) : SaveStep(o)
  BY DEF Iterated
<1>3. /\ Kinds /\ OnDisk(file, mem, persisted, "calls") /\ mem \in Seq(Messages) /\ mem # <<>>
      /\ Opens(mem) /\ Digests(mem) /\ persisted \in Nat \cup {Stale}
  BY <1>1, Loaded
<1>4. SaveFrom(mem, persisted) /\ o \in SavesOf(mem, persisted, edits, FALSE)
  BY <1>2, <1>3, MaySave DEF Saves
<1>5. ~Pruning /\ ~Pruning' /\ phase # "idle" /\ phase' # "idle" /\ phase' # "rewrite"
  BY <1>1 DEF Pruning
<1>6. /\ Steady(mem) /\ Dated(mem, turn) /\ mem[Len(mem)].turn = turn /\ turn >= 1 /\ Present = turn
  BY <1>1, <1>5, TimesNow DEF Now
<1>7. /\ Timed(file') /\ Dated(file', turn') /\ InFile'
      /\ Sound' => \A b \in Marks' : Cut(mem, b, Present) /\ Cut(mem, b, Present)
  BY <1>1, <1>2, <1>3, <1>4, <1>5, <1>6, SavedTimes
<1>8. Clocked(mem', phase', persisted', turn')
  BY <1>1, <1>6 DEF Clocked, Now
<1> QED BY <1>1, <1>5, <1>6, <1>7, <1>8, Settles

LEMMA NarrateTimes ==
    ASSUME IInv, TInv, Narrate PROVE TInv'
<1> DEFINE n == Len(mem)
<1>1. phase \in {"tell", "request", "calls"} /\ phase' = phase /\ turn' = turn /\ InMemory
  BY DEF Narrate
<1>2. Kinds /\ Held(mem, phase) /\ mem \in Seq(Messages) /\ mem # <<>> /\ n >= 2 /\ n \in Nat
  BY <1>1, Loaded DEF Held
<1>3. \/ mem[n].role = "tool" /\ mem' = [mem EXCEPT ![n].noted = TRUE]
      \/ IsUser(mem[n]) /\ Makes(1) /\ mem' = InsertAt(mem, NoteAt + 1, User(Next1, turn))
  <2>1. Last(mem) = mem[n]
    BY DEF Last
  <2> QED BY <2>1 DEF Narrate
<1>4. ~Pruning /\ ~Pruning' /\ phase # "idle" /\ phase' # "idle"
  BY <1>1 DEF Pruning
<1>5. /\ Steady(mem) /\ Dated(mem, turn) /\ Now(mem, phase, persisted, turn)
      /\ turn \in Nat /\ turn >= 1 /\ Present = turn
  BY <1>4, TimesNow
<1>6. turn' \in Nat /\ turn <= turn' /\ turn' >= 1
  BY <1>1, <1>5
<1>7. ASSUME Clocked(mem', phase, persisted, turn), \A b : Cut(mem, b, turn) => Cut(mem', b, turn) PROVE TInv'
  <2>1. Clocked(mem', phase', persisted, turn')
    BY <1>1, <1>7
  <2>2. \A b : Cut(mem, b, Present) => Cut(mem', b, IF phase' = "idle" THEN -1 ELSE turn')
    BY <1>1, <1>4, <1>5, <1>7
  <2> QED BY <1>1, <1>2, <1>4, <1>6, <2>1, <2>2, MemoryTimes
<1>8. CASE mem[n].role = "tool" /\ mem' = [mem EXCEPT ![n].noted = TRUE]
  <2> DEFINE U == [mem EXCEPT ![n].noted = TRUE]
  <2>1. U \in Seq(Messages) /\ Bare(U) = Bare(mem)
    <3>1. phase # "opened"
      BY <1>1
    <3> QED BY <1>2, <1>8, <3>1, NotedHeld
  <2>2. mem' = U
    BY <1>8
  <2> HIDE DEF U
  <2>3. Heads(U, mem) /\ Len(U) = n
    BY <1>2, <2>1, WholePrefix
  <2>4. Steady(U) /\ Dated(U, turn) /\ \A b : Cut(mem, b, turn) => Cut(U, b, turn)
    BY <1>5, <2>3, PrefixKeeps
  <2>5. U[n].role = mem[n].role /\ U[n].turn = mem[n].turn
    <3>1. n \in 1..Len(U)
      BY <1>2, <2>3
    <3> QED BY <2>3, <3>1 DEF Heads, Same
  <2>6. Now(U, phase, persisted, turn)
    <3>1. ~IsUser(U[n])
      BY <1>8, <2>5 DEF IsUser, UserRoles
    <3> QED BY <1>1, <1>5, <2>3, <2>5, <3>1 DEF Now
  <2> QED BY <1>7, <2>2, <2>4, <2>6 DEF Clocked
<1>9. CASE IsUser(mem[n]) /\ Makes(1) /\ mem' = InsertAt(mem, NoteAt + 1, User(Next1, turn))
  <2>1. phase \in {"tell", "request"} /\ Settled(mem) /\ mem[n].role # "tool"
    BY <1>1, <1>2, <1>9 DEF Held, IsUser, UserRoles
  <2>2. Next1 \in Nat
    BY <1>2, <1>9, MakesIs
  <2> DEFINE u == User(Next1, turn)
  <2>3. u \in Messages /\ u.role = "user" /\ u.turn = turn
    BY <1>5, <2>2, MadeIs DEF User, Message
  <2>4. mem' = InsertAt(mem, NoteAt + 1, u) /\ turn <= turn
    BY <1>5, <1>9
  <2> HIDE DEF u
  <2>5. CASE persisted = n
    <3>1. mem' = Append(mem, u)
      <4>1. NoteAt + 1 = n + 1
        BY <2>5 DEF NoteAt
      <4> QED BY <1>2, <2>3, <2>4, <4>1, InsertLast
    <3>2. Clocked(Append(mem, u), phase, persisted, turn)
      BY <1>2, <1>5, <2>3, <2>4, Grows
    <3>3. \A b : Cut(mem, b, turn) => Cut(Append(mem, u), b, turn)
      BY <1>2, <1>5, <2>3, <2>4, Grows
    <3> QED BY <1>7, <3>1, <3>2, <3>3
  <2>6. CASE persisted # n
    <3> DEFINE F == Front(mem)
               A == Append(F, u)
               m == mem[n]
               U == Append(A, m)
    <3>1. mem' = U
      <4>1. NoteAt + 1 = n
        BY <1>2, <2>6 DEF NoteAt
      <4> QED BY <1>2, <2>3, <2>4, <4>1, InsertLast
    <3>2. m.turn = turn
      BY <1>5, <1>9, <2>1, <2>6 DEF Now
    <3>3. F \in Seq(Messages) /\ Steady(F) /\ Dated(F, turn) /\ \A b : Cut(mem, b, turn) => Cut(F, b, turn)
      BY <1>2, <1>5, <2>1, <3>2, FrontTimes
    <3>4. m \in Messages /\ m.role # "tool"
      <4>1. n \in 1..Len(mem)
        BY <1>2
      <4> QED BY <1>2, <2>1, <4>1, MessageTurn
    <3> HIDE DEF F, m
    <3>5. /\ A \in Seq(Messages) /\ Clocked(A, phase, persisted, turn)
          /\ \A b : Cut(F, b, turn) => Cut(A, b, turn)
      <4>1. A \in Seq(Messages)
        BY <2>3, <3>3, AppendLike
      <4>2. Clocked(A, phase, persisted, turn)
        BY <1>5, <2>3, <2>4, <3>3, Grows
      <4>3. \A b : Cut(F, b, turn) => Cut(A, b, turn)
        BY <1>5, <2>3, <2>4, <3>3, Grows
      <4> QED BY <4>1, <4>2, <4>3
    <3> HIDE DEF A
    <3>6. Steady(A) /\ Dated(A, turn)
      BY <3>5 DEF Clocked
    <3>7. Clocked(U, phase, persisted, turn)
      BY <1>5, <2>4, <3>2, <3>4, <3>5, <3>6, Grows
    <3>8. \A b : Cut(A, b, turn) => Cut(U, b, turn)
      BY <1>5, <2>4, <3>2, <3>4, <3>5, <3>6, Grows
    <3> HIDE DEF U
    <3> QED BY <1>7, <3>1, <3>3, <3>5, <3>7, <3>8
  <2> QED BY <2>5, <2>6
<1> QED BY <1>3, <1>8, <1>9

\* The stubs for the calls of the turn are of the turn.
LEMMA StubsTimes ==
    ASSUME IInv, TInv, phase # "idle", Pruning => Settled(mem)
    PROVE  LET T == Completed(mem).msgs
           IN  T \in Seq(Messages) /\ Steady(T) /\ Dated(T, turn) /\ \A b : Cut(mem, b, Present) => Cut(T, b, -1)
<1> DEFINE T == Completed(mem).msgs
           n == Len(mem)
<1>1. /\ mem \in Seq(Messages) /\ mem # <<>> /\ Steady(mem) /\ Dated(mem, turn) /\ Now(mem, phase, persisted, turn)
      /\ turn \in Nat /\ n \in 1..n /\ n \in Nat /\ (~Pruning => turn >= 1 /\ Present = turn)
  BY TimesNow
<1>2. Held(mem, phase)
  BY Loaded
<1>3. Open(mem) /\ (phase \notin {"calls", "cancelled"} => Settled(mem))
  BY <1>1, <1>2, SettledIsOpen DEF Held
<1>4. /\ T \in Seq(Messages) /\ n <= Len(T) /\ (\A i \in 1..n : T[i] = mem[i]) /\ (Settled(mem) => T = mem)
      /\ \A k \in n + 1..Len(T) : \E h \in 1..n, c \in Names : T[k] = Reply(mem[h], c) /\ Follows(mem, h, n)
  BY <1>1, <1>3, CompletedOpen
<1> HIDE DEF T
<1>5. CASE Settled(mem)
  <2>1. T = mem
    BY <1>4, <1>5
  <2>2. ASSUME NEW b, Cut(mem, b, Present) PROVE Cut(mem, b, -1)
    <3>1. mem \in Seq(Messages) /\ turn \in Nat /\ Dated(mem, turn)
      BY <1>1
    <3> QED BY <2>2, <3>1, CutNext
  <2> QED BY <1>1, <2>1, <2>2 DEF T
<1>6. CASE ~Settled(mem)
  <2>1. mem[n].turn = turn /\ Present = turn /\ turn >= 1
    BY <1>1, <1>3, <1>6 DEF Now
  <2>2. ASSUME NEW k \in n + 1..Len(T) PROVE T[k].turn = turn /\ T[k].role = "tool"
    <3>1. PICK h \in 1..n, c \in Names : T[k] = Reply(mem[h], c) /\ Follows(mem, h, n)
      BY <1>4
    <3>2. mem[n].turn = mem[h].turn
      BY <1>1, <3>1, SteadyRun
    <3>3. T[k].turn = mem[h].turn /\ T[k].role = "tool"
      BY <3>1 DEF Reply, Message
    <3> QED BY <2>1, <3>2, <3>3
  <2>3. Len(T) \in Nat
    BY <1>4
  <2>4. Steady(T)
    <3> SUFFICES ASSUME NEW i \in 2..Len(T), T[i].role = "tool" PROVE T[i].turn = T[i - 1].turn
      BY DEF Steady
    <3>1. CASE i \in 2..n
      <4>1. i \in 1..n /\ i - 1 \in 1..n
        BY <1>1, <3>1
      <4> QED BY <1>1, <1>4, <3>1, <4>1 DEF Steady
    <3>2. CASE i \in n + 1..Len(T)
      <4>1. i - 1 = n \/ i - 1 \in n + 1..Len(T)
        BY <1>1, <2>3, <3>2
      <4> QED BY <1>1, <1>4, <2>1, <2>2, <3>2, <4>1
    <3>3. i \in 2..n \/ i \in n + 1..Len(T)
      BY <1>1, <2>3
    <3> QED BY <3>1, <3>2, <3>3
  <2>5. Dated(T, turn)
    <3> SUFFICES ASSUME NEW i \in 1..Len(T)
                 PROVE T[i].turn <= turn /\ (T[i].turn = 0 => T[i].role = "digest" \/ (i = 1 /\ T[i].role = "system"))
      BY DEF Dated
    <3>1. CASE i \in 1..n
      BY <1>1, <1>4, <3>1 DEF Dated
    <3>2. CASE i \in n + 1..Len(T)
      BY <1>1, <2>1, <2>2, <3>2
    <3>3. i \in 1..n \/ i \in n + 1..Len(T)
      BY <1>1, <2>3
    <3> QED BY <3>1, <3>2, <3>3
  <2>6. Extends(mem, T)
    BY <1>1, <1>4 DEF Extends
  <2>7. n = Len(T) \/ (n < Len(T) /\ T[n + 1].turn = turn)
    <3>1. n < Len(T) => n + 1 \in n + 1..Len(T)
      BY <1>1, <2>3
    <3>2. n < Len(T) \/ n = Len(T)
      BY <1>1, <1>4, <2>3
    <3> QED BY <2>2, <3>1, <3>2
  <2>8. ASSUME NEW b, Cut(mem, b, Present) PROVE Cut(T, b, -1)
    <3>1. Cut(mem, b, turn)
      BY <2>1, <2>8
    <3> SUFFICES ASSUME NEW u, u = -1 PROVE Cut(T, b, u)
      OBVIOUS
    <3>2. \/ Len(mem) < Len(T) /\ T[Len(mem) + 1].turn = turn
          \/ Len(mem) = Len(T) /\ u = -1
      BY <2>7
    <3> QED BY <2>6, <3>1, <3>2, CutExtends
  <2> QED BY <1>4, <2>4, <2>5, <2>8 DEF T
<1> QED BY <1>5, <1>6

LEMMA PanicTimes ==
    ASSUME IInv, TInv, Panic PROVE TInv'
<1> DEFINE T == Completed(mem).msgs
<1>1. /\ phase \notin {"idle", "index", "rewrite"} /\ mem' = T /\ phase' = "idle"
      /\ UNCHANGED <<file, ends, points, persisted, edits, turn, slipped, late>>
  BY DEF Panic, disk, index
<1>2. Pruning => Settled(mem)
  BY Underway
<1>3. T \in Seq(Messages) /\ Steady(T) /\ Dated(T, turn) /\ \A b : Cut(mem, b, Present) => Cut(T, b, -1)
  BY <1>1, <1>2, StubsTimes
<1> HIDE DEF T
<1>4. mem # <<>> /\ Timed(file) /\ Dated(file, turn)
  BY <1>1, TimesNow
<1>5. Marks' = Marks /\ (Sound' <=> Sound) /\ ~Pruning' /\ phase # "rewrite"
  BY <1>1 DEF Marks, Sound, Pruning
<1>6. InFile' /\ (Sound' => \A b \in Marks' : Cut(mem', b, -1))
  <2>1. InFile /\ InMem
    BY DEF TInv
  <2>2. InFile'
    BY <1>1, <1>5, <2>1 DEF InFile
  <2>3. Sound' => \A b \in Marks' : Cut(mem', b, -1)
    BY <1>1, <1>3, <1>4, <1>5, <2>1 DEF InMem
  <2> QED BY <2>2, <2>3
<1>7. Clocked(mem', phase', persisted', turn') /\ Timed(file') /\ Dated(file', turn')
  BY <1>1, <1>3, <1>4 DEF Clocked, Now
<1> QED BY <1>1, <1>5, <1>6, <1>7, Settles

\* The transcript a turn ends with.
LEMMA ClosingTimes ==
    ASSUME IInv, TInv, phase \in {"closing", "cancelled"}, NEW T,
           T = IF phase = "cancelled" THEN Completed(mem).msgs ELSE mem
    PROVE  T \in Seq(Messages) /\ Steady(T) /\ Dated(T, turn) /\ \A b : Cut(mem, b, turn) => Cut(T, b, -1)
<1>1. /\ mem \in Seq(Messages) /\ Steady(mem) /\ Dated(mem, turn) /\ turn \in Nat
      /\ ~Pruning /\ Present = turn
  <2>1. phase # "idle" /\ ~Pruning
    BY DEF Pruning
  <2> QED BY <2>1, TimesNow
<1>2. CASE phase = "cancelled"
  <2>1. T = Completed(mem).msgs
    BY <1>2
  <2> DEFINE U == Completed(mem).msgs
  <2>2. U \in Seq(Messages) /\ Steady(U) /\ Dated(U, turn) /\ \A b : Cut(mem, b, Present) => Cut(U, b, -1)
    BY <1>1, <1>2, StubsTimes
  <2> HIDE DEF U
  <2>3. T = U
    BY <2>1 DEF U
  <2> QED BY <1>1, <2>2, <2>3
<1>3. CASE phase # "cancelled"
  <2>1. T = mem
    BY <1>3
  <2>2. ASSUME NEW b, Cut(mem, b, turn) PROVE Cut(mem, b, -1)
    BY <1>1, <2>2, CutNext
  <2> QED BY <1>1, <2>1, <2>2
<1> QED BY <1>2, <1>3

\* A turn ends with the last message there is.
LEMMA EndsThere ==
    ASSUME NEW T \in Seq(Messages), T # <<>>
    PROVE  Cut(T, Len(T), -1)
<1>1. Len(T) \in Nat /\ Len(T) \in 1..Len(T) /\ ~(Len(T) < Len(T))
  BY EmptySeq
<1>2. T[Len(T)].turn \in Nat
  BY <1>1, MessageTurn
<1>3. T[Len(T)].turn # -1
  BY <1>2
<1> QED BY <1>1, <1>3 DEF Cut

LEMMA CloseTimes ==
    ASSUME IInv, TInv, Close PROVE TInv'
<1> DEFINE stubs == IF phase = "cancelled" THEN Completed(mem) ELSE [msgs |-> mem, at |-> <<>>]
           T == stubs.msgs
           rewrite == \E k \in DOMAIN stubs.at : stubs.at[k] < Len(mem)
<1>1. phase \in {"closing", "cancelled"} /\ phase' = "idle" /\ mem' = T /\ turn' = turn /\ slipped' = slipped
  BY DEF Close
<1>2. PICK o \in Saves(T, rewrite), recorded \in BOOLEAN :
         LET lost == IF o.ok /\ ~recorded THEN 1 ELSE 0 IN
         /\ recorded => o.ok
         /\ Wrote([o EXCEPT !.cost = @ + lost])
         /\ ends' = IF recorded THEN o.ends \cup {Len(T)} ELSE o.ends
         /\ points' = o.points
         /\ late' = (late \/ (recorded /\ o.edits # <<>>))
  BY ZenonT(60) DEF Close
<1>3. rewrite \in BOOLEAN
  OBVIOUS
<1>4. /\ Kinds /\ Held(mem, phase) /\ OnDisk(file, mem, persisted, phase)
      /\ mem \in Seq(Messages) /\ mem # <<>> /\ FileIsSound(file) /\ persisted \in Nat \cup {Stale} /\ edits \in Seq(Edits)
      /\ turn \in Nat
  BY <1>1, Loaded
<1>5. T = IF phase = "cancelled" THEN Completed(mem).msgs ELSE mem
  OBVIOUS
<1> HIDE DEF T, rewrite, stubs
<1>6. /\ Held(T, "idle") /\ T # <<>> /\ Extends(mem, T) /\ Opens(T) /\ Digests(T)
      /\ \A i \in Len(mem) + 1..Len(T) : T[i].role = "tool"
  <2>1. CASE phase = "cancelled"
    <3>1. T = Completed(mem).msgs
      BY <1>5, <2>1
    <3> QED BY <1>4, <3>1, CompletedHeld
  <2>2. CASE phase = "closing"
    <3>1. T = mem
      BY <1>5, <2>2
    <3>2. Len(mem) \in Nat /\ Len(mem) + 1..Len(mem) = {}
      BY <1>4
    <3> QED BY <1>4, <2>2, <3>1, <3>2 DEF Held, Extends
  <2> QED BY <1>1, <2>1, <2>2
<1>7. T \in Seq(Messages) /\ Steady(T) /\ Dated(T, turn) /\ \A b : Cut(mem, b, turn) => Cut(T, b, -1)
  BY <1>1, <1>5, ClosingTimes
<1>8. OnDisk(file, T, persisted, "idle")
  BY <1>4, <1>6, GrownOnDisk
<1>9. SaveFrom(T, persisted) /\ o \in SavesOf(T, persisted, edits, rewrite)
  BY <1>4, <1>6, <1>7, <1>8, MaySave DEF Saves
<1> DEFINE lost == IF o.ok /\ ~recorded THEN 1 ELSE 0
           q == [o EXCEPT !.cost = @ + lost]
<1>10. Wrote(q)
  BY <1>2
<1>11. DOMAIN o = Fields
  BY <1>3, <1>9, SavesAre DEF Outcome
<1>12. q.file = o.file /\ q.edits = o.edits /\ q.persisted = o.persisted
  BY <1>11 DEF Fields
<1> HIDE DEF lost, q
<1>13. file' = o.file /\ edits' = o.edits /\ persisted' = o.persisted
  BY <1>10, <1>12 DEF Wrote
<1>14. /\ Timed(file) /\ Dated(file, turn) /\ ~Pruning /\ Present = turn
  <2>1. phase # "idle" /\ ~Pruning
    BY <1>1 DEF Pruning
  <2> QED BY <2>1, TimesNow
<1>15. Leaves(o, T, persisted, edits, turn)
  BY <1>3, <1>4, <1>7, <1>9, <1>14, SaveTimes
<1>16. /\ Timed(o.file) /\ Dated(o.file, turn)
       /\ Followed(o.ends, o.edits) = Followed(ends, edits) /\ Followed(o.points, o.edits) = Followed(points, edits)
       /\ o.edits = <<>> => o.ends = Followed(ends, edits) /\ o.points = Followed(points, edits)
       /\ ~o.ok => o.edits = edits /\ o.persisted = persisted
       /\ o.ok => o.persisted = Len(T) /\ Heads(o.file, T) /\ Len(o.file) = Len(T)
  BY <1>15 DEF Leaves
<1>17. Sound' => Sound /\ (recorded => o.edits = <<>>)
  BY <1>1, <1>2 DEF Sound
<1>18. Sound => \A b \in Followed(ends, edits) \cup Followed(points, edits) : Cut(T, b, -1)
  <2>1. InMem
    BY DEF TInv
  <2>2. Sound => \A b \in Marks : Cut(mem, b, turn)
    BY <1>1, <1>4, <1>14, <2>1 DEF InMem
  <2> QED BY <1>7, <2>2 DEF Marks
<1>19. Cut(T, Len(T), -1)
  BY <1>6, <1>7, EndsThere
<1>20. Sound' => \A b \in Marks' : Cut(T, b, -1)
  <2> SUFFICES ASSUME Sound' PROVE \A b \in Marks' : Cut(T, b, -1)
    OBVIOUS
  <2>1. Marks' = Followed(ends', o.edits) \cup Followed(o.points, o.edits)
    BY <1>2, <1>13 DEF Marks
  <2>2. CASE recorded
    <3>1. o.edits = <<>> /\ ends' = o.ends \cup {Len(T)}
      BY <1>2, <1>17, <2>2
    <3>2. o.ends \in SUBSET Nat /\ o.points \in SUBSET Nat /\ ends' \in SUBSET Nat
      <4>1. Followed(ends, edits) \in SUBSET Nat /\ Followed(points, edits) \in SUBSET Nat /\ Len(T) \in Nat
        BY <1>4, <1>7, FollowedTyped DEF Kinds
      <4> QED BY <1>16, <3>1, <4>1
    <3>3. <<>> \in Seq(Edits)
      OBVIOUS
    <3>4. Followed(ends', <<>>) = ends' /\ Followed(o.points, <<>>) = o.points
      BY <3>2, <3>3, FollowedTyped
    <3>5. Marks' = (Followed(ends, edits) \cup Followed(points, edits)) \cup {Len(T)}
      BY <1>16, <2>1, <3>1, <3>4
    <3> QED BY <1>17, <1>18, <1>19, <3>5
  <2>3. CASE ~recorded
    <3>1. ends' = o.ends
      BY <1>2, <2>3
    <3> QED BY <1>16, <1>17, <1>18, <2>1, <3>1
  <2> QED BY <2>2, <2>3
<1>21. InFile'
  <2> SUFFICES ASSUME Sound', edits' = <<>> \/ persisted' = Stale PROVE \A b \in ends' \cup points' : Split(file', b)
    BY DEF InFile
  <2>1. o.ok => o.edits = <<>>
    <3>1. Len(T) \in Nat
      BY <1>7
    <3>2. o.ok => o.persisted # Stale
      BY <1>16, <3>1 DEF Stale
    <3> QED BY <1>13, <3>2
  <2>2. ~o.ok => edits = <<>> \/ persisted = Stale
    BY <1>13, <1>16
  <2>3. phase # "rewrite"
    BY <1>1
  <2>4. \A b \in o.ends \cup o.points : Split(o.file, b)
    BY <1>3, <1>4, <1>7, <1>9, <1>14, <1>17, <1>18, <2>1, <2>2, <2>3, SaveDivides
  <2>5. recorded => Split(o.file, Len(T))
    <3>1. Split(T, Len(T))
      BY <1>7, <1>19, CutSplit
    <3>2. recorded => Heads(o.file, T) /\ Len(o.file) = Len(T) /\ Len(T) \in Nat
      BY <1>2, <1>7, <1>16
    <3>3. recorded => Len(T) <= Len(o.file)
      BY <3>2
    <3> QED BY <3>1, <3>2, <3>3, PrefixKeeps
  <2> QED BY <1>2, <1>13, <2>4, <2>5
<1>22. ~Pruning' /\ Clocked(mem', phase', persisted', turn')
  BY <1>1, <1>7 DEF Pruning, Clocked, Now
<1>23. Timed(file') /\ Dated(file', turn')
  BY <1>1, <1>13, <1>16
<1>24. Sound' => \A b \in Marks' : Cut(mem', b, IF phase' = "idle" THEN -1 ELSE turn')
  BY <1>1, <1>20
<1> QED BY <1>1, <1>21, <1>22, <1>23, <1>24, Settles

\* What a prune proposes keeps the clock, and moves what divides memory.
LEMMA ProposedTimes ==
    ASSUME NEW T, NEW ph, Held(T, ph), Settled(T), NEW D \in Messages, D.role = "digest", D.turn = 0, D.cut = FALSE,
           NEW p \in Prunes(T, D),
           Steady(T), NEW t \in Nat, Dated(T, t), NEW u, u # 0
    PROVE  /\ Steady(p.msgs) /\ Dated(p.msgs, t)
           /\ \A b : Cut(T, b, u) => \A q \in Shifted({b}, Len(T), Len(p.msgs), p.head) : Cut(p.msgs, q, u)
<1>1. T \in Seq(Messages) /\ Opens(T) /\ Digests(T)
  BY DEF Held
<1>2. \E stop, x, E : PruneOf(T, p.msgs, p.gone, p.head, E, stop, x)
  BY <1>1, PrunedIs
<1>3. PICK stop, x, E : PruneOf(T, p.msgs, p.gone, p.head, E, stop, x)
  BY <1>2
<1>4. Steady(p.msgs) /\ Dated(p.msgs, t)
  BY <1>3, PruneTurns
<1>5. ASSUME NEW b, Cut(T, b, u), NEW q \in Shifted({b}, Len(T), Len(p.msgs), p.head) PROVE Cut(p.msgs, q, u)
  BY <1>3, <1>5, PruneCuts
<1> QED BY <1>4, <1>5

\* A prune on its way to disk.
LEMMA GoTimes ==
    ASSUME IInv, TInv, phase \in {"tell", "idle"}, mem # <<>>, mem' = mem, turn' = turn, phase' = "archive",
           cand'.back = (IF phase = "idle" THEN "idle" ELSE "request"),
           Timed(file'), Dated(file', turn), Steady(cand'.msgs), Dated(cand'.msgs, turn),
           \A b : Cut(mem, b, Present) =>
               \A q \in Shifted({b}, Len(mem), Len(cand'.msgs), cand'.head) : Cut(cand'.msgs, q, Present),
           Marks' = Marks, Sound' <=> Sound, InFile'
    PROVE  TInv'
<1>1. /\ Steady(mem) /\ Dated(mem, turn) /\ turn \in Nat /\ Pruning'
      /\ Present = (IF phase = "idle" THEN -1 ELSE turn) /\ (phase # "idle" => turn >= 1)
  <2>1. ~Pruning /\ Pruning'
    BY DEF Pruning
  <2> QED BY <2>1, TimesNow
<1>2. InTurn' <=> phase # "idle"
  BY <1>1 DEF InTurn
<1>3. Present' = Present
  BY <1>1, <1>2 DEF Present
<1>4. Clock'
  BY <1>1, <1>2 DEF Clock, Now
<1>5. InMem'
  <2>1. InMem
    BY DEF TInv
  <2>2. InMem' <=> (Sound' => \A b \in Marks' : Cut(mem, b, Present))
    BY <1>3 DEF InMem
  <2>3. Sound => \A b \in Marks : Cut(mem, b, Present)
    BY <2>1 DEF InMem
  <2> QED BY <2>2, <2>3
<1>6. InPrune'
  BY <1>3 DEF InPrune
<1> QED BY <1>4, <1>5, <1>6 DEF TInv

LEMMA PruneTimes ==
    ASSUME IInv, TInv, Prune PROVE TInv'
<1> DEFINE back == IF phase = "idle" THEN "idle" ELSE "request"
           D == Message(<<Next1, 0>>, "digest", {}, 0, 0)
           new(p) == [msgs |-> p.msgs, gone |-> p.gone, head |-> p.head, back |-> back, ends |-> {}, points |-> {}]
           Go(p) == phase' = "archive" /\ cand' = new(p)
           Stay == phase' = (IF back = "idle" THEN "idle" ELSE "closing") /\ cand' = NoPrune
<1>1. phase \in {"tell", "idle"} /\ mem # <<>> /\ Makes(1) /\ mem' = mem /\ turn' = turn
  BY DEF Prune
<1>2. PICK p \in Prunes(mem, D) :
            IF edits = <<>>
            THEN Go(p) /\ UNCHANGED <<disk, index, persisted, edits, archive, bounds, slipped, late>>
            ELSE \E o \in Saves(mem, TRUE) :
                   /\ SaveStep(o)
                   /\ IF o.ok /\ o.edits = <<>> THEN Go(p) ELSE Stay
  BY DEF Prune
<1>3. /\ Kinds /\ Held(mem, phase) /\ OnDisk(file, mem, persisted, phase)
      /\ mem \in Seq(Messages) /\ persisted \in Nat \cup {Stale} /\ edits \in Seq(Edits)
      /\ made \in Nat /\ turn \in Nat /\ Settled(mem) /\ Opens(mem) /\ Digests(mem)
  BY <1>1, Loaded, BoundsAre DEF Held
<1>4. Next1 \in Nat
  BY <1>1, <1>3, MakesIs
<1>5. D \in Messages /\ D.role = "digest" /\ D.turn = 0 /\ D.cut = FALSE
  BY <1>4, MadeIs DEF Message
<1> HIDE DEF D
<1>6. /\ Steady(mem) /\ Dated(mem, turn) /\ Timed(file) /\ Dated(file, turn) /\ ~Pruning
      /\ Present = (IF phase = "idle" THEN -1 ELSE turn) /\ (phase # "idle" => turn >= 1) /\ Present # 0
  <2>1. ~Pruning
    BY <1>1 DEF Pruning
  <2>2. Clock
    BY DEF TInv
  <2>3. Present # 0
    BY <2>2, PresentIs
  <2> QED BY <1>1, <2>1, <2>3, TimesNow
<1>7. /\ Steady(p.msgs) /\ Dated(p.msgs, turn)
      /\ \A b : Cut(mem, b, Present) => \A q \in Shifted({b}, Len(mem), Len(p.msgs), p.head) : Cut(p.msgs, q, Present)
  BY <1>3, <1>5, <1>6, ProposedTimes
<1>8. ASSUME Go(p), Timed(file'), Dated(file', turn), Marks' = Marks, Sound' <=> Sound, InFile' PROVE TInv'
  <2>1. phase' = "archive" /\ cand'.back = back /\ cand'.msgs = p.msgs /\ cand'.head = p.head
    BY <1>8
  <2> HIDE DEF Go
  <2> QED BY <1>1, <1>7, <1>8, <2>1, GoTimes
<1>9. ASSUME Stay, Timed(file'), Dated(file', turn), Marks' = Marks, Sound' <=> Sound, InFile' PROVE TInv'
  <2>1. phase' = (IF phase = "idle" THEN "idle" ELSE "closing")
    BY <1>9
  <2>2. ~Pruning' /\ phase # "rewrite" /\ (phase' = "idle" <=> phase = "idle") /\ phase' \in {"idle", "closing"}
    BY <1>1, <2>1 DEF Pruning
  <2>3. Clocked(mem', phase', persisted', turn')
    BY <1>1, <1>6, <2>2 DEF Clocked, Now
  <2>4. InMem
    BY DEF TInv
  <2>5. Sound' => \A b \in Marks' : Cut(mem', b, Present)
    BY <1>1, <1>9, <2>2, <2>4 DEF InMem
  <2>6. Present = (IF phase' = "idle" THEN -1 ELSE turn')
    BY <1>1, <1>6, <2>2
  <2>7. Sound' => \A b \in Marks' : Cut(mem', b, IF phase' = "idle" THEN -1 ELSE turn')
    BY <2>5, <2>6
  <2> QED BY <1>1, <1>6, <1>9, <2>2, <2>3, <2>7, Settles
<1>10. CASE edits = <<>>
  <2>1. Go(p) /\ UNCHANGED <<file, ends, points, persisted, edits, slipped, late>>
    BY <1>2, <1>10 DEF disk, index
  <2> HIDE DEF Go
  <2>2. Marks' = Marks /\ (Sound' <=> Sound)
    BY <2>1 DEF Marks, Sound
  <2>3. InFile'
    <3>1. InFile /\ phase # "rewrite"
      BY <1>1 DEF TInv
    <3> QED BY <2>1, <2>2, <3>1 DEF InFile
  <2> QED BY <1>6, <1>8, <2>1, <2>2, <2>3
<1>11. CASE edits # <<>>
  <2>1. PICK o \in Saves(mem, TRUE) : SaveStep(o) /\ IF o.ok /\ o.edits = <<>> THEN Go(p) ELSE Stay
    BY <1>2, <1>11
  <2>2. phase' # "rewrite"
    BY <2>1
  <2> HIDE DEF Go, Stay
  <2>3. SaveFrom(mem, persisted) /\ o \in SavesOf(mem, persisted, edits, TRUE)
    BY <1>3, MaySave DEF Saves
  <2>4. Timed(file') /\ Dated(file', turn') /\ Marks' = Marks /\ (Sound' <=> Sound) /\ InFile'
    BY <1>1, <1>3, <1>6, <2>1, <2>2, <2>3, SavedTimes
  <2>5. Timed(file') /\ Dated(file', turn)
    BY <1>1, <2>4
  <2> QED BY <1>8, <1>9, <2>1, <2>4, <2>5
<1> QED BY <1>10, <1>11

\* A prune that is given up, with the boundaries as they were.
LEMMA AbandonTimes ==
    ASSUME IInv, TInv, Pruning, Abandon, UNCHANGED <<file, mem, persisted, edits, turn>>,
           ends' \in SUBSET Nat, points' \in SUBSET Nat,
           Sound' => \A b \in ends' \cup points' : Split(file, b) /\ Cut(mem, b, Present)
    PROVE  TInv'
<1>1. mem # <<>> /\ edits = <<>> /\ cand \in Cands
  BY Underway
<1>2. phase' = (IF cand.back = "idle" THEN "idle" ELSE "closing") /\ phase' \in {"idle", "closing"}
  BY DEF Abandon
<1>3. Steady(mem) /\ Dated(mem, turn) /\ Timed(file) /\ Dated(file, turn)
  BY <1>1, TimesNow
<1>4. /\ Present = (IF cand.back = "idle" THEN -1 ELSE turn)
      /\ cand.back # "idle" => turn >= 1
  <2>1. Clock
    BY DEF TInv
  <2> QED BY <2>1, PresentIs
<1>5. Present = IF phase' = "idle" THEN -1 ELSE turn'
  BY <1>2, <1>4
<1>6. phase' # "idle" => turn' >= 1
  BY <1>2, <1>4
<1>7. Marks' = ends' \cup points'
  <2>1. edits' = <<>>
    BY <1>1
  <2>2. <<>> \in Seq(Edits)
    OBVIOUS
  <2>3. Followed(ends', <<>>) = ends' /\ Followed(points', <<>>) = points'
    BY <2>2, FollowedTyped
  <2> QED BY <2>1, <2>3 DEF Marks
<1>8. ~Pruning' /\ Clocked(mem', phase', persisted', turn')
  BY <1>2, <1>3 DEF Pruning, Clocked, Now
<1>9. Sound' => \A b \in Marks' : Cut(mem', b, IF phase' = "idle" THEN -1 ELSE turn')
  BY <1>5, <1>7
<1>10. InFile'
  BY <1>7 DEF InFile
<1> QED BY <1>3, <1>6, <1>8, <1>9, <1>10, Settles

\* What divides memory while a prune is on its way there.
LEMMA DividesNow ==
    ASSUME IInv, TInv, Pruning, phase # "rewrite", Sound
    PROVE  \A b \in ends \cup points : Split(file, b) /\ Cut(mem, b, Present)
<1>1. Kinds /\ mem # <<>> /\ edits = <<>>
  BY Underway
<1>2. Marks = ends \cup points
  BY <1>1, NothingFollowed
<1>3. InMem /\ InFile
  BY DEF TInv
<1> QED BY <1>1, <1>2, <1>3 DEF InMem, InFile

LEMMA ArchiveTimes ==
    ASSUME IInv, TInv, Archive PROVE TInv'
<1>1. phase = "archive" /\ UNCHANGED <<file, ends, points, mem, persisted, edits, turn, slipped, late>>
  BY DEF Archive, disk, index, data
<1>2. (phase' = "index" /\ cand' = cand) \/ Abandon
  BY DEF Archive
<1>3. Pruning /\ phase # "rewrite" /\ (Sound' <=> Sound) /\ Marks' = Marks
  BY <1>1 DEF Pruning, Sound, Marks
<1>4. CASE phase' = "index" /\ cand' = cand
  <2>1. Pruning' /\ (InTurn' <=> InTurn)
    BY <1>1, <1>3, <1>4 DEF Pruning, InTurn
  <2>2. Present' = Present
    BY <1>1, <2>1 DEF Present
  <2>3. Clock /\ InMem /\ InFile /\ InPrune
    BY DEF TInv
  <2>4. Clock'
    BY <1>1, <1>3, <1>4, <2>1, <2>3 DEF Clock, Now
  <2>5. InMem'
    BY <1>1, <1>3, <1>4, <2>2, <2>3 DEF InMem
  <2>6. InFile'
    BY <1>1, <1>3, <1>4, <2>3 DEF InFile
  <2>7. InPrune'
    BY <1>1, <1>4, <2>2, <2>3 DEF InPrune
  <2> QED BY <2>4, <2>5, <2>6, <2>7 DEF TInv
<1>5. CASE Abandon
  <2>1. Kinds
    BY DEF IInv
  <2>2. ends' \in SUBSET Nat /\ points' \in SUBSET Nat
    BY <1>1, <2>1 DEF Kinds
  <2>3. Sound' => \A b \in ends' \cup points' : Split(file, b) /\ Cut(mem, b, Present)
    BY <1>1, <1>3, DividesNow
  <2> QED BY <1>1, <1>3, <1>5, <2>2, <2>3, AbandonTimes
<1> QED BY <1>2, <1>4, <1>5

\* Boundaries are moved one by one.
LEMMA ShiftedOne ==
    ASSUME NEW P, NEW n, NEW l, NEW h, NEW q \in Shifted(P, n, l, h)
    PROVE  \E b \in P : q \in Shifted({b}, n, l, h)
BY DEF Shifted

LEMMA ReindexTimes ==
    ASSUME IInv, TInv, Reindex PROVE TInv'
<1>1. phase = "index" /\ UNCHANGED <<file, mem, persisted, edits, turn, slipped, late>>
  BY DEF Reindex, disk, data
<1>2. \/ /\ ends' = Shifted(ends, Len(mem), Len(cand.msgs), cand.head)
         /\ points' = Shifted(points, Len(mem), Len(cand.msgs), cand.head)
         /\ cand' = [cand EXCEPT !.ends = ends, !.points = points]
         /\ phase' = "rewrite"
      \/ Abandon /\ ends' = ends /\ points' = points
  BY DEF Reindex, index
<1>3. Pruning /\ phase # "rewrite" /\ (Sound' <=> Sound)
  BY <1>1 DEF Pruning, Sound
<1>4. Kinds /\ mem # <<>> /\ edits = <<>> /\ cand \in Cands
  BY <1>3, Underway
<1>5. Sound => \A b \in ends \cup points : Split(file, b) /\ Cut(mem, b, Present)
  BY <1>3, DividesNow
<1>6. CASE /\ ends' = Shifted(ends, Len(mem), Len(cand.msgs), cand.head)
           /\ points' = Shifted(points, Len(mem), Len(cand.msgs), cand.head)
           /\ cand' = [cand EXCEPT !.ends = ends, !.points = points]
           /\ phase' = "rewrite"
  <2>1. cand'.msgs = cand.msgs /\ cand'.back = cand.back /\ cand'.ends = ends /\ cand'.points = points
    BY <1>4, <1>6 DEF Cands
  <2>2. Pruning' /\ (InTurn' <=> InTurn)
    BY <1>1, <1>3, <1>6, <2>1 DEF Pruning, InTurn
  <2>3. Present' = Present
    BY <1>1, <2>2 DEF Present
  <2>4. Clock /\ InPrune
    BY DEF TInv
  <2>5. Clock'
    BY <1>1, <1>3, <1>6, <2>1, <2>2, <2>4 DEF Clock, Now
  <2>6. InMem' /\ InFile'
    BY <1>6 DEF InMem, InFile
  <2>7. ASSUME Sound, NEW q \in ends' \cup points' PROVE Cut(cand.msgs, q, Present)
    <3>1. PICK b \in ends \cup points : q \in Shifted({b}, Len(mem), Len(cand.msgs), cand.head)
      BY <1>6, ShiftedOne
    <3>2. Cut(mem, b, Present)
      BY <1>5, <2>7
    <3> QED BY <1>1, <2>4, <3>1, <3>2 DEF InPrune
  <2>8. InPrune'
    BY <1>1, <1>3, <1>5, <1>6, <2>1, <2>3, <2>7 DEF InPrune
  <2> QED BY <2>5, <2>6, <2>8 DEF TInv
<1>7. CASE Abandon /\ ends' = ends /\ points' = points
  <2>1. ends' \in SUBSET Nat /\ points' \in SUBSET Nat
    BY <1>4, <1>7 DEF Kinds
  <2>2. Sound' => \A b \in ends' \cup points' : Split(file, b) /\ Cut(mem, b, Present)
    BY <1>3, <1>5, <1>7
  <2> QED BY <1>1, <1>3, <1>7, <2>1, <2>2, AbandonTimes
<1> QED BY <1>2, <1>6, <1>7

LEMMA RewriteTimes ==
    ASSUME IInv, TInv, Rewrite PROVE TInv'
<1>1. phase = "rewrite" /\ UNCHANGED <<edits, turn, late>>
  BY DEF Rewrite
<1>2. \/ /\ file' = cand.msgs /\ mem' = cand.msgs /\ persisted' = Len(cand.msgs)
         /\ phase' = cand.back /\ ends' = ends /\ points' = points /\ slipped' = slipped
      \/ /\ ends' = cand.ends /\ points' = cand.points
         /\ Abandon /\ UNCHANGED <<file, mem, persisted, slipped>>
      \/ /\ slipped' = TRUE
         /\ Abandon /\ UNCHANGED <<file, ends, points, mem, persisted>>
  BY DEF Rewrite, disk, index
<1>3. Pruning
  BY <1>1 DEF Pruning
<1>4. Kinds /\ mem # <<>> /\ edits = <<>> /\ cand \in Cands /\ cand.msgs \in Seq(Messages) /\ cand.back \in {"idle", "request"}
  BY <1>3, Underway DEF Cands
<1>5. Clock /\ InPrune
  BY DEF TInv
<1>6. /\ Present = (IF cand.back = "idle" THEN -1 ELSE turn) /\ turn \in Nat
      /\ cand.back # "idle" => turn >= 1
  BY <1>3, <1>5, PresentIs
<1>7. CASE /\ file' = cand.msgs /\ mem' = cand.msgs /\ persisted' = Len(cand.msgs)
           /\ phase' = cand.back /\ ends' = ends /\ points' = points /\ slipped' = slipped
  <2>1. Steady(cand.msgs) /\ Dated(cand.msgs, turn)
    BY <1>3, <1>5 DEF Clock
  <2>2. Timed(cand.msgs)
    BY <1>4, <2>1, SteadyTimed
  <2>3. ~Pruning' /\ Clocked(mem', phase', persisted', turn')
    BY <1>1, <1>4, <1>7, <2>1 DEF Pruning, Clocked, Now
  <2>4. Marks' = ends \cup points /\ (Sound' <=> Sound)
    <3>1. Marks = ends \cup points
      BY <1>4, NothingFollowed
    <3> QED BY <1>1, <1>7, <3>1 DEF Marks, Sound
  <2>5. Sound => \A b \in ends \cup points : Cut(cand.msgs, b, Present)
    BY <1>1, <1>5 DEF InPrune
  <2>6. Sound' => \A b \in Marks' : Cut(mem', b, IF phase' = "idle" THEN -1 ELSE turn')
    BY <1>1, <1>6, <1>7, <2>4, <2>5
  <2>7. Sound => \A b \in ends \cup points : Split(cand.msgs, b)
    BY <1>4, <2>1, <2>5, CutSplit
  <2>8. InFile'
    BY <1>7, <2>4, <2>7 DEF InFile
  <2>9. Timed(file') /\ Dated(file', turn') /\ (phase' # "idle" => turn' >= 1)
    BY <1>1, <1>6, <1>7, <2>1, <2>2
  <2> QED BY <2>3, <2>6, <2>8, <2>9, Settles
<1>8. CASE /\ ends' = cand.ends /\ points' = cand.points
           /\ Abandon /\ UNCHANGED <<file, mem, persisted, slipped>>
  <2>1. ends' \in SUBSET Nat /\ points' \in SUBSET Nat
    BY <1>4, <1>8 DEF Cands
  <2>2. Sound' => Sound
    BY <1>1, <1>8 DEF Sound
  <2>3. Sound' => \A b \in ends' \cup points' : Split(file, b) /\ Cut(mem, b, Present)
    BY <1>1, <1>5, <1>8, <2>2 DEF InPrune
  <2> QED BY <1>1, <1>3, <1>8, <2>1, <2>3, AbandonTimes
<1>9. CASE /\ slipped' = TRUE
           /\ Abandon /\ UNCHANGED <<file, ends, points, mem, persisted>>
  <2>1. ends' \in SUBSET Nat /\ points' \in SUBSET Nat
    BY <1>4, <1>9 DEF Kinds
  <2>2. ~Sound'
    BY <1>9 DEF Sound
  <2> QED BY <1>1, <1>3, <1>9, <2>1, <2>2, AbandonTimes
<1> QED BY <1>2, <1>7, <1>8, <1>9

LEMMA DieTimes ==
    ASSUME IInv, TInv, Die PROVE TInv'
<1>1. mem # <<>> /\ mem' = <<>> /\ edits' = <<>> /\ phase' = "idle" /\ UNCHANGED <<ends, points, turn, late>>
  BY DEF Die, index
<1>2. PICK k \in synced..Len(file) :
         /\ file' = SubSeq(file, 1, k)
         /\ slipped' = \/ slipped \/ phase = "rewrite"
                       \/ edits # <<>> /\ persisted # Stale
                       \/ \E b \in ends \cup points : b > k
  BY DEF Die
<1>3. /\ Kinds /\ synced \in 0..Len(file) /\ file \in Seq(Messages) /\ Len(file) \in Nat
      /\ ends \in SUBSET Nat /\ points \in SUBSET Nat
  BY <1>1 DEF IInv, Kinds, FileIsSound
<1>4. Timed(file) /\ Dated(file, turn) /\ turn \in Nat
  BY <1>1, TimesNow
<1> DEFINE P == SubSeq(file, 1, k)
<1>5. k \in 0..Len(file) /\ 1 \in 1..Len(file) + 1 /\ k \in 1 - 1..Len(file) /\ k - 1 + 1 = k
  BY <1>2, <1>3
<1>6. P \in Seq(Messages) /\ Len(P) = k - 1 + 1 /\ \A i \in 1..k - 1 + 1 : P[i] = file[1 + i - 1]
  BY <1>3, <1>5, Part
<1>7. file' = P
  BY <1>2
<1> HIDE DEF P
<1>8. Len(P) = k /\ k <= Len(file) /\ \A i \in 1..k : P[i] = file[i]
  <2>1. \A i \in 1..k : 1 + i - 1 = i
    BY <1>5
  <2> QED BY <1>3, <1>5, <1>6, <2>1
<1>9. Heads(P, file)
  <2>1. \A i \in 1..Len(P) : Same(P[i], file[i])
    BY <1>8 DEF Same
  <2> QED BY <1>3, <1>6, <1>8, <2>1 DEF Heads
<1>10. Timed(P) /\ Dated(P, turn)
  BY <1>4, <1>9, PrefixKeeps
<1>11. Sound' => /\ Sound /\ phase # "rewrite" /\ (edits = <<>> \/ persisted = Stale)
                 /\ \A b \in ends \cup points : ~(b > k)
  BY <1>1, <1>2 DEF Sound
<1>12. Sound' => \A b \in ends \cup points : Split(P, b)
  <2> SUFFICES ASSUME Sound', NEW b \in ends \cup points PROVE Split(P, b)
    OBVIOUS
  <2>1. InFile
    BY DEF TInv
  <2>2. Split(file, b)
    BY <1>11, <2>1 DEF InFile
  <2>3. b <= Len(P)
    <3>1. b \in Nat /\ k \in Nat /\ ~(b > k)
      BY <1>3, <1>5, <1>11
    <3> QED BY <1>8, <3>1
  <2> QED BY <1>9, <2>2, <2>3, PrefixKeeps
<1>13. InFile'
  BY <1>1, <1>7, <1>12 DEF InFile
<1>14. ~Pruning'
  BY <1>1 DEF Pruning
<1> QED BY <1>1, <1>7, <1>10, <1>13, <1>14, Settles

LEMMA NextTimes ==
    ASSUME IInv, TInv, Next PROVE TInv'
<1>1. CASE Replay \/ HydrateNew \/ Hydrate \/ Reload
  BY <1>1, ReplayTimes, HydrateNewTimes, HydrateTimes, ReloadTimes
<1>2. CASE Prompt \/ Unresolved \/ Steer \/ Narrate \/ Answer \/ Tool \/ Iterated \/ Refuse \/ Close
  BY <1>2, PromptTimes, UnresolvedTimes, SteerTimes, NarrateTimes, AnswerTimes, ToolTimes, IteratedTimes, RefuseTimes, CloseTimes
<1>3. CASE NoSteer \/ Request \/ NoReply \/ Cancel \/ Judge
  BY <1>3, MovingTimes
<1>4. CASE Prune \/ Archive \/ Reindex \/ Rewrite \/ Panic \/ Die
  BY <1>4, PruneTimes, ArchiveTimes, ReindexTimes, RewriteTimes, PanicTimes, DieTimes
<1> QED BY <1>1, <1>2, <1>3, <1>4 DEF Next

LEMMA StutterTimes ==
    ASSUME TInv, UNCHANGED vars PROVE TInv'
<1>1. UNCHANGED <<file, ends, points, mem, persisted, edits, phase, cand, turn, slipped, late>>
  BY DEF vars, disk, index, data, bounds
<1>2. /\ Marks' = Marks /\ (Sound' <=> Sound) /\ (Pruning' <=> Pruning) /\ (InTurn' <=> InTurn)
      /\ Present' = Present
  BY <1>1 DEF Marks, Sound, Pruning, InTurn, Present
<1>3. Clock /\ InMem /\ InFile /\ InPrune
  BY DEF TInv
<1>4. Clock'
  BY <1>1, <1>2, <1>3 DEF Clock, Now
<1>5. InMem' /\ InFile'
  BY <1>1, <1>2, <1>3 DEF InMem, InFile
<1>6. InPrune'
  BY <1>1, <1>2, <1>3 DEF InPrune
<1> QED BY <1>4, <1>5, <1>6 DEF TInv

\* Once every edit has landed, what divides memory does so between turns.
LEMMA TimesMean ==
    ASSUME IInv, TInv PROVE BoundariesBetweenTurns
<1> SUFFICES ASSUME ~slipped, ~late, mem # <<>>, edits = <<>>, phase # "rewrite", NEW b \in ends \cup points
             PROVE  BetweenTurns(mem, b)
  BY DEF BoundariesBetweenTurns
<1>1. Marks = ends \cup points
  BY NothingFollowed DEF IInv
<1>2. Cut(mem, b, Present)
  BY <1>1 DEF TInv, InMem, Sound
<1>3. Len(mem) \in Nat
  BY TimesNow
<1>4. b \in Nat /\ b <= Len(mem) /\ (b > 0 /\ b < Len(mem) => mem[b].turn # mem[b + 1].turn)
  BY <1>2, <1>3 DEF Cut
<1>5. b = 0 \/ b = Len(mem) \/ (b > 0 /\ b < Len(mem))
  BY <1>3, <1>4
<1> QED BY <1>4, <1>5 DEF BetweenTurns

\* The inductive invariant holds of every conversation (run_loop,
\* build_session_data, commit_compaction).
THEOREM ConversationInvariant ==
    Spec => []IInv
<1>1. Init => IInv
  BY InitHolds
<1>2. IInv /\ [Next]_vars => IInv'
  BY NextHolds, StutterHolds
<1> QED BY <1>1, <1>2, PTL DEF Spec

\* Every request carries the answer to each call, right after it
\* (complete_pending_tool_replies).
THEOREM RequestsAreAnswered ==
    Spec => []RequestsAnswered
<1>1. IInv => RequestsAnswered
  BY InvariantMeans
<1> QED BY <1>1, ConversationInvariant, PTL

\* What a resume would replay is what was said, divided between turns: the
\* file is a prefix of memory, it holds a refusal before that is sent, and the
\* turns' ends and the sittings' starts stay where they were (save_messages,
\* run_loop's turn_end branch, shifted_resume_points).
THEOREM FilesResume ==
    Spec => []ResumesFaithfully
<1>1. Init => IInv /\ TInv
  BY InitHolds, InitTimes
<1>2. IInv /\ TInv /\ [Next]_vars => IInv' /\ TInv'
  BY NextHolds, StutterHolds, NextTimes, StutterTimes
<1>3. IInv /\ TInv => ResumesFaithfully
  BY InvariantMeans, TimesMean DEF ResumesFaithfully
<1> QED BY <1>1, <1>2, <1>3, PTL DEF Spec

\* What is on disk for good stays, or is in the archive whole
\* (commit_compaction's order).
THEOREM NothingIsLost ==
    Spec => NothingLost
<1>1. IInv /\ [Next]_vars => [Durable \subseteq Durable']_vars
  BY NextHolds, StutterHolds
<1> QED BY <1>1, ConversationInvariant, PTL DEF Spec, NothingLost

===============================================================================
