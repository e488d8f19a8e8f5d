--------------------------- MODULE ProcessGroupsProofs ---------------------------
(***************************************************************************)
(* What holds of process groups for any numbers, commands and start times: *)
(* no stranger's group is signalled, and an exit leaves nothing running.   *)
(***************************************************************************)
EXTENDS ProcessGroups, SequenceTheorems, TLAPS

GroupRecs == [by : Calls \cup {"stranger", None}, leader : {"runs", "zombie", "gone"}, start : 0..MaxStart,
              members : BOOLEAN]

\* A number names no group, or one with a process left in it.
GroupOK(g) == /\ g \in GroupRecs
              /\ g # NoGroup => g.by \in Calls \cup {"stranger"} /\ (g.leader # "gone" \/ g.members)

\* No two groups of a boot started at the same time.
KernelInv ==
    /\ group \in [Pids -> GroupRecs] /\ clock \in 0..MaxStart /\ boot \in {0, 1}
    /\ \A p \in Pids : GroupOK(group[p]) /\ (group[p] # NoGroup => group[p].start < clock)
    /\ \A p, q \in Pids : group[p] # NoGroup /\ group[q] # NoGroup /\ group[p].start = group[q].start => p = q
    /\ unseen \subseteq Pollers \X Pids

\* A command past its fork has its own group until its leader is waited for;
\* what remains of it then is its own, or fell free and is not yet looked at.
Leading == {"forked", "running", "terming", "killing"}
CallRecs == [at : {"idle", "forking", "remaining", "draining", "done"} \cup Leading, pid : Pids \cup {None}]
CallOK(c, k, grp, uns, own) ==
    /\ k \in CallRecs
    /\ k.pid = None <=> k.at \in {"idle", "forking", "done"}
    /\ k.at \in Leading => grp[k.pid].by = c /\ grp[k.pid].leader # "gone"
    /\ k.at = "remaining" => grp[k.pid].by = c \/ (grp[k.pid] = NoGroup /\ <<c, k.pid>> \in uns)
    /\ own # "up" => k.at = "done"
CallInv ==
    /\ call \in [Calls -> CallRecs]
    /\ \A c \in Calls : CallOK(c, call[c], group, unseen, owner)
Holding == Leading \cup {"remaining"}
ApartInv == \A c, d \in Calls : call[c].at \in Holding /\ call[d].at \in Holding /\ call[c].pid = call[d].pid => c = d

\* The entries of records that name no stranger's group.
SoundIn(grp, clk) ==
    {l \in Pids \X (0..MaxStart) : l[2] < clk /\ \A p \in Pids : grp[p].by = "stranger" => grp[p].start # l[2]}
Changes(sound) == [k : {"add"}, of : sound] \cup [k : {"strike"}, of : Pids \X {0}] \cup [k : {"clear", "close"}]
RecordOK(f, grp, clk, bt) ==
    f # None => /\ f.list \subseteq Pids \X (0..MaxStart) /\ f.boot \in 0..bt
                /\ f.boot = bt => f.list \subseteq SoundIn(grp, clk)
RecordInv ==
    /\ queue \in Seq(Changes(SoundIn(group, clock))) /\ listed \subseteq SoundIn(group, clock)
    /\ RecordOK(file, group, clock, boot)

\* What a reader set out to stop is a command's, or fell free and is not yet looked at.
ReapRecs == [at : {"none", "waits", "stops", "done"}, list : SUBSET (Pids \X (0..MaxStart)), inside : Pids \cup {None},
             keeps : BOOLEAN]
ReapOK(r, k, grp, uns) ==
    k.at = "stops" => \A l \in k.list : grp[l[1]].by \in Calls \/ (grp[l[1]] = NoGroup /\ <<r, l[1]>> \in uns)
ReapInv ==
    /\ reap \in [Reapers -> ReapRecs]
    /\ \A r \in Reapers : ReapOK(r, reap[r], group, unseen)

\* The list of live groups is that of the calls that have one to stop.
Listed == {"running", "terming", "killing", "remaining"}
ListInv ==
    /\ live = {call[c].pid : c \in {d \in Calls : call[d].at \in Listed}}
    /\ owner \in {"up", "zombie", "gone", "taken"} /\ exit \in {"no", "waiting", "killed", "closing"}

\* What runs of a harness's commands runs under its call, and an exit that has
\* killed them lets no new one begin.
Active(g) == g.leader = "runs" \/ g.members
RunInv == owner = "up" => \A p \in Pids : group[p].by \in Calls /\ Active(group[p]) =>
              call[group[p].by].pid = p /\ call[group[p].by].at \in Leading \cup {"remaining"}
ExitInv ==
    /\ exit \in {"waiting", "killed"} => exiting
    /\ exit \in {"killed", "closing"} /\ ~gave_up =>
          Holders = {} /\ \A p \in Pids : group[p].by \in Calls => ~Active(group[p])

ProcsInv == KernelInv /\ CallInv /\ ApartInv /\ RecordInv /\ ReapInv /\ ListInv /\ RunInv /\ ExitInv /\ NoStrangerSignalled

------------------------------------------------------------------------------
(* What becomes of a group *)

\* A group becomes h: itself, with less running, or no group.
AgesTo(g, h) ==
    /\ GroupOK(h)
    /\ g = NoGroup => h = NoGroup
    /\ h # NoGroup => h.by = g.by /\ h.start = g.start
    /\ Active(h) => Active(g)

\* And its leader is not waited for.
KeepsLeader(g, h) == g.by \in Calls /\ g.leader # "gone" => h.by = g.by /\ h.leader # "gone"

LEMMA NoGroupOK ==
    ASSUME ProcsAssumption
    PROVE  GroupOK(NoGroup) /\ ~Active(NoGroup) /\ NoGroup.by = None /\ None \notin Calls /\ None # "stranger"
BY DEF GroupOK, NoGroup, GroupRecs, ProcsAssumption, Active

LEMMA TidyAges ==
    ASSUME ProcsAssumption, NEW g, NEW h, GroupOK(g), h \in GroupRecs, h.by = g.by, h.start = g.start,
           Active(h) => Active(g), g = NoGroup => h = NoGroup
    PROVE  AgesTo(g, Tidy(h)) /\ (h.leader # "gone" => Tidy(h) = h) /\ (~h.members => ~Tidy(h).members)
           /\ (h.leader # "runs" => Tidy(h).leader # "runs")
BY NoGroupOK DEF AgesTo, Tidy, GroupOK, Active, NoGroup

LEMMA GroupAges ==
    ASSUME ProcsAssumption, NEW g, GroupOK(g)
    PROVE  /\ AgesTo(g, g) /\ AgesTo(g, Waited(g)) /\ AgesTo(g, Dead(g)) /\ AgesTo(g, Killed(g))
           /\ AgesTo(g, Tidy([g EXCEPT !.members = FALSE]))
           /\ ~Active(Killed(g))
           /\ owner = "up" => KeepsLeader(g, Dead(g)) /\ KeepsLeader(g, Killed(g))
           /\ KeepsLeader(g, g) /\ KeepsLeader(g, Tidy([g EXCEPT !.members = FALSE]))
<1>1. g \in GroupRecs
  BY DEF GroupOK
<1>2. AgesTo(g, g) /\ KeepsLeader(g, g)
  BY DEF AgesTo, KeepsLeader
<1>. DEFINE still == [g EXCEPT !.members = FALSE]
            gone == [g EXCEPT !.leader = "gone"]
            zombie == [g EXCEPT !.leader = "zombie"]
<1>3. /\ gone \in GroupRecs /\ gone.by = g.by /\ gone.start = g.start /\ (Active(gone) => Active(g))
      /\ g = NoGroup => gone = NoGroup
  <2>1. gone \in GroupRecs /\ gone.by = g.by /\ gone.start = g.start /\ gone.members = g.members /\ gone.leader = "gone"
    BY <1>1 DEF GroupRecs
  <2>2. ASSUME g = NoGroup PROVE gone = NoGroup
    <3>1. g.leader = "gone"
      BY <2>2 DEF NoGroup
    <3>2. [g EXCEPT !.leader = "gone"] = g
      BY <1>1, <3>1 DEF GroupRecs
    <3>. QED  BY <2>2, <3>2
  <2>. HIDE DEF gone
  <2>. QED  BY <2>1, <2>2 DEF Active
<1>4. /\ still \in GroupRecs /\ still.by = g.by /\ still.start = g.start /\ (Active(still) => Active(g))
      /\ still.leader = g.leader /\ ~still.members /\ (g = NoGroup => still = NoGroup)
  <2>1. /\ still \in GroupRecs /\ still.by = g.by /\ still.start = g.start /\ still.members = FALSE
        /\ still.leader = g.leader
    BY <1>1 DEF GroupRecs
  <2>2. ASSUME g = NoGroup PROVE still = NoGroup
    <3>1. g.members = FALSE
      BY <2>2 DEF NoGroup
    <3>2. [g EXCEPT !.members = FALSE] = g
      BY <1>1, <3>1 DEF GroupRecs
    <3>. QED  BY <2>2, <3>2
  <2>. HIDE DEF still
  <2>. QED  BY <2>1, <2>2 DEF Active
<1>5. /\ zombie \in GroupRecs /\ zombie.by = g.by /\ zombie.start = g.start /\ (Active(zombie) => Active(g))
      /\ zombie.leader = "zombie"
  BY <1>1 DEF GroupRecs, Active
<1>6. AgesTo(g, Waited(g))
  BY <1>3, TidyAges DEF Waited
<1>7. AgesTo(g, Tidy(still)) /\ KeepsLeader(g, Tidy(still)) /\ ~Tidy(still).members
  BY <1>4, TidyAges DEF KeepsLeader
<1>. HIDE DEF zombie
<1>8. g.by \in Calls => AgesTo(g, zombie) /\ KeepsLeader(g, zombie)
  BY <1>5, NoGroupOK DEF AgesTo, KeepsLeader, GroupOK
<1>9. Dead(g) = IF g.by \in Calls /\ owner = "up" THEN zombie ELSE Waited(g)
  BY DEF Dead, zombie
<1>10. AgesTo(g, Dead(g)) /\ (owner = "up" => KeepsLeader(g, Dead(g)))
  BY <1>6, <1>8, <1>9 DEF KeepsLeader
<1>11. GroupOK(still) \/ g.leader # "runs"
  BY <1>4, NoGroupOK DEF GroupOK
<1>12. CASE g.leader = "runs"
  <2>. DEFINE z == [still EXCEPT !.leader = "zombie"]
              y == [still EXCEPT !.leader = "gone"]
  <2>1. /\ z \in GroupRecs /\ z.by = g.by /\ z.start = g.start /\ ~Active(z) /\ z.leader = "zombie"
        /\ y \in GroupRecs /\ y.by = g.by /\ y.start = g.start /\ ~Active(y) /\ y.leader = "gone" /\ ~y.members
    BY <1>1, <1>4 DEF GroupRecs, Active
  <2>2. g # NoGroup
    BY <1>12 DEF NoGroup
  <2>. HIDE DEF still
  <2>3. Killed(g) = IF g.by \in Calls /\ owner = "up" THEN z ELSE Tidy(y)
    BY <1>4, <1>12 DEF Killed, Dead, Waited, still
  <2>. HIDE DEF y, z
  <2>4. Tidy(y) = NoGroup
    BY <2>1 DEF Tidy
  <2>5. g.by \in Calls => AgesTo(g, z) /\ KeepsLeader(g, z)
    BY <1>12, <2>1, <2>2, NoGroupOK DEF AgesTo, KeepsLeader, GroupOK
  <2>6. AgesTo(g, NoGroup)
    BY NoGroupOK DEF AgesTo
  <2>7. AgesTo(g, Killed(g)) /\ ~Active(Killed(g)) /\ (owner = "up" => KeepsLeader(g, Killed(g)))
    BY <2>1, <2>3, <2>4, <2>5, <2>6, NoGroupOK DEF KeepsLeader
  <2>. QED  BY <1>2, <1>6, <1>7, <1>10, <2>7 DEF still
<1>13. CASE g.leader # "runs"
  <2>1. Killed(g) = Tidy(still)
    BY <1>4, <1>13 DEF Killed
  <2>2. ~Active(Tidy(still))
    BY <1>4, <1>7, <1>13, TidyAges DEF Active
  <2>. QED  BY <1>2, <1>6, <1>7, <1>10, <2>1, <2>2
<1>. QED  BY <1>12, <1>13

------------------------------------------------------------------------------
(* What a step of the kernel leaves *)

\* The numbers look to their new groups, and no group is older than it was.
Ages(seen) ==
    /\ Groups(group', seen) /\ group' \in [Pids -> GroupRecs] /\ \A p \in Pids : AgesTo(group[p], group'[p])
    /\ UNCHANGED <<clock, boot>>

\* A number that is on a waiting list is looked at before it names another group.
LEMMA UnseenStays ==
    ASSUME ProcsInv, NEW g, NEW seen, Groups(g, seen)
    PROVE  /\ group' = g /\ unseen' \subseteq Pollers \X Pids
           /\ \A w \in Pollers \ seen, p \in Pids :
                <<w, p>> \in unseen \/ (Polls(w, p) /\ group[p] # NoGroup /\ g[p] = NoGroup) => <<w, p>> \in unseen'
<1>. DEFINE fell == {u \in Pollers \X Pids : Polls(u[1], u[2]) /\ process_group_exists(u[2]) /\ g[u[2]] = NoGroup}
<1>1. group' = g /\ unseen' = {u \in unseen \cup fell : u[1] \notin seen} /\ unseen \subseteq Pollers \X Pids
  BY DEF Groups, ProcsInv, KernelInv
<1>2. ASSUME NEW w \in Pollers \ seen, NEW p \in Pids,
             <<w, p>> \in unseen \/ (Polls(w, p) /\ group[p] # NoGroup /\ g[p] = NoGroup)
      PROVE  <<w, p>> \in unseen'
  <2>1. <<w, p>> \in unseen \cup fell
    BY <1>2 DEF process_group_exists
  <2>. HIDE DEF fell
  <2>. QED  BY <1>1, <2>1
<1>3. unseen' \subseteq Pollers \X Pids
  BY <1>1
<1>. QED  BY <1>1, <1>2, <1>3

LEMMA KernelAges ==
    ASSUME ProcsAssumption, ProcsInv, NEW seen, Ages(seen)
    PROVE  KernelInv' /\ SoundIn(group, clock) \subseteq SoundIn(group', clock')
<1>1. /\ \A p \in Pids : GroupOK(group'[p]) /\ (group'[p] # NoGroup => group'[p].start = group[p].start /\ group[p] # NoGroup)
      /\ UNCHANGED <<clock, boot>> /\ group' \in [Pids -> GroupRecs]
  BY DEF Ages, AgesTo
<1>2. unseen' \subseteq Pollers \X Pids
  BY UnseenStays DEF Ages
<1>3. KernelInv'
  BY <1>1, <1>2 DEF KernelInv, ProcsInv
<1>4. \A p \in Pids : group'[p].by = "stranger" => group[p].by = "stranger" /\ group'[p].start = group[p].start
  BY NoGroupOK DEF Ages, AgesTo
<1>5. SoundIn(group, clock) \subseteq SoundIn(group', clock')
  BY <1>1, <1>4 DEF SoundIn
<1>. QED  BY <1>3, <1>5

\* A call that takes no part in it is where it was.
LEMMA CallAges ==
    ASSUME ProcsAssumption, ProcsInv, NEW seen, Ages(seen), owner' = owner,
           NEW c \in Calls, c \notin seen, call'[c] = call[c],
           call[c].at \in Leading => KeepsLeader(group[call[c].pid], group'[call[c].pid])
    PROVE  CallOK(c, call'[c], group', unseen', owner')
<1>1. CallOK(c, call[c], group, unseen, owner) /\ call[c] \in CallRecs
  BY DEF ProcsInv, CallInv
<1>2. CASE call[c].at \in Leading
  BY <1>1, <1>2 DEF CallOK, KeepsLeader, Leading
<1>3. CASE call[c].at = "remaining"
  <2>. DEFINE p == call[c].pid
  <2>1. p \in Pids /\ call[c] = [at |-> "remaining", pid |-> p]
    BY <1>1, <1>3 DEF CallOK, CallRecs, Leading
  <2>2. Polls(c, p) /\ c \in Pollers \ seen
    BY <2>1 DEF Polls, Pollers
  <2>3. AgesTo(group[p], group'[p]) /\ (group[p].by = c \/ (group[p] = NoGroup /\ <<c, p>> \in unseen))
    BY <1>1, <1>3, <2>1 DEF CallOK, Ages
  <2>4. group'[p].by = c \/ (group'[p] = NoGroup /\ <<c, p>> \in unseen')
    BY <2>1, <2>2, <2>3, UnseenStays, NoGroupOK DEF AgesTo, Ages
  <2>. QED  BY <1>1, <1>3, <2>4 DEF CallOK, Leading
<1>4. CASE call[c].at \notin Leading \cup {"remaining"}
  BY <1>1, <1>4 DEF CallOK
<1>. QED  BY <1>2, <1>3, <1>4

\* So is a reader.
LEMMA ReapAges ==
    ASSUME ProcsAssumption, ProcsInv, NEW seen, Ages(seen), NEW r \in Reapers, r \notin seen, reap'[r] = reap[r]
    PROVE  ReapOK(r, reap'[r], group', unseen')
<1>. SUFFICES ASSUME reap[r].at = "stops", NEW l \in reap[r].list
              PROVE  group'[l[1]].by \in Calls \/ (group'[l[1]] = NoGroup /\ <<r, l[1]>> \in unseen')
  BY DEF ReapOK
<1>1. /\ l[1] \in Pids /\ r \notin Calls
      /\ group[l[1]].by \in Calls \/ (group[l[1]] = NoGroup /\ <<r, l[1]>> \in unseen)
  BY DEF ProcsInv, ReapInv, ReapOK, ReapRecs, Reapers, ProcsAssumption
<1>2. Polls(r, l[1]) /\ r \in Pollers \ seen
  BY <1>1 DEF Polls, Pollers
<1>3. AgesTo(group[l[1]], group'[l[1]])
  BY <1>1 DEF Ages
<1>. QED  BY <1>1, <1>2, <1>3, UnseenStays, NoGroupOK DEF AgesTo, Ages

\* What runs under a call still does, if it runs.
LEMMA RunAges ==
    ASSUME ProcsAssumption, ProcsInv, NEW seen, Ages(seen), owner' = owner,
           \A c \in Calls : \/ call'[c] = call[c]
                            \/ call'[c].pid = call[c].pid /\ call'[c].at \in Leading \cup {"remaining"}
                            \/ call[c].at \in Leading \cup {"remaining"} => ~Active(group'[call[c].pid])
    PROVE  RunInv'
<1>. SUFFICES ASSUME owner = "up", NEW p \in Pids, group'[p].by \in Calls, Active(group'[p])
              PROVE  call'[group'[p].by].pid = p /\ call'[group'[p].by].at \in Leading \cup {"remaining"}
  BY DEF RunInv
<1>1. group'[p].by = group[p].by /\ Active(group[p])
  BY NoGroupOK DEF Ages, AgesTo
<1>2. call[group[p].by].pid = p /\ call[group[p].by].at \in Leading \cup {"remaining"}
  BY <1>1 DEF ProcsInv, RunInv
<1>. QED  BY <1>1, <1>2

LEMMA StillAges ==
    ASSUME ProcsAssumption, ProcsInv, UNCHANGED <<group, clock, boot, unseen>>
    PROVE  Ages({})
<1>1. group \in [Pids -> GroupRecs] /\ \A p \in Pids : GroupOK(group[p])
  BY DEF ProcsInv, KernelInv
<1>2. Groups(group, {})
  BY DEF Groups, process_group_exists
<1>. QED  BY <1>1, <1>2, GroupAges DEF Ages

LEMMA RecordKeeps ==
    ASSUME ProcsInv, SoundIn(group, clock) \subseteq SoundIn(group', clock'), UNCHANGED <<boot, listed, file>>,
           queue' = queue \/ \E change \in Changes(SoundIn(group, clock)) : queue' = Append(queue, change)
    PROVE  RecordInv'
<1>2. queue \in Seq(Changes(SoundIn(group, clock))) /\ listed \subseteq SoundIn(group, clock)
      /\ RecordOK(file, group, clock, boot)
  BY DEF ProcsInv, RecordInv
<1>3. queue' \in Seq(Changes(SoundIn(group, clock)))
  BY <1>2
<1>4. Changes(SoundIn(group, clock)) \subseteq Changes(SoundIn(group', clock'))
  <2>1. [k : {"add"}, of : SoundIn(group, clock)] \subseteq [k : {"add"}, of : SoundIn(group', clock')]
    OBVIOUS
  <2>. QED  BY <2>1 DEF Changes
<1>5. queue' \in Seq(Changes(SoundIn(group', clock')))
  BY <1>3, <1>4
<1>6. RecordOK(file, group', clock', boot)
  BY <1>2 DEF RecordOK
<1>. QED  BY <1>2, <1>5, <1>6 DEF RecordInv

LEMMA RecordAges ==
    ASSUME ProcsAssumption, ProcsInv, NEW seen, Ages(seen), UNCHANGED <<listed, file>>,
           queue' = queue \/ \E change \in Changes(SoundIn(group, clock)) : queue' = Append(queue, change)
    PROVE  RecordInv'
BY KernelAges, RecordKeeps DEF Ages

LEMMA ReadersAge ==
    ASSUME ProcsAssumption, ProcsInv, NEW seen, Ages(seen), seen \cap Reapers = {}, UNCHANGED reap
    PROVE  ReapInv'
<1>1. \A r \in Reapers : ReapOK(r, reap'[r], group', unseen')
  BY ReapAges
<1>. QED  BY <1>1 DEF ReapInv, ProcsInv

\* One call moves on, whatever its step does to its own group.
Lists(c, k) == live' = IF k.at \in Listed THEN live \cup {k.pid}
                       ELSE IF call[c].at \in Listed THEN live \ {call[c].pid} ELSE live
LEMMA CallMoves ==
    ASSUME ProcsAssumption, ProcsInv, NEW c \in Calls, NEW seen, seen \subseteq {c}, Ages(seen),
           UNCHANGED <<owner, exits, reap, listed, file, watching>>,
           NEW k, call' = [call EXCEPT ![c] = k], CallOK(c, k, group', unseen', owner'),
           \A d \in Calls \ {c} : call[d].at \in Leading => KeepsLeader(group[call[d].pid], group'[call[d].pid]),
           k.at \in Holding => call[c].at \in Holding /\ k.pid = call[c].pid,
           call[c].at \in Holding /\ k.at \notin Holding => ~Active(group'[call[c].pid]),
           k.at \in {"forking", "forked"} => call[c].at \in {"forking", "forked"} \/ exit \notin {"killed", "closing"},
           Lists(c, k),
           queue' = queue \/ \E change \in Changes(SoundIn(group, clock)) : queue' = Append(queue, change),
           ~hit'
    PROVE  ProcsInv'
<1>1. KernelInv' /\ RecordInv'
  BY KernelAges, RecordAges
<1>2. ReapInv'
  BY ReadersAge DEF Reapers, ProcsAssumption
<1>3. /\ call \in [Calls -> CallRecs] /\ call' \in [Calls -> CallRecs] /\ call'[c] = k /\ k \in CallRecs
      /\ \A d \in Calls \ {c} : call'[d] = call[d]
  BY DEF ProcsInv, CallInv, CallOK
<1>4. CallInv'
  <2>1. ASSUME NEW d \in Calls PROVE CallOK(d, call'[d], group', unseen', owner')
    <3>1. CASE d = c
      BY <3>1, <1>3
    <3>2. CASE d # c
      BY <3>2, <1>3, CallAges
    <3>. QED  BY <3>1, <3>2
  <2>. QED  BY <1>3, <2>1 DEF CallInv
<1>5. ApartInv'
  BY <1>3 DEF ProcsInv, ApartInv
<1>6. RunInv'
  <2>1. \A d \in Calls : \/ call'[d] = call[d]
                         \/ call'[d].pid = call[d].pid /\ call'[d].at \in Holding
                         \/ call[d].at \in Holding => ~Active(group'[call[d].pid])
    BY <1>3
  <2>. QED  BY <2>1, RunAges DEF Holding
<1>7. ExitInv'
  <2>1. Holders' \subseteq Holders \/ exit \notin {"killed", "closing"}
    BY <1>3 DEF Holders
  <2>2. \A p \in Pids : group'[p].by \in Calls /\ Active(group'[p]) => group[p].by \in Calls /\ Active(group[p])
    BY NoGroupOK DEF Ages, AgesTo
  <2>. QED  BY <2>1, <2>2 DEF ExitInv, ProcsInv, exits
<1>8. ListInv'
  <2>1. live = {call[d].pid : d \in {e \in Calls : call[e].at \in Listed}} /\ Listed \subseteq Holding
    BY DEF ProcsInv, ListInv, Listed, Holding, Leading
  <2>. DEFINE others == {call[d].pid : d \in {e \in Calls \ {c} : call[e].at \in Listed}}
  <2>2. live = others \cup (IF call[c].at \in Listed THEN {call[c].pid} ELSE {})
    BY <2>1
  <2>3. {call'[d].pid : d \in {e \in Calls : call'[e].at \in Listed}}
        = others \cup (IF k.at \in Listed THEN {k.pid} ELSE {})
    BY <1>3
  <2>4. call[c].at \in Holding => call[c].pid \notin others
    BY <2>1 DEF ProcsInv, ApartInv
  <2>5. live' = others \cup (IF k.at \in Listed THEN {k.pid} ELSE {})
    BY <2>1, <2>2, <2>4 DEF Lists
  <2>6. live' = {call'[d].pid : d \in {e \in Calls : call'[e].at \in Listed}}
    BY <2>3, <2>5
  <2>7. UNCHANGED <<owner, exit>>
    BY DEF exits
  <2>. QED  BY <2>6, <2>7 DEF ListInv, ProcsInv
<1>. QED  BY <1>1, <1>2, <1>4, <1>5, <1>6, <1>7, <1>8 DEF ProcsInv, NoStrangerSignalled

------------------------------------------------------------------------------
(* The first state, and a group that starts *)

LEMMA FirstState == ASSUME ProcsAssumption, Init PROVE ProcsInv
<1>1. KernelInv
  <2>1. NoGroup \in GroupRecs /\ 0 \in 0..MaxStart
    BY DEF NoGroup, GroupRecs, ProcsAssumption
  <2>. QED  BY <2>1, NoGroupOK DEF Init, KernelInv
<1>2. CallInv
  <2>1. [at |-> "idle", pid |-> None] \in CallRecs
    BY DEF CallRecs
  <2>. QED  BY <2>1 DEF Init, CallInv, CallOK, Leading
<1>3. ApartInv
  BY DEF Init, ApartInv, Holding, Leading
<1>4. RecordInv
  <2>1. <<>> \in Seq(Changes(SoundIn(group, clock)))
    OBVIOUS
  <2>. QED  BY <2>1 DEF Init, RecordInv, RecordOK
<1>5. ReapInv
  <2>1. [at |-> "none", list |-> {}, inside |-> None, keeps |-> FALSE] \in ReapRecs
    BY DEF ReapRecs
  <2>. QED  BY <2>1 DEF Init, ReapInv, ReapOK
<1>6. ListInv
  <2>1. {c \in Calls : call[c].at \in Listed} = {}
    BY DEF Init, Listed
  <2>. QED  BY <2>1 DEF Init, ListInv
<1>7. RunInv /\ ExitInv /\ NoStrangerSignalled
  BY NoGroupOK DEF Init, RunInv, ExitInv, NoStrangerSignalled
<1>. QED  BY <1>1, <1>2, <1>3, <1>4, <1>5, <1>6, <1>7 DEF ProcsInv

LEMMA GroupStarts ==
    ASSUME ProcsAssumption, ProcsInv, NEW p \in Pids, NEW who \in Calls \cup {"stranger"}, Starts(p, who), boot' = boot
    PROVE  /\ KernelInv' /\ SoundIn(group, clock) \subseteq SoundIn(group', clock')
           /\ unseen' = unseen /\ group[p] = NoGroup /\ group'[p].by = who /\ group'[p].leader = "runs"
           /\ \A q \in Pids \ {p} : group'[q] = group[q]
<1>. DEFINE new == [by |-> who, leader |-> "runs", start |-> clock, members |-> FALSE]
<1>1. /\ group[p] = NoGroup /\ clock < MaxStart /\ clock' = clock + 1 /\ group' = [group EXCEPT ![p] = new]
      /\ group \in [Pids -> GroupRecs] /\ clock \in 0..MaxStart /\ MaxStart \in Nat
      /\ unseen \subseteq Pollers \X Pids
  BY DEF Starts, Groups, process_group_exists, ProcsInv, KernelInv, ProcsAssumption
<1>2. new \in GroupRecs /\ new.by = who /\ new.leader = "runs" /\ new.start = clock
  BY <1>1 DEF GroupRecs
<1>3. new # NoGroup /\ GroupOK(new)
  BY <1>2 DEF GroupOK, NoGroup
<1>. HIDE DEF new
<1>4. group'[p] = new /\ group' \in [Pids -> GroupRecs] /\ \A q \in Pids \ {p} : group'[q] = group[q]
  BY <1>1, <1>2
<1>5. unseen' = unseen
  <2>1. {u \in Pollers \X Pids : Polls(u[1], u[2]) /\ process_group_exists(u[2]) /\ group'[u[2]] = NoGroup} = {}
    BY <1>1, <1>3, <1>4 DEF process_group_exists
  <2>2. Groups(group', {})
    BY <1>1 DEF Starts, Groups, new
  <2>. QED  BY <2>1, <2>2 DEF Groups
<1>6. \A q \in Pids : group'[q] # NoGroup /\ q # p => group'[q].start < clock /\ group'[q].start \in Nat
  BY <1>1, <1>4 DEF ProcsInv, KernelInv, GroupRecs
<1>7. KernelInv'
  <2>1. \A q \in Pids : GroupOK(group'[q]) /\ (group'[q] # NoGroup => group'[q].start < clock')
    BY <1>1, <1>2, <1>3, <1>4, <1>6 DEF ProcsInv, KernelInv
  <2>2. \A q, o \in Pids : group'[q] # NoGroup /\ group'[o] # NoGroup /\ group'[q].start = group'[o].start => q = o
    BY <1>1, <1>2, <1>4, <1>6 DEF ProcsInv, KernelInv
  <2>3. clock' \in 0..MaxStart
    BY <1>1
  <2>. QED  BY <1>1, <1>4, <1>5, <2>1, <2>2, <2>3 DEF KernelInv, ProcsInv
<1>8. SoundIn(group, clock) \subseteq SoundIn(group', clock')
  <2>1. ASSUME NEW l \in SoundIn(group, clock) PROVE l \in SoundIn(group', clock')
    <3>1. /\ l \in Pids \X (0..MaxStart) /\ l[2] < clock /\ l[2] \in 0..MaxStart
          /\ \A q \in Pids : group[q].by = "stranger" => group[q].start # l[2]
      BY DEF SoundIn
    <3>2. l[2] < clock' /\ l[2] # clock
      BY <1>1, <3>1
    <3>3. \A q \in Pids : group'[q].by = "stranger" => group'[q].start # l[2]
      BY <1>2, <1>4, <3>1, <3>2
    <3>. QED  BY <3>1, <3>2, <3>3 DEF SoundIn
  <2>. QED  BY <2>1
<1>. QED  BY <1>1, <1>2, <1>4, <1>5, <1>7, <1>8

\* Whoever has still to look at a number keeps it from a new group.
LEMMA StartsApart ==
    ASSUME ProcsAssumption, ProcsInv, NEW p \in Pids, NEW who \in Calls \cup {"stranger"}, Starts(p, who), boot' = boot,
           \A u \in unseen : u[2] # p
    PROVE  /\ \A c \in Calls : call[c].at \in Holding => call[c].pid # p
           /\ \A c \in Calls : CallOK(c, call[c], group', unseen', owner)
           /\ UNCHANGED reap => ReapInv'
<1>1. /\ unseen' = unseen /\ group[p] = NoGroup /\ NoGroup.by \notin Calls
      /\ \A q \in Pids \ {p} : group'[q] = group[q]
  BY GroupStarts, NoGroupOK
<1>2. ASSUME NEW c \in Calls, call[c].at \in Holding PROVE call[c].pid # p /\ call[c].pid \in Pids
  <2>1. CallOK(c, call[c], group, unseen, owner)
    BY DEF ProcsInv, CallInv
  <2>2. \/ group[call[c].pid].by = c
        \/ group[call[c].pid] = NoGroup /\ <<c, call[c].pid>> \in unseen
    BY <1>2, <2>1 DEF CallOK, Holding
  <2>3. call[c].pid \in Pids
    BY <1>2, <2>1 DEF CallOK, CallRecs, Holding, Leading
  <2>4. call[c].pid # p
    BY <1>1, <2>2
  <2>. QED  BY <2>3, <2>4
<1>3. ASSUME NEW c \in Calls PROVE CallOK(c, call[c], group', unseen', owner)
  <2>1. CallOK(c, call[c], group, unseen, owner)
    BY DEF ProcsInv, CallInv
  <2>. QED  BY <1>1, <1>2, <2>1 DEF CallOK, Holding
<1>4. ASSUME NEW r \in Reapers PROVE ReapOK(r, reap[r], group', unseen')
  <2>. SUFFICES ASSUME reap[r].at = "stops", NEW l \in reap[r].list
                PROVE  group'[l[1]].by \in Calls \/ (group'[l[1]] = NoGroup /\ <<r, l[1]>> \in unseen')
    BY DEF ReapOK
  <2>1. /\ l[1] \in Pids
        /\ group[l[1]].by \in Calls \/ (group[l[1]] = NoGroup /\ <<r, l[1]>> \in unseen)
    BY DEF ProcsInv, ReapInv, ReapOK, ReapRecs
  <2>2. l[1] # p
    BY <1>1, <2>1
  <2>. QED  BY <1>1, <2>1, <2>2
<1>. QED  BY <1>2, <1>3, <1>4 DEF ReapInv, ProcsInv

LEMMA AStrangerStarts ==
    ASSUME ProcsAssumption, ProcsInv, NEW p \in Pids, StrangerStarts(p)
    PROVE  ProcsInv'
<1>1. /\ Starts(p, "stranger") /\ (\A u \in unseen : u[2] # p)
      /\ UNCHANGED <<boot, hit, owner, call, live, exits, record, reap>>
  BY DEF StrangerStarts
<1>2. /\ KernelInv' /\ SoundIn(group, clock) \subseteq SoundIn(group', clock')
      /\ group'[p].by = "stranger" /\ \A q \in Pids \ {p} : group'[q] = group[q]
  BY <1>1, GroupStarts
<1>3. ReapInv' /\ \A c \in Calls : CallOK(c, call[c], group', unseen', owner)
  BY <1>1, StartsApart
<1>4. CallInv' /\ ApartInv' /\ ListInv' /\ NoStrangerSignalled'
  BY <1>1, <1>3 DEF CallInv, ApartInv, ListInv, NoStrangerSignalled, ProcsInv, exits
<1>5. RecordInv'
  BY <1>1, <1>2, RecordKeeps DEF record
<1>6. RunInv' /\ ExitInv'
  <2>1. \A q \in Pids : group'[q].by \in Calls => group'[q] = group[q]
    BY <1>2 DEF ProcsAssumption
  <2>. QED  BY <1>1, <2>1 DEF RunInv, ExitInv, Holders, ProcsInv, exits
<1>. QED  BY <1>2, <1>3, <1>4, <1>5, <1>6 DEF ProcsInv

LEMMA ACommandForks ==
    ASSUME ProcsAssumption, ProcsInv, NEW c \in Calls, Fork(c)
    PROVE  ProcsInv'
<1>1. PICK p \in Pids : Starts(p, c) /\ (\A u \in unseen : u[2] # p) /\ Goes(c, "forked", p)
  BY DEF Fork
<1>2. /\ call[c].at = "forking" /\ owner = "up" /\ UNCHANGED <<boot, hit, owner, live, exits, record, reap>>
      /\ call \in [Calls -> CallRecs]
  BY DEF Fork, At, ProcsInv, CallInv
<1>. DEFINE k == [at |-> "forked", pid |-> p]
<1>3. k \in CallRecs /\ k.at = "forked" /\ k.pid = p
  BY DEF CallRecs, Leading
<1>4. call' = [call EXCEPT ![c] = k]
  BY <1>1 DEF Goes
<1>. HIDE DEF k
<1>5. call'[c] = k /\ call' \in [Calls -> CallRecs] /\ \A d \in Calls \ {c} : call'[d] = call[d]
  BY <1>2, <1>3, <1>4
<1>6. /\ KernelInv' /\ SoundIn(group, clock) \subseteq SoundIn(group', clock') /\ unseen' = unseen
      /\ group'[p].by = c /\ group'[p].leader = "runs" /\ \A q \in Pids \ {p} : group'[q] = group[q]
  BY <1>1, <1>2, GroupStarts
<1>7. /\ ReapInv' /\ \A d \in Calls : CallOK(d, call[d], group', unseen', owner)
      /\ \A d \in Calls : call[d].at \in Holding => call[d].pid # p
  BY <1>1, <1>2, StartsApart
<1>8. CallInv'
  <2>1. CallOK(c, k, group', unseen', owner')
    BY <1>2, <1>3, <1>6, NoGroupOK DEF CallOK, Leading, ProcsAssumption
  <2>2. \A d \in Calls : CallOK(d, call'[d], group', unseen', owner')
    BY <1>2, <1>5, <1>7, <2>1
  <2>. QED  BY <1>5, <2>2 DEF CallInv
<1>9. ApartInv'
  BY <1>3, <1>5, <1>7 DEF ProcsInv, ApartInv
<1>10. RecordInv'
  BY <1>2, <1>6, RecordKeeps DEF record
<1>11. ListInv'
  <2>1. {d \in Calls : call'[d].at \in Listed} = {d \in Calls : call[d].at \in Listed}
    BY <1>2, <1>3, <1>5 DEF Listed
  <2>2. \A d \in Calls : call[d].at \in Listed => call'[d] = call[d]
    BY <1>2, <1>5 DEF Listed
  <2>. QED  BY <1>2, <2>1, <2>2 DEF ListInv, ProcsInv, exits
<1>12. RunInv'
  <2>. SUFFICES ASSUME NEW q \in Pids, group'[q].by \in Calls, Active(group'[q])
                PROVE  call'[group'[q].by].pid = q /\ call'[group'[q].by].at \in Leading \cup {"remaining"}
    BY DEF RunInv
  <2>1. CASE q = p
    BY <2>1, <1>3, <1>5, <1>6 DEF Leading
  <2>2. CASE q # p
    <3>1. group'[q] = group[q]
      BY <2>2, <1>6
    <3>2. call[group[q].by].pid = q /\ call[group[q].by].at \in Leading \cup {"remaining"}
      BY <1>2, <3>1 DEF ProcsInv, RunInv
    <3>3. group[q].by # c
      BY <1>2, <3>2 DEF Leading
    <3>. QED  BY <3>1, <3>2, <3>3, <1>5
  <2>. QED  BY <2>1, <2>2
<1>13. ExitInv' /\ NoStrangerSignalled'
  <2>1. c \in Holders
    BY <1>2 DEF Holders
  <2>. QED  BY <1>2, <2>1 DEF ExitInv, ProcsInv, exits, NoStrangerSignalled
<1>. QED  BY <1>6, <1>7, <1>8, <1>9, <1>10, <1>11, <1>12, <1>13 DEF ProcsInv

------------------------------------------------------------------------------
(* Steps of the kernel and of calls *)

\* No call moves.
LEMMA CallsStay ==
    ASSUME ProcsAssumption, ProcsInv, NEW seen, Ages(seen), seen \cap Calls = {}, UNCHANGED <<call, live>>,
           \A c \in Calls : call[c].at \in Leading => KeepsLeader(group[call[c].pid], group'[call[c].pid]),
           owner' = owner \/ (owner # "up" /\ owner' \in {"gone", "taken"}),
           exit' \in {"no", "waiting", "killed", "closing"}, ExitInv', RecordInv', ReapInv', ~hit'
    PROVE  ProcsInv'
<1>1. KernelInv'
  BY KernelAges
<1>2. CallInv'
  <2>1. ASSUME NEW c \in Calls PROVE CallOK(c, call'[c], group', unseen', owner')
    <3>1. CASE owner' = owner
      BY <3>1, CallAges
    <3>2. CASE owner # "up" /\ owner' \in {"gone", "taken"}
      BY <3>2 DEF ProcsInv, CallInv, CallOK, Leading
    <3>. QED  BY <3>1, <3>2
  <2>. QED  BY <2>1 DEF CallInv, ProcsInv
<1>3. ApartInv' /\ ListInv'
  BY DEF ApartInv, ListInv, ProcsInv
<1>4. RunInv'
  <2>1. CASE owner' = owner
    BY <2>1, RunAges
  <2>2. CASE owner' # "up"
    BY <2>2 DEF RunInv
  <2>. QED  BY <2>1, <2>2
<1>. QED  BY <1>1, <1>2, <1>3, <1>4 DEF ProcsInv, NoStrangerSignalled

LEMMA ExitAges ==
    ASSUME ProcsAssumption, ProcsInv, NEW seen, Ages(seen), UNCHANGED <<call, exits>>
    PROVE  ExitInv' /\ exit' \in {"no", "waiting", "killed", "closing"}
<1>1. \A p \in Pids : group'[p].by \in Calls /\ Active(group'[p]) => group[p].by \in Calls /\ Active(group[p])
  BY NoGroupOK DEF Ages, AgesTo
<1>. QED  BY <1>1 DEF ExitInv, ListInv, ProcsInv, exits, Holders

\* A group whose leader nobody waits for, because its command leads it, is not given up.
LEMMA LeaderStays ==
    ASSUME ProcsAssumption, ProcsInv, NEW c \in Calls, call[c].at \in Leading
    PROVE  /\ owner = "up" /\ call[c].pid \in Pids /\ group[call[c].pid].by = c /\ group[call[c].pid].leader # "gone"
           /\ GroupOK(group[call[c].pid])
<1>1. CallOK(c, call[c], group, unseen, owner)
  BY DEF ProcsInv, CallInv
<1>2. call[c].pid \in Pids /\ owner = "up"
  BY <1>1 DEF CallOK, CallRecs, Leading
<1>. QED  BY <1>1, <1>2 DEF CallOK, ProcsInv, KernelInv

LEMMA AProcessSteps ==
    ASSUME ProcsAssumption, ProcsInv, NEW p \in Pids, NEW g, ProcessStep(p, g), AgesTo(group[p], g), g \in GroupRecs,
           owner = "up" => KeepsLeader(group[p], g)
    PROVE  ProcsInv'
<1>1. /\ group \in [Pids -> GroupRecs] /\ group' = [group EXCEPT ![p] = g] /\ Groups(group', {})
      /\ UNCHANGED <<clock, boot, hit, owner, call, live, exits, record, reap>>
      /\ \A q \in Pids : GroupOK(group[q])
  BY DEF ProcessStep, Groups, ProcsInv, KernelInv
<1>2. group' \in [Pids -> GroupRecs] /\ group'[p] = g /\ \A q \in Pids \ {p} : group'[q] = group[q]
  BY <1>1
<1>3. Ages({})
  <2>1. \A q \in Pids : AgesTo(group[q], group'[q])
    BY <1>1, <1>2, GroupAges
  <2>. QED  BY <1>1, <1>2, <2>1 DEF Ages
<1>4. \A c \in Calls : call[c].at \in Leading => KeepsLeader(group[call[c].pid], group'[call[c].pid])
  BY <1>1, <1>2, LeaderStays, GroupAges
<1>5. ExitInv' /\ exit' \in {"no", "waiting", "killed", "closing"}
  BY <1>1, <1>3, ExitAges
<1>6. RecordInv'
  BY <1>1, <1>3, RecordAges DEF record
<1>7. ReapInv'
  BY <1>1, <1>3, ReadersAge
<1>. QED  BY <1>1, <1>3, <1>4, <1>5, <1>6, <1>7, CallsStay DEF ProcsInv, NoStrangerSignalled

LEMMA AGroupLives ==
    ASSUME ProcsAssumption, ProcsInv, NEW p \in Pids, Backgrounds(p) \/ LeaderExits(p) \/ MembersExit(p)
    PROVE  ProcsInv'
<1>1. group[p] \in GroupRecs /\ GroupOK(group[p])
  BY DEF ProcsInv, KernelInv
<1>2. CASE Backgrounds(p)
  <2>. DEFINE g == [group[p] EXCEPT !.members = TRUE]
  <2>1. g \in GroupRecs /\ g.by = group[p].by /\ g.start = group[p].start /\ g.leader = group[p].leader
    BY <1>1 DEF GroupRecs
  <2>2. group[p].leader = "runs" /\ ProcessStep(p, g) /\ group[p] # NoGroup
    BY <1>2 DEF Backgrounds, NoGroup
  <2>. HIDE DEF g
  <2>3. AgesTo(group[p], g) /\ KeepsLeader(group[p], g)
    BY <1>1, <2>1, <2>2 DEF AgesTo, KeepsLeader, GroupOK, Active
  <2>. QED  BY <2>1, <2>2, <2>3, AProcessSteps
<1>3. CASE LeaderExits(p)
  <2>1. ProcessStep(p, Dead(group[p]))
    BY <1>3 DEF LeaderExits
  <2>. QED  BY <1>1, <2>1, GroupAges, AProcessSteps DEF AgesTo, GroupOK
<1>4. CASE MembersExit(p)
  <2>1. ProcessStep(p, Tidy([group[p] EXCEPT !.members = FALSE]))
    BY <1>4 DEF MembersExit
  <2>. QED  BY <1>1, <2>1, GroupAges, AProcessSteps DEF AgesTo, GroupOK
<1>. QED  BY <1>2, <1>3, <1>4

\* A call's step changes its own group at most.
LEMMA OthersKeep ==
    ASSUME ProcsAssumption, ProcsInv, NEW c \in Calls, call[c].at \in Holding, NEW h, NEW seen,
           Groups([group EXCEPT ![call[c].pid] = h], seen), AgesTo(group[call[c].pid], h), UNCHANGED <<clock, boot>>
    PROVE  /\ Ages(seen) /\ call[c].pid \in Pids /\ group'[call[c].pid] = h
           /\ \A d \in Calls \ {c} : call[d].at \in Leading => KeepsLeader(group[call[d].pid], group'[call[d].pid])
<1>. DEFINE p == call[c].pid
<1>1. p \in Pids
  BY DEF ProcsInv, CallInv, CallOK, CallRecs, Holding, Leading
<1>2. /\ group \in [Pids -> GroupRecs] /\ group' = [group EXCEPT ![p] = h] /\ h \in GroupRecs /\ Groups(group', seen)
      /\ \A q \in Pids : GroupOK(group[q])
  BY <1>1 DEF Groups, ProcsInv, KernelInv, AgesTo, GroupOK
<1>3. group' \in [Pids -> GroupRecs] /\ group'[p] = h /\ \A q \in Pids \ {p} : group'[q] = group[q]
  BY <1>1, <1>2
<1>4. Ages(seen)
  <2>1. \A q \in Pids : AgesTo(group[q], group'[q])
    BY <1>2, <1>3, GroupAges
  <2>. QED  BY <1>2, <1>3, <2>1 DEF Ages
<1>5. ASSUME NEW d \in Calls \ {c}, call[d].at \in Leading
      PROVE  KeepsLeader(group[call[d].pid], group'[call[d].pid])
  <2>1. call[d].pid \in Pids /\ call[d].pid # p
    BY <1>5, LeaderStays DEF ProcsInv, ApartInv, Holding
  <2>. QED  BY <1>2, <1>3, <2>1, GroupAges
<1>. QED  BY <1>1, <1>3, <1>4, <1>5

LEMMA CallHolds ==
    ASSUME ProcsAssumption, ProcsInv, NEW c \in Calls, call[c].at \in Holding
    PROVE  /\ owner = "up" /\ call[c].pid \in Pids /\ GroupOK(group[call[c].pid])
           /\ group[call[c].pid].by = c \/ (call[c].at = "remaining" /\ group[call[c].pid] = NoGroup)
           /\ group[call[c].pid].by # "stranger"
<1>1. CallOK(c, call[c], group, unseen, owner)
  BY DEF ProcsInv, CallInv
<1>2. call[c].pid \in Pids /\ owner = "up"
  BY <1>1 DEF CallOK, CallRecs, Leading, Holding
<1>3. group[call[c].pid].by = c \/ (call[c].at = "remaining" /\ group[call[c].pid] = NoGroup)
  BY <1>1 DEF CallOK, Holding
<1>4. group[call[c].pid].by # "stranger"
  BY <1>3, NoGroupOK DEF ProcsAssumption
<1>. QED  BY <1>2, <1>3, <1>4 DEF ProcsInv, KernelInv

LEMMA CallStill ==
    ASSUME ProcsAssumption, ProcsInv, NEW c \in Calls, UNCHANGED <<group, clock, boot, unseen>>
    PROVE  /\ Ages({})
           /\ \A d \in Calls \ {c} : call[d].at \in Leading => KeepsLeader(group[call[d].pid], group'[call[d].pid])
<1>1. \A d \in Calls : call[d].at \in Leading => KeepsLeader(group[call[d].pid], group'[call[d].pid])
  BY LeaderStays, GroupAges
<1>. QED  BY <1>1, StillAges

LEMMA ASpawnBegins ==
    ASSUME ProcsAssumption, ProcsInv, NEW c \in Calls, Begin(c) \/ SpawnFails(c) \/ Drained(c)
    PROVE  ProcsInv'
<1>1. PICK at \in {"forking", "done"} :
         /\ Goes(c, at, None) /\ UNCHANGED <<kernel, owner, live, exits, record, reap>>
         /\ owner = "up" /\ call[c].at \in {"idle", "forking", "draining"}
         /\ at = "forking" => ~exiting /\ exit # "closing"
  BY DEF Begin, SpawnFails, Drained, At
<1>. DEFINE k == [at |-> at, pid |-> None]
<1>2. k \in CallRecs /\ k.at = at /\ k.pid = None
  BY DEF CallRecs
<1>3. call' = [call EXCEPT ![c] = k]
  BY <1>1 DEF Goes
<1>. HIDE DEF k
<1>4. CallOK(c, k, group', unseen', owner')
  <2>1. owner' = "up" /\ at \notin Leading /\ at # "remaining"
    BY <1>1 DEF Leading
  <2>. QED  BY <1>1, <1>2, <2>1 DEF CallOK
<1>5. k.at \notin Holding /\ call[c].at \notin Holding /\ Lists(c, k)
  BY <1>1, <1>2 DEF Holding, Leading, Lists, Listed
<1>6. k.at \in {"forking", "forked"} => exit \notin {"killed", "closing"}
  BY <1>1, <1>2 DEF ProcsInv, ExitInv
<1>7. UNCHANGED <<group, clock, boot, unseen>> /\ ~hit' /\ UNCHANGED <<owner, exits, reap, listed, file, watching, queue>>
  BY <1>1 DEF kernel, record, ProcsInv, NoStrangerSignalled
<1>. QED  BY <1>3, <1>4, <1>5, <1>6, <1>7, CallStill, CallMoves

\* The leader that a call started with its own start time is on no stranger's record.
LEMMA ACallRegisters ==
    ASSUME ProcsAssumption, ProcsInv, NEW c \in Calls, Register(c)
    PROVE  ProcsInv'
<1>. DEFINE p == call[c].pid
            k == [at |-> "running", pid |-> p]
            change == [k |-> "add", of |-> <<p, start_time(p)>>]
<1>1. /\ call[c].at = "forked" /\ Goes(c, "running", p) /\ live' = live \cup {p} /\ queue' = Append(queue, change)
      /\ UNCHANGED <<kernel, owner, exits, reap, listed, file, watching>>
  BY DEF Register, At, Send
<1>2. /\ owner = "up" /\ p \in Pids /\ group[p].by = c /\ group[p].leader # "gone" /\ GroupOK(group[p])
  BY <1>1, LeaderStays DEF Leading
<1>3. k \in CallRecs /\ k.at = "running" /\ k.pid = p
  BY <1>2 DEF CallRecs, Leading
<1>4. change \in Changes(SoundIn(group, clock))
  <2>1. group[p] # NoGroup /\ group[p] \in GroupRecs /\ start_time(p) = group[p].start
    BY <1>2 DEF NoGroup, GroupOK, start_time
  <2>2. group[p].start \in 0..MaxStart /\ group[p].start < clock
    BY <1>2, <2>1 DEF GroupRecs, ProcsInv, KernelInv
  <2>3. \A q \in Pids : group[q].by = "stranger" => group[q].start # group[p].start
    <3>1. \A q \in Pids : group[q].by = "stranger" => group[q] # NoGroup /\ q # p
      BY <1>2, NoGroupOK DEF ProcsAssumption
    <3>. QED  BY <1>2, <2>1, <3>1 DEF ProcsInv, KernelInv
  <2>4. <<p, start_time(p)>> \in SoundIn(group, clock)
    BY <1>2, <2>1, <2>2, <2>3 DEF SoundIn
  <2>. QED  BY <2>4 DEF Changes
<1>5. call' = [call EXCEPT ![c] = k]
  BY <1>1 DEF Goes
<1>. HIDE DEF change, k
<1>6. CallOK(c, k, group', unseen', owner')
  BY <1>1, <1>2, <1>3, NoGroupOK DEF CallOK, Leading, kernel, ProcsAssumption
<1>7. k.at \in Holding /\ call[c].at \in Holding /\ Lists(c, k)
  BY <1>1, <1>3 DEF Holding, Leading, Lists, Listed
<1>8. k.at \notin {"forking", "forked"}
  BY <1>3
<1>9. UNCHANGED <<group, clock, boot, unseen>> /\ ~hit' /\ UNCHANGED <<owner, exits, reap, listed, file, watching>>
  BY <1>1 DEF kernel, ProcsInv, NoStrangerSignalled
<1>. QED  BY <1>1, <1>3, <1>4, <1>5, <1>6, <1>7, <1>8, <1>9, CallStill, CallMoves

LEMMA OwnSignal ==
    ASSUME ProcsAssumption, ProcsInv, NEW c \in Calls, call[c].at \in Holding, Signalled({call[c].pid})
    PROVE  ~hit'
BY CallHolds DEF Signalled, ProcsInv, NoStrangerSignalled

LEMMA ACallStops ==
    ASSUME ProcsAssumption, ProcsInv, NEW c \in Calls, Stop(c) \/ GraceEnds(c)
    PROVE  ProcsInv'
<1>. DEFINE p == call[c].pid
<1>1. /\ call[c].at \in {"running", "terming"} /\ call[c].at \in Leading /\ Signalled({p})
      /\ UNCHANGED <<clock, boot, owner, live, exits, record, reap>>
  BY DEF Stop, GraceEnds, At, Leading
<1>2. /\ owner = "up" /\ p \in Pids /\ group[p].by = c /\ group[p].leader # "gone" /\ GroupOK(group[p])
  BY <1>1, LeaderStays
<1>3. ~hit'
  BY <1>1, OwnSignal DEF Holding
<1>4. PICK at \in {"terming", "killing"} :
         /\ Goes(c, at, p) /\ Ages({}) /\ KeepsLeader(group[p], group'[p])
         /\ \A d \in Calls \ {c} : call[d].at \in Leading => KeepsLeader(group[call[d].pid], group'[call[d].pid])
  <2>1. CASE Stop(c)
    <3>1. Goes(c, "terming", p) /\ UNCHANGED <<group, clock, boot, unseen>>
      BY <2>1 DEF Stop
    <3>. QED  BY <1>2, <3>1, CallStill, GroupAges
  <2>2. CASE GraceEnds(c)
    <3>1. Goes(c, "killing", p) /\ Groups([group EXCEPT ![p] = Killed(group[p])], {}) /\ UNCHANGED <<clock, boot>>
      BY <2>2 DEF GraceEnds
    <3>2. AgesTo(group[p], Killed(group[p])) /\ KeepsLeader(group[p], Killed(group[p]))
      BY <1>2, GroupAges
    <3>3. call[c].at \in Holding
      BY <1>1 DEF Holding
    <3>. QED  BY <3>1, <3>2, <3>3, OthersKeep
  <2>. QED  BY <2>1, <2>2, <1>1, <1>2
<1>. DEFINE k == [at |-> at, pid |-> p]
<1>5. k \in CallRecs /\ k.at = at /\ k.pid = p
  BY <1>2 DEF CallRecs, Leading
<1>6. call' = [call EXCEPT ![c] = k]
  BY <1>4 DEF Goes
<1>. HIDE DEF k
<1>7. CallOK(c, k, group', unseen', owner')
  BY <1>1, <1>2, <1>4, <1>5, NoGroupOK DEF CallOK, Leading, KeepsLeader, ProcsAssumption
<1>8. k.at \in Holding /\ call[c].at \in Holding /\ k.at \notin {"forking", "forked"}
  BY <1>1, <1>5 DEF Holding, Leading
<1>9. Lists(c, k)
  <2>1. k.at \in Listed /\ p \in live
    BY <1>1, <1>5 DEF Listed, ProcsInv, ListInv
  <2>. QED  BY <1>1, <1>5, <2>1 DEF Lists
<1>10. UNCHANGED <<owner, exits, reap, listed, file, watching, queue>>
  BY <1>1 DEF record
<1>. QED  BY <1>3, <1>4, <1>5, <1>6, <1>7, <1>8, <1>9, <1>10, CallMoves

\* A call that lets go of its group leaves nothing of it that runs.
LEMMA CallLetsGo ==
    ASSUME ProcsAssumption, ProcsInv, NEW c \in Calls, call[c].at \in Holding, call[c].at \in Listed,
           NEW seen, seen \subseteq {c}, Ages(seen), UNCHANGED <<owner, exits, reap>>,
           \A d \in Calls \ {c} : call[d].at \in Leading => KeepsLeader(group[call[d].pid], group'[call[d].pid]),
           NEW k, k \in [at : {"draining"}, pid : {call[c].pid}] \cup [at : {"done"}, pid : {None}],
           call' = [call EXCEPT ![c] = k],
           live' = live \ {call[c].pid}, Send([k |-> "strike", of |-> <<call[c].pid, 0>>]),
           ~Active(group'[call[c].pid]), ~hit'
    PROVE  ProcsInv'
<1>1. owner = "up" /\ call[c].pid \in Pids /\ call[c].pid # None
  BY CallHolds DEF ProcsInv, CallInv, CallOK, Holding, Leading
<1>2. k \in CallRecs /\ k.at \in {"draining", "done"} /\ (k.pid = None <=> k.at = "done")
  BY <1>1 DEF CallRecs
<1>3. CallOK(c, k, group', unseen', owner')
  BY <1>1, <1>2 DEF CallOK, Leading
<1>4. k.at \notin Holding /\ k.at \notin {"forking", "forked"} /\ Lists(c, k)
  BY <1>2 DEF Holding, Leading, Lists, Listed
<1>5. [k |-> "strike", of |-> <<call[c].pid, 0>>] \in Changes(SoundIn(group, clock))
  BY <1>1 DEF Changes
<1>6. UNCHANGED <<listed, file, watching>> /\ queue' = Append(queue, [k |-> "strike", of |-> <<call[c].pid, 0>>])
  BY DEF Send
<1>. QED  BY <1>3, <1>4, <1>5, <1>6, CallMoves

LEMMA ALeaderIsWaitedFor ==
    ASSUME ProcsAssumption, ProcsInv, NEW c \in Calls, LeaderWaited(c)
    PROVE  ProcsInv'
<1>. DEFINE p == call[c].pid
            g == [group EXCEPT ![p] = Waited(group[p])]
<1>1. /\ call[c].at \in {"running", "terming", "killing"} /\ Groups(g, {c}) /\ UNCHANGED <<clock, boot, owner, exits, reap>>
      /\ IF g[p] = NoGroup THEN Settled(c) /\ UNCHANGED hit
         ELSE Goes(c, "remaining", p) /\ Signalled({p}) /\ UNCHANGED <<live, record>>
  BY DEF LeaderWaited, Reaped
<1>2. call[c].at \in Leading /\ call[c].at \in Listed /\ call[c].at \in Holding
  BY <1>1 DEF Leading, Listed, Holding
<1>3. /\ owner = "up" /\ p \in Pids /\ group[p].by = c /\ GroupOK(group[p])
  BY <1>2, LeaderStays
<1>4. AgesTo(group[p], Waited(group[p]))
  BY <1>3, GroupAges
<1>5. /\ Ages({c}) /\ group'[p] = Waited(group[p])
      /\ \A d \in Calls \ {c} : call[d].at \in Leading => KeepsLeader(group[call[d].pid], group'[call[d].pid])
  BY <1>1, <1>2, <1>4, OthersKeep
<1>6. group' = g
  BY <1>1 DEF Groups
<1>. HIDE DEF g
<1>7. CASE g[p] = NoGroup
  <2>. DEFINE k == [at |-> "draining", pid |-> p]
  <2>1. Settled(c) /\ ~hit'
    BY <1>1, <1>7 DEF ProcsInv, NoStrangerSignalled
  <2>2. /\ call' = [call EXCEPT ![c] = k] /\ live' = live \ {p} /\ Send([k |-> "strike", of |-> <<p, 0>>])
    BY <2>1 DEF Settled, Goes
  <2>3. ~Active(group'[p])
    BY <1>6, <1>7, NoGroupOK
  <2>4. k \in [at : {"draining"}, pid : {p}]
    OBVIOUS
  <2>. QED  BY <1>1, <1>2, <1>5, <2>1, <2>2, <2>3, <2>4, CallLetsGo
<1>8. CASE g[p] # NoGroup
  <2>. DEFINE k == [at |-> "remaining", pid |-> p]
  <2>1. Goes(c, "remaining", p) /\ Signalled({p}) /\ UNCHANGED <<live, record>>
    BY <1>1, <1>8
  <2>2. k \in CallRecs /\ k.at = "remaining" /\ k.pid = p /\ call' = [call EXCEPT ![c] = k]
    BY <1>3, <2>1 DEF CallRecs, Goes
  <2>. HIDE DEF k
  <2>3. group'[p].by = c
    BY <1>3, <1>4, <1>5, <1>6, <1>8 DEF AgesTo
  <2>4. CallOK(c, k, group', unseen', owner')
    BY <1>1, <1>3, <2>2, <2>3, NoGroupOK DEF CallOK, Leading, ProcsAssumption
  <2>5. k.at \in Holding /\ k.at \notin {"forking", "forked"}
    BY <2>2 DEF Holding
  <2>6. Lists(c, k)
    <3>1. k.at \in Listed /\ p \in live
      BY <1>2, <2>2 DEF Listed, ProcsInv, ListInv
    <3>. QED  BY <2>1, <2>2, <3>1 DEF Lists
  <2>7. ~hit'
    BY <1>2, <2>1, OwnSignal
  <2>. QED  BY <1>1, <1>2, <1>5, <2>1, <2>2, <2>4, <2>5, <2>6, <2>7, CallMoves DEF record
<1>. QED  BY <1>7, <1>8

LEMMA ACallLooks ==
    ASSUME ProcsAssumption, ProcsInv, NEW c \in Calls, Look(c)
    PROVE  ProcsInv'
<1>. DEFINE p == call[c].pid
<1>1. /\ call[c].at = "remaining" /\ group[p] # NoGroup /\ Groups(group, {c})
      /\ UNCHANGED <<clock, boot, hit, owner, call, live, exits, record, reap>>
      /\ call[c].at \in Holding /\ call[c].at \in Listed
  BY DEF Look, At, process_group_exists, Holding, Listed
<1>2. owner = "up" /\ p \in Pids /\ group[p].by = c /\ GroupOK(group[p])
  BY <1>1, CallHolds
<1>3. [group EXCEPT ![p] = group[p]] = group
  BY DEF ProcsInv, KernelInv
<1>4. /\ Ages({c}) /\ group'[p] = group[p]
      /\ \A d \in Calls \ {c} : call[d].at \in Leading => KeepsLeader(group[call[d].pid], group'[call[d].pid])
  <2>1. Groups([group EXCEPT ![p] = group[p]], {c}) /\ AgesTo(group[p], group[p])
    BY <1>1, <1>2, <1>3, GroupAges
  <2>. QED  BY <1>1, <2>1, OthersKeep
<1>5. call' = [call EXCEPT ![c] = call[c]] /\ CallOK(c, call[c], group', unseen', owner')
  <2>1. CallOK(c, call[c], group, unseen, owner) /\ call \in [Calls -> CallRecs]
    BY DEF ProcsInv, CallInv
  <2>. QED  BY <1>1, <1>2, <1>4, <2>1 DEF CallOK, Leading
<1>6. Lists(c, call[c])
  BY <1>1 DEF Lists, ProcsInv, ListInv
<1>7. ~hit' /\ call[c].at \notin {"forking", "forked"}
  BY <1>1 DEF ProcsInv, NoStrangerSignalled
<1>. QED  BY <1>1, <1>4, <1>5, <1>6, <1>7, CallMoves DEF record

LEMMA ACallSettles ==
    ASSUME ProcsAssumption, ProcsInv, NEW c \in Calls, FoundGone(c) \/ RemainingKilled(c) \/ Dropped(c)
    PROVE  ProcsInv'
<1>. DEFINE p == call[c].pid
<1>1. /\ call[c].at \in Listed /\ call[c].at \in Holding
      /\ UNCHANGED <<clock, boot, owner, exits, reap>> /\ (hit' = hit \/ Signalled({p}))
      /\ live' = live \ {p} /\ Send([k |-> "strike", of |-> <<p, 0>>])
      /\ Goes(c, "draining", p) \/ Goes(c, "done", None)
  BY DEF FoundGone, RemainingKilled, Dropped, At, Settled, Listed, Holding, Leading
<1>2. p \in Pids /\ GroupOK(group[p]) /\ ~hit'
  BY <1>1, CallHolds, OwnSignal DEF ProcsInv, NoStrangerSignalled
<1>3. PICK h : AgesTo(group[p], h) /\ ~Active(h) /\ Groups([group EXCEPT ![p] = h], {c})
  <2>1. CASE FoundGone(c)
    <3>1. [group EXCEPT ![p] = group[p]] = group
      BY DEF ProcsInv, KernelInv
    <3>2. group[p] = NoGroup /\ Groups(group, {c})
      BY <2>1 DEF FoundGone, process_group_exists
    <3>. QED  BY <1>2, <3>1, <3>2, NoGroupOK, GroupAges
  <2>2. CASE RemainingKilled(c)
    BY <1>2, <2>2, GroupAges DEF RemainingKilled
  <2>3. CASE Dropped(c)
    <3>. DEFINE h == Waited(Killed(group[p]))
    <3>1. AgesTo(group[p], Killed(group[p])) /\ ~Active(Killed(group[p])) /\ GroupOK(Killed(group[p]))
      BY <1>2, GroupAges DEF AgesTo
    <3>2. AgesTo(Killed(group[p]), h)
      BY <3>1, GroupAges
    <3>3. Groups([group EXCEPT ![p] = h], {c})
      BY <2>3 DEF Dropped
    <3>. HIDE DEF h
    <3>4. AgesTo(group[p], h) /\ ~Active(h)
      BY <3>1, <3>2 DEF AgesTo
    <3>. QED  BY <3>3, <3>4
  <2>. QED  BY <2>1, <2>2, <2>3
<1>4. /\ Ages({c}) /\ group'[p] = h
      /\ \A d \in Calls \ {c} : call[d].at \in Leading => KeepsLeader(group[call[d].pid], group'[call[d].pid])
  BY <1>1, <1>3, OthersKeep
<1>5. PICK k : /\ k \in [at : {"draining"}, pid : {p}] \cup [at : {"done"}, pid : {None}]
               /\ call' = [call EXCEPT ![c] = k]
  <2>1. CASE Goes(c, "draining", p)
    <3>1. [at |-> "draining", pid |-> p] \in [at : {"draining"}, pid : {p}]
      OBVIOUS
    <3>. QED  BY <2>1, <3>1 DEF Goes
  <2>2. CASE Goes(c, "done", None)
    <3>1. [at |-> "done", pid |-> None] \in [at : {"done"}, pid : {None}]
      OBVIOUS
    <3>. QED  BY <2>2, <3>1 DEF Goes
  <2>. QED  BY <1>1, <2>1, <2>2
<1>. QED  BY <1>1, <1>2, <1>3, <1>4, <1>5, CallLetsGo

------------------------------------------------------------------------------
(* Steps of the exit *)

LEMMA LeadersKept ==
    ASSUME ProcsAssumption, ProcsInv, UNCHANGED group
    PROVE  \A c \in Calls : call[c].at \in Leading => KeepsLeader(group[call[c].pid], group'[call[c].pid])
BY LeaderStays, GroupAges

\* The list of live groups names no stranger's, and all that a spawn in flight does not hold.
LEMMA LiveIsOwn ==
    ASSUME ProcsAssumption, ProcsInv
    PROVE  /\ \A p \in live : p \in Pids /\ group[p].by # "stranger"
           /\ owner = "up" /\ Holders = {} => \A p \in Pids : group[p].by \in Calls /\ Active(group[p]) => p \in live
<1>1. live = {call[c].pid : c \in {d \in Calls : call[d].at \in Listed}} /\ Listed \subseteq Holding
  BY DEF ProcsInv, ListInv, Listed, Holding, Leading
<1>2. \A p \in live : p \in Pids /\ group[p].by # "stranger"
  BY <1>1, CallHolds
<1>3. ASSUME owner = "up", Holders = {}, NEW p \in Pids, group[p].by \in Calls, Active(group[p]) PROVE p \in live
  <2>1. call[group[p].by].pid = p /\ call[group[p].by].at \in Leading \cup {"remaining"}
    BY <1>3 DEF ProcsInv, RunInv
  <2>2. call[group[p].by].at \in Listed
    BY <1>3, <2>1 DEF Holders, Leading, Listed
  <2>. QED  BY <1>1, <1>3, <2>1, <2>2
<1>. QED  BY <1>2, <1>3

LEMMA TheExitBegins ==
    ASSUME ProcsAssumption, ProcsInv, ExitBegins \/ ExitCloses
    PROVE  ProcsInv'
<1>1. /\ UNCHANGED <<group, clock, boot, unseen, hit, owner, call, live, listed, file, reap>>
      /\ exit' \in {"waiting", "closing"}
      /\ queue' = queue \/ queue' = Append(queue, [k |-> "close"])
  BY DEF ExitBegins, ExitCloses, kernel, record, Send
<1>2. Ages({}) /\ ~hit'
  BY <1>1, StillAges DEF ProcsInv, NoStrangerSignalled
<1>3. [k |-> "close"] \in Changes(SoundIn(group, clock))
  BY DEF Changes
<1>4. RecordInv' /\ ReapInv'
  BY <1>1, <1>2, <1>3, RecordAges, ReadersAge
<1>5. ExitInv'
  <2>1. CASE ExitBegins
    BY <2>1 DEF ExitBegins, ExitInv
  <2>2. CASE ExitCloses /\ exit = "killed"
    BY <1>1, <2>2 DEF ExitCloses, ExitInv, Holders, ProcsInv
  <2>3. CASE ExitCloses /\ exit = "no"
    <3>1. /\ exit' = "closing" /\ owner = "up" /\ \A c \in Calls : call[c].at \in {"idle", "draining", "done"}
      BY <2>3 DEF ExitCloses
    <3>2. Holders = {} /\ {c \in Calls : call[c].at \in Listed} = {}
      BY <3>1 DEF Holders, Listed
    <3>3. live = {}
      BY <3>2 DEF ProcsInv, ListInv
    <3>4. \A p \in Pids : group[p].by \in Calls => ~Active(group[p])
      BY <3>1, <3>2, <3>3, LiveIsOwn
    <3>5. Holders' = {} /\ UNCHANGED group
      BY <1>1, <3>2 DEF Holders
    <3>. QED  BY <3>1, <3>4, <3>5 DEF ExitInv
  <2>. QED  BY <2>1, <2>2, <2>3 DEF ExitCloses
<1>. QED  BY <1>1, <1>2, <1>4, <1>5, LeadersKept, CallsStay

LEMMA TheExitKills ==
    ASSUME ProcsAssumption, ProcsInv, ExitKills
    PROVE  ProcsInv'
<1>. DEFINE g == [p \in Pids |-> IF p \in live THEN Killed(group[p]) ELSE group[p]]
<1>1. /\ owner = "up" /\ exit = "waiting" /\ exit' = "killed" /\ gave_up' = (Holders # {}) /\ Signalled(live)
      /\ Groups(g, {}) /\ queue' = Append(queue, [k |-> "clear"])
      /\ UNCHANGED <<clock, boot, owner, call, live, exiting, reap, listed, file>>
  BY DEF ExitKills, Send
<1>2. \A p \in Pids : group[p] \in GroupRecs /\ GroupOK(group[p])
  BY DEF ProcsInv, KernelInv
<1>3. \A p \in Pids : AgesTo(group[p], g[p]) /\ KeepsLeader(group[p], g[p]) /\ (p \in live => ~Active(g[p]))
  BY <1>1, <1>2, GroupAges
<1>4. g \in [Pids -> GroupRecs]
  BY <1>3 DEF AgesTo, GroupOK
<1>. HIDE DEF g
<1>5. Ages({}) /\ group' = g
  BY <1>1, <1>3, <1>4 DEF Ages, Groups
<1>6. \A c \in Calls : call[c].at \in Leading => KeepsLeader(group[call[c].pid], group'[call[c].pid])
  BY <1>3, <1>5, LeaderStays
<1>7. ~hit'
  BY <1>1, LiveIsOwn DEF Signalled, ProcsInv, NoStrangerSignalled
<1>8. [k |-> "clear"] \in Changes(SoundIn(group, clock))
  BY DEF Changes
<1>9. RecordInv' /\ ReapInv'
  BY <1>1, <1>5, <1>8, RecordAges, ReadersAge
<1>10. ExitInv'
  <2>1. exiting' /\ Holders' = Holders
    BY <1>1 DEF ProcsInv, ExitInv, Holders
  <2>2. ASSUME Holders = {}, NEW p \in Pids, group'[p].by \in Calls PROVE ~Active(group'[p])
    <3>1. AgesTo(group[p], g[p]) /\ (p \in live => ~Active(g[p]))
      BY <1>3
    <3>2. group'[p] # NoGroup
      BY <2>2, NoGroupOK
    <3>3. group[p].by = group'[p].by /\ (Active(group'[p]) => Active(group[p]))
      BY <1>5, <3>1, <3>2 DEF AgesTo
    <3>. QED  BY <1>1, <1>5, <2>2, <3>1, <3>3, LiveIsOwn
  <2>. QED  BY <1>1, <2>1, <2>2 DEF ExitInv
<1>. QED  BY <1>1, <1>5, <1>6, <1>7, <1>9, <1>10, CallsStay

LEMMA TheOwnerEnds ==
    ASSUME ProcsAssumption, ProcsInv, OwnerEnds
    PROVE  ProcsInv'
<1>. DEFINE g == [p \in Pids |-> IF group[p].leader = "zombie" THEN Waited(group[p]) ELSE group[p]]
<1>1. /\ owner' = "zombie" /\ MemoryIsGone /\ Groups(g, Calls) /\ UNCHANGED <<clock, boot, hit, exits, file, reap>>
  BY DEF OwnerEnds
<1>2. \A p \in Pids : group[p] \in GroupRecs /\ GroupOK(group[p])
  BY DEF ProcsInv, KernelInv
<1>3. \A p \in Pids : AgesTo(group[p], g[p])
  BY <1>2, GroupAges
<1>4. g \in [Pids -> GroupRecs]
  BY <1>3 DEF AgesTo, GroupOK
<1>. HIDE DEF g
<1>5. Ages(Calls) /\ group' = g
  BY <1>1, <1>3, <1>4 DEF Ages, Groups
<1>6. KernelInv' /\ ReapInv' /\ SoundIn(group, clock) \subseteq SoundIn(group', clock')
  <2>1. Calls \cap Reapers = {}
    BY DEF Reapers, ProcsAssumption
  <2>. QED  BY <1>1, <1>5, <2>1, KernelAges, ReadersAge
<1>. DEFINE k == [at |-> "done", pid |-> None]
<1>7. k \in CallRecs /\ k.at = "done" /\ k.pid = None
  BY DEF CallRecs
<1>8. call' = [c \in Calls |-> k] /\ live' = {} /\ queue' = <<>> /\ listed' = {}
  BY <1>1 DEF MemoryIsGone
<1>. HIDE DEF k
<1>9. CallInv' /\ ApartInv' /\ RunInv'
  BY <1>1, <1>7, <1>8 DEF CallInv, CallOK, ApartInv, RunInv, Holding, Leading
<1>10. RecordInv'
  <2>1. <<>> \in Seq(Changes(SoundIn(group', clock')))
    OBVIOUS
  <2>2. RecordOK(file, group', clock', boot)
    BY <1>6 DEF ProcsInv, RecordInv, RecordOK
  <2>. QED  BY <1>1, <1>8, <2>1, <2>2 DEF RecordInv
<1>11. ListInv'
  <2>1. {c \in Calls : call'[c].at \in Listed} = {}
    BY <1>7, <1>8 DEF Listed
  <2>. QED  BY <1>1, <1>8, <2>1 DEF ListInv, exits, ProcsInv
<1>12. ExitInv' /\ NoStrangerSignalled'
  <2>1. \A p \in Pids : group'[p].by \in Calls /\ Active(group'[p]) => group[p].by \in Calls /\ Active(group[p])
    BY <1>5, NoGroupOK DEF Ages, AgesTo
  <2>2. Holders' = {}
    BY <1>7, <1>8 DEF Holders
  <2>. QED  BY <1>1, <2>1, <2>2 DEF ExitInv, ProcsInv, exits, NoStrangerSignalled
<1>. QED  BY <1>6, <1>9, <1>10, <1>11, <1>12 DEF ProcsInv

LEMMA TheOwnerIsGone ==
    ASSUME ProcsAssumption, ProcsInv, OwnerWaited \/ OwnerPidTaken
    PROVE  ProcsInv'
<1>1. /\ UNCHANGED <<group, clock, boot, unseen, hit, call, live, exits, queue, listed, file, reap>>
      /\ owner # "up" /\ owner' \in {"gone", "taken"}
  BY DEF OwnerWaited, OwnerPidTaken, kernel, record
<1>2. Ages({}) /\ ~hit'
  BY <1>1, StillAges DEF ProcsInv, NoStrangerSignalled
<1>3. RecordInv' /\ ReapInv'
  BY <1>1, <1>2, RecordAges, ReadersAge
<1>4. ExitInv' /\ exit' \in {"no", "waiting", "killed", "closing"}
  BY <1>1, <1>2, ExitAges
<1>. QED  BY <1>1, <1>2, <1>3, <1>4, LeadersKept, CallsStay

------------------------------------------------------------------------------
(* Steps of the record's thread *)

LEMMA TheRecordMoves ==
    ASSUME ProcsAssumption, ProcsInv, RecordInv', UNCHANGED <<kernel, owner, call, live, exits, reap>>
    PROVE  ProcsInv'
<1>1. UNCHANGED <<group, clock, boot, unseen, hit, owner, call, live, exits, reap>>
  BY DEF kernel
<1>2. Ages({}) /\ ~hit'
  BY <1>1, StillAges DEF ProcsInv, NoStrangerSignalled
<1>3. ReapInv'
  BY <1>1, <1>2, ReadersAge
<1>4. ExitInv' /\ exit' \in {"no", "waiting", "killed", "closing"}
  BY <1>1, <1>2, ExitAges
<1>. QED  BY <1>1, <1>2, <1>3, <1>4, LeadersKept, CallsStay

LEMMA ARecordChanges ==
    ASSUME ProcsAssumption, ProcsInv, Add \/ Strike \/ Clear \/ Close
    PROVE  ProcsInv'
<1>. DEFINE sound == SoundIn(group, clock)
<1>1. /\ queue \in Seq(Changes(sound)) /\ listed \subseteq sound /\ RecordOK(file, group, clock, boot)
      /\ boot \in {0, 1} /\ sound \subseteq Pids \X (0..MaxStart)
  BY DEF ProcsInv, RecordInv, KernelInv, SoundIn
<1>2. /\ UNCHANGED <<kernel, owner, call, live, exits, reap>> /\ queue # <<>> /\ queue' = Tail(queue)
      /\ SoundIn(group', clock') = sound /\ boot' = boot
  <2>1. /\ UNCHANGED <<kernel, owner, call, live, exits, reap>> /\ queue # <<>> /\ queue' = Tail(queue)
    BY DEF Add, Strike, Clear, Close, Change
  <2>2. UNCHANGED <<group, clock, boot>>
    BY <2>1 DEF kernel
  <2>. QED  BY <2>1, <2>2
<1>. HIDE DEF sound
<1>3. queue' \in Seq(Changes(sound)) /\ Head(queue) \in Changes(sound)
  BY <1>1, <1>2
<1>4. ASSUME NEW list \in SUBSET sound, Write(list) PROVE listed' \subseteq sound /\ RecordOK(file', group', clock', boot')
  <2>. DEFINE f == [list |-> list, boot |-> boot]
  <2>1. f.list = list /\ f.boot = boot /\ f.boot \in 0..boot
    BY <1>1
  <2>2. file' = f /\ listed' = list
    BY <1>4 DEF Write
  <2>. HIDE DEF f
  <2>3. RecordOK(f, group', clock', boot')
    BY <1>1, <1>2, <2>1 DEF RecordOK
  <2>. QED  BY <2>2, <2>3
<1>5. RecordOK(file, group', clock', boot') /\ RecordOK(None, group', clock', boot')
  BY <1>1, <1>2 DEF RecordOK, sound
<1>6. listed' \subseteq sound /\ RecordOK(file', group', clock', boot')
  <2>1. CASE Add
    <3>1. Head(queue).k = "add" /\ Write(listed \cup {Head(queue).of})
      BY <2>1 DEF Add, Change
    <3>2. Head(queue).of \in sound
      BY <1>3, <3>1 DEF Changes
    <3>3. listed \cup {Head(queue).of} \in SUBSET sound
      BY <1>1, <3>2
    <3>. QED  BY <1>4, <3>1, <3>3
  <2>2. CASE Strike
    <3>. DEFINE struck == {l \in listed : l[1] = Head(queue).of[1]}
    <3>1. IF struck = {} THEN UNCHANGED <<listed, file, watching>> ELSE Write(listed \ struck)
      BY <2>2 DEF Strike
    <3>2. listed \ struck \in SUBSET sound
      BY <1>1
    <3>. HIDE DEF struck
    <3>. QED  BY <1>1, <1>4, <1>5, <3>1, <3>2
  <2>3. CASE Clear
    BY <1>5, <2>3 DEF Clear
  <2>4. CASE Close
    BY <1>1, <1>5, <2>4 DEF Close
  <2>. QED  BY <2>1, <2>2, <2>3, <2>4
<1>7. RecordInv'
  BY <1>2, <1>3, <1>6 DEF RecordInv
<1>. QED  BY <1>2, <1>7, TheRecordMoves

------------------------------------------------------------------------------
(* Steps of the readers *)

LEMMA AReaderMoves ==
    ASSUME ProcsAssumption, ProcsInv, NEW r \in Reapers, NEW seen, seen \subseteq {r}, Ages(seen),
           NEW k \in ReapRecs, reap' = [reap EXCEPT ![r] = k], ReapOK(r, k, group', unseen'),
           \A c \in Calls : call[c].at \in Leading => KeepsLeader(group[call[c].pid], group'[call[c].pid]),
           UNCHANGED <<owner, call, live, exits, queue, listed>>, file' \in {file, None}, ~hit'
    PROVE  ProcsInv'
<1>1. seen \cap Calls = {}
  BY DEF Reapers, ProcsAssumption
<1>2. ReapInv'
  <2>1. reap \in [Reapers -> ReapRecs]
    BY DEF ProcsInv, ReapInv
  <2>2. reap' \in [Reapers -> ReapRecs] /\ reap'[r] = k /\ \A s \in Reapers \ {r} : reap'[s] = reap[s]
    BY <2>1
  <2>3. \A s \in Reapers : ReapOK(s, reap'[s], group', unseen')
    BY <2>2, ReapAges
  <2>. QED  BY <2>2, <2>3 DEF ReapInv
<1>3. ExitInv' /\ exit' \in {"no", "waiting", "killed", "closing"}
  BY ExitAges
<1>4. RecordInv'
  <2>1. CASE file' = file
    BY <2>1, RecordAges
  <2>2. CASE file' = None
    <3>1. SoundIn(group, clock) \subseteq SoundIn(group', clock')
      BY KernelAges
    <3>2. Changes(SoundIn(group, clock)) \subseteq Changes(SoundIn(group', clock'))
      <4>1. [k : {"add"}, of : SoundIn(group, clock)] \subseteq [k : {"add"}, of : SoundIn(group', clock')]
        BY <3>1
      <4>. QED  BY <4>1 DEF Changes
    <3>3. queue \in Seq(Changes(SoundIn(group, clock))) /\ listed \subseteq SoundIn(group, clock)
      BY DEF ProcsInv, RecordInv
    <3>4. queue' \in Seq(Changes(SoundIn(group', clock')))
      BY <3>2, <3>3
    <3>. QED  BY <2>2, <3>1, <3>3, <3>4 DEF RecordInv, RecordOK
  <2>. QED  BY <2>1, <2>2
<1>. QED  BY <1>1, <1>2, <1>3, <1>4, CallsStay

\* A group of the record whose leader started when it says is a command's.
LEMMA OursAreOwn ==
    ASSUME ProcsAssumption, ProcsInv, Stale, written_in, NEW l \in Ours(file.list)
    PROVE  l \in Pids \X (0..MaxStart) /\ group[l[1]].by \in Calls
<1>1. RecordOK(file, group, clock, boot) /\ file # None /\ file.boot = boot
  BY DEF ProcsInv, RecordInv, Stale, written_in
<1>2. l \in SoundIn(group, clock) /\ start_time(l[1]) = l[2]
  BY <1>1 DEF RecordOK, Ours
<1>3. /\ l \in Pids \X (0..MaxStart) /\ l[1] \in Pids /\ l[2] \in 0..MaxStart
      /\ \A p \in Pids : group[p].by = "stranger" => group[p].start # l[2]
  BY <1>2 DEF SoundIn
<1>4. l[2] # None
  BY <1>3 DEF ProcsAssumption
<1>5. group[l[1]].leader # "gone" /\ group[l[1]].start = l[2]
  BY <1>2, <1>4 DEF start_time
<1>6. group[l[1]] # NoGroup /\ group[l[1]].by # "stranger"
  BY <1>3, <1>5 DEF NoGroup
<1>. QED  BY <1>3, <1>6 DEF ProcsInv, KernelInv, GroupOK

LEMMA AReaderReads ==
    ASSUME ProcsAssumption, ProcsInv, WatcherReads \/ LaunchReads
    PROVE  ProcsInv'
<1>1. PICK r \in Reapers, inside \in Pids \cup {None} : Reads(r, inside)
  BY DEF WatcherReads, LaunchReads, Reapers
<1>. DEFINE ours == IF Stale /\ written_in THEN Ours(file.list) ELSE {}
            own == {l \in ours : l[1] = inside}
            others == ours \ own
            k == [at |-> "stops", list |-> others, inside |-> inside, keeps |-> ~Stale \/ own # {}]
<1>2. /\ Signalled({l[1] : l \in others}) /\ reap' = [reap EXCEPT ![r] = k]
      /\ UNCHANGED <<group, clock, boot, unseen, owner, call, live, exits, record>>
  BY <1>1 DEF Reads
<1>3. \A l \in others : l \in Pids \X (0..MaxStart) /\ group[l[1]].by \in Calls
  BY OursAreOwn
<1>. HIDE DEF ours
<1>4. k \in ReapRecs /\ k.list = others
  <2>1. others \in SUBSET (Pids \X (0..MaxStart)) /\ (~Stale \/ own # {}) \in BOOLEAN
    BY <1>3
  <2>. HIDE DEF others, own
  <2>. QED  BY <2>1 DEF ReapRecs
<1>. HIDE DEF others, own, k
<1>5. ReapOK(r, k, group', unseen')
  BY <1>2, <1>3, <1>4 DEF ReapOK
<1>6. ~hit'
  <2>1. \A l \in others : group[l[1]].by # "stranger"
    BY <1>3 DEF ProcsAssumption
  <2>. QED  BY <1>2, <2>1 DEF Signalled, ProcsInv, NoStrangerSignalled
<1>7. Ages({})
  BY <1>2, StillAges
<1>. QED  BY <1>2, <1>4, <1>5, <1>6, <1>7, LeadersKept, AReaderMoves DEF record

\* A group that is looked at again, and there, is still a command's.
LEMMA KeptAreOwn ==
    ASSUME ProcsAssumption, ProcsInv, NEW r \in Reapers, reap[r].at = "stops", NEW l \in Kept(r)
    PROVE  l \in Pids \X (0..MaxStart) /\ group[l[1]].by \in Calls /\ group[l[1]].by # "stranger"
<1>1. l \in reap[r].list /\ group[l[1]] # NoGroup
  BY DEF Kept, is_recorded_group, process_group_exists
<1>2. ReapOK(r, reap[r], group, unseen) /\ reap[r] \in ReapRecs
  BY DEF ProcsInv, ReapInv
<1>3. l \in Pids \X (0..MaxStart)
  BY <1>1, <1>2 DEF ReapRecs
<1>4. group[l[1]].by \in Calls
  BY <1>1, <1>2 DEF ReapOK
<1>. QED  BY <1>3, <1>4 DEF ProcsAssumption

LEMMA AReaperLooks ==
    ASSUME ProcsAssumption, ProcsInv, NEW r \in Reapers, ReaperLooks(r)
    PROVE  ProcsInv'
<1>. DEFINE k == [reap[r] EXCEPT !.list = Kept(r)]
<1>1. /\ reap[r].at = "stops" /\ Groups(group, {r}) /\ reap' = [reap EXCEPT ![r].list = Kept(r)]
      /\ UNCHANGED <<clock, boot, hit, owner, call, live, exits, record>>
  BY DEF ReaperLooks
<1>2. /\ reap \in [Reapers -> ReapRecs] /\ group \in [Pids -> GroupRecs]
      /\ \A p \in Pids : GroupOK(group[p])
  BY DEF ProcsInv, ReapInv, KernelInv
<1>3. \A l \in Kept(r) : l \in Pids \X (0..MaxStart) /\ group[l[1]].by \in Calls
  BY <1>1, KeptAreOwn
<1>4. k \in ReapRecs /\ k.list = Kept(r)
  BY <1>2, <1>3 DEF ReapRecs
<1>5. reap' = [reap EXCEPT ![r] = k]
  BY <1>1, <1>2
<1>. HIDE DEF k
<1>6. group' = group
  BY <1>1 DEF Groups
<1>7. Ages({r})
  BY <1>1, <1>2, <1>6, GroupAges DEF Ages
<1>8. ReapOK(r, k, group', unseen')
  BY <1>3, <1>4, <1>6 DEF ReapOK
<1>9. ~hit'
  BY <1>1 DEF ProcsInv, NoStrangerSignalled
<1>. QED  BY <1>1, <1>4, <1>5, <1>6, <1>7, <1>8, <1>9, LeadersKept, AReaderMoves DEF record

LEMMA AReaperEnds ==
    ASSUME ProcsAssumption, ProcsInv, NEW r \in Reapers, ReaperEnds(r)
    PROVE  ProcsInv'
<1>. DEFINE killed == {l[1] : l \in Kept(r)}
            g == [p \in Pids |-> IF p \in killed THEN Killed(group[p]) ELSE group[p]]
            k == [at |-> IF r = "launch" THEN "none" ELSE "done", list |-> {}, inside |-> None, keeps |-> FALSE]
<1>1. /\ reap[r].at = "stops" /\ Signalled(killed) /\ Groups(g, {r}) /\ reap' = [reap EXCEPT ![r] = k]
      /\ file' \in {file, None}
      /\ UNCHANGED <<clock, boot, owner, call, live, exits, queue, listed>>
  BY DEF ReaperEnds
<1>2. \A p \in Pids : group[p] \in GroupRecs /\ GroupOK(group[p])
  BY DEF ProcsInv, KernelInv
<1>3. \A p \in Pids : AgesTo(group[p], g[p]) /\ (owner = "up" => KeepsLeader(group[p], g[p]))
  BY <1>2, GroupAges
<1>4. g \in [Pids -> GroupRecs]
  BY <1>3 DEF AgesTo, GroupOK
<1>5. \A p \in killed : group[p].by # "stranger"
  BY <1>1, KeptAreOwn
<1>. HIDE DEF g, killed
<1>6. Ages({r}) /\ group' = g
  BY <1>1, <1>3, <1>4 DEF Ages, Groups
<1>7. \A c \in Calls : call[c].at \in Leading => KeepsLeader(group[call[c].pid], group'[call[c].pid])
  BY <1>3, <1>6, LeaderStays
<1>8. k \in ReapRecs /\ k.at # "stops"
  BY DEF ReapRecs
<1>. HIDE DEF k
<1>9. ReapOK(r, k, group', unseen')
  BY <1>8 DEF ReapOK
<1>10. ~hit'
  BY <1>1, <1>5 DEF Signalled, ProcsInv, NoStrangerSignalled
<1>. QED  BY <1>1, <1>6, <1>7, <1>8, <1>9, <1>10, AReaderMoves

LEMMA ALaunchDies ==
    ASSUME ProcsAssumption, ProcsInv, LaunchDies
    PROVE  ProcsInv'
<1>. DEFINE k == [at |-> "none", list |-> {}, inside |-> None, keeps |-> FALSE]
<1>1. /\ reap' = [reap EXCEPT !["launch"] = k] /\ unseen' = {u \in unseen : u[1] # "launch"}
      /\ UNCHANGED <<group, clock, boot, hit, owner, call, live, exits, record>>
  BY DEF LaunchDies
<1>2. k \in ReapRecs /\ k.at # "stops" /\ "launch" \in Reapers
  BY DEF ReapRecs, Reapers
<1>. HIDE DEF k
<1>3. Groups(group', {"launch"})
  BY <1>1 DEF Groups, process_group_exists
<1>4. group \in [Pids -> GroupRecs] /\ \A p \in Pids : GroupOK(group[p])
  BY DEF ProcsInv, KernelInv
<1>5. Ages({"launch"})
  BY <1>1, <1>3, <1>4, GroupAges DEF Ages
<1>6. ReapOK("launch", k, group', unseen')
  BY <1>2 DEF ReapOK
<1>7. ~hit'
  BY <1>1 DEF ProcsInv, NoStrangerSignalled
<1>. QED  BY <1>1, <1>2, <1>5, <1>6, <1>7, LeadersKept, AReaderMoves DEF record

LEMMA AWatcherStarts ==
    ASSUME ProcsAssumption, ProcsInv, StartWatcher
    PROVE  ProcsInv'
<1>1. PICK at \in {"none", "waits"} : reap' = [reap EXCEPT !["watcher"].at = at]
  BY DEF StartWatcher
<1>. DEFINE k == [reap["watcher"] EXCEPT !.at = at]
<1>2. UNCHANGED <<group, clock, boot, unseen, hit, owner, call, live, exits, queue, listed, file>>
  BY DEF StartWatcher, kernel
<1>3. reap \in [Reapers -> ReapRecs] /\ "watcher" \in Reapers
  BY DEF ProcsInv, ReapInv, Reapers
<1>4. k \in ReapRecs /\ k.at # "stops"
  BY <1>3 DEF ReapRecs
<1>5. reap' = [reap EXCEPT !["watcher"] = k]
  BY <1>1, <1>3
<1>. HIDE DEF k
<1>6. Ages({}) /\ ReapOK("watcher", k, group', unseen') /\ ~hit'
  BY <1>2, <1>4, StillAges DEF ReapOK, ProcsInv, NoStrangerSignalled
<1>. QED  BY <1>2, <1>3, <1>4, <1>5, <1>6, LeadersKept, AReaderMoves

\* After a reboot no record is of this boot.
LEMMA TheMachineReboots ==
    ASSUME ProcsAssumption, ProcsInv, Reboot
    PROVE  ProcsInv'
<1>. DEFINE k == [at |-> "done", pid |-> None]
            n == [at |-> "none", list |-> {}, inside |-> None, keeps |-> FALSE]
<1>1. /\ boot = 0 /\ boot' = 1 /\ clock' = 0 /\ group' = [p \in Pids |-> NoGroup] /\ unseen' = {} /\ owner' = "gone"
      /\ call' = [c \in Calls |-> k] /\ live' = {} /\ queue' = <<>> /\ listed' = {}
      /\ reap' = [r \in DOMAIN reap |-> n] /\ UNCHANGED <<hit, exits, file>>
  BY DEF Reboot, MemoryIsGone
<1>2. k \in CallRecs /\ k.at = "done" /\ k.pid = None /\ n \in ReapRecs /\ n.at = "none"
  BY DEF CallRecs, ReapRecs
<1>. HIDE DEF k, n
<1>3. KernelInv'
  <2>1. NoGroup \in GroupRecs /\ 0 \in 0..MaxStart
    BY DEF NoGroup, GroupRecs, ProcsAssumption
  <2>. QED  BY <1>1, <2>1, NoGroupOK DEF KernelInv
<1>4. CallInv' /\ ApartInv' /\ RunInv'
  BY <1>1, <1>2 DEF CallInv, CallOK, ApartInv, RunInv, Holding, Leading
<1>5. RecordInv'
  <2>1. <<>> \in Seq(Changes(SoundIn(group', clock')))
    OBVIOUS
  <2>2. RecordOK(file, group', clock', boot')
    BY <1>1 DEF ProcsInv, RecordInv, RecordOK
  <2>. QED  BY <1>1, <2>1, <2>2 DEF RecordInv
<1>6. ReapInv'
  <2>1. DOMAIN reap = Reapers
    BY DEF ProcsInv, ReapInv
  <2>. QED  BY <1>1, <1>2, <2>1 DEF ReapInv, ReapOK
<1>7. ListInv'
  <2>1. {c \in Calls : call'[c].at \in Listed} = {}
    BY <1>1, <1>2 DEF Listed
  <2>. QED  BY <1>1, <2>1 DEF ListInv, exits, ProcsInv
<1>8. ExitInv' /\ NoStrangerSignalled'
  <2>1. Holders' = {}
    BY <1>1, <1>2 DEF Holders
  <2>. QED  BY <1>1, <2>1, NoGroupOK DEF ExitInv, ProcsInv, exits, NoStrangerSignalled
<1>. QED  BY <1>3, <1>4, <1>5, <1>6, <1>7, <1>8 DEF ProcsInv

------------------------------------------------------------------------------
(* The theorems *)

LEMMA AStep == ASSUME ProcsAssumption, ProcsInv, [Next]_vars PROVE ProcsInv'
<1>1. CASE \E p \in Pids : StrangerStarts(p) \/ Backgrounds(p) \/ LeaderExits(p) \/ MembersExit(p)
  BY <1>1, AStrangerStarts, AGroupLives
<1>2. CASE \E c \in Calls :
             \/ Begin(c) \/ Fork(c) \/ SpawnFails(c) \/ Register(c) \/ LeaderWaited(c) \/ Stop(c) \/ GraceEnds(c)
             \/ Look(c) \/ FoundGone(c) \/ RemainingKilled(c) \/ Drained(c) \/ Dropped(c)
  BY <1>2, ASpawnBegins, ACommandForks, ACallRegisters, ALeaderIsWaitedFor, ACallStops, ACallLooks, ACallSettles
<1>3. CASE ExitBegins \/ ExitKills \/ ExitCloses \/ ExitEnds \/ Crash \/ OwnerWaited \/ OwnerPidTaken
  BY <1>3, TheExitBegins, TheExitKills, TheOwnerEnds, TheOwnerIsGone DEF ExitEnds, Crash
<1>4. CASE Add \/ Strike \/ Clear \/ Close \/ StartWatcher
  BY <1>4, ARecordChanges, AWatcherStarts
<1>5. CASE WatcherReads \/ LaunchReads \/ LaunchDies \/ Reboot
  BY <1>5, AReaderReads, ALaunchDies, TheMachineReboots
<1>6. CASE \E r \in Reapers : ReaperLooks(r) \/ ReaperEnds(r)
  BY <1>6, AReaperLooks, AReaperEnds
<1>7. CASE UNCHANGED vars
  <2>1. UNCHANGED <<kernel, owner, call, live, exits, reap>> /\ UNCHANGED <<group, clock, boot, queue, listed, file>>
    BY <1>7 DEF vars, kernel, record
  <2>2. RecordInv'
    BY <2>1 DEF RecordInv, ProcsInv
  <2>. QED  BY <2>1, <2>2, TheRecordMoves
<1>. QED  BY <1>1, <1>2, <1>3, <1>4, <1>5, <1>6, <1>7 DEF Next

\* The inductive invariant: every group is a command's, a stranger's or none;
\* a call past its spawn leads its group or has yet to see it fall free; what
\* records hold names no stranger; what runs runs under its call.
THEOREM ProcsInvariant == ProcsAssumption /\ Spec => []ProcsInv
<1>. SUFFICES ASSUME ProcsAssumption PROVE Spec => []ProcsInv
  OBVIOUS
<1>1. Init => ProcsInv
  BY FirstState
<1>2. ProcsInv /\ [Next]_vars => ProcsInv'
  BY AStep
<1>. QED  BY <1>1, <1>2, PTL DEF Spec

\* No group but one a command of the harness started is ever signalled, though
\* numbers are given out again and start times repeat after a reboot.
THEOREM StrangersAreSafe == ProcsAssumption /\ Spec => []NoStrangerSignalled
<1>1. ProcsInv => NoStrangerSignalled
  BY DEF ProcsInv
<1>. QED  BY <1>1, ProcsInvariant, PTL

LEMMA ExitHolds == ASSUME ProcsAssumption, ProcsInv PROVE ExitStopsAll
<1>1. live = {call[c].pid : c \in {d \in Calls : call[d].at \in {"running", "terming", "killing", "remaining"}}}
  BY DEF ProcsInv, ListInv, Listed
<1>2. \A p \in Pids : group[p] # NoGroup => group[p].by \in Calls \cup {"stranger"} /\ Tidy(group[p]) # NoGroup
  BY DEF ProcsInv, KernelInv, GroupOK, Tidy
<1>3. \A c \in Calls : call[c].pid # None <=> call[c].at \notin {"idle", "forking", "done"}
  BY DEF ProcsInv, CallInv, CallOK
<1>4. TypeOK
  BY <1>1, <1>2, <1>3 DEF TypeOK, ProcsInv, ListInv, KernelInv, RecordInv, RecordOK
<1>5. ExitLeavesNothing
  BY DEF ExitLeavesNothing, ProcsInv, ExitInv, Active, Runs
<1>. QED  BY <1>4, <1>5 DEF ExitStopsAll

\* When the exit has killed the groups, and did not give up on a spawn caught
\* between fork and exec, nothing a command started runs any more or later.
THEOREM ExitsStopAll == ProcsAssumption /\ Spec => []ExitStopsAll
<1>. SUFFICES ASSUME ProcsAssumption PROVE Spec => []ExitStopsAll
  OBVIOUS
<1>1. ProcsInv => ExitStopsAll
  BY ExitHolds
<1>. QED  BY <1>1, ProcsInvariant, PTL
================================================================================
