----------------------- MODULE SdramConstraintProofs -----------------------
(***************************************************************************)
(* The timing of the commands for every geometry and every set of delays.   *)
(***************************************************************************)
EXTENDS SdramConstraint, DDR5MemSpec, FiniteSetTheorems, TLAPS

(* The tables know a command of the trace, or a later one of its kind, at every
   place where it was recorded; and none is younger than the last on the bus. *)
Recent ==
  \A h \in trace :
    /\ onbus <= h.age
    /\ \A p \in Places(h.cmd, h.a) \intersect Place : since[Alias(h.cmd)][p] <= h.age

(* A queue of four times is in order, and each activate that is younger than its
   oldest time is in it. *)
Sorted(d) == d[1] >= d[2] /\ d[2] >= d[3] /\ d[3] >= d[4]
Knows(d, age) == age >= d[1] \/ age \in {d[2], d[3], d[4]}
LrankQueues ==
  /\ \A r \in DOMAIN last_4Activates4lrank : Sorted(last_4Activates4lrank[r])
  /\ \A h \in trace : Alias(h.cmd) \in {"ACT", "REFsb"} =>
       Knows(last_4Activates4lrank[h.a.real_cid], h.age)
PrankQueues ==
  /\ \A r \in Cs : Sorted(last_4Activates4prank[r])
  /\ \A h \in trace : Alias(h.cmd) \in {"ACT", "REFsb", "REFab"} =>
       Knows(last_4Activates4prank[h.a.cs], h.age)

(* The banks of a logical rank under refresh are closed. *)
RefreshedClosed ==
  \A h \in trace, b \in open :
    h.cmd = "REFab" /\ SameLrank(h.a, b) => h.age >= timing.tRFC_slr

-----------------------------------------------------------------------------
(* Addresses and places *)

LEMMA SmallNumbers == /\ 0 \in Ba /\ 0 \in 0 .. (NumOfBgPerLogicalRank - 1)
                      /\ Horizon \in Nat /\ Horizon > 0
  BY SdramAssumption DEF Ba

(* A bank's places are in the tables. *)
LEMMA BankPlaces ==
  \A b \in Banks :
    /\ Bank(b.real_ba) \in Place /\ BankGroup(b.real_bg) \in Place
    /\ Lrank(b.real_cid) \in Place /\ Prank(b.cs) \in Place /\ Channel \in Place
  BY DEF Place

(* Every address names a rank that has banks. *)
LEMMA Addresses ==
  \A a \in Address :
    /\ a.cs \in Cs /\ a.cid \in Cid /\ a.real_cid = RealCid(a.cs, a.cid)
    /\ \E b \in Banks : b.cs = a.cs /\ b.real_cid = a.real_cid
<1> SUFFICES ASSUME NEW a \in Address
             PROVE  /\ a.cs \in Cs /\ a.cid \in Cid /\ a.real_cid = RealCid(a.cs, a.cid)
                    /\ \E b \in Banks : b.cs = a.cs /\ b.real_cid = a.real_cid
  OBVIOUS
<1>1. a.cs \in Cs /\ a.cid \in Cid /\ a.real_cid = RealCid(a.cs, a.cid)
  BY DEF Address, Banks, Ranks, BankAddress, RankAddress
<1>2. BankAddress(a.cs, a.cid, 0, 0) \in Banks
  BY <1>1, SmallNumbers DEF Banks
<1>3. /\ BankAddress(a.cs, a.cid, 0, 0).cs = a.cs
      /\ BankAddress(a.cs, a.cid, 0, 0).real_cid = a.real_cid
  BY <1>1 DEF BankAddress
<1> QED BY <1>1, <1>2, <1>3

LEMMA RankPlaces ==
  \A a \in Address :
    /\ Lrank(a.real_cid) \in Place /\ Prank(a.cs) \in Place /\ Channel \in Place
    /\ a.real_cid \in {b.real_cid : b \in Banks}
  BY Addresses, BankPlaces

LEMMA SameRank ==
  \A a, b \in Address : SameLrank(a, b) => a.real_cid = b.real_cid /\ a.cs = b.cs
  BY Addresses DEF SameLrank

LEMMA Names == /\ Banks \subseteq Address /\ Ranks \subseteq Address
               /\ \A cmd \in Command : Alias(cmd) \in Recorded
               /\ \A cmd \in Recorded : Alias(cmd) = cmd /\ cmd \in Command
  BY DEF Address, Alias, Command, Recorded, Rfm, Column, Reads, Writes
-----------------------------------------------------------------------------
(* Types *)

LEMMA SendTypes ==
  ASSUME TypeOK, NEW cmd \in Command, NEW a \in Address, Send(cmd, a), open' \subseteq Banks
  PROVE  TypeOK'
<1>1. Alias(cmd) \in Recorded /\ 0 \in 0 .. Horizon /\ 0 \in 0 .. (Horizon - 1)
      /\ 0 \in 0 .. MaxTime
  BY Names, SmallNumbers DEF MaxTime
<1>2. since' \in [Recorded -> [Place -> 0 .. Horizon]]
  <2>1. ASSUME NEW c \in Recorded, NEW p \in Place
        PROVE  (IF c = Alias(cmd) /\ p \in Places(cmd, a) THEN 0 ELSE since[c][p]) \in 0 .. Horizon
    BY <1>1 DEF TypeOK
  <2> QED BY <2>1 DEF Send, InsertCommand
<1>3. onbus' \in 0 .. Horizon
  BY <1>1 DEF Send, InsertCommand
<1>4. \A d \in [1 .. 4 -> 0 .. MaxTime] : Push(d) \in [1 .. 4 -> 0 .. MaxTime]
  BY <1>1 DEF Push
<1>5. last_4Activates4lrank' \in [{b.real_cid : b \in Banks} -> [1 .. 4 -> 0 .. MaxTime]]
  BY <1>4 DEF TypeOK, Send, InsertCommand
<1>6. last_4Activates4prank' \in [Cs -> [1 .. 4 -> 0 .. MaxTime]]
  BY <1>4 DEF TypeOK, Send, InsertCommand
<1>7. trace' \subseteq [cmd : Command, a : Address, age : 0 .. (Horizon - 1)]
  BY <1>1 DEF TypeOK, Send
<1> QED BY <1>2, <1>3, <1>5, <1>6, <1>7 DEF TypeOK

LEMMA CycleTypes == TypeOK /\ Cycle => TypeOK'
<1> SUFFICES ASSUME TypeOK, Cycle PROVE TypeOK'
  OBVIOUS
<1>1. /\ \A age \in 0 .. Horizon : Older(age) \in 0 .. Horizon
      /\ \A age \in 0 .. MaxTime : Older(age) \in 0 .. MaxTime
  BY SmallNumbers DEF Older, MaxTime
<1>2. since' \in [Recorded -> [Place -> 0 .. Horizon]] /\ onbus' \in 0 .. Horizon
  BY <1>1 DEF TypeOK, Cycle
<1>3. last_4Activates4lrank' \in [{b.real_cid : b \in Banks} -> [1 .. 4 -> 0 .. MaxTime]]
  BY <1>1 DEF TypeOK, Cycle
<1>4. last_4Activates4prank' \in [Cs -> [1 .. 4 -> 0 .. MaxTime]]
  BY <1>1 DEF TypeOK, Cycle
<1>5. trace' \subseteq [cmd : Command, a : Address, age : 0 .. (Horizon - 1)]
  <2>1. ASSUME NEW h \in trace, h.age + 1 < Horizon
        PROVE  [h EXCEPT !.age = @ + 1] \in [cmd : Command, a : Address, age : 0 .. (Horizon - 1)]
    <3>1. h \in [cmd : Command, a : Address, age : 0 .. (Horizon - 1)]
      BY DEF TypeOK
    <3>2. h.age \in Nat /\ h.age + 1 \in 0 .. (Horizon - 1)
      BY <2>1, <3>1, SmallNumbers
    <3> QED BY <3>1, <3>2
  <2> QED BY <2>1 DEF Cycle
<1> QED BY <1>2, <1>3, <1>4, <1>5 DEF TypeOK, Cycle

(* The three ways to send a command. *)
LEMMA Steps ==
  ASSUME [Next]_vars, TypeOK
  PROVE  \/ Cycle
         \/ \E b \in Banks, cmd \in {"ACT", "PRE"} \union Column : BankCommand(cmd, b)
         \/ \E b \in Banks, cmd \in Rfm : RefreshManagement(cmd, b)
         \/ \E r \in Ranks, cmd \in {"REFab", "REFsb"} : Refresh(cmd, r)
         \/ UNCHANGED vars
  BY DEF Next, NextOf

LEMMA TypeStep == TypeOK /\ [Next]_vars => TypeOK'
<1> SUFFICES ASSUME TypeOK, [Next]_vars PROVE TypeOK'
  OBVIOUS
<1>1. CASE Cycle
  BY <1>1, CycleTypes
<1>2. ASSUME NEW b \in Banks, NEW cmd \in {"ACT", "PRE"} \union Column, BankCommand(cmd, b)
      PROVE  TypeOK'
  <2>1. cmd \in Command /\ b \in Address
    BY Names DEF Recorded
  <2>2. open' \subseteq Banks
    BY <1>2 DEF BankCommand, TypeOK
  <2> QED BY <1>2, <2>1, <2>2, SendTypes DEF BankCommand
<1>3. ASSUME NEW b \in Banks, NEW cmd \in Rfm, RefreshManagement(cmd, b)
      PROVE  TypeOK'
  BY <1>3, Names, SendTypes DEF RefreshManagement, Command, TypeOK
<1>4. ASSUME NEW r \in Ranks, NEW cmd \in {"REFab", "REFsb"}, Refresh(cmd, r)
      PROVE  TypeOK'
  BY <1>4, Names, SendTypes DEF Refresh, Command, Recorded, TypeOK
<1>5. CASE UNCHANGED vars
  BY <1>5 DEF vars, sdram, TypeOK
<1> QED BY <1>1, <1>2, <1>3, <1>4, <1>5, Steps

LEMMA TypeInit == Init => TypeOK
<1> SUFFICES ASSUME Init PROVE TypeOK
  OBVIOUS
<1>1. Horizon \in 0 .. Horizon /\ MaxTime \in 0 .. MaxTime
  BY SmallNumbers DEF MaxTime
<1> QED BY <1>1 DEF Init, TypeOK

(* Whatever is sent and when, the tables of the timing model keep to their types:
   in particular a queue of activate times has four of them always. *)
THEOREM SdramTypeCorrect == Spec => []TypeOK
  BY TypeInit, TypeStep, PTL DEF Spec

-----------------------------------------------------------------------------
(* What the tables know of the trace *)

LEMMA RecentSend ==
  ASSUME TypeOK, Recent, NEW cmd \in Command, NEW a \in Address, Send(cmd, a)
  PROVE  Recent'
<1> SUFFICES ASSUME NEW h \in trace'
             PROVE  /\ onbus' <= h.age
                    /\ \A p \in Places(h.cmd, h.a) \intersect Place :
                         since'[Alias(h.cmd)][p] <= h.age
  BY DEF Recent
<1>1. onbus' = 0 /\ \A c \in Recorded, p \in Place :
        since'[c][p] = IF c = Alias(cmd) /\ p \in Places(cmd, a) THEN 0 ELSE since[c][p]
  BY DEF Send, InsertCommand
<1>2. CASE h \in trace
  <2>1. h \in [cmd : Command, a : Address, age : 0 .. (Horizon - 1)]
    BY <1>2 DEF TypeOK
  <2>2. h.age \in Nat /\ h.age >= 0 /\ Alias(h.cmd) \in Recorded
    BY <2>1, Names, SmallNumbers
  <2>3. \A p \in Places(h.cmd, h.a) \intersect Place : since[Alias(h.cmd)][p] <= h.age
    BY <1>2 DEF Recent
  <2> QED BY <1>1, <2>2, <2>3
<1>3. CASE h = [cmd |-> cmd, a |-> a, age |-> 0]
  BY <1>1, <1>3, Names
<1> QED BY <1>2, <1>3 DEF Send

LEMMA RecentCycle == TypeOK /\ Recent /\ Cycle => Recent'
<1> SUFFICES ASSUME TypeOK, Recent, Cycle, NEW n \in trace'
             PROVE  /\ onbus' <= n.age
                    /\ \A p \in Places(n.cmd, n.a) \intersect Place :
                         since'[Alias(n.cmd)][p] <= n.age
  BY DEF Recent
<1>1. PICK h \in trace : h.age + 1 < Horizon /\ n = [h EXCEPT !.age = @ + 1]
  BY DEF Cycle
<1>2. h \in [cmd : Command, a : Address, age : 0 .. (Horizon - 1)]
  BY DEF TypeOK
<1>3. n.cmd = h.cmd /\ n.a = h.a /\ n.age = h.age + 1 /\ h.age \in Nat /\ Alias(h.cmd) \in Recorded
  BY <1>1, <1>2, Names, SmallNumbers
<1>4. \A age \in 0 .. Horizon : age <= h.age => Older(age) <= h.age + 1
  BY <1>3, SmallNumbers DEF Older
<1>5. onbus' <= n.age
  BY <1>3, <1>4 DEF Cycle, TypeOK, Recent
<1>6. ASSUME NEW p \in Places(n.cmd, n.a) \intersect Place
      PROVE  since'[Alias(n.cmd)][p] <= n.age
  <2>1. since[Alias(h.cmd)][p] <= h.age /\ since[Alias(h.cmd)][p] \in 0 .. Horizon
    BY <1>3, <1>6 DEF Recent, TypeOK
  <2>2. since'[Alias(h.cmd)][p] = Older(since[Alias(h.cmd)][p])
    BY <1>3, <1>6 DEF Cycle
  <2> QED BY <1>3, <1>4, <2>1, <2>2
<1> QED BY <1>5, <1>6

(* A queue of activate times: what pushing and ageing do to it. *)
Queue == [1 .. 4 -> 0 .. MaxTime]

LEMMA PushQueue ==
  ASSUME NEW d \in Queue, Sorted(d)
  PROVE  /\ Sorted(Push(d)) /\ Knows(Push(d), 0)
         /\ \A age \in Nat : Knows(d, age) => Knows(Push(d), age)
<1>1. /\ d[1] \in Nat /\ d[2] \in Nat /\ d[3] \in Nat /\ d[4] \in Nat
  BY SmallNumbers DEF Queue, MaxTime
<1>2. /\ Push(d)[1] = d[2] /\ Push(d)[2] = d[3] /\ Push(d)[3] = d[4] /\ Push(d)[4] = 0
  BY DEF Push
<1> QED BY <1>1, <1>2 DEF Sorted, Knows

OlderQueue(d) == [i \in 1 .. 4 |-> Older(d[i])]

LEMMA AgeQueue ==
  ASSUME NEW d \in Queue, Sorted(d)
  PROVE  /\ Sorted(OlderQueue(d))
         /\ \A age \in Nat : age + 1 < Horizon /\ Knows(d, age) => Knows(OlderQueue(d), age + 1)
<1>1. \A i \in 1 .. 4 : d[i] \in 0 .. MaxTime /\ OlderQueue(d)[i] = Older(d[i])
  BY DEF Queue, OlderQueue
<1>2. \A x, y \in 0 .. MaxTime : x >= y => Older(x) >= Older(y)
  BY SmallNumbers DEF MaxTime, Older
<1>3. \A x \in 0 .. MaxTime : Older(x) <= x + 1 /\ (x < Horizon => Older(x) = x + 1)
  BY SmallNumbers DEF MaxTime, Older
<1>4. 1 \in 1 .. 4 /\ 2 \in 1 .. 4 /\ 3 \in 1 .. 4 /\ 4 \in 1 .. 4
  OBVIOUS
<1>5. Sorted(OlderQueue(d))
  BY <1>1, <1>2, <1>4 DEF Sorted
<1>6. ASSUME NEW age \in Nat, age + 1 < Horizon, Knows(d, age)
      PROVE  Knows(OlderQueue(d), age + 1)
  <2>1. CASE age >= d[1]
    <3>1. Older(d[1]) <= d[1] + 1 /\ Older(d[1]) \in 0 .. MaxTime /\ d[1] \in 0 .. MaxTime
      BY <1>1, <1>3, <1>4, SmallNumbers DEF Older, MaxTime
    <3> QED BY <1>1, <1>4, <1>6, <2>1, <3>1, SmallNumbers DEF Knows, MaxTime
  <2>2. CASE \E i \in 2 .. 4 : age = d[i]
    <3>1. PICK i \in 2 .. 4 : age = d[i]
      BY <2>2
    <3>2. i \in 1 .. 4 /\ d[i] < Horizon
      BY <1>6, <3>1, SmallNumbers
    <3>3. OlderQueue(d)[i] = age + 1
      BY <1>1, <1>3, <3>1, <3>2
    <3> QED BY <3>3 DEF Knows
  <2> QED BY <1>6, <2>1, <2>2 DEF Knows
<1> QED BY <1>5, <1>6

LEMMA LrankQueuesSend ==
  ASSUME TypeOK, LrankQueues, NEW cmd \in Command, NEW a \in Address, Send(cmd, a)
  PROVE  LrankQueues'
<1> DEFINE Rank == {b.real_cid : b \in Banks}
           q == last_4Activates4lrank
<1>1. q \in [Rank -> Queue] /\ a.real_cid \in Rank /\ \A r \in Rank : Sorted(q[r])
  BY RankPlaces DEF TypeOK, Queue, LrankQueues
<1>2. q' = IF Alias(cmd) \in {"ACT", "REFsb"} THEN [q EXCEPT ![a.real_cid] = Push(@)] ELSE q
  BY DEF Send, InsertCommand
<1>3. DOMAIN q' = Rank /\ \A r \in Rank : q'[r] = q[r] \/ q'[r] = Push(q[r])
  BY <1>1, <1>2
<1>4. \A r \in Rank :
        /\ Sorted(Push(q[r])) /\ Knows(Push(q[r]), 0)
        /\ \A age \in Nat : Knows(q[r], age) => Knows(Push(q[r]), age)
  BY <1>1, PushQueue
<1>5. ASSUME NEW h \in trace', Alias(h.cmd) \in {"ACT", "REFsb"}
      PROVE  Knows(q'[h.a.real_cid], h.age)
  <2>1. CASE h \in trace
    <3>1. h.age \in Nat /\ h.a.real_cid \in Rank
      BY <2>1, RankPlaces, SmallNumbers DEF TypeOK
    <3>2. Knows(q[h.a.real_cid], h.age)
      BY <1>5, <2>1 DEF LrankQueues
    <3> QED BY <1>3, <1>4, <3>1, <3>2
  <2>2. CASE h = [cmd |-> cmd, a |-> a, age |-> 0]
    <3>1. q'[a.real_cid] = Push(q[a.real_cid])
      BY <1>1, <1>2, <1>5, <2>2
    <3> QED BY <1>1, <1>4, <2>2, <3>1
  <2> QED BY <2>1, <2>2 DEF Send
<1>6. \A r \in DOMAIN q' : Sorted(q'[r])
  BY <1>1, <1>3, <1>4
<1> QED BY <1>5, <1>6 DEF LrankQueues

LEMMA PrankQueuesSend ==
  ASSUME TypeOK, PrankQueues, NEW cmd \in Command, NEW a \in Address, Send(cmd, a)
  PROVE  PrankQueues'
<1> DEFINE q == last_4Activates4prank
<1>1. q \in [Cs -> Queue] /\ a.cs \in Cs /\ \A r \in Cs : Sorted(q[r])
  BY Addresses DEF TypeOK, Queue, PrankQueues
<1>2. q' = IF Alias(cmd) \in {"ACT", "REFsb", "REFab"} THEN [q EXCEPT ![a.cs] = Push(@)] ELSE q
  BY DEF Send, InsertCommand
<1>3. \A r \in Cs : q'[r] = q[r] \/ q'[r] = Push(q[r])
  BY <1>1, <1>2
<1>4. \A r \in Cs :
        /\ Sorted(Push(q[r])) /\ Knows(Push(q[r]), 0)
        /\ \A age \in Nat : Knows(q[r], age) => Knows(Push(q[r]), age)
  BY <1>1, PushQueue
<1>5. ASSUME NEW h \in trace', Alias(h.cmd) \in {"ACT", "REFsb", "REFab"}
      PROVE  Knows(q'[h.a.cs], h.age)
  <2>1. CASE h \in trace
    <3>1. h.age \in Nat /\ h.a.cs \in Cs
      BY <2>1, Addresses, SmallNumbers DEF TypeOK
    <3>2. Knows(q[h.a.cs], h.age)
      BY <1>5, <2>1 DEF PrankQueues
    <3> QED BY <1>3, <1>4, <3>1, <3>2
  <2>2. CASE h = [cmd |-> cmd, a |-> a, age |-> 0]
    <3>1. q'[a.cs] = Push(q[a.cs])
      BY <1>1, <1>2, <1>5, <2>2
    <3> QED BY <1>1, <1>4, <2>2, <3>1
  <2> QED BY <2>1, <2>2 DEF Send
<1>6. \A r \in Cs : Sorted(q'[r])
  BY <1>1, <1>3, <1>4
<1> QED BY <1>5, <1>6 DEF PrankQueues

(* A cycle makes every command of the trace that it keeps older by one. *)
LEMMA Aged ==
  ASSUME TypeOK, Cycle, NEW n \in trace'
  PROVE  \E h \in trace : /\ n = [h EXCEPT !.age = @ + 1] /\ h.age + 1 < Horizon
                          /\ n.cmd = h.cmd /\ n.a = h.a /\ n.age = h.age + 1 /\ h.age \in Nat
                          /\ h.cmd \in Command /\ h.a \in Address
<1>1. PICK h \in trace : h.age + 1 < Horizon /\ n = [h EXCEPT !.age = @ + 1]
  BY DEF Cycle
<1>2. h \in [cmd : Command, a : Address, age : 0 .. (Horizon - 1)]
  BY DEF TypeOK
<1>3. n.cmd = h.cmd /\ n.a = h.a /\ n.age = h.age + 1 /\ h.age \in Nat
      /\ h.cmd \in Command /\ h.a \in Address
  BY <1>1, <1>2, SmallNumbers
<1> QED BY <1>1, <1>3

LEMMA QueuesCycle ==
  ASSUME TypeOK, LrankQueues, PrankQueues, Cycle
  PROVE  LrankQueues' /\ PrankQueues'
<1> DEFINE Rank == {b.real_cid : b \in Banks}
           lq == last_4Activates4lrank
           pq == last_4Activates4prank
<1>1. /\ lq \in [Rank -> Queue] /\ \A r \in Rank : Sorted(lq[r])
      /\ pq \in [Cs -> Queue] /\ \A r \in Cs : Sorted(pq[r])
  BY DEF TypeOK, Queue, LrankQueues, PrankQueues
<1>2. /\ DOMAIN lq' = Rank /\ \A r \in Rank : lq'[r] = OlderQueue(lq[r])
      /\ \A r \in Cs : pq'[r] = OlderQueue(pq[r])
  BY <1>1 DEF Cycle, OlderQueue
<1>3. \A d \in Queue : Sorted(d) =>
        /\ Sorted(OlderQueue(d))
        /\ \A age \in Nat : age + 1 < Horizon /\ Knows(d, age) => Knows(OlderQueue(d), age + 1)
  BY AgeQueue
<1>4. ASSUME NEW n \in trace', Alias(n.cmd) \in {"ACT", "REFsb"}
      PROVE  Knows(lq'[n.a.real_cid], n.age)
  <2>1. PICK h \in trace : /\ h.age + 1 < Horizon /\ n.cmd = h.cmd /\ n.a = h.a
                           /\ n.age = h.age + 1 /\ h.age \in Nat /\ h.a \in Address
    BY Aged
  <2>2. h.a.real_cid \in Rank
    BY <2>1, RankPlaces
  <2>3. Knows(lq[h.a.real_cid], h.age)
    BY <1>4, <2>1 DEF LrankQueues
  <2> QED BY <1>1, <1>2, <1>3, <2>1, <2>2, <2>3
<1>5. ASSUME NEW n \in trace', Alias(n.cmd) \in {"ACT", "REFsb", "REFab"}
      PROVE  Knows(pq'[n.a.cs], n.age)
  <2>1. PICK h \in trace : /\ h.age + 1 < Horizon /\ n.cmd = h.cmd /\ n.a = h.a
                           /\ n.age = h.age + 1 /\ h.age \in Nat /\ h.a \in Address
    BY Aged
  <2>2. h.a.cs \in Cs
    BY <2>1, Addresses
  <2>3. Knows(pq[h.a.cs], h.age)
    BY <1>5, <2>1 DEF PrankQueues
  <2> QED BY <1>1, <1>2, <1>3, <2>1, <2>2, <2>3
<1>6. (\A r \in DOMAIN lq' : Sorted(lq'[r])) /\ (\A r \in Cs : Sorted(pq'[r]))
  BY <1>1, <1>2, <1>3
<1> QED BY <1>4, <1>5, <1>6 DEF LrankQueues, PrankQueues

-----------------------------------------------------------------------------
(* The order of the commands *)

Sent(cmd, a) == [cmd |-> cmd, a |-> a, age |-> 0]

(* A command that is sent comes after all the others. *)
LEMMA SentLast ==
  ASSUME TypeOK, Recent, onbus >= 1, NEW cmd \in Command, NEW a \in Address, Send(cmd, a),
         NEW h \in trace', NEW n \in trace', Before(h, n)
  PROVE  /\ h \in trace
         /\ n \in trace \/ n = Sent(cmd, a)
<1>1. trace' = trace \union {Sent(cmd, a)} /\ Sent(cmd, a).age = 0
  BY DEF Send, Sent
<1>2. \A x \in trace : x.age \in Nat /\ x.age >= 1
  BY SmallNumbers DEF TypeOK, Recent
<1> QED BY <1>1, <1>2 DEF Before

(* Two commands stay in their order, and as far apart. *)
LEMMA AgedPair ==
  ASSUME TypeOK, Cycle, NEW m \in trace', NEW n \in trace', Before(m, n)
  PROVE  \E h \in trace : \E g \in trace :
           /\ Before(h, g) /\ h.age \in Nat /\ g.age \in Nat
           /\ m.cmd = h.cmd /\ m.a = h.a /\ m.age = h.age + 1
           /\ n.cmd = g.cmd /\ n.a = g.a /\ n.age = g.age + 1
<1>1. PICK h \in trace : /\ m = [h EXCEPT !.age = @ + 1]
                         /\ m.cmd = h.cmd /\ m.a = h.a /\ m.age = h.age + 1 /\ h.age \in Nat
  BY Aged
<1>2. PICK g \in trace : /\ n = [g EXCEPT !.age = @ + 1]
                         /\ n.cmd = g.cmd /\ n.a = g.a /\ n.age = g.age + 1 /\ g.age \in Nat
  BY Aged
<1>3. h # g /\ h.age >= g.age
  BY <1>1, <1>2 DEF Before
<1> QED BY <1>1, <1>2, <1>3 DEF Before

(* What a rule that allows a command says of the commands of the trace. *)
LEMMA RuleHolds ==
  ASSUME TypeOK, Recent, NEW commands \in SUBSET Recorded, NEW places \in SUBSET Place,
         NEW delay, After(commands, places, delay),
         NEW h \in trace, Alias(h.cmd) \in commands,
         NEW p \in places \intersect Places(h.cmd, h.a), delay \in Nat
  PROVE  h.age >= delay
<1>1. since[Alias(h.cmd)][p] >= delay
  BY DEF After
<1>2. since[Alias(h.cmd)][p] <= h.age
  BY DEF Recent
<1>3. since[Alias(h.cmd)][p] \in Nat /\ h.age \in Nat
  BY SmallNumbers DEF TypeOK
<1> QED BY <1>1, <1>2, <1>3

LEMMA Timing == /\ \A d \in Delay : timing[d] \in Nat
                /\ timing.tCL \in Nat /\ timing.tCWL \in Nat /\ timing.tBurst \in Nat
                /\ timing.tRP \in Nat /\ AfterRda \in Nat /\ AfterWra \in Nat
                /\ timing.tRFC_slr \in Nat /\ timing.tFAW_slr \in Nat /\ timing.tFAW_dlr \in Nat
<1>1. \A d \in Delay : timing[d] \in Nat
  BY SdramAssumption
<1>2. /\ timing.tCL \in Nat /\ timing.tCWL \in Nat /\ timing.tBurst \in Nat /\ timing.tRP \in Nat
      /\ timing.tRTP_slr \in Nat /\ timing.tWR_slr \in Nat
      /\ timing.tRFC_slr \in Nat /\ timing.tFAW_slr \in Nat /\ timing.tFAW_dlr \in Nat
  BY <1>1 DEF Delay
<1> QED BY <1>1, <1>2 DEF AfterRda, AfterWra

(* Every command goes to its logical and physical rank and to the channel, and those
   for one bank to that bank. *)
LEMMA RankRecorded ==
  ASSUME NEW cmd, NEW a
  PROVE  /\ {Lrank(a.real_cid), Prank(a.cs), Channel} \subseteq Places(cmd, a)
         /\ cmd \in Recorded \ {"REFsb", "PREsb"} => Bank(a.real_ba) \in Places(cmd, a)
  BY Names DEF Places
-----------------------------------------------------------------------------
(* What three of the properties say of a command h and a later one n. *)
BusApart(h, n) ==
  h.cmd \in Column /\ n.cmd \in Column
    => h.age + Latency(n.cmd) >= n.age + Latency(h.cmd) + timing.tBurst
Rested(h, n) ==
  /\ h.cmd \in {"PRE", "RDA", "WRA"}
  /\ (n.cmd = "ACT" /\ h.a = n.a) \/ (n.cmd = "REFab" /\ SameLrank(h.a, n.a))
  => h.age >= n.age + Recovery(h.cmd)
Undisturbed(h, n) ==
  h.cmd = "REFab" /\ n.cmd \notin Rfm /\ SameLrank(h.a, n.a) => h.age >= n.age + timing.tRFC_slr
Apart(h, n) == BusApart(h, n) /\ Rested(h, n) /\ Undisturbed(h, n)

AllApart == \A h \in trace, n \in trace : Before(h, n) => Apart(h, n)

LEMMA ApartGoals == AllApart <=> DataBusFree /\ BanksRest /\ RefreshUndisturbed
  BY DEF AllApart, Apart, BusApart, Rested, Undisturbed, DataBusFree, BanksRest, RefreshUndisturbed

LEMMA Latencies ==
  /\ \A cmd : Latency(cmd) \in Nat
  /\ \A cmd \in {"PRE", "RDA", "WRA"} : Recovery(cmd) \in Nat
  BY Timing DEF Latency, Recovery

(* Two commands that are apart are still apart a cycle later. *)
LEMMA ApartCycle == ASSUME TypeOK, AllApart, Cycle PROVE AllApart'
<1> SUFFICES ASSUME NEW m \in trace', NEW n \in trace', Before(m, n)
             PROVE  Apart(m, n)
  BY DEF AllApart, Apart, BusApart, Rested, Undisturbed, Before
<1>1. PICK h \in trace : \E g \in trace :
           /\ Before(h, g) /\ h.age \in Nat /\ g.age \in Nat
           /\ m.cmd = h.cmd /\ m.a = h.a /\ m.age = h.age + 1
           /\ n.cmd = g.cmd /\ n.a = g.a /\ n.age = g.age + 1
  BY AgedPair
<1>2. PICK g \in trace :
           /\ Before(h, g) /\ h.age \in Nat /\ g.age \in Nat
           /\ m.cmd = h.cmd /\ m.a = h.a /\ m.age = h.age + 1
           /\ n.cmd = g.cmd /\ n.a = g.a /\ n.age = g.age + 1
  BY <1>1
<1>3. BusApart(h, g) /\ Rested(h, g) /\ Undisturbed(h, g)
  BY <1>2 DEF AllApart, Apart
<1>4. BusApart(m, n)
  BY <1>2, <1>3, Latencies, Timing DEF BusApart
<1>5. Rested(m, n)
  BY <1>2, <1>3, Latencies DEF Rested
<1>6. Undisturbed(m, n)
  BY <1>2, <1>3, Timing DEF Undisturbed
<1> QED BY <1>4, <1>5, <1>6 DEF Apart

LEMMA ApartSend ==
  ASSUME TypeOK, Recent, AllApart, onbus >= 1, NEW cmd \in Command, NEW a \in Address,
         Send(cmd, a), \A h \in trace : Apart(h, Sent(cmd, a))
  PROVE  AllApart'
<1> SUFFICES ASSUME NEW m \in trace', NEW n \in trace', Before(m, n)
             PROVE  Apart(m, n)
  BY DEF AllApart, Apart, BusApart, Rested, Undisturbed, Before
<1>1. m \in trace /\ (n \in trace \/ n = Sent(cmd, a))
  BY SentLast
<1> QED BY <1>1 DEF AllApart

(* A row is opened: the bank has been closed long enough, and its logical rank is
   not under refresh. *)
LEMMA ApartAct ==
  ASSUME TypeOK, Recent, NEW a \in Banks, ActAllowed(a), NEW h \in trace
  PROVE  Apart(h, Sent("ACT", a))
<1> DEFINE n == Sent("ACT", a)
<1>1. n.cmd = "ACT" /\ n.a = a /\ n.age = 0 /\ h.age \in Nat /\ h.cmd \in Command /\ h.a \in Address
  BY SmallNumbers DEF Sent, TypeOK
<1>2. a \in Address /\ Bank(a.real_ba) \in Place /\ Lrank(a.real_cid) \in Place
  BY Names, BankPlaces
<1>3. ASSUME h.cmd \in {"PRE", "RDA", "WRA"}, h.a = a
      PROVE  h.age >= Recovery(h.cmd)
  <2>1. Bank(a.real_ba) \in Places(h.cmd, h.a) /\ Alias(h.cmd) = h.cmd /\ h.cmd \in Recorded
    BY <1>3, RankRecorded, Names DEF Recorded, Column, Reads, Writes
  <2>2. CASE h.cmd = "PRE"
    <3>1. After({"PRE", "PREsb"}, {Bank(a.real_ba)}, timing.tRP)
      BY DEF ActAllowed
    <3>2. {"PRE", "PREsb"} \in SUBSET Recorded
      BY DEF Recorded
    <3> QED BY <1>2, <2>1, <2>2, <3>1, <3>2, RuleHolds, Timing DEF Recovery
  <2>3. CASE h.cmd = "RDA"
    <3>1. After({"RDA"}, {Bank(a.real_ba)}, AfterRda)
      BY DEF ActAllowed, AutoClosed
    <3> QED BY <1>2, <2>1, <2>3, <3>1, RuleHolds, Timing DEF Recovery
  <2>4. CASE h.cmd = "WRA"
    <3>1. After({"WRA"}, {Bank(a.real_ba)}, AfterWra)
      BY DEF ActAllowed, AutoClosed
    <3> QED BY <1>2, <2>1, <2>4, <3>1, RuleHolds, Timing DEF Recovery
  <2> QED BY <1>3, <2>2, <2>3, <2>4
<1>4. ASSUME h.cmd = "REFab", SameLrank(h.a, a)
      PROVE  h.age >= timing.tRFC_slr
  <2>1. After({"REFab"}, {Lrank(a.real_cid)}, timing.tRFC_slr)
    BY DEF ActAllowed, ActAfterRefresh
  <2>2. h.a.real_cid = a.real_cid
    BY <1>1, <1>2, <1>4, SameRank
  <2>3. Lrank(a.real_cid) \in Places(h.cmd, h.a) /\ Alias(h.cmd) = "REFab" /\ "REFab" \in Recorded
    BY <1>4, <2>2, RankRecorded, Names DEF Recorded
  <2> QED BY <1>2, <2>1, <2>3, RuleHolds, Timing
<1>5. BusApart(h, n)
  BY <1>1 DEF BusApart, Column, Reads, Writes
<1>6. Rested(h, n)
  BY <1>1, <1>3, Latencies DEF Rested
<1>7. Undisturbed(h, n)
  BY <1>1, <1>4, Timing DEF Undisturbed
<1> QED BY <1>5, <1>6, <1>7 DEF Apart

(* A command of a bank whose page is open: its rank is not under refresh. *)
LEMMA ApartOpen ==
  ASSUME TypeOK, RefreshedClosed, NEW a \in open, NEW h \in trace, NEW cmd
  PROVE  Undisturbed(h, Sent(cmd, a))
<1>1. h.age \in Nat
  BY SmallNumbers DEF TypeOK
<1>2. h.cmd = "REFab" /\ SameLrank(h.a, a) => h.age >= timing.tRFC_slr
  BY DEF RefreshedClosed
<1> QED BY <1>1, <1>2, Timing DEF Undisturbed, Sent

LEMMA ApartRead ==
  ASSUME TypeOK, Recent, NEW a \in Banks, RdAllowed(a), NEW cmd \in Reads, NEW h \in trace
  PROVE  BusApart(h, Sent(cmd, a))
<1> SUFFICES ASSUME h.cmd \in Column
             PROVE  h.age + timing.tCL >= Latency(h.cmd) + timing.tBurst
  BY Latencies, Timing DEF BusApart, Sent, Latency
<1>1. After(Column, {Channel}, timing.tBurst)
  BY DEF RdAllowed, BusFree
<1>2. Channel \in Places(h.cmd, h.a) /\ Alias(h.cmd) \in Column /\ Column \in SUBSET Recorded
      /\ Channel \in Place
  BY RankRecorded, BankPlaces DEF Recorded, Alias, Column, Reads, Writes
<1>3. h.age >= timing.tBurst
  BY <1>1, <1>2, RuleHolds, Timing
<1>4. h.age \in Nat /\ Latency(h.cmd) <= timing.tCL
  BY LatencyAssumption, SmallNumbers, Timing DEF TypeOK, Latency
<1> QED BY <1>3, <1>4, Timing, Latencies

LEMMA ApartWrite ==
  ASSUME TypeOK, Recent, NEW a \in Banks, WrAllowed(a), NEW cmd \in Writes, NEW h \in trace
  PROVE  BusApart(h, Sent(cmd, a))
<1> SUFFICES ASSUME h.cmd \in Column
             PROVE  h.age + timing.tCWL >= Latency(h.cmd) + timing.tBurst
  BY Latencies, Timing DEF BusApart, Sent, Latency, Reads, Writes
<1>1. After(Reads, {Channel}, timing.tBurst + 1) /\ After(Writes, {Channel}, timing.tBurst)
  BY DEF WrAllowed, BusFree
<1>2. /\ Channel \in Places(h.cmd, h.a) /\ Channel \in Place
      /\ Reads \in SUBSET Recorded /\ Writes \in SUBSET Recorded
  BY RankRecorded, BankPlaces DEF Recorded, Column
<1>3. h.age \in Nat
  BY SmallNumbers DEF TypeOK
<1>4. CASE h.cmd \in Reads
  <2>1. Alias(h.cmd) \in Reads /\ timing.tBurst + 1 \in Nat
    BY <1>4, Timing DEF Alias, Reads
  <2>2. h.age >= timing.tBurst + 1
    BY <1>1, <1>2, <2>1, RuleHolds
  <2> QED BY <1>3, <1>4, <2>2, LatencyAssumption, Timing DEF Latency
<1>5. CASE h.cmd \in Writes
  <2>1. Alias(h.cmd) \in Writes
    BY <1>5 DEF Alias, Writes
  <2>2. h.age >= timing.tBurst
    BY <1>1, <1>2, <2>1, RuleHolds, Timing
  <2>3. Latency(h.cmd) = timing.tCWL
    BY <1>5 DEF Latency, Reads, Writes
  <2> QED BY <1>3, <2>2, <2>3, Timing
<1> QED BY <1>4, <1>5 DEF Column

(* A refresh waits for the refreshes of its rank, and a refresh of the rank for the
   banks of the rank to have been closed. *)
LEMMA ApartRefresh ==
  ASSUME TypeOK, Recent, NEW a \in Ranks, NEW cmd \in {"REFab", "REFsb"},
         TimeToSatisfyConstraints(cmd, a), NEW h \in trace
  PROVE  Apart(h, Sent(cmd, a))
<1> DEFINE n == Sent(cmd, a)
           l == Lrank(a.real_cid)
<1>1. n.cmd = cmd /\ n.a = a /\ n.age = 0 /\ h.age \in Nat /\ h.a \in Address
  BY SmallNumbers DEF Sent, TypeOK
<1>2. a \in Address /\ l \in Place
  BY Names, RankPlaces
<1>3. SameLrank(h.a, a) => l \in Places(h.cmd, h.a)
  BY <1>1, <1>2, SameRank, RankRecorded
<1>4. /\ cmd = "REFab" => RefAbAllowed(a)
      /\ cmd = "REFsb" => RefSbAllowed(a)
  BY DEF TimeToSatisfyConstraints, Reads, Writes
<1>5. /\ After({"REFab"}, {l}, timing.tRFC_slr)
      /\ cmd = "REFab" => After({"PRE", "PREab", "PREsb"}, {l}, timing.tRP) /\ AutoClosed({l})
  BY <1>4 DEF RefAbAllowed, RefSbAllowed
<1>6. ASSUME cmd = "REFab", h.cmd \in {"PRE", "RDA", "WRA"}, SameLrank(h.a, a)
      PROVE  h.age >= Recovery(h.cmd)
  <2>1. Alias(h.cmd) = h.cmd /\ {"PRE", "PREab", "PREsb"} \in SUBSET Recorded
        /\ {"RDA"} \in SUBSET Recorded /\ {"WRA"} \in SUBSET Recorded
    BY <1>6 DEF Alias, Recorded, Column, Reads, Writes
  <2>2. CASE h.cmd = "PRE"
    BY <1>2, <1>3, <1>5, <1>6, <2>1, <2>2, RuleHolds, Timing DEF Recovery
  <2>3. CASE h.cmd = "RDA"
    <3>1. After({"RDA"}, {l}, AfterRda)
      BY <1>5, <1>6 DEF AutoClosed
    <3> QED BY <1>2, <1>3, <1>6, <2>1, <2>3, <3>1, RuleHolds, Timing DEF Recovery
  <2>4. CASE h.cmd = "WRA"
    <3>1. After({"WRA"}, {l}, AfterWra)
      BY <1>5, <1>6 DEF AutoClosed
    <3> QED BY <1>2, <1>3, <1>6, <2>1, <2>4, <3>1, RuleHolds, Timing DEF Recovery
  <2> QED BY <1>6, <2>2, <2>3, <2>4
<1>7. ASSUME h.cmd = "REFab", SameLrank(h.a, a)
      PROVE  h.age >= timing.tRFC_slr
  <2>1. Alias(h.cmd) \in {"REFab"} /\ {"REFab"} \in SUBSET Recorded
    BY <1>7 DEF Alias, Recorded
  <2> QED BY <1>2, <1>3, <1>5, <1>7, <2>1, RuleHolds, Timing
<1>8. BusApart(h, n)
  BY <1>1 DEF BusApart, Column, Reads, Writes
<1>9. Rested(h, n)
  BY <1>1, <1>6, Latencies DEF Rested
<1>10. Undisturbed(h, n)
  BY <1>1, <1>7, Timing DEF Undisturbed
<1> QED BY <1>8, <1>9, <1>10 DEF Apart

(* A row closed, a column command: nothing is asked of it but the bus. *)
LEMMA ApartOther ==
  ASSUME NEW h, NEW cmd \in Command \ {"ACT", "REFab"}, NEW a
  PROVE  /\ Rested(h, Sent(cmd, a))
         /\ cmd \notin Column => BusApart(h, Sent(cmd, a))
         /\ cmd \in Rfm => Undisturbed(h, Sent(cmd, a))
  BY DEF Rested, BusApart, Undisturbed, Sent
-----------------------------------------------------------------------------
(* The banks of a rank under refresh *)

LEMMA ClosedCycle == ASSUME TypeOK, RefreshedClosed, Cycle PROVE RefreshedClosed'
<1> SUFFICES ASSUME NEW n \in trace', NEW b \in open', n.cmd = "REFab", SameLrank(n.a, b)
             PROVE  n.age >= timing.tRFC_slr
  BY DEF RefreshedClosed, SameLrank
<1>1. PICK h \in trace : n.cmd = h.cmd /\ n.a = h.a /\ n.age = h.age + 1 /\ h.age \in Nat
  BY Aged
<1>2. h.age >= timing.tRFC_slr
  BY <1>1 DEF RefreshedClosed, Cycle
<1> QED BY <1>1, <1>2, Timing

LEMMA ClosedSend ==
  ASSUME TypeOK, RefreshedClosed, NEW cmd \in Command, NEW a \in Address, Send(cmd, a),
         cmd = "REFab" => \A b \in open' : ~SameLrank(a, b),
         \A b \in open' \ open, h \in trace : Undisturbed(h, Sent("ACT", b))
  PROVE  RefreshedClosed'
<1> SUFFICES ASSUME NEW n \in trace', NEW b \in open', n.cmd = "REFab", SameLrank(n.a, b)
             PROVE  n.age >= timing.tRFC_slr
  BY DEF RefreshedClosed, SameLrank
<1>1. CASE n \in trace /\ b \in open
  BY <1>1 DEF RefreshedClosed
<1>2. CASE n \in trace /\ b \in open' \ open
  <2>1. n.age >= 0 + timing.tRFC_slr /\ n.age \in Nat
    BY <1>2, SmallNumbers DEF Undisturbed, Sent, Rfm, TypeOK
  <2> QED BY <2>1, Timing
<1>3. CASE n = Sent(cmd, a)
  BY <1>3 DEF Sent
<1> QED BY <1>1, <1>2, <1>3 DEF Send, Sent

-----------------------------------------------------------------------------
(* The windows of four activates *)

LEMMA OneMore ==
  ASSUME NEW T, NEW x, NEW k \in Nat, IsFiniteSet(T), Cardinality(T) <= k
  PROVE  IsFiniteSet(T \union {x}) /\ Cardinality(T \union {x}) <= k + 1
<1>1. IsFiniteSet(T \union {x})
      /\ (Cardinality(T \union {x}) = Cardinality(T)
          \/ Cardinality(T \union {x}) = Cardinality(T) + 1)
  BY FS_AddElement
<1>2. Cardinality(T) \in Nat
  BY FS_CardinalityType
<1> QED BY <1>1, <1>2

(* Four things cannot be five. *)
LEMMA FourAges ==
  ASSUME NEW d \in Queue, NEW S \in SUBSET {0, d[2], d[3], d[4]}
  PROVE  Cardinality(S) <= 4
<1> DEFINE A == {} \union {0}
           B == A \union {d[2]}
           C == B \union {d[3]}
           D == C \union {d[4]}
<1>1. IsFiniteSet({}) /\ Cardinality({}) <= 0
  BY FS_EmptySet
<1>2. IsFiniteSet(A) /\ Cardinality(A) <= 1
  <2>1. IsFiniteSet(A) /\ Cardinality(A) <= 0 + 1
    BY <1>1, OneMore
  <2> QED BY <2>1
<1> HIDE DEF A
<1>3. IsFiniteSet(B) /\ Cardinality(B) <= 2
  <2>1. IsFiniteSet(B) /\ Cardinality(B) <= 1 + 1
    BY <1>2, OneMore
  <2> QED BY <2>1
<1> HIDE DEF B
<1>4. IsFiniteSet(C) /\ Cardinality(C) <= 3
  <2>1. IsFiniteSet(C) /\ Cardinality(C) <= 2 + 1
    BY <1>3, OneMore
  <2> QED BY <2>1
<1> HIDE DEF C
<1>5. IsFiniteSet(D) /\ Cardinality(D) <= 4
  <2>1. IsFiniteSet(D) /\ Cardinality(D) <= 3 + 1
    BY <1>4, OneMore
  <2> QED BY <2>1
<1>6. S \subseteq D
  BY DEF A, B, C, D
<1> HIDE DEF D
<1>7. IsFiniteSet(S) /\ Cardinality(S) <= Cardinality(D)
  BY <1>5, <1>6, FS_Subset
<1>8. Cardinality(S) \in Nat /\ Cardinality(D) \in Nat
  BY <1>5, <1>7, FS_CardinalityType
<1> QED BY <1>5, <1>7, <1>8

(* A step without an activate leaves none of age 0. *)
LEMMA WindowsCycle == TypeOK /\ Cycle => FourActivates'
<1> SUFFICES ASSUME TypeOK, Cycle, NEW n \in trace' PROVE n.age # 0
  BY DEF FourActivates
<1>1. PICK h \in trace : n.age = h.age + 1 /\ h.age \in Nat
  BY Aged
<1> QED BY <1>1

LEMMA WindowsSend ==
  ASSUME TypeOK, Recent, LrankQueues, PrankQueues, onbus >= 1,
         NEW cmd \in Command, NEW a \in Address, Send(cmd, a),
         cmd = "ACT" => ActivateWindows(a)
  PROVE  FourActivates'
<1> SUFFICES ASSUME NEW n \in trace', n.cmd = "ACT", n.age = 0
             PROVE  Cardinality(LrankWindow(n)') <= 4 /\ Cardinality(PrankWindow(n)') <= 4
  BY DEF FourActivates, LrankWindow, PrankWindow, SameLrank
<1>1. trace' = trace \union {Sent(cmd, a)}
  BY DEF Send, Sent
<1>2. \A x \in trace : x.age \in Nat /\ x.age >= 1 /\ x.a \in Address
  BY SmallNumbers DEF TypeOK, Recent
<1>3. n = Sent(cmd, a) /\ cmd = "ACT" /\ n.a = a
  BY <1>1, <1>2 DEF Sent
<1> DEFINE d == last_4Activates4lrank[a.real_cid]
           e == last_4Activates4prank[a.cs]
<1>4. d \in Queue /\ e \in Queue
  BY RankPlaces, Addresses DEF TypeOK, Queue
<1>5. d[1] >= timing.tFAW_slr /\ e[1] >= timing.tFAW_dlr
  BY <1>3 DEF ActivateWindows
<1>6. d[1] \in Nat /\ e[1] \in Nat
  BY <1>4, SmallNumbers DEF Queue, MaxTime
<1>7. ASSUME NEW x \in trace', Alias(x.cmd) \in {"ACT", "REFsb"}, SameLrank(x.a, n.a),
             x.age < timing.tFAW_slr
      PROVE  x.age \in {0, d[2], d[3], d[4]}
  <2>1. CASE x \in trace
    <3>1. x.a.real_cid = a.real_cid
      BY <1>2, <1>3, <1>7, <2>1, SameRank
    <3>2. Knows(d, x.age)
      BY <1>7, <2>1, <3>1 DEF LrankQueues
    <3>3. ~(x.age >= d[1])
      BY <1>2, <1>5, <1>6, <1>7, <2>1, Timing
    <3> QED BY <3>2, <3>3 DEF Knows
  <2> QED BY <1>1, <2>1 DEF Sent
<1>8. ASSUME NEW x \in trace', Alias(x.cmd) \in {"ACT", "REFsb", "REFab"}, x.a.cs = n.a.cs,
             x.age < timing.tFAW_dlr
      PROVE  x.age \in {0, e[2], e[3], e[4]}
  <2>1. CASE x \in trace
    <3>1. Knows(e, x.age)
      BY <1>3, <1>8, <2>1 DEF PrankQueues
    <3>2. ~(x.age >= e[1])
      BY <1>2, <1>5, <1>6, <1>8, <2>1, Timing
    <3> QED BY <3>1, <3>2 DEF Knows
  <2> QED BY <1>1, <2>1 DEF Sent
<1>9. LrankWindow(n)' \in SUBSET {0, d[2], d[3], d[4]}
  BY <1>7 DEF LrankWindow, SameLrank
<1>10. PrankWindow(n)' \in SUBSET {0, e[2], e[3], e[4]}
  BY <1>8 DEF PrankWindow
<1> QED BY <1>4, <1>9, <1>10, FourAges
-----------------------------------------------------------------------------
(* The inductive invariant: what the tables, the queues and the pages say of the
   commands sent, and what is to be shown of them. *)
SdramInv ==
  /\ TypeOK /\ Recent /\ LrankQueues /\ PrankQueues /\ RefreshedClosed
  /\ AllApart /\ FourActivates

LEMMA SdramInit == Init => SdramInv
<1> SUFFICES ASSUME Init PROVE SdramInv
  OBVIOUS
<1>1. trace = {} /\ open = {}
  BY DEF Init
<1>2. MaxTime >= MaxTime
  BY SmallNumbers DEF MaxTime
<1>3. Sorted([i \in 1 .. 4 |-> MaxTime])
  BY <1>2 DEF Sorted
<1>4. LrankQueues /\ PrankQueues
  BY <1>1, <1>3 DEF Init, LrankQueues, PrankQueues
<1> QED BY <1>1, <1>4, TypeInit DEF SdramInv, Recent, RefreshedClosed, AllApart, FourActivates

(* What every command that is sent keeps, given what its guard says. *)
LEMMA InvSend ==
  ASSUME SdramInv, TypeOK', onbus >= 1, NEW cmd \in Command, NEW a \in Address, Send(cmd, a),
         cmd = "ACT" => ActivateWindows(a),
         \A h \in trace : Apart(h, Sent(cmd, a)),
         cmd = "REFab" => \A b \in open' : ~SameLrank(a, b),
         \A b \in open' \ open, h \in trace : Undisturbed(h, Sent("ACT", b))
  PROVE  SdramInv'
<1>1. Recent'
  BY RecentSend DEF SdramInv
<1>2. LrankQueues' /\ PrankQueues'
  BY LrankQueuesSend, PrankQueuesSend DEF SdramInv
<1>3. RefreshedClosed'
  BY ClosedSend DEF SdramInv
<1>4. AllApart'
  BY ApartSend DEF SdramInv
<1>5. FourActivates'
  BY WindowsSend DEF SdramInv
<1> QED BY <1>1, <1>2, <1>3, <1>4, <1>5 DEF SdramInv

LEMMA InvBankCommand ==
  ASSUME SdramInv, TypeOK', NEW b \in Banks, NEW cmd \in {"ACT", "PRE"} \union Column,
         BankCommand(cmd, b)
  PROVE  SdramInv'
<1>1. cmd \in Command /\ b \in Address /\ cmd # "REFab" /\ cmd \notin Rfm
  BY Names DEF Recorded, Column, Reads, Writes, Rfm
<1>2. Send(cmd, b) /\ onbus >= 1 /\ (b \in open <=> cmd # "ACT")
  BY DEF BankCommand, TimeToSatisfyConstraints
<1>3. CASE cmd = "ACT"
  <2>1. ActAllowed(b)
    BY <1>3 DEF BankCommand, TimeToSatisfyConstraints, Reads, Writes
  <2>2. \A h \in trace : Apart(h, Sent(cmd, b))
    BY <1>3, <2>1, ApartAct DEF SdramInv
  <2>3. \A c \in open' \ open : c = b
    BY <1>3 DEF BankCommand
  <2>4. ActivateWindows(b)
    BY <2>1 DEF ActAllowed
  <2> QED BY <1>1, <1>2, <1>3, <2>2, <2>3, <2>4, InvSend DEF Apart
<1>4. CASE cmd # "ACT"
  <2>1. open' \ open = {}
    BY <1>4 DEF BankCommand
  <2>2. ASSUME NEW h \in trace PROVE Apart(h, Sent(cmd, b))
    <3>1. Undisturbed(h, Sent(cmd, b))
      BY <1>2, <1>4, ApartOpen DEF SdramInv
    <3>2. Rested(h, Sent(cmd, b)) /\ (cmd \notin Column => BusApart(h, Sent(cmd, b)))
      BY <1>1, <1>4, ApartOther
    <3>3. CASE cmd \in Reads
      <4>1. RdAllowed(b)
        BY <3>3 DEF BankCommand, TimeToSatisfyConstraints, Reads, Writes
      <4> QED BY <3>1, <3>2, <3>3, <4>1, ApartRead DEF SdramInv, Apart
    <3>4. CASE cmd \in Writes
      <4>1. WrAllowed(b)
        BY <3>4 DEF BankCommand, TimeToSatisfyConstraints, Reads, Writes
      <4> QED BY <3>1, <3>2, <3>4, <4>1, ApartWrite DEF SdramInv, Apart
    <3> QED BY <3>1, <3>2, <3>3, <3>4 DEF Apart, Column
  <2> QED BY <1>1, <1>2, <1>4, <2>1, <2>2, InvSend
<1> QED BY <1>3, <1>4

LEMMA InvRefresh ==
  ASSUME SdramInv, TypeOK', NEW r \in Ranks, NEW cmd \in {"REFab", "REFsb"}, Refresh(cmd, r)
  PROVE  SdramInv'
<1>1. cmd \in Command /\ r \in Address /\ cmd # "ACT"
  BY Names DEF Recorded, Command
<1>2. Send(cmd, r) /\ onbus >= 1 /\ open' = open
  BY DEF Refresh, TimeToSatisfyConstraints
<1>3. \A h \in trace : Apart(h, Sent(cmd, r))
  BY ApartRefresh DEF Refresh, SdramInv
<1>4. cmd = "REFab" => \A b \in open' : ~SameLrank(r, b)
  BY <1>2 DEF Refresh, SameLrank
<1> QED BY <1>1, <1>2, <1>3, <1>4, InvSend

LEMMA InvRefreshManagement ==
  ASSUME SdramInv, TypeOK', NEW b \in Banks, NEW cmd \in Rfm, RefreshManagement(cmd, b)
  PROVE  SdramInv'
<1>1. cmd \in Command /\ b \in Address /\ cmd \notin {"ACT", "REFab"} /\ cmd \notin Column
  BY Names DEF Command, Rfm, Column, Reads, Writes
<1>2. Send(cmd, b) /\ onbus >= 1 /\ open' = open
  BY DEF RefreshManagement
<1>3. \A h \in trace : Apart(h, Sent(cmd, b))
  BY <1>1, ApartOther DEF Apart
<1> QED BY <1>1, <1>2, <1>3, InvSend

LEMMA SdramStep == SdramInv /\ [Next]_vars => SdramInv'
<1> SUFFICES ASSUME SdramInv, [Next]_vars PROVE SdramInv'
  OBVIOUS
<1>1. TypeOK /\ TypeOK'
  BY TypeStep DEF SdramInv
<1>2. CASE Cycle
  BY <1>1, <1>2, RecentCycle, QueuesCycle, ClosedCycle, ApartCycle, WindowsCycle DEF SdramInv
<1>3. ASSUME NEW b \in Banks, NEW cmd \in {"ACT", "PRE"} \union Column, BankCommand(cmd, b)
      PROVE  SdramInv'
  BY <1>1, <1>3, InvBankCommand
<1>4. ASSUME NEW b \in Banks, NEW cmd \in Rfm, RefreshManagement(cmd, b)
      PROVE  SdramInv'
  BY <1>1, <1>4, InvRefreshManagement
<1>5. ASSUME NEW r \in Ranks, NEW cmd \in {"REFab", "REFsb"}, Refresh(cmd, r)
      PROVE  SdramInv'
  BY <1>1, <1>5, InvRefresh
<1>6. CASE UNCHANGED vars
  <2>1. UNCHANGED <<since, onbus, last_4Activates4lrank, last_4Activates4prank, open, trace>>
    BY <1>6 DEF vars, sdram
  <2>2. /\ Recent' <=> Recent
        /\ LrankQueues' <=> LrankQueues
        /\ PrankQueues' <=> PrankQueues
        /\ RefreshedClosed' <=> RefreshedClosed
        /\ AllApart' <=> AllApart
    BY <2>1 DEF Recent, LrankQueues, PrankQueues, RefreshedClosed, AllApart, Apart, BusApart,
                Rested, Undisturbed
  <2>3. FourActivates' <=> FourActivates
    BY <2>1 DEF FourActivates, LrankWindow, PrankWindow
  <2> QED BY <1>1, <2>2, <2>3 DEF SdramInv
<1> QED BY <1>1, <1>2, <1>3, <1>4, <1>5, <1>6, Steps

LEMMA SdramInvariant == Spec => []SdramInv
  BY SdramInit, SdramStep, PTL DEF Spec

(* For every geometry and set of delays in which a read's data comes at most a cycle
   later than a write's, no two bursts meet on the data bus of the channel. *)
THEOREM DataBusNeverShared == Spec => []DataBusFree
<1>1. SdramInv => DataBusFree
  BY ApartGoals DEF SdramInv
<1> QED BY <1>1, SdramInvariant, PTL

(* A bank closed by a precharge or by itself is neither opened nor refreshed before
   it has rested, although the tables keep one time per command and place. *)
THEOREM ClosedBanksRest == Spec => []BanksRest
<1>1. SdramInv => BanksRest
  BY ApartGoals DEF SdramInv
<1> QED BY <1>1, SdramInvariant, PTL

(* A logical rank under refresh gets no command of the controller but refresh
   management until the refresh is over. *)
THEOREM RefreshIsUndisturbed == Spec => []RefreshUndisturbed
<1>1. SdramInv => RefreshUndisturbed
  BY ApartGoals DEF SdramInv
<1> QED BY <1>1, SdramInvariant, PTL

(* Neither a logical nor a physical rank opens a fifth row in the window of four. *)
THEOREM AtMostFourActivates == Spec => []FourActivates
<1>1. SdramInv => FourActivates
  BY DEF SdramInv
<1> QED BY <1>1, SdramInvariant, PTL

-----------------------------------------------------------------------------
(* The times between any two commands *)

(* The cycles that the code has a command `d' wait for an earlier `c', by where the
   two go: to one bank, to banks of one bankgroup, of one logical rank, of two logical
   ranks of a physical rank, or of two physical ranks. *)
BankWait(c, d) ==
  CASE c = "ACT" /\ d \in Column -> timing.tRCD
    [] c = "ACT" /\ d = "PRE" -> timing.tRASmin
    [] c = "ACT" /\ d = "ACT" -> timing.tRCD + timing.tRASmin
    [] c = "RD" /\ d = "PRE" -> timing.tRTP_slr
    [] c = "WR" /\ d = "PRE" -> timing.tWR_slr
    [] OTHER -> 0
BankGroupWait(c, d) ==
  CASE c = "ACT" /\ d = "ACT" -> timing.tRRD_L_slr
    [] c \in Reads /\ d \in Reads -> timing.tCCD_L_slr
    [] c \in Writes /\ d \in Reads -> timing.tCCD_L_WTR_slr
    [] c \in Reads /\ d \in Writes -> timing.tCCD_L_RTW_slr
    [] c \in Writes /\ d \in Writes ->
         IF is_x4_device THEN timing.tCCD_L_WR_slr ELSE timing.tCCD_L_WR2_slr
    [] OTHER -> 0
LrankWait(c, d) ==
  CASE c = "ACT" /\ d = "ACT" -> timing.tRRD_S_slr
    [] c = "ACT" /\ d = "REFsb" -> timing.tRRD_L_slr
    [] c = "PRE" /\ d = "PRE" -> timing.tPPD_slr
    [] c \in Reads /\ d \in Reads -> timing.tCCD_S_slr
    [] c \in Writes /\ d \in Reads -> timing.tCCD_S_WTR_slr
    [] c \in Reads /\ d \in Writes -> timing.tCCD_S_RTW_slr
    [] c \in Writes /\ d \in Writes -> timing.tCCD_S_WR_slr
    [] c = "REFab" /\ d \in {"ACT", "REFab", "REFsb"} -> timing.tRFC_slr
    [] c = "REFsb" /\ d \in {"REFab", "REFsb"} -> timing.tRFCsb_slr
    [] OTHER -> 0
OtherLrankWait(c, d) ==
  CASE c = "ACT" /\ d \in {"ACT", "REFab", "REFsb"} -> timing.tRRD_dlr
    [] c = "PRE" /\ d = "PRE" -> timing.tPPD_dlr
    [] c \in Reads /\ d \in Reads -> timing.tCCD_dlr
    [] c \in Writes /\ d \in Reads -> timing.tCCD_WTR_dlr
    [] c \in Reads /\ d \in Writes -> timing.tCCD_RTW_dlr
    [] c \in Writes /\ d \in Writes -> timing.tCCD_WR_dlr
    [] c = "REFab" /\ d \in {"ACT", "REFab", "REFsb"} -> timing.tRFC_dlr
    [] c = "REFsb" /\ d = "ACT" -> timing.tREFSBRD_dlr
    [] c = "REFsb" /\ d \in {"REFab", "REFsb"} -> timing.tRFCsb_dlr
    [] OTHER -> 0
OtherPrankWait(c, d) ==
  CASE c \in Writes /\ d \in Writes -> timing.tCCD_WR_dpr
    [] c = "REFab" /\ d \in {"ACT", "REFab", "REFsb"} -> timing.tRFC_dpr
    [] OTHER -> 0

OtherLrank(a, b) == a.cs = b.cs /\ a.cid # b.cid

(* n came that many cycles after h, refresh management counting as a refresh. *)
Waited(h, n) ==
  /\ h.a = n.a => h.age >= n.age + BankWait(Alias(h.cmd), n.cmd)
  /\ h.a.real_bg = n.a.real_bg => h.age >= n.age + BankGroupWait(Alias(h.cmd), n.cmd)
  /\ SameLrank(h.a, n.a) => h.age >= n.age + LrankWait(Alias(h.cmd), n.cmd)
  /\ OtherLrank(h.a, n.a) => h.age >= n.age + OtherLrankWait(Alias(h.cmd), n.cmd)
  /\ h.a.cs # n.a.cs => h.age >= n.age + OtherPrankWait(Alias(h.cmd), n.cmd)

AllWaited == \A h \in trace, n \in trace : Before(h, n) => Waited(h, n)

LEMMA WaitTypes ==
  \A c, d : /\ BankWait(c, d) \in Nat /\ BankGroupWait(c, d) \in Nat /\ LrankWait(c, d) \in Nat
            /\ OtherLrankWait(c, d) \in Nat /\ OtherPrankWait(c, d) \in Nat
<1> SUFFICES ASSUME NEW c, NEW d
             PROVE  /\ BankWait(c, d) \in Nat /\ BankGroupWait(c, d) \in Nat
                    /\ LrankWait(c, d) \in Nat /\ OtherLrankWait(c, d) \in Nat
                    /\ OtherPrankWait(c, d) \in Nat
  OBVIOUS
<1>1. BankWait(c, d) \in Nat
  BY Timing DEF BankWait, Delay
<1>2. BankGroupWait(c, d) \in Nat
  BY Timing DEF BankGroupWait, Delay
<1>3. LrankWait(c, d) \in Nat
  BY Timing DEF LrankWait, Delay
<1>4. OtherLrankWait(c, d) \in Nat
  BY Timing DEF OtherLrankWait, Delay
<1>5. OtherPrankWait(c, d) \in Nat
  BY Timing DEF OtherPrankWait, Delay
<1> QED BY <1>1, <1>2, <1>3, <1>4, <1>5

(* What the code asks of the commands at a place p holds of h. *)
Heard(h, p) ==
  \A commands : \A delay \in Nat :
    Alias(h.cmd) \in commands /\ After(commands, {p}, delay) => h.age >= delay

LEMMA HeardThere ==
  ASSUME TypeOK, Recent, NEW h \in trace, NEW p \in Place, p \in Places(h.cmd, h.a)
  PROVE  Heard(h, p)
<1> SUFFICES ASSUME NEW commands, NEW delay \in Nat, Alias(h.cmd) \in commands,
                    After(commands, {p}, delay)
             PROVE  h.age >= delay
  BY DEF Heard
<1>1. since[Alias(h.cmd)][p] >= delay
  BY DEF After
<1>2. since[Alias(h.cmd)][p] <= h.age
  BY DEF Recent
<1>3. h.cmd \in Command /\ h.age \in Nat
  BY SmallNumbers DEF TypeOK
<1>4. Alias(h.cmd) \in Recorded
  BY <1>3, Names
<1>5. since[Alias(h.cmd)][p] \in Nat
  BY <1>4 DEF TypeOK
<1> QED BY <1>1, <1>2, <1>3, <1>5

(* A rule for several places is one for each. *)
LEMMA OnePlace ==
  ASSUME NEW places, NEW p \in places
  PROVE  \A commands, delay : After(commands, places, delay) => After(commands, {p}, delay)
  BY DEF After

LEMMA Asked ==
  ASSUME NEW cmd \in Command, NEW a, TimeToSatisfyConstraints(cmd, a)
  PROVE  /\ onbus >= 1
         /\ cmd = "ACT" => ActAllowed(a)
         /\ cmd = "PRE" => PreAllowed(a)
         /\ cmd = "REFab" => RefAbAllowed(a)
         /\ cmd = "REFsb" => RefSbAllowed(a)
         /\ cmd \in Reads => RdAllowed(a)
         /\ cmd \in Writes => WrAllowed(a)
  BY DEF TimeToSatisfyConstraints, Reads, Writes

(* The commands that the controller asks for. *)
Requested == Column \union {"ACT", "PRE", "REFab", "REFsb"}

LEMMA BankWaited ==
  ASSUME TypeOK, Recent, NEW cmd \in Requested, NEW a \in Banks,
         TimeToSatisfyConstraints(cmd, a), NEW h \in trace, h.a = a
  PROVE  h.age >= BankWait(Alias(h.cmd), cmd)
<1> DEFINE c == Alias(h.cmd)
           p == Bank(a.real_ba)
<1>1. h.age \in Nat /\ h.cmd \in Command
  BY SmallNumbers DEF TypeOK
<1>2. cmd \in Command
  BY DEF Requested, Command, Recorded
<1>3. c \in {"ACT", "RD", "WR"} => Heard(h, p)
  <2> SUFFICES ASSUME c \in {"ACT", "RD", "WR"} PROVE Heard(h, p)
    OBVIOUS
  <2>1. h.cmd \in {"ACT", "RD", "WR"}
    BY DEF Alias
  <2>2. p \in Places(h.cmd, h.a)
    BY <2>1, RankRecorded DEF Recorded, Column, Reads, Writes
  <2> QED BY <2>2, BankPlaces, HeardThere
<1>4. CASE cmd = "ACT"
  <2>1. After({"ACT"}, {p}, timing.tRCD + timing.tRASmin)
    BY <1>2, <1>4, Asked DEF ActAllowed
  <2>2. timing.tRCD + timing.tRASmin \in Nat
    BY Timing DEF Delay
  <2>3. c = "ACT" => h.age >= timing.tRCD + timing.tRASmin
    BY <1>3, <2>1, <2>2 DEF Heard
  <2> QED BY <1>1, <1>4, <2>3 DEF BankWait, Column, Reads, Writes
<1>5. CASE cmd = "PRE"
  <2>1. /\ After({"ACT"}, {p}, timing.tRASmin) /\ After({"RD"}, {p}, timing.tRTP_slr)
        /\ After({"WR"}, {p}, timing.tWR_slr)
    BY <1>2, <1>5, Asked DEF PreAllowed
  <2>2. timing.tRASmin \in Nat /\ timing.tRTP_slr \in Nat /\ timing.tWR_slr \in Nat
    BY Timing DEF Delay
  <2>3. /\ c = "ACT" => h.age >= timing.tRASmin
        /\ c = "RD" => h.age >= timing.tRTP_slr
        /\ c = "WR" => h.age >= timing.tWR_slr
    BY <1>3, <2>1, <2>2 DEF Heard
  <2> QED BY <1>1, <1>5, <2>3 DEF BankWait, Column, Reads, Writes
<1>6. CASE cmd \in Column
  <2>1. After({"ACT"}, {p}, timing.tRCD)
    BY <1>2, <1>6, Asked DEF RdAllowed, WrAllowed, Column
  <2>2. timing.tRCD \in Nat
    BY Timing DEF Delay
  <2>3. c = "ACT" => h.age >= timing.tRCD
    BY <1>3, <2>1, <2>2 DEF Heard
  <2> QED BY <1>1, <1>6, <2>3 DEF BankWait, Column, Reads, Writes
<1>7. CASE cmd \in {"REFab", "REFsb"}
  BY <1>1, <1>7 DEF BankWait, Column, Reads, Writes
<1> QED BY <1>4, <1>5, <1>6, <1>7 DEF Requested

LEMMA BankGroupWaited ==
  ASSUME TypeOK, Recent, NEW cmd \in Requested \ {"REFab", "REFsb"}, NEW a \in Banks,
         TimeToSatisfyConstraints(cmd, a), NEW h \in trace, h.a.real_bg = a.real_bg
  PROVE  h.age >= BankGroupWait(Alias(h.cmd), cmd)
<1> DEFINE c == Alias(h.cmd)
           p == BankGroup(a.real_bg)
           tWRL == IF is_x4_device THEN timing.tCCD_L_WR_slr ELSE timing.tCCD_L_WR2_slr
<1>1. h.age \in Nat /\ cmd \in Command
  BY SmallNumbers DEF TypeOK, Requested, Command, Recorded
<1>2. c \in Column \union {"ACT"} => Heard(h, p)
  <2> SUFFICES ASSUME c \in Column \union {"ACT"} PROVE Heard(h, p)
    OBVIOUS
  <2>1. Alias(h.cmd) \notin {"REFsb", "PREsb"}
    BY DEF Column, Reads, Writes
  <2>2. p \in Places(h.cmd, h.a)
    BY <2>1 DEF Places
  <2> QED BY <2>2, BankPlaces, HeardThere
<1>3. /\ timing.tRRD_L_slr \in Nat /\ timing.tCCD_L_slr \in Nat /\ timing.tCCD_L_WTR_slr \in Nat
      /\ timing.tCCD_L_RTW_slr \in Nat /\ tWRL \in Nat
  BY Timing DEF Delay
<1>4. CASE cmd = "ACT"
  <2>1. After({"ACT"}, {p}, timing.tRRD_L_slr)
    BY <1>1, <1>4, Asked DEF ActAllowed
  <2>2. c = "ACT" => h.age >= timing.tRRD_L_slr
    BY <1>2, <1>3, <2>1 DEF Heard
  <2> QED BY <1>1, <1>4, <2>2 DEF BankGroupWait, Reads, Writes
<1>5. CASE cmd = "PRE"
  BY <1>1, <1>5 DEF BankGroupWait, Reads, Writes
<1>6. CASE cmd \in Reads
  <2>1. After(Reads, {p}, timing.tCCD_L_slr) /\ After(Writes, {p}, timing.tCCD_L_WTR_slr)
    BY <1>1, <1>6, Asked DEF RdAllowed
  <2>2. /\ c \in Reads => h.age >= timing.tCCD_L_slr
        /\ c \in Writes => h.age >= timing.tCCD_L_WTR_slr
    BY <1>2, <1>3, <2>1 DEF Heard, Column
  <2> QED BY <1>1, <1>6, <2>2 DEF BankGroupWait, Reads, Writes
<1>7. CASE cmd \in Writes
  <2>1. After(Reads, {p}, timing.tCCD_L_RTW_slr) /\ After(Writes, {p}, tWRL)
    BY <1>1, <1>7, Asked DEF WrAllowed
  <2> HIDE DEF tWRL
  <2>2. /\ c \in Reads => h.age >= timing.tCCD_L_RTW_slr
        /\ c \in Writes => h.age >= tWRL
    BY <1>2, <1>3, <2>1 DEF Heard, Column
  <2> QED BY <1>1, <1>7, <2>2 DEF BankGroupWait, Reads, Writes, tWRL
<1> QED BY <1>4, <1>5, <1>6, <1>7 DEF Requested, Column

LEMMA LrankWaited ==
  ASSUME TypeOK, Recent, NEW cmd \in Requested, NEW a \in Address,
         TimeToSatisfyConstraints(cmd, a), NEW h \in trace, SameLrank(h.a, a)
  PROVE  h.age >= LrankWait(Alias(h.cmd), cmd)
<1> DEFINE c == Alias(h.cmd)
           p == Lrank(a.real_cid)
<1>1. h.age \in Nat /\ cmd \in Command /\ h.a \in Address
  BY SmallNumbers DEF TypeOK, Requested, Command, Recorded
<1>2. Heard(h, p)
  <2>1. p \in Places(h.cmd, h.a) /\ p \in Place
    BY <1>1, SameRank, RankPlaces, RankRecorded
  <2> QED BY <2>1, HeardThere
<1>3. /\ timing.tRRD_S_slr \in Nat /\ timing.tRRD_L_slr \in Nat /\ timing.tPPD_slr \in Nat
      /\ timing.tCCD_S_slr \in Nat /\ timing.tCCD_S_WTR_slr \in Nat
      /\ timing.tCCD_S_RTW_slr \in Nat /\ timing.tCCD_S_WR_slr \in Nat
      /\ timing.tRFC_slr \in Nat /\ timing.tRFCsb_slr \in Nat
  BY Timing DEF Delay
<1>4. CASE cmd = "ACT"
  <2>1. After({"ACT"}, {p}, timing.tRRD_S_slr) /\ After({"REFab"}, {p}, timing.tRFC_slr)
    BY <1>1, <1>4, Asked DEF ActAllowed, ActAfterRefresh
  <2>2. /\ c = "ACT" => h.age >= timing.tRRD_S_slr
        /\ c = "REFab" => h.age >= timing.tRFC_slr
    BY <1>2, <1>3, <2>1 DEF Heard
  <2> QED BY <1>1, <1>4, <2>2 DEF LrankWait, Reads, Writes
<1>5. CASE cmd = "PRE"
  <2>1. After({"PRE"}, {p}, timing.tPPD_slr)
    <3>1. After({"PRE"}, {BankGroup(a.real_bg), p}, timing.tPPD_slr)
      BY <1>1, <1>5, Asked DEF PreAllowed
    <3> QED BY <3>1, OnePlace
  <2>2. c = "PRE" => h.age >= timing.tPPD_slr
    BY <1>2, <1>3, <2>1 DEF Heard
  <2> QED BY <1>1, <1>5, <2>2 DEF LrankWait, Reads, Writes
<1>6. CASE cmd \in Reads
  <2>1. After(Reads, {p}, timing.tCCD_S_slr) /\ After(Writes, {p}, timing.tCCD_S_WTR_slr)
    BY <1>1, <1>6, Asked DEF RdAllowed
  <2>2. /\ c \in Reads => h.age >= timing.tCCD_S_slr
        /\ c \in Writes => h.age >= timing.tCCD_S_WTR_slr
    BY <1>2, <1>3, <2>1 DEF Heard
  <2> QED BY <1>1, <1>6, <2>2 DEF LrankWait, Reads, Writes
<1>7. CASE cmd \in Writes
  <2>1. After(Reads, {p}, timing.tCCD_S_RTW_slr) /\ After(Writes, {p}, timing.tCCD_S_WR_slr)
    BY <1>1, <1>7, Asked DEF WrAllowed
  <2>2. /\ c \in Reads => h.age >= timing.tCCD_S_RTW_slr
        /\ c \in Writes => h.age >= timing.tCCD_S_WR_slr
    BY <1>2, <1>3, <2>1 DEF Heard
  <2> QED BY <1>1, <1>7, <2>2 DEF LrankWait, Reads, Writes
<1>8. CASE cmd \in {"REFab", "REFsb"}
  <2>1. /\ After({"REFab"}, {p}, timing.tRFC_slr) /\ After({"REFsb"}, {p}, timing.tRFCsb_slr)
        /\ cmd = "REFsb" => After({"ACT"}, {p}, timing.tRRD_L_slr)
    BY <1>1, <1>8, Asked DEF RefAbAllowed, RefSbAllowed
  <2>2. /\ c = "REFab" => h.age >= timing.tRFC_slr
        /\ c = "REFsb" => h.age >= timing.tRFCsb_slr
        /\ cmd = "REFsb" /\ c = "ACT" => h.age >= timing.tRRD_L_slr
    BY <1>2, <1>3, <2>1 DEF Heard
  <2> QED BY <1>1, <1>8, <2>2 DEF LrankWait, Reads, Writes
<1> QED BY <1>4, <1>5, <1>6, <1>7, <1>8 DEF Requested, Column

LEMMA OtherLrankWaited ==
  ASSUME TypeOK, Recent, NEW cmd \in Requested, NEW a \in Address,
         TimeToSatisfyConstraints(cmd, a), NEW h \in trace, OtherLrank(h.a, a)
  PROVE  h.age >= OtherLrankWait(Alias(h.cmd), cmd)
<1> DEFINE c == Alias(h.cmd)
           p == Lrank(h.a.real_cid)
           q == Prank(a.cs)
<1>1. h.age \in Nat /\ cmd \in Command /\ h.a \in Address
  BY SmallNumbers DEF TypeOK, Requested, Command, Recorded
<1>2. Heard(h, p) /\ Heard(h, q)
  <2>1. p \in Places(h.cmd, h.a) /\ p \in Place /\ q \in Places(h.cmd, h.a) /\ q \in Place
    BY <1>1, RankPlaces, RankRecorded DEF OtherLrank
  <2> QED BY <2>1, HeardThere
<1>3. p \in OtherLranks(a)
  <2>1. h.a.cid \in Cid \ {a.cid} /\ h.a.real_cid = RealCid(a.cs, h.a.cid)
    BY <1>1, Addresses DEF OtherLrank
  <2> QED BY <2>1 DEF OtherLranks
<1>4. \A commands, delay : After(commands, OtherLranks(a), delay) => After(commands, {p}, delay)
  BY <1>3, OnePlace
<1>5. /\ timing.tRRD_dlr \in Nat /\ timing.tPPD_dlr \in Nat /\ timing.tCCD_dlr \in Nat
      /\ timing.tCCD_WTR_dlr \in Nat /\ timing.tCCD_RTW_dlr \in Nat /\ timing.tCCD_WR_dlr \in Nat
      /\ timing.tRFC_dlr \in Nat /\ timing.tREFSBRD_dlr \in Nat /\ timing.tRFCsb_dlr \in Nat
  BY Timing DEF Delay
<1>6. CASE cmd = "ACT"
  <2>1. /\ After({"ACT"}, {p}, timing.tRRD_dlr) /\ After({"REFab"}, {p}, timing.tRFC_dlr)
        /\ After({"REFsb"}, {p}, timing.tREFSBRD_dlr)
    BY <1>1, <1>4, <1>6, Asked DEF ActAllowed, ActAfterRefresh
  <2>2. /\ c = "ACT" => h.age >= timing.tRRD_dlr
        /\ c = "REFab" => h.age >= timing.tRFC_dlr
        /\ c = "REFsb" => h.age >= timing.tREFSBRD_dlr
    BY <1>2, <1>5, <2>1 DEF Heard
  <2> QED BY <1>1, <1>6, <2>2 DEF OtherLrankWait, Reads, Writes
<1>7. CASE cmd = "PRE"
  <2>1. After({"PRE", "PREsb", "PREab"}, {q}, timing.tPPD_dlr)
    BY <1>1, <1>7, Asked DEF PreAllowed
  <2>2. c = "PRE" => h.age >= timing.tPPD_dlr
    BY <1>2, <1>5, <2>1 DEF Heard
  <2> QED BY <1>1, <1>7, <2>2 DEF OtherLrankWait, Reads, Writes
<1>8. CASE cmd \in Reads
  <2>1. After(Reads, {p}, timing.tCCD_dlr) /\ After(Writes, {p}, timing.tCCD_WTR_dlr)
    BY <1>1, <1>4, <1>8, Asked DEF RdAllowed
  <2>2. /\ c \in Reads => h.age >= timing.tCCD_dlr
        /\ c \in Writes => h.age >= timing.tCCD_WTR_dlr
    BY <1>2, <1>5, <2>1 DEF Heard
  <2> QED BY <1>1, <1>8, <2>2 DEF OtherLrankWait, Reads, Writes
<1>9. CASE cmd \in Writes
  <2>1. After(Reads, {p}, timing.tCCD_RTW_dlr) /\ After(Writes, {p}, timing.tCCD_WR_dlr)
    BY <1>1, <1>4, <1>9, Asked DEF WrAllowed
  <2>2. /\ c \in Reads => h.age >= timing.tCCD_RTW_dlr
        /\ c \in Writes => h.age >= timing.tCCD_WR_dlr
    BY <1>2, <1>5, <2>1 DEF Heard
  <2> QED BY <1>1, <1>9, <2>2 DEF OtherLrankWait, Reads, Writes
<1>10. CASE cmd \in {"REFab", "REFsb"}
  <2>1. /\ After({"ACT"}, {p}, timing.tRRD_dlr) /\ After({"REFab"}, {p}, timing.tRFC_dlr)
        /\ After({"REFsb"}, {p}, timing.tRFCsb_dlr)
    BY <1>1, <1>4, <1>10, Asked DEF RefAbAllowed, RefSbAllowed, RefreshElsewhere
  <2>2. /\ c = "ACT" => h.age >= timing.tRRD_dlr
        /\ c = "REFab" => h.age >= timing.tRFC_dlr
        /\ c = "REFsb" => h.age >= timing.tRFCsb_dlr
    BY <1>2, <1>5, <2>1 DEF Heard
  <2> QED BY <1>1, <1>10, <2>2 DEF OtherLrankWait, Reads, Writes
<1> QED BY <1>6, <1>7, <1>8, <1>9, <1>10 DEF Requested, Column

LEMMA OtherPrankWaited ==
  ASSUME TypeOK, Recent, NEW cmd \in Requested, NEW a \in Address,
         TimeToSatisfyConstraints(cmd, a), NEW h \in trace, h.a.cs # a.cs
  PROVE  h.age >= OtherPrankWait(Alias(h.cmd), cmd)
<1> DEFINE c == Alias(h.cmd)
           p == Prank(h.a.cs)
<1>1. h.age \in Nat /\ cmd \in Command /\ h.a \in Address
  BY SmallNumbers DEF TypeOK, Requested, Command, Recorded
<1>2. Heard(h, p)
  <2>1. p \in Places(h.cmd, h.a) /\ p \in Place
    BY <1>1, RankPlaces, RankRecorded
  <2> QED BY <2>1, HeardThere
<1>3. p \in OtherPranks(a)
  BY <1>1, Addresses DEF OtherPranks
<1>4. \A commands, delay : After(commands, OtherPranks(a), delay) => After(commands, {p}, delay)
  BY <1>3, OnePlace
<1>5. timing.tCCD_WR_dpr \in Nat /\ timing.tRFC_dpr \in Nat
  BY Timing DEF Delay
<1>6. CASE cmd \in {"ACT", "REFab", "REFsb"}
  <2>1. After({"REFab"}, {p}, timing.tRFC_dpr)
    BY <1>1, <1>4, <1>6, Asked
       DEF ActAllowed, ActAfterRefresh, RefAbAllowed, RefSbAllowed, RefreshElsewhere
  <2>2. c = "REFab" => h.age >= timing.tRFC_dpr
    BY <1>2, <1>5, <2>1 DEF Heard
  <2> QED BY <1>1, <1>6, <2>2 DEF OtherPrankWait, Writes
<1>7. CASE cmd \in Writes
  <2>1. After(Writes, {p}, timing.tCCD_WR_dpr)
    BY <1>1, <1>4, <1>7, Asked DEF WrAllowed
  <2>2. c \in Writes => h.age >= timing.tCCD_WR_dpr
    BY <1>2, <1>5, <2>1 DEF Heard
  <2> QED BY <1>1, <1>7, <2>2 DEF OtherPrankWait, Writes
<1>8. CASE cmd \in Reads \union {"PRE"}
  BY <1>1, <1>8 DEF OtherPrankWait, Reads, Writes
<1> QED BY <1>6, <1>7, <1>8 DEF Requested, Column

(* A command that the controller asks for, and refresh management, which waits for none. *)
LEMMA WaitedSent ==
  ASSUME TypeOK, Recent, NEW cmd \in Requested, NEW a \in Address,
         cmd \notin {"REFab", "REFsb"} => a \in Banks,
         TimeToSatisfyConstraints(cmd, a), NEW h \in trace
  PROVE  Waited(h, Sent(cmd, a))
<1>1. Sent(cmd, a).cmd = cmd /\ Sent(cmd, a).a = a /\ Sent(cmd, a).age = 0 /\ h.age \in Nat
  BY SmallNumbers DEF Sent, TypeOK
<1>2. cmd \in {"REFab", "REFsb"} => BankWait(Alias(h.cmd), cmd) = 0
                                     /\ BankGroupWait(Alias(h.cmd), cmd) = 0
  BY DEF BankWait, BankGroupWait, Column, Reads, Writes
<1>3. h.a = a => h.age >= BankWait(Alias(h.cmd), cmd)
  BY <1>1, <1>2, BankWaited
<1>4. h.a.real_bg = a.real_bg => h.age >= BankGroupWait(Alias(h.cmd), cmd)
  BY <1>1, <1>2, BankGroupWaited
<1>5. SameLrank(h.a, a) => h.age >= LrankWait(Alias(h.cmd), cmd)
  BY LrankWaited
<1>6. OtherLrank(h.a, a) => h.age >= OtherLrankWait(Alias(h.cmd), cmd)
  BY OtherLrankWaited
<1>7. h.a.cs # a.cs => h.age >= OtherPrankWait(Alias(h.cmd), cmd)
  BY OtherPrankWaited
<1> QED BY <1>1, <1>3, <1>4, <1>5, <1>6, <1>7, WaitTypes DEF Waited

LEMMA WaitedManagement ==
  ASSUME TypeOK, NEW cmd \in Rfm, NEW a, NEW h \in trace
  PROVE  Waited(h, Sent(cmd, a))
<1>1. Sent(cmd, a).cmd = cmd /\ Sent(cmd, a).a = a /\ Sent(cmd, a).age = 0 /\ h.age \in Nat
  BY SmallNumbers DEF Sent, TypeOK
<1>2. \A c : /\ BankWait(c, cmd) = 0 /\ BankGroupWait(c, cmd) = 0 /\ LrankWait(c, cmd) = 0
             /\ OtherLrankWait(c, cmd) = 0 /\ OtherPrankWait(c, cmd) = 0
  BY DEF BankWait, BankGroupWait, LrankWait, OtherLrankWait, OtherPrankWait, Rfm, Column, Reads,
         Writes
<1> QED BY <1>1, <1>2 DEF Waited

LEMMA WaitedCycle == ASSUME TypeOK, AllWaited, Cycle PROVE AllWaited'
<1> SUFFICES ASSUME NEW m \in trace', NEW n \in trace', Before(m, n)
             PROVE  Waited(m, n)
  BY DEF AllWaited, Waited, Before, SameLrank, OtherLrank
<1>1. PICK h \in trace : \E g \in trace :
           /\ Before(h, g) /\ h.age \in Nat /\ g.age \in Nat
           /\ m.cmd = h.cmd /\ m.a = h.a /\ m.age = h.age + 1
           /\ n.cmd = g.cmd /\ n.a = g.a /\ n.age = g.age + 1
  BY AgedPair
<1>2. PICK g \in trace :
           /\ Before(h, g) /\ h.age \in Nat /\ g.age \in Nat
           /\ m.cmd = h.cmd /\ m.a = h.a /\ m.age = h.age + 1
           /\ n.cmd = g.cmd /\ n.a = g.a /\ n.age = g.age + 1
  BY <1>1
<1>3. Waited(h, g)
  BY <1>2 DEF AllWaited
<1>4. \A w \in Nat : h.age >= g.age + w => m.age >= n.age + w
  BY <1>2
<1> QED BY <1>2, <1>3, <1>4, WaitTypes DEF Waited

LEMMA WaitedSend ==
  ASSUME TypeOK, Recent, AllWaited, onbus >= 1, NEW cmd \in Command, NEW a \in Address,
         Send(cmd, a), \A h \in trace : Waited(h, Sent(cmd, a))
  PROVE  AllWaited'
<1> SUFFICES ASSUME NEW m \in trace', NEW n \in trace', Before(m, n)
             PROVE  Waited(m, n)
  BY DEF AllWaited, Waited, Before, SameLrank, OtherLrank
<1>1. m \in trace /\ (n \in trace \/ n = Sent(cmd, a))
  BY SentLast
<1> QED BY <1>1 DEF AllWaited

LEMMA WaitedStep == TypeOK /\ Recent /\ AllWaited /\ [Next]_vars => AllWaited'
<1> SUFFICES ASSUME TypeOK, Recent, AllWaited, [Next]_vars PROVE AllWaited'
  OBVIOUS
<1>1. CASE Cycle
  BY <1>1, WaitedCycle
<1>2. ASSUME NEW b \in Banks, NEW cmd \in {"ACT", "PRE"} \union Column, BankCommand(cmd, b)
      PROVE  AllWaited'
  <2>1. cmd \in Requested /\ cmd \in Command /\ b \in Address
    BY Names DEF Requested, Recorded
  <2>2. TimeToSatisfyConstraints(cmd, b) /\ onbus >= 1 /\ Send(cmd, b)
    BY <1>2 DEF BankCommand, TimeToSatisfyConstraints
  <2>3. \A h \in trace : Waited(h, Sent(cmd, b))
    BY <2>1, <2>2, WaitedSent
  <2> QED BY <2>1, <2>2, <2>3, WaitedSend
<1>3. ASSUME NEW b \in Banks, NEW cmd \in Rfm, RefreshManagement(cmd, b)
      PROVE  AllWaited'
  <2>1. cmd \in Command /\ b \in Address
    BY Names DEF Command
  <2>2. onbus >= 1 /\ Send(cmd, b)
    BY <1>3 DEF RefreshManagement
  <2>3. \A h \in trace : Waited(h, Sent(cmd, b))
    BY WaitedManagement
  <2> QED BY <2>1, <2>2, <2>3, WaitedSend
<1>4. ASSUME NEW r \in Ranks, NEW cmd \in {"REFab", "REFsb"}, Refresh(cmd, r)
      PROVE  AllWaited'
  <2>1. cmd \in Requested /\ cmd \in Command /\ r \in Address
    BY Names DEF Requested, Recorded
  <2>2. TimeToSatisfyConstraints(cmd, r) /\ onbus >= 1 /\ Send(cmd, r)
    BY <1>4 DEF Refresh, TimeToSatisfyConstraints
  <2>3. \A h \in trace : Waited(h, Sent(cmd, r))
    BY <2>1, <2>2, WaitedSent
  <2> QED BY <2>1, <2>2, <2>3, WaitedSend
<1>5. CASE UNCHANGED vars
  <2>1. trace' = trace
    BY <1>5 DEF vars
  <2> QED BY <2>1 DEF AllWaited, Waited, Before, SameLrank, OtherLrank
<1> QED BY <1>1, <1>2, <1>3, <1>4, <1>5, Steps

(* Of any two commands sent, the later one came as many cycles after the other as the
   code has it wait for one of that kind and place, however many of the kind came in
   between: the tables of TimeToSatisfyConstraints, which keep the last time of each
   kind at a place, lose no constraint of the commands before (InsertCommand,
   SdramConstraint.cpp:951). *)
THEOREM EveryCommandIsWaitedFor == Spec => []AllWaited
<1>1. Init => AllWaited
  BY DEF Init, AllWaited
<1>2. AllWaited /\ SdramInv /\ [Next]_vars => AllWaited'
  BY WaitedStep DEF SdramInv
<1> QED BY <1>1, <1>2, SdramInvariant, PTL DEF Spec

-----------------------------------------------------------------------------
(* The delays a memory specification gives *)

LEMMA Ceiling ==
  ASSUME NEW n \in Nat, NEW r \in Nat \ {0}
  PROVE  /\ Tranform2McClk(n, r) \in Nat
         /\ Tranform2McClk(n, r) * r >= n /\ Tranform2McClk(n, r) * r < n + r
<1>1. n + r - 1 \in Nat
  OBVIOUS
<1>2. \A m \in Nat : m \div r \in Nat /\ (m \div r) * r <= m /\ m < (m \div r) * r + r
  OBVIOUS
<1> QED BY <1>1, <1>2 DEF Tranform2McClk

(* Cycles of the controller that are long enough for a time: the rounding of JEDEC
   takes off no more than three parts in a thousand. *)
THEOREM RoundingKeepsTime ==
  ASSUME NEW t \in Nat, NEW tCK \in Nat \ {0}
  PROVE  AcTimingRounding(t, tCK, TRUE) * tCK * 1000 >= t * 997
<1> DEFINE q == (t * 997) \div tCK
           n == (q + 1000) \div 1000
<1>1. q \in Nat /\ t * 997 < (q + 1) * tCK
  OBVIOUS
<1>2. n \in Nat /\ n * 1000 >= q + 1
  BY <1>1
<1>3. n * tCK * 1000 >= (q + 1) * tCK
  BY <1>1, <1>2
<1> QED BY <1>1, <1>2, <1>3 DEF AcTimingRounding

(* What is assumed of the latencies follows for every specification the loader
   accepts whose controller runs at half the clock of the memory or slower. *)
THEOREM LatenciesOfSpec ==
  ASSUME NEW s, WellFormed(s), s.FreqRatio >= 2
  PROVE  /\ McTiming(s).tCWL <= McTiming(s).tCL /\ McTiming(s).tCL <= McTiming(s).tCWL + 1
         /\ McTiming(s).tBurst > 0
<1> DEFINE r == s.FreqRatio
           l == Tranform2McClk(s.CL, r)
           w == Tranform2McClk(s.CWL, r)
<1>1. /\ s.CL \in Nat /\ s.CWL \in Nat /\ s.CL = s.CWL + 2 /\ r \in Nat \ {0} /\ r >= 2
      /\ s.tCK \in Nat \ {0} /\ s.BurstLenth \in Nat /\ s.DataRate \in Nat \ {0}
      /\ s.BurstLenth >= s.DataRate
  BY DEF WellFormed
<1>2. /\ l \in Nat /\ l * r >= s.CL /\ l * r < s.CL + r
      /\ w \in Nat /\ w * r >= s.CWL /\ w * r < s.CWL + r
  BY <1>1, Ceiling
<1>3. McTiming(s).tCL = l /\ McTiming(s).tCWL = w /\ McTiming(s).tBurst = Cycles(s, tBurst(s))
  BY DEF McTiming
<1> HIDE DEF r, l, w
<1>4. w * r < l * r + r /\ l * r < w * r + 2 * r
  <2>1. l * r \in Nat /\ w * r \in Nat
    BY <1>1, <1>2
  <2> QED BY <1>1, <1>2, <2>1
<1>5. w < l + 1 /\ l < w + 2
  <2>1. w * r < (l + 1) * r /\ l * r < (w + 2) * r
    BY <1>1, <1>2, <1>4
  <2>2. \A x, y \in Nat : x * r < y * r => x < y
    BY <1>1
  <2> QED BY <1>2, <2>1, <2>2
<1>6. Cycles(s, tBurst(s)) > 0
  <2>1. tBurst(s) \in Nat \ {0}
    <3>1. s.BurstLenth * s.tCK \in Nat /\ s.BurstLenth * s.tCK >= s.DataRate
      BY <1>1
    <3> QED BY <1>1, <3>1 DEF tBurst
  <2>2. AcTimingRounding(tBurst(s), s.tCK, TRUE) \in Nat \ {0}
    <3>1. (tBurst(s) * 997) \div s.tCK \in Nat
      BY <1>1, <2>1
    <3> QED BY <2>1, <3>1 DEF AcTimingRounding
  <2>3. \A n \in Nat \ {0} : Tranform2McClk(n, r) > 0
    BY <1>1, Ceiling
  <2> QED BY <2>2, <2>3 DEF Cycles, r
<1> QED BY <1>2, <1>3, <1>5, <1>6
=============================================================================
