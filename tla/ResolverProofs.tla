---------------------------- MODULE ResolverProofs ----------------------------
(***************************************************************************)
(* No slot of the guard leaks and no cap is exceeded, for any number of    *)
(* threads, clients and zones.  The counters are counts of threads, so     *)
(* every step that takes or gives back a slot is a set that gains or loses *)
(* one element.                                                            *)
(***************************************************************************)
EXTENDS ResolverProps, FiniteSetTheorems, TLAPS

-----------------------------------------------------------------------------
(* The types.                                                              *)

\* A thread at a query that goes on, waits or replies keeps the types of the threads.
LEMMA Moves ==
    ASSUME ThreadTypes, NEW q \in Queries, pc[q] # "idle", NEW label \in Pcs \ {"idle"},
           NEW out \in BOOLEAN, Goto(q, label) \/ Wait(q, label, out) \/ Reply(q)
    PROVE  ThreadTypes'
<1> USE DEF ThreadTypes, Pcs
<1>1. CASE Goto(q, label) BY <1>1 DEF Goto
<1>2. CASE Wait(q, label, out) BY <1>2 DEF Wait
<1>3. CASE Reply(q) BY <1>3 DEF Reply
<1> QED BY <1>1, <1>2, <1>3

\* So does one that takes note of a canary's verdict.
LEMMA Learns ==
    ASSUME ThreadTypes, NEW q \in Queries, pc[q] # "idle", NEW v \in BOOLEAN,
           pc' = [pc EXCEPT ![q] = "judge"], verdict' = [verdict EXCEPT ![q] = v],
           hit' = hit \/ hit' = [hit EXCEPT ![q] = FALSE], request' = request
    PROVE  ThreadTypes'
<1>1. pc' \in [Queries -> Pcs] /\ request' \in [Queries -> Requests \cup {None}]
  BY DEF ThreadTypes, Pcs
<1>2. \A p \in Queries : pc'[p] = "idle" <=> request'[p] = None
  BY DEF ThreadTypes
<1>3. hit' \in [Queries -> BOOLEAN] /\ verdict' \in [Queries -> BOOLEAN]
  BY DEF ThreadTypes
<1> QED BY <1>1, <1>2, <1>3 DEF ThreadTypes

\* Giving a slot back leaves natural numbers.
LEMMA Returns ==
    ASSUME SlotTypes, NEW q \in Queries, GiveBack(q)
    PROVE  SlotTypes'
<1>1. \A n \in Nat : Less(n) \in Nat BY DEF Less
<1>2. udp' \in Nat BY <1>1 DEF SlotTypes, GiveBack
<1>3. byClient' \in [Lanes -> Nat] BY <1>1 DEF SlotTypes, GiveBack
<1>4. byZone' \in [Zones -> Nat] BY <1>1 DEF SlotTypes, GiveBack
<1> QED BY <1>2, <1>3, <1>4 DEF SlotTypes

\* The types hold after every step of a thread.
LEMMA StepTypes ==
    ASSUME TypeOK, NEW q \in Queries, Step(q)
    PROVE  TypeOK'
<1> USE DEF TypeOK
<1>a. ASSUME UNCHANGED slotVars PROVE SlotTypes' BY <1>a DEF SlotTypes, slotVars
<1>b. ASSUME UNCHANGED <<worldVars, holdVars, breakerVars, canaryVars>> PROVE OtherTypes'
  BY <1>b DEF OtherTypes, worldVars, holdVars, breakerVars, canaryVars
<1>c. q \in Queries /\ (pc[q] # "idle" => request[q] \in Requests) BY DEF ThreadTypes
<1>d. \A x \in BOOLEAN, label \in Pcs \ {"idle"} :
        pc[q] # "idle" /\ (Goto(q, label) \/ Wait(q, label, x) \/ Reply(q)) => ThreadTypes'
  BY Moves
<1>1. CASE Acquire(q)
  <2>1. SlotTypes'
    <3>1. CASE Full(q) BY <1>1, <1>a, <3>1 DEF Acquire
    <3>2. CASE ~Full(q) BY <1>1, <3>2 DEF Acquire, SlotTypes
    <3> QED BY <3>1, <3>2
  <2>2. ThreadTypes'
    BY <1>1, <1>d DEF Acquire, Pcs
  <2> QED BY <2>1, <2>2, <1>1, <1>b DEF Acquire
<1>2. CASE Submit(q)
  BY <1>2, <1>a, <1>b, <1>d DEF Submit, Pcs
<1>3. CASE Abandon(q)
  BY <1>3, <1>b, <1>d, Returns DEF Abandon, Pcs
<1>4. CASE Ask(q)
  <2>1. OtherTypes' BY <1>4 DEF Ask, OtherTypes, worldVars, holdVars, canaryVars
  <2>2. (~up \/ Zone(q) \in bad) \in BOOLEAN OBVIOUS
  <2>3. ThreadTypes' BY <1>4, <1>d, <2>2 DEF Ask, Pcs
  <2> QED BY <2>1, <2>3, <1>4, <1>a DEF Ask
<1>5. CASE Answer(q)
  <2>1. OtherTypes' BY <1>5 DEF Answer, OtherTypes, worldVars, holdVars, canaryVars
  <2>2. ThreadTypes' BY <1>5, <1>d DEF Answer, Pcs
  <2> QED BY <2>1, <2>2, <1>5, <1>a DEF Answer
<1>6. CASE Fail(q)
  BY <1>6, <1>a, <1>b, <1>d DEF Fail, Pcs
<1>7. CASE Raise(q)
  BY <1>7, <1>a, <1>b, <1>d DEF Raise, Pcs
<1>8. CASE Release(q)
  BY <1>8, <1>b, <1>d, Returns DEF Release, Pcs
<1>9. CASE Note(q)
  <2>1. ThreadTypes'
    <3>1. CASE Goto(q, "charge") \/ Goto(q, "try") BY <1>9, <3>1, <1>d DEF Note, Pcs
    <3>2. CASE ~(Goto(q, "charge") \/ Goto(q, "try"))
      BY <1>9, <3>2, Learns DEF Note, OtherTypes
    <3> QED BY <3>1, <3>2
  <2> QED BY <2>1, <1>9, <1>a, <1>b DEF Note
<1>10. CASE TryCanary(q)
  <2>1. OtherTypes'
    BY <1>10 DEF TryCanary, OtherTypes, worldVars, holdVars, breakerVars
  <2>2. (~up) \in BOOLEAN OBVIOUS
  <2>3. ThreadTypes' BY <1>10, <1>d, <2>2 DEF TryCanary, Pcs
  <2> QED BY <2>1, <2>3, <1>10, <1>a DEF TryCanary
<1>11. CASE \E answered \in BOOLEAN : Canary(q, answered)
  <2> PICK answered \in BOOLEAN : Canary(q, answered) BY <1>11
  <2>1. OtherTypes' BY DEF Canary, OtherTypes, worldVars, holdVars, breakerVars
  <2>2. ThreadTypes' BY Learns DEF Canary
  <2> QED BY <2>1, <2>2, <1>a DEF Canary
<1>12. CASE CanaryRaises(q)
  <2>1. OtherTypes' BY <1>12 DEF CanaryRaises, OtherTypes, worldVars, holdVars, breakerVars
  <2>2. ThreadTypes' BY <1>12, <1>d DEF CanaryRaises, Pcs
  <2> QED BY <2>1, <2>2, <1>12, <1>a DEF CanaryRaises
<1>13. CASE Judge(q)
  <2>1. verdict[q] \in BOOLEAN BY DEF ThreadTypes
  <2>2. OtherTypes' BY <1>13, <2>1 DEF Judge, OtherTypes, worldVars, holdVars, canaryVars
  <2>3. ThreadTypes' BY <1>13, <1>d DEF Judge, Pcs
  <2> QED BY <2>2, <2>3, <1>13, <1>a DEF Judge
<1>14. CASE Charge(q)
  <2>1. Name(q) \in Names /\ Zone(q) \in Zones
    BY <1>14, <1>c, ResolverAssumption DEF Charge, Name, Zone
  <2>2. OtherTypes'
    BY <1>14, <2>1 DEF Charge, OtherTypes, worldVars, breakerVars, canaryVars
  <2>3. ThreadTypes' BY <1>14, <1>d DEF Charge, Pcs
  <2> QED BY <2>2, <2>3, <1>14, <1>a DEF Charge
<1> QED BY <1>1, <1>2, <1>3, <1>4, <1>5, <1>6, <1>7, <1>8, <1>9, <1>10, <1>11, <1>12, <1>13, <1>14 DEF Step

-----------------------------------------------------------------------------
(* The slots.                                                              *)

OverUdp   == {q \in Holders : ~Tcp(q)}
OnLane(l) == {q \in Holders : Lane(q) = l}
OfZone(z) == {q \in Holders : Zone(q) = z}

\* Adding an element to a finite set, or removing one from it, changes its size by one.
LEMMA OneMore ==
    ASSUME NEW S \in SUBSET Queries, NEW q \in Queries
    PROVE  /\ Cardinality(S) \in Nat
           /\ q \notin S => Cardinality(S \cup {q}) = Cardinality(S) + 1
           /\ q \in S => Cardinality(S) > 0 /\ Cardinality(S \ {q}) = Cardinality(S) - 1
<1>1. IsFiniteSet(S) BY FS_Subset, ResolverAssumption
<1>2. Cardinality(S) \in Nat BY <1>1, FS_CardinalityType
<1>3. ASSUME q \in S PROVE Cardinality(S) > 0
  BY <1>1, <1>2, <1>3, FS_EmptySet
<1> QED BY <1>1, <1>2, <1>3, FS_AddElement, FS_RemoveElement

\* The caps are numbers, and one less is one less.
LEMMA Numbers ==
    /\ PerClient \in Nat /\ PerZone \in Nat /\ Total \in Nat
    /\ \A n \in Nat : n > 0 => Less(n) = n - 1
BY ResolverAssumption DEF Less

\* A step that moves no thread into or out of the holders and keeps what they hold.
LEMMA SlotsKept ==
    ASSUME SlotsBalance, UNCHANGED slotVars, Holders' = Holders,
           \A q \in Holders : request'[q] = request[q]
    PROVE  SlotsBalance'
<1>1. OverUdp' = OverUdp BY DEF OverUdp, Tcp
<1>2. \A l : OnLane(l)' = OnLane(l) BY DEF OnLane, Lane
<1>3. \A z : OfZone(z)' = OfZone(z) BY DEF OfZone, Zone, Name
<1> QED BY <1>1, <1>2, <1>3 DEF SlotsBalance, slotVars, OverUdp, OnLane, OfZone

\* A thread takes a slot where there is one.
LEMMA SlotTaken ==
    ASSUME TypeOK, SlotsBalance, NEW q \in Queries, pc[q] = "acquire", Acquire(q), ~Full(q)
    PROVE  SlotsBalance'
<1>1. q \notin Holders BY DEF Holders
<1>2. Holders' = Holders \cup {q} /\ request' = request
  BY DEF TypeOK, ThreadTypes, Pcs, Holders, Acquire, Goto
<1>3. request[q] \in Requests BY DEF TypeOK, ThreadTypes
<1>4. Lane(q) \in Lanes /\ Zone(q) \in Zones /\ Tcp(q) \in BOOLEAN
  BY <1>3, ResolverAssumption DEF Lane, Lanes, Zone, Name, Tcp
<1>5. OverUdp' = IF Tcp(q) THEN OverUdp ELSE OverUdp \cup {q}
  BY <1>1, <1>2 DEF OverUdp, Tcp
<1>6. \A l \in Lanes : OnLane(l)' = IF l = Lane(q) THEN OnLane(l) \cup {q} ELSE OnLane(l)
  BY <1>1, <1>2 DEF OnLane, Lane
<1>7. \A z \in Zones : OfZone(z)' = IF z = Zone(q) THEN OfZone(z) \cup {q} ELSE OfZone(z)
  BY <1>1, <1>2 DEF OfZone, Zone, Name
<1>8. /\ OverUdp \in SUBSET Queries /\ q \notin OverUdp
      /\ \A l : OnLane(l) \in SUBSET Queries /\ q \notin OnLane(l)
      /\ \A z : OfZone(z) \in SUBSET Queries /\ q \notin OfZone(z)
  BY <1>1 DEF OverUdp, OnLane, OfZone, Holders
<1>9. /\ udp' = IF Tcp(q) THEN udp ELSE udp + 1
      /\ byClient' = [byClient EXCEPT ![Lane(q)] = @ + 1]
      /\ byZone' = [byZone EXCEPT ![Zone(q)] = @ + 1]
  BY DEF Acquire
<1>10. udp' = Cardinality(OverUdp') /\ udp' <= Total
  <2>1. udp = Cardinality(OverUdp) /\ udp <= Total BY DEF SlotsBalance, OverUdp
  <2>2. Cardinality(OverUdp \cup {q}) = Cardinality(OverUdp) + 1 BY <1>8, OneMore
  <2> QED BY <2>1, <2>2, <1>4, <1>5, <1>9, Numbers DEF Full, TypeOK, SlotTypes
<1>11. \A l \in Lanes : byClient'[l] = Cardinality(OnLane(l)') /\ byClient'[l] <= PerClient
  <2> TAKE l \in Lanes
  <2>1. byClient[l] = Cardinality(OnLane(l)) /\ byClient[l] <= PerClient BY DEF SlotsBalance, OnLane
  <2>2. Cardinality(OnLane(l) \cup {q}) = Cardinality(OnLane(l)) + 1 BY <1>8, OneMore
  <2>3. CASE l = Lane(q)
    <3>1. OnLane(l)' = OnLane(l) \cup {q} BY <2>3, <1>6
    <3>2. byClient'[l] = byClient[l] + 1 BY <2>3, <1>9 DEF TypeOK, SlotTypes
    <3>3. ~(byClient[l] >= PerClient) BY <2>3 DEF Full
    <3>4. byClient[l] \in Nat BY DEF TypeOK, SlotTypes
    <3> QED BY <2>1, <2>2, <3>1, <3>2, <3>3, <3>4, Numbers
  <2>4. CASE l # Lane(q)
    <3>1. OnLane(l)' = OnLane(l) BY <2>4, <1>6
    <3>2. byClient'[l] = byClient[l] BY <2>4, <1>9 DEF TypeOK, SlotTypes
    <3> QED BY <2>1, <3>1, <3>2
  <2> QED BY <2>3, <2>4
<1>12. \A z \in Zones : byZone'[z] = Cardinality(OfZone(z)') /\ byZone'[z] <= PerZone
  <2> TAKE z \in Zones
  <2>1. byZone[z] = Cardinality(OfZone(z)) /\ byZone[z] <= PerZone BY DEF SlotsBalance, OfZone
  <2>2. Cardinality(OfZone(z) \cup {q}) = Cardinality(OfZone(z)) + 1 BY <1>8, OneMore
  <2>3. CASE z = Zone(q)
    <3>1. OfZone(z)' = OfZone(z) \cup {q} BY <2>3, <1>7
    <3>2. byZone'[z] = byZone[z] + 1 BY <2>3, <1>9 DEF TypeOK, SlotTypes
    <3>3. ~(byZone[z] >= PerZone) BY <2>3 DEF Full
    <3>4. byZone[z] \in Nat BY DEF TypeOK, SlotTypes
    <3> QED BY <2>1, <2>2, <3>1, <3>2, <3>3, <3>4, Numbers
  <2>4. CASE z # Zone(q)
    <3>1. OfZone(z)' = OfZone(z) BY <2>4, <1>7
    <3>2. byZone'[z] = byZone[z] BY <2>4, <1>9 DEF TypeOK, SlotTypes
    <3> QED BY <2>1, <3>1, <3>2
  <2> QED BY <2>3, <2>4
<1> QED BY <1>10, <1>11, <1>12 DEF SlotsBalance, OverUdp, OnLane, OfZone

\* A thread that holds a slot gives it back and is no holder any more.
LEMMA SlotGiven ==
    ASSUME TypeOK, SlotsBalance, NEW q \in Holders, GiveBack(q), Holders' = Holders \ {q},
           \A p \in Holders \ {q} : request'[p] = request[p]
    PROVE  SlotsBalance'
<1>1. q \in Queries /\ request[q] \in Requests BY DEF TypeOK, ThreadTypes, Holders
<1>2. Lane(q) \in Lanes /\ Zone(q) \in Zones /\ Tcp(q) \in BOOLEAN
  BY <1>1, ResolverAssumption DEF Lane, Lanes, Zone, Name, Tcp
<1>3. OverUdp' = IF Tcp(q) THEN OverUdp ELSE OverUdp \ {q}
  BY DEF OverUdp, Tcp
<1>4. \A l \in Lanes : OnLane(l)' = IF l = Lane(q) THEN OnLane(l) \ {q} ELSE OnLane(l)
  BY DEF OnLane, Lane
<1>5. \A z \in Zones : OfZone(z)' = IF z = Zone(q) THEN OfZone(z) \ {q} ELSE OfZone(z)
  BY DEF OfZone, Zone, Name
<1>6. /\ OverUdp \in SUBSET Queries /\ (~Tcp(q) => q \in OverUdp)
      /\ \A l : OnLane(l) \in SUBSET Queries /\ q \in OnLane(Lane(q))
      /\ \A z : OfZone(z) \in SUBSET Queries /\ q \in OfZone(Zone(q))
  BY DEF OverUdp, OnLane, OfZone, Holders
<1>7. udp' = Cardinality(OverUdp') /\ udp' <= Total
  <2>1. udp = Cardinality(OverUdp) /\ udp <= Total BY DEF SlotsBalance, OverUdp
  <2>2. CASE Tcp(q) BY <2>1, <2>2, <1>3 DEF GiveBack
  <2>3. CASE ~Tcp(q)
    <3>1. Cardinality(OverUdp) > 0 /\ Cardinality(OverUdp \ {q}) = Cardinality(OverUdp) - 1
      BY <2>3, <1>1, <1>6, OneMore
    <3> QED BY <2>1, <2>3, <3>1, <1>3, Numbers DEF GiveBack, TypeOK, SlotTypes
  <2> QED BY <2>2, <2>3
<1>8. \A l \in Lanes : byClient'[l] = Cardinality(OnLane(l)') /\ byClient'[l] <= PerClient
  <2> TAKE l \in Lanes
  <2>1. byClient[l] = Cardinality(OnLane(l)) /\ byClient[l] <= PerClient BY DEF SlotsBalance, OnLane
  <2>2. CASE l = Lane(q)
    <3>1. Cardinality(OnLane(l)) > 0 /\ Cardinality(OnLane(l) \ {q}) = Cardinality(OnLane(l)) - 1
      BY <2>2, <1>1, <1>6, OneMore
    <3>2. OnLane(l)' = OnLane(l) \ {q} BY <2>2, <1>4
    <3>3. byClient'[l] = Less(byClient[l]) BY <2>2 DEF GiveBack, TypeOK, SlotTypes
    <3>4. byClient[l] \in Nat BY DEF TypeOK, SlotTypes
    <3> QED BY <2>1, <3>1, <3>2, <3>3, <3>4, Numbers
  <2>3. CASE l # Lane(q)
    <3>1. OnLane(l)' = OnLane(l) BY <2>3, <1>4
    <3>2. byClient'[l] = byClient[l] BY <2>3 DEF GiveBack, TypeOK, SlotTypes
    <3> QED BY <2>1, <3>1, <3>2
  <2> QED BY <2>2, <2>3
<1>9. \A z \in Zones : byZone'[z] = Cardinality(OfZone(z)') /\ byZone'[z] <= PerZone
  <2> TAKE z \in Zones
  <2>1. byZone[z] = Cardinality(OfZone(z)) /\ byZone[z] <= PerZone BY DEF SlotsBalance, OfZone
  <2>2. CASE z = Zone(q)
    <3>1. Cardinality(OfZone(z)) > 0 /\ Cardinality(OfZone(z) \ {q}) = Cardinality(OfZone(z)) - 1
      BY <2>2, <1>1, <1>6, OneMore
    <3>2. OfZone(z)' = OfZone(z) \ {q} BY <2>2, <1>5
    <3>3. byZone'[z] = Less(byZone[z]) BY <2>2 DEF GiveBack, TypeOK, SlotTypes
    <3>4. byZone[z] \in Nat BY DEF TypeOK, SlotTypes
    <3> QED BY <2>1, <3>1, <3>2, <3>3, <3>4, Numbers
  <2>3. CASE z # Zone(q)
    <3>1. OfZone(z)' = OfZone(z) BY <2>3, <1>5
    <3>2. byZone'[z] = byZone[z] BY <2>3 DEF GiveBack, TypeOK, SlotTypes
    <3> QED BY <2>1, <3>1, <3>2
  <2> QED BY <2>2, <2>3
<1> QED BY <1>7, <1>8, <1>9 DEF SlotsBalance, OverUdp, OnLane, OfZone

\* A thread goes from one place where it holds a slot to another, or from one where it
\* holds none to another.
LEMMA Stays ==
    ASSUME TypeOK, SlotsBalance, NEW q \in Queries, UNCHANGED slotVars,
           \A p \in Queries \ {q} : pc'[p] = pc[p] /\ request'[p] = request[p],
           \/ q \in Holders /\ q \in Holders' /\ request'[q] = request[q]
           \/ q \notin Holders /\ q \notin Holders'
    PROVE  SlotsBalance'
<1>1. Holders' = Holders BY DEF Holders
<1>2. \A p \in Holders : request'[p] = request[p] BY DEF Holders
<1> QED BY <1>1, <1>2, SlotsKept

\* A thread that holds a slot gives it back on its way to a place where it holds none.
LEMMA Leaves ==
    ASSUME TypeOK, SlotsBalance, NEW q \in Queries, q \in Holders, GiveBack(q), q \notin Holders',
           \A p \in Queries \ {q} : pc'[p] = pc[p] /\ request'[p] = request[p]
    PROVE  SlotsBalance'
<1>1. Holders' = Holders \ {q} BY DEF Holders
<1>2. \A p \in Holders \ {q} : request'[p] = request[p] BY DEF Holders
<1> QED BY <1>1, <1>2, SlotGiven

\* The slots are in balance after every step of a thread.
LEMMA StepSlots ==
    ASSUME TypeOK, SlotsBalance, NEW q \in Queries, Step(q)
    PROVE  SlotsBalance'
<1> USE DEF Goto, Wait, Reply
<1>t. pc \in [Queries -> Pcs] /\ request \in [Queries -> Requests \cup {None}]
  BY DEF TypeOK, ThreadTypes
<1>1. CASE Acquire(q)
  <2>1. CASE Full(q) BY <1>1, <2>1, <1>t, Stays DEF Acquire, Holders
  <2>2. CASE ~Full(q) BY <1>1, <2>2, SlotTaken DEF Acquire
  <2> QED BY <2>1, <2>2
<1>2. CASE Submit(q) BY <1>2, <1>t, Stays DEF Submit, Holders
<1>3. CASE Abandon(q) BY <1>3, <1>t, Leaves DEF Abandon, Holders
<1>4. CASE Ask(q) BY <1>4, <1>t, Stays DEF Ask, Holders
<1>5. CASE Answer(q) BY <1>5, <1>t, Stays DEF Answer, Holders
<1>6. CASE Fail(q) BY <1>6, <1>t, Stays DEF Fail, Holders
<1>7. CASE Raise(q) BY <1>7, <1>t, Stays DEF Raise, Holders
<1>8. CASE Release(q) BY <1>8, <1>t, Leaves DEF Release, Holders
<1>9. CASE Note(q) BY <1>9, <1>t, Stays DEF Note, Holders
<1>10. CASE TryCanary(q) BY <1>10, <1>t, Stays DEF TryCanary, Holders
<1>11. CASE \E answered \in BOOLEAN : Canary(q, answered) BY <1>11, <1>t, Stays DEF Canary, Holders
<1>12. CASE CanaryRaises(q) BY <1>12, <1>t, Stays DEF CanaryRaises, Holders
<1>13. CASE Judge(q) BY <1>13, <1>t, Stays DEF Judge, Holders
<1>14. CASE Charge(q) BY <1>14, <1>t, Stays DEF Charge, Holders
<1> QED BY <1>1, <1>2, <1>3, <1>4, <1>5, <1>6, <1>7, <1>8, <1>9, <1>10, <1>11, <1>12, <1>13, <1>14 DEF Step

\* A new query holds nothing yet.
LEMMA BeginKeeps ==
    ASSUME TypeOK, SlotsBalance, NEW q \in Queries, NEW r \in Requests, Begin(q, r)
    PROVE  TypeOK' /\ SlotsBalance'
<1>1. r # None BY ResolverAssumption
<1>2. ThreadTypes' BY <1>1 DEF TypeOK, ThreadTypes, Begin, Pcs
<1>3. SlotTypes' /\ OtherTypes'
  BY DEF TypeOK, SlotTypes, OtherTypes, Begin, worldVars, slotVars, holdVars, breakerVars, canaryVars
<1>4. SlotsBalance' BY Stays DEF TypeOK, ThreadTypes, Begin, Holders
<1> QED BY <1>2, <1>3, <1>4 DEF TypeOK

\* Neither the network nor the clock touches the slots or moves a thread.
LEMMA WorldKeeps ==
    ASSUME TypeOK, SlotsBalance,
           \/ Outage \/ (\E z \in Flaky : Slow(z)) \/ RecentEnds \/ ProbeDue \/ CanaryStales
           \/ (\E n \in Names : FailureEnds(n))
           \/ (\E z \in Zones : WindowPasses(z) \/ HoldEnds(z))
           \/ UNCHANGED vars
    PROVE  TypeOK' /\ SlotsBalance'
<1> USE DEF worldVars, slotVars, holdVars, breakerVars, canaryVars, queryVars
<1>1. UNCHANGED <<slotVars, pc, request, verdict>>
  BY DEF Outage, Slow, World, RecentEnds, ProbeDue, CanaryStales, FailureEnds, WindowPasses, HoldEnds, vars
<1>2. hit' \in [Queries -> BOOLEAN]
  BY DEF TypeOK, ThreadTypes, Outage, Slow, World, RecentEnds, ProbeDue, CanaryStales, FailureEnds, WindowPasses, HoldEnds, vars
<1>3. SlotTypes' /\ ThreadTypes' BY <1>1, <1>2 DEF TypeOK, SlotTypes, ThreadTypes
<1>4. OtherTypes'
  <2> USE DEF TypeOK, OtherTypes
  <2>1. CASE Outage \/ (\E z \in Flaky : Slow(z))
    BY <2>1, ResolverAssumption DEF Outage, Slow, World
  <2>2. CASE RecentEnds \/ ProbeDue \/ CanaryStales \/ UNCHANGED vars
    BY <2>2 DEF RecentEnds, ProbeDue, CanaryStales, vars
  <2>3. CASE \E n \in Names : FailureEnds(n)
    BY <2>3 DEF FailureEnds
  <2>4. CASE \E z \in Zones : WindowPasses(z) \/ HoldEnds(z)
    BY <2>4 DEF WindowPasses, HoldEnds
  <2> QED BY <2>1, <2>2, <2>3, <2>4
<1>5. Holders' = Holders /\ \A q \in Holders : request'[q] = request[q] BY <1>1 DEF Holders
<1> QED BY <1>1, <1>3, <1>4, <1>5, SlotsKept DEF TypeOK

-----------------------------------------------------------------------------
\* _UpstreamGuard, whatever its caps and however many threads use it: the counters are
\* the threads that hold a slot, and the types hold.
THEOREM Inductive == Spec => [](TypeOK /\ SlotsBalance)
<1>1. Init => TypeOK /\ SlotsBalance
  <2> SUFFICES ASSUME Init PROVE TypeOK /\ SlotsBalance OBVIOUS
  <2>1. TypeOK
    BY DEF Init, TypeOK, SlotTypes, ThreadTypes, OtherTypes, Pcs
  <2>2. Holders = {} BY DEF Init, Holders
  <2>3. /\ {q \in Holders : ~Tcp(q)} = {}
        /\ \A l \in Lanes : {q \in Holders : Lane(q) = l} = {}
        /\ \A z \in Zones : {q \in Holders : Zone(q) = z} = {}
    BY <2>2
  <2>4. SlotsBalance BY <2>3, FS_EmptySet, Numbers DEF Init, SlotsBalance
  <2> QED BY <2>1, <2>4
<1>2. TypeOK /\ SlotsBalance /\ [Next]_vars => (TypeOK /\ SlotsBalance)'
  <2> SUFFICES ASSUME TypeOK, SlotsBalance, [Next]_vars PROVE TypeOK' /\ SlotsBalance' OBVIOUS
  <2>1. CASE \E q \in Queries : Step(q) BY <2>1, StepTypes, StepSlots
  <2>2. CASE \E q \in Queries : \E r \in Requests : Begin(q, r) BY <2>2, BeginKeeps
  <2> QED BY <2>1, <2>2, WorldKeeps DEF Next
<1> QED BY <1>1, <1>2, PTL DEF Spec

\* "An _UpstreamWork holding a guard slot": no slot leaks and no cap is exceeded.
THEOREM SlotsBalanceAlways == Spec => []SlotsBalance
BY Inductive, PTL

\* Type correctness.
THEOREM TypeCorrect == Spec => []TypeOK
BY Inductive, PTL

-----------------------------------------------------------------------------
(* While the upstreams answer, only what a flaky zone does can go wrong.   *)

\* A lookup fails only if its zone may, and every canary is answered.
Calm(q) ==
    /\ pc[q] \in {"failed", "note", "try", "canary", "judge", "charge"} => Zone(q) \in Flaky
    /\ pc[q] = "wait" /\ hit[q] => Zone(q) \in Flaky
    /\ pc[q] = "canary" => ~hit[q]
    /\ pc[q] = "judge" => verdict[q]

\* What the guard and the breaker conclude from that.
Kind == /\ ok /\ canary /\ bad \subseteq Flaky /\ held \subseteq Flaky
        /\ \A n \in failed : ZoneOf[n] \in Flaky

Local == Kind /\ \A q \in Queries : Calm(q)

\* A step of one thread is none of the others'.
LEMMA Apart ==
    ASSUME TypeOK, NEW q \in Queries, Step(q) \/ \E r \in Requests : Begin(q, r)
    PROVE  \A p \in Queries \ {q} : /\ pc'[p] = pc[p] /\ request'[p] = request[p]
                                    /\ hit'[p] = hit[p] /\ verdict'[p] = verdict[p]
<1>1. /\ pc' = [pc EXCEPT ![q] = pc'[q]] /\ request' = [request EXCEPT ![q] = request'[q]]
      /\ hit' = [hit EXCEPT ![q] = hit'[q]] /\ verdict' = [verdict EXCEPT ![q] = verdict'[q]]
    <2> USE DEF TypeOK, ThreadTypes
    <2>1. CASE (\E label \in Pcs : Goto(q, label)) \/ Reply(q)
        BY <2>1 DEF Goto, Reply
    <2>2. CASE \E label \in Pcs, out \in BOOLEAN : Wait(q, label, out)
        BY <2>2 DEF Wait
    <2>3. CASE Note(q) \/ (\E answered \in BOOLEAN : Canary(q, answered)) \/ \E r \in Requests : Begin(q, r)
        BY <2>3 DEF Note, Canary, Begin, Goto
    <2>4. CASE Acquire(q) \/ Submit(q) \/ Abandon(q) \/ Release(q) \/ Judge(q) \/ Charge(q) \/ CanaryRaises(q)
        BY <2>1, <2>4 DEF Acquire, Submit, Abandon, Release, Judge, Charge, CanaryRaises, Pcs
    <2>5. CASE Ask(q) \/ Answer(q) \/ Fail(q) \/ Raise(q) \/ TryCanary(q)
        <3>1. (~up \/ Zone(q) \in bad) \in BOOLEAN /\ (~up) \in BOOLEAN /\ FALSE \in BOOLEAN
            OBVIOUS
        <3> QED BY <2>1, <2>2, <2>5, <3>1 DEF Ask, Answer, Fail, Raise, TryCanary, Pcs
    <2> QED BY <2>3, <2>4, <2>5 DEF Step
<1> QED BY <1>1 DEF TypeOK, ThreadTypes

\* A thread whose name is that of a flaky zone, or that is not looking one up, is calm.
LEMMA StepIsLocal ==
    ASSUME TypeOK, Local, up, up', NEW q \in Queries, Step(q)
    PROVE  Local'
<1> USE DEF Local, Calm, Kind
<1>1. \A p \in Queries \ {q} : Calm(p)'
    BY Apart DEF Zone, Name
<1>2. pc \in [Queries -> Pcs] /\ hit \in [Queries -> BOOLEAN] /\ verdict \in [Queries -> BOOLEAN]
      /\ request \in [Queries -> Requests \cup {None}]
    BY DEF TypeOK, ThreadTypes
<1>3. ASSUME request'[q] = request[q] PROVE Zone(q)' = Zone(q)
    BY <1>3 DEF Zone, Name
<1>4. ASSUME UNCHANGED <<worldVars, holdVars, breakerVars, canaryVars>>, Calm(q)' PROVE Local'
    BY <1>1, <1>4 DEF worldVars, holdVars, breakerVars, canaryVars
<1>5. ASSUME Reply(q) PROVE Calm(q)'
    BY <1>2, <1>5 DEF Reply
<1>6. ASSUME NEW label, Goto(q, label) PROVE pc'[q] = label /\ hit'[q] = hit[q] /\ verdict'[q] = verdict[q]
                                             /\ Zone(q)' = Zone(q)
    BY <1>2, <1>3, <1>6 DEF Goto
<1>7. CASE Acquire(q)
    <2>1. Calm(q)'
        BY <1>5, <1>6, <1>7 DEF Acquire
    <2> QED BY <1>4, <1>7, <2>1 DEF Acquire
<1>8. CASE Submit(q)
    <2>1. Calm(q)'
        BY <1>6, <1>8 DEF Submit
    <2> QED BY <1>4, <1>8, <2>1 DEF Submit
<1>9. CASE Abandon(q)
    BY <1>4, <1>5, <1>9 DEF Abandon
<1>10. CASE Ask(q)
    <2>1. Wait(q, "wait", Zone(q) \in bad)
        BY <1>10 DEF Ask
    <2>2. pc'[q] = "wait" /\ Zone(q)' = Zone(q)
        BY <1>2, <1>3, <2>1 DEF Wait
    <2>3. hit'[q] => Zone(q) \in bad
        BY <1>2, <2>1 DEF Wait
    <2>4. Calm(q)'
        BY <2>2, <2>3
    <2> QED BY <1>1, <1>10, <2>4 DEF Ask, worldVars, holdVars, canaryVars
<1>11. CASE Answer(q)
    <2>1. pc'[q] = "release"
        BY <1>2, <1>11 DEF Answer, Wait
    <2>2. Calm(q)'
        BY <2>1
    <2> QED BY <1>1, <1>11, <2>2 DEF Answer, worldVars, holdVars, canaryVars
<1>12. CASE Fail(q)
    <2>1. pc'[q] = "failed" /\ Zone(q)' = Zone(q)
        BY <1>2, <1>3, <1>12 DEF Fail, Wait
    <2>2. Calm(q)'
        BY <1>12, <2>1 DEF Fail
    <2> QED BY <1>4, <1>12, <2>2 DEF Fail
<1>13. CASE Raise(q)
    <2>1. pc'[q] = "release"
        BY <1>2, <1>13 DEF Raise, Wait
    <2>2. Calm(q)'
        BY <2>1
    <2> QED BY <1>4, <1>13, <2>2 DEF Raise
<1>14. CASE Release(q)
    <2>1. Calm(q)'
        BY <1>5, <1>6, <1>14 DEF Release
    <2> QED BY <1>4, <1>14, <2>1 DEF Release
\* The canary's last verdict was good.
<1>15. CASE Note(q)
    <2>1. CASE Goto(q, "charge") \/ Goto(q, "try")
        <3>1. Calm(q)'
            BY <1>6, <1>15, <2>1 DEF Note
        <3> QED BY <1>4, <1>15, <3>1 DEF Note
    <2>2. CASE ~(Goto(q, "charge") \/ Goto(q, "try"))
        <3>1. pc'[q] = "judge" /\ verdict'[q] = canary /\ Zone(q)' = Zone(q)
            BY <1>2, <1>3, <1>15, <2>2 DEF Note
        <3>2. Calm(q)'
            BY <1>15, <3>1 DEF Note
        <3> QED BY <1>4, <1>15, <3>2 DEF Note
    <2> QED BY <2>1, <2>2
<1>16. CASE TryCanary(q)
    <2>1. pc[q] = "try" /\ Zone(q) \in Flaky
        BY <1>16 DEF TryCanary
    <2>2. ASSUME Wait(q, "canary", ~up) PROVE Calm(q)'
        <3>1. pc'[q] = "canary" /\ Zone(q)' = Zone(q)
            BY <1>2, <1>3, <2>2 DEF Wait
        <3>2. ~hit'[q]
            BY <1>2, <2>2 DEF Wait
        <3> QED BY <2>1, <3>1, <3>2
    <2>3. ASSUME Goto(q, "charge") PROVE Calm(q)'
        <3>1. pc'[q] = "charge" /\ Zone(q)' = Zone(q)
            BY <1>6, <2>3
        <3> QED BY <2>1, <3>1
    <2>4. Calm(q)'
        BY <1>5, <1>16, <2>2, <2>3 DEF TryCanary
    <2> QED BY <1>1, <1>16, <2>4 DEF TryCanary, worldVars, holdVars, breakerVars
\* It was not out of reach while its canary was out.
<1>17. CASE \E answered \in BOOLEAN : Canary(q, answered)
    <2>1. Canary(q, TRUE)
        BY <1>17 DEF Canary
    <2>2. pc'[q] = "judge" /\ verdict'[q] = TRUE /\ Zone(q)' = Zone(q)
        BY <1>2, <1>3, <2>1 DEF Canary
    <2>3. Calm(q)'
        BY <2>1, <2>2 DEF Canary
    <2> QED BY <1>1, <2>1, <2>3 DEF Canary, worldVars, holdVars, breakerVars
<1>18. CASE CanaryRaises(q)
    <2>1. Calm(q)'
        BY <1>5, <1>18 DEF CanaryRaises
    <2> QED BY <1>1, <1>18, <2>1 DEF CanaryRaises, worldVars, holdVars, breakerVars
<1>19. CASE Judge(q)
    <2>1. verdict[q] /\ Goto(q, "charge")
        BY <1>19 DEF Judge
    <2>2. pc'[q] = "charge" /\ Zone(q)' = Zone(q)
        BY <1>6, <2>1
    <2>3. Calm(q)'
        BY <1>19, <2>2 DEF Judge
    <2> QED BY <1>1, <1>19, <2>1, <2>3 DEF Judge, worldVars, holdVars, canaryVars
\* Only names of flaky zones are charged.
<1>20. CASE Charge(q)
    <2>1. Zone(q) \in Flaky /\ ZoneOf[Name(q)] = Zone(q) /\ Reply(q)
        BY <1>20 DEF Charge, Zone
    <2>2. failed' = failed \cup {Name(q)} /\ held' \subseteq held \cup {Zone(q)}
        BY <1>20 DEF Charge
    <2>3. Calm(q)'
        BY <1>5, <2>1
    <2> QED BY <1>1, <1>20, <2>1, <2>2, <2>3 DEF Charge, worldVars, breakerVars, canaryVars
<1> QED BY <1>7, <1>8, <1>9, <1>10, <1>11, <1>12, <1>13, <1>14, <1>15, <1>16, <1>17, <1>18, <1>19, <1>20 DEF Step

\* Nor does anything around the threads make trouble for the other zones.
LEMMA WorldIsLocal ==
    ASSUME TypeOK, Local, up, up',
           \/ Outage \/ (\E z \in Flaky : Slow(z)) \/ RecentEnds \/ ProbeDue \/ CanaryStales
           \/ (\E n \in Names : FailureEnds(n))
           \/ (\E z \in Zones : WindowPasses(z) \/ HoldEnds(z))
           \/ UNCHANGED vars
    PROVE  Local'
<1> USE DEF Local, Calm, Kind, worldVars, slotVars, holdVars, breakerVars, canaryVars, queryVars
<1>1. CASE Outage
    BY <1>1 DEF Outage, World
<1>2. ASSUME NEW z \in Flaky, Slow(z) PROVE Local'
    <2>1. /\ bad' \subseteq Flaky /\ bad' = IF z \in bad THEN bad \ {z} ELSE bad \cup {z}
          /\ UNCHANGED <<holdVars, breakerVars, canaryVars, pc, request, verdict>>
        BY <1>2 DEF Slow, World
    <2>2. hit' = [q \in Queries |-> \/ hit[q]
                                    \/ pc[q] = "wait" /\ (~up' \/ Zone(q) \in bad')
                                    \/ pc[q] = "canary" /\ ~up']
        BY <1>2 DEF Slow, World
    <2>3. ASSUME NEW q \in Queries PROVE Calm(q)'
        <3>1. Zone(q)' = Zone(q) /\ pc'[q] = pc[q] /\ verdict'[q] = verdict[q]
            BY <2>1 DEF Zone, Name
        <3>2. hit'[q] => hit[q] \/ (pc[q] = "wait" /\ Zone(q) \in bad')
            BY <2>2
        <3> QED BY <2>1, <3>1, <3>2
    <2> QED BY <2>1, <2>3
<1>3. CASE UNCHANGED <<pc, request, hit, verdict>> /\ UNCHANGED <<ok, canary, bad>>
            /\ held' \subseteq held /\ failed' \subseteq failed
    BY <1>3 DEF Zone, Name
<1>4. CASE RecentEnds \/ ProbeDue \/ CanaryStales \/ UNCHANGED vars
    BY <1>3, <1>4 DEF RecentEnds, ProbeDue, CanaryStales, vars
<1>5. CASE (\E n \in Names : FailureEnds(n)) \/ (\E z \in Zones : WindowPasses(z) \/ HoldEnds(z))
    BY <1>3, <1>5 DEF FailureEnds, WindowPasses, HoldEnds
<1> QED BY <1>1, <1>2, <1>4, <1>5

\* "One name's or one zone's trouble stays with that name or zone": as long as the
\* upstreams answer, whatever the flaky zones do, and for any number of threads, names
\* and clients, the breaker stays closed and no name of another zone is charged.
THEOREM TroubleStaysLocalAlways == Spec => TroubleStaysLocal
<1>1. Init => Local
    BY DEF Init, Local, Calm, Kind
<1>2. TypeOK /\ Local /\ up /\ up' /\ [Next]_vars => Local'
    <2> SUFFICES ASSUME TypeOK, Local, up, up', [Next]_vars PROVE Local'
        OBVIOUS
    <2>1. CASE \E q \in Queries : Step(q)
        BY <2>1, StepIsLocal
    <2>2. ASSUME NEW q \in Queries, NEW r \in Requests, Begin(q, r) PROVE Local'
        <3>1. pc'[q] = "acquire" /\ UNCHANGED <<worldVars, holdVars, breakerVars, canaryVars>>
            BY <2>2 DEF Begin, TypeOK, ThreadTypes
        <3>2. \A p \in Queries \ {q} : Calm(p)'
            BY <2>2, Apart DEF Local, Calm, Zone, Name
        <3> QED BY <3>1, <3>2 DEF Local, Calm, Kind, worldVars, holdVars, breakerVars, canaryVars
    <2> QED BY <2>1, <2>2, WorldIsLocal DEF Next
<1>3. Local => ok /\ held \subseteq Flaky /\ \A n \in failed : ZoneOf[n] \in Flaky
    BY DEF Local, Kind
<1> QED BY <1>1, <1>2, <1>3, TypeCorrect, PTL DEF Spec, TroubleStaysLocal
===============================================================================
