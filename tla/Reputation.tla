------------------------------ MODULE Reputation ------------------------------
(***************************************************************************)
(* Looking up names that devices ask for (homesoc/dnsfilter/reputation.py):*)
(* the two lanes of the queue and the worker.                              *)
(*                                                                         *)
(* Threads that have answered a query offer its name (enqueue); each step  *)
(* between two locks is an action.  One worker takes names from the lanes, *)
(* inventory devices first; whether VirusTotal is asked at all is Budget's *)
(* to say.  Time passes as windows that end; the process may restart at    *)
(* any step.                                                               *)
(*                                                                         *)
(* What the verdict is does not matter here, only whether a source has     *)
(* answered ("judged") or none has ("unknown"); what follows a malicious   *)
(* one is in DnsPolicy (StoreVerdict to MarkWrite).  A name the policy     *)
(* blocks is not offered, which the model leaves open.                     *)
(***************************************************************************)
EXTENDS Naturals, FiniteSets, SequencesExt

CONSTANTS
    Names,         \* registrable domains that are not skipped
    Clients,
    Inventories,   \* sets of clients that the inventory may hold
    Threads,       \* threads that answer queries
    KnownMax,      \* KNOWN_LANE_PER_CLIENT
    ClientMax,     \* QUEUE_PER_CLIENT_MAX
    QueueMax,      \* QUEUE_MAX
    None

ASSUME ReputationAssumption ==
    /\ IsFiniteSet(Threads)
    /\ Inventories \subseteq SUBSET Clients
    /\ None \notin Names \cup Clients
    /\ {KnownMax, ClientMax, QueueMax} \subseteq Nat \ {0}

VARIABLES
    inventory,  \* KnownClients: the inventory devices
    seen,       \* _seen: "no", "day" (24 h), or "hour" (NO_VERDICT_RETRY_HOURS left)
    lanes,      \* _known and _shared: sequences of names and clients
    slots,      \* _pending_known and _pending_by_client
    offer,      \* per thread: how far it is in enqueue
    work,       \* the worker
    \* history
    judged      \* names with a mark of a day that got a verdict since

queueVars == <<seen, lanes, slots, offer>>
vars == <<inventory, queueVars, work, judged>>

Lanes    == {"known", "shared"}
NoOffer  == [pc |-> "idle", name |-> None, client |-> None, lane |-> "shared"]
NoWork   == [pc |-> "idle", name |-> None, client |-> None, lane |-> "shared",
             verdict |-> "unknown"]
NonePending  == [c \in Clients |-> 0]
NoSlots  == [l \in Lanes |-> NonePending]

Init ==
    /\ inventory \in Inventories
    /\ seen = [n \in Names |-> "no"]
    /\ lanes = [l \in Lanes |-> <<>>] /\ slots = NoSlots
    /\ offer = [t \in Threads |-> NoOffer] /\ work = NoWork
    /\ judged = {}

-----------------------------------------------------------------------------
(* A thread that has answered a query.                                     *)

\* _forget.
Drop(n) == seen' = [seen EXCEPT ![n] = "no"] /\ judged' = judged \ {n}

\* _release_slot.
Free(lane, c) == slots' = [slots EXCEPT ![lane][c] = IF @ > 0 THEN @ - 1 ELSE 0]

\* should_lookup: new in its window, and marked.
Mark(t, n, c) ==
    /\ offer[t].pc = "idle" /\ seen[n] = "no"
    /\ seen' = [seen EXCEPT ![n] = "day"]
    /\ offer' = [offer EXCEPT ![t] = [pc |-> "marked", name |-> n, client |-> c, lane |-> "shared"]]
    /\ UNCHANGED <<inventory, lanes, slots, work, judged>>

\* The lane in which client c may still hold one more.
LaneFor(c) ==
    IF c \in inventory /\ slots.known[c] < KnownMax THEN "known"
    ELSE IF slots.shared[c] < ClientMax THEN "shared" ELSE None

TakeSlot(t) ==
    /\ offer[t].pc = "marked"
    /\ LET c == offer[t].client IN
       IF LaneFor(c) = None
       THEN /\ Drop(offer[t].name)
            /\ offer' = [offer EXCEPT ![t] = NoOffer]
            /\ UNCHANGED slots
       ELSE /\ slots' = [slots EXCEPT ![LaneFor(c)][c] = @ + 1]
            /\ offer' = [offer EXCEPT ![t].pc = "slot", ![t].lane = LaneFor(c)]
            /\ UNCHANGED <<seen, judged>>
    /\ UNCHANGED <<inventory, lanes, work>>

Put(t) ==
    /\ offer[t].pc = "slot"
    /\ LET o == offer[t] IN
       /\ o.lane = "known" \/ Len(lanes.shared) < QueueMax
       /\ lanes' = [lanes EXCEPT ![o.lane] = Append(@, [name |-> o.name, client |-> o.client])]
    /\ offer' = [offer EXCEPT ![t] = NoOffer]
    /\ UNCHANGED <<inventory, seen, slots, work, judged>>

\* Mutant: the mark of a name that found no room stays.
PutFullKeepsMark(t) ==
    /\ offer[t].pc = "slot" /\ offer[t].lane = "shared" /\ Len(lanes.shared) >= QueueMax
    /\ Free("shared", offer[t].client)
    /\ offer' = [offer EXCEPT ![t] = NoOffer]
    /\ UNCHANGED <<inventory, seen, lanes, work, judged>>

\* queue.Full: the name is forgotten and the slot given back.
PutFull(t) ==
    /\ offer[t].pc = "slot" /\ offer[t].lane = "shared" /\ Len(lanes.shared) >= QueueMax
    /\ Drop(offer[t].name)
    /\ Free("shared", offer[t].client)
    /\ offer' = [offer EXCEPT ![t] = NoOffer]
    /\ UNCHANGED <<inventory, lanes, work>>

-----------------------------------------------------------------------------
(* The worker: _run and process.                                           *)

At(label) == work.pc = label
Goto(label) == work' = [work EXCEPT !.pc = label]

\* Mutant: the shared lane first.
FirstLaneShared == IF lanes.shared # <<>> THEN "shared" ELSE "known"

FirstLane == IF lanes.known # <<>> THEN "known" ELSE "shared"

\* _Lanes.get.
Take ==
    /\ At("idle") /\ lanes[FirstLane] # <<>>
    /\ LET item == Head(lanes[FirstLane]) IN
       work' = [NoWork EXCEPT !.pc = "taken", !.name = item.name, !.client = item.client,
                              !.lane = FirstLane]
    /\ lanes' = [lanes EXCEPT ![FirstLane] = Tail(@)]
    /\ UNCHANGED <<inventory, seen, slots, offer, judged>>

\* Mutant: the lane is judged by the inventory of now.
DequeuedByInventory ==
    /\ At("taken")
    /\ Free(IF work.client \in inventory THEN "known" ELSE "shared", work.client)
    /\ Goto("lookup")
    /\ UNCHANGED <<inventory, seen, lanes, offer, judged>>

\* The slot is given back in the lane the item was put in.
Dequeued ==
    /\ At("taken")
    /\ Free(work.lane, work.client)
    /\ Goto("lookup")
    /\ UNCHANGED <<inventory, seen, lanes, offer, judged>>

\* lookup_domain_detail: a fresh row, or VirusTotal, if the quota allows it, and
\* URLhaus.  Each may fail to answer.
Lookup ==
    /\ At("lookup")
    /\ \E v \in {"judged", "unknown"} : work' = [work EXCEPT !.pc = "judge", !.verdict = v]
    /\ UNCHANGED <<inventory, queueVars, judged>>

\* process: a name nobody could judge may come again in an hour.
Judge ==
    /\ At("judge")
    /\ IF work.verdict = "unknown"
       THEN /\ seen' = [seen EXCEPT ![work.name] = "hour"]
            /\ judged' = judged \ {work.name}
       ELSE /\ judged' = IF seen[work.name] = "day" THEN judged \cup {work.name} ELSE judged
            /\ UNCHANGED seen
    /\ work' = NoWork
    /\ UNCHANGED <<inventory, lanes, slots, offer>>

-----------------------------------------------------------------------------
(* The rest of the program, and time.                                      *)

\* KnownClients.refresh.
RefreshInventory(S) ==
    /\ S # inventory
    /\ inventory' = S
    /\ UNCHANGED <<queueVars, work, judged>>

\* SEEN_WINDOW_HOURS have passed since the mark.
SeenEnds(n) ==
    /\ seen[n] # "no"
    /\ Drop(n)
    /\ UNCHANGED <<inventory, lanes, slots, offer, work>>

\* A crash or an update: all of it was memory.
Restart ==
    /\ seen' = [n \in Names |-> "no"]
    /\ lanes' = [l \in Lanes |-> <<>>] /\ slots' = NoSlots
    /\ offer' = [t \in Threads |-> NoOffer] /\ work' = NoWork
    /\ UNCHANGED <<inventory, judged>>

-----------------------------------------------------------------------------
Offer(t) == (\E n \in Names, c \in Clients : Mark(t, n, c)) \/ TakeSlot(t) \/ Put(t) \/ PutFull(t)

Worker == Take \/ Dequeued \/ Lookup \/ Judge

Rest == \/ Restart
        \/ \E S \in Inventories : RefreshInventory(S)
        \/ \E n \in Names : SeenEnds(n)

Next == (\E t \in Threads : Offer(t)) \/ Worker \/ Rest

\* The worker's thread keeps running: every call it makes has a timeout.
Spec == Init /\ [][Next]_vars /\ WF_vars(Worker)
=============================================================================
