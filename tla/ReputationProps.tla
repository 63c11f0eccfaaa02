---------------------------- MODULE ReputationProps ----------------------------
(***************************************************************************)
(* What looking up names promises (Reputation).                            *)
(***************************************************************************)
EXTENDS Reputation

Verdicts == {"unknown", "judged"}
Items    == [name : Names, client : Clients]

(* The state of the queue, of the worker and of the counters has its type. *)
TypeOK ==
    /\ inventory \subseteq Clients
    /\ seen \in [Names -> {"no", "day", "hour"}]
    /\ lanes \in [Lanes -> Seq(Items)]
    /\ slots \in [Lanes -> [Clients -> Nat]]
    /\ offer \in [Threads -> {NoOffer} \cup
                   [pc : {"marked", "slot"}, name : Names, client : Clients, lane : Lanes]]
    /\ work \in {NoWork} \cup [pc : {"taken", "lookup", "judge"}, name : Names, client : Clients,
                               lane : Lanes, verdict : Verdicts]
    /\ judged \subseteq Names

(* Every slot a client holds is that of one of its names: one in the lane, *)
(* one a thread is about to put there, or the one the worker has just      *)
(* taken.  No slot leaks, whatever the inventory does meanwhile, and no    *)
(* client holds more than its part of either lane (_pending_known,         *)
(* _pending_by_client).                                                    *)
Held(l, c) == Cardinality({i \in DOMAIN lanes[l] : lanes[l][i].client = c})
              + Cardinality({t \in Threads : /\ offer[t].pc = "slot" /\ offer[t].lane = l
                                             /\ offer[t].client = c})
              + (IF work.pc = "taken" /\ work.lane = l /\ work.client = c THEN 1 ELSE 0)

LanesBalance ==
    /\ \A l \in Lanes, c \in Clients : slots[l][c] = Held(l, c)
    /\ \A c \in Clients : slots.known[c] <= KnownMax /\ slots.shared[c] <= ClientMax
    /\ Len(lanes.shared) <= QueueMax

(* A name that is marked as looked up for a day is one: it waits in a lane,*)
(* is in the hands of a thread or of the worker, or has got a verdict since*)
(* it was marked.  A name that was dropped is never skipped.               *)
Carried(n) == \/ \E l \in Lanes : \E i \in DOMAIN lanes[l] : lanes[l][i].name = n
              \/ \E t \in Threads : offer[t].pc # "idle" /\ offer[t].name = n
              \/ work.pc # "idle" /\ work.name = n

SeenIsCarried == \A n \in Names : seen[n] = "day" => Carried(n) \/ n \in judged

(* Names that inventory devices ask for do not wait for ever behind those  *)
(* of strangers: the worker comes to their lane.                           *)
KnownServed == lanes.known # <<>> ~> \/ lanes.known = <<>>
                                     \/ work.pc = "taken" /\ work.lane = "known"
=============================================================================
