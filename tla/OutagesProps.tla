------------------------------ MODULE OutagesProps ------------------------------
(***************************************************************************)
(* What the record of outages promises (Outages).                          *)
(***************************************************************************)
EXTENDS Outages

(* Devices differ in their sightings only, but for this machine.           *)
Alike == Permutations(Devices \ {Self})

OutageSet == [start : Nat, members : SUBSET Devices, ended : Nat]

(* Sightings, records and jobs have their types.                           *)
OutagesTypeOK ==
    /\ now \in 0..LastHour
    /\ sweeps \in Seq([at : 1..now, seen : (SUBSET Devices) \ {{}}])
    /\ outages \subseteq OutageSet
    /\ recording \in [Recorders -> [pc : {"idle", "known", "write"}, found : SUBSET OutageSet,
                                   known : SUBSET OutageSet]]

(* The sparse computation is that of the dense matrix (presence): a device *)
(* counts as absent in exactly the cycles that are further than its        *)
(* tolerance from every earlier sighting.                                  *)
TracksAgree ==
    LET cs == Cycles IN
    \A d \in Known(cs) :
        LET tolerance  == Tolerance(cs, d)
            absences   == Absences(cs, d)
            present(i) == \E p \in SeenIn(cs, d) : p <= i /\ cs[i].at - cs[p].at <= tolerance
        IN  /\ \A i \in First(cs, d)..Len(cs) :
                  ~present(i) <=> \E r \in absences : i \in r.start..(r.stop - 1)
            /\ \A r \in absences : present(r.start - 1)

(* At this hour a device has gone missing: it had been seen before, but not *)
(* in the hours up to it that the grace covers.                            *)
Dropped(d, at) ==
    /\ \E i \in SeenIn(sweeps, d) : sweeps[i].at < at
    /\ \A i \in SeenIn(sweeps, d) : sweeps[i].at \notin (at - Grace)..at

SeenWithin(d, from, to) == \E i \in SeenIn(sweeps, d) : sweeps[i].at \in from..to

(* Whoever is recorded as a member had been seen before, and was missing   *)
(* from the outage's sweep and from every one of the hours before it that  *)
(* the grace covers.                                                       *)
MembersWereMissing == \A o \in outages : \A d \in o.members : Dropped(d, o.start)

(* The end of an outage is the return of devices that went missing when it *)
(* began: of as many as make an outage, though the record may have more.   *)
Returned(o) == {d \in Devices : Dropped(d, o.start) /\ SeenWithin(d, o.start, o.ended)}
EndsAreReturns == \A o \in outages : o.ended # 0 => Cardinality(Returned(o)) >= MinMembers

(* An outage that has ended is over: each of its members has been seen     *)
(* again (detect_outages: "When the last member came back, or None while   *)
(* any of them is still missing").  A member that has become routine, or   *)
(* whose sightings the history no longer reaches, is not among those of a  *)
(* later detection, whose end is written for all.                          *)
EndedAreBack ==
    \A o \in outages : o.ended # 0 => \A d \in o.members : SeenWithin(d, o.start, o.ended)

(* One absence is recorded once: a device that is a member of two outages  *)
(* has been seen between them (record_outages: "Keyed on started_at, which *)
(* is the start of a specific discovery cycle and therefore stable across  *)
(* runs").                                                                 *)
OneOutageIsNotTwo ==
    \A o, p \in outages : \A d \in o.members \cap p.members :
        o.start < p.start => SeenWithin(d, o.start, p.start - 1)
=============================================================================
