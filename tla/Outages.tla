-------------------------------- MODULE Outages --------------------------------
(***************************************************************************)
(* Learning outages from the sightings of discovery                        *)
(* (homesoc/topology/outages.py).                                          *)
(*                                                                         *)
(* Discovery is due every hour of the model and writes one sighting for    *)
(* each device it sees; it does not always run, so sweeps are not evenly   *)
(* spaced.  The topology job, and `homesoc scan` in another process, look  *)
(* for devices that went missing together and keep what they find.  A      *)
(* record is identified by the sweep it started in.                        *)
(***************************************************************************)
EXTENDS Naturals, Sequences, FiniteSets, FiniteSetsExt, TLC

CONSTANTS
    Devices,
    Self,            \* the machine it runs on, which every sweep that runs sees
    Recorders,       \* the topology job, and other processes that scan
    Grace,           \* 2 x the discovery interval, in hours
    MinHistory,      \* MIN_HISTORY_CYCLES
    MinMembers,      \* topology.min_outage_members
    MinRate,         \* ROUTINE_MIN_RATE, in percent
    HourRate,        \* ROUTINE_HOUR_RATE, in percent
    MinHourSamples,  \* ROUTINE_MIN_HOUR_SAMPLES
    MinDays,         \* ROUTINE_MIN_DAYS
    DayLength,       \* hours of a day
    HistoryLength,   \* HISTORY_DAYS, in hours
    LastHour         \* bound: the last hour

ASSUME OutagesAssumption ==
    /\ IsFiniteSet(Devices) /\ Self \in Devices
    /\ {Grace, MinHistory, MinHourSamples, MinDays, DayLength, HistoryLength} \subseteq Nat \ {0}
    /\ {MinRate, HourRate} \subseteq 0..100
    /\ MinMembers \in Nat \ {0, 1} /\ LastHour \in Nat

VARIABLES
    now,
    sweeps,    \* device_sightings: [at, seen] per sweep
    outages,   \* outages and their members: [start, members, ended], ended 0 while it goes on
    recording  \* per recorder: what it has detected, and the records it knew of

outageVars == <<now, sweeps, outages, recording>>

NoJob == [pc |-> "idle", found |-> {}, known |-> {}]

OutagesInit == /\ now = 0 /\ sweeps = <<>> /\ outages = {}
               /\ recording = [r \in Recorders |-> NoJob]

-----------------------------------------------------------------------------
(* Cycles and tolerances.                                                  *)

\* discovery_cycles: the sweeps the history still reaches, which come last.
Cycles == LET reached == {i \in DOMAIN sweeps : sweeps[i].at + HistoryLength >= now}
          IN  SubSeq(sweeps, Min(reached \cup {Len(sweeps) + 1}), Len(sweeps))

SeenIn(cs, d)  == {i \in DOMAIN cs : d \in cs[i].seen}
Known(cs)      == UNION {cs[i].seen : i \in DOMAIN cs}
First(cs, d)   == Min(SeenIn(cs, d))
HourOf(c)      == c.at % DayLength
DayOf(c)       == c.at \div DayLength

\* The cycle in which a device that is seen in cycle i is seen next, or the end.
NextSeen(cs, d, i) == Min({j \in SeenIn(cs, d) : j > i} \cup {Len(cs) + 1})

\* The hours between a device's sightings, by the cycle in which each gap begins.
Gaps(cs, d) == [i \in {j \in SeenIn(cs, d) : NextSeen(cs, d, j) <= Len(cs)} |->
                   cs[NextSeen(cs, d, i)].at - cs[i].at]

\* The k-th of the values of f, in order.
Ranked(f, k) == Min({f[i] : i \in {j \in DOMAIN f :
                    Cardinality({h \in DOMAIN f : f[h] <= f[j]}) >= k}})

\* 2.0 * statistics.median: the mean of the two in the middle if there are two.
TwiceMedian(gaps) == LET n == Cardinality(DOMAIN gaps)
                     IN  Ranked(gaps, (n + 1) \div 2) + Ranked(gaps, n \div 2 + 1)

\* Mutant: a device with a rhythm of its own has no grace besides.
ToleranceOfRhythm(cs, d) ==
    IF DOMAIN Gaps(cs, d) # {} THEN TwiceMedian(Gaps(cs, d)) \div 2 ELSE 0

\* device_tolerances: how long a device may go unseen.
Tolerance(cs, d) ==
    IF Cardinality(DOMAIN Gaps(cs, d)) >= 3 THEN Max({Grace, TwiceMedian(Gaps(cs, d))}) ELSE Grace

\* The binary search of absence_tracks: the first cycle of low..high - 1 that is
\* further from the sighting than the tolerance, or high.
FirstBeyond(cs, anchor, tolerance, from, to) ==
    LET search[r \in [low : from..to, high : from..to]] ==
            LET mid == (r.low + r.high) \div 2
            IN  IF r.low >= r.high THEN r.low
                ELSE IF cs[mid].at - anchor <= tolerance THEN search[[r EXCEPT !.low = mid + 1]]
                ELSE search[[r EXCEPT !.high = mid]]
    IN  search[[low |-> from, high |-> to]]

\* Mutant: a device is absent as soon as its tolerance is used up.
AbsencesTooSoon(cs, d) ==
    LET range(i) == [start |-> FirstBeyond(cs, cs[i].at, Tolerance(cs, d) - 1, i, NextSeen(cs, d, i)),
                     stop  |-> NextSeen(cs, d, i)]
    IN  {r \in {range(i) : i \in SeenIn(cs, d)} : r.start < r.stop}

\* absence_tracks: the ranges of cycles in which a device counts as absent.
Absences(cs, d) ==
    LET tolerance == Tolerance(cs, d)
        range(i)  == [start |-> FirstBeyond(cs, cs[i].at, tolerance, i + 1, NextSeen(cs, d, i)),
                      stop  |-> NextSeen(cs, d, i)]
    IN  {r \in {range(i) : i \in SeenIn(cs, d)} : r.start < r.stop}

-----------------------------------------------------------------------------
(* Routine absences: the phone that goes to work.                          *)

\* Baseline.is_routine, of the numbers _BaselineIndex counts.
Routine(cs, d, ranges, hour) ==
    LET life    == First(cs, d)..Len(cs)
        absent  == UNION {r.start..(r.stop - 1) : r \in ranges}
        hours   == {i \in life : HourOf(cs[i]) = hour}
        missing == absent \cap hours
    IN  /\ Cardinality(hours) >= MinHourSamples
        /\ Cardinality({DayOf(cs[i]) : i \in missing}) >= MinDays
        /\ 100 * Cardinality(absent) >= MinRate * Cardinality(life)
        /\ 100 * Cardinality(missing) >= HourRate * Cardinality(hours)

-----------------------------------------------------------------------------
(* detect_outages.                                                         *)

\* The absences that begin in cycle i, of devices old enough to have a normal and
\* not routinely missing at that hour.
Drops(cs, tracks, i) ==
    UNION {{[device |-> d, stop |-> r.stop] : r \in {x \in tracks[d] :
                /\ x.start = i /\ i - First(cs, d) >= MinHistory
                /\ ~Routine(cs, d, tracks[d], HourOf(cs[i]))}} : d \in Known(cs)}

\* Mutant: an outage ends when the first of its members is back.
OutageEndsWithFirst(cs, tracks, i) ==
    LET drops == Drops(cs, tracks, i)
        stops == {x.stop : x \in drops} \ {Len(cs) + 1}
    IN  [start   |-> cs[i].at, members |-> {x.device : x \in drops},
         ended   |-> IF stops = {} THEN 0 ELSE cs[Min(stops)].at]

\* It has ended when the last of them was seen again, if all of them were.
Outage(cs, tracks, i) ==
    LET drops == Drops(cs, tracks, i)
        stops == {x.stop : x \in drops}
    IN  [start   |-> cs[i].at, members |-> {x.device : x \in drops},
         ended   |-> IF stops = {} \/ Len(cs) + 1 \in stops THEN 0 ELSE cs[Max(stops)].at]

Detected(cs) ==
    LET tracks == [d \in Known(cs) |-> Absences(cs, d)]
    IN  IF Len(cs) < MinHistory + 1 THEN {}
        ELSE {o \in {Outage(cs, tracks, i) : i \in DOMAIN cs} : Cardinality(o.members) >= MinMembers}

-----------------------------------------------------------------------------
(* The environment, and record_outages.                                    *)

Sweep(seen) ==
    /\ now < LastHour
    /\ now' = now + 1
    /\ sweeps' = Append(sweeps, [at |-> now', seen |-> seen \cup {Self}])
    /\ UNCHANGED <<outages, recording>>

\* The machine is asleep or offline, or discovery fails.
NoSweep ==
    /\ now < LastHour
    /\ now' = now + 1
    /\ UNCHANGED <<sweeps, outages, recording>>

Detect(r) ==
    /\ recording[r].pc = "idle"
    /\ LET found == Detected(Cycles)
       IN  found # {} /\ recording' = [recording EXCEPT ![r] = [NoJob EXCEPT !.pc = "known", !.found = found]]
    /\ UNCHANGED <<now, sweeps, outages>>

ReadKnown(r) ==
    /\ recording[r].pc = "known"
    /\ recording' = [recording EXCEPT ![r].pc = "write", ![r].known = outages]
    /\ UNCHANGED <<now, sweeps, outages>>

\* One that is on record only gains an ending.
Recorded(o, known) ==
    LET existing == {k \in known : k.start = o.start}
    IN  IF existing = {} THEN outages \cup {o}
        ELSE {IF k.start = o.start /\ (\E e \in existing : e.ended = 0) /\ o.ended # 0
              THEN [k EXCEPT !.ended = o.ended] ELSE k : k \in outages}

RecordOutage(r, o) ==
    /\ recording[r].pc = "write" /\ o \in recording[r].found
    /\ \A p \in recording[r].found : o.start <= p.start
    /\ outages' = Recorded(o, recording[r].known)
    /\ recording' = [recording EXCEPT ![r].found = @ \ {o}]
    /\ UNCHANGED <<now, sweeps>>

\* All are written, or the process ends, or a statement fails.
Finish(r) ==
    /\ recording[r].pc # "idle"
    /\ recording' = [recording EXCEPT ![r] = NoJob]
    /\ UNCHANGED <<now, sweeps, outages>>

Recorder(r) == Detect(r) \/ ReadKnown(r) \/ (\E o \in recording[r].found : RecordOutage(r, o)) \/ Finish(r)

OutagesNext == \/ \E seen \in SUBSET (Devices \ {Self}) : Sweep(seen)
               \/ NoSweep
               \/ \E r \in Recorders : Recorder(r)

OutagesSpec == OutagesInit /\ [][OutagesNext]_outageVars
=============================================================================
