------------------------------ MODULE NewDevices ------------------------------
(***************************************************************************)
(* How a device that joins the network is noticed, reported and accepted   *)
(* (run in homesoc/scanners/discovery.py, apply_findings in homesoc/cli.py,*)
(* notify_new_findings in homesoc/notify/channels.py, trust_device and     *)
(* baseline_devices in homesoc/findings/engine.py).                        *)
(*                                                                         *)
(* Discovery is run by the scheduler's job and by `homesoc scan` in a      *)
(* terminal.  It asks about a device it adds, once (NET-DEV-001): the      *)
(* question goes through the findings engine, whose own steps are in       *)
(* Findings, to the notification channels.  The owner answers by trusting  *)
(* the device.  Each statement, and each message, is an action.            *)
(***************************************************************************)
EXTENDS Naturals, Sequences, FiniteSets, FiniteSetsExt

CONSTANTS
    Hosts,      \* what answers on the network, numbered in the order of IP addresses
    Self,       \* the machine it runs on
    Scanners,   \* the scheduler's job, and terminals
    Owners,     \* request threads, and `homesoc baseline`
    Channels,   \* the configured channels, in their order
    Loud,       \* severities that notify.min_severity lets through
    None

ASSUME NewDevicesAssumption ==
    /\ Hosts \subseteq Nat /\ IsFiniteSet(Hosts) /\ Self \in Hosts /\ None \notin Hosts
    /\ Loud \subseteq {"info", "medium"} /\ Channels \in Seq({Channels[i] : i \in DOMAIN Channels})

VARIABLES
    devices,   \* per host: in the inventory or not, trusted or not
    question,  \* per host: status and severity of its NET-DEV-001 row
    scan,      \* per scanner: its run of discovery
    owner,     \* per owner: what it is answering
    tried,     \* notifications: hosts and the channels their alert was tried on
    \* history
    lost,      \* added, and the question died with the run that had it
    muted,     \* asked, and the alert died
    late       \* accepted while the question was still on its way, or not to the end

deviceVars == <<devices, question, scan, owner, tried, lost, muted, late>>

NoDevice == [known |-> FALSE, trusted |-> FALSE]
NoRow    == [status |-> "none", severity |-> "none"]
NoScan   == [pc |-> "idle", baseline |-> FALSE, todo |-> {},
             host |-> None, drafts |-> {}, new |-> {}, channels |-> <<>>]
NoAnswer == [pc |-> "idle", scope |-> {}, todo |-> {}]

Known    == {h \in Hosts : devices[h].known}

DevicesInit ==
    /\ devices = [h \in Hosts |-> NoDevice] /\ question = [h \in Hosts |-> NoRow]
    /\ scan = [r \in Scanners |-> NoScan] /\ owner = [o \in Owners |-> NoAnswer]
    /\ tried = {} /\ lost = {} /\ muted = {} /\ late = {}

At(r, pc) == scan[r].pc = pc

\* The hosts whose question scanner r has not handed on yet.
Carried(r) ==
    scan[r].drafts \cup {h \in Hosts \ {Self} : At(r, "sighting") /\ h = scan[r].host}

-----------------------------------------------------------------------------
(* A run of discovery.                                                     *)

\* _is_first_run: the first one is the baseline, whatever happens to it.
Begin(r) ==
    /\ At(r, "idle")
    /\ scan' = [scan EXCEPT ![r] = [NoScan EXCEPT !.pc = "sweep", !.baseline = Known = {}]]
    /\ UNCHANGED <<devices, question, owner, tried, lost, muted, late>>

\* The sweep has found these, but for what _limit_new_devices holds back.
Sweep(r, seen) ==
    /\ At(r, "sweep")
    /\ scan' = [scan EXCEPT ![r].pc = "find", ![r].todo = seen \cup {Self}]
    /\ UNCHANGED <<devices, question, owner, tried, lost, muted, late>>

Go(r, todo, drafts) ==
    scan' = [scan EXCEPT ![r] = [@ EXCEPT !.pc = IF todo = {} THEN "apply" ELSE "find", !.todo = todo,
                                          !.drafts = drafts, !.host = None]]

\* _upsert_device: is there a row?  If there is, it and the sightings are brought up
\* to date, trusted is not.
Find(r) ==
    /\ At(r, "find")
    /\ LET h == Min(scan[r].todo) IN
       IF devices[h].known THEN Go(r, scan[r].todo \ {h}, scan[r].drafts)
                           ELSE scan' = [scan EXCEPT ![r].pc = "insert", ![r].host = h]
    /\ UNCHANGED <<devices, question, owner, tried, lost, muted, late>>

Insert(r) ==
    /\ At(r, "insert") /\ ~devices[scan[r].host].known
    /\ devices' = [devices EXCEPT ![scan[r].host] = [known |-> TRUE, trusted |-> FALSE]]
    /\ scan' = [scan EXCEPT ![r].pc = "sighting"]
    /\ UNCHANGED <<question, owner, tried, lost, muted, late>>

\* Mutant: nothing is asked about what the first sweep finds.
SightingOfBaseline(r) ==
    /\ At(r, "sighting")
    /\ LET h == scan[r].host IN
       Go(r, scan[r].todo \ {h}, IF scan[r].baseline THEN scan[r].drafts ELSE scan[r].drafts \cup ({h} \ {Self}))
    /\ UNCHANGED <<devices, question, owner, tried, lost, muted, late>>

\* The sighting is written, and the question drafted.
Sighting(r) ==
    /\ At(r, "sighting")
    /\ LET h == scan[r].host IN Go(r, scan[r].todo \ {h}, scan[r].drafts \cup ({h} \ {Self}))
    /\ UNCHANGED <<devices, question, owner, tried, lost, muted, late>>

\* A statement raises, such as the INSERT of a host that another run has added
\* since: the result is an error with the drafts so far.
ScanFails(r) ==
    /\ \E pc \in {"find", "insert", "sighting"} : At(r, pc)
    /\ scan' = [scan EXCEPT ![r] = [@ EXCEPT !.pc = "apply", !.todo = {}, !.host = None]]
    /\ lost' = lost \cup (Carried(r) \ scan[r].drafts)
    /\ UNCHANGED <<devices, question, owner, tried, muted, late>>

-----------------------------------------------------------------------------
(* apply_findings and the channels.                                        *)

Severity(r) == IF scan[r].baseline THEN "info" ELSE "medium"

\* _apply_one.
Ask(r, h) ==
    /\ At(r, "apply") /\ h \in scan[r].drafts
    /\ question' = [question EXCEPT ![h] = [status |-> "open", severity |-> Severity(r)]]
    /\ scan' = [scan EXCEPT ![r].drafts = @ \ {h},
                            ![r].new = IF question[h] = NoRow THEN @ \cup {h} ELSE @]
    /\ UNCHANGED <<devices, owner, tried, lost, muted, late>>

\* One batched message for the run, if it is severe enough.
Asked(r) ==
    /\ At(r, "apply") /\ scan[r].drafts = {}
    /\ scan' = [scan EXCEPT ![r] = IF scan[r].new # {} /\ Severity(r) \in Loud /\ Channels # <<>>
                                   THEN [@ EXCEPT !.pc = "notify", !.channels = Channels] ELSE NoScan]
    /\ UNCHANGED <<devices, question, owner, tried, lost, muted, late>>

\* Mutant: after the last channel there is still something to send.
DeliverOn(r) ==
    /\ At(r, "notify") /\ scan[r].channels # <<>>
    /\ tried' = tried \cup (scan[r].new \X {Head(scan[r].channels)})
    /\ scan' = [scan EXCEPT ![r].channels = Tail(@)]
    /\ UNCHANGED <<devices, question, owner, lost, muted, late>>

\* Mutant: the first channel that fails ends it.
DeliverOrStop(r) ==
    /\ At(r, "notify")
    /\ tried' = tried \cup (scan[r].new \X {Head(scan[r].channels)})
    /\ \E ok \in BOOLEAN :
       scan' = [scan EXCEPT ![r] = IF ~ok \/ Len(@.channels) = 1 THEN NoScan ELSE [@ EXCEPT !.channels = Tail(@)]]
    /\ UNCHANGED <<devices, question, owner, lost, muted, late>>

\* send: the next channel is tried, and its answer recorded, whatever it is.
Deliver(r) ==
    /\ At(r, "notify")
    /\ tried' = tried \cup (scan[r].new \X {Head(scan[r].channels)})
    /\ LET rest == Tail(scan[r].channels) IN
       scan' = [scan EXCEPT ![r] = IF rest = <<>> THEN NoScan ELSE [@ EXCEPT !.channels = rest]]
    /\ UNCHANGED <<devices, question, owner, lost, muted, late>>

\* The engine raises, or the process dies: drafts and list of new rows go with it.
Die(r) ==
    /\ ~At(r, "idle")
    /\ scan' = [scan EXCEPT ![r] = NoScan]
    /\ lost' = lost \cup Carried(r) /\ muted' = muted \cup scan[r].new
    /\ UNCHANGED <<devices, question, owner, tried, late>>

-----------------------------------------------------------------------------
(* The owner.                                                              *)

Trusts(h) == devices' = [devices EXCEPT ![h].trusted = TRUE]

\* trust_device, and the device page: the flag first.
Trust(o, h) ==
    /\ owner[o] = NoAnswer /\ h \in Known
    /\ Trusts(h)
    /\ owner' = [owner EXCEPT ![o] = [pc |-> "trust", scope |-> {h}, todo |-> {}]]
    /\ UNCHANGED <<question, scan, tried, lost, muted, late>>

Untrust(o, h) ==
    /\ owner[o] = NoAnswer /\ devices[h].trusted
    /\ devices' = [devices EXCEPT ![h].trusted = FALSE]
    /\ UNCHANGED <<question, scan, owner, tried, lost, muted, late>>

\* baseline_devices lists the devices, and trusts one after another.
List(o) ==
    /\ owner[o] = NoAnswer /\ Known # {}
    /\ owner' = [owner EXCEPT ![o] = [pc |-> "trust", scope |-> Hosts,
                                      todo |-> {h \in Known : ~devices[h].trusted}]]
    /\ UNCHANGED <<devices, question, scan, tried, lost, muted, late>>

TrustOne(o, h) ==
    /\ owner[o].pc = "trust" /\ h \in owner[o].todo
    /\ Trusts(h)
    /\ owner' = [owner EXCEPT ![o].todo = @ \ {h}]
    /\ UNCHANGED <<question, scan, tried, lost, muted, late>>

\* new_device_findings: the open questions, of one device or of all.
Select(o) ==
    /\ owner[o].pc = "trust" /\ owner[o].todo = {}
    /\ LET open == {h \in owner[o].scope : question[h].status = "open"} IN
       owner' = [owner EXCEPT ![o] = IF open = {} THEN NoAnswer ELSE [@ EXCEPT !.pc = "close", !.todo = open]]
    /\ late' = late \cup (owner[o].scope \cap UNION {Carried(r) : r \in Scanners})
    /\ UNCHANGED <<devices, question, scan, tried, lost, muted>>

Closed(o, h) ==
    LET rest == owner[o].todo \ {h} IN
    owner' = [owner EXCEPT ![o] = IF rest = {} THEN NoAnswer ELSE [@ EXCEPT !.todo = rest]]

\* Mutant: the question is acknowledged, which does not finish it.
CloseAcknowledges(o, h) ==
    /\ owner[o].pc = "close" /\ h \in owner[o].todo
    /\ question' = [question EXCEPT ![h].status = "open"]
    /\ Closed(o, h)
    /\ UNCHANGED <<devices, scan, tried, lost, muted, late>>

\* set_status, for one row after another.
Close(o, h) ==
    /\ owner[o].pc = "close" /\ h \in owner[o].todo
    /\ question' = [question EXCEPT ![h].status = "resolved"]
    /\ Closed(o, h)
    /\ UNCHANGED <<devices, scan, tried, lost, muted, late>>

\* It fails for a row: the others are closed nevertheless.
CloseFails(o, h) ==
    /\ owner[o].pc = "close" /\ h \in owner[o].todo
    /\ late' = late \cup {h}
    /\ Closed(o, h)
    /\ UNCHANGED <<devices, question, scan, tried, lost, muted>>

\* Another statement fails, or the process dies.
AnswerFails(o) ==
    /\ owner[o] # NoAnswer
    /\ owner' = [owner EXCEPT ![o] = NoAnswer]
    /\ late' = late \cup (IF owner[o].pc = "close" THEN owner[o].todo ELSE owner[o].scope)
    /\ UNCHANGED <<devices, question, scan, tried, lost, muted>>

-----------------------------------------------------------------------------
Scan(r) == \/ Begin(r) \/ (\E S \in SUBSET (Hosts \ {Self}) : Sweep(r, S))
           \/ Find(r) \/ Insert(r) \/ Sighting(r) \/ ScanFails(r)
           \/ (\E h \in scan[r].drafts : Ask(r, h))
           \/ Asked(r) \/ Deliver(r) \/ Die(r)

Answer(o) == \/ (\E h \in Hosts : Trust(o, h) \/ Untrust(o, h))
             \/ List(o) \/ Select(o) \/ AnswerFails(o)
             \/ (\E h \in owner[o].todo : TrustOne(o, h) \/ Close(o, h) \/ CloseFails(o, h))

DevicesNext == (\E r \in Scanners : Scan(r)) \/ (\E o \in Owners : Answer(o))

DevicesSpec == DevicesInit /\ [][DevicesNext]_deviceVars
=============================================================================
