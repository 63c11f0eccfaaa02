---------------------------- MODULE NewDevicesProps ----------------------------
(***************************************************************************)
(* What a new device leads to (NewDevices).                                *)
(***************************************************************************)
EXTENDS NewDevices

ChannelSet == {Channels[i] : i \in DOMAIN Channels}

Runs == [pc : {"idle", "sweep", "find", "insert", "sighting", "apply", "notify"}, baseline : BOOLEAN,
         todo : SUBSET Hosts, host : Hosts \cup {None}, drafts : SUBSET (Hosts \ {Self}),
         new : SUBSET (Hosts \ {Self}), channels : Seq(ChannelSet)]

Answers == [pc : {"idle", "trust", "close"}, scope : SUBSET Hosts, todo : SUBSET Hosts]

(* Inventory, questions, runs and answers have their types, and a run has  *)
(* channels left exactly as long as it sends.                              *)
DevicesTypeOK ==
    /\ devices \in [Hosts -> [known : BOOLEAN, trusted : BOOLEAN]]
    /\ question \in [Hosts -> [status : {"none", "open", "resolved"}, severity : {"none", "info", "medium"}]]
    /\ scan \in [Scanners -> Runs] /\ owner \in [Owners -> Answers]
    /\ \A r \in Scanners : scan[r].channels # <<>> <=> scan[r].pc = "notify"
    /\ \A o \in Owners : owner[o].todo \subseteq owner[o].scope
    /\ tried \subseteq Hosts \X ChannelSet
    /\ UNION {lost, muted, late} \subseteq Hosts

(* Every device of the inventory, but for this machine, has been asked     *)
(* about or is about to be, unless the run that added it failed or died    *)
(* with the question: two runs that find it together do not leave it to    *)
(* each other (is_new of _upsert_device).                                  *)
EveryDeviceIsAskedAbout ==
    \A h \in Known \ {Self} :
        question[h] # NoRow \/ h \in lost \/ \E r \in Scanners : h \in Carried(r)

(* A question severe enough has been tried on every channel, or is about   *)
(* to be, unless the run that asked it died; a channel that fails is not   *)
(* the end of it (send: "a failing channel never stops the others").       *)
AlertsReachEveryChannel ==
    \A h \in Hosts : question[h].severity \in Loud /\ h \notin muted
                     /\ (\A r \in Scanners : h \notin scan[r].new) =>
        \A i \in DOMAIN Channels : <<h, Channels[i]>> \in tried

(* Trusting a device answers its question for good, unless the question    *)
(* was still on its way when the open ones were looked up, or looking them *)
(* up failed (discovery.run: "trusting a device *later* closes this        *)
(* finding").                                                              *)
TrustAnswers ==
    \A h \in Known : devices[h].trusted /\ question[h].status = "open" =>
        h \in late \/ \E o \in Owners : h \in owner[o].scope

(* A question is only closed of a device that is trusted by then           *)
(* (cmd_baseline: "From now on only a device that was not in this list is  *)
(* reported as new").  The code lists the devices before the questions, so *)
(* this fails.                                                             *)
OnlyTrustedAreAnswered ==
    [][\A h \in Hosts : question[h].status = "open" /\ question'[h].status = "resolved"
                        => devices[h].trusted]_deviceVars
=============================================================================
