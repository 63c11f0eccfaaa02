------------------------------ MODULE BudgetProps ------------------------------
(***************************************************************************)
(* What the daily quota promises (Budget).                                 *)
(***************************************************************************)
EXTENDS Budget

CallsOf == [Hosts -> Nat]

(* The counters count, and a lookup that is under way has a client.        *)
BudgetTypeOK ==
    /\ today \in Nat /\ saved \in Nat /\ restarts \in Nat
    /\ quota \in [day : Nat, used : Nat, tokens : Nat]
    /\ shares \in [day : Nat, by : CallsOf, unknown : Nat]
    /\ \/ asker = NoAsker
       \/ asker \in [pc : {"share", "quota", "drawn"}, client : Hosts, known : BOOLEAN]
    /\ drawn \in Nat /\ lost \in Nat /\ spent \in CallsOf /\ strangers \in Nat

(* VirusTotal is not asked more often in a day than the quota allows, for  *)
(* names and files together, but for the calls whose count could not be    *)
(* saved before a restart or loaded after it: midnight and restarts at any *)
(* step of try_acquire's callers included.                                 *)
BudgetKept == drawn <= Limit + lost

(* Until the process restarts no client gets more than its share of a day, *)
(* and the clients outside the inventory together no more than theirs,     *)
(* although the share is checked, and charged, apart from the quota.       *)
SharesKept == /\ \A c \in Hosts : spent[c] <= ClientShare
              /\ strangers <= UnknownShare
=============================================================================
