------------------------------- MODULE LensProps -------------------------------
(***************************************************************************)
(* What pairing promises (Lens).                                           *)
(***************************************************************************)
EXTENDS Lens

Counter  == [start : Nat, count : Nat, until : Nat]
TokenSet == [code : 1..minted, nth : Nat, expires : Nat, revoked : BOOLEAN]

(* Codes, tokens, counters and the requests under way have their types, and *)
(* every token was paired with a code that was minted.                     *)
TypeOK ==
    /\ clock \in 0..MaxClock /\ minted \in 0..MaxCodes
    /\ codes \subseteq [code : 1..minted, expires : Nat]
    /\ tokens \subseteq TokenSet
    /\ tries \in [Sources -> Counter]
    /\ desk \in [Desks -> [pc : {"idle", "mint", "clear", "revoked"}, todo : SUBSET CodeIds]]
    /\ phone \in [Phones -> [pc : {"idle", "allowed", "room", "paired"}, source : Sources,
                             code : CodeIds \cup {0}]]
    /\ purging \subseteq [source : Sources, read : Counter] /\ barred \in [Sources -> Nat]

(* However many claims race with one code, at most one phone is paired     *)
(* with it (lens_consume_pairing_code: "True exactly once per code").      *)
CodePairsOnce == \A t, u \in tokens : t.code = u.code => t = u

(* Claims that race for the last place do not pair more phones than        *)
(* lens.max_tokens: the count taken before is not the one that decides.    *)
CeilingHolds == Cardinality(Active(tokens)) <= MaxTokens

(* A source that was refused for a window is refused until it is over, or  *)
(* a claim of its own, allowed before, has paired.  Neither other claims   *)
(* under way nor housekeeping lift the lockout, but for one that begins    *)
(* between the two steps of a purge (lens_claim_attempt: "a late writer    *)
(* could erase a lockout another thread had just set").                    *)
LockoutHolds ==
    [][\A p \in Phones :
         phone[p].pc = "idle" /\ phone'[p].pc = "allowed" => barred[phone'[p].source] <= clock]_vars
=============================================================================
