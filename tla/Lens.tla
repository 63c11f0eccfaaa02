--------------------------------- MODULE Lens ---------------------------------
(***************************************************************************)
(* Pairing phones with Lens (the lens_* functions of homesoc/db.py, claim  *)
(* in homesoc/web/lens.py, the claim endpoint in homesoc/web/api.py and    *)
(* `homesoc lens` in homesoc/cli.py).                                      *)
(*                                                                         *)
(* The owner's desks, the pairing page and the command line, mint pairing  *)
(* codes and revoke tokens; phones claim tokens with codes; the nightly    *)
(* housekeeping purges the counters of attempts.  Each statement or locked *)
(* section of the database layer is an action.  Codes are numbered in the  *)
(* order they are minted, and tokens are numbered by the code they were    *)
(* minted for and the order in which that happened.                        *)
(***************************************************************************)
EXTENDS Naturals, FiniteSets, FiniteSetsExt

CONSTANTS
    Desks,       \* the pairing page and the command line
    Phones,      \* threads that serve claims
    Sources,     \* addresses (or IPv6 networks) that claims come from
    MaxTokens,   \* lens.max_tokens
    CodeTtl,     \* LENS_PAIRING_TTL_SECONDS
    TokenTtl,    \* lens.token_ttl_days, 0 for no end
    Window,      \* LENS_CLAIM_WINDOW_SECONDS
    ClaimLimit,  \* LENS_CLAIM_LIMIT
    MaxCodes,    \* bound: codes minted
    MaxClock     \* bound: the last tick

ASSUME LensAssumption ==
    /\ {MaxTokens, ClaimLimit} \subseteq Nat \ {0}
    /\ {CodeTtl, TokenTtl, Window, MaxCodes, MaxClock} \subseteq Nat
    /\ Sources # {}

VARIABLES
    clock,
    minted,   \* how many codes there have been
    codes,    \* lens.pairing.*: [code, expires]
    tokens,   \* lens_tokens: [code, nth, expires, revoked]
    tries,    \* lens.claim.*: window_start, count and blocked_until per source, count 0 without
    desk,     \* per desk: what it is doing, and the codes it has listed and must delete
    phone,    \* per phone: where its claim is, the source, and the code it presents
    purging,  \* lens_purge_claim_counters: the stale counters it has read and must delete
    \* history
    barred    \* per source: refused up to this tick

vars == <<clock, minted, codes, tokens, tries, desk, phone, purging, barred>>

CodeIds  == 1..MaxCodes
NoTries  == [start |-> 0, count |-> 0, until |-> 0]
NoClaim  == [pc |-> "idle", source |-> CHOOSE s \in Sources : TRUE, code |-> 0]
NoTask   == [pc |-> "idle", todo |-> {}]

Init ==
    /\ clock = 0 /\ minted = 0 /\ codes = {} /\ tokens = {}
    /\ tries = [s \in Sources |-> NoTries]
    /\ desk = [d \in Desks |-> NoTask] /\ phone = [p \in Phones |-> NoClaim]
    /\ purging = {}
    /\ barred = [s \in Sources |-> 0]

\* lens_active_tokens.
Active(T) == {t \in T : ~t.revoked /\ (t.expires = 0 \/ t.expires > clock)}

-----------------------------------------------------------------------------
(* The owner.                                                              *)

\* lens_clear_pairing_codes lists the codes, then deletes one after another:
\* to mint a code (lens_new_pairing_code) or because Lens is switched off.
List(d, pc) ==
    /\ desk[d].pc = "idle"
    /\ desk' = [desk EXCEPT ![d] = [pc |-> pc, todo |-> {k.code : k \in codes}]]
    /\ UNCHANGED <<clock, minted, codes, tokens, tries, phone, purging, barred>>

DeleteOne(d) ==
    /\ \E c \in desk[d].todo :
          /\ codes' = {k \in codes : k.code # c}
          /\ desk' = [desk EXCEPT ![d].todo = @ \ {c}]
    /\ UNCHANGED <<clock, minted, tokens, tries, phone, purging, barred>>

Mint(d) ==
    /\ desk[d].pc = "mint" /\ desk[d].todo = {} /\ minted < MaxCodes
    /\ minted' = minted + 1
    /\ codes' = codes \cup {[code |-> minted + 1, expires |-> clock + CodeTtl]}
    /\ desk' = [desk EXCEPT ![d] = NoTask]
    /\ UNCHANGED <<clock, tokens, tries, phone, purging, barred>>

Cleared(d) ==
    /\ desk[d].pc = "clear" /\ desk[d].todo = {}
    /\ desk' = [desk EXCEPT ![d] = NoTask]
    /\ UNCHANGED <<clock, minted, codes, tokens, tries, phone, purging, barred>>

\* lens_revoke_token.
Revoke(d, t) ==
    /\ desk[d].pc = "idle" /\ ~t.revoked
    /\ tokens' = (tokens \ {t}) \cup {[t EXCEPT !.revoked = TRUE]}
    /\ UNCHANGED <<clock, minted, codes, tries, desk, phone, purging, barred>>

\* cmd_lens_revoke --all: every token first, the codes after.
RevokeAll(d) ==
    /\ desk[d].pc = "idle"
    /\ tokens' = {[t EXCEPT !.revoked = TRUE] : t \in tokens}
    /\ desk' = [desk EXCEPT ![d].pc = "revoked"]
    /\ UNCHANGED <<clock, minted, codes, tries, phone, purging, barred>>

RevokeAllCodes(d) ==
    /\ desk[d].pc = "revoked"
    /\ desk' = [desk EXCEPT ![d] = [pc |-> "clear", todo |-> {k.code : k \in codes}]]
    /\ UNCHANGED <<clock, minted, codes, tokens, tries, phone, purging, barred>>

-----------------------------------------------------------------------------
(* A claim: api_lens_claim.                                                *)

\* An old window is over: the count starts again.
Counted(s) ==
    LET old == tries[s].count = 0 \/ clock > tries[s].start + Window
    IN  [start |-> IF old THEN clock ELSE tries[s].start,
         count |-> (IF old THEN 0 ELSE tries[s].count) + 1, until |-> 0]

Step(p, pc) == phone' = [phone EXCEPT ![p].pc = pc]

\* Mutant: a source that is refused has its lockout replaced by a new count.
ClaimAllowedAnew(p, s, c) ==
    /\ phone[p].pc = "idle"
    /\ Counted(s).count <= ClaimLimit
    /\ tries' = [tries EXCEPT ![s] = Counted(s)]
    /\ phone' = [phone EXCEPT ![p] = [pc |-> "allowed", source |-> s, code |-> c]]
    /\ UNCHANGED <<clock, minted, codes, tokens, desk, purging, barred>>

\* lens_claim_attempt: the code is presented within the limit.
ClaimAllowed(p, s, c) ==
    /\ phone[p].pc = "idle"
    /\ tries[s].until <= clock /\ Counted(s).count <= ClaimLimit
    /\ tries' = [tries EXCEPT ![s] = Counted(s)]
    /\ phone' = [phone EXCEPT ![p] = [pc |-> "allowed", source |-> s, code |-> c]]
    /\ UNCHANGED <<clock, minted, codes, tokens, desk, purging, barred>>

\* One too many: the source is refused for a window from now.
ClaimBars(s) ==
    /\ tries[s].until <= clock /\ Counted(s).count > ClaimLimit
    /\ tries' = [tries EXCEPT ![s] = [Counted(s) EXCEPT !.until = clock + Window]]
    /\ barred' = [barred EXCEPT ![s] = clock + Window]
    /\ UNCHANGED <<clock, minted, codes, tokens, desk, phone, purging>>

\* active_token_count, before the code is looked at.
CheckCeiling(p) ==
    /\ phone[p].pc = "allowed"
    /\ IF Cardinality(Active(tokens)) >= MaxTokens
       THEN phone' = [phone EXCEPT ![p] = NoClaim]
       ELSE Step(p, "room")
    /\ UNCHANGED <<clock, minted, codes, tokens, tries, desk, purging, barred>>

Fresh == {k \in codes : k.expires > clock}

\* lens_mint_token.
Minted(c) == [code |-> c, nth |-> Cardinality({t \in tokens : t.code = c}) + 1,
              expires |-> IF TokenTtl = 0 THEN 0 ELSE clock + TokenTtl, revoked |-> FALSE]

Accept(p) ==
    /\ tokens' = tokens \cup {Minted(phone[p].code)}
    /\ Step(p, "paired")

\* Mutant: the ceiling has been checked already.
PairUnchecked(p) ==
    /\ phone[p].pc = "room"
    /\ \E k \in Fresh : k.code = phone[p].code
    /\ codes' = {k \in Fresh : k.code # phone[p].code}
    /\ Accept(p)
    /\ UNCHANGED <<clock, minted, tries, desk, purging, barred>>

\* Mutant: the sweep of expired codes stands for the deletion of this one.
PairKeepsCode(p) ==
    /\ phone[p].pc = "room" /\ Cardinality(Active(tokens)) < MaxTokens
    /\ \E k \in Fresh : k.code = phone[p].code
    /\ codes' = Fresh
    /\ Accept(p)
    /\ UNCHANGED <<clock, minted, tries, desk, purging, barred>>

\* lens_pair_with_code: ceiling, code and token under one lock.
Pair(p) ==
    /\ phone[p].pc = "room" /\ Cardinality(Active(tokens)) < MaxTokens
    /\ \E k \in Fresh : k.code = phone[p].code
    /\ codes' = {k \in Fresh : k.code # phone[p].code}
    /\ Accept(p)
    /\ UNCHANGED <<clock, minted, tries, desk, purging, barred>>

\* The code is wrong, spent or expired; expired ones go.
WrongCode(p) ==
    /\ phone[p].pc = "room" /\ Cardinality(Active(tokens)) < MaxTokens
    /\ \A k \in Fresh : k.code # phone[p].code
    /\ codes' = Fresh
    /\ phone' = [phone EXCEPT ![p] = NoClaim]
    /\ UNCHANGED <<clock, minted, tokens, tries, desk, purging, barred>>

\* LensTokenLimit: others have paired meanwhile; the code is kept.
NoRoom(p) ==
    /\ phone[p].pc = "room" /\ Cardinality(Active(tokens)) >= MaxTokens
    /\ phone' = [phone EXCEPT ![p] = NoClaim]
    /\ UNCHANGED <<clock, minted, codes, tokens, tries, desk, purging, barred>>

\* claim_reset: a successful pairing clears its source's counter.
Reset(p) ==
    /\ phone[p].pc = "paired"
    /\ tries' = [tries EXCEPT ![phone[p].source] = NoTries]
    /\ barred' = [barred EXCEPT ![phone[p].source] = 0]
    /\ phone' = [phone EXCEPT ![p] = NoClaim]
    /\ UNCHANGED <<clock, minted, codes, tokens, desk, purging>>

-----------------------------------------------------------------------------
(* Housekeeping, and time.                                                 *)

Newest(s) == IF tries[s].until > tries[s].start THEN tries[s].until ELSE tries[s].start

Stale == {s \in Sources : tries[s].count > 0 /\ Newest(s) + 2 * Window < clock}

\* lens_purge_claim_counters reads all counters, and deletes the stale ones.
Purge ==
    /\ purging = {} /\ Stale # {}
    /\ purging' = {[source |-> s, read |-> tries[s]] : s \in Stale}
    /\ UNCHANGED <<clock, minted, codes, tokens, tries, desk, phone, barred>>

\* By key, whatever has been counted in between.
PurgeOne(x) ==
    /\ x \in purging
    /\ tries' = [tries EXCEPT ![x.source] = NoTries]
    /\ barred' = [barred EXCEPT ![x.source] = IF tries[x.source] = x.read THEN @ ELSE 0]
    /\ purging' = purging \ {x}
    /\ UNCHANGED <<clock, minted, codes, tokens, desk, phone>>

Tick ==
    /\ clock < MaxClock
    /\ clock' = clock + 1
    /\ UNCHANGED <<minted, codes, tokens, tries, desk, phone, purging, barred>>

-----------------------------------------------------------------------------
Desk(d) == \/ List(d, "mint") \/ List(d, "clear") \/ DeleteOne(d) \/ Mint(d) \/ Cleared(d)
           \/ RevokeAll(d) \/ RevokeAllCodes(d)
           \/ \E t \in tokens : Revoke(d, t)

Claim(p) == \/ \E s \in Sources, c \in CodeIds \cup {0} : ClaimAllowed(p, s, c)
            \/ CheckCeiling(p) \/ Pair(p) \/ WrongCode(p) \/ NoRoom(p) \/ Reset(p)

Next == \/ \E d \in Desks : Desk(d)
        \/ \E p \in Phones : Claim(p)
        \/ \E s \in Sources : ClaimBars(s)
        \/ \E x \in purging : PurgeOne(x)
        \/ Purge \/ Tick

Spec == Init /\ [][Next]_vars
=============================================================================
