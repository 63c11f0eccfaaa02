------------------------------ MODULE LensProofs ------------------------------
(***************************************************************************)
(* A code pairs one phone, the ceiling holds and so does a lockout, for    *)
(* any desks, phones, sources and limits.                                  *)
(***************************************************************************)
EXTENDS LensProps, FiniteSetTheorems, TLAPS

\* A code that has paired a phone is gone, and no code comes twice.
CodesInv == CodePairsOnce /\ \A t \in tokens, k \in codes : t.code # k.code

CeilingInv == IsFiniteSet(tokens) /\ CeilingHolds

\* The lockout that is in force is on record, and no purge has read one.
LockoutInv ==
    /\ \A s \in Sources : barred[s] <= clock \/ barred[s] <= tries[s].until
    /\ \A x \in purging : x.read.until <= clock

IInv == TypeOK /\ CodesInv /\ CeilingInv /\ LockoutInv

-----------------------------------------------------------------------------
LEMMA InitInv == Init => IInv
<1> SUFFICES ASSUME Init PROVE IInv
    OBVIOUS
<1> USE LensAssumption DEF Init
<1>1. NoClaim \in [pc : {"idle", "allowed", "room", "paired"}, source : Sources, code : CodeIds \cup {0}]
    BY DEF NoClaim
<1>2. TypeOK
    BY <1>1 DEF TypeOK, NoTries, NoTask, Counter
<1>3. Active(tokens) = {}
    BY DEF Active
<1>4. CeilingInv
    BY <1>3, FS_EmptySet DEF CeilingInv, CeilingHolds
<1> QED BY <1>2, <1>4 DEF IInv, CodesInv, CodePairsOnce, LockoutInv

LEMMA NoClaimType ==
    NoClaim \in [pc : {"idle", "allowed", "room", "paired"}, source : Sources, code : CodeIds \cup {0}]
BY LensAssumption DEF NoClaim

\* Whoever is not paired stays so, and time and revocation only end tokens.
LEMMA FewerActive ==
    ASSUME CeilingInv, IsFiniteSet(tokens'), Active(tokens)' \subseteq Active(tokens)
    PROVE  CeilingInv'
<1>1. IsFiniteSet(Active(tokens))
    BY FS_Subset DEF CeilingInv, Active
<1>2. Cardinality(Active(tokens)') <= Cardinality(Active(tokens)) /\ IsFiniteSet(Active(tokens)')
    BY <1>1, FS_Subset
<1>3. Cardinality(Active(tokens)) \in Nat /\ Cardinality(Active(tokens)') \in Nat
    BY <1>1, <1>2, FS_CardinalityType
<1> QED BY <1>2, <1>3, LensAssumption DEF CeilingInv, CeilingHolds

\* A counter keeps its type.
LEMMA CountedType ==
    ASSUME TypeOK, NEW s \in Sources
    PROVE  Counted(s) \in Counter /\ Counted(s).until = 0
BY DEF TypeOK, Counter, Counted

LEMMA StepIInv == IInv /\ [Next]_vars => IInv'
<1> SUFFICES ASSUME IInv, [Next]_vars PROVE IInv'
    OBVIOUS
<1> USE LensAssumption DEF IInv
\* Steps at a desk that touch no token.
<1>1. ASSUME NEW d \in Desks,
             List(d, "mint") \/ List(d, "clear") \/ DeleteOne(d) \/ Cleared(d) \/ RevokeAllCodes(d)
      PROVE IInv'
    <2>1. /\ UNCHANGED <<clock, minted, tokens, tries, phone, purging, barred>> /\ codes' \subseteq codes
        BY <1>1 DEF List, DeleteOne, Cleared, RevokeAllCodes
    <2>2. {k.code : k \in codes} \subseteq CodeIds
        BY DEF TypeOK, CodeIds
    <2>3. desk' \in [Desks -> [pc : {"idle", "mint", "clear", "revoked"}, todo : SUBSET CodeIds]]
        BY <1>1, <2>2 DEF List, DeleteOne, Cleared, RevokeAllCodes, NoTask, TypeOK
    <2>4. TypeOK'
        BY <2>1, <2>3 DEF TypeOK, TokenSet
    <2>5. CodesInv' /\ LockoutInv'
        BY <2>1 DEF CodesInv, CodePairsOnce, LockoutInv
    <2>6. CeilingInv'
        BY <2>1, FewerActive DEF Active, CeilingInv
    <2> QED BY <2>4, <2>5, <2>6
<1>2. ASSUME NEW d \in Desks, Mint(d) PROVE IInv'
    <2>1. /\ UNCHANGED <<clock, tokens, tries, phone, purging, barred>>
          /\ minted' = minted + 1 /\ minted < MaxCodes
          /\ codes' = codes \cup {[code |-> minted + 1, expires |-> clock + CodeTtl]}
          /\ desk' = [desk EXCEPT ![d] = NoTask]
        BY <1>2 DEF Mint
    <2>2. minted \in Nat /\ minted' \in 0..MaxCodes /\ clock \in Nat /\ 1..minted \subseteq 1..minted'
        BY <2>1 DEF TypeOK
    <2>3. codes' \subseteq [code : 1..minted', expires : Nat]
        BY <2>1, <2>2 DEF TypeOK
    <2>4. tokens' \subseteq TokenSet'
        BY <2>1, <2>2 DEF TypeOK, TokenSet
    <2>5. TypeOK'
        BY <2>1, <2>2, <2>3, <2>4 DEF TypeOK, NoTask
    <2>6. CodesInv'
        BY <2>1, <2>2 DEF CodesInv, CodePairsOnce, TypeOK, TokenSet
    <2>7. CeilingInv'
        BY <2>1, FewerActive DEF Active, CeilingInv
    <2> QED BY <2>1, <2>5, <2>6, <2>7 DEF LockoutInv
\* Revocation.
<1>3. ASSUME NEW d \in Desks, NEW t \in tokens, Revoke(d, t) PROVE IInv'
    <2> DEFINE u == [t EXCEPT !.revoked = TRUE]
    <2>1. /\ tokens' = (tokens \ {t}) \cup {u}
          /\ UNCHANGED <<clock, minted, codes, tries, desk, phone, purging, barred>>
        BY <1>3 DEF Revoke
    <2>2. u \in TokenSet /\ u.code = t.code /\ u.revoked
        BY DEF TypeOK, TokenSet
    <2> HIDE DEF u
    <2>3. TypeOK' /\ CodesInv' /\ LockoutInv'
        BY <2>1, <2>2 DEF TypeOK, TokenSet, CodesInv, CodePairsOnce, LockoutInv
    <2>4. IsFiniteSet(tokens')
        BY <2>1, FS_AddElement, FS_RemoveElement DEF CeilingInv
    <2>5. CeilingInv'
        BY <2>1, <2>2, <2>4, FewerActive DEF Active
    <2> QED BY <2>3, <2>5
<1>4. ASSUME NEW d \in Desks, RevokeAll(d) PROVE IInv'
    <2>1. /\ tokens' = {[t EXCEPT !.revoked = TRUE] : t \in tokens}
          /\ desk' = [desk EXCEPT ![d].pc = "revoked"]
          /\ UNCHANGED <<clock, minted, codes, tries, phone, purging, barred>>
        BY <1>4 DEF RevokeAll
    <2>2. ASSUME NEW u \in tokens'
          PROVE  /\ u \in TokenSet /\ u.revoked
                 /\ \E t \in tokens : u = [t EXCEPT !.revoked = TRUE] /\ u.code = t.code
        <3>1. PICK t \in tokens : u = [t EXCEPT !.revoked = TRUE]
            BY <2>1
        <3>2. t \in TokenSet
            BY DEF TypeOK
        <3> QED BY <3>1, <3>2 DEF TokenSet
    <2>3. TypeOK'
        BY <2>1, <2>2 DEF TypeOK, TokenSet
    <2>4. CodesInv'
        <3>1. ASSUME NEW u \in tokens', NEW v \in tokens', u.code = v.code PROVE u = v
            <4>1. PICK t \in tokens : u = [t EXCEPT !.revoked = TRUE] /\ u.code = t.code
                BY <2>2
            <4>2. PICK w \in tokens : v = [w EXCEPT !.revoked = TRUE] /\ v.code = w.code
                BY <2>2
            <4> QED BY <3>1, <4>1, <4>2 DEF CodesInv, CodePairsOnce
        <3>2. \A u \in tokens', k \in codes' : u.code # k.code
            BY <2>1, <2>2 DEF CodesInv
        <3> QED BY <3>1, <3>2 DEF CodesInv, CodePairsOnce
    <2>5. IsFiniteSet(tokens')
        <3> DEFINE f == [t \in tokens |-> [t EXCEPT !.revoked = TRUE]]
        <3>1. f \in Surjection(tokens, tokens')
            BY <2>1 DEF Surjection
        <3> QED BY <3>1, FS_Surjection DEF CeilingInv
    <2>6. CeilingInv'
        BY <2>2, <2>5, FewerActive DEF Active
    <2> QED BY <2>1, <2>3, <2>4, <2>6 DEF LockoutInv
\* Claims.
<1>5. ASSUME NEW p \in Phones, NEW s \in Sources, NEW c \in CodeIds \cup {0}, ClaimAllowed(p, s, c) PROVE IInv'
    <2>1. /\ tries' = [tries EXCEPT ![s] = Counted(s)] /\ tries[s].until <= clock
          /\ phone' = [phone EXCEPT ![p] = [pc |-> "allowed", source |-> s, code |-> c]]
          /\ UNCHANGED <<clock, minted, codes, tokens, desk, purging, barred>>
        BY <1>5 DEF ClaimAllowed
    <2>2. TypeOK' /\ CodesInv'
        BY <2>1, CountedType DEF TypeOK, TokenSet, CodesInv, CodePairsOnce
    <2>3. LockoutInv'
        BY <2>1 DEF LockoutInv, TypeOK, Counter
    <2>4. CeilingInv'
        BY <2>1, FewerActive DEF Active, CeilingInv
    <2> QED BY <2>2, <2>3, <2>4
<1>6. ASSUME NEW s \in Sources, ClaimBars(s) PROVE IInv'
    <2>1. /\ tries' = [tries EXCEPT ![s] = [Counted(s) EXCEPT !.until = clock + Window]]
          /\ barred' = [barred EXCEPT ![s] = clock + Window]
          /\ UNCHANGED <<clock, minted, codes, tokens, desk, phone, purging>>
        BY <1>6 DEF ClaimBars
    <2>2. [Counted(s) EXCEPT !.until = clock + Window] \in Counter
        BY CountedType DEF TypeOK, Counter
    <2>3. TypeOK' /\ CodesInv'
        BY <2>1, <2>2 DEF TypeOK, TokenSet, CodesInv, CodePairsOnce
    <2>4. tries'[s].until = clock + Window
        BY <2>1, CountedType DEF TypeOK, Counter
    <2>5. LockoutInv'
        BY <2>1, <2>4 DEF LockoutInv, TypeOK
    <2>6. CeilingInv'
        BY <2>1, FewerActive DEF Active, CeilingInv
    <2> QED BY <2>3, <2>5, <2>6
<1>7. ASSUME NEW p \in Phones, CheckCeiling(p) \/ NoRoom(p) \/ WrongCode(p) PROVE IInv'
    <2>1. UNCHANGED <<clock, minted, tokens, tries, desk, purging, barred>> /\ codes' \subseteq codes
        BY <1>7 DEF CheckCeiling, NoRoom, WrongCode, Fresh
    <2>2. \/ phone' = [phone EXCEPT ![p] = NoClaim]
          \/ phone' = [phone EXCEPT ![p].pc = "room"]
        BY <1>7 DEF CheckCeiling, NoRoom, WrongCode, Step
    <2>3. TypeOK' /\ CodesInv' /\ LockoutInv'
        BY <2>1, <2>2, NoClaimType DEF TypeOK, TokenSet, CodesInv, CodePairsOnce, LockoutInv
    <2>4. CeilingInv'
        BY <2>1, FewerActive DEF Active, CeilingInv
    <2> QED BY <2>3, <2>4
<1>8. ASSUME NEW p \in Phones, Pair(p) PROVE IInv'
    <2> DEFINE t == Minted(phone[p].code)
    <2>1. /\ Cardinality(Active(tokens)) < MaxTokens
          /\ codes' = {k \in Fresh : k.code # phone[p].code} /\ tokens' = tokens \cup {t}
          /\ phone' = [phone EXCEPT ![p].pc = "paired"]
          /\ UNCHANGED <<clock, minted, tries, desk, purging, barred>>
        BY <1>8 DEF Pair, Accept, Step
    <2>2. PICK k \in codes : k.code = phone[p].code
        BY <1>8 DEF Pair, Fresh
    <2>3. t \in TokenSet /\ t.code = phone[p].code
        <3>1. Cardinality({u \in tokens : u.code = phone[p].code}) \in Nat
            BY FS_Subset, FS_CardinalityType DEF CeilingInv
        <3> QED BY <2>2, <3>1 DEF Minted, TokenSet, TypeOK
    <2> HIDE DEF t
    <2>4. TypeOK'
        BY <2>1, <2>3 DEF TypeOK, TokenSet, Fresh
    <2>5. CodesInv'
        BY <2>1, <2>2, <2>3 DEF CodesInv, CodePairsOnce, Fresh
    <2>6. CeilingInv'
        <3>1. IsFiniteSet(tokens')
            BY <2>1, FS_AddElement DEF CeilingInv
        <3>2. IsFiniteSet(Active(tokens)) /\ Cardinality(Active(tokens)) \in Nat
            BY FS_Subset, FS_CardinalityType DEF CeilingInv, Active
        <3>3. Active(tokens)' \subseteq Active(tokens) \cup {t}
            BY <2>1 DEF Active
        <3>4. /\ IsFiniteSet(Active(tokens) \cup {t})
              /\ Cardinality(Active(tokens) \cup {t}) <= Cardinality(Active(tokens)) + 1
            BY <3>2, FS_AddElement
        <3>5. /\ Cardinality(Active(tokens)') <= Cardinality(Active(tokens) \cup {t})
              /\ Cardinality(Active(tokens)') \in Nat /\ Cardinality(Active(tokens) \cup {t}) \in Nat
            BY <3>3, <3>4, FS_Subset, FS_CardinalityType
        <3>6. Cardinality(Active(tokens)') <= MaxTokens
            BY <2>1, <3>2, <3>4, <3>5
        <3> QED BY <3>1, <3>6 DEF CeilingInv, CeilingHolds
    <2> QED BY <2>1, <2>4, <2>5, <2>6 DEF LockoutInv
<1>9. ASSUME NEW p \in Phones, Reset(p) PROVE IInv'
    <2>1. /\ tries' = [tries EXCEPT ![phone[p].source] = NoTries]
          /\ barred' = [barred EXCEPT ![phone[p].source] = 0]
          /\ phone' = [phone EXCEPT ![p] = NoClaim]
          /\ UNCHANGED <<clock, minted, codes, tokens, desk, purging>>
        BY <1>9 DEF Reset
    <2>2. TypeOK' /\ CodesInv' /\ LockoutInv'
        BY <2>1, NoClaimType DEF TypeOK, TokenSet, Counter, NoTries, CodesInv, CodePairsOnce, LockoutInv
    <2>3. CeilingInv'
        BY <2>1, FewerActive DEF Active, CeilingInv
    <2> QED BY <2>2, <2>3
\* Housekeeping and time.
<1>10. CASE Purge
    <2>1. /\ purging' = {[source |-> s, read |-> tries[s]] : s \in Stale}
          /\ UNCHANGED <<clock, minted, codes, tokens, tries, desk, phone, barred>>
        BY <1>10 DEF Purge
    <2>2. \A s \in Stale : s \in Sources /\ tries[s] \in Counter /\ tries[s].until <= clock
        BY DEF Stale, Newest, TypeOK, Counter
    <2>3. TypeOK' /\ CodesInv' /\ LockoutInv'
        BY <2>1, <2>2 DEF TypeOK, TokenSet, CodesInv, CodePairsOnce, LockoutInv
    <2>4. CeilingInv'
        BY <2>1, FewerActive DEF Active, CeilingInv
    <2> QED BY <2>3, <2>4
<1>11. ASSUME NEW x \in purging, PurgeOne(x) PROVE IInv'
    <2>1. /\ tries' = [tries EXCEPT ![x.source] = NoTries]
          /\ barred' = [barred EXCEPT ![x.source] = IF tries[x.source] = x.read THEN barred[x.source] ELSE 0]
          /\ purging' = purging \ {x}
          /\ UNCHANGED <<clock, minted, codes, tokens, desk, phone>>
        BY <1>11 DEF PurgeOne
    <2>2. TypeOK' /\ CodesInv'
        BY <2>1 DEF TypeOK, TokenSet, Counter, NoTries, CodesInv, CodePairsOnce
    <2>3. x.source \in Sources /\ barred'[x.source] <= clock
        BY <2>1 DEF TypeOK, Counter, LockoutInv
    <2>4. LockoutInv'
        BY <2>1, <2>3 DEF TypeOK, LockoutInv
    <2>5. CeilingInv'
        BY <2>1, FewerActive DEF Active, CeilingInv
    <2> QED BY <2>2, <2>4, <2>5
<1>12. CASE Tick
    <2>1. /\ clock' = clock + 1 /\ clock < MaxClock /\ clock \in Nat
          /\ UNCHANGED <<minted, codes, tokens, tries, desk, phone, purging, barred>>
        BY <1>12 DEF Tick, TypeOK
    <2>2. TypeOK' /\ CodesInv'
        BY <2>1 DEF TypeOK, TokenSet, CodesInv, CodePairsOnce
    <2>3. LockoutInv'
        BY <2>1 DEF TypeOK, Counter, LockoutInv
    <2>4. CeilingInv'
        BY <2>1, FewerActive DEF Active, CeilingInv, TypeOK, TokenSet
    <2> QED BY <2>2, <2>3, <2>4
<1>13. CASE UNCHANGED vars
    <2>1. CeilingInv'
        BY <1>13, FewerActive DEF vars, Active, CeilingInv
    <2> QED BY <1>13, <2>1 DEF vars, TypeOK, TokenSet, CodesInv, CodePairsOnce, LockoutInv
<1> QED
    BY <1>1, <1>2, <1>3, <1>4, <1>5, <1>6, <1>7, <1>8, <1>9, <1>10, <1>11, <1>12, <1>13
    DEF Next, Desk, Claim

THEOREM Inductive == Spec => []IInv
BY InitInv, StepIInv, PTL DEF Spec

\* Every reachable state of pairing is well typed, and every token stems from a code.
THEOREM TypeCorrect == Spec => []TypeOK
<1>1. IInv => TypeOK
    BY DEF IInv
<1> QED BY <1>1, Inductive, PTL

\* lens_consume_pairing_code spends a code for one phone only.
THEOREM CodePairsOnceAlways == Spec => []CodePairsOnce
<1>1. IInv => CodePairsOnce
    BY DEF IInv, CodesInv
<1> QED BY <1>1, Inductive, PTL

\* lens_pair_with_code never pairs one phone too many.
THEOREM CeilingHoldsAlways == Spec => []CeilingHolds
<1>1. IInv => CeilingHolds
    BY DEF IInv, CeilingInv
<1> QED BY <1>1, Inductive, PTL

\* lens_claim_attempt lets no claim pass from a source that is locked out.
THEOREM LockoutHoldsAlways == Spec => LockoutHolds
<1> DEFINE Admitted == \A p \in Phones :
              phone[p].pc = "idle" /\ phone'[p].pc = "allowed" => barred[phone'[p].source] <= clock
<1>1. ASSUME IInv, [Next]_vars PROVE Admitted
    <2> SUFFICES ASSUME NEW p \in Phones, phone[p].pc = "idle", phone'[p].pc = "allowed"
                 PROVE  barred[phone'[p].source] <= clock
        OBVIOUS
    <2>1. PICK s \in Sources, c \in CodeIds \cup {0} : ClaimAllowed(p, s, c)
        <3>1. /\ phone \in [Phones -> [pc : {"idle", "allowed", "room", "paired"}, source : Sources, code : CodeIds \cup {0}]]
              /\ phone'[p] # phone[p]
            BY <1>1 DEF IInv, TypeOK
        <3>2. ASSUME NEW q \in Phones, Claim(q)
              PROVE  \E s \in Sources, c \in CodeIds \cup {0} : ClaimAllowed(p, s, c)
            <4>1. ASSUME NEW s \in Sources, NEW c \in CodeIds \cup {0}, ClaimAllowed(q, s, c) PROVE p = q
                BY <3>1, <4>1 DEF ClaimAllowed
            <4>2. ~(CheckCeiling(q) \/ Pair(q) \/ WrongCode(q) \/ NoRoom(q) \/ Reset(q))
                BY <3>1 DEF CheckCeiling, Pair, WrongCode, NoRoom, Reset, Accept, Step, NoClaim
            <4> QED BY <3>2, <4>1, <4>2 DEF Claim
        <3>3. \/ UNCHANGED phone
              \/ \E q \in Phones : Claim(q)
            BY <1>1 DEF Next, vars, Desk, List, DeleteOne, Mint, Cleared, RevokeAll, RevokeAllCodes,
                        Revoke, ClaimBars, PurgeOne, Purge, Tick
        <3> QED BY <3>1, <3>2, <3>3
    <2>2. phone'[p].source = s /\ tries[s].until <= clock
        BY <1>1, <2>1 DEF ClaimAllowed, IInv, TypeOK
    <2>3. barred[s] <= clock \/ barred[s] <= tries[s].until
        BY <1>1 DEF IInv, LockoutInv
    <2> QED BY <1>1, <2>2, <2>3 DEF IInv, TypeOK, Counter
<1>2. IInv /\ [Next]_vars => [Admitted]_vars
    BY <1>1
<1> QED BY <1>2, Inductive, PTL DEF Spec, LockoutHolds
===============================================================================
