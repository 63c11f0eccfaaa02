---------------------------- MODULE ReputationProofs ----------------------------
(***************************************************************************)
(* Looking up names, for any names, clients, threads and capacities: the   *)
(* quota and the shares hold (Budget), no slot of a lane leaks, and no     *)
(* name counts as looked up that was dropped (Reputation).                 *)
(***************************************************************************)
EXTENDS BudgetProps, ReputationProps, FiniteSetTheorems, FunctionTheorems, SequenceTheorems,
        TLAPS

(***************************************************************************)
(* Budget.  The count of calls and the shares, for any limits and number   *)
(* of days and restarts.                                                   *)
(***************************************************************************)

\* The count is of the calls of its day but for those that were lost.  On a day on
\* which nobody has looked at the quota yet nothing has been drawn.
QuotaInv ==
    /\ quota.day <= today /\ saved <= Limit /\ saved <= drawn
    /\ IF quota.day = today THEN drawn = quota.used + lost /\ quota.used <= Limit
       ELSE drawn = 0 /\ lost = 0 /\ saved = 0

\* What the shares hold for today, and what the lookup under way has drawn already.
Charged(c)  == IF shares.day = today THEN shares.by[c] ELSE 0
ChargedAll  == IF shares.day = today THEN shares.unknown ELSE 0
Pending(c)  == IF asker.pc = "drawn" /\ asker.client = c THEN 1 ELSE 0
PendingAll  == IF asker.pc = "drawn" THEN One ELSE 0

\* No call is missing from the shares but the one that is about to be charged, and
\* past the check there is room for it.
SharesInv ==
    /\ shares.day <= today /\ shares.unknown <= UnknownShare
    /\ \A c \in Hosts : shares.by[c] <= ClientShare /\ spent[c] <= Charged(c) + Pending(c)
    /\ strangers <= ChargedAll + PendingAll
    /\ asker.pc \in {"quota", "drawn"} =>
          Charged(asker.client) < ClientShare /\ (asker.known \/ ChargedAll < UnknownShare)

BudgetInv == BudgetTypeOK /\ today >= 1 /\ QuotaInv /\ SharesInv

-----------------------------------------------------------------------------
\* A day begins with nothing drawn.
LEMMA BudgetInitInv == BudgetInit => BudgetInv
BY BudgetAssumption
   DEF BudgetInit, BudgetInv, BudgetTypeOK, QuotaInv, SharesInv, Charged, ChargedAll, Pending, PendingAll, One,
       NoneDrawn, NoAsker, NoShares, CallsOf

\* What the quota holds for today.
LEMMA CurrentIs ==
    ASSUME BudgetTypeOK, QuotaInv
    PROVE  /\ Current = [day |-> today, used |-> Current.used, tokens |-> quota.tokens]
           /\ Current.used \in Nat /\ Current.used <= Limit /\ drawn = Current.used + lost
<1> USE BudgetAssumption DEF BudgetTypeOK, QuotaInv
<1>1. CASE quota.day = today
    <2>1. Current = quota
        BY <1>1 DEF Current
    <2> QED BY <1>1, <2>1
<1>2. CASE quota.day # today
    <2>1. Current = [quota EXCEPT !.day = today, !.used = saved]
        BY <1>2 DEF Current
    <2>2. Current = [day |-> today, used |-> saved, tokens |-> quota.tokens]
        BY <2>1
    <2> QED BY <1>2, <2>2
<1> QED BY <1>1, <1>2

\* try_acquire keeps the count, whoever calls it, before or after midnight.
LEMMA DrawKeeps ==
    ASSUME BudgetTypeOK, QuotaInv, Draw, UNCHANGED <<today, lost>>
    PROVE  /\ quota' \in [day : Nat, used : Nat, tokens : Nat] /\ saved' \in Nat /\ drawn' \in Nat
           /\ QuotaInv'
<1>1. Current.used < Limit /\ Current.tokens > 0 /\ drawn' = drawn + 1 /\ saved' \in {saved, quota'.used}
    BY DEF Draw, Allows
<1>2. quota' = [day |-> today, used |-> Current.used + 1, tokens |-> quota.tokens - 1]
    <2>1. quota' = [Current EXCEPT !.used = Current.used + 1, !.tokens = Current.tokens - 1]
        BY DEF Draw
    <2>2. PICK u, t : Current = [day |-> today, used |-> u, tokens |-> t] /\ u = Current.used /\ t = quota.tokens
        BY CurrentIs
    <2> QED BY <2>1, <2>2
<1>3. Current.tokens = quota.tokens /\ quota.tokens \in Nat
    BY CurrentIs DEF BudgetTypeOK
<1>4. quota' \in [day : Nat, used : Nat, tokens : Nat] /\ saved' \in Nat /\ drawn' \in Nat
    BY <1>1, <1>2, <1>3, CurrentIs DEF BudgetTypeOK
<1>5. quota'.day = today /\ quota'.used = Current.used + 1
    BY <1>2
<1>6. QuotaInv'
    BY <1>1, <1>5, CurrentIs, BudgetAssumption DEF BudgetTypeOK, QuotaInv
<1> QED BY <1>4, <1>6

\* So does the look at the date of a call that is refused.
LEMMA CurrentKeeps ==
    ASSUME BudgetTypeOK, QuotaInv, quota' = Current, UNCHANGED <<today, saved, drawn, lost>>
    PROVE  quota' \in [day : Nat, used : Nat, tokens : Nat] /\ QuotaInv'
<1>1. quota'.day = today /\ quota'.used = Current.used /\ quota' \in [day : Nat, used : Nat, tokens : Nat]
    BY CurrentIs DEF BudgetTypeOK
<1> QED BY <1>1, CurrentIs DEF BudgetTypeOK, QuotaInv

\* And the shares.
LEMMA RolledIs ==
    ASSUME BudgetTypeOK, today >= 1
    PROVE  /\ Rolled \in [day : Nat, by : CallsOf, unknown : Nat] /\ Rolled.day = today
           /\ \A c \in Hosts : Rolled.by[c] = Charged(c)
           /\ Rolled.unknown = ChargedAll
BY DEF Rolled, NoShares, NoneDrawn, BudgetTypeOK, CallsOf, Charged, ChargedAll

\* Every step keeps the quota and the shares.
LEMMA BudgetStep == BudgetInv /\ [BudgetNext]_budgetVars => BudgetInv'
<1> SUFFICES ASSUME BudgetInv, [BudgetNext]_budgetVars PROVE BudgetInv'
    OBVIOUS
<1> USE BudgetAssumption DEF BudgetInv, AskerAt, AskerGoto, Done
<1>1. ASSUME NEW c \in Hosts, NEW known \in BOOLEAN, Ask(c, known) PROVE BudgetInv'
    BY <1>1 DEF Ask, BudgetTypeOK, QuotaInv, SharesInv, Charged, ChargedAll, Pending, PendingAll, One, NoAsker
<1>2. CASE CheckShare
    <2>1. /\ asker \in [pc : {"share", "quota", "drawn"}, client : Hosts, known : BOOLEAN]
          /\ asker.pc = "share" /\ asker.client \in Hosts
        BY <1>2 DEF CheckShare, BudgetTypeOK, NoAsker
    <2>2. shares' = Rolled /\ UNCHANGED <<today, saved, quota, restarts, drawn, lost, spent, strangers>>
        BY <1>2 DEF CheckShare
    <2>3. \/ asker' = [asker EXCEPT !.pc = "quota"] /\ ShareLeft(Rolled)
          \/ asker' = NoAsker
        BY <1>2 DEF CheckShare
    <2>4. BudgetTypeOK'
        BY <2>1, <2>2, <2>3, RolledIs DEF BudgetTypeOK
    <2>5. QuotaInv'
        BY <2>2 DEF QuotaInv
    <2>6. /\ \A c \in Hosts : Charged(c)' = Charged(c) /\ Pending(c) = 0 /\ Pending(c)' = 0
          /\ ChargedAll' = ChargedAll /\ PendingAll = 0 /\ PendingAll' = 0
        BY <2>1, <2>2, <2>3, RolledIs DEF Charged, ChargedAll, Pending, PendingAll, NoAsker
    <2>7. asker'.pc \in {"quota", "drawn"} =>
              /\ asker'.client = asker.client /\ asker'.known = asker.known
              /\ Charged(asker.client) < ClientShare /\ (asker.known \/ ChargedAll < UnknownShare)
        BY <2>1, <2>3, RolledIs DEF ShareLeft, NoAsker
    <2>8. shares'.day <= today /\ shares'.unknown <= UnknownShare /\ \A c \in Hosts : shares'.by[c] <= ClientShare
        BY <2>2, RolledIs DEF SharesInv, Charged, ChargedAll, BudgetTypeOK
    <2> QED BY <2>1, <2>2, <2>4, <2>5, <2>6, <2>7, <2>8 DEF SharesInv
<1>3. CASE Acquire
    <2>1. /\ asker \in [pc : {"share", "quota", "drawn"}, client : Hosts, known : BOOLEAN]
          /\ asker.pc = "quota" /\ asker.client \in Hosts
        BY <1>3 DEF Acquire, BudgetTypeOK, NoAsker
    <2>2. /\ asker' = [asker EXCEPT !.pc = "drawn"] /\ UNCHANGED <<today, shares, restarts, lost>>
          /\ spent' = [spent EXCEPT ![asker.client] = @ + 1] /\ strangers' = strangers + One
        BY <1>3 DEF Acquire
    <2>3. BudgetTypeOK' /\ QuotaInv'
        BY <1>3, <2>1, <2>2, DrawKeeps DEF Acquire, BudgetTypeOK, CallsOf, One
    <2> QED BY <2>1, <2>2, <2>3 DEF SharesInv, Charged, ChargedAll, Pending, PendingAll, One, BudgetTypeOK, CallsOf
<1>4. CASE Refused
    <2>1. BudgetTypeOK' /\ QuotaInv'
        BY <1>4, CurrentKeeps DEF Refused, BudgetTypeOK
    <2> QED BY <1>4, <2>1 DEF Refused, SharesInv, Charged, ChargedAll, Pending, PendingAll, NoAsker, BudgetTypeOK
<1>5. CASE Drawn
    <2>1. /\ asker \in [pc : {"share", "quota", "drawn"}, client : Hosts, known : BOOLEAN]
          /\ asker.pc = "drawn" /\ asker.client \in Hosts /\ One \in {0, 1}
        BY <1>5 DEF Drawn, BudgetTypeOK, NoAsker, One
    <2>2. /\ shares' = [Rolled EXCEPT !.by[asker.client] = @ + 1, !.unknown = @ + One] /\ asker' = NoAsker
          /\ UNCHANGED <<today, saved, quota, restarts, drawn, lost, spent, strangers>>
        BY <1>5 DEF Drawn
    <2>3. /\ shares' \in [day : Nat, by : CallsOf, unknown : Nat] /\ shares'.day = today
          /\ \A c \in Hosts : shares'.by[c] = Charged(c) + Pending(c)
          /\ shares'.unknown = ChargedAll + PendingAll
        <3> DEFINE by == [Rolled.by EXCEPT ![asker.client] = Rolled.by[asker.client] + 1]
                   unknown == Rolled.unknown + One
        <3>1. Rolled \in [day : Nat, by : CallsOf, unknown : Nat] /\ Rolled.day = today
            BY RolledIs
        <3>2. shares' = [day |-> today, by |-> by, unknown |-> unknown]
            BY <2>2, <3>1
        <3>3. Rolled.by \in CallsOf /\ by \in CallsOf /\ unknown \in Nat
            BY <2>1, <3>1 DEF CallsOf
        <3>4. \A c \in Hosts : by[c] = Charged(c) + Pending(c)
            BY <2>1, <3>3, RolledIs DEF Pending, CallsOf
        <3>5. unknown = ChargedAll + PendingAll
            BY <2>1, RolledIs DEF PendingAll
        <3> HIDE DEF by, unknown
        <3> QED BY <3>2, <3>3, <3>4, <3>5, today \in Nat DEF BudgetTypeOK
    <2>4. BudgetTypeOK' /\ QuotaInv'
        BY <2>2, <2>3 DEF BudgetTypeOK, QuotaInv
    <2>5. /\ \A c \in Hosts : Charged(c) + Pending(c) <= ClientShare
          /\ ChargedAll + PendingAll <= UnknownShare
        BY <2>1 DEF SharesInv, Charged, ChargedAll, Pending, PendingAll, One, BudgetTypeOK, CallsOf
    <2>6. /\ \A c \in Hosts : Charged(c)' = Charged(c) + Pending(c) /\ Pending(c)' = 0
          /\ ChargedAll' = ChargedAll + PendingAll /\ PendingAll' = 0
        BY <2>2, <2>3 DEF Charged, ChargedAll, Pending, PendingAll, NoAsker
    <2>7. \A c \in Hosts : spent[c] <= Charged(c) + Pending(c)
        BY DEF SharesInv
    <2>8. strangers <= ChargedAll + PendingAll /\ shares.day <= today
        BY DEF SharesInv
    <2>9. \A c \in Hosts : Charged(c) \in Nat /\ Pending(c) \in Nat
        BY DEF Charged, Pending, BudgetTypeOK, CallsOf
    <2>10. ChargedAll \in Nat /\ PendingAll \in Nat
        BY <2>1 DEF ChargedAll, PendingAll, BudgetTypeOK
    <2>11. \A c \in Hosts : shares'.by[c] <= ClientShare /\ spent'[c] <= Charged(c)' + Pending(c)'
        BY <2>2, <2>3, <2>5, <2>6, <2>7, <2>9
    <2>12. shares'.unknown <= UnknownShare /\ strangers' <= ChargedAll' + PendingAll' /\ shares'.day <= today'
        BY <2>2, <2>3, <2>5, <2>6, <2>8, <2>10 DEF BudgetTypeOK
    <2>13. asker'.pc = "idle"
        BY <2>2 DEF NoAsker
    <2>14. SharesInv'
        BY <2>11, <2>12, <2>13 DEF SharesInv
    <2> QED BY <2>2, <2>4, <2>14
<1>6. CASE ScanDraws
    <2>1. BudgetTypeOK' /\ QuotaInv'
        BY <1>6, DrawKeeps DEF ScanDraws, BudgetTypeOK
    <2> QED BY <1>6, <2>1 DEF ScanDraws, SharesInv, Charged, ChargedAll, Pending, PendingAll, One
<1>7. CASE ScanRefused
    <2>1. BudgetTypeOK' /\ QuotaInv'
        BY <1>7, CurrentKeeps DEF ScanRefused, BudgetTypeOK
    <2> QED BY <1>7, <2>1 DEF ScanRefused, SharesInv, Charged, ChargedAll, Pending, PendingAll, One
<1>8. CASE Refill
    BY <1>8 DEF Refill, BudgetTypeOK, QuotaInv, SharesInv, Charged, ChargedAll, Pending, PendingAll, One
<1>9. CASE NewDay
    BY <1>9 DEF NewDay, BudgetTypeOK, QuotaInv, SharesInv, Charged, ChargedAll, Pending, PendingAll, One,
       NoneDrawn, CallsOf
<1>10. CASE Reload
    BY <1>10 DEF Reload, BudgetTypeOK, QuotaInv, SharesInv, Charged, ChargedAll, Pending, PendingAll, One,
       NoneDrawn, NoAsker, NoShares, CallsOf
<1>11. CASE UNCHANGED budgetVars
    BY <1>11 DEF budgetVars, BudgetTypeOK, QuotaInv, SharesInv, Charged, ChargedAll, Pending, PendingAll, One
<1> QED
    BY <1>1, <1>2, <1>3, <1>4, <1>5, <1>6, <1>7, <1>8, <1>9, <1>10, <1>11 DEF BudgetNext

\* The invariant of the quota and the shares.
THEOREM BudgetInductive == BudgetSpec => []BudgetInv
BY BudgetInitInv, BudgetStep, PTL DEF BudgetSpec

\* Every reachable state of the quota and the shares is well typed.
THEOREM BudgetTypeCorrect == BudgetSpec => []BudgetTypeOK
<1>1. BudgetInv => BudgetTypeOK
    BY DEF BudgetInv
<1> QED BY <1>1, BudgetInductive, PTL

\* try_acquire never lets a day cost more than the daily budget and what restarts
\* made it forget.
THEOREM BudgetKeptAlways == BudgetSpec => []BudgetKept
<1>1. BudgetInv => BudgetKept
    BY BudgetAssumption DEF BudgetInv, BudgetTypeOK, QuotaInv, BudgetKept
<1> QED BY <1>1, BudgetInductive, PTL

\* One client cannot use up the household's quota, although _vt_share_ok, try_acquire
\* and _vt_drawn take three different locks with midnight between any two.
THEOREM SharesKeptAlways == BudgetSpec => []SharesKept
<1>1. ASSUME BudgetInv PROVE SharesKept
    <2>1. ASSUME NEW c \in Hosts PROVE spent[c] <= ClientShare
        <3>1. spent[c] <= Charged(c) + Pending(c) /\ Charged(c) <= ClientShare /\ Charged(c) \in Nat
            BY <1>1, BudgetAssumption DEF BudgetInv, SharesInv, Charged, BudgetTypeOK, CallsOf
        <3>2. Pending(c) = 1 => Charged(c) < ClientShare
            BY <1>1 DEF BudgetInv, SharesInv, Pending
        <3> QED BY <1>1, <3>1, <3>2, BudgetAssumption DEF Pending, BudgetInv, BudgetTypeOK, CallsOf
    <2>2. strangers <= UnknownShare
        BY <1>1, BudgetAssumption DEF BudgetInv, SharesInv, ChargedAll, PendingAll, One, BudgetTypeOK, NoAsker
    <2> QED BY <2>1, <2>2 DEF SharesKept
<1> QED BY <1>1, BudgetInductive, PTL

(***************************************************************************)
(* Reputation.  A slot is counted in three places, the lane, the threads   *)
(* and the worker; every step moves it from one to the next.  What a       *)
(* client has in a lane is counted by index, so the lemmas say what a name *)
(* that joins or leaves the sequence changes, and what an offer does.      *)
(***************************************************************************)

\* The three parts of Held: names of client c in the sequence s, offers o of c that hold a
\* slot in lane l, and the worker's w.
Queued(s, c)     == Cardinality({i \in DOMAIN s : s[i].client = c})
Offered(o, l, c) == Cardinality({t \in Threads : /\ o[t].pc = "slot" /\ o[t].lane = l
                                                 /\ o[t].client = c})
Taken(w, l, c)   == IF w.pc = "taken" /\ w.lane = l /\ w.client = c THEN 1 ELSE 0
If(b)            == IF b THEN 1 ELSE 0

\* A name that joins the end of a sequence counts for its client.
LEMMA QueuedAppend ==
    ASSUME NEW s \in Seq(Items), NEW e \in Items, NEW c
    PROVE  /\ Queued(s, c) \in Nat /\ Queued(Append(s, e), c) \in Nat
           /\ Queued(Append(s, e), c) = Queued(s, c) + If(e.client = c)
<1> DEFINE A == {i \in DOMAIN s : s[i].client = c}
           n == Len(s) + 1
           B == {i \in DOMAIN Append(s, e) : Append(s, e)[i].client = c}
<1>1. IsFiniteSet(A)
    <2>1. IsFiniteSet(1..Len(s)) /\ A \subseteq 1..Len(s)
        BY FS_Interval
    <2> QED BY <2>1, FS_Subset
<1>2. n \notin A
    OBVIOUS
<1>3. /\ DOMAIN Append(s, e) = 1..n /\ DOMAIN s = 1..Len(s) /\ Append(s, e)[n] = e
      /\ \A i \in 1..Len(s) : Append(s, e)[i] = s[i]
    OBVIOUS
<1>4. B = IF e.client = c THEN A \cup {n} ELSE A
    <2>1. \A i \in 1..n : i = n \/ i \in 1..Len(s)
        OBVIOUS
    <2> HIDE DEF n
    <2>2. n \notin 1..Len(s) /\ n \in 1..n /\ 1..Len(s) \subseteq 1..n
        BY DEF n
    <2> QED BY <1>3, <2>1, <2>2
<1>5. Cardinality(A) \in Nat /\ Cardinality(A \cup {n}) = Cardinality(A) + 1
    BY <1>1, <1>2, FS_AddElement, FS_CardinalityType
<1> HIDE DEF A, B, n
<1>6. Queued(s, c) = Cardinality(A) /\ Queued(Append(s, e), c) = Cardinality(B)
    BY DEF Queued, A, B
<1> QED BY <1>4, <1>5, <1>6 DEF If

\* One that leaves from the front no longer does.
LEMMA QueuedTail ==
    ASSUME NEW s \in Seq(Items), s # <<>>, NEW c
    PROVE  /\ Queued(s, c) \in Nat /\ Queued(Tail(s), c) \in Nat
           /\ Queued(s, c) = Queued(Tail(s), c) + If(Head(s).client = c)
<1> DEFINE A == {i \in DOMAIN s : s[i].client = c}
           B == {i \in DOMAIN Tail(s) : Tail(s)[i].client = c}
           up == [i \in B |-> i + 1]
<1>1. /\ DOMAIN s = 1..Len(s) /\ Len(s) \in Nat /\ Len(s) >= 1 /\ Head(s) = s[1]
      /\ DOMAIN Tail(s) = 1..(Len(s) - 1) /\ \A i \in 1..(Len(s) - 1) : Tail(s)[i] = s[i + 1]
    OBVIOUS
<1>2. IsFiniteSet(A)
    <2>1. IsFiniteSet(1..Len(s)) /\ A \subseteq 1..Len(s)
        BY <1>1, FS_Interval
    <2> QED BY <2>1, FS_Subset
<1>3. B \subseteq Nat /\ \A i \in B : i + 1 \in A \ {1}
    BY <1>1
<1>4. \A j \in A \ {1} : j - 1 \in B /\ (j - 1) + 1 = j
    <2>1. ASSUME NEW j \in A \ {1} PROVE j - 1 \in B /\ (j - 1) + 1 = j
        <3>1. j \in Nat /\ j >= 2 /\ j <= Len(s) /\ s[j].client = c
            BY <1>1
        <3>2. j - 1 \in 1..(Len(s) - 1) /\ (j - 1) + 1 = j
            BY <1>1, <3>1
        <3> QED BY <1>1, <3>1, <3>2
    <2> QED BY <2>1
<1>5. /\ up \in [B -> A \ {1}] /\ \A i, j \in B : up[i] = up[j] => i = j
      /\ \A j \in A \ {1} : up[j - 1] = j
    <2>1. up \in [B -> A \ {1}]
        BY <1>3
    <2>2. \A i \in B : up[i] = i + 1 /\ i \in Nat
        BY <1>3
    <2> HIDE DEF up, A, B
    <2> QED BY <1>4, <2>1, <2>2
<1> HIDE DEF up, A, B
<1>6. up \in Bijection(B, A \ {1})
    <2>1. up \in Injection(B, A \ {1})
        BY <1>5, Fun_IsInj
    <2>2. up \in Surjection(B, A \ {1})
        BY <1>4, <1>5, Fun_IsSurj
    <2> QED BY <2>1, <2>2 DEF Bijection
<1>7. IsFiniteSet(A \ {1}) /\ IsFiniteSet(B)
    <2>1. IsFiniteSet(A \ {1})
        BY <1>2, FS_Subset
    <2>2. up \in Injection(B, A \ {1})
        BY <1>6 DEF Bijection
    <2> QED BY <2>1, <2>2, FS_Injection
<1>8. Cardinality(B) = Cardinality(A \ {1}) /\ Cardinality(A) \in Nat /\ Cardinality(A \ {1}) \in Nat
    <2>1. ExistsBijection(B, A \ {1})
        BY <1>6 DEF ExistsBijection
    <2> QED BY <1>2, <1>7, <2>1, FS_Bijection, FS_CardinalityType
<1>9. 1 \in A <=> Head(s).client = c
    BY <1>1 DEF A
<1>12. Queued(s, c) = Cardinality(A) /\ Queued(Tail(s), c) = Cardinality(B)
    BY DEF Queued, A, B
<1>10. CASE 1 \in A
    <2>1. Cardinality(A \ {1}) = Cardinality(A) - 1
        BY <1>2, <1>10, FS_RemoveElement
    <2> QED BY <1>8, <1>9, <1>10, <1>12, <2>1 DEF If
<1>11. CASE 1 \notin A
    <2>1. Cardinality(A \ {1}) = Cardinality(A)
        <3>1. A \ {1} = A
            BY <1>11
        <3> QED BY <3>1
    <2> QED BY <1>8, <1>9, <1>11, <1>12, <2>1 DEF If
<1> QED BY <1>10, <1>11

\* What an offer counts for in a lane: one if it holds a slot there.
Slot(o, l, c) == IF o.pc = "slot" /\ o.lane = l /\ o.client = c THEN 1 ELSE 0

\* A thread that changes its offer changes the count by the difference.
LEMMA OfferedBut ==
    ASSUME NEW t \in Threads, NEW l, NEW c,
           \A u \in Threads : u # t => offer'[u] = offer[u]
    PROVE  /\ Offered(offer, l, c) \in Nat /\ Offered(offer', l, c) \in Nat
           /\ Offered(offer', l, c) + Slot(offer[t], l, c)
                 = Offered(offer, l, c) + Slot(offer'[t], l, c)
<1> DEFINE A == {u \in Threads : Slot(offer[u], l, c) = 1}
           B == {u \in Threads : Slot(offer'[u], l, c) = 1}
           R == A \ {t}
<1>1. R = B \ {t} /\ t \notin R
    OBVIOUS
<1>2. (t \in A <=> Slot(offer[t], l, c) = 1) /\ (t \in B <=> Slot(offer'[t], l, c) = 1)
    OBVIOUS
<1>3. IsFiniteSet(A) /\ IsFiniteSet(B) /\ IsFiniteSet(R)
    BY FS_Subset, ReputationAssumption
<1>4. Cardinality(A) \in Nat /\ Cardinality(B) \in Nat /\ Cardinality(R) \in Nat
    BY <1>3, FS_CardinalityType
<1>5. Offered(offer, l, c) = Cardinality(A) /\ Offered(offer', l, c) = Cardinality(B)
    <2>1. /\ A = {u \in Threads : offer[u].pc = "slot" /\ offer[u].lane = l /\ offer[u].client = c}
          /\ B = {u \in Threads : offer'[u].pc = "slot" /\ offer'[u].lane = l /\ offer'[u].client = c}
        BY DEF Slot
    <2> HIDE DEF A, B
    <2> QED BY <2>1 DEF Offered
<1> HIDE DEF A, B, R
<1>6. /\ t \in A => Cardinality(A) = Cardinality(R) + 1
      /\ t \notin A => Cardinality(A) = Cardinality(R)
    <2>1. CASE t \in A
        <3>1. Cardinality(R) = Cardinality(A) - 1
            BY <1>3, <2>1, FS_RemoveElement DEF R
        <3> QED BY <1>4, <2>1, <3>1
    <2>2. CASE t \notin A
        <3>1. R = A
            BY <2>2 DEF R
        <3> QED BY <2>2, <3>1
    <2> QED BY <2>1, <2>2
<1>7. /\ t \in B => Cardinality(B) = Cardinality(R) + 1
      /\ t \notin B => Cardinality(B) = Cardinality(R)
    <2>1. CASE t \in B
        <3>1. Cardinality(R) = Cardinality(B) - 1
            BY <1>1, <1>3, <2>1, FS_RemoveElement
        <3> QED BY <1>4, <2>1, <3>1
    <2>2. CASE t \notin B
        <3>1. R = B
            BY <1>1, <2>2
        <3> QED BY <2>2, <3>1
    <2> QED BY <2>1, <2>2
<1>8. Slot(offer[t], l, c) \in {0, 1} /\ Slot(offer'[t], l, c) \in {0, 1}
    BY DEF Slot
<1> QED BY <1>2, <1>4, <1>5, <1>6, <1>7, <1>8

-----------------------------------------------------------------------------
\* The lanes need no more than their types to be kept in balance.
IInv == TypeOK /\ LanesBalance /\ SeenIsCarried

\* Offers and pieces of work that are under way.
Offers == [pc : {"marked", "slot"}, name : Names, client : Clients, lane : Lanes]
Works  == [pc : {"taken", "lookup", "judge"}, name : Names, client : Clients, lane : Lanes,
           verdict : Verdicts]

\* Held is the sum of its parts.
LEMMA HeldParts ==
    ASSUME NEW l, NEW c
    PROVE  Held(l, c) = Queued(lanes[l], c) + Offered(offer, l, c) + Taken(work, l, c)
BY DEF Held, Queued, Offered, Taken

\* An offer or a piece of work that is under way is one of its kind.
LEMMA Kinds ==
    ASSUME TypeOK
    PROVE  /\ DOMAIN offer = Threads
           /\ \A t \in Threads : offer[t].pc # "idle" => offer[t] \in Offers
           /\ \A t \in Threads : offer[t].pc \in {"idle", "marked", "slot"}
           /\ work.pc # "idle" => work \in Works
           /\ \A n \in Names : work = NoWork => work.name # n
BY ReputationAssumption DEF TypeOK, NoOffer, NoWork, Offers, Works

\* Lanes, offers and the worker's item add up to a number.
LEMMA PartsAreNumbers ==
    ASSUME TypeOK, NEW l \in Lanes, NEW c
    PROVE  /\ Queued(lanes[l], c) \in Nat /\ Offered(offer, l, c) \in Nat
           /\ Taken(work, l, c) \in {0, 1}
<1>1. lanes[l] \in Seq(Items)
    BY DEF TypeOK
<1>2. Queued(lanes[l], c) \in Nat
    <2>1. CASE lanes[l] = <<>>
        <3>1. {i \in DOMAIN lanes[l] : lanes[l][i].client = c} = {}
            BY <2>1
        <3> QED BY <3>1, FS_EmptySet DEF Queued
    <2>2. CASE lanes[l] # <<>>
        BY <1>1, <2>2, QueuedTail
    <2> QED BY <2>1, <2>2
<1>3. Offered(offer, l, c) \in Nat
    <2>1. IsFiniteSet({t \in Threads : offer[t].pc = "slot" /\ offer[t].lane = l /\ offer[t].client = c})
        BY FS_Subset, ReputationAssumption
    <2> QED BY <2>1, FS_CardinalityType DEF Offered
<1> QED BY <1>2, <1>3 DEF Taken

\* It begins with nothing waiting.
LEMMA InitInv == Init => IInv
<1> SUFFICES ASSUME Init PROVE IInv
    OBVIOUS
<1> USE DEF Init
<1>1. TypeOK
    BY ReputationAssumption DEF TypeOK, Lanes, NoSlots, NonePending
<1>2. ASSUME NEW l \in Lanes, NEW c \in Clients
      PROVE  slots[l][c] = 0 /\ Held(l, c) = 0
    <2>1. Queued(lanes[l], c) = 0
        <3>1. {i \in DOMAIN lanes[l] : lanes[l][i].client = c} = {}
            OBVIOUS
        <3> QED BY <3>1, FS_EmptySet DEF Queued
    <2>2. Offered(offer, l, c) = 0
        <3>1. {t \in Threads : offer[t].pc = "slot" /\ offer[t].lane = l /\ offer[t].client = c} = {}
            BY DEF NoOffer
        <3> QED BY <3>1, FS_EmptySet DEF Offered
    <2>3. Taken(work, l, c) = 0
        BY DEF Taken, NoWork
    <2>4. Held(l, c) = 0
        BY <2>1, <2>2, <2>3, HeldParts
    <2>5. slots[l][c] = 0
        BY DEF NoSlots, NonePending
    <2> QED BY <2>4, <2>5
<1>3. LanesBalance
    <2>1. Len(lanes.shared) = 0
        BY DEF Lanes
    <2>2. \A c \in Clients : slots.known[c] = 0 /\ slots.shared[c] = 0
        BY <1>2 DEF NoSlots, NonePending, Lanes
    <2> QED BY <1>2, <2>1, <2>2, ReputationAssumption DEF LanesBalance
<1>4. SeenIsCarried
    BY DEF SeenIsCarried
<1> QED BY <1>1, <1>3, <1>4 DEF IInv

\* A step keeps the lanes in balance if it changes the slots by what it changes the parts.
LEMMA Balances ==
    ASSUME LanesBalance, TypeOK',
           \A l \in Lanes, c \in Clients :
               slots'[l][c] = Queued(lanes'[l], c) + Offered(offer', l, c) + Taken(work', l, c),
           \A c \in Clients : slots'.known[c] <= KnownMax /\ slots'.shared[c] <= ClientMax,
           Len(lanes'.shared) <= QueueMax
    PROVE  LanesBalance'
<1>1. \A l, c : Held(l, c)' = Queued(lanes'[l], c) + Offered(offer', l, c) + Taken(work', l, c)
    BY DEF Held, Queued, Offered, Taken
<1> QED BY <1>1 DEF LanesBalance

\* What LanesBalance says of the parts.
LEMMA Balanced ==
    ASSUME LanesBalance
    PROVE  \A l \in Lanes, c \in Clients :
               slots[l][c] = Queued(lanes[l], c) + Offered(offer, l, c) + Taken(work, l, c)
BY HeldParts DEF LanesBalance

\* should_lookup: the mark comes with an offer.
LEMMA MarkStep ==
    ASSUME IInv, NEW t \in Threads, NEW n \in Names, NEW c \in Clients, Mark(t, n, c)
    PROVE  IInv'
<1> USE DEF IInv
<1> DEFINE new == [pc |-> "marked", name |-> n, client |-> c, lane |-> "shared"]
<1>1. /\ offer[t].pc = "idle" /\ seen' = [seen EXCEPT ![n] = "day"]
      /\ offer' = [offer EXCEPT ![t] = new]
      /\ UNCHANGED <<inventory, lanes, slots, work, judged>>
    BY DEF Mark
<1>2. new \in Offers /\ new.pc = "marked" /\ new.name = n
    BY DEF Offers, Lanes
<1> HIDE DEF new
<1>3. TypeOK'
    BY <1>1, <1>2 DEF TypeOK, Offers
<1>4. LanesBalance'
    <2>1. ASSUME NEW l \in Lanes, NEW d \in Clients
          PROVE  slots'[l][d] = Queued(lanes'[l], d) + Offered(offer', l, d) + Taken(work', l, d)
        <3>1. Slot(offer[t], l, d) = 0 /\ Slot(new, l, d) = 0
            BY <1>1, <1>2 DEF Slot
        <3>2. Offered(offer', l, d) = Offered(offer, l, d)
            <4>1. offer'[t] = new /\ \A u \in Threads : u # t => offer'[u] = offer[u]
                BY <1>1, Kinds
            <4>2. /\ Offered(offer, l, d) \in Nat /\ Offered(offer', l, d) \in Nat
                  /\ Offered(offer', l, d) + Slot(offer[t], l, d)
                        = Offered(offer, l, d) + Slot(new, l, d)
                BY <4>1, OfferedBut
            <4> QED BY <3>1, <4>2
        <3> QED BY <1>1, <3>2, Balanced
    <2> QED BY <1>1, <1>3, <2>1, Balances DEF LanesBalance
<1>5. SeenIsCarried'
    <2>1. offer'[t].pc = "marked" /\ offer'[t].name = n /\ \A u \in Threads \ {t} : offer'[u] = offer[u]
        BY <1>1, <1>2, Kinds
    <2>2. Carried(n)'
        BY <2>1 DEF Carried
    <2>3. \A m \in Names : Carried(m) => Carried(m)'
        BY <1>1, <2>1 DEF Carried
    <2>4. \A m \in Names : m # n => seen'[m] = seen[m]
        BY <1>1 DEF TypeOK
    <2> QED BY <1>1, <2>2, <2>3, <2>4 DEF SeenIsCarried
<1> QED BY <1>3, <1>4, <1>5

\* The lane that is chosen has room for the client.
LEMMA LaneForFits ==
    ASSUME TypeOK, NEW c \in Clients, LaneFor(c) # None
    PROVE  /\ LaneFor(c) \in Lanes
           /\ LaneFor(c) = "known" => slots.known[c] < KnownMax
           /\ LaneFor(c) = "shared" => slots.shared[c] < ClientMax
BY DEF LaneFor, Lanes

\* An offer that takes a slot stays what it was.
LEMMA WithSlot ==
    ASSUME NEW o \in Offers, NEW l
    PROVE  [[o EXCEPT !.pc = "slot"] EXCEPT !.lane = l]
              = [pc |-> "slot", name |-> o.name, client |-> o.client, lane |-> l]
<1>1. PICK p, n, c, k : o = [pc |-> p, name |-> n, client |-> c, lane |-> k]
    BY DEF Offers
<1>2. PICK r : r = [o EXCEPT !.pc = "slot"]
    OBVIOUS
<1>3. r = [pc |-> "slot", name |-> n, client |-> c, lane |-> k]
    BY <1>1, <1>2
<1>4. [r EXCEPT !.lane = l] = [pc |-> "slot", name |-> n, client |-> c, lane |-> l]
    BY <1>3
<1>5. o.name = n /\ o.client = c
    BY <1>1
<1> QED BY <1>2, <1>4, <1>5

\* A slot for the offer, or the mark goes.
LEMMA TakeSlotStep ==
    ASSUME IInv, NEW t \in Threads, TakeSlot(t)
    PROVE  IInv'
<1> USE DEF IInv
<1> DEFINE o == offer[t]
<1>1. o \in Offers /\ o.pc = "marked" /\ UNCHANGED <<inventory, lanes, work>>
    BY Kinds DEF TakeSlot
<1>2. o.client \in Clients /\ o.name \in Names
    BY <1>1 DEF Offers
<1>3. CASE LaneFor(o.client) = None
    <2>1. /\ seen' = [seen EXCEPT ![o.name] = "no"] /\ judged' = judged \ {o.name}
          /\ offer' = [offer EXCEPT ![t] = NoOffer] /\ slots' = slots
        BY <1>3 DEF TakeSlot, Drop
    <2>2. TypeOK'
        BY <1>1, <1>2, <2>1 DEF TypeOK
    <2>3. LanesBalance'
        <3>1. ASSUME NEW l \in Lanes, NEW d \in Clients
              PROVE  slots'[l][d] = Queued(lanes'[l], d) + Offered(offer', l, d) + Taken(work', l, d)
            <4>1. Slot(o, l, d) = 0 /\ Slot(NoOffer, l, d) = 0
                BY <1>1 DEF Slot, NoOffer
            <4>2. Offered(offer', l, d) = Offered(offer, l, d)
                <5>1. offer'[t] = NoOffer /\ \A u \in Threads : u # t => offer'[u] = offer[u]
                    BY <2>1, Kinds
                <5>2. /\ Offered(offer, l, d) \in Nat /\ Offered(offer', l, d) \in Nat
                      /\ Offered(offer', l, d) + Slot(offer[t], l, d)
                            = Offered(offer, l, d) + Slot(NoOffer, l, d)
                    BY <5>1, OfferedBut
                <5> QED BY <4>1, <5>2
            <4> QED BY <1>1, <2>1, <4>2, Balanced
        <3> QED BY <1>1, <2>1, <2>2, <3>1, Balances DEF LanesBalance
    <2>4. SeenIsCarried'
        <3>1. \A u \in Threads \ {t} : offer'[u] = offer[u]
            BY <2>1, Kinds
        <3>2. \A m \in Names : m # o.name /\ Carried(m) => Carried(m)'
            BY <1>1, <3>1 DEF Carried
        <3>3. seen'[o.name] = "no" /\ \A m \in Names : m # o.name => seen'[m] = seen[m]
            BY <1>2, <2>1 DEF TypeOK
        <3> QED BY <2>1, <3>2, <3>3 DEF SeenIsCarried
    <2> QED BY <2>2, <2>3, <2>4
<1>4. CASE LaneFor(o.client) # None
    <2> DEFINE lane == LaneFor(o.client)
               new == [pc |-> "slot", name |-> o.name, client |-> o.client, lane |-> lane]
    <2>1. /\ slots' = [slots EXCEPT ![lane][o.client] = @ + 1]
          /\ offer' = [offer EXCEPT ![t].pc = "slot", ![t].lane = lane] /\ UNCHANGED <<seen, judged>>
        BY <1>4 DEF TakeSlot
    <2>2. lane \in Lanes /\ (lane = "known" => slots.known[o.client] < KnownMax)
          /\ (lane = "shared" => slots.shared[o.client] < ClientMax)
        BY <1>2, <1>4, LaneForFits
    <2> HIDE DEF lane
    <2>3. offer' = [offer EXCEPT ![t] = new]
        <3>1. [[o EXCEPT !.pc = "slot"] EXCEPT !.lane = lane] = new
            BY <1>1, WithSlot
        <3> QED BY <2>1, <3>1, Kinds
    <2>4. new \in Offers /\ new.pc = "slot" /\ new.name = o.name /\ new.client = o.client /\ new.lane = lane
        BY <1>2, <2>2 DEF Offers
    <2> HIDE DEF new, o
    <2>5. /\ slots' \in [Lanes -> [Clients -> Nat]]
          /\ slots'[lane][o.client] = slots[lane][o.client] + 1
          /\ \A l \in Lanes, d \in Clients : l # lane \/ d # o.client => slots'[l][d] = slots[l][d]
        BY <1>2, <2>1, <2>2 DEF TypeOK
    <2>6. TypeOK'
        <3>1. offer' \in [Threads -> {NoOffer} \cup Offers]
            BY <2>3, <2>4 DEF TypeOK, Offers
        <3> QED BY <1>1, <2>1, <2>5, <3>1 DEF TypeOK, Offers
    <2>7. LanesBalance'
        <3>1. ASSUME NEW l \in Lanes, NEW d \in Clients
              PROVE  slots'[l][d] = Queued(lanes'[l], d) + Offered(offer', l, d) + Taken(work', l, d)
            <4>1. slots[l][d] = Queued(lanes'[l], d) + Offered(offer, l, d) + Taken(work', l, d)
                BY <1>1, Balanced
            <4>2. Queued(lanes'[l], d) \in Nat /\ Offered(offer, l, d) \in Nat /\ Taken(work', l, d) \in Nat
                BY <1>1, PartsAreNumbers
            <4>3. Offered(offer', l, d) = Offered(offer, l, d) + Slot(new, l, d)
                <5>1. Slot(o, l, d) = 0 /\ Slot(new, l, d) \in {0, 1}
                    BY <1>1 DEF Slot
                <5>2. offer'[t] = new /\ \A u \in Threads : u # t => offer'[u] = offer[u]
                    BY <2>3, Kinds
                <5>3. /\ Offered(offer', l, d) \in Nat
                      /\ Offered(offer', l, d) + Slot(o, l, d) = Offered(offer, l, d) + Slot(new, l, d)
                    BY <5>2, OfferedBut DEF o
                <5> QED BY <4>2, <5>1, <5>3
            <4>4. slots'[l][d] = slots[l][d] + Slot(new, l, d) /\ slots[l][d] \in Nat
                <5>1. slots[l][d] \in Nat
                    BY DEF TypeOK
                <5> QED BY <2>4, <2>5, <5>1 DEF Slot
            <4>5. Slot(new, l, d) \in Nat
                BY DEF Slot
            <4> QED BY <4>1, <4>2, <4>3, <4>4, <4>5
        <3>2. ASSUME NEW d \in Clients
              PROVE  slots'.known[d] <= KnownMax /\ slots'.shared[d] <= ClientMax
            <4>1. slots["known"][d] \in Nat /\ slots["shared"][d] \in Nat
                BY DEF TypeOK, Lanes
            <4>2. \/ slots'["known"][d] = slots["known"][d]
                  \/ /\ lane = "known" /\ d = o.client
                     /\ slots'["known"][d] = slots["known"][d] + 1
                BY <2>5 DEF Lanes
            <4>3. \/ slots'["shared"][d] = slots["shared"][d]
                  \/ /\ lane = "shared" /\ d = o.client
                     /\ slots'["shared"][d] = slots["shared"][d] + 1
                BY <2>5 DEF Lanes
            <4>4. slots.known[d] <= KnownMax /\ slots.shared[d] <= ClientMax
                BY DEF LanesBalance
            <4> QED BY <2>2, <4>1, <4>2, <4>3, <4>4, ReputationAssumption
        <3> QED BY <1>1, <2>6, <3>1, <3>2, Balances DEF LanesBalance
    <2>8. SeenIsCarried'
        <3>1. offer'[t].pc # "idle" /\ offer'[t].name = o.name /\ \A u \in Threads \ {t} : offer'[u] = offer[u]
            BY <2>3, <2>4, Kinds
        <3>2. \A m \in Names : Carried(m) => Carried(m)'
            BY <1>1, <3>1 DEF Carried, o
        <3> QED BY <2>1, <3>2 DEF SeenIsCarried
    <2> QED BY <2>6, <2>7, <2>8
<1> QED BY <1>3, <1>4

\* An offer that ends: its thread holds no slot any more, the others' offers stay.
LEMMA OfferEnds ==
    ASSUME TypeOK, NEW t \in Threads, offer' = [offer EXCEPT ![t] = NoOffer]
    PROVE  /\ offer'[t] = NoOffer /\ \A u \in Threads : u # t => offer'[u] = offer[u]
           /\ offer' \in [Threads -> {NoOffer} \cup Offers]
           /\ \A l, c : /\ Offered(offer, l, c) \in Nat /\ Offered(offer', l, c) \in Nat
                        /\ Offered(offer, l, c) = Offered(offer', l, c) + Slot(offer[t], l, c)
<1>1. /\ offer'[t] = NoOffer /\ \A u \in Threads : u # t => offer'[u] = offer[u]
      /\ offer' \in [Threads -> {NoOffer} \cup Offers]
    BY DEF TypeOK, Offers
<1>2. ASSUME NEW l, NEW c
      PROVE  /\ Offered(offer, l, c) \in Nat /\ Offered(offer', l, c) \in Nat
             /\ Offered(offer, l, c) = Offered(offer', l, c) + Slot(offer[t], l, c)
    <2>1. /\ Offered(offer, l, c) \in Nat /\ Offered(offer', l, c) \in Nat
          /\ Offered(offer', l, c) + Slot(offer[t], l, c)
                = Offered(offer, l, c) + Slot(offer'[t], l, c)
        <3>1. \A u \in Threads : u # t => offer'[u] = offer[u]
            BY <1>1
        <3> QED BY <3>1, OfferedBut
    <2>2. Slot(offer'[t], l, c) = 0
        BY <1>1 DEF Slot, NoOffer
    <2>3. Offered(offer', l, c) + Slot(offer[t], l, c) = Offered(offer, l, c)
        BY <2>1, <2>2
    <2> QED BY <2>1, <2>3
<1> QED BY <1>1, <1>2

\* The name's slot moves from the thread to the lane.
LEMMA PutStep ==
    ASSUME IInv, NEW t \in Threads, Put(t)
    PROVE  IInv'
<1> USE DEF IInv
<1> DEFINE o == offer[t]
           e == [name |-> o.name, client |-> o.client]
<1>1. /\ o \in Offers /\ o.pc = "slot" /\ (o.lane = "known" \/ Len(lanes.shared) < QueueMax)
      /\ lanes' = [lanes EXCEPT ![o.lane] = Append(@, e)]
      /\ offer' = [offer EXCEPT ![t] = NoOffer]
      /\ UNCHANGED <<inventory, seen, slots, work, judged>>
    BY Kinds DEF Put
<1>2. o.client \in Clients /\ o.name \in Names /\ o.lane \in Lanes /\ e \in Items
    BY <1>1 DEF Offers, Items
<1>3. e.name = o.name /\ e.client = o.client
    OBVIOUS
<1> HIDE DEF e
<1>4. /\ lanes' \in [Lanes -> Seq(Items)] /\ lanes'[o.lane] = Append(lanes[o.lane], e)
      /\ lanes[o.lane] \in Seq(Items) /\ \A l \in Lanes : l # o.lane => lanes'[l] = lanes[l]
    BY <1>1, <1>2 DEF TypeOK
<1>5. TypeOK'
    BY <1>1, <1>4, OfferEnds DEF TypeOK, Offers
<1>6. LanesBalance'
    <2>1. ASSUME NEW l \in Lanes, NEW d \in Clients
          PROVE  slots'[l][d] = Queued(lanes'[l], d) + Offered(offer', l, d) + Taken(work', l, d)
        <3>1. slots'[l][d] = Queued(lanes[l], d) + Offered(offer, l, d) + Taken(work', l, d)
            BY <1>1, Balanced
        <3>2. Queued(lanes[l], d) \in Nat /\ Taken(work', l, d) \in Nat
            BY <1>1, PartsAreNumbers
        <3>3. /\ Offered(offer, l, d) \in Nat /\ Offered(offer', l, d) \in Nat
              /\ Offered(offer, l, d) = Offered(offer', l, d) + Slot(o, l, d)
            <4>1. \A k, c : /\ Offered(offer, k, c) \in Nat /\ Offered(offer', k, c) \in Nat
                            /\ Offered(offer, k, c) = Offered(offer', k, c) + Slot(offer[t], k, c)
                BY <1>1, OfferEnds
            <4> QED BY <4>1
        <3>4. Queued(lanes'[l], d) = Queued(lanes[l], d) + Slot(o, l, d)
            <4>1. CASE l = o.lane
                <5>0. Queued(Append(lanes[o.lane], e), d) = Queued(lanes[o.lane], d) + If(e.client = d)
                    BY <1>2, <1>4, QueuedAppend
                <5>1. Queued(lanes'[l], d) = Queued(lanes[l], d) + If(e.client = d)
                    BY <1>4, <4>1, <5>0
                <5>2. If(e.client = d) = Slot(o, l, d)
                    BY <1>1, <1>3, <4>1 DEF If, Slot
                <5> QED BY <5>1, <5>2
            <4>2. CASE l # o.lane
                <5>1. Slot(o, l, d) = 0 /\ lanes'[l] = lanes[l]
                    BY <1>4, <4>2 DEF Slot
                <5> QED BY <3>2, <5>1
            <4> QED BY <4>1, <4>2
        <3>5. Slot(o, l, d) \in Nat
            BY DEF Slot
        <3> QED BY <3>1, <3>2, <3>3, <3>4, <3>5
    <2>2. Len(lanes'.shared) <= QueueMax
        <3>1. CASE o.lane = "shared"
            <4>1. Len(Append(lanes[o.lane], e)) = Len(lanes[o.lane]) + 1 /\ Len(lanes[o.lane]) \in Nat
                BY <1>4
            <4>2. lanes'.shared = Append(lanes[o.lane], e) /\ lanes[o.lane] = lanes.shared
                BY <1>4, <3>1
            <4> QED BY <1>1, <3>1, <4>1, <4>2, ReputationAssumption
        <3>2. CASE o.lane # "shared"
            BY <1>4, <3>2 DEF Lanes, LanesBalance
        <3> QED BY <3>1, <3>2
    <2> QED BY <1>1, <1>5, <2>1, <2>2, Balances DEF LanesBalance
<1>7. SeenIsCarried'
    <2>1. offer'[t].pc = "idle" /\ \A u \in Threads : u # t => offer'[u] = offer[u]
        BY <1>1, OfferEnds DEF NoOffer
    <2>2. ASSUME NEW m \in Names, Carried(m) PROVE Carried(m)'
        <3>1. CASE \E l \in Lanes : \E i \in DOMAIN lanes[l] : lanes[l][i].name = m
            <4>0. PICK l \in Lanes : \E i \in DOMAIN lanes[l] : lanes[l][i].name = m
                BY <3>1
            <4>1. PICK i \in DOMAIN lanes[l] : lanes[l][i].name = m
                BY <4>0
            <4>2. i \in DOMAIN lanes'[l] /\ lanes'[l][i] = lanes[l][i]
                <5>1. CASE l = o.lane
                    <6>1. i \in DOMAIN Append(lanes[l], e) /\ Append(lanes[l], e)[i] = lanes[l][i]
                        BY <1>4, <5>1
                    <6> QED BY <1>4, <5>1, <6>1
                <5>2. CASE l # o.lane
                    BY <1>4, <5>2
                <5> QED BY <5>1, <5>2
            <4> QED BY <4>1, <4>2 DEF Carried
        <3>2. CASE m = o.name
            <4>1. PICK n : n = Len(lanes[o.lane]) + 1
                OBVIOUS
            <4>2. n \in DOMAIN lanes'[o.lane] /\ lanes'[o.lane][n] = e
                BY <1>2, <1>4, <4>1
            <4> QED BY <1>2, <1>3, <3>2, <4>2 DEF Carried
        <3>3. CASE \E u \in Threads : u # t /\ offer[u].pc # "idle" /\ offer[u].name = m
            BY <2>1, <3>3 DEF Carried
        <3>4. CASE work.pc # "idle" /\ work.name = m
            BY <1>1, <3>4 DEF Carried
        <3> QED BY <2>2, <3>1, <3>2, <3>3, <3>4 DEF Carried
    <2> QED BY <1>1, <2>2 DEF SeenIsCarried
<1> QED BY <1>5, <1>6, <1>7

\* Whoever holds a slot can give it back.
LEMMA Frees ==
    ASSUME TypeOK, NEW l \in Lanes, NEW c \in Clients, slots[l][c] >= 1, Free(l, c)
    PROVE  /\ slots' \in [Lanes -> [Clients -> Nat]]
           /\ \A k \in Lanes, d \in Clients :
                 slots'[k][d] = IF k = l /\ d = c THEN slots[k][d] - 1 ELSE slots[k][d]
BY DEF Free, TypeOK

\* No room: the slot and the mark go.
LEMMA PutFullStep ==
    ASSUME IInv, NEW t \in Threads, PutFull(t)
    PROVE  IInv'
<1> USE DEF IInv
<1> DEFINE o == offer[t]
<1>1. /\ o \in Offers /\ o.pc = "slot" /\ o.lane = "shared"
      /\ seen' = [seen EXCEPT ![o.name] = "no"] /\ judged' = judged \ {o.name}
      /\ Free("shared", o.client) /\ offer' = [offer EXCEPT ![t] = NoOffer]
      /\ UNCHANGED <<inventory, lanes, work>>
    BY Kinds DEF PutFull, Drop
<1>2. o.client \in Clients /\ o.name \in Names /\ "shared" \in Lanes
    BY <1>1 DEF Offers, Lanes
<1>3. slots["shared"][o.client] >= 1
    <2>1. slots["shared"][o.client] = Queued(lanes["shared"], o.client)
              + Offered(offer, "shared", o.client) + Taken(work, "shared", o.client)
        BY <1>2, Balanced
    <2>2. Offered(offer, "shared", o.client) = Offered(offer', "shared", o.client) + Slot(o, "shared", o.client)
          /\ Offered(offer', "shared", o.client) \in Nat
        <3>1. \A l, c : /\ Offered(offer, l, c) \in Nat /\ Offered(offer', l, c) \in Nat
                        /\ Offered(offer, l, c) = Offered(offer', l, c) + Slot(offer[t], l, c)
            BY <1>1, OfferEnds
        <3> QED BY <3>1
    <2>3. Slot(o, "shared", o.client) = 1
        BY <1>1 DEF Slot
    <2>4. Queued(lanes["shared"], o.client) \in Nat /\ Taken(work, "shared", o.client) \in Nat
        BY <1>2, PartsAreNumbers
    <2> QED BY <2>1, <2>2, <2>3, <2>4
<1>4. /\ slots' \in [Lanes -> [Clients -> Nat]]
      /\ \A k \in Lanes, d \in Clients :
            slots'[k][d] = IF k = "shared" /\ d = o.client THEN slots[k][d] - 1 ELSE slots[k][d]
    BY <1>1, <1>2, <1>3, Frees
<1>5. TypeOK'
    BY <1>1, <1>4, OfferEnds DEF TypeOK, Offers
<1>6. LanesBalance'
    <2>1. ASSUME NEW l \in Lanes, NEW d \in Clients
          PROVE  slots'[l][d] = Queued(lanes'[l], d) + Offered(offer', l, d) + Taken(work', l, d)
        <3>1. slots[l][d] = Queued(lanes'[l], d) + Offered(offer, l, d) + Taken(work', l, d)
            BY <1>1, Balanced
        <3>2. Queued(lanes'[l], d) \in Nat /\ Taken(work', l, d) \in Nat
            BY <1>1, PartsAreNumbers
        <3>3. /\ Offered(offer, l, d) \in Nat /\ Offered(offer', l, d) \in Nat
              /\ Offered(offer, l, d) = Offered(offer', l, d) + Slot(o, l, d)
            <4>1. \A k, c : /\ Offered(offer, k, c) \in Nat /\ Offered(offer', k, c) \in Nat
                            /\ Offered(offer, k, c) = Offered(offer', k, c) + Slot(offer[t], k, c)
                BY <1>1, OfferEnds
            <4> QED BY <4>1
        <3>4. slots'[l][d] = slots[l][d] - Slot(o, l, d) /\ slots[l][d] \in Nat /\ Slot(o, l, d) \in Nat
            BY <1>1, <1>4 DEF Slot, TypeOK
        <3> QED BY <3>1, <3>2, <3>3, <3>4
    <2>2. ASSUME NEW d \in Clients
          PROVE  slots'.known[d] <= KnownMax /\ slots'.shared[d] <= ClientMax
        <3>1. slots["known"][d] \in Nat /\ slots["shared"][d] \in Nat
            BY DEF TypeOK, Lanes
        <3>2. slots'["known"][d] = slots["known"][d]
            BY <1>4 DEF Lanes
        <3>3. slots'["shared"][d] \in {slots["shared"][d], slots["shared"][d] - 1}
            BY <1>4 DEF Lanes
        <3>4. slots.known[d] <= KnownMax /\ slots.shared[d] <= ClientMax
            BY DEF LanesBalance
        <3>5. KnownMax \in Nat /\ ClientMax \in Nat
            BY ReputationAssumption
        <3> QED BY <3>1, <3>2, <3>3, <3>4, <3>5
    <2> QED BY <1>1, <1>5, <2>1, <2>2, Balances DEF LanesBalance
<1>7. SeenIsCarried'
    <2>1. \A u \in Threads : u # t => offer'[u] = offer[u]
        BY <1>1, OfferEnds
    <2>2. \A m \in Names : m # o.name /\ Carried(m) => Carried(m)'
        BY <1>1, <2>1 DEF Carried
    <2>3. seen'[o.name] = "no" /\ \A m \in Names : m # o.name => seen'[m] = seen[m]
        BY <1>1, <1>2 DEF TypeOK
    <2> QED BY <1>1, <2>2, <2>3 DEF SeenIsCarried
<1> QED BY <1>5, <1>6, <1>7

\* The name's slot moves from the lane to the worker.
LEMMA TakeStep ==
    ASSUME IInv, Take
    PROVE  IInv'
<1> USE DEF IInv
<1> DEFINE lane == FirstLane
           item == Head(lanes[lane])
           new == [NoWork EXCEPT !.pc = "taken", !.name = item.name, !.client = item.client,
                                 !.lane = lane]
<1>1. /\ work.pc = "idle" /\ lanes[lane] # <<>> /\ work' = new
      /\ lanes' = [lanes EXCEPT ![lane] = Tail(@)]
      /\ UNCHANGED <<inventory, seen, slots, offer, judged>>
    BY DEF Take, At
<1>2. lane \in Lanes
    BY DEF FirstLane, Lanes
<1> HIDE DEF lane
<1>3. lanes[lane] \in Seq(Items) /\ item \in Items /\ Tail(lanes[lane]) \in Seq(Items)
    BY <1>1, <1>2 DEF TypeOK
<1>4. /\ lanes' \in [Lanes -> Seq(Items)] /\ lanes'[lane] = Tail(lanes[lane])
      /\ \A l \in Lanes : l # lane => lanes'[l] = lanes[l]
    BY <1>1, <1>2, <1>3 DEF TypeOK
<1>5. /\ new \in Works /\ new.pc = "taken" /\ new.lane = lane /\ new.name = item.name
      /\ new.client = item.client
    BY <1>2, <1>3 DEF Works, NoWork, Items, Verdicts
<1> HIDE DEF new
<1>6. TypeOK'
    BY <1>1, <1>4, <1>5 DEF TypeOK, Works
<1>7. LanesBalance'
    <2>1. ASSUME NEW l \in Lanes, NEW d \in Clients
          PROVE  slots'[l][d] = Queued(lanes'[l], d) + Offered(offer', l, d) + Taken(work', l, d)
        <3>1. slots'[l][d] = Queued(lanes[l], d) + Offered(offer', l, d) + Taken(work, l, d)
            BY <1>1, Balanced
        <3>2. Taken(work, l, d) = 0
            BY <1>1 DEF Taken
        <3>3. Queued(lanes[l], d) \in Nat /\ Offered(offer', l, d) \in Nat
            BY <1>1, PartsAreNumbers
        <3>4. /\ Queued(lanes'[l], d) \in Nat
              /\ Queued(lanes[l], d) = Queued(lanes'[l], d) + Taken(work', l, d)
            <4>1. CASE l = lane
                <5>1. /\ Queued(Tail(lanes[lane]), d) \in Nat
                      /\ Queued(lanes[lane], d) = Queued(Tail(lanes[lane]), d) + If(item.client = d)
                    BY <1>1, <1>3, QueuedTail
                <5>2. If(item.client = d) = Taken(work', l, d)
                    BY <1>1, <1>5, <4>1 DEF If, Taken
                <5> QED BY <1>4, <4>1, <5>1, <5>2
            <4>2. CASE l # lane
                <5>1. Taken(work', l, d) = 0 /\ lanes'[l] = lanes[l]
                    BY <1>1, <1>4, <1>5, <4>2 DEF Taken
                <5> QED BY <3>3, <5>1
            <4> QED BY <4>1, <4>2
        <3>5. Taken(work', l, d) \in Nat
            BY DEF Taken
        <3> QED BY <3>1, <3>2, <3>3, <3>4, <3>5
    <2>2. Len(lanes'.shared) <= QueueMax
        <3>1. CASE lane = "shared"
            <4>1. Len(Tail(lanes[lane])) <= Len(lanes[lane]) /\ Len(Tail(lanes[lane])) \in Nat
                  /\ Len(lanes[lane]) \in Nat
                BY <1>1, <1>3
            <4>2. lanes'.shared = Tail(lanes[lane]) /\ lanes[lane] = lanes.shared
                BY <1>4, <3>1
            <4> QED BY <4>1, <4>2, ReputationAssumption DEF LanesBalance
        <3>2. CASE lane # "shared"
            BY <1>4, <3>2 DEF Lanes, LanesBalance
        <3> QED BY <3>1, <3>2
    <2> QED BY <1>1, <1>6, <2>1, <2>2, Balances DEF LanesBalance
<1>8. SeenIsCarried'
    <2>1. ASSUME NEW m \in Names, Carried(m) PROVE Carried(m)'
        <3>1. CASE \E l \in Lanes : \E i \in DOMAIN lanes[l] : lanes[l][i].name = m
            <4>1. PICK l \in Lanes : \E i \in DOMAIN lanes[l] : lanes[l][i].name = m
                BY <3>1
            <4>2. PICK i \in DOMAIN lanes[l] : lanes[l][i].name = m
                BY <4>1
            <4>3. CASE l # lane
                BY <1>4, <4>2, <4>3 DEF Carried
            <4>4. CASE l = lane /\ i = 1
                <5>1. item.name = m
                    BY <1>3, <4>2, <4>4
                <5> QED BY <1>1, <1>5, <5>1 DEF Carried
            <4>5. CASE l = lane /\ i # 1
                <5>1. /\ i \in 1..Len(lanes[lane]) /\ Len(lanes[lane]) \in Nat
                      /\ i - 1 \in 1..(Len(lanes[lane]) - 1)
                    BY <1>3, <4>2, <4>5
                <5>2. i - 1 \in DOMAIN Tail(lanes[lane]) /\ Tail(lanes[lane])[i - 1] = lanes[lane][i]
                    BY <1>1, <1>3, <5>1
                <5> QED BY <1>2, <1>4, <4>2, <4>5, <5>2 DEF Carried
            <4> QED BY <4>3, <4>4, <4>5
        <3>2. CASE \E u \in Threads : offer[u].pc # "idle" /\ offer[u].name = m
            BY <1>1, <3>2 DEF Carried
        <3> QED BY <1>1, <2>1, <3>1, <3>2 DEF Carried
    <2> QED BY <1>1, <2>1 DEF SeenIsCarried
<1> QED BY <1>6, <1>7, <1>8

\* And is given back, in the lane where it was taken.
LEMMA DequeuedStep ==
    ASSUME IInv, Dequeued
    PROVE  IInv'
<1> USE DEF IInv
<1>1. /\ work \in Works /\ work.pc = "taken" /\ Free(work.lane, work.client)
      /\ work' = [work EXCEPT !.pc = "lookup"]
      /\ UNCHANGED <<inventory, seen, lanes, offer, judged>>
    BY Kinds DEF Dequeued, At, Goto
<1>2. /\ work.lane \in Lanes /\ work.client \in Clients
      /\ work' \in Works /\ work'.pc = "lookup" /\ work'.name = work.name
    BY <1>1 DEF Works
<1>3. slots[work.lane][work.client] >= 1
    <2>1. slots[work.lane][work.client] = Queued(lanes[work.lane], work.client)
              + Offered(offer, work.lane, work.client) + Taken(work, work.lane, work.client)
        BY <1>2, Balanced
    <2>2. Taken(work, work.lane, work.client) = 1
        BY <1>1 DEF Taken
    <2>3. Queued(lanes[work.lane], work.client) \in Nat /\ Offered(offer, work.lane, work.client) \in Nat
        BY <1>2, PartsAreNumbers
    <2> QED BY <2>1, <2>2, <2>3
<1>4. /\ slots' \in [Lanes -> [Clients -> Nat]]
      /\ \A k \in Lanes, d \in Clients :
            slots'[k][d] = IF k = work.lane /\ d = work.client THEN slots[k][d] - 1 ELSE slots[k][d]
    BY <1>1, <1>2, <1>3, Frees
<1>5. TypeOK'
    BY <1>1, <1>2, <1>4 DEF TypeOK, Works
<1>6. LanesBalance'
    <2>1. ASSUME NEW l \in Lanes, NEW d \in Clients
          PROVE  slots'[l][d] = Queued(lanes'[l], d) + Offered(offer', l, d) + Taken(work', l, d)
        <3>1. slots[l][d] = Queued(lanes'[l], d) + Offered(offer', l, d) + Taken(work, l, d)
            BY <1>1, Balanced
        <3>2. Queued(lanes'[l], d) \in Nat /\ Offered(offer', l, d) \in Nat
            BY <1>1, PartsAreNumbers
        <3>3. Taken(work', l, d) = 0
            BY <1>2 DEF Taken
        <3>4. Taken(work, l, d) = IF l = work.lane /\ d = work.client THEN 1 ELSE 0
            BY <1>1 DEF Taken
        <3>5. slots[l][d] \in Nat
            BY DEF TypeOK
        <3>6. slots'[l][d] = slots[l][d] - Taken(work, l, d) /\ Taken(work, l, d) \in Nat
            BY <1>4, <3>4, <3>5
        <3> QED BY <3>1, <3>2, <3>3, <3>5, <3>6
    <2>2. ASSUME NEW d \in Clients
          PROVE  slots'.known[d] <= KnownMax /\ slots'.shared[d] <= ClientMax
        <3>1. slots["known"][d] \in Nat /\ slots["shared"][d] \in Nat
            BY DEF TypeOK, Lanes
        <3>2. slots'["known"][d] \in {slots["known"][d], slots["known"][d] - 1}
            BY <1>4 DEF Lanes
        <3>3. slots'["shared"][d] \in {slots["shared"][d], slots["shared"][d] - 1}
            BY <1>4 DEF Lanes
        <3>4. slots.known[d] <= KnownMax /\ slots.shared[d] <= ClientMax
            BY DEF LanesBalance
        <3>5. KnownMax \in Nat /\ ClientMax \in Nat
            BY ReputationAssumption
        <3> QED BY <3>1, <3>2, <3>3, <3>4, <3>5
    <2> QED BY <1>1, <1>5, <2>1, <2>2, Balances DEF LanesBalance
<1>7. SeenIsCarried'
    BY <1>1, <1>2 DEF SeenIsCarried, Carried
<1> QED BY <1>5, <1>6, <1>7

\* Steps that touch no lane, slot or offer.
LEMMA StillBalanced ==
    ASSUME IInv, TypeOK', UNCHANGED <<lanes, slots, offer>>,
           \/ /\ work.pc # "taken"
              /\ work'.pc # "taken"
           \/ work' = work
    PROVE  LanesBalance'
<1> USE DEF IInv
<1>1. ASSUME NEW l \in Lanes, NEW d \in Clients
      PROVE  slots'[l][d] = Queued(lanes'[l], d) + Offered(offer', l, d) + Taken(work', l, d)
    <2>1. slots'[l][d] = Queued(lanes'[l], d) + Offered(offer', l, d) + Taken(work, l, d)
        BY Balanced
    <2>2. Taken(work', l, d) = Taken(work, l, d)
        BY DEF Taken
    <2> QED BY <2>1, <2>2
<1> QED BY <1>1, Balances DEF LanesBalance

\* The worker keeps the name while it asks.
LEMMA LookupStep ==
    ASSUME IInv, Lookup
    PROVE  IInv'
<1> USE DEF IInv
<1>1. /\ work \in Works /\ work.pc = "lookup" /\ UNCHANGED <<inventory, seen, lanes, slots, offer, judged>>
      /\ \E v \in Verdicts : work' = [work EXCEPT !.pc = "judge", !.verdict = v]
    BY Kinds DEF Lookup, At, queueVars, Verdicts
<1>2. work' \in Works /\ work'.pc = "judge" /\ work'.name = work.name
    BY <1>1 DEF Works
<1>3. TypeOK'
    BY <1>1, <1>2 DEF TypeOK, Works
<1>4. LanesBalance'
    BY <1>1, <1>2, <1>3, StillBalanced
<1>5. SeenIsCarried'
    BY <1>1, <1>2 DEF SeenIsCarried, Carried
<1> QED BY <1>3, <1>4, <1>5

\* A verdict, or a mark for an hour only.
LEMMA JudgeStep ==
    ASSUME IInv, Judge
    PROVE  IInv'
<1> USE DEF IInv
<1>1. /\ work \in Works /\ work.pc = "judge" /\ work' = NoWork /\ UNCHANGED <<inventory, lanes, slots, offer>>
    BY Kinds DEF Judge, At
<1>2. work.name \in Names /\ work'.pc = "idle"
    BY <1>1 DEF Works, NoWork
<1>3. \/ seen' = [seen EXCEPT ![work.name] = "hour"] /\ judged' = judged \ {work.name}
      \/ /\ seen' = seen
         /\ judged' = IF seen[work.name] = "day" THEN judged \cup {work.name} ELSE judged
    BY DEF Judge
<1>4. TypeOK'
    BY <1>1, <1>2, <1>3 DEF TypeOK
<1>5. LanesBalance'
    BY <1>1, <1>2, <1>4, StillBalanced
<1>6. SeenIsCarried'
    <2>1. \A m \in Names : m # work.name /\ Carried(m) => Carried(m)'
        BY <1>1 DEF Carried
    <2>2. \A m \in Names : m # work.name => seen'[m] = seen[m] /\ (m \in judged => m \in judged')
        BY <1>2, <1>3 DEF TypeOK
    <2>3. seen'[work.name] = "day" => work.name \in judged'
        BY <1>2, <1>3 DEF TypeOK
    <2> QED BY <2>1, <2>2, <2>3 DEF SeenIsCarried
<1> QED BY <1>4, <1>5, <1>6

\* A restart empties it all; the inventory and the marks' ends touch no slot.
LEMMA RestStep ==
    ASSUME IInv, Rest
    PROVE  IInv'
<1> USE DEF IInv
<1>1. CASE Restart
    <2>1. /\ seen' = [n \in Names |-> "no"] /\ lanes' = [l \in Lanes |-> <<>>] /\ slots' = NoSlots
          /\ offer' = [t \in Threads |-> NoOffer] /\ work' = NoWork /\ UNCHANGED <<inventory, judged>>
        BY <1>1 DEF Restart
    <2>2. TypeOK'
        BY <2>1 DEF TypeOK, NoSlots, NonePending
    <2>3. ASSUME NEW l \in Lanes, NEW d \in Clients
          PROVE  slots'[l][d] = Queued(lanes'[l], d) + Offered(offer', l, d) + Taken(work', l, d)
        <3>1. Queued(lanes'[l], d) = 0
            <4>1. {i \in DOMAIN lanes'[l] : lanes'[l][i].client = d} = {}
                BY <2>1
            <4> QED BY <4>1, FS_EmptySet DEF Queued
        <3>2. Offered(offer', l, d) = 0
            <4>1. {t \in Threads : offer'[t].pc = "slot" /\ offer'[t].lane = l /\ offer'[t].client = d} = {}
                BY <2>1 DEF NoOffer
            <4> QED BY <4>1, FS_EmptySet DEF Offered
        <3>3. Taken(work', l, d) = 0 /\ slots'[l][d] = 0
            BY <2>1 DEF Taken, NoWork, NoSlots, NonePending
        <3> QED BY <3>1, <3>2, <3>3
    <2>4. Len(lanes'.shared) = 0 /\ \A d \in Clients : slots'.known[d] = 0 /\ slots'.shared[d] = 0
        BY <2>1 DEF Lanes, NoSlots, NonePending
    <2>5. LanesBalance'
        BY <2>2, <2>3, <2>4, Balances, ReputationAssumption
    <2>6. SeenIsCarried'
        BY <2>1 DEF SeenIsCarried
    <2> QED BY <2>2, <2>5, <2>6
<1>2. ASSUME NEW S \in Inventories, RefreshInventory(S) PROVE IInv'
    <2>1. inventory' = S /\ UNCHANGED <<seen, lanes, slots, offer, work, judged>>
        BY <1>2 DEF RefreshInventory, queueVars
    <2>2. TypeOK'
        BY <2>1, ReputationAssumption DEF TypeOK
    <2>3. LanesBalance'
        BY <2>1, <2>2, StillBalanced
    <2>4. SeenIsCarried'
        BY <2>1 DEF SeenIsCarried, Carried
    <2> QED BY <2>2, <2>3, <2>4
<1>3. ASSUME NEW n \in Names, SeenEnds(n) PROVE IInv'
    <2>1. /\ seen' = [seen EXCEPT ![n] = "no"] /\ judged' = judged \ {n}
          /\ UNCHANGED <<inventory, lanes, slots, offer, work>>
        BY <1>3 DEF SeenEnds, Drop
    <2>2. TypeOK'
        BY <2>1 DEF TypeOK
    <2>3. LanesBalance'
        BY <2>1, <2>2, StillBalanced
    <2>4. seen'[n] = "no" /\ \A m \in Names : m # n => seen'[m] = seen[m]
        BY <2>1 DEF TypeOK
    <2>5. SeenIsCarried'
        BY <2>1, <2>4 DEF SeenIsCarried, Carried
    <2> QED BY <2>2, <2>3, <2>5
<1> QED BY <1>1, <1>2, <1>3 DEF Rest

\* Every step keeps the lanes in balance and marked names carried.
LEMMA Step == IInv /\ [Next]_vars => IInv'
<1> SUFFICES ASSUME IInv, [Next]_vars PROVE IInv'
    OBVIOUS
<1>1. CASE \E t \in Threads : Offer(t)
    BY <1>1, MarkStep, TakeSlotStep, PutStep, PutFullStep DEF Offer
<1>2. CASE Worker
    BY <1>2, TakeStep, DequeuedStep, LookupStep, JudgeStep DEF Worker
<1>3. CASE Rest
    BY <1>3, RestStep
<1>4. CASE UNCHANGED vars
    <2>1. UNCHANGED <<inventory, seen, lanes, slots, offer, work, judged>>
        BY <1>4 DEF vars, queueVars
    <2>2. TypeOK'
        BY <2>1 DEF IInv, TypeOK
    <2>3. LanesBalance'
        BY <2>1, <2>2, StillBalanced
    <2>4. SeenIsCarried'
        BY <2>1 DEF IInv, SeenIsCarried, Carried
    <2> QED BY <2>2, <2>3, <2>4 DEF IInv
<1> QED BY <1>1, <1>2, <1>3, <1>4 DEF Next

\* Every reachable state of the queue is balanced, and its marks are carried.
THEOREM Inductive == Spec => []IInv
BY InitInv, Step, PTL DEF Spec

\* enqueue and the worker: whatever the inventory does between the two, and wherever the
\* process restarts, a client's counters are those of its names, and within its part.
THEOREM LanesBalanceAlways == Spec => []LanesBalance
<1>1. IInv => LanesBalance
    BY DEF IInv
<1> QED BY <1>1, Inductive, PTL

\* should_lookup skips no name for a day that the queue has dropped.
THEOREM SeenIsCarriedAlways == Spec => []SeenIsCarried
<1>1. IInv => SeenIsCarried
    BY DEF IInv
<1> QED BY <1>1, Inductive, PTL
===============================================================================
