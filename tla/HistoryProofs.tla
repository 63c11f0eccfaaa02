----------------------------- MODULE HistoryProofs -----------------------------
(***************************************************************************)
(* The query log's numbers, for any lengths of hours, windows and          *)
(* retentions, any capacities, and any number of crashes and failures.     *)
(*                                                                         *)
(* No total exceeds the queries there were: rows only disappear, so what a *)
(* rollup has counted is never more than there has ever been; what it is   *)
(* about to write must be in the invariant because the rows may be gone by *)
(* then.  That no total misses rows which are still there takes the order  *)
(* of the queries too: a flush adds nothing to the hours before the newest *)
(* one that has a total, because rows, batch and queue are in the order of *)
(* the clock.                                                              *)
(*                                                                         *)
(* And what outages are made of, for any devices, any intervals, thresholds*)
(* and numbers of recorders: the sweeps are in the order of time, so what  *)
(* the binary search finds is the end of a tolerance, and what was detected*)
(* of sweeps in the past stays true of them, whoever records it and when.  *)
(***************************************************************************)
EXTENDS QueryLogProps, OutagesProps, FiniteSetTheorems, FunctionTheorems, SequenceTheorems,
        WellFoundedInduction, TLAPS

\* T counts no more than there has been.
Bounded(T) == \A h \in DOMAIN T : T[h] \in Nat /\ T[h] <= Cardinality(Of(ever, h))

\* The table is behind the batch, the batch behind the queue, and that behind the clock.
Ordered ==
    /\ \A r \in ever : /\ r.ts <= clock
                       /\ \A i \in 1..Len(batch) : r.ts <= batch[i]
                       /\ \A i \in 1..Len(queue) : r.ts <= queue[i]
    /\ \A i \in 1..Len(batch) : /\ batch[i] <= clock
                                /\ \A j \in 1..Len(queue) : batch[i] <= queue[j]
    /\ \A i \in 1..Len(queue) : queue[i] <= clock

\* Every query is in one place at most.
Numbered == Cardinality(ever) + Len(batch) + Len(queue) <= asked

IInv == TypeOK /\ IsFiniteSet(ever) /\ Ordered /\ Numbered /\ Bounded(hourly) /\ Bounded(totals)

\* Of the whole hours that a rollup looks back on, T misses no row of those before one in N.
CoveredBy(T, N) ==
    \A n \in N : \A h \in Hours :
        Hour(Ago(Back)) < h /\ h < n => Cardinality(Of(rows, h)) <= Total(T, h)

Covered ==
    /\ CoveredBy(hourly, DOMAIN hourly)
    /\ job = "write" => CoveredBy(totals, DOMAIN hourly \cup DOMAIN totals)

\* Where the request has split its window.
SplitInv ==
    reader.at # "idle" =>
        /\ reader.since = Ago(Window) /\ reader.first = Hour(reader.since) + 1
        /\ reader.at = "both" => reader.newest > reader.first /\ reader.newest \in DOMAIN hourly

WindowInv == IInv /\ Covered /\ SplitInv

-----------------------------------------------------------------------------
(* Numbers, hours and sums.                                                *)

\* What TotalOver counts, and the rows of some hours.
Pairs(F, H) == UNION {{h} \X (1..F[h]) : h \in H}
OfHours(R, H) == {r \in R : Hour(r.ts) \in H}

\* Every set of numbers has a least one.
LEMMA Least ==
    ASSUME NEW S, S \subseteq Nat, S # {}
    PROVE  \E m \in S : \A n \in S : m <= n
<1> DEFINE R == {ss \in Nat \X Nat : ss[1] < ss[2]}
<1>1. IsWellFoundedOn(R, Nat)
    BY NatLessThanWellFounded DEF OpToRel
<1> HIDE DEF R
<1>2. PICK m \in S : \A n \in S : ~ (<<n, m>> \in R)
    BY <1>1, WFMin
<1>3. ASSUME NEW n \in S PROVE m <= n
    <2>1. n \in Nat /\ m \in Nat
        OBVIOUS
    <2>2. n < m => <<n, m>> \in R
        BY <2>1 DEF R
    <2> QED BY <1>2, <2>1, <2>2
<1> QED BY <1>3

\* A bounded set of numbers has a greatest one, and Max finds it.
LEMMA Greatest ==
    ASSUME NEW S, NEW N \in Nat, S \subseteq 0..N, S # {}
    PROVE  Max(S) \in S /\ \A n \in S : n <= Max(S)
<1> DEFINE U == {u \in Nat : \A s \in S : s <= u}
<1>1. N \in U
    OBVIOUS
<1>2. PICK m \in U : \A u \in U : m <= u
    BY <1>1, Least
<1>3. m \in S
    <2>1. SUFFICES ASSUME m \notin S PROVE FALSE
        OBVIOUS
    <2>2. \A s \in S : s <= m - 1
        BY <2>1
    <2>3. m - 1 \in Nat
        <3>1. PICK s \in S : TRUE
            OBVIOUS
        <3>2. s \in Nat /\ s <= m - 1
            BY <2>2
        <3> QED BY <3>2
    <2> QED BY <1>2, <2>2, <2>3
<1>4. \E x \in S : \A y \in S : x >= y
    BY <1>3
<1>5. Max(S) \in S /\ \A y \in S : Max(S) >= y
    BY <1>4 DEF Max
<1> QED BY <1>5

\* TotalOver counts a finite set.
LEMMA PairsFinite ==
    ASSUME NEW H, IsFiniteSet(H), NEW F, \A h \in H : F[h] \in Nat
    PROVE  IsFiniteSet(Pairs(F, H))
<1> DEFINE row == [h \in H |-> {h} \X (1..F[h])]
           T == {row[h] : h \in H}
<1>1. row \in Surjection(H, T)
    BY DEF Surjection
<1>2. IsFiniteSet(T)
    BY <1>1, FS_Surjection
<1>3. \A h \in H : IsFiniteSet({h}) /\ IsFiniteSet(1..F[h])
    BY FS_Singleton, FS_Interval
<1>4. \A h \in H : IsFiniteSet({h} \X (1..F[h]))
    BY <1>3, FS_Product
<1>5. \A U \in T : IsFiniteSet(U)
    BY <1>4
<1>6. IsFiniteSet(UNION T)
    BY <1>2, <1>5, FS_UNION
<1>7. UNION T = Pairs(F, H)
    BY DEF Pairs
<1> QED BY <1>6, <1>7

\* Totals that are no less than the rows of each hour add up to no less than the rows.
LEMMA SumAtLeast ==
    ASSUME NEW R, IsFiniteSet(R), NEW H, IsFiniteSet(H), NEW F,
           \A h \in H : F[h] \in Nat /\ Cardinality(Of(R, h)) <= F[h]
    PROVE  /\ Cardinality(OfHours(R, H)) \in Nat /\ TotalOver(F, H) \in Nat
           /\ Cardinality(OfHours(R, H)) <= TotalOver(F, H)
<1> DEFINE number == [h \in H |-> CHOOSE g : g \in Injection(Of(R, h), 1..F[h])]
           place == [r \in OfHours(R, H) |-> <<Hour(r.ts), number[Hour(r.ts)][r]>>]
<1>1. ASSUME NEW h \in H PROVE number[h] \in Injection(Of(R, h), 1..F[h])
    <2>1. IsFiniteSet(Of(R, h))
        BY FS_Subset DEF Of
    <2>2. PICK b : b \in Bijection(1..Cardinality(Of(R, h)), Of(R, h))
        BY <2>1, FS_CardinalityType, Fun_ExistsBij
    <2>3. PICK g : g \in Bijection(Of(R, h), 1..Cardinality(Of(R, h)))
        BY <2>2, Fun_BijInverse
    <2>4. /\ g \in [Of(R, h) -> 1..Cardinality(Of(R, h))]
          /\ \A a, c \in Of(R, h) : g[a] = g[c] => a = c
        BY <2>3 DEF Bijection, Injection, IsInjective
    <2>5. 1..Cardinality(Of(R, h)) \subseteq 1..F[h]
        BY <2>1, FS_CardinalityType
    <2>6. g \in Injection(Of(R, h), 1..F[h])
        BY <2>4, <2>5, Fun_IsInj
    <2> QED BY <2>6
<1> HIDE DEF number
<1>2. \A h \in H : /\ number[h] \in [Of(R, h) -> 1..F[h]]
                   /\ \A a, c \in Of(R, h) : number[h][a] = number[h][c] => a = c
    BY <1>1, Fun_InjectionProperties
<1>3. \A r \in OfHours(R, H) : Hour(r.ts) \in H /\ r \in Of(R, Hour(r.ts))
    BY DEF OfHours, Of
<1>4. place \in [OfHours(R, H) -> Pairs(F, H)]
    BY <1>2, <1>3 DEF Pairs
<1>5. \A a, c \in OfHours(R, H) : place[a] = place[c] => a = c
    BY <1>2, <1>3
<1>6. place \in Injection(OfHours(R, H), Pairs(F, H))
    BY <1>4, <1>5, Fun_IsInj
<1>7. IsFiniteSet(Pairs(F, H))
    BY PairsFinite
<1>8. TotalOver(F, H) = Cardinality(Pairs(F, H))
    BY DEF TotalOver, Pairs
<1> QED BY <1>6, <1>7, <1>8, FS_Injection, FS_CardinalityType

\* And totals that are no more, to no more.
LEMMA SumAtMost ==
    ASSUME NEW R, IsFiniteSet(R), NEW H, IsFiniteSet(H), NEW F,
           \A h \in H : F[h] \in Nat /\ F[h] <= Cardinality(Of(R, h))
    PROVE  /\ Cardinality(OfHours(R, H)) \in Nat /\ TotalOver(F, H) \in Nat
           /\ TotalOver(F, H) <= Cardinality(OfHours(R, H))
<1> DEFINE row == [h \in H |-> CHOOSE b : b \in Bijection(1..Cardinality(Of(R, h)), Of(R, h))]
           at == [p \in Pairs(F, H) |-> row[p[1]][p[2]]]
<1>1. ASSUME NEW h \in H
      PROVE  row[h] \in Bijection(1..Cardinality(Of(R, h)), Of(R, h))
    <2>1. IsFiniteSet(Of(R, h))
        BY FS_Subset DEF Of
    <2>2. \E b : b \in Bijection(1..Cardinality(Of(R, h)), Of(R, h))
        BY <2>1, FS_CardinalityType, Fun_ExistsBij
    <2> QED BY <2>2
<1>2. ASSUME NEW h \in H PROVE Cardinality(Of(R, h)) \in Nat
    BY FS_Subset, FS_CardinalityType DEF Of
<1> HIDE DEF row
<1>3. \A h \in H :
        /\ row[h] \in [1..Cardinality(Of(R, h)) -> Of(R, h)]
        /\ \A i, j \in 1..Cardinality(Of(R, h)) : row[h][i] = row[h][j] => i = j
    BY <1>1 DEF Bijection, Injection, IsInjective
<1>4. ASSUME NEW p \in Pairs(F, H)
      PROVE  /\ p = <<p[1], p[2]>> /\ p[1] \in H /\ p[2] \in 1..Cardinality(Of(R, p[1]))
             /\ at[p] \in Of(R, p[1])
    <2>1. PICK h \in H : p \in {h} \X (1..F[h])
        BY DEF Pairs
    <2>2. p = <<p[1], p[2]>> /\ p[1] = h /\ p[2] \in 1..F[h]
        BY <2>1
    <2>3. 1..F[h] \subseteq 1..Cardinality(Of(R, h))
        BY <1>2
    <2> QED BY <1>3, <2>2, <2>3
<1>5. \A h \in H : Of(R, h) \subseteq OfHours(R, H) /\ \A r \in Of(R, h) : Hour(r.ts) = h
    BY DEF OfHours, Of
<1>6. at \in [Pairs(F, H) -> OfHours(R, H)]
    BY <1>4, <1>5
<1>7. ASSUME NEW p \in Pairs(F, H), NEW q \in Pairs(F, H), at[p] = at[q] PROVE p = q
    <2>1. p[1] = q[1]
        BY <1>4, <1>5, <1>7
    <2>2. p[2] = q[2]
        BY <1>3, <1>4, <1>7, <2>1
    <2> QED BY <1>4, <2>1, <2>2
<1>8. at \in Injection(Pairs(F, H), OfHours(R, H))
    BY <1>6, <1>7, Fun_IsInj
<1>9. IsFiniteSet(OfHours(R, H))
    BY FS_Subset DEF OfHours
<1>10. TotalOver(F, H) = Cardinality(Pairs(F, H))
    BY DEF TotalOver, Pairs
<1> QED BY <1>8, <1>9, <1>10, FS_Injection, FS_CardinalityType

\* A time lies in its hour.
LEMMA HourFacts ==
    ASSUME NEW t \in Nat
    PROVE  /\ Hour(t) \in Nat
           /\ \A h \in Nat : StartOf(h) \in Nat /\ (StartOf(h) <= t <=> h <= Hour(t))
<1>1. PerHour \in Nat /\ PerHour > 0
    BY QueryLogAssumption
<1>2. /\ t \div PerHour \in Nat /\ (t \div PerHour) * PerHour <= t
      /\ t < (t \div PerHour) * PerHour + PerHour
    BY <1>1
<1>3. \A h \in Nat : h * PerHour \in Nat /\ (h * PerHour <= t <=> h <= t \div PerHour)
    BY <1>1, <1>2
<1> QED BY <1>2, <1>3 DEF Hour, StartOf

\* Hours follow the clock.
LEMMA HourGrows ==
    ASSUME NEW t \in Nat, NEW u \in Nat, t <= u
    PROVE  Hour(t) <= Hour(u)
<1>1. StartOf(Hour(t)) <= t /\ Hour(t) \in Nat /\ StartOf(Hour(t)) \in Nat
    BY HourFacts
<1>2. StartOf(Hour(t)) <= u
    BY <1>1
<1> QED BY <1>1, <1>2, HourFacts

\* And every time that occurs in one of Hours.
LEMMA InHours ==
    ASSUME NEW t \in 0..MaxClock
    PROVE  Hour(t) \in Hours
<1>1. MaxClock \in Nat
    BY QueryLogAssumption
<1>2. Hour(t) \in Nat /\ Hour(MaxClock) \in Nat /\ Hour(t) <= Hour(MaxClock)
    BY <1>1, HourFacts, HourGrows
<1> QED BY <1>2 DEF Hours

\* A longer look back goes further back.
LEMMA AgoFacts ==
    ASSUME clock \in Nat, NEW m \in Nat, NEW n \in Nat, m <= n
    PROVE  Ago(n) \in 0..clock /\ Ago(n) <= Ago(m)
BY DEF Ago

\* A part of an hour's rows are no more than the whole.
LEMMA PartOf ==
    ASSUME NEW big, IsFiniteSet(big), NEW small, small \subseteq big, NEW h
    PROVE  /\ Cardinality(Of(small, h)) \in Nat /\ Cardinality(Of(big, h)) \in Nat
           /\ Cardinality(Of(small, h)) <= Cardinality(Of(big, h))
           /\ Cardinality(Of(big, h)) <= Cardinality(big) /\ Cardinality(big) \in Nat
<1>1. Of(small, h) \subseteq Of(big, h) /\ Of(big, h) \subseteq big
    BY DEF Of
<1>2. IsFiniteSet(Of(big, h))
    BY <1>1, FS_Subset
<1> QED BY <1>1, <1>2, FS_Subset, FS_CardinalityType

\* An hour with a total has had a row.
LEMMA HasRow ==
    ASSUME IsFiniteSet(ever), NEW T, Bounded(T), NEW h \in DOMAIN T, T[h] >= 1
    PROVE  \E r \in ever : Hour(r.ts) = h
<1>1. T[h] \in Nat /\ T[h] <= Cardinality(Of(ever, h))
    BY DEF Bounded
<1>2. Of(ever, h) # {}
    <2>1. Cardinality({}) = 0
        BY FS_EmptySet
    <2>2. Cardinality(Of(ever, h)) # 0
        BY <1>1, PartOf
    <2> QED BY <2>1, <2>2
<1> QED BY <1>2 DEF Of

\* A batch makes a finite set of rows, no more of them than it has entries.
LEMMA BatchFinite ==
    ASSUME NEW n \in Nat, NEW row, DOMAIN row = 1..n, row = [i \in 1..n |-> row[i]]
    PROVE  IsFiniteSet({row[i] : i \in 1..n}) /\ Cardinality({row[i] : i \in 1..n}) <= n
<1> DEFINE T == {row[i] : i \in 1..n}
<1>1. row \in Surjection(1..n, T)
    BY DEF Surjection
<1>2. IsFiniteSet(1..n) /\ Cardinality(1..n) = n
    BY FS_Interval
<1> QED BY <1>1, <1>2, FS_Surjection

\* Rows that come leave every total within bounds.
LEMMA StillBounded ==
    ASSUME NEW T, Bounded(T), IsFiniteSet(ever'), ever \subseteq ever'
    PROVE  \A h \in DOMAIN T : T[h] \in Nat /\ T[h] <= Cardinality(Of(ever', h))
<1> SUFFICES ASSUME NEW h \in DOMAIN T
             PROVE  T[h] \in Nat /\ T[h] <= Cardinality(Of(ever', h))
    OBVIOUS
<1>1. T[h] \in Nat /\ T[h] <= Cardinality(Of(ever, h))
    BY DEF Bounded
<1>2. /\ Cardinality(Of(ever, h)) \in Nat /\ Cardinality(Of(ever', h)) \in Nat
      /\ Cardinality(Of(ever, h)) <= Cardinality(Of(ever', h))
    BY PartOf
<1> QED BY <1>1, <1>2

\* rollup counts within bounds, from whatever rows are left, hours that have some.
LEMMA CountFacts ==
    ASSUME IInv, NEW since
    PROVE  /\ Bounded(Count(since)) /\ DOMAIN Count(since) \subseteq Hours
           /\ \A h \in DOMAIN Count(since) : Count(since)[h] \in 1..MaxQueries
<1> USE DEF IInv
<1>1. Since(rows, since) \subseteq ever /\ Since(rows, since) \subseteq Entries
    BY DEF TypeOK, Since
<1>2. Bounded(Count(since))
    BY <1>1, PartOf DEF Bounded, Count
<1>3. DOMAIN Count(since) \subseteq Hours
    BY <1>1, InHours DEF Count, Entries
<1>4. ASSUME NEW h \in DOMAIN Count(since) PROVE Count(since)[h] \in 1..MaxQueries
    <2>1. Count(since)[h] = Cardinality(Of(Since(rows, since), h))
        BY DEF Count
    <2>2. Of(Since(rows, since), h) # {} /\ IsFiniteSet(Of(Since(rows, since), h))
        BY <1>1, FS_Subset DEF Count, Of
    <2>3. Cardinality(Of(Since(rows, since), h)) \in Nat \ {0}
        BY <2>2, FS_EmptySet, FS_CardinalityType
    <2>4. Cardinality(Of(Since(rows, since), h)) <= Cardinality(ever) /\ Cardinality(ever) \in Nat
        BY <1>1, <2>3, PartOf
    <2>5. Cardinality(ever) <= MaxQueries
        <3>1. Len(batch) \in Nat /\ Len(queue) \in Nat /\ asked \in Nat /\ asked <= MaxQueries
            BY LenProperties, QueryLogAssumption DEF TypeOK
        <3>2. Cardinality(ever) + Len(batch) + Len(queue) <= asked /\ MaxQueries \in Nat
            BY QueryLogAssumption DEF Numbered
        <3> QED BY <2>4, <3>1, <3>2
    <2> QED BY <2>1, <2>3, <2>4, <2>5, QueryLogAssumption
<1> QED BY <1>2, <1>3, <1>4

\* What a flush writes.
LEMMA Written ==
    ASSUME IInv, WriteBatch
    PROVE  \E new \in SUBSET Entries :
             /\ rows' = rows \cup new /\ ever' = ever \cup new
             /\ IsFiniteSet(ever') /\ Cardinality(ever') <= Cardinality(ever) + Len(batch)
             /\ \A r \in new : \E i \in 1..Len(batch) : r.ts = batch[i]
<1> USE DEF IInv
<1>0. \A i \in 1..Len(batch) : batch[i] \in 0..MaxClock
    <2>1. batch \in Seq(0..MaxClock)
        BY DEF TypeOK
    <2> QED BY <2>1, ElementOfSeq
<1> DEFINE row == [i \in 1..Len(batch) |-> [id |-> Cardinality(ever) + i, ts |-> batch[i]]]
           new == {row[i] : i \in 1..Len(batch)}
<1>1. Len(batch) \in Nat /\ Len(queue) \in Nat /\ Cardinality(ever) \in Nat
    BY FS_CardinalityType DEF TypeOK
<1>2. IsFiniteSet(new) /\ Cardinality(new) <= Len(batch)
    BY <1>1, BatchFinite
<1>3. new = {[id |-> Cardinality(ever) + i, ts |-> batch[i]] : i \in 1..Len(batch)}
    OBVIOUS
<1>4. rows' = rows \cup new /\ ever' = ever \cup new
    BY <1>3 DEF WriteBatch
<1>5. new \subseteq Entries
    <2>1. ASSUME NEW i \in 1..Len(batch)
          PROVE  Cardinality(ever) + i \in 1..MaxQueries /\ batch[i] \in 0..MaxClock
        <3>1. batch \in Seq(0..MaxClock) /\ asked \in 0..MaxQueries /\ MaxQueries \in Nat
            BY QueryLogAssumption DEF TypeOK
        <3>2. Cardinality(ever) + Len(batch) + Len(queue) <= asked
            BY DEF Numbered
        <3>3. batch[i] \in 0..MaxClock
            BY <1>0
        <3>4. i \in Nat /\ 1 <= i /\ i <= Len(batch)
            BY <1>1
        <3>5. Cardinality(ever) + i \in 1..MaxQueries
            BY <1>1, <3>1, <3>2, <3>4
        <3> QED BY <3>3, <3>5
    <2> QED BY <2>1 DEF Entries
<1>6. \A r \in new : \E i \in 1..Len(batch) : r.ts = batch[i]
    OBVIOUS
<1> HIDE DEF new
<1>7. /\ IsFiniteSet(ever \cup new) /\ Cardinality(new) \in Nat
      /\ Cardinality(ever \cup new)
            = Cardinality(ever) + Cardinality(new) - Cardinality(ever \cap new)
    BY <1>2, FS_Union, FS_CardinalityType
<1>8. Cardinality(ever \cap new) \in Nat
    BY FS_Subset, FS_CardinalityType
<1>9. Cardinality(ever \cup new) <= Cardinality(ever) + Len(batch)
    BY <1>1, <1>2, <1>7, <1>8
<1> QED BY <1>4, <1>5, <1>6, <1>7, <1>9

\* It all begins empty.
LEMMA InitInv == Init => WindowInv
<1> SUFFICES ASSUME Init PROVE WindowInv
    OBVIOUS
<1> USE DEF Init
<1>1. IsFiniteSet(ever) /\ Cardinality(ever) = 0
    BY FS_EmptySet
<1>2. DOMAIN hourly = {} /\ DOMAIN totals = {} /\ Len(batch) = 0 /\ Len(queue) = 0
    OBVIOUS
<1>3. 0 \in Hours
    BY InHours, HourFacts, QueryLogAssumption DEF Hours
<1>4. TypeOK
    BY <1>2, <1>3, QueryLogAssumption DEF TypeOK, NoReader
<1>5. Ordered /\ Numbered /\ Bounded(hourly) /\ Bounded(totals) /\ Covered /\ SplitInv
    BY <1>1, <1>2 DEF Ordered, Numbered, Bounded, Covered, CoveredBy, SplitInv, NoReader
<1> QED BY <1>1, <1>4, <1>5 DEF WindowInv, IInv

\* A step that adds no rows and leaves the totals alone.
LEMMA Quiet ==
    ASSUME IInv, TypeOK', Ordered', Numbered', ever' = ever, hourly' = hourly,
           totals' = totals \/ totals' = <<>>
    PROVE  IInv'
<1>1. Bounded(hourly)' /\ IsFiniteSet(ever)'
    BY DEF IInv, Bounded
<1>2. CASE totals' = <<>>
    <2>1. DOMAIN totals' = {}
        BY <1>2
    <2> QED BY <1>1, <2>1 DEF IInv, Bounded
<1>3. CASE totals' = totals
    BY <1>1, <1>3 DEF IInv, Bounded
<1> QED BY <1>2, <1>3

\* Queries come in, and rows go out: types, order and numbers.
LEMMA BufferStep ==
    ASSUME IInv, Record \/ Crash \/ Tick \/ TakeBatch \/ LoseBatch
    PROVE  IInv'
<1> USE DEF IInv
<1>1. /\ Cardinality(ever) \in Nat /\ Len(queue) \in Nat /\ Len(batch) \in Nat
      /\ queue \in Seq(0..MaxClock) /\ batch \in Seq(0..MaxClock)
      /\ clock \in 0..MaxClock /\ asked \in 0..MaxQueries
    BY FS_CardinalityType DEF TypeOK
<1>2. MaxClock \in Nat /\ MaxQueries \in Nat /\ QueueMax \in Nat
    BY QueryLogAssumption
<1>3. CASE Record
    <2>1. CASE Len(queue) >= QueueMax
        <3>1. TypeOK'
            BY <1>1, <1>2, <1>3, <2>1 DEF Record, TypeOK
        <3>2. Ordered' /\ Numbered'
            BY <1>1, <1>2, <1>3, <2>1 DEF Record, Ordered, Numbered
        <3> QED BY <1>3, <3>1, <3>2, Quiet DEF Record
    <2>2. CASE Len(queue) < QueueMax
        <3>0. /\ queue' = Append(queue, clock) /\ asked' = asked + 1 /\ asked < MaxQueries
              /\ UNCHANGED <<clock, batch, rows, hourly, job, totals, reader, ever>>
            BY <1>1, <1>2, <1>3, <2>2 DEF Record
        <3>1. /\ Len(queue') = Len(queue) + 1 /\ queue' \in Seq(0..MaxClock)
              /\ queue'[Len(queue) + 1] = clock
              /\ \A i \in 1..Len(queue) : queue'[i] = queue[i]
            BY <1>1, <3>0
        <3>2. TypeOK'
            BY <1>1, <1>2, <2>2, <3>0, <3>1 DEF TypeOK
        <3>3. \A i \in 1..Len(queue') : i = Len(queue) + 1 \/ i \in 1..Len(queue)
            BY <1>1, <3>1
        <3>4. Ordered'
            BY <1>1, <3>0, <3>1, <3>3 DEF Ordered
        <3>5. Numbered'
            BY <1>1, <3>0, <3>1 DEF Numbered
        <3> QED BY <3>0, <3>2, <3>4, <3>5, Quiet
    <2> QED BY <1>1, <1>2, <2>1, <2>2
<1>4. CASE Crash
    <2>1. /\ queue' = <<>> /\ batch' = <<>> /\ Len(queue') = 0 /\ Len(batch') = 0
          /\ totals' = <<>> /\ DOMAIN totals' = {} /\ job' = "idle" /\ reader' = NoReader
          /\ UNCHANGED <<clock, rows, hourly, asked, ever>>
        BY <1>4 DEF Crash
    <2>2. 0 \in Hours
        BY <1>2, HourFacts DEF Hours
    <2>3. TypeOK'
        BY <1>1, <1>2, <2>1, <2>2 DEF TypeOK, NoReader
    <2>4. Ordered' /\ Numbered'
        BY <1>1, <2>1 DEF Ordered, Numbered
    <2> QED BY <2>1, <2>3, <2>4, Quiet
<1>5. CASE Tick
    <2>1. TypeOK'
        BY <1>1, <1>2, <1>5 DEF Tick, TypeOK
    <2>2. clock' = clock + 1 /\ UNCHANGED <<ever, batch, queue, asked>>
        BY <1>5 DEF Tick
    <2>3. \A r \in ever : r.ts \in Nat
        BY <1>2 DEF TypeOK, Entries
    <2>4. /\ \A i \in 1..Len(batch) : batch[i] \in Nat
          /\ \A i \in 1..Len(queue) : queue[i] \in Nat
        BY <1>1, <1>2, ElementOfSeq
    <2>5. /\ \A r \in ever : r.ts <= clock'
          /\ \A i \in 1..Len(batch) : batch[i] <= clock'
          /\ \A i \in 1..Len(queue) : queue[i] <= clock'
        <3>1. \A n \in Nat : n <= clock => n <= clock'
            BY <1>1, <2>2
        <3> QED BY <2>3, <2>4, <3>1 DEF Ordered
    <2>6. Ordered'
        BY <2>2, <2>5 DEF Ordered
    <2>7. Numbered'
        BY <2>2 DEF Numbered
    <2> QED BY <1>5, <2>1, <2>6, <2>7, Quiet DEF Tick
<1>6. CASE TakeBatch
    <2>1. /\ batch' = queue /\ Len(batch') = Len(queue) /\ queue' = <<>> /\ Len(queue') = 0
          /\ UNCHANGED <<clock, rows, hourly, job, totals, reader, asked, ever>>
        BY <1>6 DEF TakeBatch
    <2>2. TypeOK'
        BY <1>1, <1>2, <2>1 DEF TypeOK
    <2>3. Ordered' /\ Numbered'
        BY <1>1, <2>1 DEF Ordered, Numbered
    <2> QED BY <2>1, <2>2, <2>3, Quiet
<1>7. CASE LoseBatch
    <2>1. /\ batch' = <<>> /\ Len(batch') = 0
          /\ UNCHANGED <<clock, queue, rows, hourly, job, totals, reader, asked, ever>>
        BY <1>7 DEF LoseBatch
    <2>2. TypeOK'
        BY <1>1, <1>2, <2>1 DEF TypeOK
    <2>3. Ordered' /\ Numbered'
        BY <1>1, <2>1 DEF Ordered, Numbered
    <2> QED BY <2>1, <2>2, <2>3, Quiet
<1> QED BY <1>3, <1>4, <1>5, <1>6, <1>7

\* A flush: what it writes is behind what comes after it.
LEMMA WriteStep ==
    ASSUME IInv, WriteBatch
    PROVE  IInv'
<1> USE DEF IInv
<1>1. PICK new \in SUBSET Entries :
        /\ rows' = rows \cup new /\ ever' = ever \cup new
        /\ IsFiniteSet(ever') /\ Cardinality(ever') <= Cardinality(ever) + Len(batch)
        /\ \A r \in new : \E i \in 1..Len(batch) : r.ts = batch[i]
    BY Written
<1>2. /\ batch' = <<>> /\ Len(batch') = 0
      /\ UNCHANGED <<clock, queue, hourly, job, totals, reader, asked>>
    BY DEF WriteBatch
<1>3. TypeOK'
    BY <1>1, <1>2, QueryLogAssumption DEF TypeOK
<1>4. Ordered'
    BY <1>1, <1>2 DEF Ordered
<1>5. Numbered'
    <2>1. Cardinality(ever') \in Nat /\ Cardinality(ever) \in Nat
        BY <1>1, FS_CardinalityType
    <2>2. Len(queue) \in Nat /\ Len(batch) \in Nat
        BY DEF TypeOK
    <2> QED BY <1>1, <1>2, <2>1, <2>2 DEF Numbered, TypeOK
<1>6. Bounded(hourly)' /\ Bounded(totals)'
    BY <1>1, <1>2, StillBounded DEF Bounded
<1> QED BY <1>1, <1>3, <1>4, <1>5, <1>6

\* The hourly job, evictions and the dashboard.
LEMMA JobStep ==
    ASSUME IInv, \/ RollupRead \/ RollupWrite \/ PurgeQueries \/ PurgeHourly \/ JobFails \/ Evict
                 \/ Answer
    PROVE  IInv'
<1> USE DEF IInv
<1>1. UNCHANGED <<clock, queue, batch, asked, ever>>
    BY DEF RollupRead, RollupWrite, PurgeQueries, PurgeHourly, JobFails, Evict, Answer
<1>2. Ordered' /\ Numbered'
    BY <1>1 DEF Ordered, Numbered
<1>3. CASE RollupRead
    <2>1. totals' = Count(Ago(Back)) /\ job' = "write" /\ UNCHANGED <<rows, hourly, reader>>
        BY <1>3 DEF RollupRead
    <2>2. /\ DOMAIN totals' \subseteq Hours /\ \A h \in DOMAIN totals' : totals'[h] \in 1..MaxQueries
          /\ \A h \in DOMAIN totals' : totals'[h] \in Nat /\ totals'[h] <= Cardinality(Of(ever, h))
        BY <2>1, CountFacts DEF Bounded
    <2>3. TypeOK'
        BY <1>1, <2>1, <2>2 DEF TypeOK
    <2> QED BY <1>1, <1>2, <2>1, <2>2, <2>3 DEF Bounded
<1>4. CASE RollupWrite
    <2>1. /\ hourly' = [h \in DOMAIN hourly \cup DOMAIN totals |->
                          IF h \in DOMAIN totals THEN totals[h] ELSE hourly[h]]
          /\ totals' = <<>> /\ DOMAIN totals' = {} /\ job' = "purge" /\ UNCHANGED <<rows, reader>>
        BY <1>4 DEF RollupWrite
    <2>2. /\ DOMAIN hourly' \subseteq Hours /\ \A h \in DOMAIN hourly' : hourly'[h] \in 1..MaxQueries
          /\ \A h \in DOMAIN hourly' : hourly'[h] \in Nat /\ hourly'[h] <= Cardinality(Of(ever, h))
        BY <2>1 DEF TypeOK, Bounded
    <2>3. TypeOK'
        BY <1>1, <2>1, <2>2 DEF TypeOK
    <2> QED BY <1>1, <1>2, <2>1, <2>2, <2>3 DEF Bounded
<1>5. CASE PurgeQueries
    <2>1. rows' \subseteq rows /\ job' = "hourly" /\ UNCHANGED <<hourly, totals, reader>>
        BY <1>5 DEF PurgeQueries, Since
    <2>2. TypeOK'
        BY <1>1, <2>1 DEF TypeOK
    <2> QED BY <1>1, <1>2, <2>1, <2>2, Quiet
<1>6. CASE PurgeHourly
    <2>1. /\ DOMAIN hourly' \subseteq DOMAIN hourly /\ \A h \in DOMAIN hourly' : hourly'[h] = hourly[h]
          /\ job' = "idle" /\ UNCHANGED <<rows, totals, reader>>
        BY <1>6 DEF PurgeHourly, Restrict
    <2>2. TypeOK'
        BY <1>1, <2>1 DEF TypeOK
    <2> QED BY <1>1, <1>2, <2>1, <2>2 DEF Bounded
<1>7. CASE JobFails
    <2>1. totals' = <<>> /\ DOMAIN totals' = {} /\ job' = "idle" /\ UNCHANGED <<rows, hourly, reader>>
        BY <1>7 DEF JobFails
    <2>2. TypeOK'
        BY <1>1, <2>1 DEF TypeOK
    <2> QED BY <1>1, <1>2, <2>1, <2>2, Quiet
<1>8. CASE Evict
    <2>1. rows' \subseteq rows /\ UNCHANGED <<hourly, job, totals, reader>>
        BY <1>8 DEF Evict
    <2>2. TypeOK'
        BY <1>1, <2>1 DEF TypeOK
    <2> QED BY <1>1, <1>2, <2>1, <2>2, Quiet
<1>9. CASE Answer
    <2>1. reader' = NoReader /\ UNCHANGED <<rows, hourly, job, totals>>
        BY <1>9 DEF Answer
    <2>2. 0 \in Hours
        BY QueryLogAssumption, HourFacts DEF Hours
    <2>3. TypeOK'
        BY <1>1, <2>1, <2>2, QueryLogAssumption DEF TypeOK, NoReader
    <2> QED BY <1>1, <1>2, <2>1, <2>3, Quiet
<1> QED BY <1>3, <1>4, <1>5, <1>6, <1>7, <1>8, <1>9

\* _dns_window: where the request splits its window.
LEMMA SplitFacts ==
    ASSUME IInv, Split
    PROVE  /\ UNCHANGED <<clock, queue, batch, rows, hourly, job, totals, asked, ever>>
           /\ reader' \in [since : 0..MaxClock, first : Nat, newest : Hours, at : {"raw", "both"}]
           /\ reader'.since = Ago(Window) /\ reader'.first = Hour(reader'.since) + 1
           /\ reader'.at = "both" => reader'.newest > reader'.first /\ reader'.newest \in DOMAIN hourly
<1> USE DEF IInv
<1> DEFINE since  == Ago(Window)
           newest == IF Middle(since) = {} THEN 0 ELSE Max(Middle(since))
<1>1. /\ reader' = [since |-> since, first |-> Hour(since) + 1, newest |-> newest,
                    at |-> IF newest > Hour(since) + 1 THEN "both" ELSE "raw"]
      /\ UNCHANGED <<clock, queue, batch, rows, hourly, job, totals, asked, ever>>
    BY DEF Split
<1>2. clock \in 0..MaxClock /\ MaxClock \in Nat /\ Window \in Nat
    BY QueryLogAssumption DEF TypeOK
<1>3. since \in 0..MaxClock /\ since \in Nat /\ Hour(since) \in Nat
    BY <1>2, AgoFacts, HourFacts
<1>4. newest \in Hours /\ (newest > Hour(since) + 1 => newest \in DOMAIN hourly)
    <2>1. 0 \in Hours /\ Hour(MaxClock) \in Nat
        BY <1>2, HourFacts DEF Hours
    <2>2. CASE Middle(since) = {}
        BY <1>3, <2>1, <2>2
    <2>3. CASE Middle(since) # {}
        <3>1. Middle(since) \subseteq DOMAIN hourly /\ Middle(since) \subseteq 0..Hour(MaxClock)
            BY DEF Middle, TypeOK, Hours
        <3>2. Max(Middle(since)) \in Middle(since)
            BY <2>1, <2>3, <3>1, Greatest
        <3> QED BY <2>3, <3>1, <3>2 DEF Hours
    <2> QED BY <2>2, <2>3
<1> HIDE DEF since, newest
<1>5. reader' \in [since : 0..MaxClock, first : Nat, newest : Hours, at : {"raw", "both"}]
    BY <1>1, <1>3, <1>4
<1>6. since = Ago(Window)
    BY DEF since
<1> QED BY <1>1, <1>4, <1>5, <1>6

\* Every step keeps the invariant.
LEMMA Step == IInv /\ [Next]_vars => IInv'
<1> SUFFICES ASSUME IInv, [Next]_vars PROVE IInv'
    OBVIOUS
<1>1. CASE Split
    <2>1. TypeOK' /\ Ordered' /\ Numbered'
        BY <1>1, SplitFacts DEF IInv, TypeOK, Ordered, Numbered
    <2> QED BY <1>1, <2>1, SplitFacts, Quiet
<1>2. CASE UNCHANGED vars
    BY <1>2 DEF vars, IInv, TypeOK, Ordered, Numbered, Bounded
<1> QED BY <1>1, <1>2, BufferStep, WriteStep, JobStep DEF Next

\* Every variable keeps its type, and the buffer its limit, however long the disk stalls.
THEOREM TypeCorrect == Spec => []TypeOK
<1>1. Init => IInv
    BY InitInv DEF WindowInv
<1>2. IInv => TypeOK
    BY DEF IInv
<1> QED BY <1>1, <1>2, Step, PTL DEF Spec

\* rollup: whatever it re-aggregates, fails at or dies from, and whatever the purges and the
\* row cap take away in between, no hour's total exceeds the queries there were.
THEOREM CountedOnceAlways == Spec => []CountedOnce
<1>1. Init => IInv
    BY InitInv DEF WindowInv
<1>2. IInv => CountedOnce
    BY DEF IInv, Bounded, CountedOnce
<1> QED BY <1>1, <1>2, Step, PTL DEF Spec

-----------------------------------------------------------------------------
(* The window, looking back no further than a rollup does, and that no     *)
(* further than hourly totals are kept.                                    *)

\* Fewer rows, or totals that are no less for the hours looked back on: still covered.
LEMMA StillCovered ==
    ASSUME IInv, NEW T, NEW N, CoveredBy(T, N), NEW U, NEW M, NEW R, NEW back,
           \A h \in Hours : \A n \in M :
               back < h /\ h < n =>
                  /\ Hour(Ago(Back)) < h /\ n \in N
                  /\ Of(R, h) \subseteq Of(rows, h) /\ Total(T, h) <= Total(U, h)
                  /\ Total(T, h) \in Nat /\ Total(U, h) \in Nat
    PROVE  \A n \in M : \A h \in Hours :
               back < h /\ h < n => Cardinality(Of(R, h)) <= Total(U, h)
<1> SUFFICES ASSUME NEW n \in M, NEW h \in Hours, back < h, h < n
             PROVE  Cardinality(Of(R, h)) <= Total(U, h)
    OBVIOUS
<1>1. Cardinality(Of(rows, h)) <= Total(T, h)
    BY DEF CoveredBy
<1>2. IsFiniteSet(Of(rows, h))
    BY FS_Subset DEF IInv, TypeOK, Of
<1>3. /\ Cardinality(Of(R, h)) <= Cardinality(Of(rows, h))
      /\ Cardinality(Of(R, h)) \in Nat /\ Cardinality(Of(rows, h)) \in Nat
    BY <1>2, FS_Subset, FS_CardinalityType
<1> QED BY <1>1, <1>3

\* An hour without a total counts for none.
LEMMA TotalNat ==
    ASSUME NEW T, Bounded(T), NEW h
    PROVE  Total(T, h) \in Nat
BY DEF Bounded, Total

\* The rollup's look back moves with the clock.
LEMMA BackGrows ==
    ASSUME clock \in Nat, clock' \in Nat, clock <= clock'
    PROVE  /\ Hour(Ago(Back)) \in Nat /\ Hour(Ago(Back))' \in Nat
           /\ Hour(Ago(Back)) <= Hour(Ago(Back))'
<1>1. Ago(Back) \in Nat /\ Ago(Back)' \in Nat /\ Ago(Back) <= Ago(Back)'
    BY QueryLogAssumption DEF Ago
<1>2. /\ Hour(Ago(Back)) \in Nat /\ Hour(Ago(Back)') \in Nat
      /\ Hour(Ago(Back)) <= Hour(Ago(Back)')
    BY <1>1, HourFacts, HourGrows
<1> QED BY <1>2

\* Steps that add no rows and change no totals.
LEMMA Shrinks ==
    ASSUME WindowInv, IInv', rows' \subseteq rows, hourly' = hourly, clock <= clock',
           job' # "write" \/ UNCHANGED <<job, totals>>
    PROVE  Covered'
<1> USE DEF WindowInv, IInv
<1>1. clock \in Nat /\ clock' \in Nat
    BY QueryLogAssumption DEF TypeOK
<1>2. \A h \in Hours : Hour(Ago(Back))' < h => Hour(Ago(Back)) < h
    BY <1>1, BackGrows, QueryLogAssumption, HourFacts DEF Hours
<1>3. \A h : Of(rows', h) \subseteq Of(rows, h)
    BY DEF Of
<1>4. ASSUME NEW T, Bounded(T), NEW N, CoveredBy(T, N)
      PROVE  \A n \in N : \A h \in Hours :
               Hour(Ago(Back))' < h /\ h < n => Cardinality(Of(rows', h)) <= Total(T, h)
    <2>1. \A h : Total(T, h) \in Nat /\ Total(T, h) <= Total(T, h)
        BY <1>4, TotalNat
    <2> HIDE DEF WindowInv, IInv
    <2>2. IInv
        BY DEF WindowInv
    <2> QED BY <1>2, <1>3, <1>4, <2>1, <2>2, StillCovered
<1>5. CoveredBy(hourly, DOMAIN hourly)'
    BY <1>4 DEF Covered, CoveredBy
<1>6. CASE job' # "write"
    BY <1>5, <1>6 DEF Covered
<1>7. CASE job' = "write" /\ UNCHANGED <<job, totals>>
    <2>1. CoveredBy(totals, DOMAIN hourly \cup DOMAIN totals)'
        BY <1>4, <1>7 DEF Covered, CoveredBy
    <2> QED BY <1>5, <2>1 DEF Covered
<1> QED BY <1>6, <1>7

\* A flush adds no rows to the hours before one that has a total.
LEMMA WriteCovered ==
    ASSUME WindowInv, WriteBatch
    PROVE  Covered'
<1> USE DEF WindowInv
<1>1. PICK new \in SUBSET Entries :
        /\ rows' = rows \cup new
        /\ \A r \in new : \E i \in 1..Len(batch) : r.ts = batch[i]
    BY Written
<1>2. UNCHANGED <<clock, hourly, job, totals>>
    BY DEF WriteBatch
<1>3. ASSUME NEW T, Bounded(T), \A h \in DOMAIN T : h \in Hours /\ T[h] \in 1..MaxQueries,
             NEW n \in DOMAIN T, NEW h \in Hours, h < n
      PROVE  Of(rows', h) = Of(rows, h)
    <2>1. n \in Hours /\ T[n] >= 1 /\ n \in Nat /\ h \in Nat
        BY <1>3, QueryLogAssumption, HourFacts DEF Hours
    <2>2. PICK first \in ever : Hour(first.ts) = n
        <3>1. IsFiniteSet(ever)
            BY DEF IInv
        <3>2. Bounded(T) /\ n \in DOMAIN T /\ T[n] >= 1
            BY <1>3, <2>1
        <3> QED BY <3>1, <3>2, HasRow
    <2>3. ASSUME NEW r \in new PROVE Hour(r.ts) # h
        <3>1. first.ts <= r.ts
            BY <1>1, <2>2 DEF IInv, Ordered
        <3>2. first.ts \in Nat /\ r.ts \in Nat
            BY <1>1, <2>2, QueryLogAssumption DEF IInv, TypeOK, Entries
        <3>3. n <= Hour(r.ts) /\ Hour(r.ts) \in Nat
            BY <2>2, <3>1, <3>2, HourFacts, HourGrows
        <3> QED BY <1>3, <2>1, <3>3
    <2> QED BY <1>1, <2>3 DEF Of
<1>4. ASSUME NEW T, Bounded(T), NEW N, CoveredBy(T, N),
             \A n \in N : \A h \in Hours : h < n => Of(rows', h) = Of(rows, h)
      PROVE  \A n \in N : \A h \in Hours :
               Hour(Ago(Back)) < h /\ h < n => Cardinality(Of(rows', h)) <= Total(T, h)
    <2>1. \A h : Total(T, h) \in Nat /\ Total(T, h) <= Total(T, h)
        BY <1>4, TotalNat
    <2> QED BY <1>4, <2>1, StillCovered
<1>5. /\ \A h \in DOMAIN hourly : h \in Hours /\ hourly[h] \in 1..MaxQueries
      /\ \A h \in DOMAIN totals : h \in Hours /\ totals[h] \in 1..MaxQueries
      /\ Bounded(hourly) /\ Bounded(totals)
    BY DEF IInv, TypeOK
<1>6. \A n \in DOMAIN hourly \cup DOMAIN totals : \A h \in Hours :
        h < n => Of(rows', h) = Of(rows, h)
    BY <1>3, <1>5
<1>7. Ago(Back)' = Ago(Back)
    BY <1>2 DEF Ago
<1>8. CoveredBy(hourly, DOMAIN hourly)'
    BY <1>2, <1>4, <1>5, <1>6, <1>7 DEF Covered, CoveredBy
<1>9. job' = "write" => CoveredBy(totals, DOMAIN hourly \cup DOMAIN totals)'
    BY <1>2, <1>4, <1>5, <1>6, <1>7 DEF Covered, CoveredBy
<1> QED BY <1>8, <1>9 DEF Covered

\* rollup selects all rows of the whole hours that it looks back on.
LEMMA ReadCovered ==
    ASSUME WindowInv, RollupRead
    PROVE  Covered'
<1> USE DEF WindowInv
<1> DEFINE since == Ago(Back)
<1>1. totals' = Count(since) /\ UNCHANGED <<clock, rows, hourly>>
    BY DEF RollupRead
<1>2. clock \in Nat /\ since \in Nat
    BY QueryLogAssumption, AgoFacts DEF IInv, TypeOK
<1> HIDE DEF since
<1>3. ASSUME NEW h \in Hours, Hour(since) < h
      PROVE  Cardinality(Of(rows, h)) <= Total(totals', h)
    <2>1. \A r \in rows : r.ts \in Nat
        BY QueryLogAssumption DEF IInv, TypeOK, Entries
    <2>2. \A r \in rows : Hour(r.ts) = h => r.ts >= since
        BY <1>2, <1>3, <2>1, HourGrows, HourFacts
    <2>3. Of(Since(rows, since), h) = Of(rows, h)
        BY <2>2 DEF Of, Since
    <2>4. CASE h \in DOMAIN Count(since)
        <3>1. Total(totals', h) = Cardinality(Of(rows, h))
            BY <1>1, <2>3, <2>4 DEF Total, Count
        <3>2. IsFiniteSet(Of(rows, h))
            BY FS_Subset DEF IInv, TypeOK, Of
        <3> QED BY <3>1, <3>2, FS_CardinalityType
    <2>5. CASE h \notin DOMAIN Count(since)
        <3>1. Of(rows, h) = {}
            BY <2>3, <2>5 DEF Count, Of
        <3>2. Total(totals', h) = 0
            BY <1>1, <2>5 DEF Total
        <3> QED BY <3>1, <3>2, FS_EmptySet
    <2> QED BY <2>4, <2>5
<1>4. Hour(Ago(Back))' = Hour(since)
    BY <1>1 DEF Ago, since
<1>5. CoveredBy(hourly, DOMAIN hourly)'
    BY <1>1, <1>4 DEF Covered, CoveredBy, since
<1>6. CoveredBy(totals, DOMAIN hourly \cup DOMAIN totals)'
    BY <1>1, <1>3, <1>4 DEF CoveredBy
<1> QED BY <1>5, <1>6 DEF Covered

\* What was covered by the new totals is so once they are written.
LEMMA RollupCovered ==
    ASSUME WindowInv, RollupWrite, IInv'
    PROVE  Covered'
<1> USE DEF WindowInv
<1>1. /\ hourly' = [h \in DOMAIN hourly \cup DOMAIN totals |->
                      IF h \in DOMAIN totals THEN totals[h] ELSE hourly[h]]
      /\ job = "write" /\ job' = "purge" /\ UNCHANGED <<clock, rows>>
    BY DEF RollupWrite
<1>2. CoveredBy(totals, DOMAIN hourly \cup DOMAIN totals)
    BY <1>1 DEF Covered
<1>3. \A h : Total(totals, h) \in Nat /\ Total(hourly', h) \in Nat
    <2>1. Bounded(totals) /\ Bounded(hourly)'
        BY DEF IInv
    <2>2. \A h : Total(hourly, h)' \in Nat
        BY <2>1 DEF Bounded, Total
    <2> QED BY <2>1, <2>2, TotalNat DEF Total
<1>4. \A h : Total(totals, h) <= Total(hourly', h)
    <2> SUFFICES ASSUME NEW h PROVE Total(totals, h) <= Total(hourly', h)
        OBVIOUS
    <2>1. CASE h \in DOMAIN totals
        <3>1. Total(hourly', h) = Total(totals, h)
            BY <1>1, <2>1 DEF Total
        <3> QED BY <1>3, <3>1
    <2>2. CASE h \notin DOMAIN totals
        <3>1. Total(totals, h) = 0
            BY <2>2 DEF Total
        <3> QED BY <1>3, <3>1
    <2> QED BY <2>1, <2>2
<1>5. \A h : Of(rows', h) \subseteq Of(rows, h)
    BY <1>1
<1>6. DOMAIN hourly' = DOMAIN hourly \cup DOMAIN totals
    BY <1>1
<1>7. \A n \in DOMAIN hourly' : \A h \in Hours :
        Hour(Ago(Back)) < h /\ h < n => Cardinality(Of(rows', h)) <= Total(hourly', h)
    BY <1>2, <1>3, <1>4, <1>5, <1>6, StillCovered
<1>8. Ago(Back)' = Ago(Back)
    BY <1>1 DEF Ago
<1> QED BY <1>1, <1>7, <1>8 DEF Covered, CoveredBy

\* Totals are purged only behind the rollup's look back.
LEMMA PurgeCovered ==
    ASSUME WindowInv, PurgeHourly, Back <= RetainHourly
    PROVE  Covered'
<1> USE DEF WindowInv
<1> DEFINE keep == {h \in DOMAIN hourly : h >= Hour(Ago(RetainHourly))}
<1>1. hourly' = Restrict(hourly, keep) /\ job' = "idle" /\ UNCHANGED <<clock, rows>>
    BY DEF PurgeHourly
<1>2. Hour(Ago(RetainHourly)) <= Hour(Ago(Back))
      /\ Hour(Ago(RetainHourly)) \in Nat /\ Hour(Ago(Back)) \in Nat
    <2>1. clock \in Nat /\ Back \in Nat /\ RetainHourly \in Nat
        BY QueryLogAssumption DEF IInv, TypeOK
    <2>2. /\ Ago(RetainHourly) \in Nat /\ Ago(Back) \in Nat
          /\ Ago(RetainHourly) <= Ago(Back)
        BY <2>1, AgoFacts
    <2> QED BY <2>2, HourFacts, HourGrows
<1>3. ASSUME NEW h \in Hours, Hour(Ago(Back)) < h
      PROVE  Total(hourly', h) = Total(hourly, h)
    <2>1. h \in DOMAIN hourly => h \in keep
        BY <1>2, <1>3, QueryLogAssumption, HourFacts DEF Hours
    <2>2. DOMAIN hourly' = keep /\ \A x \in keep : hourly'[x] = hourly[x]
        BY <1>1 DEF Restrict
    <2> QED BY <2>1, <2>2 DEF Total
<1>4. DOMAIN hourly' \subseteq DOMAIN hourly
    BY <1>1 DEF Restrict
<1>5. Ago(Back)' = Ago(Back)
    BY <1>1 DEF Ago
<1> QED BY <1>1, <1>3, <1>4, <1>5 DEF Covered, CoveredBy

\* Every step keeps the totals complete.
LEMMA CoveredStep ==
    ASSUME WindowInv, [Next]_vars, IInv', Back <= RetainHourly
    PROVE  Covered'
<1>1. clock \in Nat
    BY QueryLogAssumption DEF WindowInv, IInv, TypeOK
<1>2. CASE \/ Record \/ TakeBatch \/ LoseBatch \/ JobFails \/ Split \/ Answer \/ UNCHANGED vars
    <2>1. \/ UNCHANGED <<clock, rows, hourly, job, totals>>
          \/ UNCHANGED <<clock, rows, hourly>> /\ job' = "idle"
        BY <1>2 DEF Record, TakeBatch, LoseBatch, JobFails, Split, Answer, vars
    <2> QED BY <1>1, <2>1, Shrinks
<1>3. CASE Crash
    BY <1>1, <1>3, Shrinks DEF Crash
<1>4. CASE Tick
    BY <1>1, <1>4, Shrinks DEF Tick
<1>5. CASE PurgeQueries
    BY <1>1, <1>5, Shrinks DEF PurgeQueries, Since
<1>6. CASE Evict
    BY <1>1, <1>6, Shrinks DEF Evict
<1> QED
    BY <1>2, <1>3, <1>4, <1>5, <1>6, WriteCovered, ReadCovered, RollupCovered, PurgeCovered
    DEF Next

\* And the hour up to which a request counts by totals is not purged under it.
LEMMA SplitStep ==
    ASSUME WindowInv, [Next]_vars, Window <= Back, Back <= RetainHourly
    PROVE  SplitInv'
<1> USE DEF WindowInv
<1>1. CASE Split
    <2>1. reader'.since = Ago(Window) /\ clock' = clock /\ hourly' = hourly
          /\ reader'.first = Hour(reader'.since) + 1
          /\ (reader'.at = "both" => reader'.newest > reader'.first /\ reader'.newest \in DOMAIN hourly)
        BY <1>1, SplitFacts
    <2> QED BY <2>1 DEF SplitInv, Ago
<1>2. CASE Crash \/ Answer
    BY <1>2 DEF Crash, Answer, SplitInv, NoReader
<1>3. CASE Tick
    BY <1>3 DEF Tick, SplitInv
<1>4. ASSUME UNCHANGED <<clock, reader>>,
             reader.at = "both" /\ reader.newest \in DOMAIN hourly => reader.newest \in DOMAIN hourly'
      PROVE  SplitInv'
    BY <1>4 DEF SplitInv, Ago
<1>5. CASE \/ Record \/ TakeBatch \/ WriteBatch \/ LoseBatch \/ RollupRead \/ PurgeQueries
           \/ JobFails \/ Evict \/ UNCHANGED vars
    <2>1. UNCHANGED <<clock, reader, hourly>>
        BY <1>5 DEF Record, TakeBatch, WriteBatch, LoseBatch, RollupRead, PurgeQueries, JobFails,
                    Evict, vars
    <2> QED BY <1>4, <2>1
<1>6. CASE RollupWrite
    BY <1>4, <1>6 DEF RollupWrite
<1>7. CASE PurgeHourly
    <2>1. UNCHANGED <<clock, reader>>
          /\ hourly' = Restrict(hourly, {h \in DOMAIN hourly : h >= Hour(Ago(RetainHourly))})
        BY <1>7 DEF PurgeHourly
    <2>2. /\ Ago(RetainHourly) \in Nat /\ Ago(Window) \in Nat
          /\ Ago(RetainHourly) <= Ago(Window)
        <3>1. clock \in Nat /\ Window \in Nat /\ RetainHourly \in Nat /\ Window <= RetainHourly
            BY QueryLogAssumption DEF IInv, TypeOK
        <3> QED BY <3>1, AgoFacts
    <2>3. /\ Hour(Ago(RetainHourly)) \in Nat /\ Hour(Ago(Window)) \in Nat
          /\ Hour(Ago(RetainHourly)) <= Hour(Ago(Window))
        BY <2>2, HourFacts, HourGrows
    <2>4. ASSUME reader.at = "both", reader.newest \in DOMAIN hourly
          PROVE  reader.newest >= Hour(Ago(RetainHourly))
        <3>1. reader.newest > Hour(Ago(Window)) + 1 /\ reader.newest \in Hours
            BY <2>4 DEF SplitInv, IInv, TypeOK
        <3>2. reader.newest \in Nat
            BY <3>1, QueryLogAssumption, HourFacts DEF Hours
        <3> QED BY <2>3, <3>1, <3>2
    <2> QED BY <1>4, <2>1, <2>4 DEF Restrict
<1> QED BY <1>1, <1>2, <1>3, <1>5, <1>6, <1>7 DEF Next

\* Three parts are no more than their sum, and that many when they are apart.
LEMMA ThreeParts ==
    ASSUME NEW A, NEW B, NEW C, IsFiniteSet(A), IsFiniteSet(B), IsFiniteSet(C)
    PROVE  /\ {Cardinality(A), Cardinality(B), Cardinality(C), Cardinality(A \cup B \cup C)}
                 \subseteq Nat
           /\ Cardinality(A \cup B \cup C) <= Cardinality(A) + Cardinality(B) + Cardinality(C)
           /\ A \cap B = {} /\ (A \cup B) \cap C = {} =>
                Cardinality(A \cup B \cup C) = Cardinality(A) + Cardinality(B) + Cardinality(C)
<1>1. /\ IsFiniteSet(A \cup B)
      /\ Cardinality(A \cup B) = Cardinality(A) + Cardinality(B) - Cardinality(A \cap B)
    BY FS_Union
<1>2. /\ IsFiniteSet(A \cup B \cup C)
      /\ Cardinality(A \cup B \cup C)
            = Cardinality(A \cup B) + Cardinality(C) - Cardinality((A \cup B) \cap C)
    BY <1>1, FS_Union
<1>3. IsFiniteSet(A \cap B) /\ IsFiniteSet((A \cup B) \cap C)
    BY <1>1, FS_Subset
<1>4. {Cardinality(A), Cardinality(B), Cardinality(C), Cardinality(A \cup B),
       Cardinality(A \cup B \cup C), Cardinality(A \cap B), Cardinality((A \cup B) \cap C)}
         \subseteq Nat
    BY <1>1, <1>2, <1>3, FS_CardinalityType
<1>5. ASSUME A \cap B = {}, (A \cup B) \cap C = {}
      PROVE  Cardinality(A \cup B \cup C) = Cardinality(A) + Cardinality(B) + Cardinality(C)
    <2>1. Cardinality(A \cap B) = 0 /\ Cardinality((A \cup B) \cap C) = 0
        BY <1>5, FS_EmptySet
    <2> QED BY <1>1, <1>2, <1>4, <2>1
<1> QED BY <1>1, <1>2, <1>4, <1>5

\* What the second statement adds up, against the rows that there are and that there were.
LEMMA ShownExact ==
    ASSUME WindowInv, Window <= Back, reader.at = "both"
    PROVE  /\ Shown >= Cardinality(Since(rows, reader.since))
           /\ Shown <= Cardinality(Since(ever, reader.since))
<1> USE DEF WindowInv
<1> DEFINE since == reader.since
           first == reader.first
           newest == reader.newest
           A == {r \in rows : r.ts >= since /\ r.ts < StartOf(first)}
           H == {h \in DOMAIN hourly : first <= h /\ h < newest}
           C == Since(rows, StartOf(newest))
<1>1. /\ since \in Nat /\ first \in Nat /\ newest \in Nat /\ since = Ago(Window)
      /\ first = Hour(since) + 1 /\ first < newest /\ newest \in DOMAIN hourly /\ newest \in Hours
    <2>1. reader \in [since : 0..MaxClock, first : Nat, newest : Hours, at : {"idle", "raw", "both"}]
        BY DEF IInv, TypeOK
    <2>2. Hours \subseteq Nat
        BY QueryLogAssumption, HourFacts DEF Hours
    <2>3. since = Ago(Window) /\ first = Hour(since) + 1 /\ newest > first /\ newest \in DOMAIN hourly
        BY DEF SplitInv
    <2>4. since \in Nat /\ first \in Nat /\ newest \in Hours
        BY <2>1, QueryLogAssumption
    <2>5. newest \in Nat
        BY <2>2, <2>4
    <2> HIDE DEF since, first, newest
    <2> QED BY <2>3, <2>4, <2>5
<1>2. Shown = Cardinality(A) + TotalOver(hourly, H) + Cardinality(C)
    BY DEF Shown
<1> HIDE DEF since, first, newest
<1>3. /\ StartOf(first) \in Nat /\ StartOf(newest) \in Nat /\ since < StartOf(first)
      /\ \A t \in Nat : /\ Hour(t) \in Nat
                        /\ t < StartOf(first) <=> Hour(t) < first
                        /\ t >= StartOf(newest) <=> Hour(t) >= newest
    <2>1. \A t \in Nat : \A h \in Nat :
            Hour(t) \in Nat /\ StartOf(h) \in Nat /\ (StartOf(h) <= t <=> h <= Hour(t))
        BY HourFacts
    <2> QED BY <1>1, <2>1
<1>4. \A r \in ever : r.ts \in Nat
    BY QueryLogAssumption DEF IInv, TypeOK, Entries
<1>5. rows \subseteq ever /\ IsFiniteSet(ever) /\ IsFiniteSet(rows)
    BY FS_Subset DEF IInv, TypeOK
<1>6. IsFiniteSet(A) /\ IsFiniteSet(C) /\ IsFiniteSet(OfHours(rows, H)) /\ IsFiniteSet(OfHours(ever, H))
    BY <1>5, FS_Subset DEF Since, OfHours
<1>7. IsFiniteSet(H) /\ H \subseteq Hours
    <2>1. IsFiniteSet(Hours)
        <3>1. Hour(MaxClock) \in Int
            BY QueryLogAssumption, HourFacts
        <3> QED BY <3>1, FS_Interval DEF Hours
    <2>2. H \subseteq Hours
        BY DEF IInv, TypeOK
    <2> QED BY <2>1, <2>2, FS_Subset
<1>8. Hour(Ago(Back)) < first /\ Hour(Ago(Back)) \in Nat
    <2>1. clock \in Nat /\ Window \in Nat /\ Back \in Nat
        BY QueryLogAssumption DEF IInv, TypeOK
    <2>2. Ago(Back) <= since /\ Ago(Back) \in Nat
        BY <1>1, <2>1, AgoFacts
    <2>3. Hour(Ago(Back)) <= Hour(since) /\ Hour(since) \in Nat /\ Hour(Ago(Back)) \in Nat
        BY <1>1, <2>2, HourFacts, HourGrows
    <2> QED BY <1>1, <2>3
<1>9. ASSUME NEW h \in Hours, first <= h, h < newest
      PROVE  Cardinality(Of(rows, h)) <= Total(hourly, h)
    <2>1. h \in Nat
        BY QueryLogAssumption, HourFacts DEF Hours
    <2>2. Hour(Ago(Back)) < h
        BY <1>1, <1>8, <1>9, <2>1
    <2> QED BY <1>1, <1>9, <2>2 DEF Covered, CoveredBy
<1>10. \A h \in H : hourly[h] \in Nat /\ Cardinality(Of(rows, h)) <= hourly[h]
                    /\ hourly[h] <= Cardinality(Of(ever, h))
    BY <1>7, <1>9 DEF IInv, Bounded, Total
<1>11. TotalOver(hourly, H) \in Nat /\ Cardinality(OfHours(rows, H)) <= TotalOver(hourly, H)
    BY <1>5, <1>7, <1>10, SumAtLeast
<1>12. TotalOver(hourly, H) <= Cardinality(OfHours(ever, H))
    BY <1>5, <1>7, <1>10, SumAtMost
<1>13. Since(rows, since) = A \cup OfHours(rows, H) \cup C
    <2>1. ASSUME NEW r \in rows, r.ts >= since, r \notin A, r \notin C
          PROVE  Hour(r.ts) \in H
        <3>1. r.ts \in Nat /\ first <= Hour(r.ts) /\ Hour(r.ts) < newest /\ Hour(r.ts) \in Nat
            BY <1>1, <1>3, <1>4, <1>5, <2>1 DEF Since
        <3>2. Hour(r.ts) \in Hours
            BY <1>5, InHours DEF IInv, TypeOK, Entries
        <3>3. Cardinality(Of(rows, Hour(r.ts))) <= Total(hourly, Hour(r.ts))
            BY <1>9, <3>1, <3>2
        <3>4. Of(rows, Hour(r.ts)) # {} /\ IsFiniteSet(Of(rows, Hour(r.ts)))
            BY <1>5, FS_Subset DEF Of
        <3>5. Cardinality(Of(rows, Hour(r.ts))) \in Nat \ {0}
            BY <3>4, FS_EmptySet, FS_CardinalityType
        <3>6. Hour(r.ts) \in DOMAIN hourly
            BY <3>3, <3>5 DEF Total
        <3> QED BY <3>1, <3>6
    <2>2. \A r \in rows : Hour(r.ts) \in H => r.ts >= since
        <3>1. ASSUME NEW r \in rows, Hour(r.ts) \in H PROVE r.ts >= since
            <4>1. first <= Hour(r.ts) /\ r.ts \in Nat
                BY <1>4, <1>5, <3>1
            <4>2. ~(r.ts < StartOf(first))
                BY <1>1, <1>3, <4>1
            <4> QED BY <1>1, <1>3, <4>1, <4>2
        <3> QED BY <3>1
    <2>3. \A r \in C : r.ts >= since
        <3>1. ASSUME NEW r \in C PROVE r.ts >= since
            <4>1. r.ts \in Nat /\ r.ts >= StartOf(newest)
                BY <1>4, <1>5 DEF Since
            <4>2. ~(r.ts < StartOf(first))
                BY <1>1, <1>3, <4>1
            <4> QED BY <1>1, <1>3, <4>1, <4>2
        <3> QED BY <3>1
    <2> QED BY <2>1, <2>2, <2>3 DEF Since, OfHours
<1>14. /\ A \cap OfHours(ever, H) = {} /\ (A \cup OfHours(ever, H)) \cap C = {}
       /\ A \cup OfHours(ever, H) \cup C \subseteq Since(ever, since)
    <2>1. \A r \in A : Hour(r.ts) < first /\ r.ts >= since /\ r \in ever
        BY <1>3, <1>4, <1>5
    <2>2. \A r \in C : Hour(r.ts) >= newest /\ r.ts >= since /\ r \in ever
        <3>1. ASSUME NEW r \in C PROVE Hour(r.ts) >= newest /\ r.ts >= since /\ r \in ever
            <4>1. r.ts \in Nat /\ r.ts >= StartOf(newest) /\ r \in ever
                BY <1>4, <1>5 DEF Since
            <4>2. Hour(r.ts) >= newest /\ ~(r.ts < StartOf(first))
                BY <1>1, <1>3, <4>1
            <4> QED BY <1>1, <1>3, <4>1, <4>2
        <3> QED BY <3>1
    <2>3. \A r \in OfHours(ever, H) : /\ first <= Hour(r.ts) /\ Hour(r.ts) < newest
                                      /\ r.ts >= since /\ r \in ever
        <3>1. ASSUME NEW r \in OfHours(ever, H)
              PROVE  /\ first <= Hour(r.ts) /\ Hour(r.ts) < newest /\ r.ts >= since /\ r \in ever
            <4>1. first <= Hour(r.ts) /\ Hour(r.ts) < newest /\ r.ts \in Nat /\ r \in ever
                BY <1>4 DEF OfHours
            <4>2. ~(r.ts < StartOf(first))
                BY <1>1, <1>3, <4>1
            <4> QED BY <1>1, <1>3, <4>1, <4>2
        <3> QED BY <3>1
    <2>4. \A r \in ever : Hour(r.ts) \in Nat
        BY <1>3, <1>4
    <2> HIDE DEF A, C, H
    <2> QED BY <1>1, <2>1, <2>2, <2>3, <2>4 DEF Since
<1> HIDE DEF A, C, H
<1>15. /\ {Cardinality(A), Cardinality(C), Cardinality(OfHours(rows, H))} \subseteq Nat
       /\ Cardinality(Since(rows, since)) \in Nat
       /\ Cardinality(Since(rows, since))
            <= Cardinality(A) + Cardinality(OfHours(rows, H)) + Cardinality(C)
    BY <1>6, <1>13, ThreeParts
<1>16. /\ Cardinality(OfHours(ever, H)) \in Nat /\ Cardinality(Since(ever, since)) \in Nat
       /\ Cardinality(A) + Cardinality(OfHours(ever, H)) + Cardinality(C)
            <= Cardinality(Since(ever, since))
    <2>1. IsFiniteSet(Since(ever, since))
        BY <1>5, FS_Subset DEF Since
    <2>2. Cardinality(A \cup OfHours(ever, H) \cup C) <= Cardinality(Since(ever, since))
        BY <1>14, <2>1, FS_Subset
    <2>3. /\ Cardinality(A \cup OfHours(ever, H) \cup C)
                = Cardinality(A) + Cardinality(OfHours(ever, H)) + Cardinality(C)
          /\ Cardinality(OfHours(ever, H)) \in Nat
        BY <1>6, <1>14, ThreeParts
    <2> QED BY <2>1, <2>2, <2>3, FS_CardinalityType
<1>17. /\ Shown >= Cardinality(Since(rows, since)) /\ Shown <= Cardinality(Since(ever, since))
    BY <1>2, <1>11, <1>12, <1>15, <1>16
<1> QED BY <1>17 DEF since

\* _dns_window and dns_window_counts: as long as the dashboard looks back no further than
\* the rollup, and that no further than hourly totals are kept, a window shows every row
\* that is there, and none that never was, whatever comes between the two statements.
THEOREM WindowExactAlways ==
    ASSUME Window <= Back, Back <= RetainHourly
    PROVE  Spec => []WindowExact
<1>1. WindowInv /\ [Next]_vars => WindowInv'
    <2> SUFFICES ASSUME WindowInv, [Next]_vars PROVE WindowInv'
        OBVIOUS
    <2>1. IInv'
        BY Step DEF WindowInv
    <2> QED BY <2>1, CoveredStep, SplitStep DEF WindowInv
<1>2. WindowInv => WindowExact
    <2> SUFFICES ASSUME WindowInv, reader.at # "idle"
                 PROVE  /\ Shown >= Cardinality(Since(rows, reader.since))
                        /\ Shown <= Cardinality(Since(ever, reader.since))
        BY DEF WindowExact
    <2>1. CASE reader.at = "both"
        BY <2>1, ShownExact
    <2>2. CASE reader.at = "raw"
        <3>1. Shown = Cardinality(Since(rows, reader.since))
            BY <2>2 DEF Shown
        <3>2. /\ Since(rows, reader.since) \subseteq Since(ever, reader.since)
              /\ Since(ever, reader.since) \subseteq ever /\ IsFiniteSet(ever)
            BY DEF Since, WindowInv, IInv, TypeOK
        <3>3. IsFiniteSet(Since(ever, reader.since)) /\ IsFiniteSet(Since(rows, reader.since))
            BY <3>2, FS_Subset
        <3> QED BY <3>1, <3>2, <3>3, FS_Subset, FS_CardinalityType
    <2>3. reader.at \in {"idle", "raw", "both"}
        BY DEF WindowInv, IInv, TypeOK
    <2> QED BY <2>1, <2>2, <2>3
<1> QED BY <1>1, <1>2, InitInv, PTL DEF Spec

-----------------------------------------------------------------------------
(* Outages: sequences of sweeps.                                           *)

SweepSet == [at : Nat, seen : SUBSET Devices]
Chronological(cs) == \A i, j \in DOMAIN cs : i < j => cs[i].at < cs[j].at

\* Min finds the least of a set of numbers.
LEMMA Lowest ==
    ASSUME NEW S, S \subseteq Nat, S # {}
    PROVE  Min(S) \in S /\ \A n \in S : Min(S) <= n
BY Least DEF Min

\* The history is the last of the sweeps.
LEMMA Recent ==
    ASSUME sweeps \in Seq(SweepSet)
    PROVE  /\ Cycles \in Seq(SweepSet)
           /\ \E k \in 0..Len(sweeps) :
                 /\ Len(Cycles) = Len(sweeps) - k
                 /\ \A i \in 1..Len(Cycles) : Cycles[i] = sweeps[k + i]
<1> DEFINE reached == {i \in DOMAIN sweeps : sweeps[i].at + HistoryLength >= now}
           m == Min(reached \cup {Len(sweeps) + 1})
           n == Len(sweeps)
<1>1. n \in Nat /\ DOMAIN sweeps = 1..n
    BY LenProperties
<1>2. m \in 1..(n + 1)
    <2>1. reached \cup {n + 1} \subseteq 1..(n + 1)
        BY <1>1
    <2>2. reached \cup {n + 1} \subseteq Nat
        BY <2>1, <1>1
    <2> HIDE DEF reached
    <2>3. m \in reached \cup {n + 1}
        BY <2>2, Lowest
    <2> QED BY <2>1, <2>3
<1>3. Cycles = SubSeq(sweeps, m, n)
    BY DEF Cycles
<1> HIDE DEF m, n, reached
<1>4. /\ SubSeq(sweeps, m, n) \in Seq(SweepSet)
      /\ Len(SubSeq(sweeps, m, n)) = n - m + 1
      /\ \A i \in 1..(n - m + 1) : SubSeq(sweeps, m, n)[i] = sweeps[m + i - 1]
    <2>1. n = Len(sweeps)
        BY DEF n
    <2>2. CASE m = n + 1
        BY <1>1, <1>2, <2>1, <2>2, SubSeqProperties
    <2>3. CASE m <= n
        BY <1>1, <1>2, <2>1, <2>3, SubSeqProperties
    <2> QED BY <1>1, <1>2, <2>2, <2>3
<1>5. m - 1 \in 0..n /\ Len(Cycles) = n - (m - 1) /\ Cycles \in Seq(SweepSet)
    BY <1>1, <1>2, <1>3, <1>4
<1>6. \A i \in 1..Len(Cycles) : Cycles[i] = sweeps[(m - 1) + i]
    <2> TAKE i \in 1..Len(Cycles)
    <2>1. i \in 1..(n - m + 1) /\ m + i - 1 = (m - 1) + i
        BY <1>1, <1>2, <1>5
    <2> QED BY <1>3, <1>4, <2>1
<1> QED BY <1>5, <1>6 DEF n

\* The cycles are numbered, and their times grow.
LEMMA CycleFacts ==
    ASSUME NEW cs \in Seq(SweepSet), Chronological(cs)
    PROVE  /\ Len(cs) \in Nat /\ DOMAIN cs = 1..Len(cs)
           /\ \A i \in 1..Len(cs) : cs[i].at \in Nat /\ cs[i].seen \subseteq Devices
           /\ \A i, j \in 1..Len(cs) : i <= j => cs[i].at <= cs[j].at
           /\ \A i, j \in 1..Len(cs) : i < j => cs[i].at < cs[j].at
<1>1. Len(cs) \in Nat /\ DOMAIN cs = 1..Len(cs)
    BY LenProperties
<1>2. \A i \in 1..Len(cs) : cs[i].at \in Nat /\ cs[i].seen \subseteq Devices
    <2>1. \A i \in 1..Len(cs) : cs[i] \in SweepSet
        BY ElementOfSeq
    <2> QED BY <2>1 DEF SweepSet
<1>3. \A i, j \in 1..Len(cs) : i < j => cs[i].at < cs[j].at
    BY <1>1 DEF Chronological
<1>4. \A i, j \in 1..Len(cs) : i <= j => cs[i].at <= cs[j].at
    <2> TAKE i, j \in 1..Len(cs)
    <2>1. i < j \/ i = j \/ j < i
        BY <1>1
    <2> QED BY <1>1, <1>2, <1>3, <2>1
<1> QED BY <1>1, <1>2, <1>3, <1>4

LEMMA RecentOrdered ==
    ASSUME sweeps \in Seq(SweepSet), Chronological(sweeps)
    PROVE  Chronological(Cycles)
<1>1. PICK k \in 0..Len(sweeps) :
          /\ Len(Cycles) = Len(sweeps) - k
          /\ \A i \in 1..Len(Cycles) : Cycles[i] = sweeps[k + i]
    BY Recent
<1>2. Len(sweeps) \in Nat /\ DOMAIN sweeps = 1..Len(sweeps) /\ DOMAIN Cycles = 1..Len(Cycles)
    BY Recent, LenProperties
<1>3. ASSUME NEW i \in DOMAIN Cycles, NEW j \in DOMAIN Cycles, i < j PROVE Cycles[i].at < Cycles[j].at
    <2>1. k + i \in DOMAIN sweeps /\ k + j \in DOMAIN sweeps /\ k + i < k + j
        BY <1>1, <1>2, <1>3
    <2> QED BY <1>1, <1>2, <2>1 DEF Chronological
<1> QED BY <1>3 DEF Chronological

\* A device is next seen in a later cycle, or not at all; never in between.
LEMMA NextSeenFacts ==
    ASSUME NEW cs \in Seq(SweepSet), NEW d, NEW i \in SeenIn(cs, d)
    PROVE  /\ i \in 1..Len(cs)
           /\ NextSeen(cs, d, i) \in (i + 1)..(Len(cs) + 1)
           /\ NextSeen(cs, d, i) <= Len(cs) => NextSeen(cs, d, i) \in SeenIn(cs, d)
           /\ \A j \in SeenIn(cs, d) : j <= i \/ NextSeen(cs, d, i) <= j
<1> DEFINE S == {j \in SeenIn(cs, d) : j > i} \cup {Len(cs) + 1}
<1>1. Len(cs) \in Nat /\ SeenIn(cs, d) \subseteq 1..Len(cs)
    BY LenProperties DEF SeenIn
<1>2. S \subseteq (i + 1)..(Len(cs) + 1) /\ S # {}
    BY <1>1
<1>3. NextSeen(cs, d, i) = Min(S)
    BY DEF NextSeen
<1>4. Min(S) \in S /\ \A n \in S : Min(S) <= n
    <2>1. S \subseteq Nat
        BY <1>1, <1>2
    <2> HIDE DEF S
    <2> QED BY <1>2, <2>1, Lowest
<1>5. \A j \in SeenIn(cs, d) : j <= i \/ Min(S) <= j
    BY <1>1, <1>4
<1> QED BY <1>1, <1>2, <1>3, <1>4, <1>5

-----------------------------------------------------------------------------
(* Gaps, tolerances and absences.                                          *)

\* A value of a rank that there is.
LEMMA RankedFacts ==
    ASSUME NEW f, IsFiniteSet(DOMAIN f), NEW B \in Nat, \A h \in DOMAIN f : f[h] \in 0..B,
           NEW k \in 1..Cardinality(DOMAIN f)
    PROVE  Ranked(f, k) \in Nat
<1> DEFINE D == DOMAIN f
           upTo(j) == {h \in D : f[h] <= f[j]}
           values == {f[h] : h \in D}
           reach == {j \in D : Cardinality(upTo(j)) >= k}
           S == {f[h] : h \in reach}
<1>1. D # {}
    BY FS_EmptySet
<1>2. values \subseteq 0..B /\ values # {}
    BY <1>1
<1>3. PICK j \in D : \A h \in D : f[h] <= f[j]
    <2> HIDE DEF values
    <2>1. Max(values) \in values /\ \A v \in values : v <= Max(values)
        BY <1>2, Greatest
    <2>2. PICK j \in D : f[j] = Max(values)
        BY <2>1 DEF values
    <2> QED BY <2>1, <2>2 DEF values
<1>4. upTo(j) = D
    BY <1>3
<1>5. j \in reach
    <2>1. Cardinality(D) \in Nat /\ Cardinality(D) >= k
        BY FS_CardinalityType
    <2> QED BY <1>4, <2>1
<1>6. S \subseteq Nat /\ S # {}
    <2>1. reach \subseteq D
        OBVIOUS
    <2> HIDE DEF reach
    <2>2. \A h \in reach : f[h] \in Nat
        BY <2>1
    <2> QED BY <1>5, <2>2
<1>7. Ranked(f, k) = Min(S)
    BY DEF Ranked
<1> HIDE DEF S
<1> QED BY <1>6, <1>7, Lowest

LEMMA GapFacts ==
    ASSUME NEW cs \in Seq(SweepSet), Chronological(cs), NEW d
    PROVE  /\ IsFiniteSet(DOMAIN Gaps(cs, d))
           /\ \E B \in Nat : \A i \in DOMAIN Gaps(cs, d) : Gaps(cs, d)[i] \in 0..B
<1> DEFINE D == {j \in SeenIn(cs, d) : NextSeen(cs, d, j) <= Len(cs)}
           n == Len(cs)
<1>1. n \in Nat /\ DOMAIN cs = 1..n /\ D \subseteq 1..n /\ \A i \in 1..n : cs[i].at \in Nat
    <2>1. n \in Nat /\ DOMAIN cs = 1..n
        BY LenProperties
    <2>2. D \subseteq 1..n
        BY <2>1 DEF SeenIn
    <2>3. \A i \in 1..n : cs[i] \in SweepSet
        BY ElementOfSeq
    <2> QED BY <2>1, <2>2, <2>3 DEF SweepSet
<1>2. DOMAIN Gaps(cs, d) = D /\ \A i \in D : Gaps(cs, d)[i] = cs[NextSeen(cs, d, i)].at - cs[i].at
    BY DEF Gaps
<1>3. IsFiniteSet(D)
    <2>1. IsFiniteSet(1..n)
        BY <1>1, FS_Interval
    <2> HIDE DEF D
    <2> QED BY <1>1, <2>1, FS_Subset
<1>4. CASE D = {}
    BY <1>2, <1>3, <1>4
<1>5. CASE D # {}
    <2>1. n \in 1..n
        BY <1>1, <1>5
    <2>2. cs[n].at \in Nat
        BY <1>1, <2>1
    <2>3. ASSUME NEW i \in D PROVE cs[NextSeen(cs, d, i)].at - cs[i].at \in 0..cs[n].at
        <3> DEFINE q == NextSeen(cs, d, i)
        <3>1. i \in SeenIn(cs, d) /\ i \in 1..n /\ q <= n
            BY <1>1
        <3>2. q \in (i + 1)..n
            BY <3>1, <1>1, NextSeenFacts
        <3> HIDE DEF q
        <3>3. cs[i].at < cs[q].at /\ cs[q].at <= cs[n].at
            BY <3>1, <3>2, <1>1, <2>1 DEF Chronological
        <3>4. cs[i].at \in Nat /\ cs[q].at \in Nat
            BY <1>1, <3>1, <3>2
        <3>5. cs[q].at - cs[i].at \in 0..cs[n].at
            BY <3>3, <3>4, <2>2
        <3> QED BY <3>5 DEF q
    <2> HIDE DEF D, n
    <2> QED BY <1>2, <1>3, <2>2, <2>3
<1> QED BY <1>4, <1>5

\* No device has less than the grace.
LEMMA ToleranceFacts ==
    ASSUME NEW cs \in Seq(SweepSet), Chronological(cs), NEW d
    PROVE  Tolerance(cs, d) \in Nat /\ Tolerance(cs, d) >= Grace
<1> DEFINE f == Gaps(cs, d)
           n == Cardinality(DOMAIN f)
<1>1. Grace \in Nat
    BY OutagesAssumption
<1>2. IsFiniteSet(DOMAIN f) /\ \E B \in Nat : \A i \in DOMAIN f : f[i] \in 0..B
    BY GapFacts
<1>3. n \in Nat
    BY <1>2, FS_CardinalityType
<1>4. CASE n >= 3
    <2>1. (n + 1) \div 2 \in 1..n /\ n \div 2 + 1 \in 1..n
        BY <1>3, <1>4
    <2> HIDE DEF f
    <2>2. Ranked(f, (n + 1) \div 2) \in Nat /\ Ranked(f, n \div 2 + 1) \in Nat
        BY <1>2, <2>1, RankedFacts
    <2>3. TwiceMedian(f) \in Nat
        BY <2>2 DEF TwiceMedian
    <2> DEFINE t == TwiceMedian(f)
    <2>4. Tolerance(cs, d) = Max({Grace, t})
        BY <1>4 DEF Tolerance, f
    <2>5. t \in Nat
        BY <2>3
    <2> HIDE DEF t
    <2>6. {Grace, t} \subseteq 0..(Grace + t) /\ Grace + t \in Nat
        BY <1>1, <2>5
    <2>7. Max({Grace, t}) \in {Grace, t} /\ \A v \in {Grace, t} : v <= Max({Grace, t})
        BY <2>6, Greatest
    <2> QED BY <1>1, <2>4, <2>5, <2>7
<1>5. CASE ~ (n >= 3)
    BY <1>1, <1>5 DEF Tolerance
<1> QED BY <1>4, <1>5

\* The first of low..high - 1 that is too far from the sighting, or high.
Splits(cs, anchor, tolerance, low, high, k) ==
    /\ k \in low..high
    /\ \A j \in low..(k - 1) : cs[j].at - anchor <= tolerance
    /\ \A j \in k..(high - 1) : ~ (cs[j].at - anchor <= tolerance)

\* The cycles are in order: halving the range keeps what is looked for.
LEMMA SplitsHalf ==
    ASSUME NEW cs \in Seq(SweepSet), Chronological(cs), NEW anchor \in Nat, NEW tolerance \in Nat,
           NEW low \in 1..Len(cs), NEW high \in (low + 1)..(Len(cs) + 1),
           NEW mid \in low..(high - 1), NEW k
    PROVE  /\ cs[mid].at - anchor <= tolerance
                => (Splits(cs, anchor, tolerance, mid + 1, high, k) => Splits(cs, anchor, tolerance, low, high, k))
           /\ ~ (cs[mid].at - anchor <= tolerance)
                => (Splits(cs, anchor, tolerance, low, mid, k) => Splits(cs, anchor, tolerance, low, high, k))
<1>1. Len(cs) \in Nat /\ DOMAIN cs = 1..Len(cs)
    BY CycleFacts
<1>2. \A j \in 1..Len(cs) : cs[j].at \in Nat
    BY CycleFacts
<1>3. \A i, j \in 1..Len(cs) : i <= j => cs[i].at <= cs[j].at
    BY CycleFacts
<1>4. ASSUME cs[mid].at - anchor <= tolerance, Splits(cs, anchor, tolerance, mid + 1, high, k)
      PROVE  Splits(cs, anchor, tolerance, low, high, k)
    <2>1. ASSUME NEW j \in low..mid PROVE cs[j].at - anchor <= tolerance
        <3>1. j \in 1..Len(cs) /\ mid \in 1..Len(cs) /\ j <= mid
            BY <1>1
        <3>2. cs[j].at \in Nat /\ cs[mid].at \in Nat /\ cs[j].at <= cs[mid].at
            BY <1>2, <1>3, <3>1
        <3> QED BY <1>4, <3>2
    <2> QED BY <1>1, <1>4, <2>1 DEF Splits
<1>5. ASSUME ~ (cs[mid].at - anchor <= tolerance), Splits(cs, anchor, tolerance, low, mid, k)
      PROVE  Splits(cs, anchor, tolerance, low, high, k)
    <2>1. ASSUME NEW j \in mid..(high - 1) PROVE ~ (cs[j].at - anchor <= tolerance)
        <3>1. j \in 1..Len(cs) /\ mid \in 1..Len(cs) /\ mid <= j
            BY <1>1
        <3>2. cs[j].at \in Nat /\ cs[mid].at \in Nat /\ cs[mid].at <= cs[j].at
            BY <1>2, <1>3, <3>1
        <3> QED BY <1>5, <3>2
    <2> QED BY <1>1, <1>5, <2>1 DEF Splits
<1> QED BY <1>4, <1>5

\* The range on each side of the middle is the shorter one.
LEMMA Halves ==
    ASSUME NEW low \in Nat, NEW high \in Nat, NEW mid \in low..(high - 1)
    PROVE  /\ mid + 1 <= high /\ high - (mid + 1) < high - low
           /\ low <= mid /\ mid - low < high - low
OBVIOUS

LEMMA Differences ==
    ASSUME NEW low \in Nat, NEW high \in Nat, low <= high, NEW n \in Nat, high - low < n
    PROVE  high - low \in Nat /\ ~ (n <= high - low)
OBVIOUS

LEMMA SplitsOne ==
    ASSUME NEW cs, NEW anchor, NEW tolerance, NEW low \in Nat, NEW high \in Nat, NEW k, NEW h,
           Splits(cs, anchor, tolerance, low, high, k), Splits(cs, anchor, tolerance, low, high, h)
    PROVE  k = h
<1>1. k \in low..high /\ h \in low..high
    BY DEF Splits
<1>2. ASSUME k < h PROVE FALSE
    BY <1>1, <1>2 DEF Splits
<1>3. ASSUME h < k PROVE FALSE
    BY <1>1, <1>3 DEF Splits
<1> QED BY <1>1, <1>2, <1>3

\* There is such a cycle.
LEMMA SplitsSome ==
    ASSUME NEW cs \in Seq(SweepSet), Chronological(cs), NEW anchor \in Nat, NEW tolerance \in Nat,
           NEW low \in 1..(Len(cs) + 1), NEW high \in low..(Len(cs) + 1)
    PROVE  \E k : Splits(cs, anchor, tolerance, low, high, k)
<1> DEFINE S == {k \in low..high : k = high \/ ~ (cs[k].at - anchor <= tolerance)}
<1>1. Len(cs) \in Nat /\ DOMAIN cs = 1..Len(cs)
    BY CycleFacts
<1>2. \A j \in 1..Len(cs) : cs[j].at \in Nat
    BY CycleFacts
<1>3. PICK k \in S : \A n \in S : k <= n
    <2>1. S \subseteq Nat /\ high \in S
        BY <1>1
    <2> QED BY <2>1, Least
<1>4. \A j \in low..(k - 1) : cs[j].at - anchor <= tolerance
    BY <1>1, <1>3
<1>5. \A j \in k..(high - 1) : ~ (cs[j].at - anchor <= tolerance)
    <2> SUFFICES ASSUME NEW j \in k..(high - 1) PROVE ~ (cs[j].at - anchor <= tolerance)
        OBVIOUS
    <2>1. k \in 1..Len(cs) /\ j \in 1..Len(cs) /\ k <= j /\ k # high
        BY <1>1, <1>3
    <2>2. cs[k].at <= cs[j].at
        BY <2>1, CycleFacts
    <2>3. ~ (cs[k].at - anchor <= tolerance)
        BY <1>3, <2>1
    <2>4. cs[k].at \in Nat /\ cs[j].at \in Nat
        BY <1>2, <2>1
    <2> DEFINE x == cs[k].at
               y == cs[j].at
    <2> HIDE DEF S, x, y
    <2>5. x \in Nat /\ y \in Nat /\ x <= y /\ ~ (x - anchor <= tolerance)
        BY <2>2, <2>3, <2>4 DEF x, y
    <2>6. ~ (y - anchor <= tolerance)
        BY <2>5
    <2> QED BY <2>6 DEF y
<1> QED BY <1>3, <1>4, <1>5 DEF Splits

\* absence_tracks' binary search finds it.
LEMMA BeyondFacts ==
    ASSUME NEW cs \in Seq(SweepSet), Chronological(cs), NEW anchor \in Nat, NEW tolerance \in Nat,
           NEW from \in 1..(Len(cs) + 1), NEW to \in from..(Len(cs) + 1)
    PROVE  Splits(cs, anchor, tolerance, from, to, FirstBeyond(cs, anchor, tolerance, from, to))
<1> DEFINE Ranges == [low : from..to, high : from..to]
           near(j) == cs[j].at - anchor <= tolerance
           mid(r) == (r.low + r.high) \div 2
           step(s) == [r \in Ranges |->
                IF r.low >= r.high THEN r.low
                ELSE IF near(mid(r)) THEN s[[r EXCEPT !.low = mid(r) + 1]]
                ELSE s[[r EXCEPT !.high = mid(r)]]]
           found(r, k) == Splits(cs, anchor, tolerance, r.low, r.high, k)
           answer == [r \in Ranges |-> IF r.low >= r.high THEN r.low ELSE CHOOSE k : found(r, k)]
           upper(r) == [r EXCEPT !.low = mid(r) + 1]
           lower(r) == [r EXCEPT !.high = mid(r)]
<1>1. Len(cs) \in Nat /\ from..to \subseteq 1..(Len(cs) + 1)
    BY LenProperties
<1>2. ASSUME NEW r \in Ranges
      PROVE  /\ r.low \in from..to /\ r.high \in from..to
             /\ r.low \in Nat /\ r.high \in Nat
             /\ r.low \in 1..(Len(cs) + 1) /\ r.high \in 1..(Len(cs) + 1)
    BY <1>1
<1>3. ASSUME NEW r \in Ranges, r.low < r.high
      PROVE  /\ mid(r) \in r.low..(r.high - 1)
             /\ r.low \in 1..Len(cs) /\ r.high \in (r.low + 1)..(Len(cs) + 1)
             /\ upper(r) \in Ranges /\ upper(r).low = mid(r) + 1 /\ upper(r).high = r.high
             /\ lower(r) \in Ranges /\ lower(r).low = r.low /\ lower(r).high = mid(r)
    <2>1. mid(r) \in r.low..(r.high - 1)
        BY <1>2, <1>3
    <2>2. mid(r) \in from..to /\ mid(r) + 1 \in from..to
        BY <1>1, <1>2, <2>1
    <2>3. r.low \in 1..Len(cs) /\ r.high \in (r.low + 1)..(Len(cs) + 1)
        BY <1>1, <1>2, <1>3
    <2> HIDE DEF mid
    <2> QED BY <2>1, <2>2, <2>3
\* What is found in a half is found in the whole.
<1>4. ASSUME NEW r \in Ranges, r.low < r.high, NEW k
      PROVE  /\ near(mid(r)) /\ found(upper(r), k) => found(r, k)
             /\ ~ near(mid(r)) /\ found(lower(r), k) => found(r, k)
    <2>1. /\ mid(r) \in r.low..(r.high - 1)
          /\ r.low \in 1..Len(cs) /\ r.high \in (r.low + 1)..(Len(cs) + 1)
          /\ upper(r).low = mid(r) + 1 /\ upper(r).high = r.high
          /\ lower(r).low = r.low /\ lower(r).high = mid(r)
        BY <1>3, <1>4
    <2> HIDE DEF mid, upper, lower
    <2> QED BY <2>1, SplitsHalf
<1>5. ASSUME NEW r \in Ranges, r.low <= r.high PROVE found(r, answer[r])
    <2>1. CASE r.low = r.high
        <3>1. answer[r] = r.low
            BY <1>2, <2>1
        <3> QED BY <1>2, <2>1, <3>1 DEF Splits
    <2>2. CASE r.low < r.high
        <3>1. \E k : found(r, k)
            <4>1. r.low \in 1..(Len(cs) + 1) /\ r.high \in r.low..(Len(cs) + 1)
                BY <1>1, <1>2, <1>5
            <4> QED BY <4>1, SplitsSome
        <3> HIDE DEF found
        <3>2. answer[r] = CHOOSE k : found(r, k)
            BY <1>2, <2>2
        <3> QED BY <3>1, <3>2
    <2> QED BY <1>2, <1>5, <2>1, <2>2
<1>6. answer = step(answer)
    <2>1. ASSUME NEW r \in Ranges PROVE answer[r] = step(answer)[r]
        <3>1. CASE r.low >= r.high
            BY <3>1
        <3>2. CASE r.low < r.high
            <4> DEFINE half == IF near(mid(r)) THEN upper(r) ELSE lower(r)
            <4>1. ~ (r.low >= r.high)
                BY <1>2, <3>2
            <4>2. step(answer)[r] = answer[half]
                <5> HIDE DEF answer, near, mid
                <5> QED BY <4>1
            <4>3. half \in Ranges /\ half.low <= half.high
                <5>1. upper(r).low <= upper(r).high /\ lower(r).low <= lower(r).high
                    <6> HIDE DEF mid, upper, lower
                    <6> QED BY <1>2, <1>3, <3>2
                <5> HIDE DEF near, mid, upper, lower
                <5> QED BY <1>3, <3>2, <5>1
            <4>4. found(half, answer[half]) /\ found(r, answer[r])
                <5>1. r.low <= r.high
                    BY <1>2, <3>2
                <5> HIDE DEF half, answer, found, Ranges
                <5> QED BY <1>5, <4>3, <5>1
            <4>5. found(r, answer[half])
                <5> HIDE DEF answer, found, near, mid, upper, lower, Ranges
                <5> QED BY <1>4, <3>2, <4>4
            <4> HIDE DEF answer, half
            <4>6. answer[r] = answer[half]
                BY <1>2, <4>4, <4>5, SplitsOne
            <4> QED BY <4>2, <4>6
        <3> QED BY <1>2, <3>1, <3>2
    <2> DEFINE both == step(answer)
    <2>2. \A r \in Ranges : answer[r] = both[r]
        BY <2>1
    <2>3. answer = [r \in Ranges |-> answer[r]] /\ both = [r \in Ranges |-> both[r]]
        OBVIOUS
    <2> HIDE DEF answer, both
    <2>4. answer = both
        BY <2>2, <2>3
    <2> QED BY <2>4 DEF both
<1> DEFINE search == CHOOSE s : s = step(s)
<1>7. search = step(search)
    <2> HIDE DEF step, answer
    <2> QED BY <1>6
<1>8. FirstBeyond(cs, anchor, tolerance, from, to) = search[[low |-> from, high |-> to]]
    BY DEF FirstBeyond
<1>9. ASSUME NEW r \in Ranges
      PROVE  search[r] = IF r.low >= r.high THEN r.low
                         ELSE IF near(mid(r)) THEN search[upper(r)] ELSE search[lower(r)]
    <2> HIDE DEF search, near, mid
    <2> QED BY <1>7
<1> HIDE DEF search
<1> DEFINE wrong == {n \in Nat : \E r \in Ranges : r.low <= r.high /\ n = r.high - r.low /\ ~ found(r, search[r])}
<1>10. wrong = {}
    <2> SUFFICES ASSUME wrong # {} PROVE FALSE
        OBVIOUS
    <2>1. PICK n \in wrong : \A m \in wrong : n <= m
        <3>1. wrong \subseteq Nat
            OBVIOUS
        <3> HIDE DEF wrong
        <3> QED BY <3>1, Least
    <2>2. PICK r \in Ranges : r.low <= r.high /\ n = r.high - r.low /\ ~ found(r, search[r])
        BY <2>1
    <2>3. r.low # r.high
        <3> SUFFICES ASSUME r.low = r.high PROVE FALSE
            OBVIOUS
        <3>1. search[r] = r.low
            <4>1. r.low >= r.high
                BY <1>2
            <4> HIDE DEF near, mid, upper, lower
            <4> QED BY <1>9, <4>1
        <3> QED BY <1>2, <2>2, <3>1 DEF Splits
    <2>4. r.low < r.high /\ ~ (r.low >= r.high)
        <3>1. r.low \in Nat /\ r.high \in Nat /\ r.low <= r.high
            BY <1>2, <2>2
        <3> HIDE DEF found, near, mid, upper, lower, wrong, Ranges
        <3> QED BY <2>3, <3>1
    <2> DEFINE half == IF near(mid(r)) THEN upper(r) ELSE lower(r)
    <2>5. half \in Ranges /\ half.low <= half.high /\ half.high - half.low < r.high - r.low
        <3>1. /\ upper(r).low <= upper(r).high /\ upper(r).high - upper(r).low < r.high - r.low
              /\ lower(r).low <= lower(r).high /\ lower(r).high - lower(r).low < r.high - r.low
            <4>1. r.low \in Nat /\ r.high \in Nat
                BY <1>2
            <4> HIDE DEF near, mid, upper, lower, found, wrong, Ranges
            <4>2. /\ mid(r) \in r.low..(r.high - 1)
                  /\ upper(r).low = mid(r) + 1 /\ upper(r).high = r.high
                  /\ lower(r).low = r.low /\ lower(r).high = mid(r)
                BY <1>3, <2>4
            <4>3. /\ mid(r) + 1 <= r.high /\ r.high - (mid(r) + 1) < r.high - r.low
                  /\ r.low <= mid(r) /\ mid(r) - r.low < r.high - r.low
                BY <4>1, <4>2, Halves
            <4> QED BY <4>2, <4>3
        <3> HIDE DEF near, mid, upper, lower
        <3> QED BY <1>3, <2>4, <3>1
    <2>6. found(half, search[half])
        <3>1. half.low \in Nat /\ half.high \in Nat /\ r.low \in Nat /\ r.high \in Nat
            <4> HIDE DEF half
            <4> QED BY <1>2, <2>5
        <3> HIDE DEF half, found, near, mid, upper, lower, Ranges
        <3>2. r.high - r.low \in Nat /\ n = r.high - r.low
            BY <2>2
        <3>3. half.high - half.low \in Nat /\ ~ (n <= half.high - half.low)
            BY <2>5, <3>1, <3>2, Differences
        <3>4. half.high - half.low \in wrong => n <= half.high - half.low
            BY <2>1
        <3> QED BY <2>5, <3>3, <3>4
    <2>7. search[r] = search[half]
        <3> HIDE DEF near, mid, upper, lower
        <3> QED BY <1>9, <2>4
    <2>8. found(r, search[half])
        <3> HIDE DEF found, near, mid, upper, lower, Ranges
        <3> QED BY <1>4, <2>4, <2>6
    <2> HIDE DEF found, half
    <2> QED BY <2>2, <2>7, <2>8
<1>11. found([low |-> from, high |-> to], search[[low |-> from, high |-> to]])
    <2> DEFINE r == [low |-> from, high |-> to]
    <2>1. r \in Ranges /\ r.low <= r.high /\ r.high - r.low \in Nat
        BY <1>1
    <2> HIDE DEF found, r, Ranges
    <2>2. found(r, search[r])
        BY <1>10, <2>1
    <2> QED BY <2>2 DEF r
<1> QED BY <1>8, <1>11

\* Where the absence after a sighting starts: until there the tolerance lasts.
Starts(cs, d, i, k) ==
    /\ k \in (i + 1)..NextSeen(cs, d, i)
    /\ \A j \in i..(k - 1) : cs[j].at - cs[i].at <= Tolerance(cs, d)
    /\ \A j \in k..(NextSeen(cs, d, i) - 1) : ~ (cs[j].at - cs[i].at <= Tolerance(cs, d))

LEMMA StartFacts ==
    ASSUME NEW cs \in Seq(SweepSet), Chronological(cs), NEW d, NEW i \in SeenIn(cs, d)
    PROVE  Starts(cs, d, i, FirstBeyond(cs, cs[i].at, Tolerance(cs, d), i + 1, NextSeen(cs, d, i)))
<1> DEFINE t == Tolerance(cs, d)
           next == NextSeen(cs, d, i)
           a == cs[i].at
           k == FirstBeyond(cs, a, t, i + 1, next)
<1>1. t \in Nat
    BY ToleranceFacts
<1>2. i \in 1..Len(cs) /\ next \in (i + 1)..(Len(cs) + 1) /\ Len(cs) \in Nat
    BY NextSeenFacts, CycleFacts
<1>3. a \in Nat
    BY <1>2, CycleFacts
<1>4. i + 1 \in 1..(Len(cs) + 1)
    BY <1>2
<1>5. Splits(cs, a, t, i + 1, next, k)
    <2> HIDE DEF a, t, next
    <2> QED BY <1>1, <1>2, <1>3, <1>4, BeyondFacts
<1>6. cs[i].at - a <= t
    BY <1>1, <1>3
<1> HIDE DEF t, next, k
<1>7. k \in (i + 1)..next /\ \A j \in i..(k - 1) : cs[j].at - a <= t
    <2>1. k \in (i + 1)..next /\ \A j \in (i + 1)..(k - 1) : cs[j].at - a <= t
        BY <1>5 DEF Splits
    <2>2. \A j \in i..(k - 1) : j = i \/ j \in (i + 1)..(k - 1)
        BY <1>2, <2>1
    <2> HIDE DEF a
    <2> QED BY <1>6, <2>1, <2>2
<1>8. \A j \in k..(next - 1) : ~ (cs[j].at - a <= t)
    BY <1>5 DEF Splits
<1> QED BY <1>7, <1>8 DEF Starts, t, next, k

\* Every absence follows a sighting, and every sighting whose tolerance is used
\* up before the next has its absence.
LEMMA AbsenceFacts ==
    ASSUME NEW cs \in Seq(SweepSet), Chronological(cs), NEW d
    PROVE  /\ \A r \in Absences(cs, d) : \E i \in SeenIn(cs, d) :
                 r.stop = NextSeen(cs, d, i) /\ r.start < r.stop /\ Starts(cs, d, i, r.start)
           /\ \A i \in SeenIn(cs, d) : \E k :
                 /\ Starts(cs, d, i, k)
                 /\ k < NextSeen(cs, d, i) =>
                       \E r \in Absences(cs, d) : r.start = k /\ r.stop = NextSeen(cs, d, i)
<1> DEFINE k(i) == FirstBeyond(cs, cs[i].at, Tolerance(cs, d), i + 1, NextSeen(cs, d, i))
           range(i) == [start |-> k(i), stop |-> NextSeen(cs, d, i)]
<1>1. Absences(cs, d) = {r \in {range(i) : i \in SeenIn(cs, d)} : r.start < r.stop}
    BY DEF Absences
<1>2. \A i \in SeenIn(cs, d) : Starts(cs, d, i, k(i))
    BY StartFacts
<1> HIDE DEF k
<1>3. \A r \in Absences(cs, d) : \E i \in SeenIn(cs, d) :
          r.stop = NextSeen(cs, d, i) /\ r.start < r.stop /\ Starts(cs, d, i, r.start)
    <2> TAKE r \in Absences(cs, d)
    <2>1. PICK i \in SeenIn(cs, d) : r = range(i) /\ r.start < r.stop
        BY <1>1
    <2>2. r.start = k(i) /\ r.stop = NextSeen(cs, d, i)
        BY <2>1
    <2> QED BY <1>2, <2>1, <2>2
<1>4. ASSUME NEW i \in SeenIn(cs, d), k(i) < NextSeen(cs, d, i)
      PROVE  \E r \in Absences(cs, d) : r.start = k(i) /\ r.stop = NextSeen(cs, d, i)
    <2>1. range(i).start = k(i) /\ range(i).stop = NextSeen(cs, d, i)
        OBVIOUS
    <2>2. range(i) \in Absences(cs, d)
        BY <1>1, <1>4, <2>1
    <2> QED BY <2>1, <2>2
<1> QED BY <1>2, <1>3, <1>4

\* Present: seen, no longer ago than the tolerance.
Present(cs, d, i) == \E p \in SeenIn(cs, d) : p <= i /\ cs[i].at - cs[p].at <= Tolerance(cs, d)

LEMMA AbsentInRange ==
    ASSUME NEW cs \in Seq(SweepSet), Chronological(cs), NEW d, NEW r \in Absences(cs, d), NEW i \in r.start..(r.stop - 1)
    PROVE  ~ Present(cs, d, i)
<1>1. PICK q \in SeenIn(cs, d) : r.stop = NextSeen(cs, d, q) /\ r.start < r.stop /\ Starts(cs, d, q, r.start)
    BY AbsenceFacts
<1>2. /\ q \in 1..Len(cs) /\ r.stop \in (q + 1)..(Len(cs) + 1)
      /\ \A j \in SeenIn(cs, d) : j <= q \/ r.stop <= j
    BY <1>1, NextSeenFacts
<1>3. Len(cs) \in Nat /\ \A j \in 1..Len(cs) : cs[j].at \in Nat
    BY CycleFacts
<1>4. r.start \in (q + 1)..r.stop /\ ~ (cs[i].at - cs[q].at <= Tolerance(cs, d))
    BY <1>1 DEF Starts
<1>5. i \in 1..Len(cs)
    BY <1>2, <1>3, <1>4
<1>6. SUFFICES ASSUME NEW p \in SeenIn(cs, d), p <= i, cs[i].at - cs[p].at <= Tolerance(cs, d) PROVE FALSE
    BY DEF Present
<1>7. p \in 1..Len(cs) /\ p <= q
    <2>1. p \in 1..Len(cs)
        BY NextSeenFacts
    <2>2. i < r.stop
        BY <1>2, <1>3, <1>4
    <2> QED BY <1>2, <1>3, <1>5, <1>6, <2>1, <2>2
<1>8. cs[p].at <= cs[q].at
    BY <1>2, <1>7, CycleFacts
<1>9. Tolerance(cs, d) \in Nat
    BY ToleranceFacts
<1>10. cs[i].at \in Nat /\ cs[p].at \in Nat /\ cs[q].at \in Nat
    BY <1>2, <1>5, <1>7, CycleFacts
<1>11. cs[i].at - cs[p].at <= Tolerance(cs, d) /\ ~ (cs[i].at - cs[q].at <= Tolerance(cs, d))
    BY <1>4, <1>6
<1> QED BY <1>8, <1>9, <1>10, <1>11

LEMMA AbsentHasRange ==
    ASSUME NEW cs \in Seq(SweepSet), Chronological(cs), NEW d, NEW first \in SeenIn(cs, d), NEW i \in first..Len(cs),
           ~ Present(cs, d, i)
    PROVE  \E r \in Absences(cs, d) : i \in r.start..(r.stop - 1)
<1> DEFINE S == {p \in SeenIn(cs, d) : p <= i}
           q == Max(S)
<1>1. Len(cs) \in Nat /\ SeenIn(cs, d) \subseteq 1..Len(cs) /\ \A j \in 1..Len(cs) : cs[j].at \in Nat
    BY CycleFacts DEF SeenIn
<1>2. S \subseteq 0..Len(cs) /\ S # {}
    BY <1>1
<1>3. q \in S /\ \A p \in S : p <= q
    <2> HIDE DEF S
    <2> QED BY <1>1, <1>2, Greatest
<1> HIDE DEF q
<1>4. q \in SeenIn(cs, d) /\ q <= i /\ q \in 1..Len(cs) /\ i \in 1..Len(cs)
    BY <1>1, <1>3
<1>5. /\ NextSeen(cs, d, q) \in (q + 1)..(Len(cs) + 1)
      /\ NextSeen(cs, d, q) <= Len(cs) => NextSeen(cs, d, q) \in SeenIn(cs, d)
    BY <1>4, NextSeenFacts
<1>6. i < NextSeen(cs, d, q)
    BY <1>1, <1>3, <1>4, <1>5
<1>7. PICK k : /\ Starts(cs, d, q, k)
               /\ k < NextSeen(cs, d, q) =>
                     \E r \in Absences(cs, d) : r.start = k /\ r.stop = NextSeen(cs, d, q)
    BY <1>4, AbsenceFacts
<1>8. ~ (cs[i].at - cs[q].at <= Tolerance(cs, d))
    BY <1>4 DEF Present
<1>9. k \in (q + 1)..NextSeen(cs, d, q) /\ k <= i
    <2>1. k \in (q + 1)..NextSeen(cs, d, q) /\ \A j \in q..(k - 1) : cs[j].at - cs[q].at <= Tolerance(cs, d)
        BY <1>7 DEF Starts
    <2> QED BY <1>4, <1>5, <1>8, <2>1
<1>10. PICK r \in Absences(cs, d) : r.start = k /\ r.stop = NextSeen(cs, d, q)
    BY <1>4, <1>5, <1>6, <1>7, <1>9
<1>11. i \in r.start..(r.stop - 1)
    BY <1>4, <1>5, <1>6, <1>9, <1>10
<1> QED BY <1>11

LEMMA TracksAgreeHere ==
    ASSUME sweeps \in Seq(SweepSet), Chronological(sweeps)
    PROVE  TracksAgree
<1> DEFINE cs == Cycles
<1>1. cs \in Seq(SweepSet) /\ Chronological(cs)
    BY Recent, RecentOrdered
<1>2. SUFFICES ASSUME NEW d \in Known(cs)
      PROVE  /\ \A i \in First(cs, d)..Len(cs) :
                   ~ Present(cs, d, i) <=> \E r \in Absences(cs, d) : i \in r.start..(r.stop - 1)
             /\ \A r \in Absences(cs, d) : Present(cs, d, r.start - 1)
    BY DEF TracksAgree, Present
<1> HIDE DEF cs
<1>3. First(cs, d) \in SeenIn(cs, d)
    <2>1. SeenIn(cs, d) \subseteq Nat /\ SeenIn(cs, d) # {}
        BY <1>1, CycleFacts DEF SeenIn, Known
    <2> QED BY <2>1, Lowest DEF First
<1>4. ASSUME NEW i \in First(cs, d)..Len(cs)
      PROVE  ~ Present(cs, d, i) <=> \E r \in Absences(cs, d) : i \in r.start..(r.stop - 1)
    BY <1>1, <1>3, AbsentInRange, AbsentHasRange
<1>5. ASSUME NEW r \in Absences(cs, d) PROVE Present(cs, d, r.start - 1)
    <2>1. PICK q \in SeenIn(cs, d) : r.stop = NextSeen(cs, d, q) /\ r.start < r.stop /\ Starts(cs, d, q, r.start)
        BY <1>1, AbsenceFacts
    <2>2. q \in 1..Len(cs) /\ NextSeen(cs, d, q) \in (q + 1)..(Len(cs) + 1) /\ Len(cs) \in Nat
        BY <1>1, NextSeenFacts, CycleFacts
    <2>3. q <= r.start - 1 /\ r.start - 1 \in q..(r.start - 1)
        BY <2>1, <2>2 DEF Starts
    <2>4. cs[r.start - 1].at - cs[q].at <= Tolerance(cs, d)
        BY <2>1, <2>3 DEF Starts
    <2> QED BY <2>3, <2>4 DEF Present
<1> QED BY <1>4, <1>5

-----------------------------------------------------------------------------
(* What is detected, and its record.                                       *)

RecordOK(o) ==
    /\ o.start <= now /\ o.ended <= now
    /\ \A d \in o.members : Dropped(d, o.start)
    /\ o.ended # 0 => Cardinality(Returned(o)) >= MinMembers

OutagesInv ==
    /\ OutagesTypeOK /\ Chronological(sweeps)
    /\ \A o \in outages : RecordOK(o)
    /\ \A r \in Recorders : \A o \in recording[r].found : RecordOK(o)

Tracks == [d \in Known(Cycles) |-> Absences(Cycles, d)]

LEMMA SweepFacts ==
    ASSUME OutagesTypeOK, Chronological(sweeps)
    PROVE  /\ sweeps \in Seq(SweepSet) /\ Cycles \in Seq(SweepSet) /\ Chronological(Cycles)
           /\ now \in Nat /\ \A i \in 1..Len(sweeps) : sweeps[i].at <= now
<1>1. now \in Nat /\ [at : 1..now, seen : (SUBSET Devices) \ {{}}] \subseteq SweepSet
    BY DEF OutagesTypeOK, SweepSet
<1>2. \A i \in 1..Len(sweeps) : sweeps[i] \in [at : 1..now, seen : (SUBSET Devices) \ {{}}]
    BY ElementOfSeq DEF OutagesTypeOK
<1>3. sweeps \in Seq(SweepSet)
    <2>1. sweeps \in [1..Len(sweeps) -> SweepSet] /\ Len(sweeps) \in Nat
        BY <1>1, <1>2, LenProperties DEF OutagesTypeOK
    <2> QED BY <2>1, SeqDef
<1> QED BY <1>1, <1>2, <1>3, Recent, RecentOrdered

\* A drop: the device had been seen, was missing for its tolerance, and came back in cycle stop.
LEMMA DropFacts ==
    ASSUME OutagesTypeOK, Chronological(sweeps), NEW i \in DOMAIN Cycles, NEW x \in Drops(Cycles, Tracks, i)
    PROVE  /\ x.device \in Devices /\ Dropped(x.device, Cycles[i].at)
           /\ x.stop \in (i + 1)..(Len(Cycles) + 1)
           /\ x.stop <= Len(Cycles) => x.stop \in SeenIn(Cycles, x.device)
<1> DEFINE cs == Cycles
           n == Len(Cycles)
           at == Cycles[i].at
<1>0. PICK d \in Known(cs) : \E r \in Absences(cs, d) : r.start = i /\ x = [device |-> d, stop |-> r.stop]
    <2>1. PICK d \in Known(cs) : \E r \in Tracks[d] : r.start = i /\ x = [device |-> d, stop |-> r.stop]
        BY DEF Drops
    <2>2. Tracks[d] = Absences(cs, d)
        BY DEF Tracks
    <2> QED BY <2>1, <2>2
<1>1. PICK r \in Absences(cs, d) : r.start = i /\ x = [device |-> d, stop |-> r.stop]
    BY <1>0
<1>2. x.device = d /\ x.stop = r.stop
    BY <1>1
<1>3. cs \in Seq(SweepSet) /\ Chronological(cs) /\ sweeps \in Seq(SweepSet)
    BY SweepFacts
<1>4. PICK p \in SeenIn(cs, d) : r.stop = NextSeen(cs, d, p) /\ r.start < r.stop /\ Starts(cs, d, p, r.start)
    BY <1>3, AbsenceFacts
<1>5. n \in Nat /\ i \in 1..n /\ at \in Nat
    BY <1>3, CycleFacts
<1>6. /\ p \in 1..n /\ r.stop \in (p + 1)..(n + 1) /\ (r.stop <= n => r.stop \in SeenIn(cs, d))
      /\ \A j \in SeenIn(cs, d) : j <= p \/ r.stop <= j
    BY <1>3, <1>4, NextSeenFacts
<1>7. p < i /\ i < r.stop /\ ~ (at - cs[p].at <= Tolerance(cs, d))
    BY <1>1, <1>4, <1>5, <1>6 DEF Starts
<1>8. Tolerance(cs, d) \in Nat /\ Tolerance(cs, d) >= Grace /\ Grace \in Nat
    BY <1>3, ToleranceFacts, OutagesAssumption
<1>9. cs[p].at \in Nat /\ cs[p].at + Grace < at
    <2>1. cs[p].at \in Nat
        BY <1>3, <1>6, CycleFacts
    <2> HIDE DEF cs, at
    <2> QED BY <1>5, <1>7, <1>8, <2>1
<1>10. PICK k \in 0..Len(sweeps) : n = Len(sweeps) - k /\ \A j \in 1..n : cs[j] = sweeps[k + j]
    BY <1>3, Recent
<1>11. /\ Len(sweeps) \in Nat /\ DOMAIN sweeps = 1..Len(sweeps)
       /\ \A q \in 1..Len(sweeps) : sweeps[q].at \in Nat
       /\ \A q, h \in 1..Len(sweeps) : q <= h => sweeps[q].at <= sweeps[h].at
    BY <1>3, CycleFacts
<1>12. k + p \in SeenIn(sweeps, d) /\ sweeps[k + p] = cs[p]
    <2>1. d \in cs[p].seen
        BY <1>4 DEF SeenIn
    <2> QED BY <1>5, <1>6, <1>10, <1>11, <2>1 DEF SeenIn
<1>13. ASSUME NEW q \in SeenIn(sweeps, d) PROVE sweeps[q].at \notin (at - Grace)..at
    <2>1. q \in 1..Len(sweeps) /\ k + p \in 1..Len(sweeps)
        BY <1>11, <1>12 DEF SeenIn
    <2>2. CASE q <= k + p
        <3>1. sweeps[q].at <= cs[p].at /\ sweeps[q].at \in Nat
            BY <1>11, <1>12, <2>1, <2>2
        <3> HIDE DEF cs, at
        <3>2. sweeps[q].at + Grace < at
            BY <1>5, <1>8, <1>9, <3>1
        <3> QED BY <1>5, <1>8, <3>1, <3>2
    <2>3. CASE k + p < q
        <3> DEFINE j == q - k
        <3>1. j \in 1..n /\ k + j = q /\ p < j
            BY <1>5, <1>6, <1>10, <1>11, <2>1, <2>3
        <3> HIDE DEF j
        <3>2. cs[j] = sweeps[q]
            BY <1>10, <3>1
        <3>3. j \in SeenIn(cs, d)
            BY <1>3, <3>1, <3>2, CycleFacts DEF SeenIn
        <3>4. i < j
            BY <1>5, <1>6, <1>7, <3>1, <3>3
        <3>5. at < cs[j].at /\ cs[j].at \in Nat
            BY <1>3, <1>5, <3>1, <3>4, CycleFacts
        <3> HIDE DEF cs, at
        <3> QED BY <1>5, <3>2, <3>5
    <2> QED BY <1>10, <1>5, <1>6, <2>1, <2>2, <2>3
<1>14. Dropped(d, at)
    <2>1. sweeps[k + p].at < at
        BY <1>5, <1>8, <1>9, <1>12
    <2> QED BY <1>12, <1>13, <2>1 DEF Dropped
<1>15. d \in Devices
    <2>1. PICK j \in DOMAIN cs : d \in cs[j].seen
        BY DEF Known
    <2> QED BY <1>3, <2>1, CycleFacts
<1> QED BY <1>2, <1>5, <1>6, <1>7, <1>14, <1>15

\* What is detected: members that dropped, and returns of as many.
LEMMA OutageFacts ==
    ASSUME OutagesTypeOK, Chronological(sweeps), NEW i \in DOMAIN Cycles,
           NEW o, o = Outage(Cycles, Tracks, i), Cardinality(o.members) >= MinMembers
    PROVE  o \in OutageSet /\ RecordOK(o)
<1> DEFINE cs == Cycles
           n == Len(Cycles)
           drops == Drops(Cycles, Tracks, i)
           stops == {x.stop : x \in drops}
<1>1. /\ n \in Nat /\ i \in 1..n /\ now \in Nat
      /\ \A j \in 1..n : cs[j].at \in Nat /\ cs[j].at <= now
    <2>1. /\ cs \in Seq(SweepSet) /\ Chronological(cs) /\ sweeps \in Seq(SweepSet) /\ Chronological(sweeps)
          /\ now \in Nat /\ \A j \in 1..Len(sweeps) : sweeps[j].at <= now
        BY SweepFacts
    <2>2. PICK k \in 0..Len(sweeps) : n = Len(sweeps) - k /\ \A j \in 1..n : cs[j] = sweeps[k + j]
        BY <2>1, Recent
    <2>3. n \in Nat /\ i \in 1..n /\ Len(sweeps) \in Nat
        BY <2>1, CycleFacts
    <2>4. \A j \in 1..n : cs[j].at \in Nat
        BY <2>1, CycleFacts
    <2>5. ASSUME NEW j \in 1..n PROVE cs[j].at <= now
        <3>1. k + j \in 1..Len(sweeps)
            BY <2>2, <2>3
        <3> QED BY <2>1, <2>2, <3>1
    <2> QED BY <2>1, <2>3, <2>4, <2>5
<1>2. /\ o.start = cs[i].at /\ o.members = {x.device : x \in drops}
      /\ o.ended = IF stops = {} \/ n + 1 \in stops THEN 0 ELSE cs[Max(stops)].at
      /\ o = [start |-> o.start, members |-> o.members, ended |-> o.ended]
    BY DEF Outage
<1>3. ASSUME NEW x \in drops
      PROVE  /\ x.device \in Devices /\ Dropped(x.device, o.start)
             /\ x.stop \in (i + 1)..(n + 1) /\ (x.stop <= n => x.stop \in SeenIn(cs, x.device))
    BY <1>2, DropFacts
<1> HIDE DEF drops
<1>4. o.members \subseteq Devices /\ \A d \in o.members : Dropped(d, o.start)
    BY <1>2, <1>3
<1>5. o.start \in Nat /\ o.start <= now
    BY <1>1, <1>2
<1>6. CASE stops = {} \/ n + 1 \in stops
    <2>1. o.ended = 0
        BY <1>2, <1>6
    <2>2. o \in OutageSet
        BY <1>2, <1>4, <1>5, <2>1 DEF OutageSet
    <2> QED BY <1>1, <1>4, <1>5, <2>1, <2>2 DEF RecordOK
<1>7. CASE ~ (stops = {} \/ n + 1 \in stops)
    <2> DEFINE m == Max(stops)
    <2>1. stops \subseteq 1..n
        <3>1. \A x \in drops : x.stop \in 1..(n + 1) /\ x.stop # n + 1
            BY <1>1, <1>3, <1>7
        <3>2. \A x \in drops : x.stop \in 1..n
            BY <1>1, <3>1
        <3> QED BY <3>2
    <2>2. m \in stops /\ \A s \in stops : s <= m
        <3>1. stops \subseteq 0..n
            BY <1>1, <2>1
        <3> HIDE DEF stops
        <3> QED BY <1>1, <1>7, <3>1, Greatest
    <2>3. o.ended = cs[m].at
        BY <1>2, <1>7
    <2> HIDE DEF m
    <2>4. m \in 1..n /\ o.ended \in Nat /\ o.ended <= now
        <3>1. m \in 1..n
            BY <2>1, <2>2
        <3> QED BY <1>1, <2>3, <3>1
    <2>5. o \in OutageSet
        BY <1>2, <1>4, <1>5, <2>4 DEF OutageSet
    <2>6. ASSUME NEW x \in drops PROVE SeenWithin(x.device, o.start, o.ended)
        <3>1. x.stop \in 1..n /\ x.stop <= m /\ i < x.stop
            BY <1>1, <1>3, <2>1, <2>2
        <3>2. x.stop \in SeenIn(cs, x.device)
            BY <1>1, <1>3, <3>1
        <3>3. cs[i].at <= cs[x.stop].at /\ cs[x.stop].at <= cs[m].at
            <4>1. cs \in Seq(SweepSet) /\ Chronological(cs)
                BY SweepFacts
            <4> QED BY <1>1, <2>4, <3>1, <4>1, CycleFacts
        <3>4. PICK k \in 0..Len(sweeps) : n = Len(sweeps) - k /\ \A j \in 1..n : cs[j] = sweeps[k + j]
            BY SweepFacts, Recent
        <3>5. k + x.stop \in SeenIn(sweeps, x.device) /\ sweeps[k + x.stop] = cs[x.stop]
            <4>1. x.device \in cs[x.stop].seen
                BY <3>2 DEF SeenIn
            <4>2. Len(sweeps) \in Nat /\ DOMAIN sweeps = 1..Len(sweeps)
                BY SweepFacts, CycleFacts
            <4>3. k + x.stop \in 1..Len(sweeps)
                BY <1>1, <3>1, <3>4, <4>2
            <4> QED BY <3>1, <3>4, <4>1, <4>2, <4>3 DEF SeenIn
        <3>6. sweeps[k + x.stop].at \in o.start..o.ended
            <4>1. cs[x.stop].at \in Nat
                BY <1>1, <3>1
            <4>2. o.start <= cs[x.stop].at /\ cs[x.stop].at <= o.ended
                <5> HIDE DEF cs
                <5> QED BY <1>2, <2>3, <3>3
            <4>3. cs[x.stop].at \in o.start..o.ended
                <5> DEFINE v == cs[x.stop].at
                <5>1. v \in Nat /\ o.start <= v /\ v <= o.ended
                    BY <4>1, <4>2
                <5> HIDE DEF v
                <5>2. v \in o.start..o.ended
                    BY <1>5, <2>4, <5>1
                <5> QED BY <5>2 DEF v
            <4> QED BY <3>5, <4>3
        <3> QED BY <3>5, <3>6 DEF SeenWithin
    <2>7. o.members \subseteq Returned(o)
        BY <1>2, <1>3, <2>6 DEF Returned
    <2>8. Cardinality(Returned(o)) >= MinMembers
        <3>1. IsFiniteSet(Returned(o))
            BY OutagesAssumption, FS_Subset DEF Returned
        <3>2. Cardinality(o.members) <= Cardinality(Returned(o))
            BY <2>7, <3>1, FS_Subset
        <3>3. Cardinality(o.members) \in Nat /\ Cardinality(Returned(o)) \in Nat
            BY <2>7, <3>1, FS_Subset, FS_CardinalityType
        <3> QED BY <3>2, <3>3, OutagesAssumption
    <2> QED BY <1>4, <1>5, <2>4, <2>5, <2>8 DEF RecordOK
<1> QED BY <1>6, <1>7

LEMMA DetectedFacts ==
    ASSUME OutagesTypeOK, Chronological(sweeps), NEW o \in Detected(Cycles)
    PROVE  o \in OutageSet /\ RecordOK(o)
<1>1. PICK i \in DOMAIN Cycles : o = Outage(Cycles, Tracks, i) /\ Cardinality(o.members) >= MinMembers
    BY DEF Detected, Tracks
<1> QED BY <1>1, OutageFacts

-----------------------------------------------------------------------------
(* The steps.                                                              *)

\* A sweep takes nothing from what was known of earlier ones.
LEMMA SweptLater ==
    ASSUME OutagesTypeOK, Chronological(sweeps), NEW seen \in SUBSET Devices, Self \in seen, now < LastHour,
           now' = now + 1, sweeps' = Append(sweeps, [at |-> now', seen |-> seen])
    PROVE  /\ now' \in 0..LastHour /\ Chronological(sweeps)'
           /\ sweeps' \in Seq([at : 1..now, seen : (SUBSET Devices) \ {{}}])'
           /\ \A o \in OutageSet : RecordOK(o) => RecordOK(o)'
<1> DEFINE n == Len(sweeps)
           c == [at |-> now', seen |-> seen]
           T == [at : 1..now', seen : (SUBSET Devices) \ {{}}]
<1>1. /\ now \in Nat /\ sweeps \in Seq(SweepSet) /\ n \in Nat /\ DOMAIN sweeps = 1..n
      /\ \A i \in 1..n : sweeps[i].at \in Nat /\ sweeps[i].at <= now
    BY SweepFacts, CycleFacts
<1>2. now' \in 0..LastHour
    BY <1>1, OutagesAssumption
<1>3. /\ Len(sweeps') = n + 1 /\ DOMAIN sweeps' = 1..(n + 1)
      /\ \A i \in 1..n : sweeps'[i] = sweeps[i]
      /\ sweeps'[n + 1] = c
    <2>1. c \in SweepSet
        BY <1>1 DEF SweepSet
    <2> HIDE DEF c
    <2>2. sweeps' = Append(sweeps, c)
        BY DEF c
    <2>3. /\ sweeps' \in Seq(SweepSet) /\ Len(sweeps') = n + 1
          /\ \A i \in 1..n : sweeps'[i] = sweeps[i]
          /\ sweeps'[n + 1] = c
        BY <1>1, <2>1, <2>2, AppendProperties
    <2> HIDE DEF n, T
    <2>4. DOMAIN sweeps' = 1..(n + 1)
        BY <2>3, LenProperties
    <2> QED BY <2>3, <2>4
<1>4. sweeps' \in Seq(T)
    <2>1. \A i \in 1..n : sweeps[i] \in T
        <3>1. \A i \in 1..n : sweeps[i] \in [at : 1..now, seen : (SUBSET Devices) \ {{}}]
            BY ElementOfSeq DEF OutagesTypeOK
        <3>2. 1..now \subseteq 1..now'
            BY <1>1
        <3> QED BY <3>1, <3>2
    <2>2. c \in T
        <3>1. now' \in 1..now'
            BY <1>1
        <3>2. seen \in (SUBSET Devices) \ {{}}
            OBVIOUS
        <3>3. \A A, S : now' \in A /\ seen \in S => c \in [at : A, seen : S]
            OBVIOUS
        <3> QED BY <3>1, <3>2, <3>3
    <2>3. \A i \in 1..(n + 1) : sweeps'[i] \in T
        <3> HIDE DEF c, T
        <3>1. \A i \in 1..(n + 1) : i \in 1..n \/ i = n + 1
            BY <1>1
        <3> QED BY <1>3, <2>1, <2>2, <3>1
    <2> DEFINE m == n + 1
    <2>4. m \in Nat
        BY <1>1
    <2>5. sweeps' = [i \in 1..m |-> sweeps'[i]]
        BY <1>1, <1>3
    <2> HIDE DEF T, m
    <2>6. sweeps' \in [1..m -> T]
        BY <2>3, <2>5 DEF m
    <2> QED BY <2>4, <2>6, SeqDef
<1>5. Chronological(sweeps)'
    <2>1. ASSUME NEW i \in 1..(n + 1), NEW j \in 1..(n + 1), i < j PROVE sweeps'[i].at < sweeps'[j].at
        <3>1. i \in 1..n
            BY <1>1, <2>1
        <3>2. CASE j \in 1..n
            BY <1>1, <1>3, <2>1, <3>1, <3>2 DEF Chronological
        <3>3. CASE j = n + 1
            BY <1>1, <1>3, <3>1, <3>3
        <3> QED BY <1>1, <3>2, <3>3
    <2> QED BY <1>3, <2>1 DEF Chronological
<1>6. ASSUME NEW d PROVE /\ SeenIn(sweeps, d) \subseteq SeenIn(sweeps', d)
                         /\ \A i \in SeenIn(sweeps', d) : i \in SeenIn(sweeps, d) \/ i = n + 1
                         /\ \A i \in SeenIn(sweeps, d) : sweeps'[i] = sweeps[i]
    BY <1>1, <1>3 DEF SeenIn
<1>7. ASSUME NEW d, NEW at \in Nat, at <= now, Dropped(d, at) PROVE Dropped(d, at)'
    <2>1. \E i \in SeenIn(sweeps', d) : sweeps'[i].at < at
        BY <1>6, <1>7 DEF Dropped
    <2>2. \A i \in SeenIn(sweeps', d) : sweeps'[i].at \notin (at - Grace)..at
        <3>1. c.at \notin (at - Grace)..at
            BY <1>1, <1>7
        <3> HIDE DEF c
        <3> QED BY <1>3, <1>6, <1>7, <3>1 DEF Dropped
    <2> QED BY <2>1, <2>2 DEF Dropped
<1>8. ASSUME NEW d, NEW from, NEW to, SeenWithin(d, from, to) PROVE SeenWithin(d, from, to)'
    BY <1>6, <1>8 DEF SeenWithin
<1>9. ASSUME NEW o \in OutageSet, RecordOK(o) PROVE RecordOK(o)'
    <2>1. o.start \in Nat /\ o.ended \in Nat /\ o.start <= now' /\ o.ended <= now' /\ o.start <= now
        BY <1>1, <1>9 DEF RecordOK, OutageSet
    <2>2. \A d \in o.members : Dropped(d, o.start)'
        BY <1>7, <1>9, <2>1 DEF RecordOK
    <2>3. o.ended # 0 => (Cardinality(Returned(o)) >= MinMembers)'
        <3> SUFFICES ASSUME o.ended # 0 PROVE Cardinality(Returned(o)') >= MinMembers
            OBVIOUS
        <3>1. Returned(o) \subseteq Returned(o)'
            BY <1>7, <1>8, <2>1 DEF Returned
        <3>2. IsFiniteSet(Returned(o)')
            BY OutagesAssumption, FS_Subset DEF Returned
        <3>3. /\ Cardinality(Returned(o)) <= Cardinality(Returned(o)')
              /\ Cardinality(Returned(o)) \in Nat /\ Cardinality(Returned(o)') \in Nat
            BY <3>1, <3>2, FS_Subset, FS_CardinalityType
        <3> QED BY <1>9, <3>3, OutagesAssumption DEF RecordOK
    <2> QED BY <2>1, <2>2, <2>3 DEF RecordOK
<1> QED BY <1>2, <1>4, <1>5, <1>9


LEMMA OutagesInitInv == OutagesInit => OutagesInv
<1> SUFFICES ASSUME OutagesInit PROVE OutagesInv
    OBVIOUS
<1>1. NoJob \in [pc : {"idle", "known", "write"}, found : SUBSET OutageSet, known : SUBSET OutageSet]
    BY DEF NoJob
<1>2. sweeps = <<>> /\ sweeps \in Seq([at : 1..now, seen : (SUBSET Devices) \ {{}}]) /\ Len(sweeps) = 0
    BY EmptySeq DEF OutagesInit
<1>3. OutagesTypeOK
    BY <1>1, <1>2, OutagesAssumption DEF OutagesInit, OutagesTypeOK
<1>4. DOMAIN sweeps = {}
    BY <1>2
<1>5. \A r \in Recorders : recording[r].found = {}
    BY DEF OutagesInit, NoJob
<1> QED BY <1>3, <1>4, <1>5 DEF OutagesInit, OutagesInv, Chronological

\* Where time and sweeps do not change, neither does what is said of a record.
LEMMA Unswept ==
    ASSUME UNCHANGED <<now, sweeps>>, NEW o
    PROVE  RecordOK(o)' <=> RecordOK(o)
BY DEF RecordOK, Returned, Dropped, SeenWithin, SeenIn

LEMMA SweptStep ==
    ASSUME OutagesInv, NEW seen \in SUBSET (Devices \ {Self}), Sweep(seen) PROVE OutagesInv'
<1>1. /\ seen \cup {Self} \in SUBSET Devices /\ Self \in seen \cup {Self} /\ now < LastHour /\ now' = now + 1
      /\ sweeps' = Append(sweeps, [at |-> now', seen |-> seen \cup {Self}])
      /\ UNCHANGED <<outages, recording>>
    BY OutagesAssumption DEF Sweep
<1>2. /\ now' \in 0..LastHour /\ Chronological(sweeps)'
      /\ sweeps' \in Seq([at : 1..now, seen : (SUBSET Devices) \ {{}}])'
      /\ \A o \in OutageSet : RecordOK(o) => RecordOK(o)'
    BY <1>1, SweptLater DEF OutagesInv
<1>3. /\ outages \subseteq OutageSet /\ \A r \in Recorders : recording[r].found \subseteq OutageSet
      /\ OutagesTypeOK
    BY DEF OutagesInv, OutagesTypeOK
<1>4. OutagesTypeOK'
    BY <1>1, <1>2, <1>3 DEF OutagesTypeOK
<1> QED BY <1>1, <1>2, <1>3, <1>4 DEF OutagesInv

LEMMA UnsweptStep == ASSUME OutagesInv, NoSweep PROVE OutagesInv'
<1>1. now < LastHour /\ now' = now + 1 /\ UNCHANGED <<sweeps, outages, recording>>
    BY DEF NoSweep
<1>2. OutagesTypeOK /\ Chronological(sweeps) /\ now \in Nat /\ Chronological(sweeps)'
    BY <1>1, SweepFacts DEF OutagesInv, Chronological
<1>3. OutagesTypeOK'
    <2>1. sweeps \in [1..Len(sweeps) -> [at : 1..now, seen : (SUBSET Devices) \ {{}}]] /\ Len(sweeps) \in Nat
        BY <1>2, LenProperties DEF OutagesTypeOK
    <2>2. 1..now \subseteq 1..now' /\ now' \in 0..LastHour
        BY <1>1, <1>2, OutagesAssumption
    <2>3. sweeps \in [1..Len(sweeps) -> [at : 1..now', seen : (SUBSET Devices) \ {{}}]]
        <3>1. [at : 1..now, seen : (SUBSET Devices) \ {{}}] \subseteq [at : 1..now', seen : (SUBSET Devices) \ {{}}]
            BY <2>2
        <3> DEFINE A == [at : 1..now, seen : (SUBSET Devices) \ {{}}]
                   B == [at : 1..now', seen : (SUBSET Devices) \ {{}}]
        <3>2. sweeps \in [1..Len(sweeps) -> A] /\ A \subseteq B
            BY <2>1, <3>1
        <3> HIDE DEF A, B
        <3>3. sweeps \in [1..Len(sweeps) -> B]
            BY <3>2
        <3> QED BY <3>3 DEF B
    <2>4. sweeps \in Seq([at : 1..now', seen : (SUBSET Devices) \ {{}}])
        <3> DEFINE B == [at : 1..now', seen : (SUBSET Devices) \ {{}}]
        <3>1. sweeps \in [1..Len(sweeps) -> B]
            BY <2>3
        <3> HIDE DEF B
        <3>2. sweeps \in Seq(B)
            BY <2>1, <3>1, SeqDef
        <3> QED BY <3>2 DEF B
    <2> QED BY <1>1, <1>2, <2>2, <2>4 DEF OutagesTypeOK
<1>4. ASSUME NEW o \in OutageSet, RecordOK(o) PROVE RecordOK(o)'
    <2>1. o.start <= now' /\ o.ended <= now'
        BY <1>1, <1>2, <1>4 DEF RecordOK, OutageSet
    <2>2. /\ \A d \in o.members : Dropped(d, o.start)' <=> Dropped(d, o.start)
          /\ Returned(o)' = Returned(o)
        BY <1>1 DEF Returned, Dropped, SeenWithin, SeenIn
    <2> QED BY <1>4, <2>1, <2>2 DEF RecordOK
<1>5. outages \subseteq OutageSet /\ \A r \in Recorders : recording[r].found \subseteq OutageSet
    BY <1>2 DEF OutagesTypeOK
<1> QED BY <1>1, <1>2, <1>3, <1>4, <1>5 DEF OutagesInv

\* The types and the records, where only one recorder moves and some records are added or ended.
LEMMA RecorderKeeps ==
    ASSUME OutagesInv, UNCHANGED <<now, sweeps>>, NEW r \in Recorders,
           NEW j \in [pc : {"idle", "known", "write"}, found : SUBSET OutageSet, known : SUBSET OutageSet],
           \A o \in j.found : RecordOK(o), recording' = [recording EXCEPT ![r] = j],
           \A o \in outages' : o \in OutageSet /\ RecordOK(o)
    PROVE  OutagesInv'
<1> DEFINE Jobs == [pc : {"idle", "known", "write"}, found : SUBSET OutageSet, known : SUBSET OutageSet]
<1>1. OutagesTypeOK /\ Chronological(sweeps) /\ recording \in [Recorders -> Jobs] /\ j \in Jobs
    BY DEF OutagesInv, OutagesTypeOK
<1> HIDE DEF Jobs
<1>2. recording' \in [Recorders -> Jobs] /\ \A s \in Recorders : recording'[s] = IF s = r THEN j ELSE recording[s]
    BY <1>1
<1>3. OutagesTypeOK'
    BY <1>1, <1>2 DEF OutagesTypeOK, Jobs
<1>4. Chronological(sweeps)'
    BY <1>1 DEF Chronological
<1>5. \A o \in outages' : RecordOK(o)'
    BY Unswept
<1>6. \A s \in Recorders : \A o \in recording'[s].found : RecordOK(o)'
    BY <1>2, Unswept DEF OutagesInv
<1> QED BY <1>3, <1>4, <1>5, <1>6 DEF OutagesInv

\* Records that have gained an ending, or one more of them.
LEMMA RecordedFacts ==
    ASSUME OutagesInv, NEW o \in OutageSet, RecordOK(o), NEW known
    PROVE  \A k \in Recorded(o, known) : k \in OutageSet /\ RecordOK(k)
<1>1. \A k \in outages : k \in OutageSet /\ RecordOK(k)
    BY DEF OutagesInv, OutagesTypeOK
<1>2. ASSUME NEW k \in outages, k.start = o.start, o.ended # 0
      PROVE  [k EXCEPT !.ended = o.ended] \in OutageSet /\ RecordOK([k EXCEPT !.ended = o.ended])
    <2> DEFINE e == [k EXCEPT !.ended = o.ended]
    <2>1. k \in OutageSet /\ RecordOK(k)
        BY <1>1
    <2>2. e \in OutageSet /\ e.start = k.start /\ e.members = k.members /\ e.ended = o.ended
        BY <2>1 DEF OutageSet
    <2> HIDE DEF e
    <2>3. Returned(e) = Returned(o)
        BY <1>2, <2>2 DEF Returned
    <2>4. RecordOK(e)
        BY <1>2, <2>1, <2>2, <2>3 DEF RecordOK
    <2> QED BY <2>2, <2>4 DEF e
<1> QED BY <1>1, <1>2 DEF Recorded

LEMMA RecorderStep ==
    ASSUME OutagesInv, NEW r \in Recorders, Recorder(r) PROVE OutagesInv'
<1> DEFINE Jobs == [pc : {"idle", "known", "write"}, found : SUBSET OutageSet, known : SUBSET OutageSet]
<1>1. /\ OutagesTypeOK /\ Chronological(sweeps) /\ recording \in [Recorders -> Jobs]
      /\ \A o \in outages : o \in OutageSet /\ RecordOK(o)
      /\ \A o \in recording[r].found : o \in OutageSet /\ RecordOK(o)
    BY DEF OutagesInv, OutagesTypeOK
<1>2. recording[r] \in Jobs
    BY <1>1
<1>3. CASE Detect(r)
    <2> DEFINE found == Detected(Cycles)
               j == [NoJob EXCEPT !.pc = "known", !.found = found]
    <2>1. recording' = [recording EXCEPT ![r] = j] /\ UNCHANGED <<now, sweeps, outages>>
        BY <1>3 DEF Detect
    <2>2. \A o \in found : o \in OutageSet /\ RecordOK(o)
        BY <1>1, DetectedFacts
    <2> HIDE DEF found
    <2>3. j \in Jobs /\ j.found = found
        BY <2>2 DEF NoJob
    <2> HIDE DEF j
    <2> QED BY <1>1, <2>1, <2>2, <2>3, RecorderKeeps
<1>4. CASE ReadKnown(r)
    <2> DEFINE j == [recording[r] EXCEPT !.pc = "write", !.known = outages]
    <2>1. recording' = [recording EXCEPT ![r] = j] /\ UNCHANGED <<now, sweeps, outages>>
        BY <1>1, <1>4 DEF ReadKnown
    <2>2. j \in Jobs /\ j.found = recording[r].found
        BY <1>1, <1>2
    <2> HIDE DEF j
    <2> QED BY <1>1, <2>1, <2>2, RecorderKeeps
<1>5. CASE \E o \in recording[r].found : RecordOutage(r, o)
    <2>1. PICK o \in recording[r].found : RecordOutage(r, o)
        BY <1>5
    <2> DEFINE j == [recording[r] EXCEPT !.found = @ \ {o}]
    <2>2. /\ recording' = [recording EXCEPT ![r] = j] /\ UNCHANGED <<now, sweeps>>
          /\ outages' = Recorded(o, recording[r].known)
        BY <1>1, <2>1 DEF RecordOutage
    <2>3. j \in Jobs /\ j.found \subseteq recording[r].found
        BY <1>2
    <2>4. \A k \in outages' : k \in OutageSet /\ RecordOK(k)
        BY <1>1, <2>2, RecordedFacts
    <2> HIDE DEF j
    <2> QED BY <1>1, <2>2, <2>3, <2>4, RecorderKeeps
<1>6. CASE Finish(r)
    <2>1. recording' = [recording EXCEPT ![r] = NoJob] /\ UNCHANGED <<now, sweeps, outages>>
        BY <1>6 DEF Finish
    <2>2. NoJob \in Jobs /\ NoJob.found = {}
        BY DEF NoJob
    <2> QED BY <1>1, <2>1, <2>2, RecorderKeeps
<1> QED BY <1>3, <1>4, <1>5, <1>6 DEF Recorder

(* The invariant is inductive.                                             *)
THEOREM OutagesInductive == OutagesInv /\ [OutagesNext]_outageVars => OutagesInv'
<1> SUFFICES ASSUME OutagesInv, [OutagesNext]_outageVars PROVE OutagesInv'
    OBVIOUS
<1>1. CASE \E seen \in SUBSET (Devices \ {Self}) : Sweep(seen)
    BY <1>1, SweptStep
<1>2. CASE NoSweep
    BY <1>2, UnsweptStep
<1>3. CASE \E r \in Recorders : Recorder(r)
    BY <1>3, RecorderStep
<1>4. CASE UNCHANGED outageVars
    <2>1. UNCHANGED <<now, sweeps>> /\ UNCHANGED <<outages, recording>>
        BY <1>4 DEF outageVars
    <2>2. OutagesTypeOK' /\ Chronological(sweeps)'
        BY <2>1 DEF OutagesInv, OutagesTypeOK, Chronological
    <2> QED BY <2>1, <2>2, Unswept DEF OutagesInv
<1> QED BY <1>1, <1>2, <1>3, <1>4 DEF OutagesNext

(* The state, the records and the jobs of the recorders keep their types,  *)
(* and the sweeps their order.                                             *)
THEOREM OutagesInvAlways == OutagesSpec => []OutagesInv
BY OutagesInitInv, OutagesInductive, PTL DEF OutagesSpec

(* Whatever the history, the absences computed from the sightings          *)
(* (absence_tracks) are those of the presence matrix.                      *)
THEOREM TracksAgreeAlways == OutagesSpec => []TracksAgree
<1>1. OutagesInv => TracksAgree
    BY SweepFacts, TracksAgreeHere DEF OutagesInv
<1> QED BY <1>1, OutagesInvAlways, PTL

(* Nobody is on record who had not been seen before, or who was seen in    *)
(* the grace (detect_outages, record_outages).                             *)
THEOREM MembersWereMissingAlways == OutagesSpec => []MembersWereMissing
<1>1. OutagesInv => MembersWereMissing
    BY DEF OutagesInv, RecordOK, MembersWereMissing
<1> QED BY <1>1, OutagesInvAlways, PTL

(* Where an end is on record, as many devices as make an outage had gone   *)
(* missing at its start and have been seen by its end (record_outages).    *)
THEOREM EndsAreReturnsAlways == OutagesSpec => []EndsAreReturns
<1>1. OutagesInv => EndsAreReturns
    BY DEF OutagesInv, RecordOK, EndsAreReturns
<1> QED BY <1>1, OutagesInvAlways, PTL

=============================================================================
