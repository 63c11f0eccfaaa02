----------------------------- MODULE FeedsProofs -----------------------------
(* Runs of the updater that do not overlap never leave a torn list, and    *)
(* never take a 304 for more than it says: for any feeds, sizes, versions  *)
(* and processes, and with any crashes and failures in between.            *)
EXTENDS FeedsProps, TLAPS

Texts == {None} \cup UNION {[1..n -> Nat] : n \in Nat}

Runs == [pc : Pcs, at : 1..Len(Order), forced : BOOLEAN, slots : Int, have : BOOLEAN,
         tag : Nat, version : Nat, next : Nat, fd : {"none", "tmp", "file", "gone"}]

\* The part of the types the proofs need.
Types ==
    /\ remote \in [Feeds -> Nat] /\ \A f \in Feeds : remote[f] \in Versions(f)
    /\ etag \in [Feeds -> Nat]
    /\ file \in [Feeds -> Texts]
    /\ tmp \in [Feeds -> Texts]
    /\ up \in [Processes -> Runs]

\* One process at a time.
Alone == \A u, w \in Processes : up[u].pc # "idle" /\ up[w].pc # "idle" => u = w

\* An installed file is one version, not older than the one the row knows.
FileInv ==
    \A f \in Feeds :
        /\ etag[f] <= remote[f]
        /\ file[f] # None => \E v \in etag[f]..remote[f] : 1 <= v /\ file[f] = Body(f, v)

\* The process has the version it downloads in hand.
Handling(u) == up[u].version \in Nat /\ etag[Feed(u)] <= up[u].version
               /\ 1 <= up[u].version /\ up[u].version <= remote[Feed(u)]

\* What the process at work knows of the files, from step to step.
Knows(u) ==
    LET f == Feed(u)
        v == up[u].version
    IN  /\ up[u].fd = IF up[u].pc = "stream" THEN "tmp" ELSE "none"
        /\ up[u].pc # "stream" => up[u].next = 1
        /\ up[u].pc = "wait" => up[u].tag \in {0, etag[f]}
        /\ up[u].pc \in {"stream", "replace", "unlink", "digest", "row", "touch"} => Handling(u)
        /\ up[u].pc = "stream" => /\ up[u].next \in 1..(Chunks[f] + 1)
                                  /\ tmp[f] = Part(up[u].next - 1, v)
        /\ up[u].pc = "replace" => tmp[f] = Body(f, v)
        /\ up[u].pc \in {"unlink", "digest", "row", "touch"} => file[f] \in {None, Body(f, v)}

StepInv == \A u \in Processes : Knows(u)

IInv == Types /\ Alone /\ FileInv /\ StepInv

LEMMA FeedOf == ASSUME Types, NEW u \in Processes PROVE Feed(u) \in Feeds
<1>1. up[u].at \in 1..Len(Order)
  BY DEF Types, Runs
<1>2. Order \in Seq(STRING)
  BY FeedsAssumption
<1> QED BY <1>1, <1>2 DEF Feed, Feeds, ToSet

LEMMA IdleRun == Idle \in Runs /\ Len(Order) \in Nat \ {0}
<1>1. Len(Order) \in Nat \ {0}
  BY FeedsAssumption
<1>2. Slots \in Nat
  BY FeedsAssumption
<1> QED BY <1>1, <1>2 DEF Idle, Runs, Pcs

LEMMA FreshRun ==
    ASSUME NEW l \in Pcs, NEW a \in 1..Len(Order), NEW b \in BOOLEAN, NEW n \in Int
    PROVE  [pc |-> l, at |-> a, forced |-> b, slots |-> n, have |-> FALSE, tag |-> 0,
            version |-> 0, next |-> 1, fd |-> "none"] \in Runs
  BY DEF Runs

LEMMA ClosedRun ==
    ASSUME NEW r \in Runs, NEW l \in Pcs
    PROVE  /\ [r EXCEPT !.pc = l, !.next = 1, !.fd = "none"] \in Runs
           /\ [r EXCEPT !.pc = l] \in Runs
  BY DEF Runs

LEMMA PartText == \A n, v \in Nat : Part(n, v) \in Texts /\ Part(n, v) \in [1..n -> Nat]
  BY DEF Part, Texts

LEMMA Sizes == \A f \in Feeds : Chunks[f] \in Nat \ {0} /\ MaxVersion[f] \in Nat \ {0}
  BY FeedsAssumption

THEOREM InitIInv == Init => IInv
<1> SUFFICES ASSUME Init PROVE IInv
  OBVIOUS
<1>1. Types
  BY IdleRun, Sizes DEF Init, Types, Texts, Versions
<1>2. Alone /\ StepInv
  BY DEF Init, Alone, StepInv, Knows, Idle
<1>3. FileInv
  BY DEF Init, FileInv
<1> QED BY <1>1, <1>2, <1>3 DEF IInv

\* The process at work is the only one, so a step of it is right if it is for itself.
LEMMA Worked ==
    ASSUME IInv, NEW u \in Processes, up[u].pc # "idle", Types', FileInv', Knows(u)',
           \A w \in Processes \ {u} : up'[w] = up[w]
    PROVE  IInv'
<1>1. \A w \in Processes \ {u} : up[w].pc = "idle" /\ up[w].fd = "none" /\ up[w].next = 1
  BY DEF IInv, Alone, StepInv, Knows
<1>2. Alone'
  BY <1>1 DEF Alone
<1>3. ASSUME NEW w \in Processes PROVE Knows(w)'
  <2>1. CASE w = u
    BY <2>1
  <2>2. CASE w # u
    BY <2>2, <1>1 DEF Knows
  <2> QED BY <2>1, <2>2
<1> QED BY <1>2, <1>3 DEF IInv, StepInv

\* The mirrors, the disk, the clock, and a run that begins.
LEMMA Outside ==
    ASSUME ~Overlap, IInv,
           \/ UNCHANGED vars
           \/ Tick
           \/ \E f \in Feeds : Publish(f) \/ RemoveFile(f)
           \/ \E u \in Processes, force \in BOOLEAN : Start(u, force)
    PROVE  IInv'
<1> USE DEF IInv
<1>1. CASE UNCHANGED vars
  BY <1>1 DEF vars, disk, row, Types, Alone, FileInv, StepInv, Knows, Handling, Feed
<1>2. CASE Tick
  BY <1>2 DEF Tick, disk, Types, Alone, FileInv, StepInv, Knows, Handling, Feed
<1>3. ASSUME NEW f \in Feeds, Publish(f) PROVE IInv'
  <2>1. Types'
    BY <1>3, Sizes DEF Publish, Types, disk, row, Versions
  <2>2. FileInv'
    BY <1>3 DEF Publish, FileInv, Types, disk, row
  <2>3. StepInv'
    BY <1>3, FeedOf DEF Publish, StepInv, Knows, Handling, Types, disk, row, Feed
  <2> QED BY <1>3, <2>1, <2>2, <2>3 DEF Publish, Alone
<1>4. ASSUME NEW f \in Feeds, RemoveFile(f) PROVE IInv'
  <2>1. UNCHANGED up
    BY <1>4 DEF RemoveFile, StepInv, Knows, Types
  <2>2. Types'
    BY <1>4, <2>1 DEF RemoveFile, Types, row, Texts
  <2>3. FileInv'
    BY <1>4 DEF RemoveFile, FileInv, Types, row
  <2>4. StepInv'
    BY <1>4, <2>1, FeedOf DEF RemoveFile, StepInv, Knows, Handling, Types, row, Feed
  <2> QED BY <2>1, <2>2, <2>3, <2>4 DEF Alone
<1>5. ASSUME NEW u \in Processes, NEW force \in BOOLEAN, Start(u, force) PROVE IInv'
  <2>1. /\ UNCHANGED <<remote, disk, row>>
        /\ up' = [up EXCEPT ![u] = [Idle EXCEPT !.pc = "consider", !.forced = force]]
        /\ \A w \in Processes : up[w].pc = "idle"
    BY <1>5 DEF Start
  <2>2. Types'
    BY <2>1, IdleRun DEF Types, disk, row, Runs, Idle, Pcs
  <2>3. FileInv'
    BY <2>1 DEF FileInv, disk, row
  <2>4. Alone' /\ StepInv'
    BY <2>1 DEF Types, Alone, StepInv, Knows, Idle
  <2> QED BY <2>2, <2>3, <2>4
<1> QED BY <1>1, <1>2, <1>3, <1>4, <1>5

\* Leaving the loop, or going on with the next feed.
LEMMA Advanced ==
    ASSUME IInv, NEW u \in Processes, up[u].pc # "idle", Advance(u),
           UNCHANGED <<remote, disk, etag>>
    PROVE  IInv'
<1> USE DEF IInv
<1>1. up[u] \in Runs
  BY DEF Types
<1>2. up'[u] \in Runs /\ up'[u].pc \in {"idle", "consider"} /\ up'[u].fd = "none"
      /\ up'[u].next = 1
  <2>1. \/ up'[u] = Idle
        \/ /\ up[u].at + 1 \in 1..Len(Order)
           /\ up'[u] = [Idle EXCEPT !.pc = "consider", !.at = up[u].at + 1,
                                    !.forced = up[u].forced, !.slots = up[u].slots]
    BY <1>1, IdleRun DEF Advance, Types, Runs
  <2>2. CASE up'[u] = Idle
    BY <2>2, IdleRun DEF Idle
  <2>3. CASE /\ up[u].at + 1 \in 1..Len(Order)
             /\ up'[u] = [Idle EXCEPT !.pc = "consider", !.at = up[u].at + 1,
                                      !.forced = up[u].forced, !.slots = up[u].slots]
    <3>1. up'[u] = [pc |-> "consider", at |-> up[u].at + 1, forced |-> up[u].forced,
                    slots |-> up[u].slots, have |-> FALSE, tag |-> 0, version |-> 0,
                    next |-> 1, fd |-> "none"]
      BY <2>3 DEF Idle
    <3>2. up[u].forced \in BOOLEAN /\ up[u].slots \in Int
      BY <1>1 DEF Runs
    <3>3. "consider" \in Pcs
      BY DEF Pcs
    <3>4. up'[u] \in Runs
      BY <2>3, <3>1, <3>2, <3>3, FreshRun
    <3> QED BY <3>1, <3>4
  <2> QED BY <2>1, <2>2, <2>3
<1>3. Types'
  BY <1>1, <1>2 DEF Types, Advance, disk
<1>4. FileInv'
  BY DEF FileInv, disk
<1>5. Knows(u)'
  BY <1>2 DEF Knows
<1> QED BY <1>3, <1>4, <1>5, Worked DEF Advance

\* A process that ends its run.
LEMMA Crashed ==
    ASSUME IInv, NEW u \in Processes, Crash(u)
    PROVE  IInv'
<1> USE DEF IInv
<1>1. Types'
  BY IdleRun DEF Types, Crash, disk, row
<1>2. FileInv'
  BY DEF FileInv, Crash, disk, row
<1>3. Knows(u)'
  BY DEF Crash, Types, Knows, Idle
<1> QED BY <1>1, <1>2, <1>3, Worked DEF Crash

\* The request and the three kinds of answer.
LEMMA Asked ==
    ASSUME IInv, NEW u \in Processes,
           \/ Ask(u)
           \/ \E slow \in BOOLEAN :
                 NotModified(u, slow) \/ Answer(u, slow) \/ AnswerFails(u, slow)
    PROVE  IInv'
<1> USE DEF IInv
<1>1. Feed(u) \in Feeds /\ up[u] \in Runs
  BY FeedOf DEF Types
<1>2. CASE Ask(u)
  <2>1. Types'
    BY <1>1, <1>2 DEF Types, Ask, Runs, Pcs, disk, row
  <2>2. FileInv'
    BY <1>2 DEF FileInv, Ask, disk, row
  <2>3. Knows(u)'
    BY <1>1, <1>2 DEF Ask, Types, Runs, Knows, StepInv, Feed, disk, row
  <2> QED BY <1>2, <2>1, <2>2, <2>3, Worked DEF Ask, Types
<1>3. ASSUME NEW label \in {"touch", "error", "stream"}, NEW slow \in BOOLEAN,
             up[u].pc = "wait", Reply(u, label, slow), UNCHANGED <<remote, file, etag>>,
             tmp' = IF label = "stream" THEN [tmp EXCEPT ![Feed(u)] = Part(0, remote[Feed(u)])]
                    ELSE tmp,
             label = "touch" => up[u].have /\ up[u].tag = remote[Feed(u)]
      PROVE  IInv'
  <2>1. up'[u] \in Runs /\ up'[u].pc = label /\ up'[u].version = remote[Feed(u)]
        /\ up'[u].at = up[u].at /\ up'[u].next = up[u].next
        /\ up'[u].fd = IF label = "stream" THEN "tmp" ELSE "none"
    <3>1. remote[Feed(u)] \in Nat /\ up[u].slots \in Int
      BY <1>1 DEF Types, Runs
    <3>2. (IF slow THEN up[u].slots - 1 ELSE up[u].slots) \in Int
      BY <3>1
    <3> QED BY <1>1, <1>3, <3>1, <3>2 DEF Reply, Types, Runs, Pcs
  <2>2. Types'
    BY <1>1, <1>3, <2>1, PartText DEF Types, Reply
  <2>3. FileInv'
    BY <1>3 DEF FileInv
  <2>4. Handling(u)'
    BY <1>1, <1>3, <2>1 DEF Handling, FileInv, Types, Versions, Feed
  <2>5. label = "touch" => file[Feed(u)] \in {None, Body(Feed(u), remote[Feed(u)])}
    BY <1>1, <1>3 DEF StepInv, Knows, FileInv, Types, Versions
  <2>6. Knows(u)'
    BY <1>1, <1>3, <2>1, <2>4, <2>5, Sizes DEF Knows, StepInv, Feed, Types
  <2> QED BY <1>3, <2>2, <2>3, <2>6, Worked DEF Reply
<1>4. CASE \E slow \in BOOLEAN : NotModified(u, slow)
  BY <1>1, <1>3, <1>4 DEF NotModified, disk, row
<1>5. CASE \E slow \in BOOLEAN : Answer(u, slow)
  BY <1>1, <1>3, <1>5 DEF Answer, row
<1>6. CASE \E slow \in BOOLEAN : AnswerFails(u, slow)
  BY <1>1, <1>3, <1>6 DEF AnswerFails, disk, row
<1> QED BY <1>2, <1>4, <1>5, <1>6

\* The body, chunk by chunk, and what ends it.
LEMMA Streamed ==
    ASSUME IInv, NEW u \in Processes, WriteChunk(u) \/ Accept(u) \/ StreamFails(u)
    PROVE  IInv'
<1> USE DEF IInv
<1>1. /\ Feed(u) \in Feeds /\ up[u] \in Runs
      /\ up[u].pc = "stream" /\ up[u].fd = "tmp"
      /\ up[u].next \in 1..(Chunks[Feed(u)] + 1)
      /\ tmp[Feed(u)] = Part(up[u].next - 1, up[u].version)
      /\ Handling(u) /\ Chunks[Feed(u)] \in Nat
  BY FeedOf, Sizes DEF Types, StepInv, Knows, WriteChunk, Accept, StreamFails, Closed
<1>2. UNCHANGED <<remote, file, etag>>
  BY <1>1 DEF WriteChunk, Accept, StreamFails, disk, row
<1>3. FileInv'
  BY <1>2 DEF FileInv
<1>4. CASE WriteChunk(u)
  <2> DEFINE n == up[u].next
             v == up[u].version
  <2>1. WriteAt(Part(n - 1, v), n, v) = Part(n, v)
    BY <1>1 DEF WriteAt, Part
  <2>2. tmp' = [tmp EXCEPT ![Feed(u)] = Part(n, v)] /\ n <= Chunks[Feed(u)]
    BY <1>1, <1>4, <2>1 DEF WriteChunk
  <2>3. /\ up' = [up EXCEPT ![u].next = n + 1] /\ up'[u] = [up[u] EXCEPT !.next = n + 1]
        /\ n \in Nat /\ v \in Nat
    BY <1>1, <1>4 DEF WriteChunk, Types, Runs
  <2>4. up'[u] \in Runs
    BY <1>1, <2>3 DEF Runs
  <2>5. Types'
    BY <1>1, <1>2, <2>2, <2>3, <2>4, PartText DEF Types
  <2>6. Knows(u)'
    BY <1>1, <1>2, <2>2, <2>3, SMTT(30) DEF Knows, Handling, Feed, Types, Runs
  <2> QED BY <1>1, <1>3, <2>3, <2>5, <2>6, Worked DEF Types
<1>5. ASSUME NEW label \in {"replace", "cleanup"}, Closed(u, label), UNCHANGED tmp,
             label = "replace" => up[u].next > Chunks[Feed(u)]
      PROVE  IInv'
  <2>1. up'[u] = [up[u] EXCEPT !.pc = label, !.next = 1, !.fd = "none"]
    BY <1>5 DEF Closed, Types
  <2>2. up'[u] \in Runs
    <3>1. label \in Pcs
      BY DEF Pcs
    <3>2. up[u] \in Runs
      BY <1>1
    <3>3. [up[u] EXCEPT !.pc = label, !.next = 1, !.fd = "none"] \in Runs
      BY <3>1, <3>2, ClosedRun
    <3> QED BY <2>1, <3>3
  <2>3. Types'
    BY <1>2, <1>5, <2>2 DEF Types, Closed
  <2>4. label = "replace" => tmp[Feed(u)] = Body(Feed(u), up[u].version)
    BY <1>1, <1>5 DEF Body
  <2>5. Knows(u)'
    BY <1>1, <1>2, <1>5, <2>1, <2>4 DEF Knows, Handling, Feed, Runs
  <2> QED BY <1>1, <1>3, <1>5, <2>3, <2>5, Worked DEF Closed, Types
<1>6. CASE Accept(u)
  BY <1>5, <1>6 DEF Accept, disk
<1>7. CASE StreamFails(u)
  BY <1>5, <1>7 DEF StreamFails, disk
<1> QED BY <1>4, <1>6, <1>7

\* The steps that only turn to another part of the code.
LEMMA Moving ==
    ASSUME IInv, NEW u \in Processes, NEW label \in Pcs, up[u].pc \notin {"idle", "stream"},
           label \notin {"stream", "wait", "replace", "touch", "unlink"},
           label \in {"digest", "row"} => up[u].pc \in {"unlink", "digest", "row"},
           up' = [up EXCEPT ![u].pc = label], UNCHANGED <<remote, file, tmp, etag>>
    PROVE  IInv'
<1> USE DEF IInv
<1>1. up[u] \in Runs /\ up'[u] = [up[u] EXCEPT !.pc = label]
  BY DEF Types
<1>2. up'[u] \in Runs
  BY <1>1, ClosedRun
<1>3. Types'
  BY <1>2 DEF Types
<1>4. FileInv'
  BY DEF FileInv
<1>5. Knows(u)'
  BY <1>1 DEF StepInv, Knows, Handling, Feed, Runs
<1> QED BY <1>3, <1>4, <1>5, Worked DEF Types

\* The file moves into place.
LEMMA Replaced ==
    ASSUME IInv, NEW u \in Processes, Replace(u)
    PROVE  IInv'
<1> USE DEF IInv
<1> DEFINE f == Feed(u)
           v == up[u].version
<1>1. /\ f \in Feeds /\ up[u] \in Runs /\ up[u].pc = "replace"
      /\ tmp[f] = Body(f, v) /\ Handling(u) /\ UNCHANGED <<remote, etag>>
  BY FeedOf DEF Types, StepInv, Knows, Replace, row
<1>2. CASE tmp[f] = None
  <2>1. "cleanup" \in Pcs
    BY DEF Pcs
  <2> QED BY <1>1, <1>2, <2>1, Moving DEF Replace, Goto
<1>3. CASE tmp[f] # None
  <2>1. /\ file' = [file EXCEPT ![f] = Body(f, v)]
        /\ tmp' = [tmp EXCEPT ![f] = None]
        /\ up' = [w \in Processes |-> [up[w] EXCEPT !.fd = Moved(w, f),
                                                   !.pc = IF w = u THEN "unlink" ELSE @]]
    BY <1>1, <1>3 DEF Replace
  <2>2. \A w \in Processes : up[w].fd = "none"
    BY <1>1 DEF StepInv, Knows, Alone
  <2>3. \A w \in Processes : Moved(w, f) = up[w].fd
    BY <2>2 DEF Moved
  <2>4. ASSUME NEW w \in Processes \ {u} PROVE up'[w] = up[w]
    <3>1. up[w] \in Runs
      BY DEF Types
    <3>2. up'[w] = [up[w] EXCEPT !.fd = up[w].fd, !.pc = up[w].pc]
      BY <2>1, <2>3
    <3> QED BY <3>1, <3>2 DEF Runs
  <2>5. up'[u] = [up[u] EXCEPT !.pc = "unlink"]
    <3>1. up'[u] = [up[u] EXCEPT !.fd = up[u].fd, !.pc = "unlink"]
      BY <2>1, <2>3
    <3> QED BY <1>1, <3>1 DEF Runs
  <2>6. up'[u] \in Runs
    <3>1. "unlink" \in Pcs
      BY DEF Pcs
    <3> QED BY <1>1, <2>5, <3>1, ClosedRun
  <2>7. Types'
    <3>1. Body(f, v) \in Texts
      BY <1>1, Sizes, PartText DEF Body, Handling
    <3>2. up' \in [Processes -> Runs]
      BY <2>1, <2>4, <2>6 DEF Types
    <3> QED BY <1>1, <2>1, <3>1, <3>2 DEF Types, Texts
  <2>8. FileInv'
    <3>1. v \in etag[f]..remote[f] /\ 1 <= v
      BY <1>1 DEF Handling, Types
    <3> QED BY <1>1, <2>1, <3>1 DEF FileInv, Types
  <2>9. Knows(u)'
    BY <1>1, <2>1, <2>2, <2>5 DEF StepInv, Knows, Handling, Feed, Types, Runs
  <2> QED BY <1>1, <2>4, <2>7, <2>8, <2>9, Worked
<1> QED BY <1>2, <1>3

\* The name of the temporary file goes.
LEMMA Unlinked ==
    ASSUME IInv, NEW u \in Processes, Unlink(u)
    PROVE  IInv'
<1> USE DEF IInv
<1> DEFINE label == IF up[u].pc = "unlink" THEN "digest" ELSE "error"
<1>1. /\ Feed(u) \in Feeds /\ up[u] \in Runs /\ up[u].pc \in {"unlink", "cleanup"}
      /\ UNCHANGED <<remote, file, etag>> /\ label \in Pcs
      /\ tmp' = [tmp EXCEPT ![Feed(u)] = None]
  BY FeedOf DEF Types, Unlink, row, Pcs
<1>2. \A w \in Processes : up[w].fd = "none"
  BY <1>1 DEF StepInv, Knows, Alone
<1>3. ASSUME NEW w \in Processes
      PROVE  up'[w] = [up[w] EXCEPT !.fd = up[w].fd, !.pc = IF w = u THEN label ELSE @]
  BY <1>1, <1>2 DEF Unlink
<1>4. ASSUME NEW w \in Processes \ {u} PROVE up'[w] = up[w]
  <2>1. up[w] \in Runs
    BY DEF Types
  <2>2. up'[w] = [up[w] EXCEPT !.fd = up[w].fd, !.pc = up[w].pc]
    BY <1>3
  <2> QED BY <2>1, <2>2 DEF Runs
<1>5. up'[u] = [up[u] EXCEPT !.pc = label]
  <2>1. up'[u] = [up[u] EXCEPT !.fd = up[u].fd, !.pc = label]
    BY <1>3
  <2> QED BY <1>1, <2>1 DEF Runs
<1>6. up'[u] \in Runs
  BY <1>1, <1>5, ClosedRun
<1>7. Types'
  <2>1. up' \in [Processes -> Runs]
    BY <1>4, <1>6 DEF Types, Unlink
  <2> QED BY <1>1, <2>1 DEF Types, Texts
<1>8. FileInv'
  BY <1>1 DEF FileInv
<1>9. Knows(u)'
  BY <1>1, <1>2, <1>5 DEF StepInv, Knows, Handling, Feed, Types, Runs
<1> QED BY <1>1, <1>4, <1>7, <1>8, <1>9, Worked

\* The row of a feed that is current.
LEMMA RowSaved ==
    ASSUME IInv, NEW u \in Processes, SaveRow(u)
    PROVE  IInv'
<1> USE DEF IInv
<1> DEFINE f == Feed(u)
           v == up[u].version
<1>1. /\ f \in Feeds /\ up[u] \in Runs /\ up[u].pc \in {"row", "touch"}
      /\ Handling(u) /\ file[f] \in {None, Body(f, v)}
      /\ UNCHANGED <<remote, file, tmp>> /\ up' = [up EXCEPT ![u].pc = "clear"]
      /\ etag' = IF up[u].pc = "row" THEN [etag EXCEPT ![f] = v] ELSE etag
  BY FeedOf DEF Types, StepInv, Knows, SaveRow, disk, Goto
<1>2. up'[u] = [up[u] EXCEPT !.pc = "clear"] /\ "clear" \in Pcs
  BY <1>1 DEF Types, Pcs
<1>3. up'[u] \in Runs
  BY <1>1, <1>2, ClosedRun
<1>4. Types'
  BY <1>1, <1>3 DEF Types, Handling
<1>5. FileInv'
  <2>1. v \in v..remote[f] /\ 1 <= v /\ v <= remote[f]
    BY <1>1 DEF Handling, Types
  <2> QED BY <1>1, <2>1 DEF FileInv, Types
<1>6. Knows(u)'
  BY <1>1, <1>2 DEF StepInv, Knows, Runs
<1> QED BY <1>1, <1>4, <1>5, <1>6, Worked DEF Types

\* Every step keeps the invariant.
THEOREM StepIInv == ASSUME ~Overlap, IInv, [Next]_vars PROVE IInv'
<1>1. CASE \/ UNCHANGED vars \/ Tick
           \/ \E f \in Feeds : Publish(f)
           \/ \E f \in Removed : RemoveFile(f)
           \/ \E u \in Processes, force \in BOOLEAN : Start(u, force)
  <2>1. Removed \subseteq Feeds
    BY FeedsAssumption
  <2> QED BY <1>1, <2>1, Outside
<1>2. ASSUME NEW u \in Processes, Run(u) \/ Crash(u) PROVE IInv'
  <2>1. CASE Crash(u)
    BY <2>1, Crashed
  <2>2. CASE Skip(u) \/ ClearFailures(u) \/ CountFailure(u) \/ SettingFails(u)
    <3>1. /\ up[u].pc # "idle" /\ Advance(u) /\ UNCHANGED <<remote, disk, etag>>
      BY <2>2 DEF Skip, ClearFailures, CountFailure, SettingFails, row
    <3> QED BY <3>1, Advanced
  <2>3. CASE Ask(u) \/ \E slow \in BOOLEAN :
               NotModified(u, slow) \/ Answer(u, slow) \/ AnswerFails(u, slow)
    BY <2>3, Asked
  <2>4. CASE WriteChunk(u) \/ Accept(u) \/ StreamFails(u)
    BY <2>4, Streamed
  <2>11. CASE ReplaceFails(u)
    <3>1. "cleanup" \in Pcs
      BY DEF Pcs
    <3> QED BY <2>11, <3>1, Moving DEF ReplaceFails, Goto, disk, row
  <2>5. CASE Replace(u)
    BY <2>5, Replaced
  <2>6. CASE Unlink(u)
    BY <2>6, Unlinked
  <2>7. CASE SaveRow(u)
    BY <2>7, RowSaved
  <2>8. CASE SaveDigest(u)
    <3>1. "row" \in Pcs
      BY DEF Pcs
    <3> QED BY <2>8, <3>1, Moving DEF SaveDigest, Goto, row
  <2>9. CASE MarkError(u)
    <3>1. "count" \in Pcs
      BY DEF Pcs
    <3> QED BY <2>9, <3>1, Moving DEF MarkError, Goto, disk
  <2>10. CASE SaveFails(u)
    <3>1. "error" \in Pcs
      BY DEF Pcs
    <3> QED BY <2>10, <3>1, Moving DEF SaveFails, Goto, disk, row
  <2> QED BY <1>2, <2>1, <2>2, <2>3, <2>4, <2>5, <2>6, <2>7, <2>8, <2>9, <2>10, <2>11
          DEF Run, Proceed, Fails, WriteFails
<1> QED BY <1>1, <1>2 DEF Next

\* Runs that do not overlap only ever install whole lists, wherever they crash.
THEOREM WholeListsAlways == ASSUME ~Overlap PROVE Spec => []WholeLists
<1>1. IInv => WholeLists
  <2> SUFFICES ASSUME IInv, NEW f \in Feeds, file[f] # None PROVE Whole(f, file[f])
    BY DEF WholeLists
  <2>1. PICK v \in etag[f]..remote[f] : 1 <= v /\ file[f] = Body(f, v)
    BY DEF IInv, FileInv
  <2>2. v \in Versions(f)
    BY <2>1, Sizes DEF IInv, Types, Versions
  <2> QED BY <2>1, <2>2 DEF Whole
<1>2. Init => IInv
  BY InitIInv
<1>3. IInv /\ [Next]_vars => IInv'
  BY StepIInv
<1> QED BY <1>1, <1>2, <1>3, PTL DEF Spec

\* A 304 is never believed of a file that is not the mirror's version.
THEOREM NotModifiedAlways == ASSUME ~Overlap PROVE Spec => []NotModifiedIsCurrent
<1>1. IInv => NotModifiedIsCurrent
  BY DEF IInv, StepInv, Knows, NotModifiedIsCurrent
<1>2. Init => IInv
  BY InitIInv
<1>3. IInv /\ [Next]_vars => IInv'
  BY StepIInv
<1> QED BY <1>1, <1>2, <1>3, PTL DEF Spec

-----------------------------------------------------------------------------
(* The digest beside a file.                                               *)

\* No version that is downloaded is older than the digest, whatever was installed.
DigestKnows(u) ==
    /\ up[u].pc \in {"stream", "replace", "unlink", "digest", "row"} => digest[Feed(u)] <= up[u].version
    /\ up[u].pc = "row" => digest[Feed(u)] = up[u].version

\* The digest is not older than what the row knows, nor newer than the mirror.
DigestInv ==
    /\ digest \in [Feeds -> Nat]
    /\ \A f \in Feeds : etag[f] <= digest[f] /\ digest[f] <= remote[f]
    /\ DigestAgrees
    /\ \A u \in Processes : DigestKnows(u)

LEMMA InitDigestInv == Init => DigestInv
<1> SUFFICES ASSUME Init PROVE DigestInv
  OBVIOUS
<1> QED BY DEF Init, DigestInv, DigestAgrees, DigestKnows, Idle

LEMMA BodiesDiffer ==
    ASSUME NEW f \in Feeds, NEW v \in Nat, NEW w \in Nat, Body(f, v) = Body(f, w)
    PROVE  v = w
<1>1. 1 \in 1..Chunks[f]
  BY Sizes
<1> QED BY <1>1 DEF Body, Part

\* Only the process at work knows anything.
LEMMA WorkedDigest ==
    ASSUME IInv, NEW u \in Processes, up[u].pc # "idle", DigestKnows(u)',
           \A w \in Processes \ {u} : up'[w].pc = up[w].pc
    PROVE  \A w \in Processes : DigestKnows(w)'
<1>1. \A w \in Processes \ {u} : up'[w].pc = "idle"
  BY DEF IInv, Alone
<1> QED BY <1>1 DEF DigestKnows

\* Steps that leave digest, row and file alone, but may delete the file, and after
\* which a process has no more in hand than before.
LEMMA SameDigest ==
    ASSUME IInv, DigestInv, UNCHANGED <<remote, digest, etag>>,
           \A f \in Feeds : file'[f] \in {file[f], None},
           \A w \in Processes : DigestKnows(w)'
    PROVE  DigestInv'
<1>1. ASSUME NEW f \in Feeds, etag[f] # 0 PROVE etag[f] \in Versions(f)
  BY <1>1, Sizes DEF IInv, Types, FileInv, Versions
<1>2. DigestAgrees'
  BY <1>1, NoFileAssumption DEF DigestInv, DigestAgrees
<1> QED BY <1>2 DEF DigestInv

LEMMA Replied ==
    ASSUME Types, NEW u \in Processes, NEW label \in {"touch", "error", "stream"},
           NEW slow \in BOOLEAN, Reply(u, label, slow)
    PROVE  /\ up'[u].pc = label /\ up'[u].at = up[u].at /\ up'[u].version = remote[Feed(u)]
           /\ \A w \in Processes \ {u} : up'[w].pc = up[w].pc
<1>1. up[u] \in Runs
  BY DEF Types
<1> DEFINE n == IF slow THEN up[u].slots - 1 ELSE up[u].slots
           d == IF label = "stream" THEN "tmp" ELSE "none"
<1>2. up' = [up EXCEPT ![u] = [up[u] EXCEPT !.pc = label, !.version = remote[Feed(u)], !.have = FALSE,
                                            !.tag = 0, !.slots = n, !.fd = d]]
  BY DEF Reply
<1>3. up'[u] = [up[u] EXCEPT !.pc = label, !.version = remote[Feed(u)], !.have = FALSE,
                             !.tag = 0, !.slots = n, !.fd = d]
  BY <1>2 DEF Types
<1>4. \A w \in Processes \ {u} : up'[w] = up[w]
  BY <1>2 DEF Types
<1> HIDE DEF n, d
<1> QED BY <1>1, <1>3, <1>4 DEF Runs

\* The name of the temporary file goes; the process has nothing open.
LEMMA UnlinkedRun ==
    ASSUME IInv, NEW u \in Processes, Unlink(u)
    PROVE  /\ up'[u].pc = IF up[u].pc = "unlink" THEN "digest" ELSE "error"
           /\ up'[u].at = up[u].at /\ up'[u].version = up[u].version
           /\ \A w \in Processes \ {u} : up'[w].pc = up[w].pc
<1> DEFINE label == IF up[u].pc = "unlink" THEN "digest" ELSE "error"
           Fd(w) == IF Feed(w) = Feed(u) /\ up[w].fd = "tmp" THEN "gone" ELSE up[w].fd
<1>1. up \in [Processes -> Runs]
  BY DEF IInv, Types
<1>2. ASSUME NEW w \in Processes
      PROVE  up'[w] = [up[w] EXCEPT !.fd = Fd(w), !.pc = IF w = u THEN label ELSE up[w].pc]
  BY <1>1, <1>2 DEF Unlink
<1> HIDE DEF label, Fd
<1>3. up'[u].pc = label /\ up'[u].at = up[u].at /\ up'[u].version = up[u].version
  <2>1. up[u] \in Runs /\ up'[u] = [up[u] EXCEPT !.fd = Fd(u), !.pc = label]
    BY <1>1, <1>2
  <2> QED BY <2>1 DEF Runs
<1>4. ASSUME NEW w \in Processes \ {u} PROVE up'[w].pc = up[w].pc
  <2>1. up[w] \in Runs /\ up'[w] = [up[w] EXCEPT !.fd = Fd(w), !.pc = up[w].pc]
    BY <1>1, <1>2
  <2> QED BY <2>1 DEF Runs
<1> QED BY <1>3, <1>4 DEF label

\* The file moves into place, or there is nothing to move.
LEMMA ReplacedRun ==
    ASSUME IInv, NEW u \in Processes, Replace(u)
    PROVE  /\ up'[u].pc \in {"unlink", "cleanup"}
           /\ up'[u].at = up[u].at /\ up'[u].version = up[u].version
           /\ \A w \in Processes \ {u} : up'[w].pc = up[w].pc
<1>1. up \in [Processes -> Runs]
  BY DEF IInv, Types
<1>2. CASE tmp[Feed(u)] = None
  BY <1>1, <1>2 DEF Replace, Goto, Runs
<1>3. CASE tmp[Feed(u)] # None
  <2>1. ASSUME NEW w \in Processes
        PROVE  up'[w] = [up[w] EXCEPT !.fd = Moved(w, Feed(u)), !.pc = IF w = u THEN "unlink" ELSE up[w].pc]
    BY <1>1, <1>3, <2>1 DEF Replace
  <2>2. up'[u].pc = "unlink" /\ up'[u].at = up[u].at /\ up'[u].version = up[u].version
    <3>1. up[u] \in Runs /\ up'[u] = [up[u] EXCEPT !.fd = Moved(u, Feed(u)), !.pc = "unlink"]
      BY <1>1, <2>1
    <3> QED BY <3>1 DEF Runs
  <2>3. ASSUME NEW w \in Processes \ {u} PROVE up'[w].pc = up[w].pc
    <3>1. up[w] \in Runs /\ up'[w] = [up[w] EXCEPT !.fd = Moved(w, Feed(u)), !.pc = up[w].pc]
      BY <1>1, <2>1
    <3> QED BY <3>1 DEF Runs
  <2> QED BY <2>2, <2>3
<1> QED BY <1>2, <1>3

LEMMA StepDigestInv == ASSUME ~Overlap, IInv, DigestInv, [Next]_vars PROVE DigestInv'
<1> USE DEF IInv
<1>1. CASE UNCHANGED vars
  BY <1>1, SameDigest DEF vars, disk, row, DigestInv, DigestKnows, Feed
<1>2. CASE Tick
  BY <1>2, SameDigest DEF Tick, disk, row, DigestInv, DigestKnows, Feed
<1>3. ASSUME NEW f \in Feeds, Publish(f) PROVE DigestInv'
  <2>1. UNCHANGED <<disk, row, up>> /\ \A g \in Feeds : remote'[g] >= remote[g] /\ remote'[g] \in Nat
    BY <1>3 DEF Publish, Types
  <2> QED BY <2>1 DEF DigestInv, DigestAgrees, DigestKnows, Feed, disk, row, Types
<1>4. ASSUME NEW f \in Removed, RemoveFile(f) PROVE DigestInv'
  <2>1. \A w \in Processes : up'[w].pc = up[w].pc /\ up'[w].at = up[w].at /\ up'[w].version = up[w].version
    BY <1>4 DEF RemoveFile, Types, Runs
  <2>2. \A g \in Feeds : file'[g] \in {file[g], None}
    BY <1>4 DEF RemoveFile, Types
  <2> QED BY <1>4, <2>1, <2>2, SameDigest DEF RemoveFile, row, DigestInv, DigestKnows, Feed
<1>5. ASSUME NEW u \in Processes, NEW force \in BOOLEAN, Start(u, force) PROVE DigestInv'
  <2>1. \A w \in Processes : up'[w] = up[w] \/ up'[w].pc = "consider"
    BY <1>5 DEF Start, Types, Idle
  <2> QED BY <1>5, <2>1, SameDigest DEF Start, disk, row, DigestInv, DigestKnows, Feed
<1>6. ASSUME NEW u \in Processes, Run(u) \/ Crash(u) PROVE DigestInv'
  <2> DEFINE f == Feed(u)
  <2>1. f \in Feeds /\ up[u] \in Runs /\ Knows(u) /\ DigestKnows(u) /\ remote[f] \in Nat
    BY FeedOf DEF Types, StepInv, DigestInv
  <2>2. up[u].pc # "idle"
    BY <1>6 DEF Run, Proceed, Fails, WriteFails, Skip, Ask, NotModified, Answer, AnswerFails, WriteChunk,
                Accept, StreamFails, Replace, ReplaceFails, Unlink, SaveDigest, SaveRow, SaveFails,
                ClearFailures, SettingFails, MarkError, CountFailure, Crash
  \* Steps after which the process has nothing in hand.
  <2>3. ASSUME UNCHANGED <<remote, digest, etag, file>>,
               up'[u].pc \in {"idle", "consider", "wait", "touch", "error", "cleanup", "clear", "count"},
               \A w \in Processes \ {u} : up'[w].pc = up[w].pc
        PROVE  DigestInv'
    BY <2>2, <2>3, SameDigest, WorkedDigest DEF DigestKnows
  <2>4. CASE Skip(u) \/ ClearFailures(u) \/ CountFailure(u) \/ SettingFails(u) \/ Crash(u)
    <3>1. Advance(u) \/ up' = [up EXCEPT ![u] = Idle]
      BY <2>4 DEF Skip, ClearFailures, CountFailure, SettingFails, Crash
    <3>2. /\ \/ up'[u] = Idle
             \/ up'[u] = [Idle EXCEPT !.pc = "consider", !.at = up[u].at + 1,
                                      !.forced = up[u].forced, !.slots = up[u].slots]
          /\ \A w \in Processes \ {u} : up'[w].pc = up[w].pc
      BY <3>1 DEF Advance, Types
    <3>3. up'[u].pc \in {"idle", "consider"}
      <4>1. CASE up'[u] = Idle
        BY <4>1 DEF Idle
      <4>2. CASE up'[u] = [Idle EXCEPT !.pc = "consider", !.at = up[u].at + 1,
                                       !.forced = up[u].forced, !.slots = up[u].slots]
        <5>1. up'[u] = [pc |-> "consider", at |-> up[u].at + 1, forced |-> up[u].forced,
                        slots |-> up[u].slots, have |-> FALSE, tag |-> 0, version |-> 0,
                        next |-> 1, fd |-> "none"]
          BY <4>2 DEF Idle
        <5> QED BY <5>1
      <4> QED BY <3>2, <4>1, <4>2
    <3> QED BY <2>3, <2>4, <3>2, <3>3 DEF Skip, ClearFailures, CountFailure, SettingFails, Crash, disk, row
  <2>5. CASE Ask(u) \/ MarkError(u) \/ SaveFails(u) \/ ReplaceFails(u) \/ StreamFails(u)
    <3>1. /\ up'[u].pc \in {"wait", "count", "error", "cleanup"}
          /\ \A w \in Processes \ {u} : up'[w].pc = up[w].pc
      BY <2>1, <2>5 DEF Ask, MarkError, SaveFails, ReplaceFails, StreamFails, Closed, Goto, Types, Runs
    <3> QED BY <2>3, <2>5, <3>1 DEF Ask, MarkError, SaveFails, ReplaceFails, StreamFails, disk, row
  <2>6. CASE \E slow \in BOOLEAN : NotModified(u, slow) \/ AnswerFails(u, slow)
    <3>1. ASSUME NEW label \in {"touch", "error"}, NEW slow \in BOOLEAN, Reply(u, label, slow)
          PROVE  up'[u].pc = label /\ \A w \in Processes \ {u} : up'[w].pc = up[w].pc
      BY <2>1, <3>1, Replied
    <3>2. \E label \in {"touch", "error"}, slow \in BOOLEAN : Reply(u, label, slow)
      BY <2>6 DEF NotModified, AnswerFails
    <3>3. /\ up'[u].pc \in {"touch", "error"}
          /\ \A w \in Processes \ {u} : up'[w].pc = up[w].pc
      BY <3>1, <3>2
    <3> QED BY <2>3, <2>6, <3>3 DEF NotModified, AnswerFails, disk, row
  <2>7. CASE \E slow \in BOOLEAN : Answer(u, slow)
    <3>1. /\ up'[u].pc = "stream" /\ up'[u].at = up[u].at /\ up'[u].version = remote[f]
          /\ \A w \in Processes \ {u} : up'[w].pc = up[w].pc
      BY <2>1, <2>7, Replied DEF Answer
    <3>2. UNCHANGED <<remote, digest, etag, file>>
      BY <2>7 DEF Answer, row
    <3>3. DigestKnows(u)'
      BY <2>1, <3>1, <3>2 DEF DigestKnows, DigestInv, Feed
    <3> QED BY <2>2, <3>1, <3>2, <3>3, SameDigest, WorkedDigest
  <2>8. CASE WriteChunk(u) \/ Accept(u) \/ Unlink(u)
    <3>1. /\ up'[u].at = up[u].at /\ up'[u].version = up[u].version
          /\ up'[u].pc \in {"stream", "replace", "cleanup", "digest", "error"}
          /\ up'[u].pc \in {"stream", "replace", "digest"} => up[u].pc \in {"stream", "unlink"}
          /\ \A w \in Processes \ {u} : up'[w].pc = up[w].pc
      <4>1. CASE WriteChunk(u)
        BY <2>1, <4>1 DEF WriteChunk, Types, Runs
      <4>2. CASE Accept(u)
        BY <2>1, <4>2 DEF Accept, Closed, Types, Runs
      <4>3. CASE Unlink(u)
        <5>1. up[u].pc \in {"unlink", "cleanup"}
          BY <4>3 DEF Unlink
        <5> QED BY <4>3, <5>1, UnlinkedRun
      <4> QED BY <2>8, <4>1, <4>2, <4>3
    <3>2. UNCHANGED <<remote, digest, etag, file>>
      BY <2>1, <2>8 DEF WriteChunk, Accept, Unlink, Knows, disk, row
    <3>3. DigestKnows(u)'
      BY <2>1, <3>1, <3>2 DEF DigestKnows, Feed
    <3> QED BY <2>2, <3>1, <3>2, <3>3, SameDigest, WorkedDigest
  <2>9. CASE Replace(u)
    <3>1. /\ up[u].pc = "replace" /\ up'[u].at = up[u].at /\ up'[u].version = up[u].version
          /\ up'[u].pc \in {"unlink", "cleanup"}
          /\ \A w \in Processes \ {u} : up'[w].pc = up[w].pc
          /\ UNCHANGED <<remote, digest, etag>>
      BY <2>9, ReplacedRun DEF Replace, row
    <3>2. \A w \in Processes : DigestKnows(w)'
      BY <2>1, <2>2, <3>1, WorkedDigest DEF DigestKnows, Feed
    <3>3. CASE file' = file
      BY <3>1, <3>2, <3>3, SameDigest
    <3>4. CASE file' = [file EXCEPT ![f] = tmp[f]]
      <4>1. tmp[f] = Body(f, up[u].version) /\ digest[f] <= up[u].version /\ up[u].version \in Nat
        BY <2>1, <3>1 DEF Knows, Handling, DigestKnows
      <4>2. file'[f] = Body(f, etag[f]) => digest[f] = etag[f]
        <5>1. etag[f] \in Nat /\ digest[f] \in Nat /\ etag[f] <= digest[f]
          BY <2>1 DEF Types, DigestInv
        <5> QED BY <2>1, <3>4, <4>1, <5>1, BodiesDiffer DEF Types
      <4>3. DigestAgrees'
        BY <3>1, <3>4, <4>2 DEF DigestAgrees, DigestInv, Body, Types
      <4> QED BY <3>1, <3>2, <4>3 DEF DigestInv
    <3> QED BY <2>9, <3>3, <3>4 DEF Replace
  <2>10. CASE SaveDigest(u)
    <3>1. /\ up[u].pc = "digest" /\ up'[u] = [up[u] EXCEPT !.pc = "row"]
          /\ \A w \in Processes \ {u} : up'[w].pc = up[w].pc
          /\ digest' = [digest EXCEPT ![f] = up[u].version]
          /\ UNCHANGED <<remote, etag, file>>
      BY <2>1, <2>10 DEF SaveDigest, Goto, Types, row
    <3>2. /\ up[u].version \in Nat /\ etag[f] <= up[u].version /\ up[u].version <= remote[f]
          /\ file[f] \in {None, Body(f, up[u].version)}
      BY <2>1, <3>1 DEF Knows, Handling
    <3>3. DigestKnows(u)'
      BY <2>1, <3>1, <3>2 DEF DigestKnows, DigestInv, Feed, Runs
    <3>4. \A w \in Processes : DigestKnows(w)'
      BY <2>2, <3>1, <3>3, WorkedDigest
    <3>5. etag[f] # 0 /\ file[f] = Body(f, etag[f]) => up[u].version = etag[f]
      <4>1. etag[f] \in Nat /\ (etag[f] # 0 => etag[f] \in Versions(f))
        BY <2>1, Sizes DEF Types, FileInv, Versions
      <4> QED BY <2>1, <3>2, <4>1, BodiesDiffer, NoFileAssumption
    <3>6. DigestAgrees'
      BY <2>1, <3>1, <3>5 DEF DigestAgrees, DigestInv, Body
    <3> QED BY <2>1, <3>1, <3>2, <3>4, <3>6 DEF DigestInv
  <2>11. CASE SaveRow(u)
    <3>1. /\ up[u].pc \in {"row", "touch"} /\ up'[u].pc = "clear"
          /\ \A w \in Processes \ {u} : up'[w].pc = up[w].pc
          /\ UNCHANGED <<remote, digest, file>>
      BY <2>1, <2>11 DEF SaveRow, Goto, Types, Runs, disk
    <3>2. etag' = IF up[u].pc = "row" THEN [etag EXCEPT ![f] = up[u].version] ELSE etag
      BY <2>11 DEF SaveRow
    <3>3. \A w \in Processes : DigestKnows(w)'
      BY <2>2, <3>1, WorkedDigest DEF DigestKnows
    <3>4. CASE up[u].pc = "touch"
      BY <3>1, <3>2, <3>3, <3>4, SameDigest
    <3>5. CASE up[u].pc = "row"
      <4>1. etag' = [etag EXCEPT ![f] = digest[f]]
        BY <2>1, <3>2, <3>5 DEF DigestKnows
      <4>2. \A g \in Feeds : etag'[g] <= digest'[g] /\ digest'[g] <= remote'[g]
        BY <2>1, <3>1, <4>1 DEF DigestInv, Types
      <4>3. DigestAgrees'
        BY <2>1, <3>1, <4>1 DEF DigestAgrees, DigestInv, Body, Types
      <4> QED BY <3>1, <3>3, <4>2, <4>3 DEF DigestInv
    <3> QED BY <3>1, <3>4, <3>5
  <2> QED BY <1>6, <2>4, <2>5, <2>6, <2>7, <2>8, <2>9, <2>10, <2>11 DEF Run, Proceed, Fails, WriteFails
<1> QED BY <1>1, <1>2, <1>3, <1>4, <1>5, <1>6 DEF Next

\* Runs that do not overlap: the digest beside a file is of that file as soon as the
\* row knows the file, whatever crashes, whatever cannot be written or is deleted.
THEOREM DigestAgreesAlways == ASSUME ~Overlap PROVE Spec => []DigestAgrees
<1>1. DigestInv => DigestAgrees
  BY DEF DigestInv
<1>2. Init => IInv /\ DigestInv
  BY InitIInv, InitDigestInv
<1>3. IInv /\ DigestInv /\ [Next]_vars => IInv' /\ DigestInv'
  BY StepIInv, StepDigestInv
<1> QED BY <1>1, <1>2, <1>3, PTL DEF Spec
==============================================================================
