-------------------------------- MODULE Feeds --------------------------------
(***************************************************************************)
(* The feed updater (homesoc/feeds/updater.py): which feeds a run asks     *)
(* for, the download into <name>.tmp, the move into place, the digest      *)
(* beside it and the row that says how fresh it is, with a crash possible  *)
(* between any two of these.                                               *)
(*                                                                         *)
(* Two processes run it: the scheduler's feeds job in the server, every    *)
(* Period hours, and `python -m homesoc update` in a terminal.  Nothing    *)
(* keeps them apart; Overlap says whether they happen to run at once.      *)
(*                                                                         *)
(* A file is the sequence of its chunks, each the version of the feed it   *)
(* was downloaded from, 0 where a hole was left.  The two timestamps of a  *)
(* row are ages in hours that stop where more makes no difference, which   *)
(* is where "never" starts too.                                            *)
(***************************************************************************)
EXTENDS Naturals, FiniteSets, SequencesExt

CONSTANTS
    Order,       \* the feeds, in the order of registry.FEEDS
    Enabled,     \* those whose row is enabled
    Job,         \* the server's feeds job
    Cli,         \* runs of `update` in a terminal
    Removed,     \* bound: feeds whose file someone may delete
    Overlap,     \* whether they may run at the same time
    Failing,     \* whether a database write may fail
    Chunks,      \* per feed: chunks of a download
    Hours,       \* effective_hours: age at which a feed is still fresh
    Period,      \* hours between two runs of the job
    BackoffMax,  \* BACKOFF_MAX_HOURS
    Slots,       \* slow downloads that fit in UPDATE_MAX_SECONDS
    MaxVersion,  \* bound, per feed: versions its mirror publishes
    MaxFailures, \* bound: failures counted, enough for BackoffMax
    None         \* no file

Feeds     == ToSet(Order)
Processes == {Job} \cup Cli
StaleAge  == Hours + 1  \* any older is as stale

ASSUME FeedsAssumption ==
    /\ Order \in Seq(STRING) /\ Order # <<>> /\ IsInjective(Order) /\ Enabled \cup Removed \subseteq Feeds
    /\ Job \notin Cli /\ Overlap \in BOOLEAN /\ Failing \in BOOLEAN
    /\ Slots \in Nat \ {0}
    /\ Chunks \in [Feeds -> Nat \ {0}] /\ MaxVersion \in [Feeds -> Nat \ {0}]
    /\ MaxFailures \in Nat \ {0}
    /\ Hours \in Nat /\ Period \in Nat \ {0} /\ BackoffMax \in Nat

VARIABLES
    remote,    \* per feed: version its mirror serves, and its ETag
    file,      \* per feed: the installed file
    tmp,       \* per feed: <name>.tmp
    digest,    \* per feed: the version the .sha256 file is of, 0: none
    status,    \* feeds.status
    etag,      \* feeds.etag, 0: none
    checked,   \* age of feeds.last_checked
    updated,   \* age of feeds.last_updated
    failures,  \* settings feeds.failures.<name>
    up,        \* per process: where it is in update
    due        \* the feeds job is due

disk == <<file, tmp, digest>>
row  == <<status, etag, checked, updated, failures>>
vars == <<remote, disk, row, up, due>>

Versions(f) == 1..MaxVersion[f]
\* The first n chunks of version v, and all of f's.
Part(n, v) == [i \in 1..n |-> v]
Body(f, v) == Part(Chunks[f], v)
Whole(f, c) == \E v \in Versions(f) : c = Body(f, v)

ASSUME NoFileAssumption == \A f \in Feeds : \A v \in Versions(f) : None # Body(f, v)

\* A process outside update, and one that begins a run.
Idle == [pc |-> "idle", at |-> 1, forced |-> FALSE, slots |-> Slots, have |-> FALSE,
         tag |-> 0, version |-> 0, next |-> 1, fd |-> "none"]

Feed(u) == Order[up[u].at]

Init ==
    /\ remote = [f \in Feeds |-> 1]
    /\ file = [f \in Feeds |-> None]
    /\ tmp = [f \in Feeds |-> None]
    /\ digest = [f \in Feeds |-> 0]
    /\ status = [f \in Feeds |-> "never"]
    /\ etag = [f \in Feeds |-> 0]
    /\ checked = [f \in Feeds |-> BackoffMax]
    /\ updated = [f \in Feeds |-> StaleAge]
    /\ failures = [f \in Feeds |-> 0]
    /\ up = [u \in Processes |-> Idle]
    /\ due = TRUE

-----------------------------------------------------------------------------
(* The mirrors, the disk, the clock.                                       *)

\* A mirror publishes a new version.
Publish(f) ==
    /\ remote[f] < MaxVersion[f]
    /\ remote' = [remote EXCEPT ![f] = @ + 1]
    /\ UNCHANGED <<disk, row, up, due>>

\* Someone deletes the file: a process that writes to it goes on in vain.
RemoveFile(f) ==
    /\ file[f] # None
    /\ file' = [file EXCEPT ![f] = None]
    /\ up' = [u \in Processes |->
                IF Feed(u) = f /\ up[u].fd = "file" THEN [up[u] EXCEPT !.fd = "gone"] ELSE up[u]]
    /\ UNCHANGED <<remote, tmp, digest, row, due>>

Older(age, limit) == IF age + Period < limit THEN age + Period ELSE limit

\* Hours pass until the job is due again; a run takes minutes.
Tick ==
    /\ ~due
    /\ \A u \in Processes : up[u].pc = "idle"
    /\ checked' = [f \in Feeds |-> Older(checked[f], BackoffMax)]
    /\ updated' = [f \in Feeds |-> Older(updated[f], StaleAge)]
    /\ due' = TRUE
    /\ UNCHANGED <<remote, disk, status, etag, failures, up>>

-----------------------------------------------------------------------------
(* update: the loop over the feeds.                                        *)

Start(u, force) ==
    /\ up[u].pc = "idle"
    /\ Overlap \/ \A w \in Processes : up[w].pc = "idle"
    /\ u = Job => due /\ ~force
    /\ due' = (due /\ u # Job)
    /\ up' = [up EXCEPT ![u] = [Idle EXCEPT !.pc = "consider", !.forced = force]]
    /\ UNCHANGED <<remote, disk, row>>

\* On to the next feed, or out of the loop.
Advance(u) ==
    up' = [up EXCEPT ![u] =
              IF @.at = Len(Order) THEN Idle
              ELSE [Idle EXCEPT !.pc = "consider", !.at = up[u].at + 1,
                                !.forced = up[u].forced, !.slots = up[u].slots]]

Goto(u, label) == up' = [up EXCEPT ![u].pc = label]

Stale(f) == file[f] = None \/ updated[f] > Hours

\* Mutant: a failing feed is tried at every run.
NoBackoff(f) == FALSE

\* backoff_until: 1, 2, 4 ... hours after the last attempt.
BackingOff(f) ==
    /\ failures[f] > 0
    /\ checked[f] < BackoffMax /\ checked[f] < 2 ^ (failures[f] - 1)

Skips(u) ==
    \/ ~up[u].forced /\ (Feed(u) \notin Enabled \/ ~Stale(Feed(u)) \/ BackingOff(Feed(u)))
    \/ up[u].slots = 0

Skip(u) ==
    /\ up[u].pc = "consider" /\ Skips(u)
    /\ Advance(u)
    /\ UNCHANGED <<remote, disk, row, due>>

\* The request, conditional on the row's ETag if there is a file it can be about.
Ask(u) ==
    /\ up[u].pc = "consider" /\ ~Skips(u)
    /\ LET have == file[Feed(u)] # None IN
       up' = [up EXCEPT ![u].pc = "wait", ![u].have = have,
                        ![u].tag = IF have THEN etag[Feed(u)] ELSE 0]
    /\ UNCHANGED <<remote, disk, row, due>>

-----------------------------------------------------------------------------
(* _fetch_one_watched.                                                     *)

\* The answer is about the version the mirror serves now, and the conditions of the
\* request are done with.  A slow one takes one of the slow downloads the run has time for.
Reply(u, label, slow) ==
    LET r == up[u] IN
    up' = [up EXCEPT ![u] = [r EXCEPT !.pc = label, !.version = remote[Feed(u)],
                               !.have = FALSE, !.tag = 0,
                               !.slots = IF slow THEN r.slots - 1 ELSE r.slots,
                               !.fd = IF label = "stream" THEN "tmp" ELSE "none"]]

\* 304: the mirror says the tag is that of its version.  Without a file no tag was
\* sent, and a mirror that says so nevertheless is broken.
NotModified(u, slow) ==
    /\ up[u].pc = "wait"
    /\ up[u].tag = remote[Feed(u)] \/ ~up[u].have
    /\ Reply(u, IF up[u].have THEN "touch" ELSE "error", slow)
    /\ UNCHANGED <<remote, disk, row, due>>

\* Mutant: the row learns the ETag with the response's headers.
AnswerSavesTag(u, slow) ==
    /\ up[u].pc = "wait"
    /\ tmp' = [tmp EXCEPT ![Feed(u)] = Part(0, remote[Feed(u)])]
    /\ etag' = [etag EXCEPT ![Feed(u)] = remote[Feed(u)]]
    /\ Reply(u, "stream", slow)
    /\ UNCHANGED <<remote, file, digest, status, checked, updated, failures, due>>

\* 200: <name>.tmp is opened for writing, which empties it if it is there.
Answer(u, slow) ==
    /\ up[u].pc = "wait"
    /\ tmp' = [tmp EXCEPT ![Feed(u)] = Part(0, remote[Feed(u)])]
    /\ Reply(u, "stream", slow)
    /\ UNCHANGED <<remote, file, digest, row, due>>

\* No connection, an HTTP error, a declared size over the cap, the wall clock.
AnswerFails(u, slow) ==
    /\ up[u].pc = "wait"
    /\ Reply(u, "error", slow)
    /\ UNCHANGED <<remote, disk, row, due>>

\* A write at its own offset, past the end with a hole.
WriteAt(c, i, v) ==
    [k \in DOMAIN c \cup 1..i |-> IF k = i THEN v ELSE IF k \in DOMAIN c THEN c[k] ELSE 0]

\* _stream_to_tmp: the chunk goes where the opened file is by now.
WriteChunk(u) ==
    /\ up[u].pc = "stream" /\ up[u].next <= Chunks[Feed(u)]
    /\ LET f == Feed(u)
           Written(c) == WriteAt(c, up[u].next, up[u].version)
       IN  /\ tmp' = IF up[u].fd = "tmp" THEN [tmp EXCEPT ![f] = Written(@)] ELSE tmp
           /\ file' = IF up[u].fd = "file" THEN [file EXCEPT ![f] = Written(@)] ELSE file
    /\ up' = [up EXCEPT ![u].next = @ + 1]
    /\ UNCHANGED <<remote, digest, row, due>>

\* Something in c parses as an entry.
HasEntries(c) == c # None /\ \E i \in DOMAIN c : c[i] # 0

Closed(u, label) ==
    up' = [up EXCEPT ![u].pc = label, ![u].next = 1, ![u].fd = "none"]

\* Mutant: the end of the stream is the end of the body, also when the clock cut it.
AcceptUnchecked(u) ==
    /\ up[u].pc = "stream" /\ up[u].next > 1
    /\ Closed(u, IF HasEntries(tmp[Feed(u)]) THEN "replace" ELSE "cleanup")
    /\ UNCHANGED <<remote, disk, row, due>>

\* Mutant: the digest is saved as soon as it is known.
AcceptSavesDigest(u) ==
    /\ up[u].pc = "stream" /\ up[u].next > Chunks[Feed(u)]
    /\ digest' = [digest EXCEPT ![Feed(u)] = up[u].version]
    /\ Closed(u, IF HasEntries(tmp[Feed(u)]) THEN "replace" ELSE "cleanup")
    /\ UNCHANGED <<remote, file, tmp, row, due>>

\* The stream has ended in time and _count_entries has read tmp: a file without a
\* single entry is refused, and so is one that is gone.
Accept(u) ==
    /\ up[u].pc = "stream" /\ up[u].next > Chunks[Feed(u)]
    /\ Closed(u, IF HasEntries(tmp[Feed(u)]) THEN "replace" ELSE "cleanup")
    /\ UNCHANGED <<remote, disk, row, due>>

\* The cap, the wall clock or the connection ends the stream, or the parse fails.
StreamFails(u) ==
    /\ up[u].pc = "stream"
    /\ Closed(u, "cleanup")
    /\ UNCHANGED <<remote, disk, row, due>>

\* Where a file opened by w is once u has moved f's tmp into place.
Moved(w, f) ==
    IF Feed(w) # f THEN up[w].fd
    ELSE CASE up[w].fd = "tmp" -> "file" [] up[w].fd = "file" -> "gone" [] OTHER -> up[w].fd

\* Nothing to move if another process has taken it.
Replace(u) ==
    /\ up[u].pc = "replace"
    /\ IF tmp[Feed(u)] = None THEN Goto(u, "cleanup") /\ UNCHANGED <<file, tmp>>
       ELSE /\ file' = [file EXCEPT ![Feed(u)] = tmp[Feed(u)]]
            /\ tmp' = [tmp EXCEPT ![Feed(u)] = None]
            /\ up' = [w \in Processes |->
                        [up[w] EXCEPT !.fd = Moved(w, Feed(u)),
                                      !.pc = IF w = u THEN "unlink" ELSE @]]
    /\ UNCHANGED <<remote, digest, row, due>>

\* Windows moves nothing over a file that something is reading.
ReplaceFails(u) ==
    /\ up[u].pc = "replace"
    /\ Goto(u, "cleanup")
    /\ UNCHANGED <<remote, disk, row, due>>

\* finally: whatever is called <name>.tmp by now goes.
Unlink(u) ==
    /\ up[u].pc \in {"unlink", "cleanup"}
    /\ tmp' = [tmp EXCEPT ![Feed(u)] = None]
    /\ up' = [w \in Processes |->
                [up[w] EXCEPT
                   !.fd = IF Feed(w) = Feed(u) /\ @ = "tmp" THEN "gone" ELSE @,
                   !.pc = IF w # u THEN @ ELSE IF @ = "unlink" THEN "digest" ELSE "error"]]
    /\ UNCHANGED <<remote, file, digest, row, due>>

SaveDigest(u) ==
    /\ up[u].pc = "digest"
    /\ digest' = [digest EXCEPT ![Feed(u)] = up[u].version]
    /\ Goto(u, "row")
    /\ UNCHANGED <<remote, file, tmp, row, due>>

\* The row of a feed that is current: after a download, and after a 304.
SaveRow(u) ==
    /\ up[u].pc \in {"row", "touch"}
    /\ LET f == Feed(u) IN
       /\ status' = [status EXCEPT ![f] = "ok"]
       /\ etag' = IF up[u].pc = "row" THEN [etag EXCEPT ![f] = up[u].version] ELSE etag
       /\ checked' = [checked EXCEPT ![f] = 0]
       /\ updated' = [updated EXCEPT ![f] = 0]
    /\ Goto(u, "clear")
    /\ UNCHANGED <<remote, disk, failures, due>>

\* _note_success.
ClearFailures(u) ==
    /\ up[u].pc = "clear"
    /\ failures' = [failures EXCEPT ![Feed(u)] = 0]
    /\ Advance(u)
    /\ UNCHANGED <<remote, disk, status, etag, checked, updated, due>>

-----------------------------------------------------------------------------
(* _mark_error: the row, then the count of failures.                       *)

MarkError(u) ==
    /\ up[u].pc = "error"
    /\ status' = [status EXCEPT ![Feed(u)] = "error"]
    /\ checked' = [checked EXCEPT ![Feed(u)] = 0]
    /\ Goto(u, "count")
    /\ UNCHANGED <<remote, disk, etag, updated, failures, due>>

CountFailure(u) ==
    /\ up[u].pc = "count"
    /\ failures' = [failures EXCEPT ![Feed(u)] = IF @ < MaxFailures THEN @ + 1 ELSE @]
    /\ Advance(u)
    /\ UNCHANGED <<remote, disk, status, etag, checked, updated, due>>

-----------------------------------------------------------------------------
(* A write fails.  The process dies, or a failing write that nothing       *)
(* catches, of _ensure_row or _mark_error, ends its run.                   *)

Crash(u) ==
    /\ up[u].pc # "idle"
    /\ up' = [up EXCEPT ![u] = Idle]
    /\ UNCHANGED <<remote, disk, row, due>>

\* The digest or the feed's row cannot be written: the feed has failed.
SaveFails(u) ==
    /\ up[u].pc \in {"digest", "row", "touch"}
    /\ Goto(u, "error")
    /\ UNCHANGED <<remote, disk, row, due>>

\* _set_setting and _del_setting only log it.
SettingFails(u) ==
    /\ up[u].pc \in {"clear", "count"}
    /\ Advance(u)
    /\ UNCHANGED <<remote, disk, row, due>>

-----------------------------------------------------------------------------
Fails(u) ==
    \/ StreamFails(u) \/ ReplaceFails(u) \/ \E slow \in BOOLEAN : AnswerFails(u, slow)

WriteFails(u) == Failing /\ (SaveFails(u) \/ SettingFails(u))

\* The steps update takes when nothing goes wrong, given how the mirror answers.
Proceed(u) ==
    \/ Skip(u) \/ Ask(u) \/ WriteChunk(u) \/ Accept(u) \/ Replace(u)
    \/ Unlink(u) \/ SaveDigest(u) \/ SaveRow(u) \/ ClearFailures(u)
    \/ MarkError(u) \/ CountFailure(u)
    \/ \E slow \in BOOLEAN : NotModified(u, slow) \/ Answer(u, slow)

Run(u) == Proceed(u) \/ Fails(u) \/ WriteFails(u)

Next ==
    \/ Tick
    \/ \E f \in Feeds : Publish(f)
    \/ \E f \in Removed : RemoveFile(f)
    \/ \E u \in Processes : Run(u) \/ Crash(u) \/ \E force \in BOOLEAN : Start(u, force)

Spec == Init /\ [][Next]_vars

\* A run goes on; hours pass and the scheduler starts the job, however often someone
\* runs `update` in between.
FairSpec ==
    /\ Spec
    /\ \A u \in Processes : WF_vars(Run(u))
    /\ SF_vars(Tick) /\ SF_vars(Start(Job, FALSE))
=============================================================================
