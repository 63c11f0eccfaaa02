------------------------------ MODULE FeedsProps ------------------------------
(* What the updater promises of the files and of the rows about them.      *)
EXTENDS Feeds

\* What may be in a file of f.
Contents(f) == UNION {[1..n -> 0..MaxVersion[f]] : n \in 0..Chunks[f]}

Pcs == {"idle", "consider", "wait", "stream", "replace", "unlink", "cleanup",
        "digest", "row", "touch", "clear", "error", "count"}

\* Every variable keeps its type.
TypeOK ==
    /\ \A f \in Feeds :
         /\ remote[f] \in Versions(f)
         /\ {digest[f], etag[f]} \subseteq Versions(f) \cup {0}
         /\ {file[f], tmp[f]} \subseteq Contents(f) \cup {None}
    /\ status \in [Feeds -> {"never", "ok", "error"}]
    /\ checked \in [Feeds -> 0..BackoffMax]
    /\ updated \in [Feeds -> 0..StaleAge]
    /\ failures \in [Feeds -> 0..MaxFailures]
    /\ up \in [Processes ->
         [pc : Pcs, at : 1..Len(Order), forced : BOOLEAN, slots : 0..Slots, have : BOOLEAN,
          tag : Nat, version : Nat, next : Nat \ {0}, fd : {"none", "tmp", "file", "gone"}]]
    /\ due \in BOOLEAN

\* "a crash mid-download can never leave a truncated list that the DNS filter would
\* happily load" (updater.py): every installed file is one version, whole.
WholeLists == \A f \in Feeds : file[f] = None \/ Whole(f, file[f])

\* "Not Modified is a successful refresh: the copy on disk is current": whatever
\* crashed and failed since the row got its ETag, a 304 is never taken to mean that a
\* file is current that is not the mirror's version, whole.
NotModifiedIsCurrent ==
    \A u \in Processes :
        up[u].pc = "touch" => file[Feed(u)] \in {None, Body(Feed(u), up[u].version)}

\* The digest beside a file is of that file, as soon as the row knows the file.
DigestAgrees ==
    \A f \in Feeds : etag[f] # 0 /\ file[f] = Body(f, etag[f]) => digest[f] = etag[f]

\* From some time on f's mirror answers in full and keeps its version, nobody deletes
\* the file, nothing crashes, writes succeed, and downloads that succeed are not slow.
Healthy(f) ==
    /\ remote'[f] = remote[f] /\ (file[f] # None => file'[f] # None)
    /\ \A u \in Processes :
         /\ Crash(u) \/ WriteFails(u) => Proceed(u)
         /\ Fails(u) /\ Feed(u) = f => FALSE
         /\ NotModified(u, TRUE) \/ Answer(u, TRUE) => FALSE
         /\ ~up[u].have => ~NotModified(u, FALSE)

\* Then the last feed, the one the others can starve, comes to be and stays up to date,
\* however often they fail and whatever time their failures take, thanks to the backoff.
FeedRecovers ==
    LET f == Last(Order) IN
    <>[][Healthy(f)]_vars =>
        <>[](file[f] = Body(f, remote[f]) /\ status[f] = "ok" /\ failures[f] = 0)

\* The files that the runs leave behind are whole, however the runs overlapped.
NoTruncatedListLeft == (\A u \in Processes : up[u].pc = "idle") => WholeLists
===============================================================================
