------------------------------- MODULE MCFeeds -------------------------------
(* A small feed that can use up a run, and one that changes; and the latter *)
(* alone.                                                                    *)
EXTENDS FeedsProps

MCOrder    == <<"kev", "urlhaus">>
MCBoth     == {"kev", "urlhaus"}
MCChunks   == [f \in Feeds |-> IF f = "kev" THEN 1 ELSE 2]
MCVersions == [f \in Feeds |-> IF f = "kev" THEN 1 ELSE 2]
MCOne      == <<"urlhaus">>
MCUrl      == {"urlhaus"}
==============================================================================
