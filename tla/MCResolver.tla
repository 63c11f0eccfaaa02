------------------------------ MODULE MCResolver ------------------------------
(* A client that looks up a good name, and over UDP one of a slow zone.     *)
EXTENDS ResolverProps
MCZoneOf   == [n \in Names |-> n]
MCRequests == {r \in [client : Clients, name : Names, tcp : BOOLEAN] : r.tcp => r.name = "good"}
================================================================================
