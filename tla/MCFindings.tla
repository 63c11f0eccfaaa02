----------------------------- MODULE MCFindings -----------------------------
(* One finding, two scanning threads and a user, interleaved call by call;  *)
(* and two devices and two scanners: which scan may close which finding.    *)
EXTENDS FindingsProps, TLC
CONSTANTS e1, e2, u1, port, tls, edge
MCSourceOf == [k \in Keys |-> "services"]
MCSubject  == [k \in Keys |-> <<"device", "m1">>]
MCBlanket  == [s \in Sources |-> [parts |-> <<"device">>, raw |-> TRUE]]
EngineSymmetry == Permutations(Engines)

ScansSourceOf == (port :> "services") @@ (tls :> "services") @@ (edge :> "topology")
ScansSubject  == (port :> <<"device", "m1", "443">>) @@ (tls :> <<"device", "m2">>)
                 @@ (edge :> <<"device", "m1">>)
=============================================================================
