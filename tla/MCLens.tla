-------------------------------- MODULE MCLens --------------------------------
(* One desk, two phones behind one address, room for one token.           *)
EXTENDS LensProps, TLC

Alike == Permutations(Phones)
=============================================================================
