----------------------------- MODULE MCSetupEtc -----------------------------
(* Instances of SetupEtc: a directory, a file in it, a file beside.         *)
EXTENDS SetupEtc

CONSTANTS d, x, p,               \* x lies in d
          g1, g2, g3, g4, g5, g6   \* generations

InD == [q \in Paths |-> IF q = x THEN d ELSE Top]

Has(kd, kx, kp) == [q \in Paths |-> IF q = d THEN kd ELSE IF q = x THEN kx ELSE kp]
AllTrees == [g \in Gens |->
  CASE g = g1 -> Has("dir", "static", "copy")
    [] g = g2 -> Has("static", "none", "direct")
    [] g = g3 -> Has("dir", "direct", "static")
    [] g = g4 -> Has("direct", "none", "none")
    [] g = g5 -> Has("copy", "none", "copy")
    [] OTHER  -> Has("dir", "copy", "none")]
=============================================================================
