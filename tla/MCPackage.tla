----------------------------- MODULE MCPackage ------------------------------
(***************************************************************************)
(* Two files, one read by a single loader and one by both, and programs    *)
(* with nothing, a word, a patch and two symbols in them.                  *)
(***************************************************************************)
EXTENDS Package, TLC

Extensions == "p.thb" :> "thb" @@ "q" :> "other"
Paths == DOMAIN Extensions

MCWords == {7}
MCPatches == {[address |-> 4, bytes |-> <<1>>]}
MCPrograms ==
  { NoProgram,
    [code |-> <<7>>, data_segments |-> <<[address |-> 4, bytes |-> <<1>>]>>,
     symbols |-> "a" :> 0 @@ "b" :> 4] }
=============================================================================
