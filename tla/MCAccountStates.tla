-------------------------- MODULE MCAccountStates --------------------------
(* Two accounts; one mode and one note besides the empty one.               *)
EXTENDS AccountStates

DemoOnly == {"demo"}
=============================================================================
