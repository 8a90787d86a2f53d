------------------------------ MODULE MCRunner -------------------------------
(* Two changes of the settings and three loops. *)
EXTENDS Runner

const_MaxConfig == 3
const_MaxLoops  == 3
=============================================================================
