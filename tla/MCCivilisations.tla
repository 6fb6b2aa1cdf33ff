-------------------------- MODULE MCCivilisations --------------------------
(***************************************************************************)
(* Instances of Civilisations.                                             *)
(***************************************************************************)
EXTENDS Civilisations

CONSTANTS Terran, Grazny

(* A constellation begins beside the middle, or far from it.               *)
MCPositions == {<<6, 1>>, <<-6, 1>>}

MCCivList == <<Terran, Grazny>>

MCPower(c) == IF c = Terran THEN 2 ELSE 1
=============================================================================
