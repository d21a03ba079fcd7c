------------------------- MODULE MCCombatSimulation -------------------------
(* CombatSimulation with one hitscan weapon and one that sends projectiles. *)
EXTENDS CombatSimulation

CONSTANTS rifle, launcher, none

MCWeapons == {rifle, launcher}
MCHitscan == {rifle}
MCDamage == [w \in MCWeapons |-> IF w = rifle THEN 1 ELSE 2]
MCCooldown == [w \in MCWeapons |-> IF w = rifle THEN 2 ELSE 1]
=============================================================================
