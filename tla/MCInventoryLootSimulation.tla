---------------------- MODULE MCInventoryLootSimulation ----------------------
(* InventoryLootSimulation with a light and a heavy treasure. *)
EXTENDS InventoryLootSimulation

MCTreasures == <<[value |-> 1, weight |-> 1], [value |-> 3, weight |-> 2]>>
=============================================================================
