-------------------------- MODULE MCManagedConfig --------------------------
(* Every version ships its own skills; the pins change with version 3.      *)
EXTENDS ManagedConfig

MCSkillsOf == [v \in Versions |-> v]
MCPinsOf == [v \in Versions |-> IF v < 3 THEN 1 ELSE 2]

============================================================================
