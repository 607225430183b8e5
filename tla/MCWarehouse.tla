----------------------------- MODULE MCWarehouse -----------------------------
(* The instance of Warehouse for TLC. *)
EXTENDS Warehouse

CONSTANTS BOX, TNK, PRN001, KER001, One, Two

MCPackages     == <<BOX, TNK>>
MCDefinitions  == <<[code |-> PRN001, package |-> BOX], [code |-> KER001, package |-> TNK]>>
MCCustomFields == <<<<One, 1>>, <<Two, 2>>>>
=============================================================================
