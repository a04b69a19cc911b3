---------------------- MODULE MCMetalbondConvergence ----------------------
(* The inductive invariant of MetalbondConvergence on the instances of     *)
(* MCMetalbondClient that meet its conditions.                             *)
EXTENDS MetalbondConvergence, MCMetalbondClient

\* The instance is one the theorems speak about.
ASSUME ConditionsHold == Conditions
==============================================================================
