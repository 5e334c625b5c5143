-------------------------- MODULE MCSystemPipeline --------------------------
(***************************************************************************)
(* Bounds for SystemPipeline: one command, an update or a reboot, with two *)
(* attempts, so that the second claim meets what the first one left, and   *)
(* two boots.  One request may be late at a time.                          *)
(***************************************************************************)
EXTENDS SystemPipeline, TLC
CONSTANTS anUpdate, aReboot
MCCommands == {anUpdate, aReboot}
MCKindOf == (anUpdate :> "update") @@ (aReboot :> "power")

OneCommand == Cardinality({c \in Commands : rows[c].status # "absent"}) <= 1
=============================================================================
