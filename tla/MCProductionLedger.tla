-------------------------- MODULE MCProductionLedger --------------------------
(* Two kinds of events, enough to tell a line from another of its number.    *)
EXTENDS ProductionLedger

MCEvent == {"leak", "act"}
=============================================================================
