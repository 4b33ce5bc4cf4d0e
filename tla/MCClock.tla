------------------------------ MODULE MCClock ------------------------------
(***************************************************************************)
(* Two devices, rounds that give 1 or 4 cycles (4 is the default of        *)
(* counter_t::step), actions that cost less than, as much as and more than *)
(* a round; one device may start in debt.                                  *)
(***************************************************************************)
EXTENDS Clock

CONSTANTS cpu, ppu

MCDevices == {cpu, ppu}
MCPrices == {1, 4, 6}
MCSteps == {1, 4}
MCInitVals == {0, -3}
=============================================================================
