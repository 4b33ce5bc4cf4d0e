----------------------------- MODULE MCKeyEdges -----------------------------
(***************************************************************************)
(* Two keys, three presses, the vertical blank as the other device, which  *)
(* outranks the joypad.  IE enables nothing, the joypad, or both sources,  *)
(* the last with every reserved bit set.                                   *)
(***************************************************************************)
EXTENDS KeyEdges

MCKeys == {0, 4}
MCRegValues == {{}, {4}, {0, 4, 5, 6, 7}}
MCP1Values == {}
MCOtherDevices == {0}
=============================================================================
