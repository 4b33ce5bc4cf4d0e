----------------------------- MODULE MCKeyScan -----------------------------
(***************************************************************************)
(* Three keys: A and B (action) and RT (direction), which shares its line  *)
(* with A.  The four P1 values cover every selection of P14 and P15.       *)
(***************************************************************************)
EXTENDS KeyScan

MCKeys == {0, 1, 4}
MCP1Values == {{}, {4}, {5}, {4, 5}}
MCRegValues == {{4}}
=============================================================================
