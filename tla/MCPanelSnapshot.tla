--------------------------- MODULE MCPanelSnapshot ---------------------------
(***************************************************************************)
(* Two areas, so that a reply about areas has rows of different ages, and  *)
(* a zone in the first of them.                                            *)
(***************************************************************************)
EXTENDS PanelSnapshot, TLC

CONSTANTS a1, a2, z1

MCAreas == {a1, a2}
MCZones == {z1}
MCAreaOf == z1 :> a1
=============================================================================
