--------------------------- MODULE MCPanelMessages ---------------------------
(***************************************************************************)
(* Descriptions around the boundary of a block of 16 bytes, with bars,     *)
(* broken bars, "]" and a two-byte character; replies of up to two         *)
(* sections.                                                               *)
(***************************************************************************)
EXTENDS PanelMessages

MCCharacters == {124, 166, 93, 233}
MCSmallAe == {97, 166, 230}   \* U+00E6 ends in the byte 0xA6
MCReplies == UNION {[1 .. n -> {<<4>>, <<>>, <<64>>, <<65, 64>>}] : n \in 0 .. 2}

=============================================================================
