------------------------------ MODULE MCGrayFs ------------------------------
(***************************************************************************)
(* A file of two blocks, the second one a hole at first.                   *)
(***************************************************************************)
EXTENDS GrayFs

MCBlocks == {7, 8, 9}
MCMissing == {9}
MCList0 == <<7, -1>>
MCFields == <<"size", "mode", "mtime">>
MCKinds == {{"size", "mode", "mtime"}, {"size", "mtime"}}
=============================================================================
