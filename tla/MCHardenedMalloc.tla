-------------------------- MODULE MCHardenedMalloc --------------------------
(***************************************************************************)
(* TLC instance of HardenedMalloc.  Three addresses for a two-slot table:  *)
(* the table fills, a third block goes untracked, and a freed address is   *)
(* handed out again while other records exist.  size_t has 4 bits: sizes  *)
(* 1 and 2 leave room for the canary, 13 wraps size + CANARY_SIZE to 1.    *)
(***************************************************************************)
EXTENDS HardenedMalloc

MCAddr == {1, 2, 3}
MCMaxAllocs == 2
MCSizeWidth == 4
MCSizes == {1, 2}
MCWrapSizes == {1, 13}
=============================================================================
