-------------------------- MODULE MCFspSiliconInit --------------------------
(***************************************************************************)
(* TLC instance of FspSiliconInit: three boots, so that a cold boot is     *)
(* resumed twice or resumed after a second cold boot cleared the cache,    *)
(* with the GOP path built in.                                             *)
(***************************************************************************)
EXTENDS FspSiliconInit

MCMaxBoots == 3
=============================================================================
