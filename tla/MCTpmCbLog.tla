----------------------------- MODULE MCTpmCbLog -----------------------------
(***************************************************************************)
(* TLC instance of TpmCbLog.  Two pre-RAM slots and three cbmem slots for *)
(* four measurements: the pre-RAM table fills, and the cbmem table fills  *)
(* after the copy.  At power-on _tpm_log holds any metadata whose used    *)
(* part lies in the region (MCMeta), or, for the bounds run, metadata     *)
(* that claims more entries than the region has (MCWildMeta).             *)
(***************************************************************************)
EXTENDS TpmCbLog

MCPreramCap == 2
MCRamCap == 3
MCMaxMeasure == 4
MCMeta == {<<0, 0>>, <<2, 1>>, <<5, 2>>, <<1, 4>>}
MCWildMeta == MCMeta \cup {<<5, 3>>}
=============================================================================
