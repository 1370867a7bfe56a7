---------------------------- MODULE MCFspRaminit ----------------------------
(***************************************************************************)
(* raminit() on a small platform: two addresses, so that the FSP reserved  *)
(* region can sit below, at, or above the TOLUM region and cbmem can agree *)
(* or disagree; MRC payloads of 32 bytes (the spec's scenario, HOB length  *)
(* 56, not a multiple of 16) and 65511 bytes (HOB length 65535, the        *)
(* largest UINT16); lists of up to four HOBs, enough for all four         *)
(* mandatory HOBs, or for duplicates and missing ones.  A u32 is scaled   *)
(* to 16 values: resource lengths are 8 (below 4 GiB) and, for the size  *)
(* accounting run, 24 (4 GiB or more, truncated to 8).                    *)
(***************************************************************************)
EXTENDS FspRaminit

MCAddr == {1, 2}
MCMrcPayload == {32, 65511}
MCMaxHobs == 4
MCU32 == 16
MCResLen == {8}
MCWideResLen == {8, 24}
=============================================================================
