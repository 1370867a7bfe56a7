--------------------------- MODULE FspSiliconInit ---------------------------
(***************************************************************************)
(* FSP 1.1 silicon init in ramstage (src/src/drivers/intel/fsp1_1/         *)
(* ramstage.c), over a sequence of boots.  intel_silicon_init loads the    *)
(* FSP (relocating it on a cold boot and adding it to the stage cache, or  *)
(* taking it from the stage cache on S3 resume), resolves the silicon-init *)
(* UPD through the header, calls FspSiliconInit and hands the GOP frame    *)
(* buffer on.  The stage cache lives in memory that S3 keeps and a cold    *)
(* boot clears.  The FSP image in flash is the same on every boot.        *)
(***************************************************************************)
EXTENDS Naturals

CONSTANTS
    MaxBoots,   \* bound on the boots of one behaviour
    RunFspGop   \* CONFIG(RUN_FSP_GOP)

ASSUME MaxBootsAssumption == MaxBoots \in Nat \ {0}
ASSUME RunFspGopAssumption == RunFspGop \in BOOLEAN

\* The FSP image: a zero ImageBase, CfgRegionOffset, PcdUpdRegionOffset or
\* SiliconInitUpdOffset, or all resolved.
ImageKinds == {"zeroBase", "zeroCfg", "zeroUpd", "zeroSiUpd", "ok"}

\* What intel_silicon_init did in a boot.
Outcomes == {"none", "noHeader", "badImage", "called"}

VARIABLES
    boot,        \* number of the current boot
    resume,      \* resume_from_stage_cache(): this boot is an S3 resume
    cache,       \* the stage cache holds the relocated FSP (STAGE_REFCODE)
    image,       \* the FSP binary in flash
    entry,       \* prog_entry(&fsp) is not NULL after fsp_load
    pc,
    status,      \* what FspSiliconInit returned
    graphicsHob, \* FspSiliconInit produced EFI_PEI_GRAPHICS_INFO_HOB
    gfxDone,     \* gfx_set_init_done(1) was called
    fbAdded,     \* fb_add_framebuffer_info was called
    outcome,     \* what intel_silicon_init did in this boot
    prevOutcome  \* what it did in the boot before

vars == <<boot, resume, cache, image, entry, pc, status, graphicsHob, gfxDone,
          fbAdded, outcome, prevOutcome>>

TypeOK ==
    /\ boot \in 1..MaxBoots
    /\ resume \in BOOLEAN
    /\ cache \in BOOLEAN
    /\ image \in ImageKinds
    /\ entry \in BOOLEAN
    /\ pc \in {"load", "call", "done"}
    /\ status \in {"None", "EFI_SUCCESS", "EFI_ERROR"}
    /\ graphicsHob \in BOOLEAN
    /\ gfxDone \in BOOLEAN
    /\ fbAdded \in BOOLEAN
    /\ outcome \in Outcomes
    /\ prevOutcome \in Outcomes

\* The first boot is a cold boot with an empty stage cache.
Init ==
    /\ boot = 1
    /\ resume = FALSE
    /\ cache = FALSE
    /\ image \in ImageKinds
    /\ entry = FALSE
    /\ pc = "load"
    /\ status = "None"
    /\ graphicsHob = FALSE
    /\ gfxDone = FALSE
    /\ fbAdded = FALSE
    /\ outcome = "none"
    /\ prevOutcome = "none"
-----------------------------------------------------------------------------
\* Mutant: the resume path relocates the FSP again instead of loading it
\* from the stage cache.
FspLoadRelocateAlways(reloc) ==
    /\ entry' = reloc
    /\ cache' = reloc

(***************************************************************************)
(* fsp_load, lines 155-169: on resume, load the FSP from the stage cache   *)
(* (its entry is NULL if the cache holds none); otherwise relocate it and  *)
(* cache it if that gave an entry point.  reloc is fsp_relocate's result.  *)
(***************************************************************************)
FspLoad(reloc) ==
    IF resume
    THEN entry' = cache /\ cache' = cache
    ELSE entry' = reloc /\ cache' = reloc

\* Lines 56-76: ImageBase, CfgRegionOffset, PcdUpdRegionOffset and
\* SiliconInitUpdOffset must all be non-zero.
UpdResolved(img) == img = "ok"

(***************************************************************************)
(* intel_silicon_init up to the call, lines 171-182 and 39-115: fsp_load,  *)
(* the header check, then fsp_run_silicon_init's checks, each of which     *)
(* prints and returns.  The entry point base + FspSiliconInitEntryOffset  *)
(* is not NULL once base is (line 107).                                    *)
(***************************************************************************)
IntelSiliconInit ==
    /\ pc = "load"
    /\ \E reloc \in BOOLEAN : FspLoad(reloc)
    /\ IF ~entry'
       THEN outcome' = "noHeader" /\ pc' = "done"
       ELSE IF ~UpdResolved(image)
            THEN outcome' = "badImage" /\ pc' = "done"
            ELSE pc' = "call" /\ UNCHANGED outcome
    /\ UNCHANGED <<boot, resume, image, status, graphicsHob, gfxDone, fbAdded,
                   prevOutcome>>

(***************************************************************************)
(* Lines 117-152: FspSiliconInit returns a status, which is printed only;  *)
(* with RUN_FSP_GOP the graphics config pointer (set by load_vbt, line 86) *)
(* marks graphics done and a graphics-info HOB gives the frame buffer.     *)
(* display_hob_info only prints.                                           *)
(***************************************************************************)
FspSiliconInitCall ==
    /\ pc = "call"
    /\ status' \in {"EFI_SUCCESS", "EFI_ERROR"}
    /\ graphicsHob' \in BOOLEAN
    /\ gfxDone' = RunFspGop
    /\ fbAdded' = (RunFspGop /\ graphicsHob')
    /\ outcome' = "called"
    /\ pc' = "done"
    /\ UNCHANGED <<boot, resume, cache, image, entry, prevOutcome>>

\* The platform boots again: an S3 resume keeps the stage cache, a cold
\* boot clears it.
Reboot ==
    /\ pc = "done"
    /\ boot < MaxBoots
    /\ boot' = boot + 1
    /\ resume' \in BOOLEAN
    /\ cache' = (resume' /\ cache)
    /\ prevOutcome' = outcome
    /\ outcome' = "none"
    /\ pc' = "load"
    /\ entry' = FALSE
    /\ status' = "None"
    /\ graphicsHob' = FALSE
    /\ gfxDone' = FALSE
    /\ fbAdded' = FALSE
    /\ UNCHANGED image

\* The last boot has gone on past silicon init.
Finished == pc = "done" /\ boot = MaxBoots /\ UNCHANGED vars

Next == IntelSiliconInit \/ FspSiliconInitCall \/ Reboot \/ Finished

Spec == Init /\ [][Next]_vars
-----------------------------------------------------------------------------
(***************************************************************************)
(* An S3 resume repeats the boot it resumes: silicon init runs on resume   *)
(* exactly when it ran before suspend, and fails in the same way if it did *)
(* not - the stage cache brings back the very FSP the cold boot relocated. *)
(***************************************************************************)
ResumeRepeatsBoot ==
    (pc = "done" /\ resume) => outcome = prevOutcome

(***************************************************************************)
(* Spec 4.3 and 7, for every invocation of the external module: a zero    *)
(* configuration offset, a missing image and a failure status are fatal.  *)
(* Here boot goes on past silicon init after any of them.                 *)
(***************************************************************************)
SiliconFailureFatal ==
    pc = "done" => outcome = "called" /\ status = "EFI_SUCCESS"
=============================================================================
