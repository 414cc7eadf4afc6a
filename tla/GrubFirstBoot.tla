--------------------------- MODULE GrubFirstBoot ---------------------------
(***************************************************************************)
(* grub.cfg started from any environment file, also one from which         *)
(* variables are missing, as on a device whose file was lost or written by *)
(* hand.  Nothing but GRUB writes the file.                                *)
(***************************************************************************)
EXTENDS GrubCfg

CONSTANTS A, B

TwoSlots == <<A, B>>

VARIABLES
    file,       \* /grubenv/grubenv
    started     \* the slot started last, 0 before the first boot

Init == file \in EnvFile /\ started = 0

Boot ==
    /\ started' = BootSlot(file)
    /\ file' = SavedEnv(file)

Spec == Init /\ [][Boot]_<<file, started>>

\* "fallback defaults if variables not set (first boot)" (grub.cfg:11), where the
\* default of A_OK is 1: a first boot without A_OK in the file leaves slot A OK.
FirstBootDefaults ==
    [][started = 0 /\ DefaultSlot \notin DOMAIN file.ok => file'.ok[DefaultSlot] = "1"]_<<file, started>>
=============================================================================
