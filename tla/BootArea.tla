------------------------------ MODULE BootArea ------------------------------
(***************************************************************************)
(* The slot handlers of RAUC that replace a bootloader                     *)
(* (rauc/src/update_handler.c with mbr.c, gpt.c and emmc.c).  The area has *)
(* two halves; the boot ROM finds the one to start in an MBR entry, in a   *)
(* GPT entry, in the eMMC's boot partition register, or by looking for a   *)
(* header in the first half and then in the second.                        *)
(*                                                                         *)
(* A half is its first sector, the header, and the rest, the body.  Writes *)
(* go through the kernel's page cache: RAUC reads back what it wrote, but  *)
(* until an fsync the device gets the blocks in whatever order.            *)
(***************************************************************************)
CONSTANTS
    Kinds,      \* the slot types in use
    Images,     \* bootloader images
    Cached      \* the slot types whose device may get blocks late and out of order

ASSUME KindsAssumption ==
    /\ Kinds \subseteq {"boot-mbr-switch", "boot-gpt-switch", "boot-emmc", "boot-raw-fallback"}
    /\ Cached \subseteq Kinds
ASSUME ImagesAssumption == {"blank", "partial"} \cap Images = {}

Halves == {"first", "second"}

Other(h) == IF h = "first" THEN "second" ELSE "first"

Header(h) == <<h, "header">>
Body(h) == <<h, "body">>
BootEntry == <<"mbr", "entry">>

Blocks == (Halves \X {"header", "body"}) \cup {BootEntry}

VARIABLES
    kind,       \* the slot's type
    disk,       \* the blocks on the device
    seen,       \* the blocks as the kernel shows them
    gpt,        \* the half each copy of the GPT names, or "invalid"
    bootPart,   \* the eMMC's register: the half, or "none" while not enabled for booting
    writable,   \* the eMMC boot partitions whose force_ro is off
    pc,         \* where the handler is, "idle" if none runs
    target,     \* the half it writes
    image,      \* the image it writes
    again       \* whether it writes the other half next

storage == <<disk, seen, gpt, bootPart, writable>>
job == <<target, image, again>>
vars == <<kind, storage, pc, job>>

raw == kind = "boot-raw-fallback"

Complete(device, h) ==
    device[Header(h)] \in Images /\ device[Body(h)] = device[Header(h)]

BootTypeOK ==
    /\ kind \in Kinds
    /\ disk \in [Blocks -> Images \cup Halves \cup {"blank", "partial"}]
    /\ seen \in [Blocks -> Images \cup Halves \cup {"blank", "partial"}]
    /\ gpt \in [{"primary", "backup"} -> Halves \cup {"invalid"}]
    /\ bootPart \in Halves \cup {"none"}
    /\ writable \subseteq Halves
    /\ pc \in {"idle", "clear", "clearBody", "header", "body", "syncBody", "sync",
               "activate", "backup", "primary", "toggle", "check", "done"}
    /\ target \in Halves
    /\ image \in Images
    /\ again \in BOOLEAN

\* As manufactured: a bootloader in both halves, nothing running.
Init ==
    /\ kind \in Kinds
    /\ \E i \in Images, h \in Halves :
          /\ disk = [b \in Blocks |-> IF b = BootEntry THEN h ELSE i]
          /\ gpt = [copy \in {"primary", "backup"} |-> h]
          /\ bootPart \in {h, "none"}
          /\ target = h
          /\ image = i
    /\ seen = disk
    /\ writable = {}
    /\ pc = "idle"
    /\ again = FALSE

----------------------------------------------------------------------------
(* The device.                                                              *)

\* Blocks of a slot type in Cached reach the device later.
Write(b, value) ==
    /\ seen' = [seen EXCEPT ![b] = value]
    /\ disk' = IF kind \in Cached THEN disk ELSE seen'

WriteBack(b) ==
    /\ kind \in Cached
    /\ disk' = [disk EXCEPT ![b] = seen[b]]
    /\ UNCHANGED <<kind, seen, gpt, bootPart, writable, pc, job>>

Fsync == disk' = seen /\ UNCHANGED seen

\* The copy of the GPT that is used: the primary one if it is valid.
GptActive == IF gpt["primary"] # "invalid" THEN gpt["primary"] ELSE gpt["backup"]

----------------------------------------------------------------------------
(* The handlers, from the choice of the half to the copied image.           *)

\* Mutant of Destination: the fallback first, whatever the primary half holds.
DestinationFallback ==
    CASE kind = "boot-mbr-switch" -> Other(seen[BootEntry])
      [] kind = "boot-gpt-switch" -> Other(GptActive)
      [] kind = "boot-emmc" -> IF bootPart = "none" THEN "first" ELSE Other(bootPart)
      [] raw -> "second"

\* The inactive half.  An eMMC that is not enabled counts as booting from the second;
\* of two raw halves the fallback comes first, unless the primary's header is blank.
Destination ==
    CASE kind = "boot-mbr-switch" -> Other(seen[BootEntry])
      [] kind = "boot-gpt-switch" -> Other(GptActive)
      [] kind = "boot-emmc" -> IF bootPart = "none" THEN "first" ELSE Other(bootPart)
      [] raw -> IF seen[Header("first")] = "blank" THEN "first" ELSE "second"

Begin(i) ==
    /\ pc = "idle"
    /\ pc' = "clear"
    /\ target' = Destination
    /\ image' = i
    /\ again' = raw
    /\ writable' = IF kind = "boot-emmc" THEN writable \cup {target'} ELSE writable
    /\ UNCHANGED <<kind, disk, seen, gpt, bootPart>>

\* The area is zeroed from its start on.
ClearHeader ==
    /\ pc = "clear"
    /\ Write(Header(target), "blank")
    /\ pc' = "clearBody"
    /\ UNCHANGED <<kind, gpt, bootPart, writable, job>>

ClearBody ==
    /\ pc = "clearBody"
    /\ Write(Body(target), "partial")
    /\ pc' = IF raw THEN "body" ELSE "header"
    /\ UNCHANGED <<kind, gpt, bootPart, writable, job>>

\* In the raw area the header comes last, after an fsync.
CopyBody ==
    /\ pc = "body"
    /\ Write(Body(target), image)
    /\ pc' = IF raw THEN "syncBody" ELSE "sync"
    /\ UNCHANGED <<kind, gpt, bootPart, writable, job>>

SyncBody ==
    /\ pc = "syncBody"
    /\ Fsync
    /\ pc' = "header"
    /\ UNCHANGED <<kind, gpt, bootPart, writable, job>>

CopyHeader ==
    /\ pc = "header"
    /\ Write(Header(target), image)
    /\ pc' = IF raw THEN "sync" ELSE "body"
    /\ UNCHANGED <<kind, gpt, bootPart, writable, job>>

\* Mutant of SyncHalf: the next entry of part_desc, without the modulo.
SyncHalfNoModulo ==
    /\ pc = "sync" /\ again
    /\ Fsync
    /\ pc' = "clear"
    /\ target' = IF target = "second" THEN "first" ELSE "none"
    /\ again' = FALSE
    /\ UNCHANGED <<kind, gpt, bootPart, writable, image>>

SyncHalf ==
    /\ pc = "sync" /\ again
    /\ Fsync
    /\ pc' = "clear"
    /\ target' = Other(target)
    /\ again' = FALSE
    /\ UNCHANGED <<kind, gpt, bootPart, writable, image>>

Sync ==
    /\ pc = "sync" /\ ~again
    /\ Fsync
    /\ pc' = IF raw THEN "done" ELSE "activate"
    /\ UNCHANGED <<kind, gpt, bootPart, writable, job>>

----------------------------------------------------------------------------
(* The handlers, making the new half the active one.                        *)

MbrSet ==
    /\ kind = "boot-mbr-switch" /\ pc = "activate"
    /\ Write(BootEntry, target)
    /\ pc' = "done"
    /\ UNCHANGED <<kind, gpt, bootPart, writable, job>>

\* A GPT with an invalid copy is repaired from the other one before anything is changed.
GptRepair ==
    /\ kind = "boot-gpt-switch" /\ pc = "activate"
    /\ gpt' = [copy \in {"primary", "backup"} |->
                  IF \E c \in {"primary", "backup"} : gpt[c] = "invalid"
                  THEN GptActive ELSE gpt[copy]]
    /\ pc' = "backup"
    /\ UNCHANGED <<kind, disk, seen, bootPart, writable, job>>

\* libfdisk writes the backup copy, then the primary one; a copy is invalid meanwhile.
GptWrite(copy, next) ==
    /\ kind = "boot-gpt-switch" /\ pc = copy
    /\ IF gpt[copy] # "invalid"
       THEN gpt' = [gpt EXCEPT ![copy] = "invalid"] /\ UNCHANGED pc
       ELSE gpt' = [gpt EXCEPT ![copy] = target] /\ pc' = next
    /\ UNCHANGED <<kind, disk, seen, bootPart, writable, job>>

\* Mutant of EmmcReadOnly: the partition stays writable.
EmmcStaysWritable ==
    /\ kind = "boot-emmc" /\ pc = "activate"
    /\ pc' = "toggle"
    /\ UNCHANGED <<kind, storage, job>>

EmmcReadOnly ==
    /\ kind = "boot-emmc" /\ pc = "activate"
    /\ writable' = writable \ {target}
    /\ pc' = "toggle"
    /\ UNCHANGED <<kind, disk, seen, gpt, bootPart, job>>

\* Some kernels lose the write ("affected by the ioctl ext_csd bug").
EmmcToggle ==
    /\ kind = "boot-emmc" /\ pc = "toggle"
    /\ bootPart' \in {target, bootPart}
    /\ pc' = "check"
    /\ UNCHANGED <<kind, disk, seen, gpt, writable, job>>

\* Mutant of EmmcCheck: no check.
EmmcNoCheck ==
    /\ kind = "boot-emmc" /\ pc = "check"
    /\ pc' = "done"
    /\ UNCHANGED <<kind, storage, job>>

\* The register must not hold what it was taken to hold before.
EmmcCheck ==
    /\ kind = "boot-emmc" /\ pc = "check"
    /\ bootPart # Other(target)
    /\ pc' = "done"
    /\ UNCHANGED <<kind, storage, job>>

----------------------------------------------------------------------------
(* The ends of a handler.                                                   *)

\* A step or a hook fails, or the daemon dies.  The eMMC handler then sets the partition
\* read-only again, which may fail too.
Fail ==
    /\ pc \notin {"idle", "done"}
    /\ pc' = "idle"
    /\ writable' \in {writable, writable \ {target}}
    /\ UNCHANGED <<kind, disk, seen, gpt, bootPart, job>>

Finish ==
    /\ pc = "done"
    /\ pc' = "idle"
    /\ UNCHANGED <<kind, storage, job>>

\* What did not reach the device is gone; boot partitions come up read-only.
PowerLoss ==
    /\ pc' = "idle"
    /\ seen' = disk
    /\ writable' = {}
    /\ UNCHANGED <<kind, disk, gpt, bootPart, job>>

Next ==
    \/ \E i \in Images : Begin(i)
    \/ ClearHeader \/ ClearBody \/ CopyBody \/ SyncBody \/ CopyHeader \/ SyncHalf \/ Sync
    \/ MbrSet
    \/ GptRepair \/ GptWrite("backup", "primary") \/ GptWrite("primary", "done")
    \/ EmmcReadOnly \/ EmmcToggle \/ EmmcCheck
    \/ Fail \/ Finish \/ PowerLoss
    \/ \E b \in Blocks : WriteBack(b)

Spec == Init /\ [][Next]_vars

----------------------------------------------------------------------------
\* The half the boot ROM starts.  Of two raw halves it takes the first one with a header,
\* and does not look at the rest.
RomHalf ==
    CASE kind = "boot-mbr-switch" -> disk[BootEntry]
      [] kind = "boot-gpt-switch" -> GptActive
      [] kind = "boot-emmc" -> bootPart
      [] raw -> IF disk[Header("first")] = "blank" THEN "second" ELSE "first"

NotEnabled == kind = "boot-emmc" /\ bootPart = "none"

\* Wherever the update of the bootloader is interrupted, also by failures and power
\* losses in the attempts after it, the ROM finds a bootloader that is one image
\* entirely (update_handler.c:1999 to 2521, gpt.c:332).  An eMMC that is not enabled for
\* booting names no half to look at.
AlwaysBootable == ~NotEnabled => RomHalf \in Halves /\ Complete(disk, RomHalf)

\* A handler that reports success has all of the new image on the device, in the raw area
\* in both halves, and the half it wrote is the one the ROM starts: a kernel that loses the
\* eMMC's register write is noticed.  But for one case, which is NotEnabled afterwards: of an
\* eMMC that was not enabled for booting the lost write goes unnoticed, since the value that
\* is read again is not the one that was assumed (update_handler.c:2212 and 2339).
InstalledBoots ==
    pc = "done" =>
        /\ \A h \in IF raw THEN Halves ELSE {target} :
               disk[Header(h)] = image /\ disk[Body(h)] = image
        /\ raw \/ RomHalf = target \/ NotEnabled

\* The eMMC partition that boots is never writable, whatever failed before: it was set
\* read-only before it became active (update_handler.c:2303 to 2324).
ActiveReadOnly == bootPart \notin writable

\* "Boot partition ... is now active" (update_handler.c:2346): success is only reported
\* if the register was switched.  It does not hold in the case that InstalledBoots excepts.
Toggled == kind = "boot-emmc" /\ pc = "done" => bootPart = target
=============================================================================
