---------------------------- MODULE SlotHandlers ----------------------------
(***************************************************************************)
(* What an installation does to its target slot, step by step: the slot    *)
(* handlers of rauc/src/update_handler.c with the mounts, hooks, tools and *)
(* copies they consist of, called from handle_slot_install_plan of         *)
(* rauc/src/install.c, which keeps the slot's status and reports progress. *)
(*                                                                         *)
(* Any step may fail; the service may die or the machine lose power        *)
(* between two steps.                                                      *)
(*                                                                         *)
(* The handlers that replace a bootloader are in BootArea, the choice of   *)
(* slots, images and handlers in InstallPlan, the artifacts' files in      *)
(* ArtifactRepo.                                                           *)
(***************************************************************************)
EXTENDS AdaptiveCopy, ProgressTree, FiniteSets

CONSTANTS
    Target,     \* the slot that is installed to
    Booted,     \* the active slot of its class
    Types,      \* slot types
    Images,     \* the bundles' images
    Mixed,      \* those that also come with an artifact
    Blank,      \* the content of the empty devices
    NoDigest,
    None

ASSUME TypesAssumption ==
    Types \subseteq {"raw", "ext4", "vfat", "ubifs", "ubivol", "nor", "nand"}
ASSUME SlotsAssumption ==
    {Target, Booted} \subseteq Devices /\ Target # Booted /\ Blank \in [Devices -> Seq(Chunks)]
ASSUME MixedAssumption == Mixed \subseteq Images
ASSUME ImagesAssumption == \A i \in Images :
    /\ i.kind \in {"img", "ext4.caibx", "img.caibx", "tar", "caidx", "hook"}
    /\ i.chunks \in Seq(Chunks)
    /\ i.adaptive \in BOOLEAN
\* Recorded and remembered statuses.
Statuses == [state : {"none", "pending", "update", "ok", "failed"},
             digest : {NoDigest} \cup {i.digest : i \in Images}]
ASSUME NoneAssumption == None \notin Statuses \cup Images

VARIABLES
    type,       \* the slot's type
    central,    \* one status file for all slots, on another partition
    memory,     \* the slot's status in the service, None until it is loaded
    saved,      \* the status file in effect, in the slot itself if ~central
    indexes,    \* the hash indexes in the slot's data directory, by digest
    held,       \* the slots that RAUC has mounted, as it knows (mount_point)
    mounts,     \* the slots that are mounted
    whole,      \* the image whose handler has done all its steps, None once the slot is written
    writes,     \* "flushed" to the device, "cached", or "lost", some of them, with the power
    pc,         \* where the installation is
    plans,      \* what it still has to install: Target's image, or an artifact
    prog,       \* what the slot handler still has to do
    tree,       \* the progress
    fault       \* "unpruned" or "unsaved" if the clean-up of the installation failed, or "none"

config == <<type, central>>
status == <<memory, saved>>
kernel == <<held, mounts>>
content == <<whole, writes>>
vars == <<disk, job, config, status, indexes, kernel, content, pc, plans, prog, tree, fault>>

image == Head(plans)

Mountable == type \in {"ext4", "ubifs", "vfat"}

NoStatus == [state |-> "none", digest |-> NoDigest]

----------------------------------------------------------------------------
(* The slot handlers, as the steps they consist of. *)

Hook(hook) == IF hook \in image.hooks THEN <<hook>> ELSE <<>>
\* mount_and_run_slot_hook
MountedHook(hook) == IF hook \in image.hooks THEN <<"mount", hook, "umount">> ELSE <<>>

Resize == IF type = "ext4" /\ image.resize THEN <<"resize">> ELSE <<>>

\* A chunk index, which casync extracts to the device.
Chunked(i) == i.kind \in {"ext4.caibx", "img.caibx"}
Write(copy) == IF Chunked(image) THEN <<"extract">> ELSE <<copy>>

\* img_to_raw_handler
ImgToRaw == Hook("pre") \o Write("copy") \o Hook("post")
\* img_to_fs_handler
ImgToFs == MountedHook("pre") \o Write("copy") \o Resize \o MountedHook("post")
\* img_to_ubivol_handler, img_to_ubifs_handler
ImgToUbivol == Hook("pre") \o <<"volume">> \o Write("stream") \o Hook("post")
ImgToUbifs == MountedHook("pre") \o <<"volume">> \o Write("stream") \o MountedHook("post")
\* img_to_nor_handler, img_to_nand_handler
ImgToFlash == Hook("pre") \o <<"format", "stream">> \o Hook("post")

\* unpack_archive: casync takes the mounted active slot as a seed.
Unpack == IF image.kind = "caidx" THEN <<"seed", "unpack", "unseed">> ELSE <<"unpack">>
\* archive_to_ext4_handler, archive_to_vfat_handler, archive_to_ubifs_handler
ArchiveToFs ==
    (IF type = "ubifs" THEN MountedHook("pre") ELSE Hook("pre"))
        \o <<"format", "mount">> \o Unpack \o Hook("post") \o <<"umount">>

Archive(i) == i.kind \in {"tar", "caidx"}
FsImage(i) == i.kind = "img" \/ Chunked(i)

\* An *.img.caibx for a file system falls back to the handler of a raw slot.
ToFs(i) ==
    \/ type = "ext4" /\ i.kind \in {"img", "ext4.caibx"}
    \/ type = "vfat" /\ i.kind = "img"

\* get_update_handler, for the images a type takes (UpdateHandler in BundleManifest).
Handler ==
    CASE image.kind = "hook" -> <<"install">>
      [] Archive(image) -> ArchiveToFs
      [] ToFs(image) -> ImgToFs
      [] FsImage(image) /\ type = "ubivol" -> ImgToUbivol
      [] FsImage(image) /\ type = "ubifs" -> ImgToUbifs
      [] image.kind = "img" /\ type \in {"nor", "nand"} -> ImgToFlash
      [] OTHER -> ImgToRaw

Takes(i) ==
    /\ Archive(i) => Mountable
    /\ i.kind = "ext4.caibx" => type \in {"ext4", "raw"}

----------------------------------------------------------------------------
(* The slot's data directory (slot.c). *)

IndexFor(digest) ==
    IF \E x \in indexes : x.of = digest THEN (CHOOSE x \in indexes : x.of = digest).hashes ELSE <<>>

\* r_slot_clean_data_directory, whenever a status is loaded or saved.
Cleaned(kept, s) == IF s.state = "pending" THEN kept ELSE {x \in kept : x.of = s.digest}

\* r_slot_move_checksum_data_directory, to the directory of an unknown digest.
MovedAway(digest) ==
    IF digest # NoDigest /\ \E x \in indexes : x.of = digest
    THEN {[x EXCEPT !.of = NoDigest] : x \in {y \in indexes : y.of = digest}}
    ELSE indexes

\* r_hash_index_export_slot
Exported(digest, hashes) == {x \in indexes : x.of # digest} \cup {[of |-> digest, hashes |-> hashes]}

----------------------------------------------------------------------------
(* The slot's status (status_file.c). *)

Outcome(ok, error, file, mounted) == [ok |-> ok, error |-> error, file |-> file, mounted |-> mounted]

\* r_slot_status_save: the ways it may go.  In the slot itself, the slot is mounted for it, and
\* may stay so; a slot that is mounted already is refused without an error.
Saves(s) ==
    IF central THEN {Outcome(TRUE, FALSE, s, FALSE), Outcome(FALSE, TRUE, saved, FALSE)}
    ELSE IF ~Mountable THEN {Outcome(TRUE, FALSE, saved, FALSE)}
    ELSE IF Target \in held THEN {Outcome(FALSE, FALSE, saved, TRUE)}
    ELSE {Outcome(TRUE, FALSE, s, FALSE), Outcome(FALSE, TRUE, s, TRUE)}
         \cup {Outcome(FALSE, TRUE, saved, m) : m \in BOOLEAN}

\* r_slot_status_load: nothing is an error; the slot may stay mounted.
Loads ==
    IF memory # None THEN {Outcome(TRUE, FALSE, memory, Target \in held)}
    ELSE IF central THEN {Outcome(TRUE, FALSE, saved, Target \in held)}
    ELSE IF ~Mountable THEN {Outcome(TRUE, FALSE, NoStatus, Target \in held)}
    ELSE {Outcome(TRUE, FALSE, NoStatus, FALSE)}
         \cup {Outcome(TRUE, FALSE, s, m) : s \in {saved, NoStatus}, m \in BOOLEAN}

\* The slot is mounted, or still mounted, after a step on it.
SetMounted(mounted) ==
    /\ held' = IF mounted THEN held \cup {Target} ELSE held
    /\ mounts' = IF mounted THEN mounts \cup {Target} ELSE mounts

----------------------------------------------------------------------------
(* The progress of an installation. *)

\* do_install_bundle up to its plans.
Prepared ==
    LET begun == BeginStep(NoSteps, "do_install_bundle", 10, 1)
        states == Leaf(begun, "determine_slot_states", 1, TRUE)
        bundle == BeginStep(states, "check_bundle", 1, 1)
        verified == EndStep(Leaf(bundle, "cms_verify", 1, TRUE), "check_bundle", TRUE)
        manifest == Leaf(verified, "check_manifest", 1, TRUE)
    IN  Leaf(manifest, "determine_target_install_group", 1, TRUE)

SkipWeight == 9

Failed(t) == EndStep(EndStep(t, "update_slots", FALSE), "do_install_bundle", FALSE)
Succeeded(t) == EndStep(EndStep(t, "update_slots", TRUE), "do_install_bundle", TRUE)

\* The installation ends, or with it the service if an assertion failed.
EndAs(t) ==
    /\ tree' = t
    /\ pc' = IF t.aborted THEN "dead" ELSE "idle"
    /\ plans' = <<>>
    /\ prog' = <<>>

----------------------------------------------------------------------------
Init ==
    /\ type \in Types
    /\ central \in BOOLEAN
    /\ disk = Blank
    /\ job = NoJob
    /\ memory = None
    /\ saved = NoStatus
    /\ indexes = {}
    /\ held = {}
    /\ mounts = {}
    /\ whole = None
    /\ writes = "flushed"
    /\ pc = "idle"
    /\ plans = <<>>
    /\ prog = <<>>
    /\ tree = NoSteps
    /\ fault = "none"

Artifact == [kind |-> "artifact"]

\* The images of a bundle: one for the slot, and perhaps an artifact before it.
Bundles == {<<i>> : i \in {j \in Images : Takes(j)}} \cup
           {<<Artifact, i>> : i \in {j \in Mixed : Takes(j)}}

\* launch_and_wait_default_handler: refused by pre_install_checks if the slot is mounted.
Begin ==
    /\ pc = "idle"
    /\ Target \notin held \cup mounts
    /\ plans' \in Bundles
    /\ tree' = BeginStep(Prepared, "update_slots", Len(plans') * 10, 6)
    /\ pc' = "next"
    /\ fault' = "none"
    /\ UNCHANGED <<disk, job, config, status, indexes, kernel, content, prog>>

\* handle_artifact_install_plan
InstallArtifact ==
    /\ pc = "next"
    /\ plans # <<>>
    /\ image.kind = "artifact"
    /\ LET found == Leaf(tree, "check_repo", 1, TRUE)
       IN  \/ EndAs(Failed(Leaf(tree, "check_repo", 1, FALSE)))
           \/ EndAs(Failed(Leaf(found, "copy_image", 9, FALSE)))
           \/ /\ tree' = Leaf(found, "copy_image", 9, TRUE)
              /\ plans' = Tail(plans)
              /\ UNCHANGED <<pc, prog>>
    /\ UNCHANGED <<disk, job, config, status, indexes, kernel, content, fault>>

\* mutant: a slot that stays mounted is installed to.
CheckSlotAny ==
    /\ pc = "next"
    /\ plans # <<>>
    /\ image.kind # "artifact"
    /\ \E o \in Loads :
          /\ memory' = o.file
          /\ indexes' = Cleaned(indexes, o.file)
          /\ SetMounted(o.mounted)
    /\ tree' = BeginStep(tree, "check_slot", 0, 1)
    /\ pc' = "checked"
    /\ UNCHANGED <<disk, job, config, saved, content, plans, prog, fault>>

\* handle_slot_install_plan, the status: a slot that stays mounted from reading it is refused.
CheckSlot ==
    /\ pc = "next"
    /\ plans # <<>>
    /\ image.kind # "artifact"
    /\ \E o \in Loads :
          /\ memory' = o.file
          /\ indexes' = Cleaned(indexes, o.file)
          /\ SetMounted(o.mounted)
    /\ LET checking == BeginStep(tree, "check_slot", 0, 1)
       IN  IF Target \in held' THEN EndAs(Failed(EndStep(checking, "check_slot", FALSE)))
           ELSE /\ tree' = checking
                /\ pc' = "checked"
                /\ UNCHANGED <<plans, prog>>
    /\ UNCHANGED <<disk, job, config, saved, content, fault>>

UpToDate ==
    /\ ~image.installSame
    /\ memory = [state |-> "ok", digest |-> image.digest]

\* An image the slot holds already is not written again.
Skip ==
    /\ pc = "checked"
    /\ UpToDate
    /\ LET skipping == BeginStep(EndStep(tree, "check_slot", TRUE), "skip_image", 0, SkipWeight)
       IN  \E o \in Saves(memory) :
              /\ saved' = o.file
              /\ SetMounted(o.mounted)
              /\ IF o.ok
                 THEN /\ tree' = EndStep(skipping, "skip_image", TRUE)
                      /\ plans' = Tail(plans)
                      /\ pc' = "next"
                      /\ UNCHANGED prog
                 ELSE EndAs(Failed(EndStep(skipping, "skip_image", FALSE)))
    /\ UNCHANGED <<disk, job, config, memory, indexes, content, fault>>

\* mutant: the central file is left as it is.
SetPendingLate ==
    /\ pc = "checked"
    /\ ~UpToDate
    /\ central
    /\ indexes' \in {indexes, MovedAway(memory.digest)}
    /\ memory' = [state |-> "update", digest |-> NoDigest]
    /\ tree' = BeginStep(EndStep(tree, "check_slot", TRUE), "copy_image", 0, 9)
    /\ prog' = Handler
    /\ pc' = "handler"
    /\ UNCHANGED <<disk, job, config, saved, kernel, content, plans, fault>>

\* In the central file the slot becomes "pending", lest it look valid after a crash.
SetPending ==
    /\ pc = "checked"
    /\ ~UpToDate
    /\ central
    /\ indexes' \in {indexes, MovedAway(memory.digest)}
    /\ LET pending == [state |-> "pending", digest |-> NoDigest]
       IN  \E o \in Saves(pending) :
              /\ saved' = o.file
              /\ IF o.ok
                 THEN /\ memory' = [pending EXCEPT !.state = "update"]
                      /\ tree' = BeginStep(EndStep(tree, "check_slot", TRUE), "copy_image", 0, 9)
                      /\ prog' = Handler
                      /\ pc' = "handler"
                      /\ UNCHANGED plans
                 ELSE /\ memory' = pending
                      /\ EndAs(Failed(EndStep(tree, "check_slot", FALSE)))
    /\ UNCHANGED <<disk, job, config, kernel, content, fault>>

StartHandler ==
    /\ pc = "checked"
    /\ ~UpToDate
    /\ ~central
    /\ memory' = [memory EXCEPT !.state = "update"]
    /\ tree' = BeginStep(EndStep(tree, "check_slot", TRUE), "copy_image", 0, 9)
    /\ prog' = Handler
    /\ pc' = "handler"
    /\ UNCHANGED <<disk, job, config, saved, indexes, kernel, content, plans, fault>>

----------------------------------------------------------------------------
(* The steps of a handler. *)

Doing(step) == pc = "handler" /\ prog # <<>> /\ Head(prog) = step

Proceed == prog' = Tail(prog) /\ UNCHANGED <<pc, plans, tree>>

Undisturbed == UNCHANGED <<config, status, fault>>

\* A status file in the slot may go with what was there.
StatusMayGo == saved' \in IF central THEN {saved} ELSE {saved, NoStatus}

\* What was in the slot before is gone.
Overwritten ==
    /\ whole' = None
    /\ StatusMayGo

\* r_mount_slot.  It refuses a slot that is mounted already, without an error to report: the
\* service ends when it reads the error's text.
Mount ==
    /\ Doing("mount")
    /\ IF Target \in held
       THEN /\ pc' = "dead"
            /\ UNCHANGED <<kernel, plans, prog, tree>>
       ELSE SetMounted(TRUE) /\ Proceed
    /\ Undisturbed
    /\ UNCHANGED <<disk, job, indexes, content>>

\* r_umount_slot, after which the device has what the file system got.
Umount ==
    /\ Doing("umount")
    /\ held' = held \ {Target}
    /\ mounts' = mounts \ {Target}
    /\ writes' = "flushed"
    /\ Proceed
    /\ Undisturbed
    /\ UNCHANGED <<disk, job, indexes, whole>>

\* run_slot_hook: the hook may change what the slot holds, here its first chunk, and is not
\* known to flush it.
RunHook ==
    /\ Doing("pre") \/ Doing("post") \/ Doing("install")
    /\ disk' \in {disk} \cup {[disk EXCEPT ![Target][1] = c] : c \in Chunks}
    /\ Overwritten
    /\ writes' = "cached"
    /\ job' = NoJob
    /\ Proceed
    /\ UNCHANGED <<config, memory, indexes, kernel, fault>>

\* mkfs, flash_erase and resize2fs, which flush the device, and the ioctl that prepares a UBI
\* volume for an image.
RunTool ==
    /\ \E step \in {"format", "resize", "volume"} : Doing(step)
    /\ disk' = IF Head(prog) = "format" THEN [disk EXCEPT ![Target] = Blank[Target]] ELSE disk
    /\ Overwritten
    /\ writes' = "flushed"
    /\ job' = NoJob
    /\ Proceed
    /\ UNCHANGED <<config, memory, indexes, kernel, fault>>

\* A seed that this extraction has mounted.
SeedMounted == \E i \in DOMAIN prog : prog[i] = "unseed"

\* casync_extract_image: the active slot is mounted as a seed, or the seed given up.
MountSeed ==
    /\ Doing("seed")
    /\ \/ /\ Booted \notin held
          /\ held' = held \cup {Booted}
          /\ mounts' = mounts \cup {Booted}
          /\ prog' = Tail(prog)
       \/ /\ UNCHANGED kernel
          /\ prog' = <<"unpack">> \o SubSeq(prog, 4, Len(prog))
    /\ UNCHANGED <<disk, job, indexes, content, pc, plans, tree>>
    /\ Undisturbed

UmountSeed ==
    /\ Doing("unseed")
    /\ held' = held \ {Booted}
    /\ mounts' = mounts \ {Booted}
    /\ Proceed
    /\ Undisturbed
    /\ UNCHANGED <<disk, job, indexes, content>>

\* unpack_archive, and casync to a device: the files, or the chunks, arrive one after another.
Unpacking == Doing("unpack") \/ Doing("extract")

UnpackFile ==
    /\ Unpacking
    /\ job' = IF job.phase = "files" THEN [job EXCEPT !.next = @ + 1]
              ELSE [NoJob EXCEPT !.phase = "files", !.target = Target, !.source = image.chunks, !.next = 1]
    /\ job'.next <= Len(image.chunks)
    /\ job'.next <= Len(disk[Target])
    /\ disk' = [disk EXCEPT ![Target][job'.next] = image.chunks[job'.next]]
    /\ Overwritten
    /\ writes' = "cached"
    /\ UNCHANGED <<config, memory, indexes, kernel, pc, plans, prog, tree, fault>>

\* No fsync follows: the files of an archive are flushed when the slot is unmounted.
Unpacked ==
    /\ Unpacking
    /\ job.phase = "files"
    /\ job.next = Len(image.chunks)
    /\ job' = NoJob
    /\ Proceed
    /\ Undisturbed
    /\ UNCHANGED <<disk, indexes, kernel, content>>

\* write_image_to_dev, or the copy into a stream.
Copying == Doing("copy") \/ Doing("stream")

OpenDevice ==
    /\ Copying
    /\ Target \notin mounts
    /\ StartCopy(Target, Booted, image.chunks, image.adaptive /\ Doing("copy"),
                 IndexFor(memory.digest), <<>>)
    /\ job.phase = "none"
    /\ UNCHANGED <<config, status, indexes, kernel, content, pc, plans, prog, tree, fault>>

CopyChunk ==
    /\ Copying
    /\ AdaptiveChunk \/ RawChunk
    /\ Overwritten
    /\ writes' = "cached"
    /\ tree' = IF job.phase = "raw"
               THEN SetPercentage(tree, "copy_image", (100 * job'.next) \div Len(image.chunks))
               ELSE tree
    /\ UNCHANGED <<config, memory, indexes, kernel, pc, plans, prog, fault>>

GiveUpAdaptive ==
    /\ Copying
    /\ AdaptiveFails
    /\ UNCHANGED <<config, status, indexes, kernel, content, pc, plans, prog, tree, fault>>

\* copy_raw_image and the adaptive copy end with an fsync; flashcp and nandwrite write through.
\* A failure to store the new index is ignored.
Flush ==
    /\ Copying
    /\ Sync
    /\ writes' = "flushed"
    /\ indexes' \in {indexes} \cup (IF job.phase = "adaptive"
                                    THEN {Exported(image.digest, image.chunks)} ELSE {})
    /\ UNCHANGED <<config, status, kernel, whole, pc, plans, prog, tree, fault>>

CloseDevice ==
    /\ Copying
    /\ job.phase = "done"
    /\ job' = NoJob
    /\ Proceed
    /\ Undisturbed
    /\ UNCHANGED <<disk, indexes, kernel, content>>

BootedWrites ==
    /\ Copying
    /\ job.phase = "adaptive"
    /\ SeedChanges
    /\ UNCHANGED <<config, status, indexes, kernel, content, pc, plans, prog, tree, fault>>

----------------------------------------------------------------------------
\* A step fails.  What the handler has mounted it unmounts, the seed before the slot; a failing
\* umount leaves the slot mounted.
StepFails ==
    /\ pc = "handler"
    /\ prog # <<>>
    /\ Head(prog) # "seed"
    /\ job.phase # "adaptive"
    /\ \E kept \in SUBSET held :
          /\ Head(prog) = "umount" => Target \in kept
          /\ Head(prog) = "unseed" \/ ~SeedMounted => held \cap {Booted} \subseteq kept
          /\ held' = kept
          /\ mounts' = (mounts \ held) \cup kept
          /\ writes' = IF Target \in held \ kept THEN "flushed" ELSE writes
    /\ job' = NoJob
    /\ pc' = "failed"
    /\ prog' = <<>>
    /\ UNCHANGED <<disk, config, status, indexes, whole, plans, tree, fault>>

\* update_slot_status
Recorded(state) == [state |-> state, digest |-> image.digest]

\* A failed handler: the error of a failing save is read for a warning, also where the save was
\* refused without one.
HandlerFailed ==
    /\ pc = "failed"
    /\ memory' = Recorded("failed")
    /\ indexes' = Cleaned(indexes, Recorded("failed"))
    /\ \E o \in Saves(Recorded("failed")) :
          /\ saved' = o.file
          /\ SetMounted(o.mounted)
          /\ IF o.ok \/ o.error
             THEN EndAs(Failed(EndStep(tree, "copy_image", FALSE))) /\ UNCHANGED fault
             ELSE /\ pc' = "dead"
                  /\ fault' = "unsaved"
                  /\ UNCHANGED <<plans, prog, tree>>
    /\ UNCHANGED <<disk, job, config, content>>

\* A handler that has done all its steps.
HandlerDone ==
    /\ pc = "handler"
    /\ prog = <<>>
    /\ memory' = Recorded("ok")
    /\ whole' = image
    /\ indexes' = Cleaned(indexes, Recorded("ok"))
    /\ LET copied == EndStep(tree, "copy_image", TRUE)
       IN  \E o \in Saves(Recorded("ok")) :
              /\ saved' = o.file
              /\ SetMounted(o.mounted)
              /\ IF o.ok
                 THEN tree' = copied /\ plans' = Tail(plans) /\ pc' = "next" /\ UNCHANGED prog
                 ELSE EndAs(Failed(copied))
    /\ UNCHANGED <<disk, job, config, writes, fault>>

\* r_artifacts_prune, and the end; when that fails, "update_slots" stays open.
Finish ==
    /\ pc = "next"
    /\ plans = <<>>
    /\ \/ EndAs(Succeeded(tree)) /\ UNCHANGED fault
       \/ EndAs(EndStep(tree, "do_install_bundle", FALSE)) /\ fault' = "unpruned"
    /\ UNCHANGED <<disk, job, config, status, indexes, kernel, content>>

Stop ==
    /\ pc' = "idle"
    /\ plans' = <<>>
    /\ prog' = <<>>
    /\ job' = NoJob
    /\ memory' = None
    /\ held' = {}
    /\ tree' = NoSteps
    /\ fault' = "none"

\* The service is started again, after its end or a kill.
RestartService ==
    /\ Stop
    /\ UNCHANGED <<disk, config, saved, indexes, mounts, content>>

\* The machine starts again after a loss of power, which takes what was not flushed: any chunk
\* of the slot may be another then.
PowerCut ==
    /\ Stop
    /\ mounts' = {}
    /\ \/ /\ writes = "cached"
          /\ writes' = "lost"
          /\ \E left \in [DOMAIN disk[Target] -> Chunks] : disk' = [disk EXCEPT ![Target] = left]
          /\ StatusMayGo
       \/ /\ writes' = IF writes = "cached" THEN "flushed" ELSE writes
          /\ UNCHANGED <<disk, saved>>
    /\ UNCHANGED <<config, indexes, whole>>

Next ==
    \/ Begin \/ InstallArtifact \/ CheckSlot \/ Skip \/ SetPending \/ StartHandler
    \/ Mount \/ Umount \/ RunHook \/ RunTool \/ MountSeed \/ UmountSeed
    \/ UnpackFile \/ Unpacked
    \/ OpenDevice \/ CopyChunk \/ GiveUpAdaptive \/ Flush \/ CloseDevice \/ BootedWrites
    \/ StepFails \/ HandlerFailed \/ HandlerDone \/ Finish
    \/ RestartService \/ PowerCut

Spec == Init /\ [][Next]_vars

----------------------------------------------------------------------------
\* The device has the image, but for what its hooks have made of it.
Carries(i) ==
    i.kind # "hook" => \A p \in DOMAIN i.chunks :
        /\ p \in DOMAIN disk[Target]
        /\ disk[Target][p] = i.chunks[p] \/ (p = 1 /\ "post" \in i.hooks)

HooksMounted(i) == Archive(i) \/ ToFs(i) \/ type = "ubifs"

\* The images after which RAUC flushes nothing: one that the bundle's hook installs, one whose
\* last hook finds the slot unmounted, and one that casync extracts to the device, unless its
\* file system is resized or mounted for the last hook.
Unflushed(i) ==
    \/ i.kind = "hook"
    \/ "post" \in i.hooks /\ ~HooksMounted(i)
    \/ Chunked(i) /\ "post" \notin i.hooks /\ ~(ToFs(i) /\ i.resize)

\* With a central status file, a slot it calls "ok" has had every step of that image's handler
\* done, nothing was written to it since, and the device has the image's chunks: also after a
\* loss of power at any moment, unless it is one of the images after which RAUC flushes nothing,
\* and then only until a loss of power takes what the kernel has not written yet.  Such a slot is
\* skipped by later installations (handle_slot_install_plan).
OkIsWhole ==
    central /\ saved.state = "ok" =>
        /\ whole # None
        /\ whole.digest = saved.digest
        /\ IF writes = "lost" THEN Unflushed(whole) ELSE Carries(whole)

\* Whatever fails, the installation is answered: the service never ends in an assertion about
\* its progress steps or on an error that was not set.  It does when unused artifacts cannot be
\* removed after a good installation, and when the status of a slot that stays mounted after a
\* failed handler is to be saved in the slot (handle_slot_install_plan,
\* launch_and_wait_default_handler).
Answered == pc = "dead" => fault # "none"
=============================================================================
