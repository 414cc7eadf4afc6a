----------------------------- MODULE SlotUpdate -----------------------------
(***************************************************************************)
(* The life of an A/B system: RAUC's installer thread rewrites the slot    *)
(* group that is not running and tells GRUB about it, GRUB picks a slot on *)
(* every boot, and power may go, or the RAUC daemon die, between any two   *)
(* writes.                                                                 *)
(*                                                                         *)
(* Three stores survive a power loss: the GRUB environment, the slot       *)
(* devices and the central status file.  Everything else is lost.          *)
(***************************************************************************)
EXTENDS Bootchooser

CONSTANTS
    Parts,              \* the slots of one group: the root slot and its children
    RootPart,           \* the one with a bootname
    Images,             \* image contents; a digest identifies one
    Factory,            \* what the image on the device at delivery holds
    Bundles,            \* the installable bundles: an image for some of the parts
    Bootable,           \* the group contents that come up when started
    InstallSame,        \* system.conf "install-same" of each part
    ActivateInstalled,  \* system.conf "activate-installed"
    PostInstallHandler, \* whether system.conf names a post-install handler
    MarkRequests,       \* the Mark calls made: pairs of a state and a slot identifier
    ConfirmBeforeInstall,   \* nobody asks for an installation from an unconfirmed system
    Broken,             \* content that is no image: blank, or partly written
    NoDigest

ASSUME PartsAssumption == RootPart \in Parts /\ IsFiniteSet(Parts)
ASSUME ImagesAssumption == Broken \notin Images /\ NoDigest \notin Images
ASSUME FactoryAssumption == Factory \in [Parts -> Images] /\ Bootable \subseteq [Parts -> Images]
ASSUME BundlesAssumption ==
    \A b \in Bundles : DOMAIN b \subseteq Parts /\ b \in [DOMAIN b -> Images]
ASSUME ConfigAssumption ==
    /\ InstallSame \in [Parts -> BOOLEAN]
    /\ {ActivateInstalled, PostInstallHandler, ConfirmBeforeInstall} \subseteq BOOLEAN
    /\ MarkRequests \subseteq {"good", "bad", "active"} \X {"booted", "other"}

VARIABLES
    env,        \* /grubenv/grubenv
    content,    \* what each part of each slot holds
    disk,       \* the slot status in /data/rauc.status
    mem,        \* the slot status in the daemon
    machine,    \* "off", "failed" (off after a boot that did not come up), "starting", "up"
    booted,     \* the slot GRUB started last
    phase,      \* where the installer thread is
    job         \* its bundle, target slot, parts still to do, and the part it is at

vars == <<env, content, disk, mem, machine, booted, phase, job>>

Phases == {"idle", "check", "mark", "slots", "write", "writing", "written", "post",
           "succeeded", "failed"}

Statuses == {"", "pending", "update", "ok", "failed"}

SlotStatus == [status : Statuses, digest : Images \cup {NoDigest}]

NoStatus == [status |-> "", digest |-> NoDigest]

NoBundle == [p \in {} |-> Broken]

NoJob == [bundle |-> NoBundle, target |-> NoSlot, todo |-> {}, part |-> RootPart]

CanComeUp(s) == content[s] \in Bootable

TypeOK ==
    /\ env \in Env
    /\ content \in [Slots -> [Parts -> Images \cup {Broken}]]
    /\ disk \in [Slots -> [Parts -> SlotStatus]]
    /\ mem \in [Slots -> [Parts -> SlotStatus]]
    /\ machine \in {"off", "failed", "starting", "up"}
    /\ booted \in Slots
    /\ phase \in Phases
    /\ job \in [bundle : Bundles \cup {NoBundle}, target : Slots \cup {NoSlot},
                todo : SUBSET Parts, part : Parts]

\* A delivered device: the environment of grubenv.default, the image in the default
\* slot, nothing or the same image in the others, and no status file yet.
Init ==
    /\ env = [order |-> PresetOrder,
              ok |-> [s \in Slots |-> IF s = DefaultSlot THEN "1" ELSE "0"],
              try |-> [s \in Slots |-> "0"]]
    /\ content \in {c \in [Slots -> {Factory, [p \in Parts |-> Broken]}] : c[DefaultSlot] = Factory}
    /\ disk = [s \in Slots |-> [p \in Parts |-> NoStatus]]
    /\ mem = disk
    /\ machine = "off"
    /\ booted = DefaultSlot
    /\ phase = "idle"
    /\ job = NoJob

----------------------------------------------------------------------------
(* The machine.  The daemon reads the status file when it first needs it,   *)
(* and only the daemon writes it: reading it as the daemon starts is the    *)
(* same.                                                                    *)

GrubBoot ==
    /\ machine \in {"off", "failed"}
    /\ machine' = "starting"
    /\ booted' = BootSlot(env)
    /\ env' = SavedEnv(env)
    /\ UNCHANGED <<content, disk, mem, phase, job>>

ComeUp ==
    /\ machine = "starting"
    /\ CanComeUp(booted)
    /\ machine' = "up"
    /\ UNCHANGED <<env, content, disk, mem, booted, phase, job>>

ForgetDaemonState ==
    /\ mem' = disk
    /\ phase' = "idle"
    /\ job' = NoJob

GoDown ==
    /\ machine' = IF machine = "starting" THEN "failed" ELSE "off"
    /\ ForgetDaemonState
    /\ UNCHANGED <<env, content, disk, booted>>

\* A power loss, or a reboot: nothing in the installer delays one.
PowerLoss == machine \in {"starting", "up"} /\ GoDown

\* A slot that cannot come up is power-cycled.
BootFails == machine = "starting" /\ ~CanComeUp(booted) /\ GoDown

\* The daemon ends, and D-Bus activation starts it again.
DaemonRestart ==
    /\ machine = "up"
    /\ ForgetDaemonState
    /\ UNCHANGED <<env, content, disk, machine, booted>>

----------------------------------------------------------------------------
(* rauc mark-good, mark-bad and mark-active.  A bootloader write that fails *)
(* changes nothing and is reported; so is a call while an installation runs.*)

SlotsIdentifiedBy(identifier) == IF identifier = "booted" THEN {booted} ELSE Slots \ {booted}

\* r_mark_active: a status file that cannot be written is only logged.
MarkActive(s) ==
    /\ env' \in GrubSetPrimary(env, s)
    /\ disk' \in {mem, disk}

Mark(state, identifier) ==
    /\ machine = "up" /\ phase = "idle"
    /\ \E s \in SlotsIdentifiedBy(identifier) :
        \/ state = "good" /\ env' = GrubSetState(env, s, TRUE) /\ UNCHANGED disk
        \/ state = "bad" /\ env' = GrubSetState(env, s, FALSE) /\ UNCHANGED disk
        \/ state = "active" /\ MarkActive(s)
    /\ UNCHANGED <<content, mem, machine, booted, phase, job>>

----------------------------------------------------------------------------
(* The installer thread.                                                    *)

GoTo(next) ==
    /\ phase' = next
    /\ UNCHANGED <<env, content, disk, mem, machine, booted, job>>

\* InstallBundle: one installation at a time.
StartInstall(b) ==
    /\ machine = "up" /\ phase = "idle"
    /\ ConfirmBeforeInstall => GrubGetState(env, booted)
    /\ phase' = "check"
    /\ job' = [NoJob EXCEPT !.bundle = b]
    /\ UNCHANGED <<env, content, disk, mem, machine, booted>>

\* Everything do_install_bundle checks before it changes anything: the bundle's
\* signature and format, the target group, compatibility, mount points.
RejectBundle == phase = "check" /\ GoTo("failed")

AcceptBundle ==
    /\ phase = "check"
    /\ \E t \in Slots \ {booted} :
        job' = [job EXCEPT !.target = t, !.todo = DOMAIN job.bundle]
    /\ phase' = IF RootPart \in DOMAIN job.bundle THEN "mark" ELSE "slots"
    /\ UNCHANGED <<env, content, disk, mem, machine, booted>>

\* Mutants of MarkTargetBad: nothing is written; the running slot is marked.
MarkNothingBad ==
    phase = "mark" /\ GoTo("slots")
MarkRunningBad ==
    /\ phase = "mark"
    /\ env' = GrubSetState(env, booted, FALSE)
    /\ phase' = "slots"
    /\ UNCHANGED <<content, disk, mem, machine, booted, job>>

MarkTargetBad ==
    /\ phase = "mark"
    /\ env' = GrubSetState(env, job.target, FALSE)
    /\ phase' = "slots"
    /\ UNCHANGED <<content, disk, mem, machine, booted, job>>

MarkTargetBadFails == phase = "mark" /\ GoTo("failed")

\* The status of the part the thread is at becomes st, in memory.
SetStatus(p, st) == mem' = [mem EXCEPT ![job.target][p] = st]

\* Mutant of UpToDate: any image that was written completely will do.
SomeImageOk(p) == ~InstallSame[p] /\ mem[job.target][p].status = "ok"

UpToDate(p) ==
    /\ ~InstallSame[p]
    /\ mem[job.target][p] = [status |-> "ok", digest |-> job.bundle[p]]

\* Mutant of RecordOk: the loop does not get to the next part.
RecordOkAgain(p) ==
    /\ SetStatus(p, [status |-> "ok", digest |-> job.bundle[p]])
    /\ disk' = mem'
    /\ phase' = "slots"
    /\ UNCHANGED <<env, content, machine, booted, job>>

\* The part has been dealt with, its status is "ok", and the status file is
\* written; failing that the installation fails.
RecordOk(p) ==
    /\ SetStatus(p, [status |-> "ok", digest |-> job.bundle[p]])
    /\ \/ /\ disk' = mem'
          /\ phase' = "slots"
          /\ job' = [job EXCEPT !.todo = @ \ {p}]
       \/ /\ phase' = "failed"
          /\ UNCHANGED <<disk, job>>
    /\ UNCHANGED <<env, content, machine, booted>>

SkipImage(p) == phase = "slots" /\ p \in job.todo /\ UpToDate(p) /\ RecordOk(p)

\* Mutant of SavePending: "pending" is set in memory only.
SetPendingOnly(p) ==
    /\ phase = "slots" /\ p \in job.todo /\ ~UpToDate(p)
    /\ SetStatus(p, [status |-> "update", digest |-> NoDigest])
    /\ phase' = "write"
    /\ job' = [job EXCEPT !.part = p]
    /\ UNCHANGED <<env, content, disk, machine, booted>>

\* "pending", without a digest, reaches the status file before the device is
\* touched; in memory the status then becomes "update".
SavePending(p) ==
    LET pending == [status |-> "pending", digest |-> NoDigest]
    IN  /\ phase = "slots" /\ p \in job.todo /\ ~UpToDate(p)
        /\ \/ /\ disk' = [mem EXCEPT ![job.target][p] = pending]
              /\ SetStatus(p, [pending EXCEPT !.status = "update"])
              /\ phase' = "write"
              /\ job' = [job EXCEPT !.part = p]
           \/ /\ SetStatus(p, pending)
              /\ phase' = "failed"
              /\ UNCHANGED <<disk, job>>
        /\ UNCHANGED <<env, content, machine, booted>>

\* The slot handler, from its first to its last write to the device.
BeginWrite ==
    /\ phase = "write"
    /\ content' = [content EXCEPT ![job.target][job.part] = Broken]
    /\ phase' = "writing"
    /\ UNCHANGED <<env, disk, mem, machine, booted, job>>

FinishWrite ==
    /\ phase = "writing"
    /\ content' = [content EXCEPT ![job.target][job.part] = job.bundle[job.part]]
    /\ phase' = "written"
    /\ UNCHANGED <<env, disk, mem, machine, booted, job>>

\* The slot handler fails, before or after it opened the device.  The status is
\* "failed" with the new image's digest; that it cannot be saved is only logged.
HandlerFails ==
    /\ phase \in {"write", "writing"}
    /\ SetStatus(job.part, [status |-> "failed", digest |-> job.bundle[job.part]])
    /\ disk' \in {mem', disk}
    /\ phase' = "failed"
    /\ UNCHANGED <<env, content, machine, booted, job>>

SaveOk == phase = "written" /\ RecordOk(job.part)

AllPartsDone == phase = "slots" /\ job.todo = {}

\* A bundle without an image for the root slot has no slot to activate.
NothingToActivate == RootPart \notin DOMAIN job.bundle \/ ~ActivateInstalled

Activate ==
    /\ AllPartsDone
    /\ ~NothingToActivate
    /\ MarkActive(job.target)
    /\ phase' = "post"
    /\ UNCHANGED <<content, mem, machine, booted, job>>

SkipActivate == AllPartsDone /\ NothingToActivate /\ GoTo("post")

\* Unused artifacts cannot be removed, or the bootloader cannot be written.
ActivateFails == AllPartsDone /\ GoTo("failed")

PostInstall ==
    \/ phase = "post" /\ GoTo("succeeded")
    \/ phase = "post" /\ PostInstallHandler /\ GoTo("failed")

\* install_done, in the main loop: the result is announced, RAUC is no longer busy.
InstallDone ==
    /\ phase \in {"succeeded", "failed"}
    /\ phase' = "idle"
    /\ job' = NoJob
    /\ UNCHANGED <<env, content, disk, mem, machine, booted>>

Installer ==
    \/ RejectBundle \/ AcceptBundle
    \/ MarkTargetBad \/ MarkTargetBadFails
    \/ \E p \in Parts : SkipImage(p) \/ SavePending(p)
    \/ BeginWrite \/ FinishWrite \/ HandlerFails \/ SaveOk
    \/ Activate \/ SkipActivate \/ ActivateFails
    \/ PostInstall \/ InstallDone

Next ==
    \/ GrubBoot \/ ComeUp \/ PowerLoss \/ BootFails \/ DaemonRestart
    \/ \E r \in MarkRequests : Mark(r[1], r[2])
    \/ \E b \in Bundles : StartInstall(b)
    \/ Installer

Spec == Init /\ [][Next]_vars

----------------------------------------------------------------------------
(* What has to hold.  The first two conditions are on the bundles and on the *)
(* callers of Mark; without them RAUC gives no such guarantee.              *)

\* Every bundle holds an image for every part of a group.
FullBundles == Bundles \subseteq [Parts -> Images]

\* Nobody makes a slot bootable that is not running.
SafeMarks == MarkRequests \cap {<<"good", "other">>, <<"active", "other">>} = {}

\* All parts of a group are from one bundle, or together they have been seen to work:
\* GRUB starts menu entry 0 whatever it holds when no slot is OK and untried, and
\* mark-good then makes a mixture of two bundles OK.
Sound(c) == c \in Bundles \cup {Factory} \cup Bootable

\* A status "ok", in the file or in the daemon, is never a lie about the device:
\* skipping an image because of it leaves the right image in place
\* (install.c:1114, and the order of the writes around it).
StatusTruth ==
    \A s \in Slots, p \in Parts : \A st \in {disk[s][p], mem[s][p]} :
        st.status = "ok" => content[s][p] = st.digest

\* GRUB's OK flag is only ever set on a sound slot, never on a half-written one,
\* whatever was interrupted before (install.c:1440 to 1496).
OkSound == \A s \in Slots : env.ok[s] = "1" => Sound(content[s])

\* While an installation runs, GRUB would start a sound slot
\* (rauc/README.rst:32, "may be interrupted at any point").
InterruptSafe == phase # "idle" => Sound(content[BootSlot(env)])

\* From the first write to the device to the end of the loop over the parts, the
\* group written to is not bootable (the comment at install.c:1208).
WritingUnbootable ==
    phase \in {"write", "writing", "written"} => env.ok[job.target] = "0"

\* When success is announced, the next boot starts the slot that was written, and it
\* holds what the bundle brought, also for the images that were skipped.
SuccessBoots ==
    phase = "succeeded" /\ ~NothingToActivate =>
        /\ BootSlot(env) = job.target
        /\ \A p \in DOMAIN job.bundle : content[job.target][p] = job.bundle[p]

\* With activate-installed=false an update waits for its mark-active: the slot is left
\* "non-bootable as requested" (install.c:1494), even one that was primary before.  It is
\* started unasked in one case: it is menu entry 0, and the running slot was not confirmed
\* when RAUC was asked to install, so that nothing is left that is OK and untried.  RAUC does
\* not look (ConfirmBeforeInstall is up to its callers).
WaitsForActivation ==
    phase = "succeeded" /\ RootPart \in DOMAIN job.bundle /\ ~ActivateInstalled =>
        /\ env.ok[job.target] = "0"
        /\ BootSlot(env) = job.target =>
              job.target = DefaultSlot /\ ~GrubGetState(env, booted) /\ ~ConfirmBeforeInstall

\* "Mark current boot as bad and rollback" (doc/33-rauc-bundle-update-guide.md:181):
\* if another slot is OK, the next boot does not start this one again.
MarkBad == machine = "up" /\ phase = "idle" /\ env' = GrubSetState(env, booted, FALSE)
ManualRollback ==
    [][MarkBad /\ (\E o \in Slots \ {booted} : env.ok[o] = "1") => BootSlot(env') # booted]_vars

\* "The system automatically rolls back if boot fails completely"
\* (doc/33-rauc-bundle-update-guide.md:190): after a boot that failed, another slot
\* is started if one is OK and able to come up.
OtherSlotReady == \E o \in Slots \ {booted} : env.ok[o] = "1" /\ CanComeUp(o)
RollsBack ==
    [][machine = "failed" /\ machine' = "starting" /\ OtherSlotReady => booted' # booted]_vars

\* What grub.cfg does of that: a slot other than menu entry 0 gets one attempt.
OneAttempt ==
    [][machine = "failed" /\ machine' = "starting" /\ booted # DefaultSlot => booted' # booted]_vars

\* The installer is scheduled, the machine is switched on again, and a system that can
\* come up does so if it is started again and again.
FairSpec ==
    /\ Spec
    /\ WF_vars(GrubBoot) /\ WF_vars(BootFails) /\ SF_vars(ComeUp)
    /\ WF_vars(Installer)

\* However often the power fails, and whatever is half written, the system comes up
\* again (the TRY flags reset at grub.cfg:49 to 56 are what lets a second slot have
\* another attempt).
Recovers == machine # "up" ~> machine = "up"

\* The steps an installation has before it at most: four for each part, and those around the
\* loop over the parts.
PartsLeft ==
    CASE phase = "check" -> DOMAIN job.bundle
      [] phase \in {"mark", "slots", "write", "writing", "written"} -> job.todo
      [] OTHER -> {}
StepsAround == [idle |-> 0, failed |-> 1, succeeded |-> 1, post |-> 2, written |-> 0,
                writing |-> 1, write |-> 2, slots |-> 3, mark |-> 4, check |-> 5]
StepsLeft == StepsAround[phase] + 4 * Cardinality(PartsLeft)

\* Whatever fails, each step of an installation brings it closer to its end, and nothing that
\* happens meanwhile sets it back (launch_and_wait_default_handler, handle_slot_install_plan).
InstallAdvances ==
    [][phase # "idle" => StepsLeft' < StepsLeft \/ UNCHANGED <<phase, job>>]_vars

\* An installation ends, and RAUC accepts the next one.
InstallEnds == phase # "idle" ~> phase = "idle"
=============================================================================
