# Verification of the A/B update system

The repository builds a Yocto image for an Intel NUC with two root file systems, A and B,
and the programs that update them. GRUB chooses a slot at boot, the RAUC daemon writes the
slot that is not running, an update agent polls a hawkBit server and hands bundles to RAUC,
a broker and a dashboard let a person do the same, and Python tools play the server and a
remote installer. This directory holds TLA+ models of that system, the TLC configurations
that check them, and TLAPS proofs. Paths below are relative to the repository; `rauc/`,
`update-agent/` and so on are directories of `kirkstone/local/`.

## 1. Inventory

### Parts that are modelled

**GRUB boot script** (`kirkstone/meta-nuc/recipes-bsp/grub/files/grub.cfg`,
`grubenv.default`). State: the environment file with `ORDER`, `A_OK`, `A_TRY`, `B_OK`,
`B_TRY`. One operation, a boot: preset, `load_env`, defaults for empty variables, a scan over
`ORDER` that sets `TRY` of every slot it looks at and stops at the first one with OK=1 and
TRY=0, a reset of the TRY flags if menu entry 0 is the choice, `save_env`. Hard: the file is
shared with RAUC and written between any two of RAUC's writes; what is chosen depends on a
history of boots and marks. Correct if a slot is never started twice without confirmation, if
a marked-bad slot is left alone, and if no history of flags locks the machine out.

**RAUC boot chooser** (`rauc/src/bootchooser.c`, `contrib/uboot.sh`). No state of its own;
reads and writes the environment of GRUB, U-Boot, barebox or EFI. Operations: get and set the
state of a slot, get and set the primary slot. Hard: a call is several commands, each of
which may fail or be the last before the power goes, and the boot loader spends attempts in
between. Correct if every loader keeps the promise of `bootchooser.h`: a call changes what is
known of one slot only, and an activated slot is next until another one is.

**RAUC installer** (`rauc/src/install.c`, `mark.c`, `status_file.c`, `slot.c`). State: the
slot devices, the status file `/data/rauc.status`, a copy of it in the daemon, and the
position of the installer thread. Operations: an installation (choose a group that is not
running, mark it bad, write each image between a "pending" and an "ok" in the status file or
skip it if the status says it is there, activate, post-install handler), `mark-good`,
`mark-bad`, `mark-active`. Hard: three stores that cannot be written together; power losses
and daemon restarts between any two writes; failing writes. Correct if the status never calls
a device what it is not, if GRUB never finds a half-written slot bootable, if an announced
success is what boots next, and if an installation ends.

**RAUC installation plan** (`install.c`, `slot.c`, `config_file.c`, `manifest.c`, `utils.c`,
`bundle.c: create_bundle`). State: the loaded configuration with its tree of slots, the booted
slot, the mounted ones, the target group and the plans. Operations: load and link the
configuration, determine the slots' states, choose the group, check system and version, plan,
check the plans. Hard: hash tables are walked in any order, and a dozen rules about slots,
images, classes, variants, hooks and parents overlap. Correct if only idle slots of one group
are written, each with an image that is meant for it.

**RAUC slot handlers** (`update_handler.c`, `mount.c`, `install.c`, `hash_index.c`,
`context.c`). State: what the slot holds, which of its chunks are on the device, its mount,
the progress tree, the stored hash indexes. Operations: the handlers, as programs of steps
(erase, format, resize, copy, extract, mount, hooks, unmount, save). Hard: each step may fail
or be interrupted, an adaptive copy takes chunks from wherever an old index says they are.
Correct if "ok" is only recorded of a whole slot and every failure is answered.

**RAUC boot area handlers** (`update_handler.c`, `mbr.c`, `gpt.c`, `emmc.c`). State:
the two halves of a bootloader area, the MBR entry, the two copies of the GPT or the eMMC's
boot partition register, and the kernel's page cache. One operation, the replacement of the
bootloader. Hard: it may be interrupted at every block, and the next attempt starts from what
is left. Correct if the boot ROM finds a complete bootloader at any time.

**RAUC artifact repositories** (`artifacts.c`, parts of `install.c` and `utils.c`). State: a
directory of artifacts, temporary ones, links and temporary links; what of it is on the disk.
Operations: install, commit, prune, file operation by file operation. Hard: applications read
through the links meanwhile, power goes between any two operations and the file system keeps
them in any order. Correct if a link always leads to a whole artifact.

**RAUC bundles** (`bundle.c`, `signature.c`, `dm.c`, `mount.c`, `main.c`). State: the bundle
file, who may write to it, loop and nbd devices, device mapper targets, mounts, the server's
socket. Operations: open, own, verify, mount and release a bundle; resign, replace, convert,
encrypt, extract. Hard: another user may write to the file, or put another one in its place,
between check and use; seven resources are taken and given back one by one; another bundle is
written in several steps. Correct if only what was signed is used and nothing is left.

**RAUC streaming** (`nbd.c`). State: the requests in the socket, in curl and in the answers
not yet read. Operations: configure, read, retry, answer, disconnect. Hard: requests overlap
and are retried; three processes share one socket. Correct if every request is answered once,
with its own data, and the server ends.

**RAUC D-Bus service** (`rauc/src/service.c`, `context.c`). State: the busy flag and the
properties Operation and LastError. Operations: InstallBundle, Mark, the end of the installer
thread in the main loop. Hard: the thread runs beside the main loop; rejected calls use the
same error path as failed ones. Correct if the properties fit the thread.

**Update agent** (`update-agent/src`). State: the thread's position, a counter of seconds,
the offer. Operations: poll, feedback, download, Install call, wait, reboot. Hard: every
message may be lost or answered late, RAUC may restart or fail, the agent may be restarted
and ask again. Correct if it reboots exactly into what it installed, never during an
installation, and always returns to polling.

### How they interact

The environment file is shared memory between GRUB, RAUC and the dashboard. The agent, the
broker and the dashboard call RAUC over D-Bus and read its properties. RAUC's installer
thread talks to its main loop through a queue of callbacks. A bundle is opened and mounted
(bundles, streaming), the plan is made from it, each plan runs its handler (slots, boot areas,
artifacts) inside the progress tree, and marks frame the whole (boot chooser). The server and
the agent exchange polls and feedback over HTTP. A reboot, whoever asks for it, ends
everything at any point.

### Not modelled

| Part | State and operations | Why not |
|---|---|---|
| RAUC event log (`event_log.c`) | log files and their rotation | no logger is configured here; the configuration's rules about loggers are in SystemConf |
| RAUC command line (`main.c`, rest) | option parsing, printing | a client of the service; the commands on bundles are in BundleAccess |
| RAUC cryptography (`signature.c`, `crypt.c`, `verity_hash.c`) | none between calls | single answers (valid or not, same or not) in BundleAccess |
| Update service (`update-service/src`) | forwarded calls and signals | its defects are in single messages: only string arguments are copied (`update_service.cpp:456`), and a property's reply goes on with RAUC's serial (`:504`), so the client waits for ever. No interleaving is needed to see them |
| Dashboard (`dashboard/src`) | RAUC and GRUB managers, agent manager, display | `rauc_system_manager.cpp:179` writes ORDER and A_OK in two calls and without asking what the slot holds, which is a `Mark` outside SafeMarks; `:341` reports a crash twice; `update_agent_manager.cpp:196` takes any line with "install" for an installation, and `:301` starts a process per look without limit. It displays and passes on what a person decides |
| Update server (`src/tools/updater/server`) | deployments, feedback, JSON files | `deployment_service.py:57` offers the first deployment to a device that has it already; UpdateAgent allows for that with an offer at every poll |
| updater-rauc (`src/tools/updater-rauc`) | an installation over SSH | a person's tool whose steps are commands on another machine. `installer.py:260` does not use the answer of the check after the reboot, `:387` may find the device before it goes down, `transfer.py:236` takes a failed verification for a good one |
| Service application, build scripts | none | nothing that later depends on a state |

`PROJECT.json` lists all of them with their files, and the hazards of the modelled ones, each
at its line with the properties that would catch it.

## 2. Modules

    GrubCfg  <-  Bootchooser  <-  SlotUpdate  <-  RaucService  <-  UpdateAgent
       ^                             ^                                ^
    GrubFirstBoot               MCSlotUpdate  <------------------ MCUpdateAgent

    UBoot, Barebox, EfiBoot, Bootchooser  <.  BootBackends  .>  BootSelection

    SystemConf  <-  BundleManifest  <-  InstallPlan

    AdaptiveCopy, ProgressTree  <-  SlotHandlers

    BootArea     ArtifactRepo     BundleAccess     NbdServer

(`X <- Y`: Y extends X; `<.` and `.>`: instances, the second one as what is implemented.
Every module with a state has an `MC` module. The proofs are in `*_proofs`, those about the
first chain in UpdateAgent_proofs, those about AdaptiveCopy in SlotHandlers_proofs.)

**GrubCfg** is the boot script as operators over an environment record: `LoadEnv`,
`Fallback`, `Choice`, `MarkTried`, `ResetBooted`, and `BootSlot`/`SavedEnv` for the whole
script. A slot stands for its letter, its menu entry and its index. `ORDER` is always a
permutation of the slots, which is what RAUC and the image write. A missing `ORDER` and an
empty one have the same effect and are both the empty sequence; for the other variables
missing and empty differ and both are kept. **GrubFirstBoot** runs the script on every
environment file there may be.

**Bootchooser** has the four operations of the GRUB back end. RAUC runs on a booted system,
so it works on a file GRUB has saved, in which every variable is set. The order of the other
slots after `grub_set_primary` is that of a hash table: any. **UBoot**, **Barebox** and
**EfiBoot** are the same for the other loaders: the record of what the loader keeps, the four
operations, and what a start makes of it. A call is the set of the sequences of environments
it may write, one per command.

**BootBackends** runs one of the loaders: mark calls (`Mark`), their commands one by one
(`Write`), failing commands, power cuts and starts. **BootSelection** is the contract: the
next slot and the good ones, and what a step of a call may do to them. `KeepsContract` is the
refinement, with `primary` and `good` mapped to what `r_boot_get_primary` and
`r_boot_get_state` answer.

**SlotUpdate** composes the GRUB back end with the installer and the machine.

| Variable | In the code |
|---|---|
| `env` | `/grubenv/grubenv` |
| `content` | what the device of each part (root slot, child slots) of each slot holds |
| `disk`, `mem` | the slot status in `/data/rauc.status` and in the daemon |
| `machine`, `booted` | off, failed, starting, up; the slot GRUB started |
| `phase`, `job` | the position of `install_thread` and its `RaucInstallArgs`, target and plans |

Each action is a stretch of code between two writes that survive a crash; the two outcomes of
a save that may fail are disjuncts of it. `PowerLoss`, `BootFails` and `DaemonRestart` may
come between any two of them. `Mark` is one call of `mark_run`.

**RaucService** adds `operation`, `lastError` and the last `Completed` signal. The rejected
call (`RejectInstall`) and the callbacks of the main loop (`SetLastError`,
`InstallCompleted`) are actions beside the thread.

**UpdateAgent** adds the agent's thread. `Tell` is a message to the server of which request
or answer may be lost. `InstallUnanswered` is the call whose reply does not come within its
30 seconds although RAUC began to install. `SeeIdle`, `TimeOut` and `KeepWaiting` are the
one-second loop of `performUpdate`. `AgentRestarts` is systemd's `Restart=always`.

**SystemConf** and **BundleManifest** are operators: which configurations and manifests are
accepted, links, roots and classes of slots, the boot slot from the command line, versions,
what "rauc bundle" makes of a directory, and the table of handlers. **InstallPlan** is the
service from its start to the first write of an installation; walks over hash tables are
choices. `Mount` and `Unmount` are other programs' doing.

**AdaptiveCopy** is `write_image_to_dev` and `hash_index.c`: `disk` is what the devices hold,
`job` the copy in progress with the indexes it opened. `AdaptiveChunk` takes the next chunk
from the first source that has it (`Written`, `Former`, `Active`, `Image`), found by the
binary search of the code; `AdaptiveFails` goes over to the plain copy, and `SeedChanges` is
the running system at work. **ProgressTree** is `context.c` as operators on the stack of open
steps, with its assertions. **SlotHandlers** gives each handler as a program, a sequence of
named steps (`prog` is what is left of it), and runs it on the target slot between the two
saves of `handle_slot_install_plan`; `pc` and `plans` are the thread, `saved` and `memory` the
slot's status, in the central file or in the slot itself, `whole` is the image whose handler
has done all its steps, if nothing was written since, and `writes` says whether what was
written is on the device ("flushed"), not yet ("cached"), or was in part lost with the power
("lost"), and then `disk` has any chunks. `Unflushed` lists the images after which RAUC
flushes nothing.

**BootArea** is about slot types that this product does not configure but RAUC ships. A half
is a header sector and a body; `disk` is the device and `seen` what the kernel shows, which
differ for the slot types in `Cached` until `WriteBack` or `Fsync`. `pc`, `target`, `image`
and `again` are the handler's position, the half and the image it writes, and whether the
other half follows.

**ArtifactRepo** has an entry per artifact and a link per name, each with the values the disk
may hold after a power loss. **BundleAccess** runs one command of RAUC at a time on one
bundle, beside a user who may change the file where its owner, mode and file system let him,
and its name where the directory does (`Rename`). `out` is the bundle that a command writes:
copied, signed, checked again, or removed, each a step that may fail.
**NbdServer** is the server with its two successive clients; `causes` records the outcome of
every attempt, which is what the properties compare the answers with.

## 3. Runs

| Run | Result | What it asks |
|---|---|---|
| `slot_update` | holds | installations, marks, boots, power losses and restarts in any order: status, flags, choice and success fit the devices |
| `deferred_activation` | holds | `activate-installed=false`, and bundles for a child slot applied over full ones |
| `slot_liveness` | holds | the machine comes up again; installations end |
| `update_agent` | holds | agent, service, installer, GRUB and power together |
| `agent_reboot` | violated | the agent reboots into the new image |
| `boot_area` | holds | four kinds of bootloader update, interrupted anywhere, any number of times |
| `boot_backends` | holds | marks, failures and starts over four boot loaders: one contract |
| `streaming` | holds | overlapping reads with retries, hand-over to the kernel, a client that goes |
| `bundle` | holds | every command on every kind of bundle, with another user, failures and kills |
| `artifacts` | holds | installations over each other, with open files, kills and power losses |
| `install_plan` | holds | ten configurations, twenty manifests, links in the bundle, any order of the tables |
| `slot_handlers` | holds | five images over each other in four types of slot, with hooks, old indexes, failures, power losses |

### What the passing runs show

* `slot_update`. `StatusTruth`: a status "ok", in the file or in the daemon, is never a lie
  about the device, so skipping an image because of it is right. `OkSound`: GRUB's OK flag is
  only ever set on a slot that one bundle wrote completely, or that has come up.
  `InterruptSafe`: while an installation runs, GRUB's choice is such a slot. `SuccessBoots`:
  after an announced success the next boot starts the slot that was written, with the
  bundle's images in it. `ManualRollback` and `OneAttempt` are about flags that grub.cfg and
  RAUC both write: mark-bad leaves the slot, and a slot other than menu entry 0 that failed
  is not started twice in a row. `InstallAdvances`: every step of an installation, the
  failures included, leaves it fewer steps (`StepsLeft`), and no mark, boot or restart adds
  any. The type invariant, `TypeOK`, is checked as a part of `AgentTypeOK`.
* `deferred_activation`. `WaitsForActivation`: an update that should wait is left not OK, even
  in a slot that was the primary one, and is not what GRUB would start - but for one case,
  which this run has: it was installed from an unconfirmed system (`ConfirmBeforeInstall` is
  FALSE here) and its slot is menu entry 0. See below.
* `slot_liveness`. `Recovers` and `InstallEnds`, which together with `InstallAdvances` says
  that RAUC does not stay busy.
* `update_agent`. `NeverStuckInstalling` and `LastErrorTells` tie the service's properties to
  its thread. `RebootsAfterInstall`: whatever the agent gave up earlier, it does not reboot
  into a running installation, nor after it reported a failure. `AttemptEnds`: it returns to
  polling even if RAUC never finishes. `AgentTypeOK` bounds the counter of seconds.
* `boot_area`. `AlwaysBootable`, `InstalledBoots` and `ActiveReadOnly`: there is always a
  bootloader to start, a success has the new one on the device and makes it the one that
  starts, and the active eMMC partition is not writable. The first two except an eMMC that is
  not enabled for booting (`NotEnabled`): before its first update it starts neither half, and
  if the kernel loses the register write of that update, neither after its success
  (`EmmcToggled` below).
  `BootTypeOK` is its type invariant.
* `boot_backends`. `KeepsContract`: all four loaders refine BootSelection. `ActivationLasts`:
  an activated slot is next until another call displaces it or the machine starts; with EFI
  also while BootNext and the persistent order say different things.
* `streaming`. `AnswersHold`: no request is answered twice, with data it did not get, or
  given up before its retries are used. `InStep`: the server aborts only on a short range or
  when its client has gone, never because it took a payload for a request.
  `AnsweredOrEnded`, `ServerEnds`: whoever waits is answered or sees the other end go, and
  the server ends once its client has.
* `bundle`. `ServedIsSigned`: what is read through the mount, or taken out, is what was
  signed, whatever another user writes meanwhile; the commands that open the bundle once more
  by its name are excepted where another file has taken that name (see below). `Released`: no
  device, mount or server outlives its command. `OutputsWhole`: when a command says that it
  wrote a bundle, all of it is there; when it failed, nothing of it, but for a kill and for a
  file that could not be removed, of which there is only a warning (bundle.c:1273, 1396, 1571,
  1628, 2616); and a file that was there first stays.
  `CommandEnds`: it does not wait for ever for its own server.
* `artifacts`. `LinksWhole`, `InUseStays`: links and open files lead to whole artifacts,
  after power losses too. `AssertsHold`: leftovers never run into an assertion.
  `InstalledIsBundle`: after a success the links are those of the manifest.
* `install_plan`. `TargetsIdle`: only slots of one group that nothing uses, with two
  exceptions: a system that was booted from a child slot, and slots that RAUC does not
  recognise in the mount table. `ImagesFit`: the right image and handler for each.
  `CreatedInstalls`: what "rauc bundle" makes can be installed - unless two images lead to one
  file, by name or by a link, and one of them is converted, or the manifest has an empty
  `convert=`. See below for all four. `NeverOlder`: versions
  compare as semver.org says (`Older`, which has that document's examples in its order).
* `slot_handlers`. `Copied`: a copy that ends well has left the image on the device, however
  wrong the indexes were. `OkIsWhole`: "ok" in the central status file is only said of a slot
  whose image's handler has done all its tools and hooks, and that has the image's chunks, as
  compared with `disk`; after a loss of power too, except for the images after which RAUC
  flushes nothing (see below). `Answered`: of all failures only the two named below end the
  service instead of being answered.

### What does not hold

The violated run: `agent_reboot`. A failed installation leaves RAUC idle, and so does a
restart of RAUC; the agent takes idle for success, reports it and reboots, into the old slot.

More counterexamples can be had with configurations that are not among the runs,
`tlc -config X.cfg M.tla`:

* `InstallInterrupted` (MCSlotUpdate, `InterruptSafe`): RAUC does not ask whether the running
  slot is confirmed. B was started and not marked good (B_OK=1, B_TRY=1); an installation
  marks A bad; power goes while A is written. No slot is OK and untried, grub.cfg falls back
  to menu entry 0, and that is the half-written A.
  In `deferred_activation` the same fall-back starts an A that was installed completely but
  should have waited for its activation: the case that `WaitsForActivation` names.
* `AutomaticRollback` (MCSlotUpdate, `RollsBack`): grub.cfg clears A_TRY in the very boot that
  starts A, so a broken system in A is started for ever, although B is OK.
* `ChildBundle` (MCSlotUpdate, `WritingUnbootable`): `get_boot_mark_slot` (`install.c:1226`)
  skips slots with a parent, so a bundle that only has an image for a child slot writes into
  a bootable group.
* `FirstBoot` (GrubFirstBoot, `FirstBootDefaults`): the presets `A_OK=0` are there before
  `[ -z "$A_OK" ]` (`grub.cfg:15`) is asked.
* `Operation` (MCUpdateAgent, `OperationTruth`): a second InstallBundle is rejected, and the
  error path sets Operation to "idle" while the first one goes on. The agent gets there
  alone: its first call was answered too late, it polls again and calls again.
* `EmmcToggled` (MCBootArea, `Toggled`): an eMMC without a boot partition reads -1, which the
  handler replaces by 1. If the kernel then loses the write of the register, it still reads
  -1, which is not 1: the check for exactly that kernel bug passes. Success is announced, and
  the device does not start what was installed. `InstalledBoots` has this one exception.
* `EfiWriteFails` (MCBootBackends, `FailuresAreAnswered`): when efibootmgr fails,
  `efi_modify_persistent_bootorder` (`bootchooser.c:1326`) propagates an error it never set.
* `ArtifactInterrupted` (MCArtifactRepo, `NothingLeftBehind`): a link "<name>.tmp-link" that
  an interrupted commit left is never pruned, and `symlink` (`utils.c:774`) fails on it the
  next time that name is to be linked to anything else.

Some properties name their exceptions, which are reachable in their runs. `ServedIsSigned`: resign,
replace and encrypt copy the bundle (`truncate_bundle`, bundle.c:1301), and extract and convert
decrypt a crypt bundle (bundle.c:990), from `bundle->path` opened again after all checks. If
the directory lets another user put a file there in between, its content is what they take. The
lease and the checks of owner and mode are about the file opened before. `OutputsWhole`: as
above; and since the test for an existing file comes long before the writing (bundle.c:1349,
1549, 1596, 2541), the clean-up may remove a file that somebody else created under that name
meanwhile (`out = "late"`), which it says nothing about.

`TargetsIdle`: `determine_slot_states` (`install.c:205-256`) calls the slot "booted" that the kernel
command line names, and "active" the slots below it. If that is a child slot, as with
`systemd.verity_root_data=sda4` and no `root=`, the top of its group is "inactive" and the
whole group a candidate: the installation may write the slot the system runs from
(`BootedChild`). And `update_external_mount_points` (`install.c:93-133`) compares the names of
devices in the mount table with those in system.conf as they are written, and takes one slot
for each: a slot configured by a link (`/dev/disk/by-label/...`) and mounted as `/dev/sda3`,
or the second of two slots on one device, is not known to be mounted, and is written
(`NameIsDevice`).

`CreatedInstalls`: `check_workdir_content` (`bundle.c:1044-1048`) admits links within the
directory and `link(2)` keeps them links. Without "keep", a conversion removes its input
(`bundle.c:564`); another image with that file, or with a link that leads to it, is left
without one, its list of outputs is missing in the manifest, and `pre_install_checks`
dereferences that list because the file is not there (`install.c:1009`): the service crashes.
With an empty `convert=` the image's file is removed, the list of outputs is not written, and
no installation accepts the bundle (bundle.c:562, manifest.c:520 and 878).

`OkIsWhole`: three kinds of images are recorded as "ok" while the kernel may still have to
write them, and a loss of power then leaves an "ok" over other content (`Unflushed`): one that
the bundle's hook installs (`hook_install_handler`, update_handler.c:2557-2571), unless the
hook itself flushes; one whose post-install hook writes to a slot that is not mounted for it,
that is raw, a UBI volume or flash (2545-2554, 1516-1523, 1900-1907); and a chunk index, as
casync extracts it with no fsync (914-925, 1493-1500, 1562-1569), unless the file system is
resized or mounted for a hook after it. Later installations skip such a slot. Each of the three
is needed: without it TLC finds a counterexample in the run.

`Answered` excepts two failures it would otherwise find: `install.c:1476`, where unused
artifacts that cannot be removed leave the progress step "update_slots" open, and
`install.c:1189`, where the status of a slot that could not be unmounted is not saved and the
message of an error that was not set is read. Two more were read and need no search: a
post-install handler that fails after the activation (`install.c:1707`) has the installation
announced as failed, and the new slot boots; and an idle RAUC seen at the very check at which
the agent's time is up is reported as a timeout (`update_agent.cpp:136`).

### Bounds

Nothing is bounded by a counter except the retries of the streaming server: the state spaces
are finite and searched completely, so any number of installations, boots, interruptions and
calls is covered. What is small:

* SlotUpdate and UpdateAgent: two slots, as in `system.conf`; one or two parts, because what
  is different about a second part (skipped, written after a first, missing in the bundle)
  needs no third; two image versions, so that old and new can be mixed; bundles for both
  parts, with one part new, or for the child alone; `slot_update` has one that never comes
  up. The agent's intervals are 1, 2, 3 and 8 (sleep, status check, progress, timeout) for
  2 s, 10 s, 3 s and 300 s: the timeout is a multiple of the check interval in both.
  `slot_liveness` has one part and full bundles: with child bundles a bootable slot may stay
  half-written (`ChildBundle`), and then nothing is left that could come up.
* BootBackends: three slots, so that an order has a middle and two slots may tie; one attempt
  counter configured and one left to its default.
* NbdServer: two reads that overlap, beside the configuration; two retries for five, so that
  one retry is not yet the last.
* BundleAccess: one bundle of every kind the code tells apart (seventeen, two of them in a
  directory where names can be changed) and four
  configurations; sizes are in blocks, with the boundaries of signature, trailer and file.
* ArtifactRepo: two names, two digests, four bundles: a name replaced, added, dropped, none.
* InstallPlan: groups of one to three slots, a boot area, read-only, mounted and tied ones,
  one configured by a link, two on one device; a directory with a file, a link to it and a link to that, and
  ones with dangling and looping links; nine versions in semver.org's own example order.
* SlotHandlers: devices of two chunks and two values, so that an image can be shorter than
  the slot, zero, or made of what the slot, the seed and the image have in any mixture; four
  slot types, one of each group of handlers; five images, which have one of every kind of
  handler, of hooks and of `Unflushed` among them, one also in a bundle with an artifact.

Deadlock is checked in every run.

### Fairness

`FairSpec` says that the machine is switched on again after it went off and power-cycled when
it hangs in a boot (weak fairness of `GrubBoot` and `BootFails`; the repository configures no
watchdog, so this is a person or the power supply), that a slot able to come up does so if it
is started again and again (strong fairness of `ComeUp`, since power may go during a boot),
and that the kernel schedules the installer thread (weak fairness of `Installer`); its
handlers are taken to end. `AgentFairSpec` only says that the agent's own thread is
scheduled. Every call it makes that blocks has a timeout, and nothing is assumed of RAUC or
the server. NbdServer's `Fairness` says that RAUC's two processes and the kernel run, and
that every HTTP transfer comes to some end: curl has a limit on connecting only, so a server
that accepts a connection and then says nothing would hold a request for as long as it likes.
BundleAccess asks that a command that runs goes on.

## 4. Proofs

The proof modules prove the following for every value of the constants: any finite sets of
slots and parts, any images, bundles, chunks, requests and configurations.

*UpdateAgent_proofs*, first part: facts about the scan, and `PrimaryIsNextBoot`: if `grub_get_primary`
names a slot, grub.cfg starts that slot next. Two programs in two languages read the same
file the same way.

*Second part, SlotUpdate.* No property is inductive alone. `BaseInv` is: `JobInv` (a job has a
target that is not running, and parts of its bundle), `ImageInv` (while an image is written
neither copy of the status says "ok" - otherwise the broken content would make `StatusTruth`
false), `StatusTruth`, `DoneInv` (parts the loop is past hold the bundle's images) and
`BootInv` (the target is bad until activation, then GRUB's choice). It needs no assumption and
gives `TypeCorrect`, `StatusIsTrue` and `SuccessIsReal`.

`InstallationsAdvance` rests on `BaseInv` too: `StepsLeft` is at most five and four for each
part, and decreases with every step, since a part that is being written is among those left to
do until it is recorded. So an installation takes a bounded number of steps; that the thread
takes them is the fairness under which TLC checks `InstallEnds`.

`SafeInv` adds that the running slot is sound, since a mark-good call will make it OK. It
needs `FullBundles`, because a child bundle mixes two releases in a slot, and `SafeMarks`,
because RAUC lets a caller mark any slot good or active without looking at it. That gives
`OkIsSound`. `ConfirmedInv` says that an installation leaves the running slot confirmed. It
needs `ConfirmBeforeInstall`, which is not in RAUC: it is what the system around it has to see
to (rauc-mark-good.service before any update). With it comes `InterruptIsSafe`.
`ActivationWaits` needs no such hypothesis: it says that the running slot is unconfirmed
whenever an update that should wait would be started, and uses `ConfirmedInv` only to say
that this never happens under `ConfirmBeforeInstall`. `RunningDefault` and `FailedTried` are the invariants about TRY flags under
`ManualRollbackWorks` and `OneAttemptOnly`, which are action properties.

*Third part*: `ServiceImplements` and `AgentImplements` - the service with its thread
and properties implements `SlotUpdate`'s specification, and the agent's composition
implements the service's, each step being a step or a stutter. So everything above carries
over (`CoreHoldsWithAgent`). `InstallingIsReal` and `LastErrorIsTrue` are about the
properties. `NoRebootWhileInstalling` rests on `WaitInv`: from the moment RAUC accepted the
agent's own call, an idle Operation is true - although it is not in general.
`AgentTypeCorrect` adds the agent's and the service's own variables to `TypeCorrect`.

*BootBackends_proofs*: `LoadersKeepContract`, the refinement of BootSelection, and
`ActivatedIsNext`, for all four loaders, any finite set of slots and any attempt counters. Each
loader finds the next slot as the first one, in a sequence, of a set (the highest priorities;
the good ones; those with attempts left; the entries that are slots); `FirstStays`, `FirstLess`
and `FirstMore` say what becomes of it when slots leave or join the set, `FirstAhead` when one
is put in front. `CallOK` says that the writes a call has left do one after the other what its
operation promises (`Promised`), from whatever the environment is now: with U-Boot there may be
a power cut or a failing command between the order and the counter. `PendingOK` says why an
activated slot stays first (`Top`): it is alone at the highest priority, at the head of the
order and has attempts, or is in BootNext. U-Boot's and EFI's orders may have any length, also
lack a slot or list one twice. What their list loops leave of them is proved along the loop
(`WithoutIs`, `RemoveFirstIs`): U-Boot's drops every occurrence of a slot, EFI's the first.

*BootArea_proofs*: `BootInv` ties the position of the handler to the halves. For switched
areas (`SwitchInv`) the active half holds one image, on the device and in the cache, and is
not the one being written until that one does too. `GptInv`: one copy of the GPT is good
whenever the other is not. `EmmcInv`: a partition is read-only before it becomes active. For
raw areas (`RawInv`) a half with a header is complete, and while one half is written the other
one is complete. The hypothesis `InOrder` says that MBR and raw areas get their blocks in
order; for GPT and eMMC areas it is not needed. With it `BootloaderSurvives`,
`InstalledIsBooted` and `ActiveIsReadOnly` hold for any images and any of the slot types, the
first two with the exception of an eMMC that is not enabled for booting, which they state.

*SlotHandlers_proofs*, first part: `CopyIsWhole`, for images, devices and indexes of any length and
content. The invariant is `Holds(n)`: the first n chunks of the target are those of the
image, n being the number of chunks copied. It says nothing of the stored indexes: a chunk
found through them is hashed again before it is used, and a chunk found in the part just
written, which is not, is right because of `Holds(n)` itself.

*Second part*: `OkSlotIsWhole` and `HandlersCopyWhole`. `HandlersInv` is the copy's
invariant, the plan's types, `JobFits` (what is copied or unpacked is the plan's image, and has
arrived as far as it has come) and `CentralInv`: the central status says "ok" only if the slot
has its image (`Right`), and not while the slot is written. What makes that inductive are facts
about the handler programs, by cases on image and slot type: whatever is mounted or unpacked is
unmounted later (`Closed`), a seed is used at once and then unmounted (`Seeded`), whatever
prepares the slot comes before the image is brought, only hooks that the image asks for come
after it, and unless the image is `Unflushed`, every step that writes is followed by one that
flushes (`Followed`, in HandlerFlushes and HandlerBrings). So when the program is done the slot
has the image's chunks, and nothing is left to write. Every other step is a step of
AdaptiveCopy or ends with nothing being copied, which is a refinement of its own,
`HandlersAreCopies`: what holds of a copy alone holds within an installation.

*Third part*: `EveryInstallationAnswered`, for bundles of one or two plans. What can end the
service unasked is an assertion about the progress (`ProgressTree`) or a mount that is refused
without an error. `ProgressFits` says which tree the installation has reached: every plan is
worth ten parts of "update_slots", of which the status check takes one and the copy nine, and
with a percentage reported the step around has got exactly that share of it
(`CopiesOn`, `CopyEnds`). Each operation on the tree is a lemma that says what becomes of one,
two or three open steps, with the sums that `r_context_send_progress` asserts. `JobFits` is why
the reported percentage is one, and `ProgramFits`
why no handler mounts a mounted slot: its program has an "umount" between any two mounts
(`Apart`), and when the slot is mounted, before the next one (`Released`).

*NbdServer_proofs*: `AnswersAreTrue` and `StaysInStep`. `NbdInv` says that an asked request is
in exactly one place - the socket, curl's table, or the answers - that curl's table counts
the failed attempts (`Trying`), and that on the socket the payload is directly behind the
configure request and nowhere else (`Framing`).

*ArtifactRepo_proofs*: `LinksAreWhole`, `OpenArtifactsStay`, `NoAssertFails` and
`InstalledLinks`, for any names, digests, artifacts and bundles. A power loss keeps, of every
link and of every artifact, one of the values it had since the last sync, so that the
invariant is about all of these: `KeptLinksWhole` says that whatever may be kept of a link
leads to an artifact of which only whole versions may be kept. A rename before the artifact
is synced breaks it at once, a missing sync before the removal of old artifacts breaks
`LinksSettled`: while artifacts are removed, a link has one value. `LinkedStays` and
`RemovedUnused` are why the removal takes nothing in use, `TableIsDisk` and `TmpFree` why the
code's assertions hold after any interrupted installation. `Blocked` is the one thing such an
installation leaves for good: a temporary link in the way, with which the next one fails.

*BundleAccess_proofs*: `OnlySignedIsServed` and `OnlyVerifiedIsMounted` rest on `ServedInv`:
the flags `signature`, `payload` and `exclusive` are true statements about the file for as
long as the command runs. That is not obvious for `payload`, since the file may change after
it was read: it needs that `exclusive` is only set when no other user has, or can get, write
access (`Private`), and that no step of the other user takes that away - none that writes to
the file: the exception for a name that has changed is part of the statement. A bundle with a manifest in its signature needs
none of this, as it is read through dm-verity. `AllReleased` rests on `DevicesOf`, the devices
there are at each step when nothing excuses others, `HeldOf` and `Layered`, which hold even
then. `NoPartialOutput` is an action property, from `OutInv`: what there is of the other bundle
at each step of writing it, and that nothing is said of it before the last.

*InstallPlan_proofs*: `TargetsAreIdle`, with the two exceptions the property states, rests on
what RAUC found mounted (`FoundInv`: of the slots that were, those whose configured name is
the device's and no other slot's) and on the flat links that `fix_grandparent_links`
leaves, in whatever order it walks the table while it changes the links it follows
(`LinksInv`): the top of a slot is then the slot itself or its parent (`TopFacts`), so that a
group is in use exactly if its top is, and the selection looks at nothing but tops.
`ImagesAreFit` needs that the plans are still those of the bundle (`PlansInv`), that no slot
class is a repository (`ConfInv`), and what the first of the matching rows of `updatepairs`
can be (`RawPairs`). `RefusedBundlesStop` is
`NeverOlder` with the code's own order of versions. `VersionsAreOrdered` shows that this order
is one: total, transitive, and antisymmetric but for zeros at the end; `OrderIsSemver`, that it
is the one semver.org gives (`Older`), and with it `OlderBundlesStop` is `NeverOlder` itself.
That needs a bundle to be there while it is looked at (`OpenedInv`) and its version to be what
the manifest said before `rauc bundle` (`BundleVersion`). `CreatedBundlesInstall` follows
the directory through the conversion, image after image (`FilesSoFar`): a name that is gone was
removed by an image that does not keep it, no link is new or leads elsewhere, and what was
extracted stays, because the name of an extracted file has no other one to be extracted to
(`ExtractedTwice`). So a name that opened before still does unless one on its way of links is
gone (`WayKept`), and that one is the file of an image that was converted. That the recursive
function of `ConvertImages` exists, and the induction along it, are proved through the
smallest index for which a statement fails (`Smallest`). There are two assumptions:
`InputsAreManifests`, that a manifest has its fields and that lists are lists, and
`VersionsAreRead`, that a pre-release is a list of numbers and names.

TLC checked every one of these inductive invariants on the instances of the runs before it
was proved.

Only model-checked: liveness (`Recovers`, `InstallEnds`, `AttemptEnds`, `AnsweredOrEnded`,
`ServerEnds`, `CommandEnds`), which is beyond the prover. Every other property of a passing run
is a theorem. Not proved because they do not hold: the properties above under "What does not
hold".

## 5. What is assumed, and what is left out

* `grub-editenv` and GRUB's `save_env` change the environment file in one step, and so does
  GLib for the status file. A `grub-editenv` that fails has changed nothing. The same for
  fw_setenv, efibootmgr and barebox-state.
* A digest identifies an image, and a chunk stands for its hash. Counters and timestamps in
  the slot status are left out: no decision depends on them.
* The daemon reads the status file when it first needs it; the model when the daemon starts.
  Only the daemon writes the file, so that makes no difference.
* `Bootable` is a constant: the contents that come up. A system that comes up sometimes is
  one that is interrupted by power losses.
* In SlotUpdate, slot hooks and custom handlers are failures only; SlotHandlers has the
  hooks' steps, InstallPlan the place of the custom handler.
* In `UpdateAgent` the agent is the only client that asks for installations, and with another
  one `RebootsAfterInstall` would be lost: that client's rejected call makes Operation idle
  while the agent waits (`Operation.cfg`). `ConfirmBeforeInstall` is FALSE there, since the
  agent does not check.
* The agent registers for the Completed signal but nothing dispatches its connection's
  messages; its callbacks never run and are not modelled.
* `OkSound` is checked and proved without marking other slots (`SafeMarks`): `mark.c:36`
  takes the caller's word for what the slot holds.
* `clear_boot_switch_partition` (`update_handler.c:111`) does not flush what it wrote, and the
  MBR entry is not flushed. A device that gets these blocks out of order can keep an old raw
  header over a half-cleared body; the next update then begins with the other half, the only
  complete one. With raw areas in `Cached`, TLC finds this after two interruptions. Closing
  the last descriptor of an otherwise unused block device flushes it, hence `InOrder` is an
  assumption and not a statement about every device.
* libfdisk is taken to write the backup copy of the GPT before the primary one, and to read
  the backup only if the primary is not valid.
* BootBackends leaves out "custom", whose state is in a program of somebody else's, and
  "noop", which does nothing and cannot be asked.
* NbdServer and BundleAccess take netlink to work when a device is removed. In NbdServer an
  answer is whole: what a failed transfer left in its buffer (nbd.c:510) has no part of it. The user who
  writes to a bundle is not root. Cryptography is an answer.
* ArtifactRepo: what a killed service has not synced is written out before the next
  installation (`Settled`), after a power loss any value since the last sync may be there.
  Applications open files through links only. Repositories with a parent class are left out;
  `config_file.c:647` rejects them for every type the handlers know.
* InstallPlan: an image's file is not a directory that an earlier image was extracted to, nor is
  the extraction of one extracted again; a device is there or the plan is refused (`Fails`); a slot tree is shallower
  than the climb's limit, so that reaching it means a loop; a file has one extension; the
  "+build" part of versions, keyring and paths are left out. A version is read as
  `r_semver_parse` splits it, at its last "-", so that one with a hyphen within its pre-release
  is one that cannot be parsed; an identifier that is a number above 64 bits counts as a name.
* SlotHandlers: an image brings no slot.raucs of its own; the hash index in the bundle is that
  of the image; closing a device without fsync is not trusted to have written it, unmounting
  is, and so are mkfs, resize2fs, flash_erase, flashcp, nandwrite and the UBI ioctl. A post hook
  changes the slot's first chunk at most, what an install hook leaves is its own affair, and a
  loss of power may change any chunk of a slot with unflushed writes. The jffs2 handler is left out: no slot
  type selects it. `OkIsWhole` is about the central status file. A status file in the slot
  itself is written by the same steps, on a file system that may lose the two in any order.

## 6. What is left

1. **Update service and dashboard** as second and third clients of `RaucService`: the
   dashboard's two writes of the environment between RAUC's, one completion per update.
2. **Update server with the agent**: deployments, polls and feedback as messages, restarts
   from the JSON files.
3. **Composition** of SlotHandlers with SlotUpdate: the write of a part in SlotUpdate is the
   run of a handler program in SlotHandlers, with `OkIsWhole` in the place of `StatusTruth`.
