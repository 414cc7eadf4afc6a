---------------------------- MODULE InstallPlan -----------------------------
(***************************************************************************)
(* From system.conf, the kernel command line, the mount table and a bundle *)
(* to the slots and repositories an installation writes: the loading of    *)
(* the configuration (rauc/src/config_file.c), determine_slot_states, and  *)
(* do_install_bundle up to the first write (install.c).                    *)
(*                                                                         *)
(* Hash tables are walked in any order.  What the plans are for is in      *)
(* SlotUpdate (slots), SlotHandlers (their handlers) and ArtifactRepo.     *)
(***************************************************************************)
EXTENDS BundleManifest

CONSTANTS
    Confs,      \* the files system.conf may hold
    CmdLines,   \* the kernel command lines
    Devices,    \* the devices somebody mounts or unmounts
    Inputs,     \* [manifest, dir]: what "rauc bundle" may be run on
    Foreign     \* [manifest, dir]: bundles of another tool or version

\* The fields of a manifest are there, its images and their conversions are lists.
ASSUME InputsAreManifests == \A i \in Inputs : IsManifest(i.manifest)

\* A version that is given has its identifiers, also one that cannot be parsed.
ASSUME VersionsAreRead ==
    \A v \in {c.minVersion : c \in Confs} \cup {b.manifest.version : b \in Inputs \cup Foreign} :
        v # None => IsVersion(v)

VARIABLES
    conf,       \* the configuration
    parent,     \* RaucSlot.parent: per slot a slot or None
    unlinked,   \* the slots fix_grandparent_links has not come to
    step,
    cmdline,    \* the command line of this boot
    booted,     \* the booted slot, or None when booted from elsewhere
    mounts,     \* the devices that are mounted
    ext,        \* the slots RAUC found to be mounted when the installation began
    inuse,      \* those that were
    bundle,     \* [made, manifest, dir]: the bundle to install; made by create_bundle
    ignore,     \* which of "compatible" and "version" the caller ignores
    group,      \* the target install group: per slot class a slot
    plans       \* the install plans

vars == <<conf, parent, unlinked, step, cmdline, booted, mounts, ext, inuse, bundle, ignore, group, plans>>
service == <<conf, parent, unlinked, cmdline, booted>>

Slots == DOMAIN conf.slots
Steps == {"load", "link", "states", "stopped", "idle", "group", "check", "plan",
          "handler", "mark", "prechecks", "write", "aborted", "crashed"}
NoBundle == [made |-> FALSE, manifest |-> None, dir |-> <<>>]
Ignorable == {"compatible", "version"}

TypeOK ==
    /\ conf \in Confs
    /\ parent \in [Slots -> Slots \cup {None}] /\ unlinked \subseteq Slots
    /\ step \in Steps /\ cmdline \in CmdLines /\ booted \in Slots \cup {None}
    /\ mounts \subseteq Devices /\ ext \subseteq Slots /\ inuse \subseteq Slots /\ ignore \subseteq Ignorable
    /\ DOMAIN group \subseteq {conf.slots[s].class : s \in Slots}
    /\ \A k \in DOMAIN group : group[k] \in Slots /\ conf.slots[group[k]].class = k
    /\ \A p \in plans : p.slot \in Slots \cup {None}

Init ==
    /\ conf \in Confs /\ cmdline \in CmdLines /\ mounts = {}
    /\ parent = [s \in Slots |-> None] /\ unlinked = {}
    /\ step = "load" /\ booted = None /\ ext = {} /\ inuse = {}
    /\ bundle = NoBundle /\ ignore = {} /\ group = <<>> /\ plans = {}

----------------------------------------------------------------------------
(* The start of the service.                                                *)

\* load_config up to parse_slots, which sets the parents as they are given.
Load ==
    /\ step = "load"
    /\ IF Loads(conf)
         THEN /\ step' = "link" /\ unlinked' = Slots
              /\ parent' = [s \in Slots |-> conf.slots[s].parent]
         ELSE step' = "stopped" /\ UNCHANGED <<parent, unlinked>>
    /\ UNCHANGED <<conf, cmdline, booted, mounts, ext, inuse, bundle, ignore, group, plans>>

\* fix_grandparent_links, slot after slot, while it changes the links it follows.
LinkToRoot(s) ==
    /\ step = "link" /\ s \in unlinked
    /\ \/ /\ parent[s] = None
          /\ UNCHANGED <<parent, step>>
       \/ \E r \in Slots :
              /\ parent[s] # None /\ IsTopOf(parent, r, s)
              /\ parent' = [parent EXCEPT ![s] = r] /\ UNCHANGED step
       \/ /\ \A r \in Slots : ~IsTopOf(parent, r, s)  \* a loop
          /\ step' = "stopped" /\ UNCHANGED parent
    /\ unlinked' = unlinked \ {s}
    /\ UNCHANGED <<conf, cmdline, booted, mounts, ext, inuse, bundle, ignore, group, plans>>

LoadRepos ==
    /\ step = "link" /\ unlinked = {}
    /\ step' = IF ReposHold(conf) /\ ClassesUnique(conf) THEN "states" ELSE "stopped"
    /\ UNCHANGED <<service, mounts, ext, inuse, bundle, ignore, group, plans>>

\* determine_slot_states
DetermineSlotStates ==
    LET name == BootSlot(conf, cmdline)
        matching == MatchingSlots(conf, name)
    IN /\ step = "states"
       /\ \/ \E s \in matching : booted' = s /\ step' = "idle"
          \/ /\ matching = {} /\ name \in {"/dev/nfs", "_external_"}
             /\ booted' = None /\ step' = "idle"
          \/ /\ matching = {} /\ name \notin {"/dev/nfs", "_external_"}
             /\ step' = "stopped" /\ UNCHANGED booted
       /\ UNCHANGED <<conf, parent, unlinked, cmdline, mounts, ext, inuse, bundle, ignore, group, plans>>

StateOf(s) ==
    IF s = booted THEN "booted"
    ELSE IF booted # None /\ parent[s] = booted THEN "active" ELSE "inactive"

----------------------------------------------------------------------------
(* An installation.                                                         *)

\* The name of a bundle, and the arguments, are the caller's.
Bundles == {[made |-> TRUE, manifest |-> CreateBundle(i.manifest, i.dir).manifest,
                dir |-> CreateBundle(i.manifest, i.dir).dir] :
               i \in {x \in Inputs : CreateBundle(x.manifest, x.dir).end = "made"}}
           \cup {[made |-> FALSE, manifest |-> f.manifest, dir |-> f.dir] : f \in Foreign}

\* The slots whose devices are mounted, by whatever name system.conf has for them.
InUse == {s \in Slots : Resolved(conf.slots[s].device) \in mounts}
\* update_external_mount_points compares the devices of the mount table with those of
\* system.conf as they are written there, and for each finds one slot.
MountedSlots == {s \in Slots : conf.slots[s].device \in mounts}
FoundMounted(E) ==
    /\ \A s \in MountedSlots : \E t \in E : conf.slots[t].device = conf.slots[s].device
    /\ \A s, t \in E : conf.slots[s].device = conf.slots[t].device => s = t

Begin(b, i) ==
    /\ step = "idle" /\ bundle' = b /\ ignore' = i /\ inuse' = InUse
    /\ \E E \in SUBSET MountedSlots : FoundMounted(E) /\ ext' = E
    /\ step' = IF Accepted(b.manifest, FormatMask(conf.formats)) THEN "group" ELSE "idle"
    /\ group' = <<>> /\ plans' = {}
    /\ UNCHANGED <<service, mounts>>

\* mutant: any slot of a root class, in use or not
SelectionsAny ==
    {f \in [RootClasses(conf, parent) -> Slots] : \A k \in DOMAIN f : conf.slots[f[k]].class = k}
\* determine_target_install_group: of each root class one inactive slot; of each class one
\* of the slots below these.
Selections ==
    LET candidates(k) == {s \in Slots : conf.slots[s].class = k /\ StateOf(s) = "inactive"}
    IN {f \in [RootClasses(conf, parent) -> Slots \cup {None}] :
           \A k \in DOMAIN f : IF candidates(k) = {} THEN f[k] = None ELSE f[k] \in candidates(k)}
Below(selected) == {s \in Slots : \E r \in selected : r # None /\ IsTopOf(parent, r, s)}
Groups(members) ==
    {g \in [{conf.slots[s].class : s \in members} -> members] :
        \A k \in DOMAIN g : conf.slots[g[k]].class = k}

DetermineTargetGroup ==
    /\ step = "group"
    /\ \E f \in Selections :
           \E g \in Groups(Below({f[k] : k \in DOMAIN f})) : group' = g
    /\ step' = "check"
    /\ UNCHANGED <<service, mounts, ext, inuse, bundle, ignore, plans>>

GoesTo(next) ==
    /\ step' = next
    /\ UNCHANGED <<service, mounts, ext, inuse, bundle, ignore, group, plans>>

\* The handler before the installation fails, or the bundle's hook; the repositories
\* cannot be read; a device or the directory of a repository is missing.
Fails == step \in {"check", "plan", "prechecks"} /\ GoesTo("idle")

CompatibleHolds == "compatible" \in ignore \/ conf.compatible = bundle.manifest.compatible
VersionHolds ==
    \/ conf.minVersion = None \/ "version" \in ignore
    \/ /\ bundle.manifest.version # None
       /\ VersionLessEqual(conf.minVersion, bundle.manifest.version)

\* The bundle's own check takes the place of the comparison.
CheckBundle ==
    /\ step = "check"
    /\ GoesTo(IF (bundle.manifest.installCheck \/ CompatibleHolds) /\ VersionHolds
                THEN IF bundle.manifest.handler # None THEN "handler" ELSE "plan"
                ELSE "idle")

\* launch_and_wait_custom_handler: what it writes is the bundle's affair.
CustomHandler == step = "handler" /\ GoesTo("idle")

\* r_install_make_plans, first part: per class that an image names, the first image of the
\* system's variant, else the first without one.
ImageFor(im, variant, k) ==
    LET ours == {n \in 1 .. Len(im) : im[n].class = k /\ im[n].variant # None
                                        /\ im[n].variant = variant}
        plain == {n \in 1 .. Len(im) : im[n].class = k /\ im[n].variant = None}
        first(at) == im[CHOOSE n \in at : \A o \in at : n <= o]
    IN IF ours # {} THEN first(ours) ELSE IF plain # {} THEN first(plain) ELSE None
Images == ImagesOf(bundle.manifest)
SlotClasses == {i.class : i \in {x \in Images : x.artifact = None}}
MatchingImage(k) == ImageFor(bundle.manifest.images, conf.variant, k)

SlotPlan(k) ==
    [image |-> MatchingImage(k), slot |-> group[k], repo |-> None,
     handler |-> UpdateHandler(MatchingImage(k), conf.slots[group[k]].type)]
SlotPlanHolds(k) ==
    /\ MatchingImage(k) # None
    /\ k \in DOMAIN group /\ ~conf.slots[group[k]].readonly
    /\ SlotPlan(k).handler # "none"

\* Second part: each artifact image, whatever its variant.
RepoPlan(i) == [image |-> i, slot |-> None, repo |-> i.class, handler |-> "none"]
Artifacts == {i \in Images : i.artifact # None}

MakePlans ==
    /\ step = "plan"
    /\ IF /\ \A k \in SlotClasses : SlotPlanHolds(k)
          /\ \A i \in Artifacts : i.class \in DOMAIN conf.repos
          /\ Images # {}
         THEN /\ plans' = {SlotPlan(k) : k \in SlotClasses} \cup {RepoPlan(i) : i \in Artifacts}
              /\ step' = "mark"
         ELSE step' = "idle" /\ UNCHANGED plans
    /\ UNCHANGED <<service, mounts, ext, inuse, bundle, ignore, group>>

\* get_boot_mark_slot: there may be one at most.
BootMarkSlots == {p.slot : p \in {x \in plans : x.slot # None /\ parent[x.slot] = None
                                      /\ conf.slots[x.slot].bootname # None}}
GetBootMarkSlot ==
    /\ step = "mark"
    /\ GoesTo(IF Cardinality(BootMarkSlots) > 1 THEN "aborted" ELSE "prechecks")

\* pre_install_checks, on one plan: the image's file is missing, or a file it was converted
\* to, or the slot is mounted.
FileMissing(p) == p.image.file # None /\ ~Opens(bundle.dir, p.image.file)
Dereferences(p) == FileMissing(p) /\ p.image.converted = None
ConvertedMissing(p) ==
    /\ p.image.file # None /\ p.image.converted # None
    /\ \/ FileMissing(p) /\ p.image.converted = <<>>
       \/ \E n \in 1 .. Len(p.image.converted) : ~Opens(bundle.dir, p.image.converted[n])
MountRefused(p) ==
    p.slot \in ext /\ ~(conf.slots[p.slot].allowMounted /\ "install" \in p.image.hooks)

PreInstallChecks ==
    /\ step = "prechecks"
    /\ \/ \E p \in plans : Dereferences(p) /\ GoesTo("crashed")
       \/ \E p \in plans : (ConvertedMissing(p) \/ MountRefused(p)) /\ GoesTo("idle")
       \/ /\ \A p \in plans : ~Dereferences(p) /\ ~ConvertedMissing(p) /\ ~MountRefused(p)
          /\ GoesTo("write")

\* The slots are written and the installation ends, one way or the other.
Write == step = "write" /\ GoesTo("idle")

----------------------------------------------------------------------------
(* Around the service.                                                      *)

Mount(d) ==
    /\ step # "load" /\ mounts' = mounts \cup {d} /\ d \notin mounts
    /\ UNCHANGED <<service, step, ext, inuse, bundle, ignore, group, plans>>
Unmount(d) ==
    /\ mounts' = mounts \ {d} /\ d \in mounts
    /\ UNCHANGED <<service, step, ext, inuse, bundle, ignore, group, plans>>

\* The machine is booted again, perhaps from another slot.
Reboot(line) ==
    /\ step # "load" /\ step' = "load" /\ cmdline' = line
    /\ booted' = None /\ parent' = [s \in Slots |-> None] /\ unlinked' = {}
    /\ mounts' = {} /\ ext' = {} /\ inuse' = {} /\ bundle' = NoBundle /\ ignore' = {}
    /\ group' = <<>> /\ plans' = {}
    /\ UNCHANGED conf

Next ==
    \/ Load \/ (\E s \in Slots : LinkToRoot(s)) \/ LoadRepos \/ DetermineSlotStates
    \/ \E b \in Bundles, i \in SUBSET Ignorable : Begin(b, i)
    \/ DetermineTargetGroup \/ CheckBundle \/ Fails \/ CustomHandler
    \/ MakePlans \/ GetBootMarkSlot \/ PreInstallChecks \/ Write
    \/ \E d \in Devices : Mount(d) \/ Unmount(d)
    \/ \E line \in CmdLines : Reboot(line)

Spec == Init /\ [][Next]_vars

----------------------------------------------------------------------------
(* Properties.                                                              *)

Running == step \notin {"load", "link", "states", "stopped"}
\* The slot that the kernel command line names is not the top of its group.
BootedChild == booted # None /\ parent[booted] # None
\* The name that system.conf has for its device is the one in the mount table, and is no
\* other slot's.
NameIsDevice(s) ==
    /\ Resolved(conf.slots[s].device) = conf.slots[s].device
    /\ \A t \in Slots : conf.slots[t].device = conf.slots[s].device => t = s
TopsOf(s) == {r \in Slots : IsTopOf(parent, r, s)}

\* Whatever order the tables are walked in, an installation writes only slots that the
\* running system does not use: none of the booted slot's group, none that is read-only,
\* none that was mounted when it began, unless slot and image allow it; and of each class of
\* groups only one group.  Two cases are excepted, in which the code has it wrong.  When the
\* system was booted from a child slot, only that slot counts as booted: the top of its group
\* is inactive, and the group it runs from may be written, the booted slot with it.  And a
\* mounted slot is not recognised if system.conf has a link for its device, or if another
\* slot is on the same device (install.c: update_external_mount_points,
\* determine_slot_states, determine_target_install_group, r_install_make_plans,
\* pre_install_checks).
TargetsIdle ==
    step = "write" =>
        /\ \A p \in plans : p.slot # None =>
              /\ booted # None => TopsOf(p.slot) \cap TopsOf(booted) = {} \/ BootedChild
              /\ ~conf.slots[p.slot].readonly
              /\ p.slot \in inuse =>
                    \/ conf.slots[p.slot].allowMounted /\ "install" \in p.image.hooks
                    \/ ~NameIsDevice(p.slot)
        /\ \A p, q \in {x \in plans : x.slot # None} :
              \A r \in TopsOf(p.slot), t \in TopsOf(q.slot) :
                  conf.slots[r].class = conf.slots[t].class => r = t

\* Each slot gets an image for its class and for the system's variant, if the bundle has
\* one, and never an artifact; and no raw copy goes over a slot of the boot types, whose
\* handlers switch between two regions (install.c: r_install_make_plans, config_file.c:
\* check_unique_slotclasses, update_handler.c: updatepairs).
ImagesFit ==
    step = "write" => \A p \in {x \in plans : x.slot # None} :
        /\ p.image.class = conf.slots[p.slot].class /\ p.image.artifact = None
        /\ p.image.variant \in {None, conf.variant}
        /\ \A i \in Images : /\ i.class = p.image.class /\ i.artifact = None /\ i.variant # None
                             /\ i.variant = conf.variant
                            => p.image.variant = conf.variant
        /\ p.handler = "img_to_raw" =>
              conf.slots[p.slot].type \notin RegionTypes \cup {"boot-emmc"}

\* The file of an image that is converted, and may be removed, is another image's file too,
\* or is on the way of links to it.
SharesConverted(b) ==
    \E i, j \in ImagesOf(b.manifest) :
        /\ i # j /\ i.convert # None /\ j.file # None
        /\ i.file \in OnTheWay(b.dir, j.file)

\* An image with an empty list of conversions: its file is removed for nothing, and what
\* is written of it no installation accepts.
ConvertsToNothing(m) == \E i \in ImagesOf(m) : i.convert = <<>>

\* What "rauc bundle" makes, of files and of links to them, an installation accepts: the
\* checks of the manifest hold and every image's file is there.  Two cases are excepted, in
\* which the code has it wrong.  When two images lead to one file, by its name or by a link,
\* and one of them is converted, the other one's file or the target of its link may be gone,
\* and the service crashes; an empty list of conversions is refused (bundle.c:
\* check_workdir_content, create_bundle, convert_images, manifest.c: check_manifest_internal
\* and _external, install.c: pre_install_checks).
CreatedInstalls ==
    bundle.made /\ ~SharesConverted(bundle) /\ ~ConvertsToNothing(bundle.manifest) =>
        /\ Accepted(bundle.manifest, Formats)
        /\ step # "crashed" /\ \A p \in plans : ~ConvertedMissing(p)

\* Which of two versions is the older one, as semver.org has it: by the first of the three
\* numbers that differs; then a pre-release is older than the release; then by the first
\* place in which their identifiers differ, one that is missing being the older.
IdOlder(x, y) == (x.number /\ ~y.number) \/ (x.number = y.number /\ x.rank < y.rank)
IdsOlder(p, q) ==
    \E n \in 1 .. Len(q) :
        /\ n > Len(p) \/ IdOlder(p[n], q[n])
        /\ \A k \in 1 .. n - 1 : k <= Len(p) /\ p[k] = q[k]
Older(v, w) ==
    LET x == CoreOf(v)  y == CoreOf(w)
    IN  \/ x[1] < y[1]
        \/ x[1] = y[1] /\ x[2] < y[2]
        \/ x[1] = y[1] /\ x[2] = y[2] /\ x[3] < y[3]
        \/ x = y /\ v.pre # None /\ (w.pre = None \/ IdsOlder(v.pre, w.pre))

\* No installation goes on with a bundle whose version is older than the one system.conf
\* asks for, or with another system's bundle, unless the caller said so or, for the latter,
\* the bundle brings its own check (install.c: check_version_limits, verify_compatible,
\* utils.c: r_semver_less_equal).
NeverOlder ==
    step \in {"plan", "handler", "mark", "prechecks", "write"} =>
        /\ "compatible" \notin ignore /\ ~bundle.manifest.installCheck =>
               bundle.manifest.compatible = conf.compatible
        /\ "version" \notin ignore /\ conf.minVersion # None =>
               /\ bundle.manifest.version # None /\ VersionParses(bundle.manifest.version)
               /\ ~Older(bundle.manifest.version, conf.minVersion)
=============================================================================
