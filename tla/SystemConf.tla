----------------------------- MODULE SystemConf -----------------------------
(***************************************************************************)
(* system.conf: which files load_config accepts (rauc/src/config_file.c),  *)
(* what slot.c and context.c derive from them, and the order of versions   *)
(* of utils.c.  Paths, descriptions and the keyring are left out; a key    *)
(* that is not given is None.                                              *)
(***************************************************************************)
EXTENDS Integers, FiniteSets, Sequences, Functions

CONSTANTS
    None,
    RealPath    \* what the links under /dev resolve to

----------------------------------------------------------------------------
(* Versions: a core of up to three numbers and, or None, the identifiers of *)
(* the pre-release, each a number or a name (its rank among the names).     *)

\* g_strsplit(..., 3): the core of a version that can be parsed.
VersionParses(v) == Len(v.core) \in 1 .. 3 /\ \A i \in 1 .. Len(v.core) : v.core[i] \in Nat
CoreOf(v) == [i \in 1 .. 3 |-> IF i <= Len(v.core) THEN v.core[i] ELSE 0]

Identifiers == [number : BOOLEAN, rank : Nat]
IsVersion(v) == v.pre # None => v.pre \in Seq(Identifiers)

\* Numbers come before names.
IdLess(x, y) == IF x.number = y.number THEN x.rank < y.rank ELSE x.number

\* mutant: where one list ends, the other's rest does not count
IdsLessEqualPrefix(p, q) ==
    \E n \in 0 .. Len(p) :
        /\ n <= Len(q) /\ \A i \in 1 .. n : p[i] = q[i]
        /\ n = Len(p) \/ n = Len(q) \/ IdLess(p[n + 1], q[n + 1])
IdsLessEqual(p, q) ==
    \E n \in 0 .. Len(p) :
        /\ n <= Len(q) /\ \A i \in 1 .. n : p[i] = q[i]
        /\ n = Len(p) \/ (n < Len(q) /\ IdLess(p[n + 1], q[n + 1]))

VersionLessEqual(a, b) ==
    LET x == CoreOf(a)  y == CoreOf(b)
    IN /\ VersionParses(a) /\ VersionParses(b)
       /\ \/ \E i \in 1 .. 3 : x[i] < y[i] /\ \A j \in 1 .. i - 1 : x[j] = y[j]
          \/ /\ x = y
             /\ b.pre = None \/ (a.pre # None /\ IdsLessEqual(a.pre, b.pre))

Zero == [core |-> <<0>>, pre |-> None]

----------------------------------------------------------------------------
(* The keys of [system] and [log.*].                                        *)

Loaders == {"barebox", "grub", "uboot", "efi", "custom", "noop"}

BootloaderHolds(c) ==
    /\ c.bootloader \in Loaders
    /\ c.bootloader = "custom" => c.customBackend
    /\ c.attempts >= 0 /\ c.attemptsPrimary >= 0
    /\ c.attempts + c.attemptsPrimary > 0 => c.bootloader \in {"uboot", "barebox"}

MinVersionHolds(c) == c.minVersion = None \/ VersionLessEqual(Zero, c.minVersion)
SizeHolds(c) == c.maxDownload # 0

\* At most one of variant-dtb, variant-file and variant-name.
VariantHolds(c) == Cardinality(c.variantKeys) <= 1

\* A data directory implies a central status file, and excludes one per slot.
StatusfileHolds(c) == ~(c.statusfile = "per-slot" /\ c.dataDirectory)

Formats == {"plain", "verity", "crypt"}
\* bundle-formats is a list of tokens, each with the sign "", "+" or "-".
FormatMask(tokens) ==
    LET fixed == {i \in 1 .. Len(tokens) : tokens[i].sign = ""}
        about(f) == {i \in 1 .. Len(tokens) : tokens[i].format = f}
    IN IF fixed # {} THEN {tokens[i].format : i \in fixed}
       ELSE {f \in Formats : \A i \in about(f) :
                 tokens[i].sign = "+" \/ \E j \in about(f) : j > i}
FormatsHold(c) ==
    LET tokens == c.formats
        signs == {tokens[i].sign : i \in 1 .. Len(tokens)}
    IN /\ \A i \in 1 .. Len(tokens) : tokens[i].format \in Formats
       /\ ~("" \in signs /\ signs # {""})
       /\ FormatMask(tokens) # {}

EventTypes == {"all", "boot", "mark", "install", "service", "writeslot"}
LoggersHold(c) ==
    \A l \in c.loggers :
        /\ l.relative => c.dataDirectory
        /\ l.events \subseteq EventTypes
        /\ "all" \in l.events => l.events = {"all"}
        /\ l.maxFiles \in 1 .. 1000

----------------------------------------------------------------------------
(* Slots and artifact repositories.                                         *)

SlotTypes == {"raw", "ext4", "ubifs", "ubivol", "nand", "nor", "vfat", "boot-emmc",
              "boot-mbr-switch", "boot-gpt-switch", "boot-raw-fallback"}
RegionTypes == {"boot-mbr-switch", "boot-gpt-switch", "boot-raw-fallback"}

NameHolds(c, s) ==
    \A t \in DOMAIN c.slots \ {s} :
        c.slots[s].bootname = None \/ c.slots[t].bootname # c.slots[s].bootname
RegionHolds(slot) == slot.type \in RegionTypes => slot.region
ParentHolds(c, slot) ==
    slot.parent # None => slot.parent \in DOMAIN c.slots /\ slot.bootname = None
SlotsHold(c) ==
    \A s \in DOMAIN c.slots :
        /\ c.slots[s].type \in SlotTypes /\ NameHolds(c, s)
        /\ RegionHolds(c.slots[s]) /\ ParentHolds(c, c.slots[s])

RepoTypes == {"files", "trees"}
ReposHold(c) ==
    \A r \in DOMAIN c.repos : c.repos[r].type \in RepoTypes /\ ~c.repos[r].parentClass
\* The name of a repository is no slot class.
ClassesAny(c) == TRUE  \* mutant: not checked
ClassesUnique(c) == \A s \in DOMAIN c.slots : c.slots[s].class \notin DOMAIN c.repos

Loads(c) ==
    /\ MinVersionHolds(c) /\ BootloaderHolds(c) /\ SizeHolds(c) /\ VariantHolds(c)
    /\ StatusfileHolds(c) /\ FormatsHold(c) /\ LoggersHold(c)
    /\ SlotsHold(c)

\* r is the slot at the top of the links above s: it is in every set that holds s and,
\* with a slot, its parent.
IsTopOf(parent, r, s) ==
    /\ parent[r] = None
    /\ \A C \in SUBSET DOMAIN parent :
           s \in C /\ (\A x \in C : parent[x] # None => parent[x] \in C) => r \in C

\* The classes of slots without a parent.
RootClasses(c, parent) == {c.slots[s].class : s \in {x \in DOMAIN c.slots : parent[x] = None}}

----------------------------------------------------------------------------
(* The slot that was booted, according to the kernel command line: a list   *)
(* of parameters [key, value], searched for a substring.                    *)

Resolved(path) == IF path \in DOMAIN RealPath THEN RealPath[path] ELSE path

\* The value of the first parameter with one of these keys.
FirstOf(cmdline, keys) ==
    LET at == {i \in 1 .. Len(cmdline) : cmdline[i].key \in keys}
    IN IF at = {} THEN None
       ELSE cmdline[CHOOSE i \in at : \A j \in at : i <= j].value

\* "root=" is found at the end of a longer key, too.
RootKeys == {"root", "nfsroot"}
ActiveKeys == {"bootstate.active", "bootchooser.active"}

BootSlot(c, cmdline) ==
    LET external == FirstOf(cmdline, {"rauc.external"})
        slot == FirstOf(cmdline, {"rauc.slot"})
        active == IF c.bootloader = "barebox" THEN FirstOf(cmdline, ActiveKeys) ELSE None
        root == FirstOf(cmdline, RootKeys)
        verity == FirstOf(cmdline, {"systemd.verity_root_data"})
    IN CASE external # None -> "_external_"
         [] external = None /\ slot # None -> slot
         [] external = None /\ slot = None /\ active # None -> active
         [] external = None /\ slot = None /\ active = None ->
                IF root # None THEN Resolved(root)
                ELSE IF verity # None THEN Resolved(verity) ELSE None

\* The slots that determine_slot_states may take for the booted one.
MatchingSlots(c, name) ==
    {s \in DOMAIN c.slots :
        name \in {c.slots[s].bootname, s, Resolved(c.slots[s].device)} \ {None}}
=============================================================================
