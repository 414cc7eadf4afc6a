------------------------- MODULE InstallPlan_proofs -------------------------
(***************************************************************************)
(* Proofs about InstallPlan, for any configurations, command lines and     *)
(* bundles: an installation writes no slot that is in use, gives each slot *)
(* an image that is meant for it, accepts what "rauc bundle" makes, and    *)
(* refuses versions that are too old.                                      *)
(*                                                                         *)
(* The first rests on the flat links that fix_grandparent_links leaves:    *)
(* the top of a slot is the slot itself or its parent, so that a group is  *)
(* in use exactly if its top is.                                           *)
(***************************************************************************)
EXTENDS InstallPlan, TLAPS, WellFoundedInduction

----------------------------------------------------------------------------
(* The first of some numbers, and the rows of updatepairs.                  *)

LEMMA Smallest ==
    ASSUME NEW S \in SUBSET Nat, S # {}
    PROVE  LET m == CHOOSE n \in S : \A o \in S : n <= o
           IN  m \in S /\ \A o \in S : m <= o
<1>1. PICK x \in S : \A y \in S : ~(<<y, x>> \in OpToRel(<, Nat))
  BY NatLessThanWellFounded, WFMin
<1>2. \A y \in S : ~(y < x)
  BY <1>1 DEF OpToRel
<1>3. \A o \in S : x <= o
  BY <1>2
<1> QED
  BY <1>3

\* A raw copy is only ever chosen for the types without a handler of their own.
LEMMA RawPairs ==
    ASSUME NEW name, NEW type \in RegionTypes \cup {"boot-emmc"}
    PROVE  FirstPair(name, type) # "img_to_raw"
<1> DEFINE at == {k \in 1 .. Len(UpdatePairs) :
                    Matches(UpdatePairs[k].src, name) /\ Matches(UpdatePairs[k].dest, type)}
           first == CHOOSE k \in at : \A j \in at : k <= j
<1>1. Len(UpdatePairs) = 24
  BY DEF UpdatePairs
<1>2. \A k \in 1 .. 24 : UpdatePairs[k].handler = "img_to_raw" => k \in {2, 7, 24}
  BY DEF UpdatePairs, Pair
<1>3. /\ UpdatePairs[2].dest = {"raw"} /\ UpdatePairs[7].dest = {"raw"}
      /\ UpdatePairs[17] = Pair(Every, {"boot-emmc"}, "none")
      /\ UpdatePairs[19] = Pair(Every, {"boot-mbr-switch"}, "none")
      /\ UpdatePairs[21] = Pair(Every, {"boot-gpt-switch"}, "none")
      /\ UpdatePairs[23] = Pair(Every, {"boot-raw-fallback"}, "none")
  BY DEF UpdatePairs, Pair
<1>4. \E k \in at : k <= 23
  BY <1>1, <1>3 DEF RegionTypes, Matches, Pair, Every
<1>5. 2 \notin at /\ 7 \notin at
  BY <1>3 DEF RegionTypes, Matches
<1>6. at \in SUBSET (1 .. 24) /\ at \in SUBSET Nat
  BY <1>1
<1>7. FirstPair(name, type) = IF at = {} THEN "none" ELSE UpdatePairs[first].handler
  BY DEF FirstPair
<1> HIDE DEF at
<1>8. first \in at /\ \A j \in at : first <= j
  BY <1>4, <1>6, Smallest
<1> HIDE DEF first
<1>9. first \in 1 .. 23 /\ first \notin {2, 7}
  BY <1>4, <1>5, <1>6, <1>8
<1> QED
  BY <1>2, <1>4, <1>7, <1>9

\* What ImageFor returns is an image of the class, of the variant if there is one.
LEMMA ImageForFacts ==
    ASSUME NEW im, NEW variant, NEW k, ImageFor(im, variant, k) # None
    PROVE  \E n \in 1 .. Len(im) :
               /\ ImageFor(im, variant, k) = im[n] /\ im[n].class = k
               /\ im[n].variant \in {None, variant}
               /\ (\E o \in 1 .. Len(im) : im[o].class = k /\ im[o].variant # None
                                             /\ im[o].variant = variant)
                    => im[n].variant = variant
<1> DEFINE ours == {n \in 1 .. Len(im) : im[n].class = k /\ im[n].variant # None
                                          /\ im[n].variant = variant}
           plain == {n \in 1 .. Len(im) : im[n].class = k /\ im[n].variant = None}
           First(at) == CHOOSE n \in at : \A o \in at : n <= o
<1>1. ours \in SUBSET Nat /\ plain \in SUBSET Nat
  OBVIOUS
<1>2. ImageFor(im, variant, k) = IF ours # {} THEN im[First(ours)]
                                 ELSE IF plain # {} THEN im[First(plain)] ELSE None
  BY DEF ImageFor
<1>3. ours # {} => First(ours) \in ours
  <2> HIDE DEF ours
  <2> QED
    BY <1>1, Smallest
<1>4. plain # {} => First(plain) \in plain
  <2> HIDE DEF plain
  <2> QED
    BY <1>1, Smallest
<1> HIDE DEF First
<1>5. CASE ours # {}
  BY <1>2, <1>3, <1>5
<1>6. CASE ours = {}
  <2>1. First(plain) \in plain /\ ImageFor(im, variant, k) = im[First(plain)]
    BY <1>2, <1>4, <1>6
  <2> QED
    BY <1>6, <2>1
<1> QED
  BY <1>5, <1>6

----------------------------------------------------------------------------
(* The invariant.                                                           *)

Loaded == step \notin {"load", "stopped"}
Ready == step \notin {"load", "link", "stopped"}
Planning == {"check", "plan", "handler", "mark", "prechecks", "write"}
Planned == {"mark", "prechecks", "write"}

\* Where the loading stands.
ConfInv ==
    /\ Loaded => SlotsHold(conf)
    /\ Ready => ClassesUnique(conf) /\ unlinked = {}

\* The links of the slots that fix_grandparent_links has come to are flat.
Flat(s) == parent[s] = None \/ (parent[s] \in Slots /\ parent[parent[s]] = None)
LinksInv == Loaded => \A s \in Slots \ unlinked : Flat(s)

\* The slot at the top of a slot's group.
Top(s) == IF parent[s] = None THEN s ELSE parent[s]

\* No slot of the target group is below the booted one, and one class has one top.
GroupInv ==
    step \in Planning =>
        /\ \A k \in DOMAIN group : Top(group[k]) # booted
        /\ \A k, l \in DOMAIN group :
              conf.slots[Top(group[k])].class = conf.slots[Top(group[l])].class
                  => Top(group[k]) = Top(group[l])

\* The bundle was let in by the checks that come before the plans.
AllowedInv ==
    step \in Planning \ {"check"} =>
        (bundle.manifest.installCheck \/ CompatibleHolds) /\ VersionHolds

\* The plans are those of the bundle.
PlansInv ==
    step \in Planned =>
        /\ plans \subseteq {SlotPlan(k) : k \in SlotClasses} \cup {RepoPlan(i) : i \in Artifacts}
        /\ \A k \in SlotClasses : SlotPlanHolds(k)
        /\ \A i \in Artifacts : i.class \in DOMAIN conf.repos
CheckedInv == step = "write" => \A p \in plans : ~MountRefused(p)

\* What is mounted is found by its name.
FoundInv == \A s \in inuse : NameIsDevice(s) => s \in ext

IInv == TypeOK /\ ConfInv /\ LinksInv /\ GroupInv /\ AllowedInv /\ PlansInv /\ CheckedInv /\ FoundInv

----------------------------------------------------------------------------
(* Tops.                                                                    *)

\* Once the links are flat, the slot at the top of a group is the slot itself or its parent.
LEMMA TopFacts ==
    ASSUME TypeOK, ConfInv, LinksInv, Ready, NEW s \in Slots
    PROVE  /\ Top(s) \in Slots /\ parent[Top(s)] = None
           /\ \A r : IsTopOf(parent, r, s) <=> r = Top(s)
<1>1. Flat(s) /\ parent \in [Slots -> Slots \cup {None}]
  BY DEF TypeOK, ConfInv, LinksInv, Ready, Loaded
<1>2. Top(s) \in Slots /\ parent[Top(s)] = None
  BY <1>1 DEF Top, Flat
<1>3. ASSUME NEW r, IsTopOf(parent, r, s) PROVE r = Top(s)
  <2> DEFINE C == {s, Top(s)}
  <2>1. C \in SUBSET DOMAIN parent
    BY <1>1, <1>2
  <2>2. s \in C /\ \A x \in C : parent[x] # None => parent[x] \in C
    BY <1>2 DEF Top
  <2>3. r \in C /\ parent[r] = None
    BY <1>3, <2>1, <2>2 DEF IsTopOf
  <2> QED
    BY <2>3 DEF Top
<1>4. IsTopOf(parent, Top(s), s)
  BY <1>1, <1>2 DEF IsTopOf, Top
<1> QED
  BY <1>2, <1>3, <1>4

LEMMA FoundStays ==
    ASSUME FoundInv, UNCHANGED <<conf, ext, inuse>>
    PROVE  FoundInv'
  BY DEF FoundInv, NameIsDevice, Slots

----------------------------------------------------------------------------
(* The start of the service.                                                *)

LEMMA LoadKeeps ==
    ASSUME IInv, Load
    PROVE  IInv'
<1> USE DEF IInv
<1>1. conf' = conf /\ step' \in {"link", "stopped"} /\ step = "load"
  BY DEF Load
<1>2. parent' \in [Slots -> Slots \cup {None}] /\ (step' = "link" => SlotsHold(conf))
  <2>1. CASE Loads(conf)
    <3>1. SlotsHold(conf)
      BY <2>1 DEF Loads
    <3>2. \A s \in Slots : conf.slots[s].parent \in Slots \cup {None}
      BY <3>1 DEF SlotsHold, ParentHolds, Slots
    <3> QED
      BY <2>1, <3>1, <3>2 DEF Load
  <2>2. CASE ~Loads(conf)
    BY <2>2 DEF Load, TypeOK
  <2> QED
    BY <2>1, <2>2
<1>3. TypeOK'
  <2>1. unlinked' \subseteq Slots
    BY DEF Load, TypeOK
  <2> QED
    BY <1>1, <1>2, <2>1 DEF Load, TypeOK, Steps, Slots
<1>4. ConfInv' /\ LinksInv'
  BY <1>1, <1>2 DEF Load, ConfInv, LinksInv, Loaded, Ready, Slots
<1>5. step' \notin Planning
  BY <1>1 DEF Planning
<1>f. FoundInv'
  BY FoundStays DEF Load
<1> QED
  BY <1>f, <1>3, <1>4, <1>5 DEF GroupInv, AllowedInv, PlansInv, CheckedInv, Planning, Planned

LEMMA LinkToRootKeeps ==
    ASSUME IInv, NEW s \in Slots, LinkToRoot(s)
    PROVE  IInv'
<1> USE DEF IInv
<1>1. /\ conf' = conf /\ step = "link" /\ step' \in {"link", "stopped"} /\ s \in unlinked
      /\ unlinked' = unlinked \ {s} /\ parent \in [Slots -> Slots \cup {None}]
  BY DEF LinkToRoot, TypeOK
<1>2. /\ parent' \in [Slots -> Slots \cup {None}]
      /\ \A t \in Slots \ {s} : parent'[t] = parent[t]
      /\ parent[s] = None => parent' = parent
  BY <1>1 DEF LinkToRoot
<1>3. TypeOK'
  BY <1>1, <1>2 DEF LinkToRoot, TypeOK, Steps, Slots
<1>4. ASSUME step' = "link", NEW t \in Slots \ unlinked' PROVE Flat(t)'
  <2>1. CASE t # s
    <3>1. Flat(t)
      BY <1>1, <2>1, <1>4 DEF LinksInv, Loaded
    <3>2. parent[t] = None \/ parent[t] # s \/ parent[s] = None
      BY <3>1 DEF Flat
    <3> QED
      BY <1>1, <1>2, <2>1, <3>1, <3>2 DEF Flat, Slots
  <2>2. CASE t = s /\ parent[s] = None
    BY <1>2, <2>2 DEF Flat
  <2>3. CASE t = s /\ parent[s] # None
    <3>1. PICK r \in Slots : parent[r] = None /\ parent' = [parent EXCEPT ![s] = r]
      BY <1>1, <1>4, <2>3 DEF LinkToRoot, IsTopOf
    <3>2. r # s /\ parent'[s] = r /\ parent'[r] = None
      BY <1>1, <2>3, <3>1
    <3> QED
      BY <1>1, <2>3, <3>1, <3>2 DEF Flat, Slots
  <2> QED
    BY <2>1, <2>2, <2>3
<1>5. ConfInv' /\ LinksInv'
  <2>1. ConfInv'
    BY <1>1 DEF ConfInv, Loaded, Ready
  <2>2. LinksInv'
    BY <1>1, <1>4 DEF LinksInv, Loaded, Flat, Slots
  <2> QED
    BY <2>1, <2>2
<1>6. step' \notin Planning
  BY <1>1 DEF Planning
<1>f. FoundInv'
  BY FoundStays DEF LinkToRoot
<1> QED
  BY <1>f, <1>3, <1>5, <1>6 DEF GroupInv, AllowedInv, PlansInv, CheckedInv, Planning, Planned

LEMMA LoadReposKeeps ==
    ASSUME IInv, LoadRepos
    PROVE  IInv'
<1> USE DEF IInv
<1>1. /\ step = "link" /\ step' \in {"states", "stopped"} /\ unlinked = {}
      /\ step' = "states" => ClassesUnique(conf)
      /\ UNCHANGED <<conf, parent, unlinked, cmdline, booted, mounts, ext, inuse, bundle, ignore, group, plans>>
  BY DEF LoadRepos, service
<1>2. TypeOK'
  BY <1>1 DEF TypeOK, Steps, Slots
<1>3. ConfInv' /\ LinksInv'
  BY <1>1 DEF ConfInv, LinksInv, Loaded, Ready, Flat, Slots
<1>f. FoundInv'
  BY <1>1, FoundStays
<1> QED
  BY <1>1, <1>f, <1>2, <1>3 DEF GroupInv, AllowedInv, PlansInv, CheckedInv, Planning, Planned

LEMMA DetermineSlotStatesKeeps ==
    ASSUME IInv, DetermineSlotStates
    PROVE  IInv'
<1> USE DEF IInv
<1>1. /\ step = "states" /\ step' \in {"idle", "stopped"}
      /\ booted' \in Slots \cup {None}
      /\ UNCHANGED <<conf, parent, unlinked, cmdline, mounts, ext, inuse, bundle, ignore, group, plans>>
  BY DEF DetermineSlotStates, MatchingSlots, Slots, TypeOK
<1>2. TypeOK'
  BY <1>1 DEF TypeOK, Steps, Slots
<1>3. ConfInv' /\ LinksInv'
  BY <1>1 DEF ConfInv, LinksInv, Loaded, Ready, Flat, Slots
<1>f. FoundInv'
  BY <1>1, FoundStays
<1> QED
  BY <1>1, <1>f, <1>2, <1>3 DEF GroupInv, AllowedInv, PlansInv, CheckedInv, Planning, Planned

LEMMA RebootKeeps ==
    ASSUME IInv, NEW line \in CmdLines, Reboot(line)
    PROVE  IInv'
<1> USE DEF IInv
<1>1. step' = "load"
  BY DEF Reboot
<1>2. TypeOK'
  <2>1. /\ conf' = conf /\ cmdline' \in CmdLines /\ booted' = None /\ unlinked' = {}
        /\ parent' = [t \in Slots |-> None]
        /\ mounts' = {} /\ ext' = {} /\ inuse' = {} /\ ignore' = {} /\ group' = <<>> /\ plans' = {}
    BY DEF Reboot
  <2>2. DOMAIN group' = {}
    BY <2>1
  <2> QED
    BY <1>1, <2>1, <2>2 DEF TypeOK, Steps, Slots
<1>f. FoundInv'
  BY DEF Reboot, FoundInv
<1> QED
  BY <1>1, <1>f, <1>2 DEF ConfInv, LinksInv, Loaded, Ready, GroupInv, AllowedInv, PlansInv, CheckedInv,
                    Planning, Planned

----------------------------------------------------------------------------
(* An installation.                                                         *)

LEMMA BeginKeeps ==
    ASSUME IInv, NEW b, NEW i \in SUBSET Ignorable, Begin(b, i)
    PROVE  IInv'
<1> USE DEF IInv
<1>1. /\ step = "idle" /\ step' \in {"group", "idle"}
      /\ UNCHANGED <<conf, parent, unlinked, cmdline, booted, mounts>>
      /\ inuse' = InUse /\ ignore' = i /\ group' = <<>> /\ plans' = {}
      /\ ext' \in SUBSET Slots /\ inuse' \in SUBSET Slots
  BY DEF Begin, service, InUse, MountedSlots
<1>2. TypeOK'
  <2>1. DOMAIN group' = {}
    BY <1>1
  <2> QED
    BY <1>1, <2>1 DEF TypeOK, Steps, Slots
<1>3. ConfInv' /\ LinksInv'
  BY <1>1 DEF ConfInv, LinksInv, Loaded, Ready, Flat, Slots
<1>4. FoundInv'
  <2>1. FoundMounted(ext')
    BY DEF Begin
  <2>2. ASSUME NEW s \in InUse, NameIsDevice(s) PROVE s \in ext'
    <3>1. s \in Slots /\ conf.slots[s].device \in mounts
      BY <2>2 DEF InUse, NameIsDevice
    <3>2. PICK t \in ext' : conf.slots[t].device = conf.slots[s].device
      BY <2>1, <3>1 DEF FoundMounted, MountedSlots
    <3> QED
      BY <1>1, <2>2, <3>2 DEF NameIsDevice
  <2> QED
    BY <1>1, <2>2 DEF FoundInv, NameIsDevice, Slots
<1> QED
  BY <1>1, <1>2, <1>3, <1>4 DEF GroupInv, AllowedInv, PlansInv, CheckedInv, Planning, Planned

LEMMA DetermineTargetGroupKeeps ==
    ASSUME IInv, DetermineTargetGroup
    PROVE  IInv'
<1> USE DEF IInv
<1>1. /\ step = "group" /\ step' = "check"
      /\ UNCHANGED <<conf, parent, unlinked, cmdline, booted, mounts, ext, inuse, bundle, ignore, plans>>
  BY DEF DetermineTargetGroup, service
<1>2. PICK f \in Selections : \E g \in Groups(Below({f[k] : k \in DOMAIN f})) : group' = g
  BY DEF DetermineTargetGroup
<1>3. \A k \in DOMAIN f : f[k] # None =>
          f[k] \in Slots /\ conf.slots[f[k]].class = k /\ f[k] # booted
  <2> SUFFICES ASSUME NEW k \in DOMAIN f, f[k] # None
               PROVE  f[k] \in Slots /\ conf.slots[f[k]].class = k /\ StateOf(f[k]) = "inactive"
    BY DEF StateOf
  <2> DEFINE candidates == {s \in Slots : conf.slots[s].class = k /\ StateOf(s) = "inactive"}
  <2>1. IF candidates = {} THEN f[k] = None ELSE f[k] \in candidates
    BY <1>2 DEF Selections
  <2> QED
    BY <2>1
<1> DEFINE members == Below({f[k] : k \in DOMAIN f})
<1>4. \A s \in members : s \in Slots /\ \E k \in DOMAIN f : f[k] # None /\ Top(s) = f[k]
  <2> SUFFICES ASSUME NEW s \in members
               PROVE  s \in Slots /\ \E k \in DOMAIN f : f[k] # None /\ Top(s) = f[k]
    OBVIOUS
  <2>1. PICK r \in {f[k] : k \in DOMAIN f} : s \in Slots /\ r # None /\ IsTopOf(parent, r, s)
    BY DEF Below
  <2>2. r = Top(s)
    BY <1>1, <2>1, TopFacts DEF Ready
  <2> QED
    BY <2>1, <2>2
<1>5. /\ group' \in [{conf.slots[s].class : s \in members} -> members]
      /\ \A k \in DOMAIN group' : conf.slots[group'[k]].class = k
  BY <1>2 DEF Groups
<1> HIDE DEF members
<1>6. TypeOK'
  <2>1. /\ DOMAIN group' \subseteq {conf.slots[s].class : s \in Slots}
        /\ \A k \in DOMAIN group' : group'[k] \in Slots /\ conf.slots[group'[k]].class = k
    BY <1>4, <1>5
  <2> QED
    BY <1>1, <2>1 DEF TypeOK, Steps, Slots
<1>7. ConfInv' /\ LinksInv'
  BY <1>1 DEF ConfInv, LinksInv, Loaded, Ready, Flat, Slots
<1>8. GroupInv'
  <2>1. \A k \in DOMAIN group' : \E c \in DOMAIN f :
            /\ Top(group'[k]) = f[c] /\ f[c] # booted
            /\ conf.slots[f[c]].class = c
    BY <1>3, <1>4, <1>5
  <2>2. \A k \in DOMAIN group' : Top(group'[k]) # booted
    BY <2>1
  <2>3. \A k, l \in DOMAIN group' :
            conf.slots[Top(group'[k])].class = conf.slots[Top(group'[l])].class
                => Top(group'[k]) = Top(group'[l])
    BY <2>1
  <2> QED
    BY <1>1, <2>2, <2>3 DEF GroupInv, Top
<1>f. FoundInv'
  BY <1>1, FoundStays
<1> QED
  BY <1>1, <1>f, <1>6, <1>7, <1>8 DEF AllowedInv, PlansInv, CheckedInv, Planning, Planned

LEMMA MakePlansKeeps ==
    ASSUME IInv, MakePlans
    PROVE  IInv'
<1> USE DEF IInv
<1>1. /\ step = "plan" /\ step' \in {"mark", "idle"}
      /\ UNCHANGED <<conf, parent, unlinked, cmdline, booted, mounts, ext, inuse, bundle, ignore, group>>
  BY DEF MakePlans, service
<1>f. FoundInv'
  BY <1>1, FoundStays
<1>2. CASE step' = "idle"
  <2>1. plans' = plans
    BY <1>2 DEF MakePlans
  <2> QED
    BY <1>1, <1>2, <1>f, <2>1 DEF TypeOK, Steps, Slots, ConfInv, LinksInv, Loaded, Ready, Flat, GroupInv, AllowedInv,
                            PlansInv, CheckedInv, Planning, Planned
<1>3. CASE step' = "mark"
  <2>1. /\ \A k \in SlotClasses : SlotPlanHolds(k)
        /\ \A i \in Artifacts : i.class \in DOMAIN conf.repos
        /\ plans' = {SlotPlan(k) : k \in SlotClasses} \cup {RepoPlan(i) : i \in Artifacts}
    BY <1>3 DEF MakePlans
  <2>2. \A p \in plans' : p.slot \in Slots \cup {None}
    <3>1. \A k \in SlotClasses : SlotPlan(k).slot \in Slots
      BY <2>1 DEF SlotPlanHolds, SlotPlan, TypeOK
    <3>2. \A i \in Artifacts : RepoPlan(i).slot = None
      BY DEF RepoPlan
    <3> QED
      BY <2>1, <3>1, <3>2
  <2>3. TypeOK'
    BY <1>1, <1>3, <2>2 DEF TypeOK, Steps, Slots
  <2>4. ConfInv' /\ LinksInv'
    BY <1>1 DEF ConfInv, LinksInv, Loaded, Ready, Flat, Slots
  <2>5. GroupInv'
    BY <1>1, <1>3 DEF GroupInv, Top, Planning
  <2>6. AllowedInv'
    BY <1>1, <1>3 DEF AllowedInv, CompatibleHolds, VersionHolds, Planning
  <2>7. PlansInv'
    BY <1>1, <1>3, <2>1 DEF PlansInv, Planned, SlotPlan, SlotPlanHolds, SlotClasses, MatchingImage,
                            Artifacts, Images, RepoPlan
  <2> QED
    BY <1>3, <1>f, <2>3, <2>4, <2>5, <2>6, <2>7 DEF CheckedInv
<1> QED
  BY <1>2, <1>3, <1>1

\* Where an installation only goes on, or only the world around it changes.
LEMMA GoesOn ==
    ASSUME IInv, UNCHANGED <<service, ext, inuse, bundle, ignore, group, plans>>,
           mounts' \subseteq Devices, step' \in Steps,
           step' = step \/ (Ready /\ step' \in {"idle", "plan", "handler", "prechecks", "write", "aborted", "crashed"}),
           step' \in {"plan", "handler"} => 
               step' = step \/ (/\ step = "check" /\ VersionHolds
                                /\ bundle.manifest.installCheck \/ CompatibleHolds),
           step' = "prechecks" => step \in {"mark", "prechecks"},
           step' = "write" => step = "write" \/ (step = "prechecks" /\ \A p \in plans : ~MountRefused(p))
    PROVE  IInv'
<1> USE DEF IInv
<1>1. /\ UNCHANGED <<conf, parent, unlinked, cmdline, booted, ext, inuse, bundle, ignore, group, plans>>
  BY DEF service
<1>2. TypeOK'
  BY <1>1 DEF TypeOK, Slots
<1>3. ConfInv' /\ LinksInv'
  BY <1>1 DEF ConfInv, LinksInv, Loaded, Ready, Flat, Slots
<1>4. GroupInv'
  BY <1>1 DEF GroupInv, Top, Planning
<1>5. AllowedInv'
  BY <1>1 DEF AllowedInv, CompatibleHolds, VersionHolds, Planning
<1>6. PlansInv'
  BY <1>1 DEF PlansInv, Planned, SlotPlan, SlotPlanHolds, SlotClasses, MatchingImage,
              Artifacts, Images, RepoPlan
<1>7. CheckedInv'
  BY <1>1 DEF CheckedInv, MountRefused
<1>f. FoundInv'
  BY <1>1, FoundStays
<1> QED
  BY <1>f, <1>2, <1>3, <1>4, <1>5, <1>6, <1>7

LEMMA CheckBundleKeeps ==
    ASSUME IInv, CheckBundle
    PROVE  IInv'
<1>1. /\ step = "check" /\ step' \in {"plan", "handler", "idle"}
      /\ UNCHANGED <<service, mounts, ext, inuse, bundle, ignore, group, plans>>
      /\ step' # "idle" => (bundle.manifest.installCheck \/ CompatibleHolds) /\ VersionHolds
  BY DEF CheckBundle, GoesTo
<1> QED
  BY <1>1, GoesOn DEF Steps, Ready, IInv, TypeOK

LEMMA OnwardKeeps ==
    ASSUME IInv, Fails \/ CustomHandler \/ GetBootMarkSlot \/ Write
    PROVE  IInv'
<1>1. /\ UNCHANGED <<service, mounts, ext, inuse, bundle, ignore, group, plans>>
      /\ \/ step \in {"check", "plan", "prechecks", "handler", "write"} /\ step' = "idle"
         \/ step = "mark" /\ step' \in {"aborted", "prechecks"}
  BY DEF Fails, CustomHandler, GetBootMarkSlot, Write, GoesTo
<1> QED
  BY <1>1, GoesOn DEF Steps, Ready, IInv, TypeOK

LEMMA PreInstallChecksKeeps ==
    ASSUME IInv, PreInstallChecks
    PROVE  IInv'
<1>1. /\ UNCHANGED <<service, mounts, ext, inuse, bundle, ignore, group, plans>>
      /\ step = "prechecks" /\ step' \in {"crashed", "idle", "write"}
      /\ step' = "write" => \A p \in plans : ~MountRefused(p)
  BY DEF PreInstallChecks, GoesTo
<1> QED
  BY <1>1, GoesOn DEF Steps, Ready, IInv, TypeOK

LEMMA MountsKeep ==
    ASSUME IInv, NEW d \in Devices, Mount(d) \/ Unmount(d)
    PROVE  IInv'
<1>1. /\ UNCHANGED <<service, step, ext, inuse, bundle, ignore, group, plans>>
      /\ mounts' \subseteq Devices
  BY DEF Mount, Unmount, IInv, TypeOK
<1> QED
  BY <1>1, GoesOn DEF IInv, TypeOK

LEMMA UnchangedKeeps == IInv /\ UNCHANGED vars => IInv'
<1> SUFFICES ASSUME IInv, UNCHANGED vars PROVE IInv'
  OBVIOUS
<1>1. UNCHANGED <<service, mounts, step, ext, inuse, bundle, ignore, group, plans>>
  BY DEF vars, service
<1> QED
  BY <1>1, GoesOn DEF IInv, TypeOK

----------------------------------------------------------------------------
(* The behaviours.                                                          *)

LEMMA InitHolds == Init => IInv
<1> SUFFICES ASSUME Init PROVE IInv
  OBVIOUS
<1>1. TypeOK
  <2>1. DOMAIN group = {}
    BY DEF Init
  <2> QED
    BY <2>1 DEF Init, TypeOK, Steps
<1> QED
  BY <1>1 DEF Init, IInv, FoundInv, ConfInv, LinksInv, Loaded, Ready, GroupInv, AllowedInv, PlansInv,
              CheckedInv, Planning, Planned

LEMMA NextHolds == IInv /\ [Next]_vars => IInv'
<1> SUFFICES ASSUME IInv, [Next]_vars PROVE IInv'
  OBVIOUS
<1>1. CASE Load \/ LoadRepos \/ DetermineSlotStates
  BY <1>1, LoadKeeps, LoadReposKeeps, DetermineSlotStatesKeeps
<1>2. ASSUME NEW s \in Slots, LinkToRoot(s) PROVE IInv'
  BY <1>2, LinkToRootKeeps
<1>3. ASSUME NEW b \in Bundles, NEW i \in SUBSET Ignorable, Begin(b, i) PROVE IInv'
  BY <1>3, BeginKeeps
<1>4. CASE DetermineTargetGroup \/ CheckBundle \/ MakePlans
  BY <1>4, DetermineTargetGroupKeeps, CheckBundleKeeps, MakePlansKeeps
<1>5. CASE Fails \/ CustomHandler \/ GetBootMarkSlot \/ Write
  BY <1>5, OnwardKeeps
<1>6. CASE PreInstallChecks
  BY <1>6, PreInstallChecksKeeps
<1>7. ASSUME NEW d \in Devices, Mount(d) \/ Unmount(d) PROVE IInv'
  BY <1>7, MountsKeep
<1>8. ASSUME NEW line \in CmdLines, Reboot(line) PROVE IInv'
  BY <1>8, RebootKeeps
<1>9. CASE UNCHANGED vars
  BY <1>9, UnchangedKeeps
<1> QED
  BY <1>1, <1>2, <1>3, <1>4, <1>5, <1>6, <1>7, <1>8, <1>9 DEF Next

\* The whole invariant, in every reachable state.
THEOREM PlanInvariant == Spec => []IInv
  BY InitHolds, NextHolds, PTL DEF Spec

\* Every variable stays in its set; of each class the target group holds a slot of it.
THEOREM PlanTypes == Spec => []TypeOK
<1>1. IInv => TypeOK
  BY DEF IInv
<1> QED
  BY <1>1, PlanInvariant, PTL

\* A plan for a slot is the one of its class.
LEMMA PlanOf ==
    ASSUME IInv, step = "write", NEW p \in plans, p.slot # None
    PROVE  \E k \in SlotClasses :
               /\ p = SlotPlan(k) /\ SlotPlanHolds(k) /\ k \in DOMAIN group
               /\ p.slot = group[k] /\ p.slot \in Slots /\ conf.slots[p.slot].class = k
<1>1. p \in {SlotPlan(k) : k \in SlotClasses} \cup {RepoPlan(i) : i \in Artifacts}
  BY DEF IInv, PlansInv, Planned
<1>2. \A i : RepoPlan(i).slot = None
  BY DEF RepoPlan
<1>3. PICK k \in SlotClasses : p = SlotPlan(k)
  BY <1>1, <1>2
<1>4. SlotPlanHolds(k)
  BY DEF IInv, PlansInv, Planned
<1> QED
  BY <1>3, <1>4 DEF SlotPlanHolds, SlotPlan, IInv, TypeOK

\* update_external_mount_points, determine_slot_states, determine_target_install_group,
\* r_install_make_plans and pre_install_checks: no slot of the booted group, no read-only and
\* no mounted slot is written, and only one group of each class of groups, for any
\* configuration and bundle; but for a system booted from a child slot, and for a mounted
\* slot whose device has another name in system.conf or is another slot's, too.
THEOREM TargetsAreIdle == Spec => []TargetsIdle
<1>1. ASSUME IInv PROVE TargetsIdle
  <2> SUFFICES ASSUME step = "write"
               PROVE  /\ \A p \in plans : p.slot # None =>
                            /\ booted # None => TopsOf(p.slot) \cap TopsOf(booted) = {} \/ BootedChild
                            /\ ~conf.slots[p.slot].readonly
                            /\ p.slot \in inuse =>
                                  \/ conf.slots[p.slot].allowMounted /\ "install" \in p.image.hooks
                                  \/ ~NameIsDevice(p.slot)
                      /\ \A p, q \in {x \in plans : x.slot # None} :
                            \A r \in TopsOf(p.slot), t \in TopsOf(q.slot) :
                                conf.slots[r].class = conf.slots[t].class => r = t
    BY DEF TargetsIdle
  <2>1. ASSUME NEW p \in plans, p.slot # None
        PROVE  /\ booted # None => TopsOf(p.slot) \cap TopsOf(booted) = {} \/ BootedChild
               /\ ~conf.slots[p.slot].readonly
               /\ p.slot \in inuse =>
                     \/ conf.slots[p.slot].allowMounted /\ "install" \in p.image.hooks
                     \/ ~NameIsDevice(p.slot)
    <3>1. PICK k \in SlotClasses : /\ SlotPlanHolds(k) /\ k \in DOMAIN group
                                   /\ p.slot = group[k] /\ p.slot \in Slots
      BY <1>1, <2>1, PlanOf
    <3>2. Top(p.slot) # booted
      BY <1>1, <3>1 DEF IInv, GroupInv, Planning
    <3>3. ASSUME booted # None, ~BootedChild PROVE TopsOf(p.slot) \cap TopsOf(booted) = {}
      <4>1. TypeOK /\ ConfInv /\ LinksInv /\ Ready /\ booted \in Slots
        BY <1>1, <3>3 DEF IInv, Ready, TypeOK
      <4>2. Top(booted) = booted
        BY <3>3 DEF Top, BootedChild
      <4> QED
        BY <3>1, <3>2, <4>1, <4>2, TopFacts DEF TopsOf
    <3>4. ~conf.slots[p.slot].readonly
      BY <3>1 DEF SlotPlanHolds
    <3>5. ~MountRefused(p)
      BY <1>1 DEF IInv, CheckedInv
    <3>6. p.slot \in inuse /\ NameIsDevice(p.slot) => p.slot \in ext
      BY <1>1 DEF IInv, FoundInv
    <3> QED
      BY <3>3, <3>4, <3>5, <3>6 DEF MountRefused
  <2>2. ASSUME NEW p \in plans, NEW q \in plans, p.slot # None, q.slot # None,
               NEW r \in TopsOf(p.slot), NEW t \in TopsOf(q.slot),
               conf.slots[r].class = conf.slots[t].class
        PROVE  r = t
    <3>1. /\ \E k \in DOMAIN group : p.slot = group[k] /\ p.slot \in Slots
          /\ \E k \in DOMAIN group : q.slot = group[k] /\ q.slot \in Slots
      BY <1>1, <2>2, PlanOf
    <3>2. TypeOK /\ ConfInv /\ LinksInv /\ Ready
      BY <1>1 DEF IInv, Ready
    <3>3. r = Top(p.slot) /\ t = Top(q.slot)
      BY <3>1, <3>2, TopFacts DEF TopsOf
    <3> QED
      BY <1>1, <2>2, <3>1, <3>3 DEF IInv, GroupInv, Planning
  <2> QED
    BY <2>1, <2>2
<1> QED
  BY <1>1, PlanInvariant, PTL

\* r_install_make_plans, check_unique_slotclasses, updatepairs: each slot gets the image of
\* its class for this system's variant, never an artifact, and no raw copy goes over the
\* types that switch between two regions.
THEOREM ImagesAreFit == Spec => []ImagesFit
<1>1. ASSUME IInv PROVE ImagesFit
  <2> SUFFICES ASSUME step = "write", NEW p \in plans, p.slot # None
               PROVE  /\ p.image.class = conf.slots[p.slot].class /\ p.image.artifact = None
                      /\ p.image.variant \in {None, conf.variant}
                      /\ \A i \in Images :
                            /\ i.class = p.image.class /\ i.artifact = None /\ i.variant # None
                            /\ i.variant = conf.variant
                           => p.image.variant = conf.variant
                      /\ p.handler = "img_to_raw" =>
                            conf.slots[p.slot].type \notin RegionTypes \cup {"boot-emmc"}
    BY DEF ImagesFit
  <2>1. PICK k \in SlotClasses :
            /\ p = SlotPlan(k) /\ SlotPlanHolds(k) /\ k \in DOMAIN group
            /\ p.slot = group[k] /\ p.slot \in Slots /\ conf.slots[p.slot].class = k
    BY <1>1, PlanOf
  <2>2. MatchingImage(k) # None /\ p.image = MatchingImage(k)
    BY <2>1 DEF SlotPlanHolds, SlotPlan
  <2> DEFINE im == bundle.manifest.images
  <2>3. Images = {im[n] : n \in 1 .. Len(im)}
    BY DEF Images, ImagesOf
  <2>4. PICK n \in 1 .. Len(im) :
            /\ p.image = im[n] /\ im[n].class = k
            /\ im[n].variant \in {None, conf.variant}
            /\ (\E o \in 1 .. Len(im) : im[o].class = k /\ im[o].variant # None
                                          /\ im[o].variant = conf.variant)
                 => im[n].variant = conf.variant
    BY <2>2, ImageForFacts DEF MatchingImage
  <2>5. p.image \in Images
    BY <2>3, <2>4
  <2>6. p.image.artifact = None
    <3>1. k \notin DOMAIN conf.repos
      BY <1>1, <2>1 DEF IInv, ConfInv, Ready, ClassesUnique, Slots
    <3>2. \A i \in Artifacts : i.class \in DOMAIN conf.repos
      BY <1>1 DEF IInv, PlansInv, Planned
    <3> QED
      BY <2>4, <2>5, <3>1, <3>2 DEF Artifacts
  <2>7. \A i \in Images : /\ i.class = p.image.class /\ i.artifact = None /\ i.variant # None
                          /\ i.variant = conf.variant
                         => p.image.variant = conf.variant
    BY <2>3, <2>4
  <2>8. p.handler = "img_to_raw" => conf.slots[p.slot].type \notin RegionTypes \cup {"boot-emmc"}
    <3>1. p.handler = UpdateHandler(MatchingImage(k), conf.slots[p.slot].type)
      BY <2>1 DEF SlotPlan
    <3> QED
      BY <3>1, RawPairs DEF UpdateHandler
  <2> QED
    BY <2>1, <2>4, <2>6, <2>7, <2>8
<1> QED
  BY <1>1, PlanInvariant, PTL

\* NeverOlder in the order of r_semver_less_equal.
NeverRefused ==
    step \in {"plan", "handler", "mark", "prechecks", "write"} =>
        /\ "compatible" \notin ignore /\ ~bundle.manifest.installCheck =>
               bundle.manifest.compatible = conf.compatible
        /\ "version" \notin ignore /\ conf.minVersion # None =>
               VersionLessEqual(conf.minVersion, bundle.manifest.version)

\* check_version_limits, verify_compatible: no installation goes on with a bundle below the
\* minimum version, or with another system's, unless the caller said so or, for the latter,
\* the bundle brings its own check.
THEOREM RefusedBundlesStop == Spec => []NeverRefused
<1>1. IInv => NeverRefused
  BY DEF IInv, AllowedInv, NeverRefused, CompatibleHolds, VersionHolds, Planning
<1> QED
  BY <1>1, PlanInvariant, PTL

----------------------------------------------------------------------------
(* What convert_images leaves.                                              *)

\* g has the values of the recursive function of ConvertImages, up to the n-th image.
After(g, m, d, n) ==
    /\ g = [k \in 0 .. n |-> g[k]]
    /\ \A k \in 0 .. n : g[k] = IF k = 0 THEN [end |-> "made", dir |-> d]
                                ELSE ConvertImage(g[k - 1], m.images[k])
LEMMA ConvertedSoFar ==
    ASSUME NEW m, NEW d, NEW n \in Nat
    PROVE  \E g : After(g, m, d, n)
<1> DEFINE base == [end |-> "made", dir |-> d]
           im == m.images
           Holds(j) == \E g : /\ g = [k \in 0 .. j |-> g[k]]
                              /\ \A k \in 0 .. j : g[k] = IF k = 0 THEN base
                                                           ELSE ConvertImage(g[k - 1], im[k])
           wrong == {j \in Nat : ~Holds(j)}
           j == CHOOSE l \in wrong : \A o \in wrong : l <= o
<1> HIDE DEF ConvertImage, base, im
<1>1. Holds(0)
  <2> DEFINE g == [k \in 0 .. 0 |-> base]
  <2>1. g = [k \in 0 .. 0 |-> g[k]] /\ \A k \in 0 .. 0 : k = 0 /\ g[k] = base
    OBVIOUS
  <2> HIDE DEF g
  <2> QED
    BY <2>1
<1>2. ASSUME NEW l \in Nat, Holds(l) PROVE Holds(l + 1)
  <2>1. PICK g : \A k \in 0 .. l : g[k] = IF k = 0 THEN base ELSE ConvertImage(g[k - 1], im[k])
    BY <1>2
  <2> DEFINE h == [k \in 0 .. l + 1 |-> IF k = l + 1 THEN ConvertImage(g[l], im[l + 1]) ELSE g[k]]
  <2>2. /\ \A k \in 0 .. l : h[k] = g[k] /\ h[l + 1] = ConvertImage(g[l], im[l + 1])
        /\ h = [k \in 0 .. l + 1 |-> h[k]]
    OBVIOUS
  <2>4. \A k \in 0 .. l + 1 : h[k] = IF k = 0 THEN base ELSE ConvertImage(h[k - 1], im[k])
    <3> TAKE k \in 0 .. l + 1
    <3>1. CASE k = 0
      BY <2>1, <2>2, <3>1
    <3>2. CASE k \in 1 .. l
      <4>1. k \in 0 .. l /\ k - 1 \in 0 .. l /\ k # 0
        BY <3>2
      <4>2. h[k] = g[k] /\ h[k - 1] = g[k - 1]
        BY <2>2, <4>1
      <4> HIDE DEF h
      <4> QED
        BY <2>1, <4>1, <4>2
    <3>3. CASE k = l + 1
      <4>1. k - 1 = l /\ l \in 0 .. l /\ k # 0
        BY <3>3
      <4>2. h[k] = ConvertImage(g[l], im[k]) /\ h[l] = g[l]
        BY <2>2, <3>3, <4>1
      <4> HIDE DEF h
      <4> QED
        BY <4>1, <4>2
    <3> QED
      BY <3>1, <3>2, <3>3
  <2> HIDE DEF h
  <2> QED
    BY <2>2, <2>4
<1> HIDE DEF Holds
<1>3. wrong = {}
  <2> SUFFICES ASSUME wrong # {} PROVE FALSE
    OBVIOUS
  <2>1. wrong \in SUBSET Nat
    OBVIOUS
  <2>2. \A l : l \in wrong <=> l \in Nat /\ ~Holds(l)
    OBVIOUS
  <2> HIDE DEF wrong
  <2>3. j \in wrong /\ \A o \in wrong : j <= o
    BY <2>1, Smallest
  <2> HIDE DEF j
  <2>4. j \in Nat /\ j # 0
    BY <1>1, <2>2, <2>3
  <2>5. j - 1 \in Nat /\ j - 1 \notin wrong /\ (j - 1) + 1 = j
    BY <2>3, <2>4
  <2>6. Holds(j - 1)
    BY <2>2, <2>5
  <2> QED
    BY <1>2, <2>2, <2>3, <2>5, <2>6
<1> QED
  BY <1>3 DEF Holds, After, base, im

LEMMA ConvertImagesIs ==
    ASSUME NEW m, NEW d, Len(m.images) \in Nat
    PROVE  \E g : /\ g[0] = [end |-> "made", dir |-> d]
                  /\ \A n \in 1 .. Len(m.images) : g[n] = ConvertImage(g[n - 1], m.images[n])
                  /\ ConvertImages(m, d) = g[Len(m.images)]
<1> DEFINE N == Len(m.images)
           base == [end |-> "made", dir |-> d]
           im == m.images
           IsAfter(g) == g = [k \in 0 .. N |-> IF k = 0 THEN base ELSE ConvertImage(g[k - 1], im[k])]
           after == CHOOSE g : IsAfter(g)
<1>1. \E g : IsAfter(g)
  <2>1. N \in Nat
    OBVIOUS
  <2>2. PICK g : After(g, m, d, N)
    BY <2>1, ConvertedSoFar
  <2>3. IsAfter(g)
    BY <2>2 DEF After
  <2> QED
    BY <2>3
<1>2. IsAfter(after)
  <2> HIDE DEF IsAfter
  <2> QED
    BY <1>1
<1>3. ConvertImages(m, d) = after[N]
  BY DEF ConvertImages
<1> HIDE DEF after
<1>4. \A k \in 0 .. N : after[k] = IF k = 0 THEN base ELSE ConvertImage(after[k - 1], im[k])
  <2> DEFINE G == [k \in 0 .. N |-> IF k = 0 THEN base ELSE ConvertImage(after[k - 1], im[k])]
  <2>1. \A k \in 0 .. N : G[k] = IF k = 0 THEN base ELSE ConvertImage(after[k - 1], im[k])
    OBVIOUS
  <2>2. after = G
    BY <1>2
  <2> HIDE DEF G
  <2> QED
    BY <2>1, <2>2
<1> QED
  BY <1>3, <1>4

\* What the conversion of one image does to the directory, where it succeeds.
Extracts(i) == \E k \in 1 .. Len(i.convert) : i.convert[k] = "tar-extract"
Converts(F, i, G) ==
    \/ i.convert = None /\ G = F
    \/ /\ i.convert # None
       /\ \A k \in 1 .. Len(i.convert) : i.convert[k] \in {"tar-extract", "keep"}
       /\ Extracts(i) => i.file \in DOMAIN F /\ Extracted(i.file) \notin DOMAIN F
       /\ DOMAIN G = (IF Keeps(i) THEN DOMAIN F ELSE DOMAIN F \ {i.file})
                       \cup (IF Extracts(i) THEN {Extracted(i.file)} ELSE {})
       /\ \A f \in DOMAIN G : G[f] = None \/ (f \in DOMAIN F /\ G[f] = F[f])
       /\ Extracts(i) => G[Extracted(i.file)] = None

\* Links only lead on from names that are there.
LEMMA OpensItself ==
    ASSUME NEW d, NEW f, Opens(d, f)
    PROVE  f \in DOMAIN d
  BY DEF Opens, OnTheWay

LEMMA ConvertedIs ==
    ASSUME NEW F, NEW i, i.convert # None, ConvertHolds(i, F)
    PROVE  Converts(F, i, Converted(F, i))
<1> DEFINE kept == IF Keeps(i) THEN DOMAIN F ELSE DOMAIN F \ {i.file}
           new == {Extracted(i.file) : k \in Extractions(i)}
           K == IF Keeps(i) THEN F ELSE Restrict(F, DOMAIN F \ {i.file})
           G == Converted(F, i)
<1>1. new = IF Extracts(i) THEN {Extracted(i.file)} ELSE {}
  BY DEF Extracts, Extractions
<1>2. DOMAIN K = kept /\ \A f \in kept : f \in DOMAIN F /\ K[f] = F[f]
  BY DEF Restrict
<1> HIDE DEF K, kept, new
<1>3. G = [f \in DOMAIN K \cup new |-> IF f \in new THEN None ELSE K[f]]
  BY DEF Converted, WithFiles, K, new
<1>4. /\ DOMAIN G = kept \cup new
      /\ \A f \in DOMAIN G : G[f] = IF f \in new THEN None ELSE K[f]
  BY <1>2, <1>3
<1> HIDE DEF G
<1>5. \A f \in DOMAIN G : G[f] = None \/ (f \in DOMAIN F /\ G[f] = F[f])
  BY <1>2, <1>4
<1>6. Extracts(i) => G[Extracted(i.file)] = None
  BY <1>1, <1>4
<1>7. /\ \A k \in 1 .. Len(i.convert) : i.convert[k] \in {"tar-extract", "keep"}
      /\ Extracts(i) => i.file \in DOMAIN F /\ Extracted(i.file) \notin DOMAIN F
  BY OpensItself DEF ConvertHolds, Extracts, Extractions
<1>8. DOMAIN G = kept \cup (IF Extracts(i) THEN {Extracted(i.file)} ELSE {})
  BY <1>1, <1>4
<1> QED
  BY <1>5, <1>6, <1>7, <1>8 DEF Converts, G, kept

LEMMA ConvertImageStep ==
    ASSUME NEW e, NEW F, NEW i
    PROVE  LET next == ConvertImage([end |-> e, dir |-> F], i)
           IN  /\ next = [end |-> next.end, dir |-> next.dir]
               /\ next.end = "made" => e = "made" /\ Converts(F, i, next.dir)
<1> DEFINE made == [end |-> e, dir |-> F]
           next == ConvertImage(made, i)
           G == Converted(F, i)
<1>1. \/ next = [end |-> e, dir |-> F] /\ e # "made"
      \/ next = [end |-> "refused", dir |-> F]
      \/ next = [end |-> "aborted", dir |-> F]
      \/ next = [end |-> e, dir |-> F] /\ e = "made" /\ i.convert = None
      \/ /\ next = [end |-> e, dir |-> G] /\ e = "made"
         /\ i.convert # None /\ ConvertHolds(i, F)
  <2> HIDE DEF G
  <2>1. made.end = e /\ made.dir = F
    OBVIOUS
  <2>2. /\ [made EXCEPT !.end = "refused"] = [end |-> "refused", dir |-> F]
        /\ [made EXCEPT !.end = "aborted"] = [end |-> "aborted", dir |-> F]
        /\ [made EXCEPT !.dir = G] = [end |-> e, dir |-> G]
    OBVIOUS
  <2>3. next = IF e # "made" THEN made
               ELSE IF i.converted = <<>> THEN [made EXCEPT !.end = "refused"]
               ELSE IF i.convert = None THEN made
               ELSE IF i.file = None /\ i.convert # <<>> /\ Head(i.convert) = "keep"
               THEN [made EXCEPT !.end = "aborted"]
               ELSE IF ~ConvertHolds(i, F) \/ (~Keeps(i) /\ i.file \notin DOMAIN F)
               THEN [made EXCEPT !.end = "refused"]
               ELSE [made EXCEPT !.dir = G]
    BY <2>1 DEF ConvertImage, G
  <2> HIDE DEF next
  <2> QED
    BY <2>2, <2>3
<1> HIDE DEF next, G
<1>4. next = [end |-> next.end, dir |-> next.dir]
  BY <1>1
<1>5. ASSUME next.end = "made" PROVE e = "made" /\ Converts(F, i, next.dir)
  <2>1. CASE i.convert = None /\ next = [end |-> e, dir |-> F] /\ e = "made"
    BY <2>1 DEF Converts
  <2>2. CASE next = [end |-> e, dir |-> G] /\ e = "made" /\ i.convert # None /\ ConvertHolds(i, F)
    <3>1. next.dir = G
      BY <2>2
    <3> QED
      BY <2>2, <3>1, ConvertedIs DEF G
  <2> QED
    BY <1>1, <1>5, <2>1, <2>2
<1> QED
  BY <1>4, <1>5 DEF next

\* A file that is gone was removed by an image that does not keep it; what was extracted
\* stays, as the name of an extracted file has no other one to be extracted to; and no link
\* is new or leads elsewhere.
FilesSoFar(im, n, before, d) ==
    /\ \A f \in DOMAIN before \ DOMAIN d :
          \E j \in 1 .. n : im[j].file = f /\ im[j].convert # None /\ ~Keeps(im[j])
    /\ \A f \in DOMAIN d : d[f] = None \/ (f \in DOMAIN before /\ d[f] = before[f])
    /\ \A k \in 1 .. n : im[k].convert # None =>
          /\ \A x \in 1 .. Len(im[k].convert) : im[k].convert[x] \in {"tar-extract", "keep"}
          /\ Extracts(im[k]) => Extracted(im[k].file) \in DOMAIN d /\ d[Extracted(im[k].file)] = None

LEMMA ExtractedTwice == ASSUME NEW f PROVE Extracted(Extracted(f)) = Extracted(f)
  BY DEF Extracted

LEMMA FilesGoOn ==
    ASSUME NEW im, NEW n \in Nat, NEW before, NEW F, NEW G, FilesSoFar(im, n, before, F),
           Converts(F, im[n + 1], G),
           im[n + 1].convert # None => Len(im[n + 1].convert) \in Nat \ {0}
    PROVE  FilesSoFar(im, n + 1, before, G)
<1> DEFINE i == im[n + 1]
<1>1. CASE i.convert = None
  BY <1>1 DEF FilesSoFar, Converts
<1>2. CASE i.convert # None
  <2>1. /\ \A x \in 1 .. Len(i.convert) : i.convert[x] \in {"tar-extract", "keep"}
        /\ Extracts(i) => i.file \in DOMAIN F /\ Extracted(i.file) \notin DOMAIN F
        /\ DOMAIN G = (IF Keeps(i) THEN DOMAIN F ELSE DOMAIN F \ {i.file})
                 \cup (IF Extracts(i) THEN {Extracted(i.file)} ELSE {})
        /\ \A f \in DOMAIN G : G[f] = None \/ (f \in DOMAIN F /\ G[f] = F[f])
        /\ Extracts(i) => G[Extracted(i.file)] = None
    BY <1>2 DEF Converts
  <2>2. Keeps(i) \/ Extracts(i)
    <3>1. 1 \in 1 .. Len(i.convert)
      BY <1>2
    <3> QED
      BY <2>1, <3>1 DEF Keeps, Extracts
  <2>3. DOMAIN F \ DOMAIN G \subseteq {i.file} /\ (DOMAIN F \ DOMAIN G # {} => ~Keeps(i))
    BY <2>1
  <2>4. \A f \in DOMAIN before \ DOMAIN G :
            \E j \in 1 .. n + 1 : im[j].file = f /\ im[j].convert # None /\ ~Keeps(im[j])
    <3> TAKE f \in DOMAIN before \ DOMAIN G
    <3>1. CASE f \in DOMAIN F
      BY <1>2, <2>3, <3>1
    <3>2. CASE f \notin DOMAIN F
      BY <3>2 DEF FilesSoFar
    <3> QED
      BY <3>1, <3>2
  <2>5. \A g : Extracted(g) \in DOMAIN F => Extracted(g) \in DOMAIN G
    <3> SUFFICES ASSUME NEW g, Extracted(g) \in DOMAIN F, Extracted(g) \notin DOMAIN G PROVE FALSE
      OBVIOUS
    <3>1. Extracted(g) = i.file /\ ~Keeps(i)
      BY <2>3
    <3>2. Extracted(i.file) = i.file
      BY <3>1, ExtractedTwice
    <3> QED
      BY <2>1, <2>2, <3>1, <3>2
  <2>6. Extracts(i) => Extracted(i.file) \in DOMAIN G
    BY <2>1
  <2>7. \A k \in 1 .. n + 1 : k \in 1 .. n \/ k = n + 1
    OBVIOUS
  <2>8. \A f \in DOMAIN G : G[f] = None \/ (f \in DOMAIN before /\ G[f] = before[f])
    BY <2>1 DEF FilesSoFar
  <2> HIDE DEF i
  <2>9. \A k \in 1 .. n + 1 : im[k].convert # None =>
            /\ \A x \in 1 .. Len(im[k].convert) : im[k].convert[x] \in {"tar-extract", "keep"}
            /\ Extracts(im[k]) => Extracted(im[k].file) \in DOMAIN G /\ G[Extracted(im[k].file)] = None
    <3> TAKE k \in 1 .. n + 1
    <3>1. CASE k \in 1 .. n
      <4>1. im[k].convert # None =>
                /\ \A x \in 1 .. Len(im[k].convert) : im[k].convert[x] \in {"tar-extract", "keep"}
                /\ Extracts(im[k]) => /\ Extracted(im[k].file) \in DOMAIN F
                                      /\ F[Extracted(im[k].file)] = None
        BY <3>1 DEF FilesSoFar
      <4>2. Extracted(im[k].file) \in DOMAIN F /\ F[Extracted(im[k].file)] = None =>
                Extracted(im[k].file) \in DOMAIN G /\ G[Extracted(im[k].file)] = None
        BY <2>1, <2>5
      <4> QED
        BY <4>1, <4>2
    <3>2. CASE k = n + 1
      BY <2>1, <2>6, <3>2 DEF i
    <3> QED
      BY <2>7, <3>1, <3>2
  <2> QED
    BY <2>4, <2>8, <2>9 DEF FilesSoFar
<1> QED
  BY <1>1, <1>2

\* A name that opened still does, unless one on its way is gone.
LEMMA WayKept ==
    ASSUME NEW b, NEW d, NEW f, Opens(b, f),
           \A g \in DOMAIN d : d[g] = None \/ (g \in DOMAIN b /\ d[g] = b[g]),
           OnTheWay(d, f) \cap (DOMAIN b \ DOMAIN d) = {}
    PROVE  Opens(d, f)
<1> DEFINE V == OnTheWay(b, f)
           W == OnTheWay(d, f)
           allB == {f} \cup {b[g] : g \in {h \in DOMAIN b : b[h] # None}}
           allD == {f} \cup {d[g] : g \in {h \in DOMAIN d : d[h] # None}}
           Closed(e, C) == f \in C /\ (\A h \in C \cap DOMAIN e : e[h] # None => e[h] \in C)
<1>1. /\ V = {g \in allB : \A C \in SUBSET allB : Closed(b, C) => g \in C}
      /\ W = {g \in allD : \A C \in SUBSET allD : Closed(d, C) => g \in C}
  BY DEF OnTheWay
<1>2. V \subseteq DOMAIN b /\ \E g \in V : b[g] = None
  BY DEF Opens
<1>3. /\ f \in allB /\ f \in allD /\ allD \subseteq allB
      /\ \A h \in DOMAIN b : b[h] # None => b[h] \in allB
      /\ \A h \in DOMAIN d : d[h] # None => d[h] \in allD
  <2>1. \A h \in DOMAIN d : d[h] # None => h \in DOMAIN b /\ b[h] # None /\ b[h] = d[h]
    OBVIOUS
  <2> QED
    BY <2>1
<1> HIDE DEF V, W, allB, allD
<1>4. Closed(b, V) /\ Closed(d, W)
  BY <1>1, <1>3
<1>5. W \subseteq V
  <2>1. Closed(d, V \cap allD)
    BY <1>3, <1>4
  <2> QED
    BY <1>1, <2>1
<1>6. W \subseteq DOMAIN d
  BY <1>2, <1>5 DEF W
<1>7. \E g \in W : d[g] = None
  <2> SUFFICES ASSUME \A g \in W : d[g] # None PROVE FALSE
    OBVIOUS
  <2>1. \A g \in W : g \in DOMAIN b /\ d[g] = b[g]
    BY <1>6
  <2>2. Closed(b, W) /\ W \subseteq allB
    BY <1>1, <1>3, <1>4, <1>6, <2>1
  <2>3. V \subseteq W
    BY <1>1, <2>2
  <2> QED
    BY <1>2, <2>1, <2>3
<1> QED
  BY <1>6, <1>7 DEF Opens, W

\* A file, or a directory.
LEMMA FileOpens ==
    ASSUME NEW d, NEW f \in DOMAIN d, d[f] = None
    PROVE  Opens(d, f)
<1>1. OnTheWay(d, f) = {f}
  <2> DEFINE all == {f} \cup {d[g] : g \in {h \in DOMAIN d : d[h] # None}}
  <2>1. {f} \in SUBSET all /\ f \in {f}
    OBVIOUS
  <2>2. \A h \in {f} \cap DOMAIN d : d[h] # None => d[h] \in {f}
    OBVIOUS
  <2> HIDE DEF all
  <2>3. OnTheWay(d, f) =
            {g \in all : \A C \in SUBSET all :
                f \in C /\ (\A h \in C \cap DOMAIN d : d[h] # None => d[h] \in C) => g \in C}
    BY DEF OnTheWay, all
  <2> QED
    BY <2>1, <2>2, <2>3
<1> QED
  BY <1>1 DEF Opens

LEMMA FilesKept ==
    ASSUME NEW m, NEW before, Len(m.images) \in Nat,
           \A n \in 1 .. Len(m.images) : m.images[n].convert # None =>
               Len(m.images[n].convert) \in Nat \ {0},
           ConvertImages(m, before).end = "made"
    PROVE  FilesSoFar(m.images, Len(m.images), before, ConvertImages(m, before).dir)
<1> DEFINE N == Len(m.images)
           im == m.images
<1>1. PICK g : /\ g[0] = [end |-> "made", dir |-> before]
               /\ \A n \in 1 .. N : g[n] = ConvertImage(g[n - 1], im[n])
               /\ ConvertImages(m, before) = g[N]
  BY ConvertImagesIs
<1> DEFINE Holds(n) == /\ g[n] = [end |-> g[n].end, dir |-> g[n].dir]
                       /\ g[n].end = "made" => FilesSoFar(im, n, before, g[n].dir)
           wrong == {n \in 0 .. N : ~Holds(n)}
           first == CHOOSE n \in wrong : \A o \in wrong : n <= o
<1>2. Holds(0)
  BY <1>1 DEF FilesSoFar
<1>3. ASSUME NEW n \in 0 .. N, n # N, Holds(n) PROVE Holds(n + 1)
  <2>1. n + 1 \in 1 .. N /\ (n + 1) - 1 = n /\ n \in Nat
    BY <1>3
  <2>2. g[n + 1] = ConvertImage([end |-> g[n].end, dir |-> g[n].dir], im[n + 1])
    BY <1>1, <1>3, <2>1
  <2>3. /\ g[n + 1] = [end |-> g[n + 1].end, dir |-> g[n + 1].dir]
        /\ g[n + 1].end = "made" =>
               g[n].end = "made" /\ Converts(g[n].dir, im[n + 1], g[n + 1].dir)
    BY <2>2, ConvertImageStep
  <2>4. g[n + 1].end = "made" => FilesSoFar(im, n + 1, before, g[n + 1].dir)
    BY <1>3, <2>1, <2>3, FilesGoOn
  <2> QED
    BY <2>3, <2>4
<1> HIDE DEF Holds
<1>4. wrong = {}
  <2> SUFFICES ASSUME wrong # {} PROVE FALSE
    OBVIOUS
  <2>1. wrong \in SUBSET Nat /\ \A n : n \in wrong <=> n \in 0 .. N /\ ~Holds(n)
    OBVIOUS
  <2> HIDE DEF wrong
  <2>2. first \in wrong /\ \A o \in wrong : first <= o
    BY <2>1, Smallest
  <2> HIDE DEF first
  <2>3. first \in 1 .. N /\ first - 1 \in 0 .. N /\ first - 1 # N /\ (first - 1) + 1 = first
    BY <1>2, <2>1, <2>2
  <2>4. first - 1 \notin wrong
    BY <2>2, <2>3
  <2> QED
    BY <1>3, <2>1, <2>2, <2>3, <2>4
<1>5. Holds(N)
  BY <1>4
<1> QED
  BY <1>1, <1>5 DEF Holds

----------------------------------------------------------------------------
(* The manifest that create_bundle writes.                                  *)

Signed(m) == WithVerity(Encrypted(WithOutputs(WithChecksums(m))))
Made(m) == Written(Signed(m))

\* The steps on the way set fields of the images, and two keys.
LEMMA SetsImages ==
    ASSUME NEW m, m = [key \in ManifestKeys |-> m[key]], NEW images
    PROVE  LET n == [m EXCEPT !.images = images]
           IN  /\ n = [key \in ManifestKeys |-> n[key]] /\ n.images = images
               /\ \A key \in ManifestKeys \ {"images"} : n[key] = m[key]
<1> DEFINE n == [m EXCEPT !.images = images]
<1>1. DOMAIN m = ManifestKeys /\ "images" \in ManifestKeys
  BY DEF ManifestKeys
<1>2. n = [key \in ManifestKeys |-> IF key = "images" THEN images ELSE m[key]]
  BY <1>1
<1> QED
  BY <1>1, <1>2

LEMMA SignedKeys ==
    ASSUME NEW m, m = [key \in ManifestKeys |-> m[key]]
    PROVE  LET w == WithVerity(Encrypted(m))
           IN  /\ w = [key \in ManifestKeys |-> w[key]]
               /\ \A key \in ManifestKeys \ {"cryptKey", "verity"} : w[key] = m[key]
               /\ w.cryptKey = (m.format = "crypt")
               /\ w.verity = (m.format \in {"verity", "crypt"})
<1> DEFINE e == Encrypted(m)
           w == WithVerity(e)
<1>1. DOMAIN m = ManifestKeys /\ {"format", "cryptKey", "verity"} \subseteq ManifestKeys
  BY DEF ManifestKeys
<1>2. e = [key \in ManifestKeys |-> IF key = "cryptKey" THEN m.format = "crypt" ELSE m[key]]
  BY <1>1 DEF Encrypted
<1>3. /\ DOMAIN e = ManifestKeys /\ e.cryptKey = (m.format = "crypt") /\ e.format = m.format
      /\ \A key \in ManifestKeys \ {"cryptKey"} : e[key] = m[key]
  BY <1>1, <1>2
<1> HIDE DEF e
<1>4. w = [key \in ManifestKeys |-> IF key = "verity" THEN e.format \in {"verity", "crypt"} ELSE e[key]]
  BY <1>3 DEF WithVerity
<1>5. /\ w = [key \in ManifestKeys |-> w[key]] /\ w.verity = (e.format \in {"verity", "crypt"})
      /\ \A key \in ManifestKeys \ {"verity"} : w[key] = e[key]
  BY <1>1, <1>4
<1> HIDE DEF w
<1>6. w.cryptKey = e.cryptKey
  BY <1>1, <1>5
<1> QED
  BY <1>3, <1>5, <1>6 DEF e, w

\* One image, from the directory to the manifest in memory and to the one written.
Checked(i) == [i EXCEPT !.digest = i.file # None, !.sized = i.file # None]
WrittenImage(i) == [i EXCEPT !.converted = IF @ = <<>> THEN None ELSE @]

LEMMA ImageFields ==
    ASSUME NEW i, IsImage(i)
    PROVE  /\ \A key \in {"file", "hooks", "convert", "artifact", "converted"} : Checked(i)[key] = i[key]
           /\ \A key \in {"file", "hooks", "convert", "artifact"} :
                  OutputOf(Checked(i))[key] = i[key] /\ WrittenImage(OutputOf(Checked(i)))[key] = i[key]
           /\ \A o \in {OutputOf(Checked(i)), WrittenImage(OutputOf(Checked(i)))} :
                  o.digest = (i.file # None) /\ o.sized = (i.file # None)
           /\ OutputOf(Checked(i)).converted = IF i.convert = None THEN i.converted ELSE ConvertedTo(Checked(i))
           /\ WrittenImage(OutputOf(Checked(i))).converted =
                  IF OutputOf(Checked(i)).converted = <<>> THEN None ELSE OutputOf(Checked(i)).converted
<1> DEFINE c == Checked(i)
           o == OutputOf(c)
           w == WrittenImage(o)
<1>1. DOMAIN i = ImageKeys /\ {"file", "hooks", "convert", "artifact", "converted", "digest", "sized"} \subseteq ImageKeys
  BY DEF IsImage, ImageKeys
<1>2. /\ c = [key \in ImageKeys |-> IF key \in {"digest", "sized"} THEN i.file # None ELSE i[key]]
      /\ i.convert = c.convert
  BY <1>1 DEF Checked
<1>3. /\ DOMAIN c = ImageKeys /\ c.digest = (i.file # None) /\ c.sized = (i.file # None)
      /\ \A key \in ImageKeys \ {"digest", "sized"} : c[key] = i[key]
  BY <1>1, <1>2
<1> HIDE DEF c
<1>4. o = IF i.convert = None THEN c ELSE [c EXCEPT !.converted = ConvertedTo(c)]
  BY <1>2 DEF OutputOf
<1>5. /\ DOMAIN o = ImageKeys /\ \A key \in ImageKeys \ {"converted"} : o[key] = c[key]
      /\ o.converted = IF i.convert = None THEN c.converted ELSE ConvertedTo(c)
  BY <1>1, <1>3, <1>4
<1> HIDE DEF o
<1>6. /\ \A key \in ImageKeys \ {"converted"} : w[key] = o[key]
      /\ w.converted = IF o.converted = <<>> THEN None ELSE o.converted
  BY <1>1, <1>5 DEF WrittenImage
<1> HIDE DEF w
<1> QED
  BY <1>1, <1>3, <1>5, <1>6 DEF c, o, w

LEMMA MadeKeys ==
    ASSUME NEW m, IsManifest(m)
    PROVE  /\ \A w \in {Signed(m), Made(m)} :
                  /\ \A key \in ManifestKeys \ {"cryptKey", "verity", "images"} : w[key] = m[key]
                  /\ w.cryptKey = (m.format = "crypt") /\ w.verity = (m.format \in {"verity", "crypt"})
                  /\ Len(w.images) = Len(m.images)
           /\ \A k \in 1 .. Len(m.images) :
                  /\ WithChecksums(m).images[k] = Checked(m.images[k])
                  /\ Signed(m).images[k] = OutputOf(Checked(m.images[k]))
                  /\ Made(m).images[k] = WrittenImage(Signed(m).images[k])
           /\ Len(WithChecksums(m).images) = Len(m.images) /\ Len(m.images) \in Nat
           /\ WithChecksums(m).format = m.format
<1> DEFINE N == Len(m.images)
           ci == [k \in 1 .. N |-> Checked(m.images[k])]
           c == [m EXCEPT !.images = ci]
           oi == [k \in 1 .. N |-> OutputOf(ci[k])]
           o == [c EXCEPT !.images = oi]
           s == WithVerity(Encrypted(o))
           wi == [k \in 1 .. N |-> WrittenImage(oi[k])]
           w == [s EXCEPT !.images = wi]
<1>1. N \in Nat /\ m = [key \in ManifestKeys |-> m[key]] /\ {"format", "images", "cryptKey", "verity"} \subseteq ManifestKeys
  BY DEF IsManifest, ManifestKeys
<1>2. Len(ci) = N /\ Len(oi) = N /\ Len(wi) = N
  BY <1>1
<1>3. WithChecksums(m) = c
  BY DEF WithChecksums, Checked
<1>4. /\ c = [key \in ManifestKeys |-> c[key]] /\ c.images = ci
      /\ \A key \in ManifestKeys \ {"images"} : c[key] = m[key]
  <2> HIDE DEF ci
  <2> QED
    BY <1>1, SetsImages
<1>5. WithOutputs(WithChecksums(m)) = o
  <2> HIDE DEF c, ci
  <2> QED
    BY <1>2, <1>3, <1>4 DEF WithOutputs, oi
<1>6. /\ o = [key \in ManifestKeys |-> o[key]] /\ o.images = oi
      /\ \A key \in ManifestKeys \ {"images"} : o[key] = c[key]
  <2> HIDE DEF oi, c
  <2> QED
    BY <1>4, SetsImages
<1>7. Signed(m) = s
  BY <1>5 DEF Signed
<1> HIDE DEF c, o, ci, oi
<1>8. /\ s = [key \in ManifestKeys |-> s[key]]
      /\ \A key \in ManifestKeys \ {"cryptKey", "verity"} : s[key] = o[key]
      /\ s.cryptKey = (o.format = "crypt")
      /\ s.verity = (o.format \in {"verity", "crypt"})
  BY <1>6, SignedKeys
<1> HIDE DEF s
<1>9. s.images = oi /\ o.format = m.format
  BY <1>1, <1>4, <1>6, <1>8
<1>10. Made(m) = w
  BY <1>2, <1>7, <1>9 DEF Made, Written, WrittenImage
<1>11. /\ w.images = wi /\ \A key \in ManifestKeys \ {"images"} : w[key] = s[key]
  <2> HIDE DEF wi
  <2> QED
    BY <1>8, SetsImages
<1> HIDE DEF w
<1>12. \A k \in 1 .. N : ci[k] = Checked(m.images[k]) /\ oi[k] = OutputOf(ci[k]) /\ wi[k] = WrittenImage(oi[k])
  BY DEF ci, oi
<1> HIDE DEF wi
<1>13. \A key \in ManifestKeys \ {"cryptKey", "verity", "images"} : s[key] = m[key] /\ w[key] = m[key]
  BY <1>4, <1>6, <1>8, <1>11
<1>14. /\ w.cryptKey = (m.format = "crypt") /\ w.verity = (m.format \in {"verity", "crypt"})
       /\ s.cryptKey = (m.format = "crypt") /\ s.verity = (m.format \in {"verity", "crypt"})
  BY <1>1, <1>8, <1>9, <1>11
<1>15. WithChecksums(m).images = ci /\ WithChecksums(m).format = m.format
  BY <1>1, <1>3, <1>4
<1> HIDE DEF N
<1> QED
  BY <1>1, <1>2, <1>7, <1>9, <1>10, <1>11, <1>12, <1>13, <1>14, <1>15 DEF N

\* What a checked and converted image is, unless it was converted to nothing.
LEMMA MadeImages ==
    ASSUME NEW m, IsManifest(m), InputHolds(m), ~ConvertsToNothing(Made(m)),
           NEW k \in 1 .. Len(m.images)
    PROVE  LET i == m.images[k]  o == Signed(m).images[k]  w == Made(m).images[k]
           IN  /\ w \in ImagesOf(Made(m)) /\ i \in ImagesOf(m) /\ o \in ImagesOf(Signed(m))
               /\ o.file = i.file /\ o.hooks = i.hooks /\ o.convert = i.convert
               /\ o.artifact = i.artifact /\ o.digest = (i.file # None) /\ o.sized = (i.file # None)
               /\ w.file = i.file /\ w.hooks = i.hooks /\ w.convert = i.convert
               /\ w.artifact = i.artifact /\ w.digest = (i.file # None) /\ w.sized = (i.file # None)
               /\ i.convert = None => w.converted = None
               /\ i.convert # None => /\ Len(i.convert) \in Nat \ {0}
                                      /\ w.converted = o.converted
                                      /\ w.converted = ConvertedTo(Checked(i))
                                      /\ w.converted # <<>> /\ Len(w.converted) = Len(i.convert)
<1> DEFINE i == m.images[k]
           o == Signed(m).images[k]
           w == Made(m).images[k]
<1>1. Len(Made(m).images) = Len(m.images) /\ Len(Signed(m).images) = Len(m.images)
  BY MadeKeys
<1>2. w \in ImagesOf(Made(m)) /\ i \in ImagesOf(m) /\ o \in ImagesOf(Signed(m))
  BY <1>1 DEF ImagesOf
<1>3. o = OutputOf(Checked(i)) /\ w = WrittenImage(o) /\ IsImage(i)
  BY <1>2, MadeKeys DEF IsManifest
<1>4. i.converted \in {None, <<>>}
  BY <1>2 DEF InputHolds
<1> HIDE DEF i, o, w
<1>5. /\ Checked(i).file = i.file /\ Checked(i).convert = i.convert
      /\ o.file = i.file /\ o.hooks = i.hooks /\ o.convert = i.convert /\ o.artifact = i.artifact
      /\ w.file = i.file /\ w.hooks = i.hooks /\ w.convert = i.convert /\ w.artifact = i.artifact
      /\ o.digest = (i.file # None) /\ o.sized = (i.file # None)
      /\ w.digest = (i.file # None) /\ w.sized = (i.file # None)
      /\ o.converted = IF i.convert = None THEN i.converted ELSE ConvertedTo(Checked(i))
      /\ w.converted = IF o.converted = <<>> THEN None ELSE o.converted
  BY <1>3, ImageFields
<1>6. i.convert = None => w.converted = None
  BY <1>4, <1>5
<1>7. ASSUME i.convert # None
      PROVE  /\ Len(i.convert) \in Nat \ {0}
             /\ ConvertedTo(Checked(i)) # <<>> /\ Len(ConvertedTo(Checked(i))) = Len(i.convert)
  <2>1. i.convert \in Seq(STRING) /\ i.convert # <<>>
    BY <1>2, <1>3, <1>5, <1>7 DEF IsImage, ConvertsToNothing
  <2>2. Len(i.convert) \in Nat \ {0}
    BY <2>1
  <2> DEFINE n == Len(i.convert)
             To(x) == IF Checked(i).convert[x] = "tar-extract" THEN Extracted(Checked(i).file) ELSE Checked(i).file
  <2>3. ConvertedTo(Checked(i)) = [x \in 1 .. n |-> To(x)]
    BY <1>5 DEF ConvertedTo
  <2> HIDE DEF To
  <2>4. Len([x \in 1 .. n |-> To(x)]) = n /\ 1 \in DOMAIN [x \in 1 .. n |-> To(x)]
    BY <2>2
  <2>5. DOMAIN <<>> = {}
    OBVIOUS
  <2> QED
    BY <2>2, <2>3, <2>4, <2>5
<1> QED
  BY <1>2, <1>5, <1>6, <1>7 DEF i, o, w

\* The checks of an installation hold for it.
LEMMA MadeAccepted ==
    ASSUME NEW m, IsManifest(m), Parses(m), InputHolds(m), SignatureHolds(Signed(m)),
           ~ConvertsToNothing(Made(m))
    PROVE  Accepted(Made(m), Formats)
<1> DEFINE s == Signed(m)
           w == Made(m)
           N == Len(m.images)
           mi == m.images
           si == s.images
           wi == w.images
<1>1. /\ s.format = m.format /\ w.format = m.format /\ w.hookFile = m.hookFile
      /\ w.installCheck = m.installCheck /\ w.handlerArgs = m.handlerArgs /\ w.handler = m.handler
      /\ s.hookFile = m.hookFile /\ s.installCheck = m.installCheck
      /\ w.cryptKey = (m.format = "crypt") /\ w.verity = (m.format \in {"verity", "crypt"})
      /\ s.cryptKey = (m.format = "crypt") /\ s.verity = (m.format \in {"verity", "crypt"})
  <2>1. {"format", "hookFile", "installCheck", "handlerArgs", "handler"}
            \subseteq ManifestKeys \ {"cryptKey", "verity", "images"}
    BY DEF ManifestKeys
  <2> QED
    BY <2>1, MadeKeys
<1>2. /\ ImagesOf(m) = {mi[k] : k \in 1 .. N} /\ ImagesOf(s) = {si[k] : k \in 1 .. N}
      /\ ImagesOf(w) = {wi[k] : k \in 1 .. N}
  BY MadeKeys DEF ImagesOf
<1>3. \A k \in 1 .. N :
          /\ wi[k].file = mi[k].file /\ wi[k].hooks = mi[k].hooks
          /\ wi[k].file = si[k].file /\ wi[k].hooks = si[k].hooks /\ wi[k].convert = si[k].convert
          /\ wi[k].artifact = si[k].artifact
          /\ wi[k].digest = (wi[k].file # None) /\ wi[k].sized = (wi[k].file # None)
          /\ wi[k].convert = None => wi[k].converted = None
          /\ wi[k].convert # None => /\ wi[k].converted = si[k].converted
                                     /\ Len(wi[k].converted) = Len(wi[k].convert)
  <2> TAKE k \in 1 .. N
  <2>1. /\ wi[k].file = mi[k].file /\ wi[k].hooks = mi[k].hooks /\ wi[k].convert = mi[k].convert
        /\ wi[k].artifact = mi[k].artifact
        /\ wi[k].digest = (mi[k].file # None) /\ wi[k].sized = (mi[k].file # None)
    BY MadeImages
  <2>2. /\ si[k].file = mi[k].file /\ si[k].hooks = mi[k].hooks /\ si[k].convert = mi[k].convert
        /\ si[k].artifact = mi[k].artifact
    BY MadeImages
  <2>3. /\ mi[k].convert = None => wi[k].converted = None
        /\ mi[k].convert # None => wi[k].converted = si[k].converted
        /\ mi[k].convert # None => Len(wi[k].converted) = Len(mi[k].convert)
    BY MadeImages
  <2> HIDE DEF mi, si, wi
  <2> QED
    BY <2>1, <2>2, <2>3
<1> HIDE DEF s, w, mi, si, wi, N
<1>4. Parses(w)
  <2>1. \A i \in ImagesOf(w) : ImageParses(i)
    BY <1>2, <1>3 DEF Parses, ImageParses
  <2> QED
    BY <1>1, <2>1 DEF Parses
<1>5. CommonHolds(s) => CommonHolds(w)
  <2>1. (\E i \in ImagesOf(w) : i.hooks # {}) => \E i \in ImagesOf(s) : i.hooks # {}
    BY <1>2, <1>3
  <2> QED
    BY <1>1, <2>1 DEF CommonHolds
<1>6. PlainHolds(s) => PlainHolds(w)
  BY <1>2, <1>3 DEF PlainHolds
<1>7. BundledHolds(s) => BundledHolds(w)
  <2> SUFFICES ASSUME BundledHolds(s), NEW k \in 1 .. N, wi[k].file # None
               PROVE  /\ wi[k].digest /\ wi[k].sized
                      /\ wi[k].convert # None =>
                            wi[k].converted # None /\ Len(wi[k].converted) = Len(wi[k].convert)
    BY <1>2 DEF BundledHolds
  <2>1. wi[k].digest /\ wi[k].sized
    BY <1>3
  <2>2. wi[k].convert # None => si[k].converted # None
    BY <1>2, <1>3 DEF BundledHolds
  <2> QED
    BY <1>3, <2>1, <2>2
<1>8. IF w.format = "plain" THEN InternalHolds(w) ELSE ExternalHolds(w)
  <2>1. SignatureHolds(s)
    BY DEF s
  <2> QED
    BY <1>1, <1>5, <1>6, <1>7, <2>1 DEF SignatureHolds, InternalHolds, ExternalHolds
<1> QED
  BY <1>1, <1>4, <1>8 DEF Accepted, Parses, w

\* The files it names are there.
Supplied(i, d) ==
    i.file # None =>
        /\ i.converted = None => Opens(d, i.file)
        /\ i.converted # None =>
               /\ i.converted # <<>>
               /\ \A n \in 1 .. Len(i.converted) : Opens(d, i.converted[n])

LEMMA MadeSupplied ==
    ASSUME NEW m, IsManifest(m), InputHolds(m), SignatureHolds(Signed(m)), NEW d,
           ContentHolds(m, d),
           ConvertImages(WithChecksums(m), WithIndexes(m, d)).end = "made",
           ~ConvertsToNothing(Made(m)),
           ~SharesConverted([manifest |-> Made(m), dir |-> ConvertImages(WithChecksums(m), WithIndexes(m, d)).dir]),
           NEW i \in ImagesOf(Made(m))
    PROVE  Supplied(i, ConvertImages(WithChecksums(m), WithIndexes(m, d)).dir)
<1> DEFINE c == WithChecksums(m)
           N == Len(m.images)
           before == WithIndexes(m, d)
           left == ConvertImages(c, before).dir
           mi == m.images
           wi == Made(m).images
<1>1. /\ Len(c.images) = N /\ N \in Nat /\ \A k \in 1 .. N : c.images[k] = Checked(mi[k])
      /\ ImagesOf(Made(m)) = {wi[k] : k \in 1 .. N} /\ ImagesOf(m) = {mi[k] : k \in 1 .. N}
  BY MadeKeys DEF ImagesOf
<1>2. \A k \in 1 .. N :
          /\ wi[k].file = mi[k].file /\ wi[k].convert = mi[k].convert
          /\ mi[k].convert = None => wi[k].converted = None
          /\ mi[k].convert # None => /\ Len(mi[k].convert) \in Nat \ {0}
                                     /\ wi[k].converted = ConvertedTo(Checked(mi[k]))
                                     /\ wi[k].converted # <<>>
                                     /\ Len(wi[k].converted) = Len(mi[k].convert)
  <2> TAKE k \in 1 .. N
  <2> QED
    BY MadeImages
<1>3. \A k \in 1 .. N : Checked(mi[k]).file = mi[k].file /\ Checked(mi[k]).convert = mi[k].convert
  BY <1>1, ImageFields DEF IsManifest
<1>4. \A k \in 1 .. N : mi[k].file # None => Opens(before, mi[k].file)
  <2> DEFINE X == {IndexOf(i2.file) : i2 \in {x \in ImagesOf(m) : "block-hash-index" \in x.adaptive}}
  <2>1. before = WithFiles(d, X)
    BY DEF WithIndexes
  <2> HIDE DEF X, before
  <2>2. /\ DOMAIN d \subseteq DOMAIN before
        /\ \A g \in DOMAIN before : before[g] = None \/ (g \in DOMAIN d /\ before[g] = d[g])
    BY <2>1 DEF WithFiles
  <2>3. \A k \in 1 .. N : mi[k].file # None => Opens(d, mi[k].file)
    BY <1>1 DEF ContentHolds
  <2> QED
    BY <2>2, <2>3, WayKept
<1>5. FilesSoFar(c.images, N, before, left)
  <2>1. \A n \in 1 .. Len(c.images) : c.images[n].convert # None =>
            Len(c.images[n].convert) \in Nat \ {0}
    BY <1>1, <1>2, <1>3
  <2> QED
    BY <1>1, <2>1, FilesKept
<1> HIDE DEF c, N, before, left, mi, wi
<1>6. PICK k \in 1 .. N : i = wi[k]
  BY <1>1
<1> SUFFICES ASSUME i.file # None
             PROVE  /\ i.converted = None => Opens(left, i.file)
                    /\ i.converted # None =>
                           /\ i.converted # <<>>
                           /\ \A n \in 1 .. Len(i.converted) : Opens(left, i.converted[n])
  BY DEF Supplied, left, c, before
\* Nobody else removed its file.
<1>7. ASSUME mi[k].convert = None \/ Keeps(mi[k]) PROVE Opens(left, i.file)
  <2> SUFFICES ASSUME ~Opens(left, i.file) PROVE FALSE
    OBVIOUS
  <2>9. Opens(before, i.file)
    BY <1>2, <1>4, <1>6
  <2>1. PICK g \in OnTheWay(left, i.file) : g \in DOMAIN before \ DOMAIN left
    BY <1>5, <2>9, WayKept DEF FilesSoFar
  <2>2. PICK j \in 1 .. N : /\ c.images[j].file = g /\ c.images[j].convert # None
                            /\ ~Keeps(c.images[j])
    BY <1>5, <2>1 DEF FilesSoFar
  <2>3. mi[j].file = g /\ mi[j].convert # None /\ ~Keeps(mi[j])
    BY <1>1, <1>3, <2>2 DEF Keeps
  <2>4. wi[j].convert # wi[k].convert
    BY <1>2, <1>7, <2>3 DEF Keeps
  <2>5. wi[j] # wi[k] /\ wi[j].file = g /\ wi[j].convert # None
    BY <1>2, <2>3, <2>4
  <2>6. ~SharesConverted([manifest |-> Made(m), dir |-> left])
    BY DEF left, c, before
  <2>7. wi[j] \in ImagesOf(Made(m)) /\ i \in ImagesOf(Made(m)) /\ wi[j] # i
    BY <1>1, <1>6, <2>5
  <2> QED
    BY <2>1, <2>5, <2>6, <2>7 DEF SharesConverted
<1>8. CASE mi[k].convert = None
  BY <1>2, <1>6, <1>7, <1>8
<1>9. CASE mi[k].convert # None
  <2>1. /\ \A x \in 1 .. Len(mi[k].convert) : mi[k].convert[x] \in {"tar-extract", "keep"}
        /\ Extracts(mi[k]) => Opens(left, Extracted(mi[k].file))
    BY <1>1, <1>3, <1>5, <1>9, FileOpens DEF FilesSoFar, Extracts
  <2>2. i.converted # None
    <3>1. Signed(m).images[k] \in ImagesOf(Signed(m)) /\ i.converted = Signed(m).images[k].converted
          /\ Signed(m).images[k].file = i.file /\ Signed(m).images[k].convert # None
      <4>1. /\ Signed(m).images[k] \in ImagesOf(Signed(m))
            /\ wi[k].converted = Signed(m).images[k].converted
            /\ Signed(m).images[k].file = mi[k].file /\ Signed(m).images[k].convert = mi[k].convert
        BY <1>9, MadeImages DEF mi, wi, N
      <4> QED
        BY <1>2, <1>6, <1>9, <4>1
    <3>2. BundledHolds(Signed(m))
      BY DEF SignatureHolds, InternalHolds, ExternalHolds
    <3> QED
      BY <3>1, <3>2 DEF BundledHolds
  <2>3. ASSUME NEW n \in 1 .. Len(i.converted) PROVE Opens(left, i.converted[n])
    <3>1. n \in 1 .. Len(mi[k].convert)
      BY <1>2, <1>6, <1>9
    <3>2. i.converted[n] = IF mi[k].convert[n] = "tar-extract" THEN Extracted(mi[k].file) ELSE mi[k].file
      <4>1. i.converted = ConvertedTo(Checked(mi[k]))
        BY <1>2, <1>6, <1>9
      <4>2. Checked(mi[k]).file = mi[k].file /\ Checked(mi[k]).convert = mi[k].convert
        BY <1>3
      <4> QED
        BY <3>1, <4>1, <4>2 DEF ConvertedTo
    <3>3. CASE mi[k].convert[n] = "tar-extract"
      BY <2>1, <3>1, <3>2, <3>3 DEF Extracts
    <3>4. CASE mi[k].convert[n] = "keep"
      <4>1. Keeps(mi[k])
        BY <3>1, <3>4 DEF Keeps
      <4>2. i.converted[n] = i.file
        BY <1>2, <1>6, <3>2, <3>4
      <4> QED
        BY <1>7, <4>1, <4>2
    <3> QED
      BY <2>1, <3>1, <3>3, <3>4
  <2> QED
    BY <1>2, <1>6, <1>9, <2>2, <2>3
<1> QED
  BY <1>8, <1>9

----------------------------------------------------------------------------
(* The bundle of an installation.                                           *)

\* The plans are the bundle's, and the service crashes on a plan without its file.
CreatedInv ==
    /\ bundle \in Bundles \cup {NoBundle}
    /\ \A p \in plans : p.image \in Images
    /\ step = "crashed" => \E p \in plans : Dereferences(p)

LEMMA CreatedIs ==
    ASSUME NEW m, NEW dir, CreateBundle(m, dir).end = "made"
    PROVE  LET d == Workdir(dir)
               made == ConvertImages(WithChecksums(m), WithIndexes(m, d))
           IN  /\ CreateBundle(m, dir) = [end |-> "made", manifest |-> Made(m), dir |-> made.dir]
               /\ Parses(m) /\ InputHolds(m) /\ ContentHolds(m, d) /\ made.end = "made"
               /\ SignatureHolds(Signed(m))
<1> DEFINE d == Workdir(dir)
           made == ConvertImages(WithChecksums(m), WithIndexes(m, d))
           nothing(end) == [end |-> end, manifest |-> m, dir |-> <<>>]
           starts == /\ WorkdirHolds(dir) /\ Parses(m) /\ InputHolds(m) /\ CreateHolds(m)
                     /\ ContentHolds(m, d) /\ AdaptiveHolds(m)
           aborts == EncryptAborts(m) \/ VerityAborts(m)
<1>1. CreateBundle(m, dir) =
          IF ~starts THEN nothing("refused")
          ELSE IF made.end # "made" THEN nothing(made.end)
          ELSE IF aborts THEN nothing("aborted")
          ELSE IF ~SignatureHolds(Signed(m)) THEN nothing("refused")
          ELSE [end |-> "made", manifest |-> Made(m), dir |-> made.dir]
  BY DEF CreateBundle, Signed, Made
<1>2. \A e : nothing(e).end = e
  OBVIOUS
<1>3. starts => Parses(m) /\ InputHolds(m) /\ ContentHolds(m, d)
  OBVIOUS
<1> HIDE DEF d, made, nothing, starts, aborts
<1> QED
  BY <1>1, <1>2, <1>3 DEF d, made

LEMMA CreatedIsSupplied ==
    ASSUME CreatedInv, bundle.made, ~SharesConverted(bundle),
           ~ConvertsToNothing(bundle.manifest)
    PROVE  Accepted(bundle.manifest, Formats) /\ \A i \in Images : Supplied(i, bundle.dir)
<1>1. PICK x \in Inputs : /\ CreateBundle(x.manifest, x.dir).end = "made"
                          /\ bundle.manifest = CreateBundle(x.manifest, x.dir).manifest
                          /\ bundle.dir = CreateBundle(x.manifest, x.dir).dir
  BY DEF CreatedInv, Bundles, NoBundle
<1> DEFINE m == x.manifest
           d == Workdir(x.dir)
           made == ConvertImages(WithChecksums(m), WithIndexes(m, d))
<1>2. /\ CreateBundle(m, x.dir) = [end |-> "made", manifest |-> Made(m), dir |-> made.dir]
      /\ Parses(m) /\ InputHolds(m) /\ ContentHolds(m, d) /\ made.end = "made"
      /\ SignatureHolds(Signed(m))
  BY <1>1, CreatedIs
<1>3. IsManifest(m)
  BY InputsAreManifests
<1> HIDE DEF d, m
<1>4. bundle.manifest = Made(m) /\ bundle.dir = made.dir
  BY <1>1, <1>2 DEF m
<1>5. Accepted(Made(m), Formats)
  BY <1>2, <1>3, <1>4, MadeAccepted
<1>6. ~SharesConverted([manifest |-> Made(m), dir |-> made.dir])
  BY <1>4 DEF SharesConverted
<1>7. \A i \in ImagesOf(Made(m)) : Supplied(i, made.dir)
  BY <1>2, <1>3, <1>4, <1>6, MadeSupplied
<1> QED
  BY <1>4, <1>5, <1>7 DEF Images

LEMMA CreatedHolds == CreatedInv /\ [Next]_vars => CreatedInv'
<1> SUFFICES ASSUME CreatedInv, [Next]_vars PROVE CreatedInv'
  OBVIOUS
<1> USE DEF CreatedInv
<1>1. ASSUME NEW b \in Bundles, NEW i \in SUBSET Ignorable, Begin(b, i) PROVE CreatedInv'
  BY <1>1 DEF Begin
<1>2. ASSUME NEW line \in CmdLines, Reboot(line) PROVE CreatedInv'
  BY <1>2 DEF Reboot
<1>3. CASE MakePlans
  <2>1. bundle' = bundle /\ step' # "crashed" /\ Images' = Images
    BY <1>3 DEF MakePlans, Images
  <2>2. \A p \in plans' : p.image \in Images
    <3>1. CASE plans' = plans
      BY <3>1
    <3>2. CASE plans' = {SlotPlan(k) : k \in SlotClasses} \cup {RepoPlan(i) : i \in Artifacts}
               /\ \A k \in SlotClasses : SlotPlanHolds(k)
      <4>1. \A k \in SlotClasses : SlotPlan(k).image \in Images
        <5> TAKE k \in SlotClasses
        <5>1. SlotPlan(k).image = MatchingImage(k) /\ MatchingImage(k) # None
          BY <3>2 DEF SlotPlan, SlotPlanHolds
        <5>2. MatchingImage(k) \in Images
          BY <5>1, ImageForFacts DEF MatchingImage, Images, ImagesOf
        <5> QED
          BY <5>1, <5>2
      <4>2. \A i \in Artifacts : RepoPlan(i).image \in Images
        BY DEF RepoPlan, Artifacts
      <4> QED
        BY <3>2, <4>1, <4>2
    <3> QED
      BY <1>3, <3>1, <3>2 DEF MakePlans
  <2> QED
    BY <2>1, <2>2
<1>4. CASE PreInstallChecks
  BY <1>4 DEF PreInstallChecks, GoesTo, Images, Dereferences, FileMissing
<1>5. CASE UNCHANGED <<bundle, plans>> /\ (step' = "crashed" => step = "crashed")
  BY <1>5 DEF Images, Dereferences, FileMissing
<1>6. CASE \/ Load \/ LoadRepos \/ DetermineSlotStates \/ DetermineTargetGroup \/ CheckBundle
           \/ Fails \/ CustomHandler \/ GetBootMarkSlot \/ Write
  BY <1>5, <1>6 DEF Load, LoadRepos, DetermineSlotStates, DetermineTargetGroup, CheckBundle,
                    Fails, CustomHandler, GetBootMarkSlot, Write, GoesTo
<1>7. ASSUME NEW s \in Slots, LinkToRoot(s) PROVE CreatedInv'
  BY <1>5, <1>7 DEF LinkToRoot
<1>8. ASSUME NEW d \in Devices, Mount(d) \/ Unmount(d) PROVE CreatedInv'
  BY <1>5, <1>8 DEF Mount, Unmount
<1>9. CASE UNCHANGED vars
  BY <1>5, <1>9 DEF vars
<1> QED
  BY <1>1, <1>2, <1>3, <1>4, <1>6, <1>7, <1>8, <1>9 DEF Next

\* create_bundle and pre_install_checks: whatever directory "rauc bundle" is run on, an
\* installation accepts what it makes and finds every image's file, unless two images lead to
\* one file that one of them converts or a list of conversions is empty.
THEOREM CreatedBundlesInstall == Spec => []CreatedInstalls
<1>1. Init => CreatedInv
  BY DEF Init, CreatedInv
<1>2. ASSUME CreatedInv PROVE CreatedInstalls
  <2> SUFFICES ASSUME bundle.made, ~SharesConverted(bundle),
                      ~ConvertsToNothing(bundle.manifest)
               PROVE  /\ Accepted(bundle.manifest, Formats)
                      /\ step # "crashed" /\ \A p \in plans : ~ConvertedMissing(p)
    BY DEF CreatedInstalls
  <2>1. Accepted(bundle.manifest, Formats) /\ \A p \in plans : Supplied(p.image, bundle.dir)
    BY <1>2, CreatedIsSupplied DEF CreatedInv
  <2>2. \A p \in plans : ~Dereferences(p) /\ ~ConvertedMissing(p)
    BY <2>1 DEF Supplied, Dereferences, ConvertedMissing, FileMissing
  <2> QED
    BY <1>2, <2>1, <2>2 DEF CreatedInv
<1> QED
  BY <1>1, <1>2, CreatedHolds, PTL DEF Spec

----------------------------------------------------------------------------
(* The order of versions.                                                   *)

Versions == {v \in [core : Seq(Nat), pre : Seq(Identifiers) \cup {None}] : VersionParses(v)}

LEMMA IdOrder ==
    ASSUME NEW x \in Identifiers, NEW y \in Identifiers, NEW z \in Identifiers
    PROVE  /\ ~IdLess(x, x)
           /\ IdLess(x, y) => ~IdLess(y, x)
           /\ x # y => IdLess(x, y) \/ IdLess(y, x)
           /\ IdLess(x, y) /\ IdLess(y, z) => IdLess(x, z)
  BY DEF Identifiers, IdLess

LEMMA IdsReflexive == ASSUME NEW p \in Seq(Identifiers) PROVE IdsLessEqual(p, p)
<1>1. Len(p) \in 0 .. Len(p)
  OBVIOUS
<1> QED
  BY <1>1 DEF IdsLessEqual

LEMMA IdsTotal ==
    ASSUME NEW p \in Seq(Identifiers), NEW q \in Seq(Identifiers)
    PROVE  IdsLessEqual(p, q) \/ IdsLessEqual(q, p)
<1> DEFINE S == {i \in Nat \ {0} : i > Len(p) \/ i > Len(q) \/ p[i] # q[i]}
           m == CHOOSE n \in S : \A o \in S : n <= o
<1>1. S \in SUBSET Nat /\ Len(p) + 1 \in S
  OBVIOUS
<1> HIDE DEF S
<1>2. m \in S /\ \A o \in S : m <= o
  BY <1>1, Smallest
<1> HIDE DEF m
<1>3. /\ m \in Nat \ {0} /\ m - 1 <= Len(p) /\ m - 1 <= Len(q)
      /\ \A i \in 1 .. m - 1 : p[i] = q[i]
      /\ m > Len(p) \/ m > Len(q) \/ p[m] # q[m]
  BY <1>2 DEF S
<1>4. m - 1 \in 0 .. Len(p) /\ m - 1 \in 0 .. Len(q) /\ m - 1 + 1 = m
  BY <1>3
<1>5. CASE m > Len(p)
  BY <1>3, <1>4, <1>5 DEF IdsLessEqual
<1>6. CASE m > Len(q)
  BY <1>3, <1>4, <1>6 DEF IdsLessEqual
<1>7. CASE m <= Len(p) /\ m <= Len(q)
  <2>1. p[m] \in Identifiers /\ q[m] \in Identifiers /\ p[m] # q[m]
    BY <1>3, <1>7
  <2>2. IdLess(p[m], q[m]) \/ IdLess(q[m], p[m])
    BY <2>1, IdOrder
  <2> DEFINE n == m - 1
  <2>3. /\ n \in 0 .. Len(p) /\ n \in 0 .. Len(q) /\ n < Len(p) /\ n < Len(q) /\ n + 1 = m
        /\ \A i \in 1 .. n : p[i] = q[i]
    BY <1>3, <1>4, <1>7
  <2> HIDE DEF n
  <2>4. IdLess(p[n + 1], q[n + 1]) \/ IdLess(q[n + 1], p[n + 1])
    BY <2>2, <2>3
  <2> QED
    BY <2>3, <2>4 DEF IdsLessEqual
<1> QED
  BY <1>3, <1>5, <1>6, <1>7

LEMMA IdsTransitive ==
    ASSUME NEW p \in Seq(Identifiers), NEW q \in Seq(Identifiers), NEW r \in Seq(Identifiers),
           IdsLessEqual(p, q), IdsLessEqual(q, r)
    PROVE  IdsLessEqual(p, r)
<1>1. PICK n \in 0 .. Len(p) :
          /\ n <= Len(q) /\ \A i \in 1 .. n : p[i] = q[i]
          /\ n = Len(p) \/ (n < Len(q) /\ IdLess(p[n + 1], q[n + 1]))
  BY DEF IdsLessEqual
<1>2. PICK m \in 0 .. Len(q) :
          /\ m <= Len(r) /\ \A i \in 1 .. m : q[i] = r[i]
          /\ m = Len(q) \/ (m < Len(r) /\ IdLess(q[m + 1], r[m + 1]))
  BY DEF IdsLessEqual
<1> SUFFICES \E l \in 0 .. Len(p) :
          /\ l <= Len(r) /\ \A i \in 1 .. l : p[i] = r[i]
          /\ l = Len(p) \/ (l < Len(r) /\ IdLess(p[l + 1], r[l + 1]))
  BY DEF IdsLessEqual
<1>3. CASE n = Len(p) /\ n <= m
  BY <1>1, <1>2, <1>3
<1>4. CASE n # Len(p) /\ n < m
  <2>1. q[n + 1] = r[n + 1] /\ n < Len(r)
    BY <1>1, <1>2, <1>4
  <2> QED
    BY <1>1, <1>2, <1>4, <2>1
<1>5. CASE n # Len(p) /\ n = m
  <2>1. /\ p[n + 1] \in Identifiers /\ q[n + 1] \in Identifiers /\ r[n + 1] \in Identifiers
        /\ IdLess(p[n + 1], q[n + 1]) /\ IdLess(q[n + 1], r[n + 1]) /\ n < Len(r)
    BY <1>1, <1>2, <1>5
  <2>2. IdLess(p[n + 1], r[n + 1])
    BY <2>1, IdOrder
  <2> QED
    BY <1>1, <1>2, <1>5, <2>1, <2>2
<1>6. CASE m < n
  <2>1. p[m + 1] = q[m + 1] /\ m < Len(r) /\ IdLess(q[m + 1], r[m + 1])
    BY <1>1, <1>2, <1>6
  <2> QED
    BY <1>1, <1>2, <1>6, <2>1
<1> QED
  BY <1>1, <1>2, <1>3, <1>4, <1>5, <1>6

LEMMA IdsAntisymmetric ==
    ASSUME NEW p \in Seq(Identifiers), NEW q \in Seq(Identifiers), IdsLessEqual(p, q), IdsLessEqual(q, p)
    PROVE  p = q
<1>1. PICK n \in 0 .. Len(p) :
          /\ n <= Len(q) /\ \A i \in 1 .. n : p[i] = q[i]
          /\ n = Len(p) \/ (n < Len(q) /\ IdLess(p[n + 1], q[n + 1]))
  BY DEF IdsLessEqual
<1>2. PICK m \in 0 .. Len(q) :
          /\ m <= Len(p) /\ \A i \in 1 .. m : q[i] = p[i]
          /\ m = Len(q) \/ (m < Len(p) /\ IdLess(q[m + 1], p[m + 1]))
  BY DEF IdsLessEqual
<1>3. CASE n = Len(p) /\ m = Len(q)
  BY <1>1, <1>2, <1>3
<1>4. CASE n # Len(p)
  <2>1. p[n + 1] \in Identifiers /\ q[n + 1] \in Identifiers /\ IdLess(p[n + 1], q[n + 1])
    BY <1>1, <1>4
  <2>2. p[n + 1] # q[n + 1] /\ ~IdLess(q[n + 1], p[n + 1])
    BY <2>1, IdOrder
  <2>3. m <= n
    BY <1>1, <1>2, <2>2
  <2>4. m < Len(q) /\ IdLess(q[m + 1], p[m + 1])
    BY <1>1, <1>2, <1>4, <2>3
  <2>5. m # n
    BY <2>2, <2>4
  <2>6. q[m + 1] = p[m + 1] /\ q[m + 1] \in Identifiers
    BY <1>1, <1>2, <2>3, <2>4, <2>5
  <2> QED
    BY <2>4, <2>6, IdOrder
<1>5. CASE m # Len(q) /\ n = Len(p)
  <2>1. q[m + 1] \in Identifiers /\ p[m + 1] \in Identifiers /\ IdLess(q[m + 1], p[m + 1]) /\ m < Len(p)
    BY <1>1, <1>2, <1>5
  <2>2. p[m + 1] = q[m + 1]
    BY <1>1, <1>2, <1>5, <2>1
  <2> QED
    BY <2>1, <2>2, IdOrder
<1> QED
  BY <1>3, <1>4, <1>5

\* The three numbers, the first that differs deciding.
CoreBelow(x, y) == \E i \in 1 .. 3 : x[i] < y[i] /\ \A j \in 1 .. i - 1 : x[j] = y[j]

Cores == [1 .. 3 -> Nat]
CoreLess(x, y) ==
    \/ x[1] < y[1]
    \/ x[1] = y[1] /\ x[2] < y[2]
    \/ x[1] = y[1] /\ x[2] = y[2] /\ x[3] < y[3]

LEMMA CoreBelowIs == ASSUME NEW x \in Cores, NEW y \in Cores PROVE CoreBelow(x, y) <=> CoreLess(x, y)
<1> USE DEF Cores
<1>1. CoreBelow(x, y) => CoreLess(x, y)
  BY DEF CoreBelow, CoreLess
<1>2. x[1] < y[1] => CoreBelow(x, y)
  <2>1. x[1] < y[1] => 1 \in 1 .. 3 /\ x[1] < y[1] /\ \A j \in 1 .. 1 - 1 : x[j] = y[j]
    OBVIOUS
  <2> QED
    BY <2>1 DEF CoreBelow
<1>3. x[1] = y[1] /\ x[2] < y[2] => CoreBelow(x, y)
  <2>1. x[1] = y[1] /\ x[2] < y[2] => 2 \in 1 .. 3 /\ x[2] < y[2] /\ \A j \in 1 .. 2 - 1 : x[j] = y[j]
    OBVIOUS
  <2> QED
    BY <2>1 DEF CoreBelow
<1>4. x[1] = y[1] /\ x[2] = y[2] /\ x[3] < y[3] => CoreBelow(x, y)
  <2>1. x[1] = y[1] /\ x[2] = y[2] /\ x[3] < y[3] => 3 \in 1 .. 3 /\ x[3] < y[3] /\ \A j \in 1 .. 3 - 1 : x[j] = y[j]
    OBVIOUS
  <2> QED
    BY <2>1 DEF CoreBelow
<1> QED
  BY <1>1, <1>2, <1>3, <1>4 DEF CoreLess

LEMMA CoreEqual ==
    ASSUME NEW x \in Cores, NEW y \in Cores, x[1] = y[1], x[2] = y[2], x[3] = y[3]
    PROVE  x = y
<1>1. \A i \in 1 .. 3 : x[i] = y[i]
  OBVIOUS
<1> QED
  BY <1>1 DEF Cores

LEMMA CoreOrder ==
    ASSUME NEW x \in Cores, NEW y \in Cores, NEW z \in Cores
    PROVE  /\ ~CoreLess(x, x)
           /\ CoreLess(x, y) \/ CoreLess(y, x) \/ x = y
           /\ ~(CoreLess(x, y) /\ CoreLess(y, x))
           /\ CoreLess(x, y) /\ CoreLess(y, z) => CoreLess(x, z)
<1>1. \A c \in {x, y, z} : c[1] \in Nat /\ c[2] \in Nat /\ c[3] \in Nat
  BY DEF Cores
<1>2. CoreLess(x, y) \/ CoreLess(y, x) \/ x = y
  BY <1>1, CoreEqual DEF CoreLess
<1> QED
  BY <1>1, <1>2 DEF CoreLess

LEMMA CoreType ==
    ASSUME NEW v \in Versions
    PROVE  CoreOf(v) \in Cores /\ VersionParses(v)
  BY DEF Versions, CoreOf, VersionParses, Cores

\* r_semver_less_equal orders all versions it can parse: any two can be compared, two that
\* are each at most the other are the same but for zeros at the end, and the order is
\* transitive, so that a bundle above one that meets the minimum meets it too.
THEOREM VersionsAreOrdered ==
    \A a, b, c \in Versions :
        /\ VersionLessEqual(a, a)
        /\ VersionLessEqual(a, b) \/ VersionLessEqual(b, a)
        /\ VersionLessEqual(a, b) /\ VersionLessEqual(b, a) => CoreOf(a) = CoreOf(b) /\ a.pre = b.pre
        /\ VersionLessEqual(a, b) /\ VersionLessEqual(b, c) => VersionLessEqual(a, c)
<1> DEFINE PreHolds(a, b) == b.pre = None \/ (a.pre # None /\ IdsLessEqual(a.pre, b.pre))
<1>1. \A a, b \in Versions : VersionLessEqual(a, b) <=>
          CoreLess(CoreOf(a), CoreOf(b)) \/ (CoreOf(a) = CoreOf(b) /\ PreHolds(a, b))
  <2> TAKE a, b \in Versions
  <2>1. VersionLessEqual(a, b) <=>
            CoreBelow(CoreOf(a), CoreOf(b)) \/ (CoreOf(a) = CoreOf(b) /\ PreHolds(a, b))
    BY CoreType DEF VersionLessEqual, CoreBelow
  <2> QED
    BY <2>1, CoreType, CoreBelowIs
<1>2. \A a, b, c \in Versions :
          /\ PreHolds(a, a)
          /\ PreHolds(a, b) \/ PreHolds(b, a)
          /\ PreHolds(a, b) /\ PreHolds(b, a) => a.pre = b.pre
          /\ PreHolds(a, b) /\ PreHolds(b, c) => PreHolds(a, c)
  <2> TAKE a, b, c \in Versions
  <2>1. \A v \in {a, b, c} : v.pre # None => v.pre \in Seq(Identifiers)
    BY DEF Versions
  <2> QED
    BY <2>1, IdsReflexive, IdsTotal, IdsAntisymmetric, IdsTransitive
<1> HIDE DEF PreHolds
<1> TAKE a, b, c \in Versions
<1>3. \A v \in {a, b, c} : CoreOf(v) \in Cores
  BY CoreType
<1> QED
  BY <1>1, <1>2, <1>3, CoreOrder

----------------------------------------------------------------------------
(* The order of semver.org.                                                 *)

LEMMA CoreParsed ==
    ASSUME NEW v, VersionParses(v)
    PROVE  CoreOf(v) \in Cores
  BY DEF CoreOf, VersionParses, Cores

\* Of two lists of identifiers one is at most the other unless it is the newer one.
LEMMA IdsOrder ==
    ASSUME NEW p \in Seq(Identifiers), NEW q \in Seq(Identifiers)
    PROVE  IdsLessEqual(p, q) <=> ~IdsOlder(q, p)
<1>1. ASSUME IdsLessEqual(p, q), IdsOlder(q, p) PROVE FALSE
  <2>1. PICK n \in 0 .. Len(p) :
            /\ n <= Len(q) /\ \A i \in 1 .. n : p[i] = q[i]
            /\ n = Len(p) \/ (n < Len(q) /\ IdLess(p[n + 1], q[n + 1]))
    BY <1>1 DEF IdsLessEqual
  <2>2. PICK m \in 1 .. Len(p) :
            /\ m > Len(q) \/ IdOlder(q[m], p[m])
            /\ \A k \in 1 .. m - 1 : k <= Len(q) /\ q[k] = p[k]
    BY <1>1 DEF IdsOlder
  <2>3. CASE m <= n
    <3>1. m <= Len(q) /\ p[m] = q[m] /\ p[m] \in Identifiers
      BY <2>1, <2>2, <2>3
    <3> QED
      BY <2>2, <3>1 DEF IdOlder, Identifiers
  <2>4. CASE m = n + 1
    <3>1. /\ n < Len(q) /\ IdLess(p[m], q[m]) /\ IdOlder(q[m], p[m])
          /\ p[m] \in Identifiers /\ q[m] \in Identifiers
      BY <2>1, <2>2, <2>4
    <3> QED
      BY <3>1 DEF IdOlder, IdLess, Identifiers
  <2>5. CASE m > n + 1
    <3>1. n + 1 \in 1 .. m - 1 /\ n # Len(p)
      BY <2>1, <2>2, <2>5
    <3>2. /\ q[n + 1] = p[n + 1] /\ IdLess(p[n + 1], q[n + 1])
          /\ p[n + 1] \in Identifiers
      BY <2>1, <2>2, <3>1
    <3> QED
      BY <3>2, IdOrder
  <2> QED
    BY <2>1, <2>2, <2>3, <2>4, <2>5
<1>2. ASSUME ~IdsLessEqual(p, q) PROVE IdsOlder(q, p)
  <2>1. IdsLessEqual(q, p) /\ p # q
    BY <1>2, IdsTotal, IdsReflexive
  <2>2. PICK n \in 0 .. Len(q) :
            /\ n <= Len(p) /\ \A i \in 1 .. n : q[i] = p[i]
            /\ n = Len(q) \/ (n < Len(p) /\ IdLess(q[n + 1], p[n + 1]))
    BY <2>1 DEF IdsLessEqual
  <2>3. n < Len(p)
    BY <2>1, <2>2
  <2> DEFINE m == n + 1
  <2>4. /\ m \in 1 .. Len(p) /\ \A k \in 1 .. m - 1 : k <= Len(q) /\ q[k] = p[k]
        /\ m > Len(q) \/ (m <= Len(q) /\ IdLess(q[m], p[m]))
    BY <2>2, <2>3
  <2>5. m <= Len(q) /\ IdLess(q[m], p[m]) => IdOlder(q[m], p[m])
    <3> SUFFICES ASSUME m <= Len(q), IdLess(q[m], p[m]) PROVE IdOlder(q[m], p[m])
      OBVIOUS
    <3>1. q[m] \in Identifiers /\ p[m] \in Identifiers
      BY <2>4
    <3> QED
      BY <3>1 DEF IdLess, IdOlder, Identifiers
  <2> HIDE DEF m
  <2> QED
    BY <2>4, <2>5 DEF IdsOlder
<1> QED
  BY <1>1, <1>2

\* r_semver_less_equal is the order of semver.org: it lets a pair of versions pass exactly if
\* the second one is not the older one, for all versions it can parse.
THEOREM OrderIsSemver ==
    \A v, w : /\ v # None /\ VersionParses(v) /\ IsVersion(v)
              /\ w # None /\ VersionParses(w) /\ IsVersion(w)
              => (VersionLessEqual(v, w) <=> ~Older(w, v))
<1> SUFFICES ASSUME NEW v, VersionParses(v), IsVersion(v), NEW w, VersionParses(w), IsVersion(w)
             PROVE  VersionLessEqual(v, w) <=> ~Older(w, v)
  OBVIOUS
<1> DEFINE x == CoreOf(v)
           y == CoreOf(w)
           NoNewer == w.pre = None \/ (v.pre # None /\ IdsLessEqual(v.pre, w.pre))
           Newer == w.pre # None /\ (v.pre = None \/ IdsOlder(w.pre, v.pre))
<1>1. x \in Cores /\ y \in Cores
  BY CoreParsed
<1>2. VersionLessEqual(v, w) <=> CoreBelow(x, y) \/ (x = y /\ NoNewer)
  BY DEF VersionLessEqual, CoreBelow
<1>3. Older(w, v) <=> CoreLess(y, x) \/ (x = y /\ Newer)
  BY DEF Older, CoreLess
<1>4. Newer <=> ~NoNewer
  BY IdsOrder DEF IsVersion
<1> HIDE DEF x, y, NoNewer, Newer
<1> QED
  BY <1>1, <1>2, <1>3, <1>4, CoreBelowIs, CoreOrder

----------------------------------------------------------------------------
(* The versions an installation compares.                                   *)

\* An installation has a bundle.
OpenedInv == step \in {"load", "link", "states", "stopped", "idle"} \/ bundle \in Bundles

LEMMA OpenedHolds == OpenedInv /\ [Next]_vars => OpenedInv'
<1> SUFFICES ASSUME OpenedInv, [Next]_vars PROVE OpenedInv'
  OBVIOUS
<1> USE DEF OpenedInv
<1>1. ASSUME NEW b \in Bundles, NEW i \in SUBSET Ignorable, Begin(b, i) PROVE OpenedInv'
  BY <1>1 DEF Begin
<1>2. ASSUME NEW line \in CmdLines, Reboot(line) PROVE OpenedInv'
  BY <1>2 DEF Reboot
<1>3. CASE Load \/ LoadRepos \/ DetermineSlotStates
  BY <1>3 DEF Load, LoadRepos, DetermineSlotStates
<1>4. CASE \/ DetermineTargetGroup \/ CheckBundle \/ Fails \/ CustomHandler \/ MakePlans
           \/ GetBootMarkSlot \/ PreInstallChecks \/ Write
  <2>1. bundle \in Bundles /\ bundle' = bundle
    BY <1>4 DEF DetermineTargetGroup, CheckBundle, Fails, CustomHandler, MakePlans,
                GetBootMarkSlot, PreInstallChecks, Write, GoesTo
  <2> QED
    BY <2>1
<1>5. ASSUME NEW s \in Slots, LinkToRoot(s) PROVE OpenedInv'
  BY <1>5 DEF LinkToRoot
<1>6. ASSUME NEW d \in Devices, Mount(d) \/ Unmount(d) PROVE OpenedInv'
  BY <1>6 DEF Mount, Unmount
<1>7. CASE UNCHANGED vars
  BY <1>7 DEF vars
<1> QED
  BY <1>1, <1>2, <1>3, <1>4, <1>5, <1>6, <1>7 DEF Next

\* The version of a bundle is the one its manifest had before "rauc bundle".
LEMMA BundleVersion ==
    ASSUME NEW b \in Bundles, b.manifest.version # None
    PROVE  IsVersion(b.manifest.version)
<1>1. CASE b \in {[made |-> FALSE, manifest |-> f.manifest, dir |-> f.dir] : f \in Foreign}
  BY <1>1, VersionsAreRead
<1>2. CASE b \notin {[made |-> FALSE, manifest |-> f.manifest, dir |-> f.dir] : f \in Foreign}
  <2>1. PICK i \in Inputs : /\ CreateBundle(i.manifest, i.dir).end = "made"
                            /\ b.manifest = CreateBundle(i.manifest, i.dir).manifest
    BY <1>2 DEF Bundles
  <2>2. IsManifest(i.manifest)
    BY InputsAreManifests
  <2>3. b.manifest = Made(i.manifest)
    <3> DEFINE m == i.manifest
               made == ConvertImages(WithChecksums(m), WithIndexes(m, Workdir(i.dir)))
    <3>1. CreateBundle(m, i.dir) = [end |-> "made", manifest |-> Made(m), dir |-> made.dir]
      BY <2>1, CreatedIs
    <3> HIDE DEF m, made
    <3>2. CreateBundle(m, i.dir).manifest = Made(m)
      BY <3>1
    <3> QED
      BY <2>1, <3>2 DEF m
  <2>4. b.manifest.version = i.manifest.version
    BY <2>2, <2>3, MadeKeys DEF ManifestKeys
  <2> QED
    BY <2>4, VersionsAreRead
<1> QED
  BY <1>1, <1>2

\* check_version_limits, verify_compatible, r_semver_less_equal: no installation goes on with
\* a bundle that is older, as semver.org has it, than the minimum version, or with another
\* system's, unless the caller said so or, for the latter, the bundle brings its own check.
THEOREM OlderBundlesStop == Spec => []NeverOlder
<1>1. Init => OpenedInv
  BY DEF Init, OpenedInv
<1>2. ASSUME IInv, OpenedInv PROVE NeverOlder
  <2>1. NeverRefused
    BY <1>2 DEF IInv, AllowedInv, NeverRefused, CompatibleHolds, VersionHolds, Planning
  <2>2. ASSUME step \in {"plan", "handler", "mark", "prechecks", "write"},
               "version" \notin ignore, conf.minVersion # None
        PROVE  /\ bundle.manifest.version # None /\ VersionParses(bundle.manifest.version)
               /\ ~Older(bundle.manifest.version, conf.minVersion)
    <3>1. /\ bundle.manifest.version # None
          /\ VersionLessEqual(conf.minVersion, bundle.manifest.version)
      BY <1>2, <2>2 DEF IInv, AllowedInv, VersionHolds, Planning
    <3>2. VersionParses(conf.minVersion) /\ VersionParses(bundle.manifest.version)
      BY <3>1 DEF VersionLessEqual
    <3>3. IsVersion(bundle.manifest.version)
      BY <1>2, <2>2, <3>1, BundleVersion DEF OpenedInv
    <3>4. IsVersion(conf.minVersion)
      BY <1>2, <2>2, VersionsAreRead DEF IInv, TypeOK
    <3> QED
      BY <2>2, <3>1, <3>2, <3>3, <3>4, OrderIsSemver
  <2> QED
    BY <2>1, <2>2 DEF NeverOlder, NeverRefused
<1> QED
  BY <1>1, <1>2, OpenedHolds, PlanInvariant, PTL DEF Spec

=============================================================================
