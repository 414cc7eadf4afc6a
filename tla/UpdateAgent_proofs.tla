------------------------- MODULE UpdateAgent_proofs -------------------------
(***************************************************************************)
(* Proofs about the chain of modules from the boot script to the agent,    *)
(* each of which extends the one before: Bootchooser, SlotUpdate,          *)
(* RaucService and UpdateAgent.                                            *)
(*                                                                         *)
(* First the boot script and RAUC's view of it, then the installer, for    *)
(* any finite set of slots, any parts, images and bundles, and any         *)
(* configuration.  Then that the service is an implementation of           *)
(* SlotUpdate and the agent uses it as one, so that what is shown of the   *)
(* installer holds with both of them; and what the two themselves          *)
(* promise, for any intervals and timeouts.                                *)
(***************************************************************************)
EXTENDS UpdateAgent, TLAPS, FiniteSetTheorems, WellFoundedInduction

----------------------------------------------------------------------------
(* The boot script (Bootchooser).                                           *)

LEMMA SlotCountNat == SlotCount \in Nat /\ SlotCount >= 1
<1>1. SlotCount \in Nat
  BY SlotsAssumption, FS_CardinalityType DEF SlotCount
<1>2. SlotCount # 0
  BY SlotsAssumption, FS_EmptySet DEF SlotCount
<1>3. QED
  BY <1>1, <1>2

\* A set of positions in ORDER has a first one.
LEMMA FirstPosition ==
    ASSUME NEW P, P \subseteq 1..SlotCount, P # {}
    PROVE  \E i \in P : \A j \in P : i <= j
<1> DEFINE Less == {ss \in Nat \X Nat : ss[1] < ss[2]}
<1>1. P \subseteq Nat
  BY SlotCountNat
<1>2. Less = OpToRel(<, Nat)
  BY DEF OpToRel
<1>3. IsWellFoundedOn(Less, Nat)
  BY <1>2, NatLessThanWellFounded, Zenon
<1> HIDE DEF Less
<1>4. PICK i \in P : \A j \in P : <<j, i>> \notin Less
  BY <1>1, <1>3, WFMin
<1>5. \A j \in P : ~(j < i)
  BY <1>1, <1>4 DEF Less
<1>6. QED
  BY <1>1, <1>5

LEMMA DefaultSlotIsSlot == DefaultSlot \in Slots
  BY PresetOrderAssumption, SlotCountNat DEF DefaultSlot, Orders

\* The scan ends at the first slot that is OK and untried.
LEMMA FirstCandidateFacts ==
    ASSUME NEW e \in Env, Candidates(e) # {}
    PROVE  /\ FirstCandidate(e) \in Candidates(e)
           /\ \A j \in Candidates(e) : FirstCandidate(e) <= j
  BY FirstPosition DEF Candidates, FirstCandidate

LEMMA ChoiceFacts ==
    ASSUME NEW e \in Env
    PROVE  /\ Choice(e) \in Slots
           /\ Candidates(e) # {} => Untried(e, Choice(e))
<1>1. CASE Candidates(e) = {}
  BY <1>1, DefaultSlotIsSlot DEF Choice
<1>2. CASE Candidates(e) # {}
  <2>1. FirstCandidate(e) \in 1..SlotCount /\ Untried(e, e.order[FirstCandidate(e)])
    BY <1>2, FirstCandidateFacts DEF Candidates
  <2>2. e.order \in [1..SlotCount -> Slots]
    BY DEF Env, Orders
  <2>3. QED
    BY <1>2, <2>1, <2>2 DEF Choice
<1>3. QED
  BY <1>1, <1>2

LEMMA UntriedIsCandidate ==
    ASSUME NEW e \in Env, NEW s \in Slots, Untried(e, s)
    PROVE  Candidates(e) # {}
<1>1. PICK i \in 1..SlotCount : e.order[i] = s
  BY DEF Env, Orders
<1>2. i \in Candidates(e)
  BY <1>1 DEF Candidates
<1>3. QED
  BY <1>2

\* Presets and fallbacks leave an environment alone in which every variable is set.
LEMMA FullEnv ==
    ASSUME NEW e \in Env
    PROVE  Fallback(LoadEnv(e)) = e
<1> DEFINE l == LoadEnv(e)
<1>1. e = [order |-> e.order, ok |-> e.ok, try |-> e.try]
  BY DEF Env
<1>2. e.ok \in [Slots -> Flag] /\ e.try \in [Slots -> Flag] /\ e.order \in Orders
  BY DEF Env
<1>3. l.order = e.order /\ l.ok = e.ok /\ l.try = e.try
  BY <1>2 DEF LoadEnv
<1> HIDE DEF l
<1>4. e.order # <<>>
  BY <1>2, SlotCountNat DEF Orders
<1>5. \A s \in Slots : e.ok[s] # "" /\ e.try[s] # ""
  BY <1>2 DEF Flag
<1>6. Fallback(l).order = e.order /\ Fallback(l).ok = e.ok /\ Fallback(l).try = e.try
  BY <1>2, <1>3, <1>4, <1>5 DEF Fallback
<1>7. Fallback(l) = [order |-> Fallback(l).order, ok |-> Fallback(l).ok, try |-> Fallback(l).try]
  BY DEF Fallback
<1>8. QED
  BY <1>1, <1>6, <1>7 DEF l

LEMMA BootSlotIsChoice ==
    ASSUME NEW e \in Env
    PROVE  BootSlot(e) = Choice(e)
  BY FullEnv DEF BootSlot

\* What save_env leaves: OK and ORDER as they were, and TRY according to which slot is
\* started.
LEMMA SavedEnvFacts ==
    ASSUME NEW e \in Env
    PROVE  /\ SavedEnv(e) \in Env
           /\ SavedEnv(e).ok = e.ok
           /\ Choice(e) = DefaultSlot =>
                 \A s \in Slots : e.ok[s] = "1" => SavedEnv(e).try[s] = "0"
           /\ Choice(e) # DefaultSlot => SavedEnv(e).try[Choice(e)] = "1"
<1> DEFINE m == MarkTried(e)
<1>1. SavedEnv(e) = ResetBooted(m, Choice(e))
  BY FullEnv DEF SavedEnv
<1>2. m \in Env /\ m.ok = e.ok
  BY DEF MarkTried, Env, Flag
<1>3. Choice(e) # DefaultSlot => m.try[Choice(e)] = "1"
  <2> SUFFICES ASSUME Choice(e) # DefaultSlot PROVE m.try[Choice(e)] = "1"
    OBVIOUS
  <2>1. Candidates(e) # {} /\ Choice(e) = e.order[FirstCandidate(e)]
    BY DEF Choice
  <2>2. FirstCandidate(e) \in 1..SlotCount
    BY <2>1, FirstCandidateFacts DEF Candidates
  <2>3. FirstCandidate(e) \in 1..FirstCandidate(e)
    BY <2>2, SlotCountNat
  <2>4. m.try = [s \in Slots |-> IF s \in {e.order[i] : i \in 1..FirstCandidate(e)}
                                  THEN "1" ELSE e.try[s]]
    BY <2>1 DEF MarkTried, Env
  <2>5. QED
    BY <2>1, <2>3, <2>4, ChoiceFacts
<1> HIDE DEF m
<1>4. CASE Choice(e) # DefaultSlot
  BY <1>1, <1>2, <1>3, <1>4 DEF ResetBooted
<1>5. CASE Choice(e) = DefaultSlot
  <2>1. SavedEnv(e) = [m EXCEPT !.try =
            [s \in Slots |-> IF m.ok[s] = "1" /\ m.try[s] = "1" THEN "0" ELSE m.try[s]]]
    BY <1>1, <1>5 DEF ResetBooted
  <2>2. \A s \in Slots : m.try[s] \in {"0", "1"}
    BY <1>2 DEF Env, Flag
  <2>3. QED
    BY <1>2, <1>5, <2>1, <2>2 DEF Env, Flag
<1>6. QED
  BY <1>4, <1>5

----------------------------------------------------------------------------
LEMMA SetStateFacts ==
    ASSUME NEW e \in Env, NEW s, NEW good \in BOOLEAN
    PROVE  /\ GrubSetState(e, s, good) \in Env
           /\ GrubSetState(e, s, good).order = e.order
           /\ GrubSetState(e, s, good).ok =
                 [e.ok EXCEPT ![s] = IF good THEN "1" ELSE "0"]
           /\ GrubSetState(e, s, good).try = [e.try EXCEPT ![s] = "0"]
  BY DEF GrubSetState, Env, Flag

\* r_mark_active decides the next boot: the slot is first in ORDER and untried.
LEMMA SetPrimaryFacts ==
    ASSUME NEW e \in Env, NEW s \in Slots, NEW f \in GrubSetPrimary(e, s)
    PROVE  /\ f \in Env
           /\ f.ok = [e.ok EXCEPT ![s] = "1"]
           /\ f.try = [e.try EXCEPT ![s] = "0"]
           /\ BootSlot(f) = s
<1>1. f \in Env /\ f.ok = [e.ok EXCEPT ![s] = "1"] /\ f.try = [e.try EXCEPT ![s] = "0"]
  BY DEF GrubSetPrimary, OrdersWithPrimary, Env, Flag
<1>2. f.order[1] = s
  BY DEF GrubSetPrimary, OrdersWithPrimary
<1>3. 1 \in Candidates(f)
  BY <1>1, <1>2, SlotCountNat DEF Candidates, Untried, Env
<1>4. FirstCandidate(f) = 1
  <2>1. FirstCandidate(f) \in 1..SlotCount /\ FirstCandidate(f) <= 1
    BY <1>1, <1>3, FirstCandidateFacts DEF Candidates
  <2>2. QED
    BY <2>1, SlotCountNat
<1>5. QED
  BY <1>1, <1>2, <1>3, <1>4, BootSlotIsChoice DEF Choice

\* The slot that RAUC reports as primary (bootchooser.c:561) is the one that grub.cfg
\* starts next: the C code and the boot script read the environment alike.
THEOREM PrimaryIsNextBoot ==
    \A e \in Env : GrubGetPrimary(e) \in {NoSlot, BootSlot(e)}
<1> SUFFICES ASSUME NEW e \in Env PROVE GrubGetPrimary(e) \in {NoSlot, BootSlot(e)}
  OBVIOUS
<1> DEFINE good == {i \in DOMAIN e.order : e.ok[e.order[i]] = "1" /\ e.try[e.order[i]] = "0"}
<1>1. good = Candidates(e)
  BY DEF Candidates, Untried, Env, Orders
<1>2. CASE good = {}
  BY <1>2 DEF GrubGetPrimary
<1>3. CASE good # {}
  BY <1>1, <1>3, BootSlotIsChoice DEF GrubGetPrimary, Choice, FirstCandidate
<1>4. QED
  BY <1>2, <1>3

----------------------------------------------------------------------------
(* The installer (SlotUpdate).                                              *)

\* The phases between the choice of the target and the end of the installation, those
\* between the marking of the target and its activation, and those of one image.
TargetPhases == {"mark", "slots", "write", "writing", "written", "post", "succeeded"}
LoopPhases == {"slots", "write", "writing", "written"}
ImagePhases == {"write", "writing", "written"}

(* The inductive invariant.  Its first half needs nothing from the callers. *)

\* The installer runs in a booted system, on a bundle, and never on the running slot.
JobInv ==
    /\ phase # "idle" => machine = "up" /\ job.bundle \in Bundles
    /\ phase \in TargetPhases => job.target \in Slots \ {booted} /\ job.todo \subseteq DOMAIN job.bundle
    /\ phase \in ImagePhases => job.part \in job.todo
    /\ phase \in {"post", "succeeded"} => job.todo = {}

\* While an image is written, neither status of its part says "ok".
ImageInv ==
    phase \in ImagePhases =>
        /\ mem[job.target][job.part].status # "ok"
        /\ disk[job.target][job.part].status # "ok"

\* The parts the loop has been through hold what the bundle brought.
DoneInv ==
    /\ phase \in TargetPhases =>
           \A p \in DOMAIN job.bundle \ job.todo : content[job.target][p] = job.bundle[p]
    /\ phase = "written" => content[job.target][job.part] = job.bundle[job.part]

\* The target is bad from before the first write until it is activated, and GRUB's next
\* choice from then on.
BootInv ==
    /\ phase \in LoopPhases /\ RootPart \in DOMAIN job.bundle => env.ok[job.target] = "0"
    /\ phase \in {"post", "succeeded"} /\ ~NothingToActivate => BootSlot(env) = job.target
    /\ phase \in {"post", "succeeded"} /\ RootPart \in DOMAIN job.bundle /\ ~ActivateInstalled =>
           env.ok[job.target] = "0"

BaseInv == TypeOK /\ JobInv /\ ImageInv /\ StatusTruth /\ DoneInv /\ BootInv

(* Its second half needs full bundles and safe marks.                       *)
RunningSound == machine = "up" => Sound(content[booted])

SafeInv == OkSound /\ RunningSound

\* Needed for InterruptSafe: an installation keeps the running slot confirmed.
ConfirmedInv == phase # "idle" => Untried(env, booted)

\* Needed for ManualRollback: while menu entry 0 runs, no OK slot has been tried.
RunningDefault ==
    machine \in {"starting", "up"} /\ booted = DefaultSlot =>
        \A s \in Slots : env.ok[s] = "1" => env.try[s] = "0"

\* Needed for OneAttempt: a started slot other than menu entry 0 keeps its TRY.
FailedTried ==
    machine \in {"starting", "failed"} /\ booted # DefaultSlot => env.try[booted] = "1"

----------------------------------------------------------------------------
LEMMA BundleFacts ==
    ASSUME NEW b \in Bundles
    PROVE  DOMAIN b \subseteq Parts /\ \A p \in DOMAIN b : b[p] \in Images
  BY BundlesAssumption

LEMMA NoJobFacts ==
    /\ NoJob \in [bundle : Bundles \cup {NoBundle}, target : Slots \cup {NoSlot},
                  todo : SUBSET Parts, part : Parts]
    /\ NoJob.todo = {}
  BY PartsAssumption DEF NoJob

LEMMA InitBase == Init => BaseInv
<1> SUFFICES ASSUME Init PROVE BaseInv
  OBVIOUS
<1>1. env \in Env
  BY PresetOrderAssumption DEF Init, Env, Flag
<1>2. content \in [Slots -> [Parts -> Images \cup {Broken}]]
  BY FactoryAssumption DEF Init
<1>3. disk \in [Slots -> [Parts -> SlotStatus]] /\ mem = disk
  BY DEF Init, SlotStatus, NoStatus, Statuses
<1>4. TypeOK
  BY <1>1, <1>2, <1>3, NoJobFacts, DefaultSlotIsSlot DEF Init, TypeOK, Phases
<1>5. StatusTruth
  <2>1. \A s \in Slots, p \in Parts : disk[s][p].status = "" /\ mem[s][p].status = ""
    BY DEF Init, NoStatus
  <2>2. QED
    BY <2>1 DEF StatusTruth
<1>6. JobInv /\ ImageInv /\ DoneInv /\ BootInv
  BY DEF Init, JobInv, ImageInv, DoneInv, BootInv, TargetPhases, LoopPhases, ImagePhases
<1>7. QED
  BY <1>4, <1>5, <1>6 DEF BaseInv

\* The actions after which the installer is idle, with nothing but the machine and the
\* environment changed, and the daemon's memory read back.
LEMMA IdleBase ==
    ASSUME BaseInv, phase' = "idle", job' \in {job, NoJob}, env' \in Env,
           machine' \in {"off", "failed", "starting", "up"}, booted' \in Slots,
           mem' \in {mem, disk}, disk' \in {mem, disk}, content' = content
    PROVE  BaseInv'
<1>1. TypeOK'
  BY NoJobFacts DEF BaseInv, TypeOK, Phases
<1>2. StatusTruth'
  BY DEF BaseInv, StatusTruth
<1>3. JobInv' /\ ImageInv' /\ DoneInv' /\ BootInv'
  BY DEF JobInv, ImageInv, DoneInv, BootInv, TargetPhases, LoopPhases, ImagePhases
<1>4. QED
  BY <1>1, <1>2, <1>3 DEF BaseInv

\* The steps of the installer that only move it on, or set what GRUB reads.
LEMMA MachineBase ==
    ASSUME BaseInv, GrubBoot \/ ComeUp \/ PowerLoss \/ BootFails \/ DaemonRestart \/ InstallDone
    PROVE  BaseInv'
<1>1. CASE GrubBoot
  <2>1. phase = "idle"
    BY <1>1 DEF GrubBoot, BaseInv, JobInv
  <2>2. env' \in Env /\ booted' \in Slots
    BY <1>1, SavedEnvFacts, BootSlotIsChoice, ChoiceFacts DEF GrubBoot, BaseInv, TypeOK
  <2>3. QED
    BY <1>1, <2>1, <2>2, IdleBase DEF GrubBoot
<1>2. CASE ComeUp
  <2>1. phase = "idle"
    BY <1>2 DEF ComeUp, BaseInv, JobInv
  <2>2. QED
    BY <1>2, <2>1, IdleBase DEF ComeUp, BaseInv, TypeOK
<1>3. CASE PowerLoss \/ BootFails
  BY <1>3, IdleBase DEF PowerLoss, BootFails, GoDown, ForgetDaemonState, BaseInv, TypeOK
<1>4. CASE DaemonRestart
  BY <1>4, IdleBase DEF DaemonRestart, ForgetDaemonState, BaseInv, TypeOK
<1>5. CASE InstallDone
  BY <1>5, IdleBase DEF InstallDone, BaseInv, TypeOK
<1>6. QED
  BY <1>1, <1>2, <1>3, <1>4, <1>5

LEMMA MarkBase ==
    ASSUME BaseInv, NEW state, NEW identifier, Mark(state, identifier)
    PROVE  BaseInv'
<1>1. PICK s \in SlotsIdentifiedBy(identifier) :
        \/ env' = GrubSetState(env, s, TRUE) /\ UNCHANGED disk
        \/ env' = GrubSetState(env, s, FALSE) /\ UNCHANGED disk
        \/ MarkActive(s)
  BY DEF Mark
<1>2. s \in Slots
  BY DEF SlotsIdentifiedBy, BaseInv, TypeOK
<1>3. env' \in Env
  <2>1. env \in Env
    BY DEF BaseInv, TypeOK
  <2>2. \A good \in BOOLEAN : GrubSetState(env, s, good) \in Env
    BY <2>1, SetStateFacts
  <2>3. \A f \in GrubSetPrimary(env, s) : f \in Env
    BY <1>2, <2>1, SetPrimaryFacts
  <2>4. QED
    BY <1>1, <2>2, <2>3 DEF MarkActive
<1>4. disk' \in {mem, disk}
  BY <1>1 DEF MarkActive
<1>5. QED
  BY <1>3, <1>4, IdleBase DEF Mark, BaseInv, TypeOK

LEMMA StartInstallBase ==
    ASSUME BaseInv, NEW b \in Bundles, StartInstall(b)
    PROVE  BaseInv'
<1>1. job'.bundle = b /\ job'.todo = {} /\ phase' = "check" /\ machine = "up"
  BY DEF StartInstall, NoJob
<1>2. TypeOK'
  BY <1>1, NoJobFacts DEF StartInstall, BaseInv, TypeOK, Phases
<1>3. JobInv' /\ ImageInv' /\ DoneInv' /\ BootInv'
  BY <1>1 DEF StartInstall, JobInv, ImageInv, DoneInv, BootInv,
              TargetPhases, LoopPhases, ImagePhases
<1>4. StatusTruth'
  BY DEF StartInstall, BaseInv, StatusTruth
<1>5. QED
  BY <1>2, <1>3, <1>4 DEF BaseInv

\* Reaching "failed", whatever else a step does to the statuses, leaves no obligation but
\* their truth.
LEMMA FailedBase ==
    ASSUME BaseInv, phase # "idle", phase' = "failed", job' = job, UNCHANGED <<env, machine, booted, content>>,
           mem' \in [Slots -> [Parts -> SlotStatus]], disk' \in {mem', disk},
           \A s \in Slots, p \in Parts :
               mem'[s][p].status = "ok" => content[s][p] = mem'[s][p].digest
    PROVE  BaseInv'
<1>1. TypeOK'
  BY DEF BaseInv, TypeOK, Phases
<1>2. JobInv' /\ ImageInv' /\ DoneInv' /\ BootInv'
  BY DEF BaseInv, JobInv, ImageInv, DoneInv, BootInv, TargetPhases, LoopPhases, ImagePhases
<1>3. StatusTruth'
  BY DEF BaseInv, StatusTruth
<1>4. QED
  BY <1>1, <1>2, <1>3 DEF BaseInv

LEMMA GoToBase ==
    ASSUME BaseInv,
           RejectBundle \/ MarkTargetBadFails \/ SkipActivate \/ ActivateFails \/ PostInstall
    PROVE  BaseInv'
<1>1. TypeOK'
  BY DEF BaseInv, TypeOK, Phases, GoTo,
         RejectBundle, MarkTargetBadFails, SkipActivate, ActivateFails, PostInstall
<1>2. StatusTruth'
  BY DEF BaseInv, StatusTruth, GoTo,
         RejectBundle, MarkTargetBadFails, SkipActivate, ActivateFails, PostInstall
<1>3. JobInv' /\ ImageInv' /\ DoneInv' /\ BootInv'
  <2>1. CASE SkipActivate
    BY <2>1 DEF BaseInv, JobInv, ImageInv, DoneInv, BootInv, TargetPhases, LoopPhases, ImagePhases,
                SkipActivate, AllPartsDone, NothingToActivate, GoTo
  <2>2. CASE PostInstall
    BY <2>2 DEF BaseInv, JobInv, ImageInv, DoneInv, BootInv, TargetPhases, LoopPhases, ImagePhases,
                PostInstall, NothingToActivate, GoTo
  <2>3. CASE RejectBundle \/ MarkTargetBadFails \/ ActivateFails
    BY <2>3 DEF BaseInv, JobInv, ImageInv, DoneInv, BootInv, TargetPhases, LoopPhases, ImagePhases,
                RejectBundle, MarkTargetBadFails, ActivateFails, AllPartsDone, GoTo
  <2>4. QED
    BY <2>1, <2>2, <2>3
<1>4. QED
  BY <1>1, <1>2, <1>3 DEF BaseInv

LEMMA AcceptBundleBase ==
    ASSUME BaseInv, AcceptBundle
    PROVE  BaseInv'
<1>1. PICK t \in Slots \ {booted} :
        job' = [job EXCEPT !.target = t, !.todo = DOMAIN job.bundle]
  BY DEF AcceptBundle
<1>2. job.bundle \in Bundles /\ machine = "up"
  BY DEF AcceptBundle, BaseInv, JobInv
<1>3. /\ job'.target = t /\ job'.todo = DOMAIN job.bundle /\ job'.bundle = job.bundle
      /\ job'.part = job.part /\ job'.part \in Parts
  BY <1>1 DEF BaseInv, TypeOK
<1>4. DOMAIN job.bundle \subseteq Parts
  BY <1>2, BundleFacts
<1>5. TypeOK'
  BY <1>1, <1>2, <1>4 DEF AcceptBundle, BaseInv, TypeOK, Phases
<1>6. StatusTruth'
  BY DEF AcceptBundle, BaseInv, StatusTruth
<1>7. JobInv' /\ ImageInv' /\ DoneInv' /\ BootInv'
  BY <1>2, <1>3 DEF AcceptBundle, JobInv, ImageInv, DoneInv, BootInv,
                    TargetPhases, LoopPhases, ImagePhases
<1>8. QED
  BY <1>5, <1>6, <1>7 DEF BaseInv

LEMMA MarkTargetBadBase ==
    ASSUME BaseInv, MarkTargetBad
    PROVE  BaseInv'
<1>1. env' \in Env /\ job.target \in Slots /\ env'.ok = [env.ok EXCEPT ![job.target] = "0"]
  BY SetStateFacts DEF MarkTargetBad, BaseInv, TypeOK, JobInv, TargetPhases
<1>2. env'.ok[job.target] = "0"
  BY <1>1 DEF BaseInv, TypeOK, Env
<1>3. TypeOK'
  BY <1>1 DEF MarkTargetBad, BaseInv, TypeOK, Phases
<1>4. StatusTruth'
  BY DEF MarkTargetBad, BaseInv, StatusTruth
<1>5. JobInv' /\ ImageInv' /\ DoneInv' /\ BootInv'
  BY <1>2 DEF MarkTargetBad, BaseInv, JobInv, ImageInv, DoneInv, BootInv,
              TargetPhases, LoopPhases, ImagePhases
<1>6. QED
  BY <1>3, <1>4, <1>5 DEF BaseInv

----------------------------------------------------------------------------
\* What a step does to the statuses of the part it is at.
LEMMA SetStatusFacts ==
    ASSUME TypeOK, job.target \in Slots, NEW p \in Parts, NEW st \in SlotStatus, SetStatus(p, st)
    PROVE  /\ mem' \in [Slots -> [Parts -> SlotStatus]]
           /\ mem'[job.target][p] = st
           /\ \A s \in Slots, q \in Parts : s # job.target \/ q # p => mem'[s][q] = mem[s][q]
  BY DEF TypeOK, SetStatus

\* The image is in place, so its status may say so.
LEMMA RecordOkBase ==
    ASSUME BaseInv, NEW p \in job.todo, phase \in {"slots", "written"},
           content[job.target][p] = job.bundle[p], RecordOk(p)
    PROVE  BaseInv'
<1> DEFINE t == job.target
           st == [status |-> "ok", digest |-> job.bundle[p]]
<1>1. t \in Slots \ {booted} /\ job.bundle \in Bundles /\ machine = "up" /\ job.todo \subseteq DOMAIN job.bundle
  BY DEF BaseInv, JobInv, TargetPhases
<1>2. p \in Parts /\ job.bundle[p] \in Images
  BY <1>1, BundleFacts
<1>3. st \in SlotStatus
  BY <1>2 DEF SlotStatus, Statuses
<1>4. SetStatus(p, st)
  BY DEF RecordOk
<1> HIDE DEF st
<1>5. /\ mem' \in [Slots -> [Parts -> SlotStatus]]
      /\ mem'[t][p] = st
      /\ \A s \in Slots, q \in Parts : s # t \/ q # p => mem'[s][q] = mem[s][q]
  BY <1>1, <1>2, <1>3, <1>4, SetStatusFacts DEF BaseInv
<1>6. \A s \in Slots, q \in Parts :
        mem'[s][q].status = "ok" => content[s][q] = mem'[s][q].digest
  <2> SUFFICES ASSUME NEW s \in Slots, NEW q \in Parts, mem'[s][q].status = "ok"
               PROVE  content[s][q] = mem'[s][q].digest
    OBVIOUS
  <2>1. CASE s = t /\ q = p
    BY <2>1, <1>5 DEF st
  <2>2. CASE ~(s = t /\ q = p)
    BY <2>2, <1>5 DEF BaseInv, StatusTruth
  <2>3. QED
    BY <2>1, <2>2
<1>7. CASE phase' = "failed"
  BY <1>5, <1>6, <1>7, FailedBase DEF RecordOk
<1>8. CASE phase' = "slots" /\ disk' = mem' /\ job' = [job EXCEPT !.todo = @ \ {p}]
  <2>1. /\ job'.bundle = job.bundle /\ job'.target = t /\ job'.part = job.part
        /\ job'.todo = job.todo \ {p}
    BY <1>8 DEF BaseInv, TypeOK
  <2>2. TypeOK'
    BY <1>5, <1>8, <2>1 DEF RecordOk, BaseInv, TypeOK, Phases
  <2>3. StatusTruth'
    BY <1>6, <1>8 DEF RecordOk, StatusTruth
  <2>4. JobInv' /\ ImageInv' /\ BootInv'
    BY <1>1, <1>8, <2>1 DEF RecordOk, BaseInv, JobInv, ImageInv, BootInv,
                           TargetPhases, LoopPhases, ImagePhases
  <2>5. DoneInv'
    <3>1. \A q \in DOMAIN job.bundle \ (job.todo \ {p}) : content[t][q] = job.bundle[q]
      BY DEF BaseInv, DoneInv, TargetPhases
    <3>2. QED
      BY <1>8, <2>1, <3>1 DEF RecordOk, DoneInv
  <2>6. QED
    BY <2>2, <2>3, <2>4, <2>5 DEF BaseInv
<1>9. QED
  BY <1>7, <1>8 DEF RecordOk

LEMMA SkipImageBase ==
    ASSUME BaseInv, NEW p \in Parts, SkipImage(p)
    PROVE  BaseInv'
<1>1. p \in job.todo /\ job.target \in Slots
  BY DEF SkipImage, BaseInv, JobInv, TargetPhases
<1>2. content[job.target][p] = job.bundle[p]
  BY <1>1 DEF SkipImage, UpToDate, BaseInv, StatusTruth
<1>3. QED
  BY <1>1, <1>2, RecordOkBase DEF SkipImage

LEMMA SaveOkBase ==
    ASSUME BaseInv, SaveOk
    PROVE  BaseInv'
<1>1. job.part \in job.todo /\ content[job.target][job.part] = job.bundle[job.part]
  BY DEF SaveOk, BaseInv, JobInv, DoneInv, ImagePhases
<1>2. QED
  BY <1>1, RecordOkBase DEF SaveOk

\* A status other than "ok" is never untrue.
LEMMA NotOkStatus ==
    ASSUME BaseInv, job.target \in Slots, NEW p \in Parts, NEW st \in SlotStatus,
           st.status # "ok", SetStatus(p, st)
    PROVE  /\ mem' \in [Slots -> [Parts -> SlotStatus]]
           /\ mem'[job.target][p] = st
           /\ \A s \in Slots, q \in Parts :
                 mem'[s][q].status = "ok" => content[s][q] = mem'[s][q].digest
<1>1. /\ mem' \in [Slots -> [Parts -> SlotStatus]]
      /\ mem'[job.target][p] = st
      /\ \A s \in Slots, q \in Parts : s # job.target \/ q # p => mem'[s][q] = mem[s][q]
  BY SetStatusFacts DEF BaseInv
<1>2. QED
  BY <1>1 DEF BaseInv, StatusTruth

LEMMA SavePendingBase ==
    ASSUME BaseInv, NEW p \in Parts, SavePending(p)
    PROVE  BaseInv'
<1> DEFINE t == job.target
           pending == [status |-> "pending", digest |-> NoDigest]
           update == [status |-> "update", digest |-> NoDigest]
<1>1. /\ t \in Slots \ {booted} /\ job.bundle \in Bundles /\ machine = "up"
      /\ p \in job.todo /\ job.todo \subseteq DOMAIN job.bundle /\ phase = "slots"
  BY DEF SavePending, BaseInv, JobInv, TargetPhases
<1>2. /\ pending \in SlotStatus /\ update \in SlotStatus
      /\ pending.status # "ok" /\ update.status # "ok"
      /\ [pending EXCEPT !.status = "update"] = update
  BY DEF SlotStatus, Statuses
<1>3. CASE /\ disk' = [mem EXCEPT ![t][p] = pending] /\ SetStatus(p, update)
           /\ phase' = "write" /\ job' = [job EXCEPT !.part = p]
           /\ UNCHANGED <<env, content, machine, booted>>
  <2>1. /\ job'.bundle = job.bundle /\ job'.target = t /\ job'.part = p /\ job'.todo = job.todo
    BY <1>3 DEF BaseInv, TypeOK
  <2>2. /\ mem' \in [Slots -> [Parts -> SlotStatus]]
        /\ mem'[t][p] = update
        /\ \A s \in Slots, q \in Parts :
              mem'[s][q].status = "ok" => content[s][q] = mem'[s][q].digest
    BY <1>1, <1>2, <1>3, NotOkStatus
  <2>3. /\ disk' \in [Slots -> [Parts -> SlotStatus]]
        /\ disk'[t][p] = pending
        /\ \A s \in Slots, q \in Parts : s # t \/ q # p => disk'[s][q] = mem[s][q]
    BY <1>1, <1>2, <1>3 DEF BaseInv, TypeOK
  <2>4. StatusTruth'
    <3>1. \A s \in Slots, q \in Parts :
            disk'[s][q].status = "ok" => content[s][q] = disk'[s][q].digest
      BY <1>2, <2>3 DEF BaseInv, StatusTruth
    <3>2. QED
      BY <1>3, <2>2, <3>1 DEF StatusTruth
  <2>5. TypeOK'
    BY <1>3, <2>1, <2>2, <2>3 DEF BaseInv, TypeOK, Phases
  <2>6. ImageInv'
    BY <1>2, <2>1, <2>2, <2>3 DEF ImageInv
  <2>7. JobInv' /\ DoneInv' /\ BootInv'
    BY <1>1, <1>3, <2>1 DEF BaseInv, JobInv, DoneInv, BootInv, TargetPhases, LoopPhases, ImagePhases
  <2>8. QED
    BY <2>4, <2>5, <2>6, <2>7 DEF BaseInv
<1>4. CASE SetStatus(p, pending) /\ phase' = "failed" /\ UNCHANGED <<disk, job, env, content, machine, booted>>
  <2>1. disk' \in [Slots -> [Parts -> SlotStatus]]
    BY <1>4 DEF BaseInv, TypeOK
  <2>2. /\ mem' \in [Slots -> [Parts -> SlotStatus]]
        /\ \A s \in Slots, q \in Parts :
              mem'[s][q].status = "ok" => content[s][q] = mem'[s][q].digest
    BY <1>1, <1>2, <1>4, NotOkStatus
  <2>3. QED
    BY <1>1, <1>4, <2>1, <2>2, FailedBase
<1>5. QED
  BY <1>2, <1>3, <1>4 DEF SavePending

LEMMA HandlerFailsBase ==
    ASSUME BaseInv, HandlerFails
    PROVE  BaseInv'
<1> DEFINE st == [status |-> "failed", digest |-> job.bundle[job.part]]
<1>1. job.target \in Slots /\ job.part \in DOMAIN job.bundle /\ job.bundle \in Bundles
  BY DEF HandlerFails, BaseInv, JobInv, TargetPhases, ImagePhases
<1>2. job.part \in Parts /\ st \in SlotStatus /\ st.status # "ok"
  BY <1>1, BundleFacts DEF SlotStatus, Statuses
<1>3. SetStatus(job.part, st)
  BY DEF HandlerFails
<1> HIDE DEF st
<1>4. /\ mem' \in [Slots -> [Parts -> SlotStatus]]
      /\ \A s \in Slots, q \in Parts :
            mem'[s][q].status = "ok" => content[s][q] = mem'[s][q].digest
  BY <1>1, <1>2, <1>3, NotOkStatus
<1>5. QED
  BY <1>4, FailedBase DEF HandlerFails

\* The device is only written to while neither status of the part says "ok".
LEMMA WriteBase ==
    ASSUME BaseInv, BeginWrite \/ FinishWrite
    PROVE  BaseInv'
<1> DEFINE t == job.target
           p == job.part
<1>1. /\ t \in Slots \ {booted} /\ job.bundle \in Bundles /\ machine = "up"
      /\ p \in job.todo /\ job.todo \subseteq DOMAIN job.bundle /\ phase \in ImagePhases
  BY DEF BeginWrite, FinishWrite, BaseInv, JobInv, TargetPhases, ImagePhases
<1>2. p \in Parts /\ job.bundle[p] \in Images
  BY <1>1, BundleFacts
<1>3. PICK c \in Images \cup {Broken} :
        /\ content' = [content EXCEPT ![t][p] = c]
        /\ phase' = "written" => c = job.bundle[p]
  BY <1>2 DEF BeginWrite, FinishWrite
<1>4. phase' \in {"writing", "written"} /\ UNCHANGED <<env, disk, mem, machine, booted, job>>
  BY DEF BeginWrite, FinishWrite
<1>5. /\ content' \in [Slots -> [Parts -> Images \cup {Broken}]]
      /\ content'[t][p] = c
      /\ \A s \in Slots, q \in Parts : s # t \/ q # p => content'[s][q] = content[s][q]
  BY <1>1, <1>2, <1>3 DEF BaseInv, TypeOK
<1>6. TypeOK'
  BY <1>4, <1>5 DEF BaseInv, TypeOK, Phases
<1>7. StatusTruth'
  <2>1. mem[t][p].status # "ok" /\ disk[t][p].status # "ok"
    BY <1>1 DEF BaseInv, ImageInv
  <2>2. \A s \in Slots, q \in Parts, st \in SlotStatus :
          st \in {disk[s][q], mem[s][q]} /\ st.status = "ok" => content'[s][q] = st.digest
    BY <1>5, <2>1 DEF BaseInv, StatusTruth
  <2>3. QED
    BY <1>4, <2>2 DEF StatusTruth, BaseInv, TypeOK
<1>8. JobInv' /\ ImageInv' /\ BootInv'
  BY <1>1, <1>4 DEF BaseInv, JobInv, ImageInv, BootInv, TargetPhases, LoopPhases, ImagePhases
<1>9. DoneInv'
  <2>1. \A q \in DOMAIN job.bundle \ job.todo : content'[t][q] = job.bundle[q]
    <3>1. \A q \in DOMAIN job.bundle \ job.todo : q \in Parts /\ q # p
      BY <1>1, BundleFacts
    <3>2. QED
      BY <1>1, <1>5, <3>1 DEF BaseInv, DoneInv, TargetPhases, ImagePhases
  <2>2. QED
    BY <1>3, <1>4, <1>5, <2>1 DEF DoneInv
<1>10. QED
  BY <1>6, <1>7, <1>8, <1>9 DEF BaseInv

LEMMA ActivateBase ==
    ASSUME BaseInv, Activate
    PROVE  BaseInv'
<1>1. job.target \in Slots \ {booted} /\ job.bundle \in Bundles /\ machine = "up" /\ env \in Env
  BY DEF Activate, AllPartsDone, BaseInv, TypeOK, JobInv, TargetPhases
<1>2. env' \in Env /\ BootSlot(env') = job.target
  <2>1. \A t \in Slots : \A f \in GrubSetPrimary(env, t) : f \in Env /\ BootSlot(f) = t
    BY <1>1, SetPrimaryFacts
  <2>2. env' \in GrubSetPrimary(env, job.target)
    BY DEF Activate, MarkActive
  <2>3. QED
    BY <1>1, <2>1, <2>2
<1>3. disk' \in {mem, disk} /\ job.todo = {} /\ phase = "slots" /\ phase' = "post"
      /\ ActivateInstalled /\ UNCHANGED <<content, mem, machine, booted, job>>
  BY DEF Activate, MarkActive, AllPartsDone, NothingToActivate
<1>4. TypeOK'
  BY <1>2, <1>3 DEF BaseInv, TypeOK, Phases
<1>5. StatusTruth'
  BY <1>3 DEF BaseInv, StatusTruth
<1>6. JobInv' /\ ImageInv' /\ DoneInv' /\ BootInv'
  BY <1>1, <1>2, <1>3 DEF BaseInv, JobInv, ImageInv, DoneInv, BootInv,
                          TargetPhases, LoopPhases, ImagePhases
<1>7. QED
  BY <1>4, <1>5, <1>6 DEF BaseInv

LEMMA StutterBase ==
    ASSUME BaseInv, UNCHANGED vars
    PROVE  BaseInv'
<1>1. TypeOK' /\ StatusTruth'
  BY DEF BaseInv, TypeOK, StatusTruth, vars
<1>2. JobInv' /\ ImageInv' /\ DoneInv' /\ BootInv'
  BY DEF BaseInv, JobInv, ImageInv, DoneInv, BootInv, NothingToActivate, vars
<1>3. QED
  BY <1>1, <1>2 DEF BaseInv

LEMMA NextBase == BaseInv /\ [Next]_vars => BaseInv'
<1> SUFFICES ASSUME BaseInv, [Next]_vars PROVE BaseInv'
  OBVIOUS
<1>1. CASE GrubBoot \/ ComeUp \/ PowerLoss \/ BootFails \/ DaemonRestart \/ InstallDone
  BY <1>1, MachineBase
<1>2. CASE \E r \in MarkRequests : Mark(r[1], r[2])
  BY <1>2, MarkBase
<1>3. CASE \E b \in Bundles : StartInstall(b)
  BY <1>3, StartInstallBase
<1>4. CASE RejectBundle \/ MarkTargetBadFails \/ SkipActivate \/ ActivateFails \/ PostInstall
  BY <1>4, GoToBase
<1>5. CASE AcceptBundle
  BY <1>5, AcceptBundleBase
<1>6. CASE MarkTargetBad
  BY <1>6, MarkTargetBadBase
<1>7. CASE \E p \in Parts : SkipImage(p) \/ SavePending(p)
  BY <1>7, SkipImageBase, SavePendingBase
<1>8. CASE BeginWrite \/ FinishWrite
  BY <1>8, WriteBase
<1>9. CASE HandlerFails
  BY <1>9, HandlerFailsBase
<1>10. CASE SaveOk
  BY <1>10, SaveOkBase
<1>11. CASE Activate
  BY <1>11, ActivateBase
<1>12. CASE UNCHANGED vars
  BY <1>12, StutterBase
<1>13. QED
  BY <1>1, <1>2, <1>3, <1>4, <1>5, <1>6, <1>7, <1>8, <1>9, <1>10, <1>11, <1>12
  DEF Next, Installer

\* The inductive invariant of the installation.
THEOREM BaseInvariance == Spec => []BaseInv
  BY InitBase, NextBase, PTL DEF Spec

\* The types of the stores, of the daemon's state and of the machine.
THEOREM TypeCorrect == Spec => []TypeOK
<1>1. BaseInv => TypeOK
  BY DEF BaseInv
<1>2. QED
  BY <1>1, BaseInvariance, PTL

\* No status "ok" is ever untrue (install.c:1114 relies on it).
THEOREM StatusIsTrue == Spec => []StatusTruth
<1>1. BaseInv => StatusTruth
  BY DEF BaseInv
<1>2. QED
  BY <1>1, BaseInvariance, PTL

\* Announced success is what the next boot shows (install.c:1484 to 1496).
THEOREM SuccessIsReal == Spec => []SuccessBoots
<1>1. BaseInv => SuccessBoots
  BY DEF BaseInv, SuccessBoots, JobInv, DoneInv, BootInv, TargetPhases
<1>2. QED
  BY <1>1, BaseInvariance, PTL

----------------------------------------------------------------------------
(* An installation comes to its end: the safety half of InstallEnds.        *)

\* The phases in which an installation has not been decided yet.
OpenPhases == {"check", "mark", "slots", "write", "writing", "written", "post"}

LEMMA FewPartsLeft ==
    ASSUME BaseInv
    PROVE  /\ PartsLeft \subseteq Parts /\ IsFiniteSet(PartsLeft)
           /\ Cardinality(PartsLeft) \in Nat /\ Cardinality(Parts) \in Nat
           /\ Cardinality(PartsLeft) <= Cardinality(Parts)
<1>1. phase = "check" => DOMAIN job.bundle \subseteq Parts
  BY BundleFacts DEF BaseInv, JobInv
<1>2. job.todo \subseteq Parts
  BY DEF BaseInv, TypeOK
<1>3. PartsLeft \subseteq Parts
  BY <1>1, <1>2 DEF PartsLeft
<1>4. QED
  BY <1>3, PartsAssumption, FS_Subset, FS_CardinalityType

\* The part that is being written is still to be recorded.
LEMMA OpenHasSteps ==
    ASSUME BaseInv
    PROVE  /\ StepsLeft \in Nat /\ StepsLeft <= 5 + 4 * Cardinality(Parts)
           /\ phase # "idle" => StepsLeft >= 1
           /\ phase \in OpenPhases => StepsLeft >= 2
<1> DEFINE c == Cardinality(PartsLeft)
<1>1. c \in Nat /\ Cardinality(Parts) \in Nat /\ c <= Cardinality(Parts)
  BY FewPartsLeft
<1>2. phase \in {"writing", "written"} => c # 0
  <2> SUFFICES ASSUME phase \in {"writing", "written"} PROVE c # 0
    OBVIOUS
  <2>1. job.part \in PartsLeft
    BY DEF BaseInv, JobInv, ImagePhases, PartsLeft
  <2>2. QED
    BY <2>1, FewPartsLeft, FS_EmptySet
<1>3. phase \in Phases
  BY DEF BaseInv, TypeOK
<1>4. StepsLeft = StepsAround[phase] + 4 * c
  BY DEF StepsLeft
<1> HIDE DEF c
<1>5. StepsAround[phase] \in Nat /\ StepsAround[phase] <= 5
  BY <1>3 DEF StepsAround, Phases
<1>6. /\ phase \notin {"idle", "written"} => StepsAround[phase] >= 1
      /\ phase \in OpenPhases \ {"writing", "written"} => StepsAround[phase] >= 2
  BY <1>3 DEF StepsAround, Phases, OpenPhases
<1>7. QED
  BY <1>1, <1>2, <1>3, <1>4, <1>5, <1>6 DEF OpenPhases, Phases

\* What is left when the installation has been decided.
LEMMA DecidedSteps ==
    /\ phase' = "idle" => StepsLeft' = 0
    /\ phase' \in {"failed", "succeeded"} => StepsLeft' = 1
    /\ phase' = "post" => StepsLeft' = 2
<1>1. phase' \in {"idle", "failed", "succeeded", "post"} => PartsLeft' = {}
  BY DEF PartsLeft
<1>2. Cardinality({}) = 0
  BY FS_EmptySet
<1>3. QED
  BY <1>1, <1>2 DEF StepsLeft, StepsAround

\* A step that leaves the parts as they are and moves on to a phase nearer to the end.
LEMMA SamePartsSteps ==
    ASSUME BaseInv, PartsLeft' = PartsLeft, phase' \in Phases,
           StepsAround[phase'] < StepsAround[phase]
    PROVE  StepsLeft' < StepsLeft
<1>1. Cardinality(PartsLeft) \in Nat
  BY FewPartsLeft
<1>2. StepsAround[phase] \in Nat /\ StepsAround[phase'] \in Nat
  BY DEF BaseInv, TypeOK, Phases, StepsAround
<1>3. StepsLeft' = StepsAround[phase'] + 4 * Cardinality(PartsLeft)
  BY DEF StepsLeft, StepsAround
<1>4. QED
  BY <1>1, <1>2, <1>3 DEF StepsLeft

\* Recording a part saves four steps, of which at most three were those of the part itself.
LEMMA RecordOkSteps ==
    ASSUME BaseInv, NEW p \in Parts, p \in job.todo, phase \in {"slots", "written"}, RecordOk(p)
    PROVE  StepsLeft' < StepsLeft
<1>1. CASE phase' = "failed"
  <2>1. StepsLeft \in Nat /\ StepsLeft >= 2
    BY OpenHasSteps DEF OpenPhases
  <2>2. QED
    BY <1>1, <2>1, DecidedSteps
<1>2. CASE phase' # "failed"
  <2>1. phase' = "slots" /\ job'.todo = job.todo \ {p}
    BY <1>2 DEF RecordOk, BaseInv, TypeOK
  <2>2. PartsLeft = job.todo /\ PartsLeft' = job.todo \ {p}
    BY <2>1 DEF PartsLeft
  <2>3. Cardinality(PartsLeft') = Cardinality(PartsLeft) - 1 /\ Cardinality(PartsLeft) \in Nat
    BY <2>2, FewPartsLeft, FS_RemoveElement
  <2>4. StepsAround[phase'] <= StepsAround[phase] + 3 /\ StepsAround[phase] \in Nat
        /\ StepsAround[phase'] = 3
    BY <2>1 DEF StepsAround
  <2>5. StepsLeft' = 3 + 4 * Cardinality(PartsLeft')
    BY <2>1 DEF StepsLeft, StepsAround
  <2>6. QED
    BY <2>3, <2>4, <2>5 DEF StepsLeft
<1>3. QED
  BY <1>1, <1>2

LEMMA InstallerAdvances ==
    ASSUME BaseInv, phase # "idle", Installer
    PROVE  StepsLeft' < StepsLeft
<1>1. StepsLeft \in Nat /\ StepsLeft >= 1 /\ (phase \in OpenPhases => StepsLeft >= 2)
  BY OpenHasSteps
<1>2. CASE phase \in OpenPhases /\ phase' \in {"failed", "succeeded"}
  BY <1>1, <1>2, DecidedSteps
<1>3. CASE AcceptBundle
  <2>1. job'.todo = DOMAIN job.bundle /\ phase = "check" /\ phase' \in {"mark", "slots"}
    BY <1>3 DEF AcceptBundle, BaseInv, TypeOK
  <2>2. PartsLeft' = PartsLeft
    BY <2>1 DEF PartsLeft
  <2>3. phase' \in Phases /\ StepsAround[phase'] < StepsAround[phase]
    BY <2>1 DEF Phases, StepsAround
  <2>4. QED
    BY <2>2, <2>3, SamePartsSteps
<1>4. CASE MarkTargetBad \/ BeginWrite \/ FinishWrite
  <2>1. job' = job /\ <<phase, phase'>> \in
            {<<"mark", "slots">>, <<"write", "writing">>, <<"writing", "written">>}
    BY <1>4 DEF MarkTargetBad, BeginWrite, FinishWrite
  <2>2. PartsLeft' = PartsLeft
    BY <2>1 DEF PartsLeft
  <2>3. phase' \in Phases /\ StepsAround[phase'] < StepsAround[phase]
    BY <2>1 DEF Phases, StepsAround
  <2>4. QED
    BY <2>2, <2>3, SamePartsSteps
<1>5. CASE \E p \in Parts : SavePending(p) /\ phase' # "failed"
  <2>1. PICK p \in Parts : SavePending(p) /\ phase' # "failed"
    BY <1>5
  <2>2. phase = "slots" /\ phase' = "write" /\ job'.todo = job.todo
    BY <2>1 DEF SavePending, BaseInv, TypeOK
  <2>3. PartsLeft' = PartsLeft
    BY <2>2 DEF PartsLeft
  <2>4. phase' \in Phases /\ StepsAround[phase'] < StepsAround[phase]
    BY <2>2 DEF Phases, StepsAround
  <2>5. QED
    BY <2>3, <2>4, SamePartsSteps
<1>6. CASE \E p \in Parts : SkipImage(p)
  BY <1>6, RecordOkSteps DEF SkipImage
<1>7. CASE SaveOk
  <2>1. job.part \in job.todo /\ job.part \in Parts
    BY <1>7 DEF SaveOk, BaseInv, JobInv, TypeOK, ImagePhases
  <2>2. QED
    BY <1>7, <2>1, RecordOkSteps DEF SaveOk
<1>8. CASE Activate \/ SkipActivate
  <2>1. phase = "slots" /\ phase' = "post" /\ job.todo = {}
    BY <1>8 DEF Activate, SkipActivate, AllPartsDone, GoTo
  <2>2. StepsLeft >= 3
    <3>1. PartsLeft = {}
      BY <2>1 DEF PartsLeft
    <3>2. QED
      BY <2>1, <3>1, FS_EmptySet DEF StepsLeft, StepsAround
  <2>3. QED
    BY <1>1, <2>1, <2>2, DecidedSteps
<1>9. CASE InstallDone
  BY <1>1, <1>9, DecidedSteps DEF InstallDone
<1>10. CASE RejectBundle \/ MarkTargetBadFails \/ HandlerFails \/ ActivateFails \/ PostInstall
  <2>1. phase \in OpenPhases /\ phase' \in {"failed", "succeeded"}
    BY <1>10 DEF RejectBundle, MarkTargetBadFails, HandlerFails, ActivateFails, AllPartsDone,
                 PostInstall, GoTo, OpenPhases
  <2>2. QED
    BY <1>2, <2>1
<1>11. CASE \E p \in Parts : SavePending(p) /\ phase' = "failed"
  <2>1. phase \in OpenPhases
    BY <1>11 DEF SavePending, OpenPhases
  <2>2. QED
    BY <1>2, <1>11, <2>1
<1>12. QED
  BY <1>3, <1>4, <1>5, <1>6, <1>7, <1>8, <1>9, <1>10, <1>11 DEF Installer

LEMMA AdvancesNext ==
    BaseInv /\ [Next]_vars
        => (phase # "idle" => StepsLeft' < StepsLeft \/ UNCHANGED <<phase, job>>)
<1> SUFFICES ASSUME BaseInv, [Next]_vars, phase # "idle"
             PROVE  StepsLeft' < StepsLeft \/ UNCHANGED <<phase, job>>
  OBVIOUS
<1>1. CASE phase' = "idle"
  BY <1>1, OpenHasSteps, DecidedSteps
<1>2. CASE PowerLoss \/ BootFails \/ DaemonRestart
  BY <1>1, <1>2 DEF PowerLoss, BootFails, GoDown, DaemonRestart, ForgetDaemonState
<1>3. CASE GrubBoot \/ ComeUp
  BY <1>3 DEF GrubBoot, ComeUp
<1>4. CASE \E r \in MarkRequests : Mark(r[1], r[2])
  BY <1>4 DEF Mark
<1>5. CASE \E b \in Bundles : StartInstall(b)
  BY <1>5 DEF StartInstall
<1>6. CASE Installer
  BY <1>6, InstallerAdvances
<1>7. CASE UNCHANGED vars
  BY <1>7 DEF vars
<1>8. QED
  BY <1>2, <1>3, <1>4, <1>5, <1>6, <1>7 DEF Next

\* No installation can go on for ever: it has at most five steps before it, and four for each
\* part, and whatever it does, the failures included, leaves it with fewer
\* (launch_and_wait_default_handler, handle_slot_install_plan).
THEOREM InstallationsAdvance ==
    Spec => [](StepsLeft \in Nat /\ StepsLeft <= 5 + 4 * Cardinality(Parts)) /\ InstallAdvances
<1>1. BaseInv => StepsLeft \in Nat /\ StepsLeft <= 5 + 4 * Cardinality(Parts)
  BY OpenHasSteps
<1>2. QED
  BY <1>1, AdvancesNext, BaseInvariance, PTL DEF Spec, InstallAdvances

----------------------------------------------------------------------------
(* What becomes bootable.                                                   *)

LEMMA InitSafe == Init => SafeInv
<1> SUFFICES ASSUME Init PROVE SafeInv
  OBVIOUS
<1>1. content[DefaultSlot] = Factory
  BY DEF Init
<1>2. \A s \in Slots : env.ok[s] = "1" => s = DefaultSlot
  BY DEF Init
<1>3. OkSound
  BY <1>1, <1>2 DEF OkSound, Sound
<1>4. RunningSound
  BY DEF Init, RunningSound
<1>5. QED
  BY <1>3, <1>4 DEF SafeInv

\* A full bundle that has been written to all of its parts is what the slot holds.
LEMMA BundleInPlace ==
    ASSUME BaseInv, FullBundles, phase = "slots", job.todo = {}
    PROVE  content[job.target] \in Bundles
<1>1. job.bundle \in Bundles /\ job.target \in Slots
  BY DEF BaseInv, JobInv, TargetPhases
<1>2. job.bundle \in [Parts -> Images]
  BY <1>1 DEF FullBundles
<1>3. content[job.target] \in [Parts -> Images \cup {Broken}]
  BY <1>1 DEF BaseInv, TypeOK
<1>4. \A p \in Parts : content[job.target][p] = job.bundle[p]
  BY <1>2 DEF BaseInv, DoneInv, TargetPhases
<1>5. content[job.target] = job.bundle
  BY <1>2, <1>3, <1>4
<1>6. QED
  BY <1>1, <1>5

LEMMA MarkSafe ==
    ASSUME BaseInv, SafeInv, SafeMarks, NEW r \in MarkRequests, Mark(r[1], r[2])
    PROVE  SafeInv'
<1>1. machine = "up" /\ Sound(content[booted]) /\ UNCHANGED <<content, machine, booted>>
  BY DEF Mark, SafeInv, RunningSound
<1>2. env \in Env /\ booted \in Slots
  BY DEF BaseInv, TypeOK
<1>3. PICK s \in SlotsIdentifiedBy(r[2]) :
        \/ r[1] = "good" /\ env' = GrubSetState(env, s, TRUE)
        \/ r[1] = "bad" /\ env' = GrubSetState(env, s, FALSE)
        \/ r[1] = "active" /\ env' \in GrubSetPrimary(env, s)
  BY DEF Mark, MarkActive
<1>4. s \in Slots
  BY <1>2, <1>3 DEF SlotsIdentifiedBy
<1>5. CASE r[1] = "bad"
  <2>1. env'.ok = [env.ok EXCEPT ![s] = "0"]
    <3>1. GrubSetState(env, s, FALSE).ok = [env.ok EXCEPT ![s] = "0"]
      BY <1>2, SetStateFacts
    <3>2. QED
      BY <1>3, <1>5, <3>1
  <2>2. \A q \in Slots : env'.ok[q] = "1" => env.ok[q] = "1"
    BY <1>2, <1>4, <2>1 DEF Env
  <2>3. QED
    BY <1>1, <2>2 DEF SafeInv, OkSound, RunningSound
<1>6. CASE r[1] \in {"good", "active"}
  <2>1. r[2] = "booted"
    BY <1>6, ConfigAssumption DEF SafeMarks
  <2>2. s = booted
    BY <1>3, <2>1 DEF SlotsIdentifiedBy
  <2>3. env'.ok = [env.ok EXCEPT ![s] = "1"]
    <3>1. GrubSetState(env, s, TRUE).ok = [env.ok EXCEPT ![s] = "1"]
      BY <1>2, SetStateFacts
    <3>2. \A f \in GrubSetPrimary(env, s) : f.ok = [env.ok EXCEPT ![s] = "1"]
      BY <1>2, <1>4, SetPrimaryFacts
    <3>3. QED
      BY <1>3, <1>6, <3>1, <3>2
  <2>4. \A q \in Slots : env'.ok[q] = "1" => env.ok[q] = "1" \/ q = booted
    BY <1>2, <1>4, <2>2, <2>3 DEF Env
  <2>5. QED
    BY <1>1, <2>4 DEF SafeInv, OkSound, RunningSound
<1>7. QED
  BY <1>3, <1>5, <1>6

\* The steps that change neither what a slot holds nor which slots are OK, and do not
\* end a boot.
LEMMA QuietSafe ==
    ASSUME SafeInv, env'.ok = env.ok, content' = content,
           machine' = "up" => machine = "up" /\ booted' = booted
    PROVE  SafeInv'
  BY DEF SafeInv, OkSound, RunningSound

LEMMA InstallSafe ==
    ASSUME BaseInv, SafeInv, FullBundles, Installer
    PROVE  SafeInv'
<1>1. CASE MarkTargetBad
  <2>1. env'.ok = [env.ok EXCEPT ![job.target] = "0"]
    BY <1>1, SetStateFacts DEF MarkTargetBad, BaseInv, TypeOK
  <2>2. \A q \in Slots : env'.ok[q] = "1" => env.ok[q] = "1"
    BY <2>1 DEF BaseInv, TypeOK, Env
  <2>3. QED
    BY <1>1, <2>2 DEF MarkTargetBad, SafeInv, OkSound, RunningSound
<1>2. CASE BeginWrite \/ FinishWrite
  <2>1. job.target \in Slots \ {booted} /\ env.ok[job.target] = "0"
    BY <1>2, PartsAssumption DEF BeginWrite, FinishWrite, BaseInv, JobInv, BootInv, FullBundles,
                                 TargetPhases, LoopPhases
  <2>2. \A q \in Slots \ {job.target} : content'[q] = content[q]
    BY <1>2 DEF BeginWrite, FinishWrite, BaseInv, TypeOK
  <2>3. booted \in Slots
    BY DEF BaseInv, TypeOK
  <2>4. QED
    BY <1>2, <2>1, <2>2, <2>3 DEF BeginWrite, FinishWrite, SafeInv, OkSound, RunningSound
<1>3. CASE Activate
  <2>1. env \in Env /\ job.target \in Slots
    BY <1>3 DEF Activate, AllPartsDone, BaseInv, TypeOK, JobInv, TargetPhases
  <2>2. env'.ok = [env.ok EXCEPT ![job.target] = "1"]
    <3>1. \A t \in Slots : \A f \in GrubSetPrimary(env, t) : f.ok = [env.ok EXCEPT ![t] = "1"]
      BY <2>1, SetPrimaryFacts
    <3>2. QED
      BY <1>3, <2>1, <3>1 DEF Activate, MarkActive
  <2>3. Sound(content[job.target])
    BY <1>3, BundleInPlace DEF Activate, AllPartsDone, Sound
  <2>4. \A q \in Slots : env'.ok[q] = "1" => env.ok[q] = "1" \/ q = job.target
    BY <2>1, <2>2 DEF Env
  <2>5. QED
    BY <1>3, <2>3, <2>4 DEF Activate, SafeInv, OkSound, RunningSound
<1>4. CASE UNCHANGED <<env, content, machine, booted>>
  BY <1>4, QuietSafe
<1>5. QED
  BY <1>1, <1>2, <1>3, <1>4
  DEF Installer, GoTo, RejectBundle, AcceptBundle, MarkTargetBadFails, SkipImage, SavePending,
      RecordOk, HandlerFails, SaveOk, SkipActivate, ActivateFails, PostInstall, InstallDone

LEMMA NextSafe ==
    ASSUME FullBundles, SafeMarks
    PROVE  BaseInv /\ SafeInv /\ [Next]_vars => SafeInv'
<1> SUFFICES ASSUME BaseInv, SafeInv, [Next]_vars PROVE SafeInv'
  OBVIOUS
<1>1. CASE GrubBoot
  <2>1. env'.ok = env.ok
    BY <1>1, SavedEnvFacts DEF GrubBoot, BaseInv, TypeOK
  <2>2. QED
    BY <1>1, <2>1, QuietSafe DEF GrubBoot
<1>2. CASE ComeUp
  <2>1. Sound(content[booted])
    BY <1>2 DEF ComeUp, CanComeUp, Sound
  <2>2. QED
    BY <1>2, <2>1 DEF ComeUp, SafeInv, OkSound, RunningSound
<1>3. CASE PowerLoss \/ BootFails \/ DaemonRestart
  BY <1>3, QuietSafe DEF PowerLoss, BootFails, GoDown, DaemonRestart
<1>4. CASE \E r \in MarkRequests : Mark(r[1], r[2])
  BY <1>4, MarkSafe
<1>5. CASE \E b \in Bundles : StartInstall(b)
  BY <1>5, QuietSafe DEF StartInstall
<1>6. CASE Installer
  BY <1>6, InstallSafe
<1>7. CASE UNCHANGED vars
  BY <1>7, QuietSafe DEF vars
<1>8. QED
  BY <1>1, <1>2, <1>3, <1>4, <1>5, <1>6, <1>7 DEF Next

\* With bundles for whole groups, and marks for the running slot only, GRUB's OK flag is
\* never set on a slot that is half written or holds parts of two bundles.
THEOREM OkIsSound ==
    ASSUME FullBundles, SafeMarks
    PROVE  Spec => []OkSound
<1>1. SafeInv => OkSound
  BY DEF SafeInv
<1>2. QED
  BY <1>1, InitSafe, NextSafe, BaseInvariance, PTL DEF Spec

----------------------------------------------------------------------------
(* What GRUB starts if an installation is cut short.                        *)

\* While an installation runs, TRY and OK of the running slot are not written.
LEMMA ConfirmedNext ==
    ASSUME ConfirmBeforeInstall
    PROVE  BaseInv /\ ConfirmedInv /\ [Next]_vars => ConfirmedInv'
<1> SUFFICES ASSUME BaseInv, ConfirmedInv, [Next]_vars, phase' # "idle" PROVE Untried(env', booted')
  BY DEF ConfirmedInv
<1>1. env \in Env /\ booted \in Slots
  BY DEF BaseInv, TypeOK
<1>2. CASE \E b \in Bundles : StartInstall(b)
  BY <1>2 DEF StartInstall, GrubGetState, Untried
<1>3. CASE MarkTargetBad
  <2>1. /\ env'.ok = [env.ok EXCEPT ![job.target] = "0"]
        /\ env'.try = [env.try EXCEPT ![job.target] = "0"]
    BY <1>1, <1>3, SetStateFacts DEF MarkTargetBad
  <2>2. job.target # booted /\ booted' = booted /\ Untried(env, booted)
    BY <1>3 DEF MarkTargetBad, BaseInv, JobInv, TargetPhases, ConfirmedInv
  <2>3. QED
    BY <1>1, <2>1, <2>2 DEF Untried, Env
<1>4. CASE Activate
  <2>1. job.target \in Slots \ {booted} /\ booted' = booted /\ Untried(env, booted)
    BY <1>4 DEF Activate, AllPartsDone, BaseInv, JobInv, TargetPhases, ConfirmedInv
  <2>2. \A t \in Slots : \A f \in GrubSetPrimary(env, t) :
          f.ok = [env.ok EXCEPT ![t] = "1"] /\ f.try = [env.try EXCEPT ![t] = "0"]
    BY <1>1, SetPrimaryFacts
  <2>3. env' \in GrubSetPrimary(env, job.target)
    BY <1>4 DEF Activate, MarkActive
  <2>4. /\ env'.ok = [env.ok EXCEPT ![job.target] = "1"]
        /\ env'.try = [env.try EXCEPT ![job.target] = "0"]
    BY <2>1, <2>2, <2>3
  <2>5. QED
    BY <1>1, <2>1, <2>4 DEF Untried, Env
<1>5. CASE UNCHANGED <<env, booted>> /\ phase # "idle"
  BY <1>5 DEF ConfirmedInv
<1>6. CASE GrubBoot \/ ComeUp \/ \E r \in MarkRequests : Mark(r[1], r[2])
  BY <1>6 DEF GrubBoot, ComeUp, Mark, BaseInv, JobInv
<1>7. CASE PowerLoss \/ BootFails \/ DaemonRestart \/ InstallDone
  BY <1>7 DEF PowerLoss, BootFails, GoDown, DaemonRestart, ForgetDaemonState, InstallDone
<1>8. CASE UNCHANGED vars
  BY <1>5, <1>8 DEF vars
<1>9. CASE \E p \in Parts : SkipImage(p) \/ SavePending(p)
  BY <1>5, <1>9 DEF SkipImage, SavePending, RecordOk
<1>10. CASE BeginWrite \/ FinishWrite \/ HandlerFails \/ SaveOk
  BY <1>5, <1>10 DEF BeginWrite, FinishWrite, HandlerFails, SaveOk, RecordOk
<1>11. CASE \/ RejectBundle \/ AcceptBundle \/ MarkTargetBadFails
            \/ SkipActivate \/ ActivateFails \/ PostInstall
  BY <1>5, <1>11 DEF RejectBundle, AcceptBundle, MarkTargetBadFails, SkipActivate, ActivateFails,
                     PostInstall, AllPartsDone, GoTo
<1>12. QED
  BY <1>2, <1>3, <1>4, <1>6, <1>7, <1>8, <1>9, <1>10, <1>11 DEF Next, Installer

\* If nobody installs from an unconfirmed system, then at every point of an installation
\* the slot GRUB would start next is sound (rauc/README.rst:32).
THEOREM InterruptIsSafe ==
    ASSUME FullBundles, SafeMarks, ConfirmBeforeInstall
    PROVE  Spec => []InterruptSafe
<1>1. Init => ConfirmedInv
  BY DEF Init, ConfirmedInv
<1>2. TypeOK /\ ConfirmedInv /\ OkSound => InterruptSafe
  <2> SUFFICES ASSUME TypeOK, ConfirmedInv, OkSound, phase # "idle"
               PROVE  Sound(content[BootSlot(env)])
    BY DEF InterruptSafe
  <2>1. env \in Env /\ booted \in Slots /\ Untried(env, booted)
    BY DEF TypeOK, ConfirmedInv
  <2>2. Candidates(env) # {}
    BY <2>1, UntriedIsCandidate
  <2>3. BootSlot(env) \in Slots /\ env.ok[BootSlot(env)] = "1"
    BY <2>1, <2>2, BootSlotIsChoice, ChoiceFacts DEF Untried
  <2>4. QED
    BY <2>3 DEF OkSound
<1>3. QED
  BY <1>1, <1>2, ConfirmedNext, BaseInvariance, TypeCorrect, OkIsSound, PTL DEF Spec

\* With activate-installed=false the updated slot is left not OK, and it is not started unless
\* it is menu entry 0 and the running slot is unconfirmed; where the system around RAUC sees
\* to it that it is confirmed, never (install.c:1494).
THEOREM ActivationWaits == Spec => []WaitsForActivation
<1>1. ASSUME BaseInv, phase = "succeeded", RootPart \in DOMAIN job.bundle, ~ActivateInstalled
      PROVE  /\ env \in Env /\ booted \in Slots
             /\ env.ok[job.target] = "0"
             /\ Candidates(env) # {} => BootSlot(env) # job.target
             /\ Candidates(env) = {} => BootSlot(env) = DefaultSlot
  <2>1. env \in Env /\ booted \in Slots /\ env.ok[job.target] = "0"
    BY <1>1 DEF BaseInv, TypeOK, BootInv
  <2>2. CASE Candidates(env) # {}
    BY <2>1, <2>2, BootSlotIsChoice, ChoiceFacts DEF Untried
  <2>3. CASE Candidates(env) = {}
    BY <2>1, <2>3, BootSlotIsChoice DEF Choice
  <2>4. QED
    BY <2>1, <2>2, <2>3
<1>2. CASE ConfirmBeforeInstall
  <2>1. Init => ConfirmedInv
    BY DEF Init, ConfirmedInv
  <2>2. BaseInv /\ ConfirmedInv => WaitsForActivation
    BY <1>1, UntriedIsCandidate DEF WaitsForActivation, ConfirmedInv
  <2>3. QED
    BY <1>2, <2>1, <2>2, ConfirmedNext, BaseInvariance, PTL DEF Spec
<1>3. CASE ~ConfirmBeforeInstall
  <2>1. BaseInv => WaitsForActivation
    BY <1>1, <1>3, UntriedIsCandidate DEF WaitsForActivation, GrubGetState, Untried
  <2>2. QED
    BY <2>1, BaseInvariance, PTL DEF Spec
<1>4. QED
  BY <1>2, <1>3

----------------------------------------------------------------------------
(* Rollback.                                                                *)

\* An environment in which no OK slot has been tried.
AllUntried(e) == \A s \in Slots : e.ok[s] = "1" => e.try[s] = "0"

\* Whatever RAUC writes, it clears the TRY of the slot.
LEMMA RaucKeepsUntried ==
    ASSUME NEW e \in Env, AllUntried(e), NEW s \in Slots, NEW good \in BOOLEAN
    PROVE  /\ AllUntried(GrubSetState(e, s, good))
           /\ \A f \in GrubSetPrimary(e, s) : AllUntried(f)
<1>1. \A f \in Env : (\A q \in Slots \ {s} : f.ok[q] = e.ok[q] /\ f.try[q] = e.try[q]) /\ f.try[s] = "0"
                    => AllUntried(f)
  BY DEF AllUntried
<1>2. AllUntried(GrubSetState(e, s, good))
  <2> DEFINE f == GrubSetState(e, s, good)
  <2>1. /\ f \in Env
        /\ f.ok = [e.ok EXCEPT ![s] = IF good THEN "1" ELSE "0"]
        /\ f.try = [e.try EXCEPT ![s] = "0"]
    BY DEF GrubSetState, Env, Flag
  <2> HIDE DEF f
  <2>2. (\A q \in Slots \ {s} : f.ok[q] = e.ok[q] /\ f.try[q] = e.try[q]) /\ f.try[s] = "0"
    BY <2>1 DEF Env
  <2>3. AllUntried(f)
    BY <1>1, <2>1, <2>2
  <2>4. QED
    BY <2>3 DEF f
<1>3. ASSUME NEW f \in GrubSetPrimary(e, s) PROVE AllUntried(f)
  <2>1. f \in Env /\ f.ok = [e.ok EXCEPT ![s] = "1"] /\ f.try = [e.try EXCEPT ![s] = "0"]
    BY SetPrimaryFacts
  <2>2. (\A q \in Slots \ {s} : f.ok[q] = e.ok[q] /\ f.try[q] = e.try[q]) /\ f.try[s] = "0"
    BY <2>1 DEF Env
  <2>3. QED
    BY <1>1, <2>1, <2>2
<1>4. QED
  BY <1>2, <1>3

\* Only GRUB, as it starts a machine, and RAUC, on one that is up, write the environment.
LEMMA EnvWriters ==
    ASSUME BaseInv, [Next]_vars
    PROVE  \/ GrubBoot
           \/ /\ machine = "up" /\ UNCHANGED <<machine, booted>>
              /\ \E s \in Slots : \/ \E good \in BOOLEAN : env' = GrubSetState(env, s, good)
                               \/ env' \in GrubSetPrimary(env, s)
           \/ env' = env /\ booted' = booted /\ (machine' = machine \/ ComeUp \/ GoDown)
<1>1. CASE ComeUp \/ PowerLoss \/ BootFails
  BY <1>1 DEF ComeUp, PowerLoss, BootFails, GoDown
<1>2. CASE DaemonRestart \/ InstallDone
  BY <1>2 DEF DaemonRestart, InstallDone
<1>3. CASE \E r \in MarkRequests : Mark(r[1], r[2])
  <2>1. PICK r \in MarkRequests : Mark(r[1], r[2])
    BY <1>3
  <2>2. PICK s \in SlotsIdentifiedBy(r[2]) :
          \/ env' = GrubSetState(env, s, TRUE)
          \/ env' = GrubSetState(env, s, FALSE)
          \/ env' \in GrubSetPrimary(env, s)
    BY <2>1 DEF Mark, MarkActive
  <2>3. s \in Slots
    BY <2>2 DEF SlotsIdentifiedBy, BaseInv, TypeOK
  <2>4. QED
    BY <2>1, <2>2, <2>3 DEF Mark
<1>4. CASE \E b \in Bundles : StartInstall(b)
  BY <1>4 DEF StartInstall
<1>5. CASE MarkTargetBad
  BY <1>5 DEF MarkTargetBad, BaseInv, JobInv, TargetPhases
<1>6. CASE Activate
  BY <1>6 DEF Activate, AllPartsDone, MarkActive, BaseInv, JobInv, TargetPhases
<1>7. CASE \E p \in Parts : SkipImage(p) \/ SavePending(p)
  BY <1>7 DEF SkipImage, SavePending, RecordOk
<1>8. CASE BeginWrite \/ FinishWrite \/ HandlerFails \/ SaveOk
  BY <1>8 DEF BeginWrite, FinishWrite, HandlerFails, SaveOk, RecordOk
<1>9. CASE \/ RejectBundle \/ AcceptBundle \/ MarkTargetBadFails
           \/ SkipActivate \/ ActivateFails \/ PostInstall
  BY <1>9 DEF RejectBundle, AcceptBundle, MarkTargetBadFails, SkipActivate, ActivateFails,
              PostInstall, GoTo
<1>10. CASE UNCHANGED vars
  BY <1>10 DEF vars
<1>11. QED
  BY <1>1, <1>2, <1>3, <1>4, <1>5, <1>6, <1>7, <1>8, <1>9, <1>10 DEF Next, Installer

LEMMA RollbackNext == BaseInv /\ RunningDefault /\ FailedTried /\ [Next]_vars
                          => RunningDefault' /\ FailedTried'
<1> SUFFICES ASSUME BaseInv, RunningDefault, FailedTried, [Next]_vars
             PROVE  RunningDefault' /\ FailedTried'
  OBVIOUS
<1>1. env \in Env
  BY DEF BaseInv, TypeOK
<1>2. CASE GrubBoot
  <2>1. machine' = "starting" /\ booted' = Choice(env) /\ env' = SavedEnv(env)
    BY <1>1, <1>2, BootSlotIsChoice DEF GrubBoot
  <2>2. /\ env'.ok = env.ok
        /\ Choice(env) = DefaultSlot => \A s \in Slots : env.ok[s] = "1" => env'.try[s] = "0"
        /\ Choice(env) # DefaultSlot => env'.try[Choice(env)] = "1"
    BY <1>1, <2>1, SavedEnvFacts
  <2>3. QED
    BY <2>1, <2>2 DEF RunningDefault, FailedTried
<1>3. CASE /\ machine = "up" /\ UNCHANGED <<machine, booted>>
           /\ \E s \in Slots : \/ \E good \in BOOLEAN : env' = GrubSetState(env, s, good)
                            \/ env' \in GrubSetPrimary(env, s)
  <2>1. AllUntried(env) => AllUntried(env')
    BY <1>1, <1>3, RaucKeepsUntried
  <2>2. QED
    BY <1>3, <2>1 DEF AllUntried, RunningDefault, FailedTried
<1>4. CASE env' = env /\ booted' = booted /\ (machine' = machine \/ ComeUp \/ GoDown)
  BY <1>4 DEF ComeUp, GoDown, RunningDefault, FailedTried
<1>5. QED
  BY <1>2, <1>3, <1>4, EnvWriters

LEMMA RollbackInit == Init => RunningDefault /\ FailedTried
  BY DEF Init, RunningDefault, FailedTried

\* After mark-bad of the running slot the next boot starts another one, provided one is
\* OK (doc/33-rauc-bundle-update-guide.md:181).
THEOREM ManualRollbackWorks == Spec => ManualRollback
<1>1. BaseInv /\ RunningDefault /\ [Next]_vars =>
        [MarkBad /\ (\E o \in Slots \ {booted} : env.ok[o] = "1") => BootSlot(env') # booted]_vars
  <2> SUFFICES ASSUME BaseInv, RunningDefault, MarkBad,
                      NEW o \in Slots \ {booted}, env.ok[o] = "1"
               PROVE  BootSlot(env') # booted
    OBVIOUS
  <2>1. env \in Env /\ booted \in Slots /\ machine = "up"
    BY DEF BaseInv, TypeOK, MarkBad
  <2>2. /\ env' \in Env
        /\ env'.ok[booted] = "0"
        /\ env'.ok[o] = "1"
        /\ env'.try[o] = env.try[o]
    <3>1. env' = GrubSetState(env, booted, FALSE)
      BY DEF MarkBad
    <3>2. /\ GrubSetState(env, booted, FALSE) \in Env
          /\ GrubSetState(env, booted, FALSE).ok = [env.ok EXCEPT ![booted] = "0"]
          /\ GrubSetState(env, booted, FALSE).try = [env.try EXCEPT ![booted] = "0"]
      BY <2>1, SetStateFacts
    <3>3. /\ env' \in Env
          /\ env'.ok = [env.ok EXCEPT ![booted] = "0"]
          /\ env'.try = [env.try EXCEPT ![booted] = "0"]
      BY <3>1, <3>2
    <3>4. QED
      BY <2>1, <3>3 DEF Env
  <2>3. CASE Candidates(env') # {}
    BY <2>2, <2>3, BootSlotIsChoice, ChoiceFacts DEF Untried
  <2>4. CASE Candidates(env') = {}
    <3>1. BootSlot(env') = DefaultSlot
      BY <2>2, <2>4, BootSlotIsChoice DEF Choice
    <3>2. ~Untried(env', o)
      BY <2>2, <2>4, UntriedIsCandidate
    <3>3. booted # DefaultSlot
      BY <2>1, <2>2, <3>2 DEF RunningDefault, Untried
    <3>4. QED
      BY <3>1, <3>3
  <2>5. QED
    BY <2>3, <2>4
<1>2. QED
  BY <1>1, RollbackInit, RollbackNext, BaseInvariance, PTL DEF Spec, ManualRollback

\* A slot other than menu entry 0 that did not come up is not started again at once
\* (grub.cfg:42 and 49).
THEOREM OneAttemptOnly == Spec => OneAttempt
<1>1. BaseInv /\ FailedTried /\ [Next]_vars =>
        [machine = "failed" /\ machine' = "starting" /\ booted # DefaultSlot
             => booted' # booted]_vars
  <2> SUFFICES ASSUME BaseInv, FailedTried, [Next]_vars,
                      machine = "failed", machine' = "starting", booted # DefaultSlot
               PROVE  booted' # booted
    OBVIOUS
  <2>1. GrubBoot
    BY EnvWriters DEF ComeUp, GoDown
  <2>2. env \in Env /\ booted' = Choice(env) /\ env.try[booted] = "1"
    BY <2>1, BootSlotIsChoice DEF GrubBoot, BaseInv, TypeOK, FailedTried
  <2>3. CASE Candidates(env) = {}
    BY <2>2, <2>3 DEF Choice
  <2>4. CASE Candidates(env) # {}
    BY <2>2, <2>4, ChoiceFacts DEF Untried
  <2>5. QED
    BY <2>3, <2>4
<1>2. QED
  BY <1>1, RollbackInit, RollbackNext, BaseInvariance, PTL DEF Spec, OneAttempt

----------------------------------------------------------------------------
(* The service and the agent (RaucService, UpdateAgent).                    *)

\* The inductive form of the service's promises: LastError is only ever set while no
\* thread has got past the check of its bundle, or after it failed.
ServiceInv ==
    /\ phase \in Phases /\ lastError \in BOOLEAN
    /\ NeverStuckInstalling
    /\ LastErrorTells
    /\ lastError => phase \in {"idle", "check", "failed"}

\* The inductive form of RebootsAfterInstall: from the moment RAUC accepted the agent's
\* call, an idle Operation is the truth.
WaitInv ==
    /\ agent \in {"wait", "report", "reboot"} /\ operation = "idle" => phase = "idle"
    /\ agent \in {"report", "reboot"} => operation = "idle"
    /\ agent \in {"download", "install", "wait", "report", "reboot"} => feedback # "failure"

\* RAUC is asked for what the server offered.
OfferInv == agent # "poll" => offer \in Bundles

----------------------------------------------------------------------------
(* Each service step is a step of the system, or leaves it alone.           *)

LEMMA ThreadStep == Thread => Next \/ UNCHANGED vars
<1> SUFFICES ASSUME Thread PROVE Next \/ UNCHANGED vars
  OBVIOUS
<1>1. CASE BeginThread
  BY <1>1 DEF BeginThread, Next, Installer
<1>2. CASE RejectInThread
  BY <1>2 DEF RejectInThread, Next, Installer
<1>3. CASE InstallSteps
  BY <1>3 DEF InstallSteps, Next, Installer
<1>4. CASE SetLastError
  BY <1>4 DEF SetLastError
<1>5. CASE InstallCompleted
  BY <1>5 DEF InstallCompleted, Next, Installer
<1>6. QED
  BY <1>1, <1>2, <1>3, <1>4, <1>5 DEF Thread

LEMMA ServiceStep == [ServiceNext]_<<vars, serviceVars>> => [Next]_vars
<1> SUFFICES ASSUME [ServiceNext]_<<vars, serviceVars>> PROVE Next \/ UNCHANGED vars
  OBVIOUS
<1>1. CASE Boot
  BY <1>1 DEF Boot, Next
<1>2. CASE MarkCall
  BY <1>2 DEF MarkCall, Next
<1>3. CASE Thread
  BY <1>3, ThreadStep
<1>4. CASE RestartService \/ LosePower \/ FailBoot
  BY <1>4 DEF RestartService, LosePower, FailBoot, Next
<1>5. CASE \E b \in Bundles : InstallBundle(b)
  BY <1>5 DEF InstallBundle, AcceptInstall, RejectInstall, Next
<1>6. CASE UNCHANGED <<vars, serviceVars>>
  BY <1>6
<1>7. QED
  BY <1>1, <1>2, <1>3, <1>4, <1>5, <1>6 DEF ServiceNext, Background, Down

\* The D-Bus service does to slots, environment and status file what SlotUpdate says, and
\* nothing else (service.c around install.c).
THEOREM ServiceImplements == ServiceSpec => Spec
<1>1. ServiceInit => Init
  BY DEF ServiceInit
<1>2. QED
  BY <1>1, ServiceStep, PTL DEF ServiceSpec, Spec

LEMMA OfferNext == OfferInv /\ [AgentNext]_allVars => OfferInv'
<1> SUFFICES ASSUME OfferInv, [AgentNext]_allVars PROVE OfferInv'
  OBVIOUS
<1>1. CASE \E b \in Offers : Poll(b)
  BY <1>1, OffersAssumption DEF Poll, OfferInv
<1>2. CASE AgentRestarts \/ Reboot \/ AgentGone
  BY <1>2 DEF AgentRestarts, Reboot, AgentGone, OfferInv
<1>3. CASE SendStarted \/ DownloadBundle \/ InstallNotTried \/ InstallAccepted
             \/ InstallUnanswered \/ InstallRejected \/ KeepWaiting \/ SeeIdle \/ TimeOut
             \/ ReportSuccess
  <2>1. offer' = offer /\ agent # "poll"
    BY <1>3 DEF AgentIn, SendStarted, DownloadBundle, GiveUp, InstallNotTried,
                InstallAccepted, InstallUnanswered, InstallRejected, KeepWaiting, SeeIdle,
                TimeOut, ReportSuccess
  <2>2. QED
    BY <2>1 DEF OfferInv
<1>4. CASE UNCHANGED agentVars
  BY <1>4 DEF agentVars, OfferInv
<1>5. CASE UNCHANGED allVars
  BY <1>5 DEF agentVars, allVars, OfferInv
<1>6. QED
  BY <1>1, <1>2, <1>3, <1>4, <1>5 DEF AgentNext, AgentStep

LEMMA AgentStepIsServiceStep ==
    OfferInv /\ [AgentNext]_allVars => [ServiceNext]_<<vars, serviceVars>>
<1> SUFFICES ASSUME OfferInv, [AgentNext]_allVars
             PROVE  ServiceNext \/ UNCHANGED <<vars, serviceVars>>
  OBVIOUS
<1>1. CASE SendStarted \/ DownloadBundle \/ InstallNotTried \/ KeepWaiting \/ SeeIdle \/ TimeOut
             \/ ReportSuccess \/ AgentRestarts \/ \E b \in Offers : Poll(b)
  BY <1>1 DEF SendStarted, DownloadBundle, InstallNotTried, KeepWaiting, SeeIdle, TimeOut,
              ReportSuccess, AgentRestarts, Poll
<1>2. CASE InstallAccepted \/ InstallUnanswered \/ InstallRejected
  <2>1. InstallBundle(offer) /\ agent = "install"
    BY <1>2 DEF InstallAccepted, InstallUnanswered, InstallRejected, InstallBundle, AgentIn
  <2>2. QED
    BY <2>1 DEF OfferInv, ServiceNext
<1>3. CASE Reboot
  BY <1>3 DEF Reboot, ServiceNext, Down
<1>4. CASE Background \/ Down
  BY <1>4 DEF ServiceNext
<1>5. CASE UNCHANGED allVars
  BY <1>5 DEF allVars
<1>6. QED
  BY <1>1, <1>2, <1>3, <1>4, <1>5 DEF AgentNext, AgentStep

\* Whatever the agent does, RAUC is only ever used as a D-Bus service that some client
\* calls (updater.cpp).
THEOREM AgentImplements == AgentSpec => ServiceSpec
<1>1. AgentInit => ServiceInit /\ OfferInv
  BY DEF AgentInit, OfferInv
<1>2. QED
  BY <1>1, OfferNext, AgentStepIsServiceStep, PTL DEF AgentSpec, ServiceSpec

\* So an agent that gives up, retries and reboots whenever it likes does not make the
\* slot status lie, nor spoil what a successful installation set up.
THEOREM CoreHoldsWithAgent == AgentSpec => [](StatusTruth /\ SuccessBoots)
  BY AgentImplements, ServiceImplements, StatusIsTrue, SuccessIsReal, PTL

----------------------------------------------------------------------------
(* What a client sees of RAUC.                                              *)

LEMMA InstallStepsPhases ==
    ASSUME InstallSteps
    PROVE  /\ phase \in Phases \ {"idle", "check", "failed"}
           /\ phase' \in Phases \ {"idle", "check"}
  BY DEF InstallSteps, Phases, MarkTargetBad, MarkTargetBadFails, SkipImage, SavePending,
         BeginWrite, FinishWrite, HandlerFails, SaveOk, Activate, SkipActivate, ActivateFails,
         PostInstall, AllPartsDone, GoTo, RecordOk

LEMMA ServiceInvThread == ASSUME ServiceInv, Thread PROVE ServiceInv'
<1>1. CASE BeginThread
  BY <1>1 DEF BeginThread, AcceptBundle, ServiceInv, Phases, NeverStuckInstalling, LastErrorTells
<1>2. CASE RejectInThread
  BY <1>2 DEF RejectInThread, RejectBundle, GoTo, ServiceInv, Phases, NeverStuckInstalling,
              LastErrorTells
<1>3. CASE InstallSteps
  BY <1>3, InstallStepsPhases DEF InstallSteps, serviceVars, ServiceInv, NeverStuckInstalling,
                                  LastErrorTells
<1>4. CASE SetLastError
  BY <1>4 DEF SetLastError, vars, ServiceInv, Phases, NeverStuckInstalling, LastErrorTells
<1>5. CASE InstallCompleted
  BY <1>5 DEF InstallCompleted, InstallDone, ServiceInv, Phases, NeverStuckInstalling,
              LastErrorTells
<1>6. QED
  BY <1>1, <1>2, <1>3, <1>4, <1>5 DEF Thread

LEMMA ServiceInvNext == ServiceInv /\ [ServiceNext]_<<vars, serviceVars>> => ServiceInv'
<1> SUFFICES ASSUME ServiceInv, [ServiceNext]_<<vars, serviceVars>> PROVE ServiceInv'
  OBVIOUS
<1>1. CASE Thread
  BY <1>1, ServiceInvThread
<1>2. CASE RestartService \/ LosePower \/ FailBoot
  BY <1>2 DEF RestartService, LosePower, FailBoot, FreshProperties, DaemonRestart, PowerLoss,
              BootFails, GoDown, ForgetDaemonState, ServiceInv, Phases, NeverStuckInstalling,
              LastErrorTells
<1>3. CASE \E b \in Bundles : InstallBundle(b)
  <2>1. PICK b \in Bundles : AcceptInstall(b) \/ RejectInstall
    BY <1>3 DEF InstallBundle
  <2>2. CASE AcceptInstall(b)
    BY <2>2 DEF AcceptInstall, StartInstall, ServiceInv, Phases, NeverStuckInstalling,
                LastErrorTells
  <2>3. CASE RejectInstall
    BY <2>3 DEF RejectInstall, busy, vars, ServiceInv, NeverStuckInstalling, LastErrorTells
  <2>4. QED
    BY <2>1, <2>2, <2>3
<1>4. CASE Boot \/ MarkCall \/ UNCHANGED <<vars, serviceVars>>
  <2>1. phase' = phase /\ UNCHANGED serviceVars
    BY <1>4 DEF Boot, MarkCall, GrubBoot, ComeUp, Mark, vars
  <2>2. QED
    BY <2>1 DEF serviceVars, ServiceInv, NeverStuckInstalling, LastErrorTells
<1>5. QED
  BY <1>1, <1>2, <1>3, <1>4 DEF ServiceNext, Background, Down

LEMMA ServiceInvariance == ServiceSpec => []ServiceInv
<1>1. ServiceInit => ServiceInv
  BY DEF ServiceInit, Init, ServiceInv, Phases, NeverStuckInstalling, LastErrorTells
<1>2. QED
  BY <1>1, ServiceInvNext, PTL DEF ServiceSpec

\* RAUC does not say it is installing once nothing is left that would end that
\* (service.c:129 against service.c:47, 144 and 588).
THEOREM InstallingIsReal == ServiceSpec => []NeverStuckInstalling
<1>1. ServiceInv => NeverStuckInstalling
  BY DEF ServiceInv
<1>2. QED
  BY <1>1, ServiceInvariance, PTL

\* LastError and the Completed signal agree whenever RAUC is idle (install.c:1750 and
\* 1760, service.c:46).
THEOREM LastErrorIsTrue == ServiceSpec => []LastErrorTells
<1>1. ServiceInv => LastErrorTells
  BY DEF ServiceInv
<1>2. QED
  BY <1>1, ServiceInvariance, PTL

----------------------------------------------------------------------------
(* What the agent promises.                                                 *)

LEMMA WaitInvAgent == ASSUME WaitInv, AgentStep PROVE WaitInv'
<1>1. CASE SendStarted
  BY <1>1 DEF SendStarted, AgentIn, WaitInv
<1>2. CASE DownloadBundle
  BY <1>2 DEF DownloadBundle, GiveUp, Tell, AgentIn, WaitInv
<1>3. CASE InstallNotTried \/ InstallUnanswered \/ InstallRejected \/ TimeOut
  BY <1>3 DEF InstallNotTried, InstallUnanswered, InstallRejected, TimeOut, GiveUp, WaitInv
<1>4. CASE InstallAccepted
  BY <1>4 DEF InstallAccepted, AcceptInstall, AgentIn, WaitInv
<1>5. CASE KeepWaiting
  BY <1>5 DEF KeepWaiting, Tell, AgentIn, vars, serviceVars, WaitInv
<1>6. CASE SeeIdle
  BY <1>6 DEF SeeIdle, AgentIn, vars, serviceVars, WaitInv
<1>7. CASE ReportSuccess
  BY <1>7 DEF ReportSuccess, AgentIn, vars, serviceVars, WaitInv
<1>8. CASE Reboot
  BY <1>8 DEF Reboot, AgentGone, WaitInv
<1>9. QED
  BY <1>1, <1>2, <1>3, <1>4, <1>5, <1>6, <1>7, <1>8 DEF AgentStep

\* While the agent waits, RAUC's own steps end the installation or leave both Operation
\* and the fact that there is one as they are.
LEMMA WaitInvBackground ==
    ASSUME WaitInv, Background, UNCHANGED agentVars
    PROVE  WaitInv'
<1>1. \/ operation' = "idle" /\ phase' = "idle"
      \/ operation' = operation /\ (phase = "idle" => phase' = "idle")
  <2>1. CASE Boot \/ MarkCall
    BY <2>1 DEF Boot, MarkCall, GrubBoot, ComeUp, Mark, serviceVars
  <2>2. CASE RestartService
    BY <2>2 DEF RestartService, DaemonRestart, ForgetDaemonState, FreshProperties
  <2>3. CASE BeginThread \/ RejectInThread
    BY <2>3 DEF BeginThread, RejectInThread, AcceptBundle, RejectBundle
  <2>4. CASE InstallSteps
    BY <2>4, InstallStepsPhases DEF InstallSteps, serviceVars
  <2>5. CASE SetLastError \/ InstallCompleted
    BY <2>5 DEF SetLastError, InstallCompleted, InstallDone, vars
  <2>6. QED
    BY <2>1, <2>2, <2>3, <2>4, <2>5 DEF Background, Thread
<1>2. QED
  BY <1>1 DEF agentVars, WaitInv

LEMMA WaitInvNext == WaitInv /\ [AgentNext]_allVars => WaitInv'
<1> SUFFICES ASSUME WaitInv, [AgentNext]_allVars PROVE WaitInv'
  OBVIOUS
<1>1. CASE AgentStep
  BY <1>1, WaitInvAgent
<1>2. CASE \E b \in Offers : Poll(b)
  BY <1>2 DEF Poll, WaitInv
<1>3. CASE AgentRestarts \/ AgentGone
  BY <1>3 DEF AgentRestarts, AgentGone, WaitInv
<1>4. CASE Background /\ UNCHANGED agentVars
  BY <1>4, WaitInvBackground
<1>5. CASE UNCHANGED allVars
  BY <1>5 DEF allVars, vars, serviceVars, agentVars, WaitInv
<1>6. QED
  BY <1>1, <1>2, <1>3, <1>4, <1>5 DEF AgentNext

\* The agent reboots no machine that still installs, whatever its intervals and timeout
\* are, and however often it gave up before (update_agent.cpp:71 to 158).
THEOREM NoRebootWhileInstalling == AgentSpec => []RebootsAfterInstall
<1>1. AgentInit => WaitInv
  BY DEF AgentInit, WaitInv
<1>2. WaitInv => RebootsAfterInstall
  BY DEF WaitInv, RebootsAfterInstall
<1>3. QED
  BY <1>1, <1>2, WaitInvNext, PTL DEF AgentSpec

----------------------------------------------------------------------------
(* Types.                                                                   *)

OwnTypes ==
    /\ operation \in {"idle", "installing"}
    /\ lastError \in BOOLEAN
    /\ completed \in {"none", "success", "failure"}
    /\ agent \in AgentStates
    /\ offer \in Bundles \cup {NoBundle}
    /\ elapsed \in 0 .. InstallationTimeout + SleepSeconds
    /\ feedback \in {"none", "proceeding", "success", "failure"}

LEMMA ServiceTypesNext ==
    ASSUME OwnTypes, [ServiceNext]_<<vars, serviceVars>>
    PROVE  /\ operation' \in {"idle", "installing"}
           /\ lastError' \in BOOLEAN
           /\ completed' \in {"none", "success", "failure"}
<1>1. CASE Boot \/ MarkCall \/ UNCHANGED <<vars, serviceVars>>
  BY <1>1 DEF Boot, MarkCall, serviceVars, OwnTypes
<1>2. CASE Thread
  BY <1>2 DEF Thread, BeginThread, RejectInThread, InstallSteps, SetLastError, InstallCompleted,
              serviceVars, OwnTypes
<1>3. CASE RestartService \/ LosePower \/ FailBoot
  BY <1>3 DEF RestartService, LosePower, FailBoot, FreshProperties
<1>4. CASE \E b \in Bundles : InstallBundle(b)
  BY <1>4 DEF InstallBundle, AcceptInstall, RejectInstall, OwnTypes
<1>5. QED
  BY <1>1, <1>2, <1>3, <1>4 DEF ServiceNext, Background, Down

LEMMA OwnTypesNext == OfferInv /\ OwnTypes /\ [AgentNext]_allVars => OwnTypes'
<1> SUFFICES ASSUME OfferInv, OwnTypes, [AgentNext]_allVars PROVE OwnTypes'
  OBVIOUS
<1>1. /\ operation' \in {"idle", "installing"}
      /\ lastError' \in BOOLEAN
      /\ completed' \in {"none", "success", "failure"}
  BY AgentStepIsServiceStep, ServiceTypesNext
<1>2. /\ SleepSeconds \in Nat /\ InstallationTimeout \in Nat /\ elapsed \in Nat
      /\ 0 \in 0 .. InstallationTimeout + SleepSeconds
      /\ elapsed < InstallationTimeout =>
             elapsed + SleepSeconds \in 0 .. InstallationTimeout + SleepSeconds
  BY TimingAssumption DEF OwnTypes
<1>3. /\ agent' \in AgentStates
      /\ offer' \in Bundles \cup {NoBundle}
      /\ elapsed' \in 0 .. InstallationTimeout + SleepSeconds
      /\ feedback' \in {"none", "proceeding", "success", "failure"}
  <2>1. CASE AgentStep
    <3>1. CASE SendStarted \/ DownloadBundle
      BY <3>1 DEF SendStarted, DownloadBundle, GiveUp, Tell, AgentStates, OwnTypes
    <3>2. CASE InstallNotTried \/ InstallUnanswered \/ InstallRejected \/ TimeOut
      BY <3>2 DEF InstallNotTried, InstallUnanswered, InstallRejected, TimeOut, GiveUp, Tell,
                  AgentStates, OwnTypes
    <3>3. CASE InstallAccepted
      BY <1>2, <3>3 DEF InstallAccepted, AgentStates, OwnTypes
    <3>4. CASE KeepWaiting
      BY <1>2, <3>4 DEF KeepWaiting, Tell, OwnTypes
    <3>5. CASE SeeIdle
      BY <1>2, <3>5 DEF SeeIdle, AgentStates, OwnTypes
    <3>6. CASE ReportSuccess
      BY <3>6 DEF ReportSuccess, AgentStates, OwnTypes
    <3>7. CASE Reboot
      BY <1>2, <3>7 DEF Reboot, AgentGone, AgentStates, OwnTypes
    <3>8. QED
      BY <2>1, <3>1, <3>2, <3>3, <3>4, <3>5, <3>6, <3>7 DEF AgentStep
  <2>2. CASE \E b \in Offers : Poll(b)
    BY <2>2, OffersAssumption DEF Poll, AgentStates, OwnTypes
  <2>3. CASE AgentRestarts \/ AgentGone
    BY <1>2, <2>3 DEF AgentRestarts, AgentGone, AgentStates, OwnTypes
  <2>4. CASE UNCHANGED agentVars
    BY <2>4 DEF agentVars, OwnTypes
  <2>5. QED
    BY <2>1, <2>2, <2>3, <2>4 DEF AgentNext, allVars
<1>4. QED
  BY <1>1, <1>3 DEF OwnTypes

\* Every variable of the agent, the service and the installer keeps its type; the agent's
\* counter does not go past its timeout by more than one sleep (update_agent.cpp:86).
THEOREM AgentTypeCorrect == AgentSpec => []AgentTypeOK
<1>1. AgentInit => OfferInv /\ OwnTypes
  <2>1. 0 \in 0 .. InstallationTimeout + SleepSeconds
    BY TimingAssumption
  <2>2. QED
    BY <2>1 DEF AgentInit, ServiceInit, OfferInv, OwnTypes, AgentStates
<1>2. AgentSpec => []OwnTypes
  BY <1>1, OfferNext, OwnTypesNext, PTL DEF AgentSpec
<1>3. TypeOK /\ OwnTypes => AgentTypeOK
  BY DEF OwnTypes, AgentTypeOK, ServiceTypeOK
<1>4. QED
  BY <1>2, <1>3, AgentImplements, ServiceImplements, TypeCorrect, PTL
=============================================================================
