---------------------------- MODULE BootBackends ----------------------------
(***************************************************************************)
(* The mark calls of RAUC (rauc/src/mark.c) on top of the boot loader      *)
(* interfaces of rauc/src/bootchooser.c: one system, whose configuration   *)
(* names one of the loaders, and which may lose power between any two      *)
(* commands of a call.                                                     *)
(*                                                                         *)
(* Left out: "custom", which is what its script does, and "noop", which    *)
(* does nothing and cannot be asked.                                       *)
(***************************************************************************)
EXTENDS Naturals, FiniteSets, Sequences

CONSTANTS
    Slots,
    PresetOrder,        \* the order of the hash table of slots
    NoSlot,
    NoCall,
    Foreign,            \* an EFI boot entry that is no slot
    Configured,         \* boot-attempts and boot-attempts-primary of system.conf, 0 if not set
    Loaders

\* An attempt counter that is not configured, or not positive, is 3.
Attempts(n) == IF n <= 0 THEN 3 ELSE n
DefaultAttempts == Attempts(Configured.default)
PrimaryAttempts == Attempts(Configured.primary)

\* Parameters as in the state of the four environments.
U == INSTANCE UBoot
B == INSTANCE Barebox
E == INSTANCE EfiBoot
G == INSTANCE Bootchooser

ASSUME BackendsAssumption ==
    /\ IsFiniteSet(Slots)
    /\ PresetOrder \in [1 .. Cardinality(Slots) -> Slots]
    /\ \A s \in Slots : \E i \in DOMAIN PresetOrder : PresetOrder[i] = s
    /\ NoSlot \notin Slots
    /\ NoCall \notin [op : {"active", "good", "bad"}, slot : Slots]
    /\ Configured \in [default : Nat, primary : Nat]
    /\ Foreign \notin Slots
    /\ Loaders \subseteq {"uboot", "barebox", "efi", "grub"}

VARIABLES
    loader,     \* system.bootloader
    bootNext,   \* system.efi-use-bootnext
    env,        \* the boot loader's environment, on the device
    up,         \* a system runs, and RAUC in it
    call,       \* the mark call in progress, or NoCall
    writes,     \* the environments it still has to go through, one per command
    pending,    \* the slot activated since the start, or NoSlot
    aborted     \* the service has ended in an assertion instead of an answer

vars == <<loader, bootNext, env, up, call, writes, pending, aborted>>
config == <<loader, bootNext>>

----------------------------------------------------------------------------
\* r_boot_get_primary
Primary ==
    CASE loader = "uboot"   -> U!Primary(env)
      [] loader = "barebox" -> B!Primary(env)
      [] loader = "efi"     -> E!Primary(env)
      [] loader = "grub"    -> G!GrubGetPrimary(env)

\* r_boot_get_state
Good(s) ==
    CASE loader = "uboot"   -> U!Good(env, s)
      [] loader = "barebox" -> B!Good(env, s)
      [] loader = "efi"     -> E!Good(env, s)
      [] loader = "grub"    -> G!GrubGetState(env, s)

\* r_boot_set_state: the ways the call may go through, none if it is refused.
SetState(s, good) ==
    CASE loader = "uboot"   -> U!SetState(env, s, good)
      [] loader = "barebox" -> B!SetState(env, s, good)
      [] loader = "efi"     -> E!SetState(env, s, good)
      [] loader = "grub"    -> {<<G!GrubSetState(env, s, good)>>}

\* r_boot_set_primary
SetPrimary(s) ==
    CASE loader = "uboot"   -> U!SetPrimary(env, s)
      [] loader = "barebox" -> B!SetPrimary(env, s)
      [] loader = "efi"     -> E!SetPrimary(env, s, bootNext)
      [] loader = "grub"    -> {<<e>> : e \in G!GrubSetPrimary(env, s)}

\* The boot loader itself: the slots it may start, with the environment it leaves.
Start ==
    CASE loader = "uboot"   -> U!Start(env)
      [] loader = "barebox" -> B!Start(env)
      [] loader = "efi"     -> E!Start(env)
      [] loader = "grub"    -> {[env |-> G!SavedEnv(env), slot |-> G!BootSlot(env)]}

\* The environment a device leaves the factory with.
Factory(l) ==
    CASE l = "uboot"   -> U!Blank
      [] l = "barebox" -> B!Blank
      [] l = "efi"     -> E!Blank
      [] l = "grub"    -> {[order |-> PresetOrder,
                            ok    |-> [s \in Slots |-> IF s = PresetOrder[1] THEN "1" ELSE "0"],
                            try   |-> [s \in Slots |-> "0"]]}

Envs ==
    CASE loader = "uboot"   -> U!Env
      [] loader = "barebox" -> B!Env
      [] loader = "efi"     -> E!Env
      [] loader = "grub"    -> G!Env

----------------------------------------------------------------------------
Operations == {"active", "good", "bad"}

Init ==
    /\ loader \in Loaders
    /\ bootNext \in (IF loader = "efi" THEN BOOLEAN ELSE {FALSE})
    /\ env \in Factory(loader)
    /\ up = FALSE
    /\ call = NoCall
    /\ writes = <<>>
    /\ pending = NoSlot
    /\ aborted = FALSE

\* Calls that take the activation of p back, or may: another activation, marking p bad, and
\* with a persistent EFI order marking another good, which puts that one in front.
Displaces(op, s, p) ==
    \/ op = "active" /\ s # p
    \/ op = "bad" /\ s = p
    \/ op = "good" /\ s # p /\ loader = "efi" /\ ~bootNext

\* mark_run: a client's call for one slot.
Mark(op, s) ==
    /\ up
    /\ call = NoCall
    /\ call' = [op |-> op, slot |-> s]
    /\ writes' \in IF op = "active" THEN SetPrimary(s) ELSE SetState(s, op = "good")
    /\ pending' = IF Displaces(op, s, pending) THEN NoSlot ELSE pending
    /\ UNCHANGED <<config, env, up, aborted>>

\* One command of the call; the last one ends it.
Write ==
    /\ call # NoCall
    /\ env' = Head(writes)
    /\ writes' = Tail(writes)
    /\ call' = IF Len(writes) = 1 THEN NoCall ELSE call
    /\ pending' = IF Len(writes) = 1 /\ call.op = "active" THEN call.slot ELSE pending
    /\ UNCHANGED <<config, up, aborted>>

\* A command fails, or a read before the first: the call is answered with an error.
CommandFails ==
    /\ call # NoCall
    /\ call' = NoCall
    /\ writes' = <<>>
    /\ UNCHANGED <<config, env, up, pending, aborted>>

\* efi_modify_persistent_bootorder passes on an error it has not asked for: the service ends
\* in GLib's assertion.  It is started again; nothing has been written.
Abort ==
    /\ call # NoCall
    /\ loader = "efi"
    /\ call.op = "active" => ~bootNext
    /\ call' = NoCall
    /\ writes' = <<>>
    /\ aborted' = TRUE
    /\ UNCHANGED <<config, env, up, pending>>

PowerCut ==
    /\ up
    /\ up' = FALSE
    /\ call' = NoCall
    /\ writes' = <<>>
    /\ UNCHANGED <<config, env, pending, aborted>>

Boot ==
    /\ ~up
    /\ \E b \in Start : env' = b.env /\ up' = (b.slot # NoSlot)
    /\ pending' = NoSlot
    /\ UNCHANGED <<config, call, writes, aborted>>

Next ==
    \/ \E op \in Operations, s \in Slots : Mark(op, s)
    \/ Write
    \/ CommandFails
    \/ Abort
    \/ PowerCut
    \/ Boot

Spec == Init /\ [][Next]_vars

----------------------------------------------------------------------------
TypeOK ==
    /\ loader \in Loaders
    /\ bootNext \in BOOLEAN
    /\ env \in Envs
    /\ call \in [op : Operations, slot : Slots] \cup {NoCall}
    /\ \A i \in DOMAIN writes : writes[i] \in Envs
    /\ writes = <<>> <=> call = NoCall
    /\ pending \in Slots \cup {NoSlot}
    /\ {up, aborted} \subseteq BOOLEAN

\* An activated slot is the next one until the machine starts: no mark of another slot, no
\* failed or interrupted call on one, takes that back (r_boot_set_primary).  RAUC can no longer
\* tell once the last EFI entry has been marked bad.
ActivationLasts == pending # NoSlot => Primary = pending \/ (loader = "efi" /\ ~E!Readable(env))

\* A call that fails is answered (include/bootchooser.h: TRUE if successful, FALSE if failed).
FailuresAreAnswered == ~aborted

Contract == INSTANCE BootSelection WITH
    primary <- Primary,
    good <- {s \in Slots : Good(s)},
    oneShot <- bootNext,
    relists <- loader = "uboot"

\* Every loader interface keeps the promises of BootSelection, with commands that fail and
\* power cuts between them (r_boot_set_state, r_boot_set_primary).
KeepsContract == Contract!Spec
=============================================================================
