--------------------------- MODULE BootSelection ---------------------------
(***************************************************************************)
(* What include/bootchooser.h promises of every boot loader interface, in  *)
(* terms of what r_boot_get_primary and r_boot_get_state answer: the slot  *)
(* that is next, and the slots that are good.                              *)
(*                                                                         *)
(* A call on one slot may take several steps, be refused, or be cut short; *)
(* it never touches what is known of another slot, and never leaves the    *)
(* machine with nothing to start.  A call that succeeded has done what it  *)
(* says.  Between calls the boot loader spends attempts.                   *)
(***************************************************************************)
EXTENDS FiniteSets

CONSTANTS
    Slots,
    NoSlot,
    NoCall

VARIABLES
    primary,    \* the slot that is next, or NoSlot
    good,       \* the slots that are good
    call,       \* the mark call in progress, or NoCall
    oneShot,    \* activation is for one start and beside the good slots (EFI's BootNext)
    relists     \* activation may bring back slots that were dropped (U-Boot's lost order)

vars == <<primary, good, call, oneShot, relists>>

Operations == {"active", "good", "bad"}
Calls == [op : Operations, slot : Slots]

TypeOK ==
    /\ primary \in Slots \cup {NoSlot}
    /\ good \in SUBSET Slots
    /\ call \in Calls \cup {NoCall}
    /\ {oneShot, relists} \subseteq BOOLEAN

Init == TypeOK /\ call = NoCall

Begin(op, s) ==
    /\ call = NoCall
    /\ call' = [op |-> op, slot |-> s]
    /\ UNCHANGED <<primary, good, oneShot, relists>>

\* What is known of the slots that the call is not about.
OthersKept(s) == IF relists THEN good \ {s} \subseteq good' ELSE good' \ {s} = good \ {s}

\* One step of a call: the slot it is about may become next, or another takes its place when
\* it is marked bad.
Work(op, s) ==
    /\ OthersKept(s)
    /\ \/ op # "bad" /\ primary' \in {primary, s}
       \/ op = "bad" /\ primary' = primary
       \/ op = "bad" /\ primary = s /\ primary' \in (good \ {s}) \cup {NoSlot}
       \/ op = "bad" /\ oneShot /\ good' = {} /\ primary' = NoSlot
    /\ UNCHANGED <<oneShot, relists>>

Done(op, s) ==
    CASE op = "active" -> primary' = s /\ (oneShot \/ s \in good')
      [] op = "good"   -> TRUE
      [] op = "bad"    -> s \notin good' /\ (oneShot \/ primary' # s)

Step == call # NoCall /\ Work(call.op, call.slot) /\ UNCHANGED call
Succeed == call # NoCall /\ Work(call.op, call.slot) /\ Done(call.op, call.slot) /\ call' = NoCall
\* Refused, failed or cut short: whatever was done so far stays.
Abandon == call # NoCall /\ call' = NoCall /\ UNCHANGED <<primary, good, oneShot, relists>>

\* The boot loader starts a slot: attempts are spent, or given back when none is left.
Boot ==
    /\ call = NoCall
    /\ good' \in SUBSET Slots
    /\ primary' \in Slots \cup {NoSlot}
    /\ UNCHANGED <<call, oneShot, relists>>

Next ==
    \/ \E op \in Operations, s \in Slots : Begin(op, s)
    \/ Step
    \/ Succeed
    \/ Abandon
    \/ Boot

Spec == Init /\ [][Next]_vars
=============================================================================
