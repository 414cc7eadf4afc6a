------------------------------- MODULE UBoot -------------------------------
(***************************************************************************)
(* The U-Boot back end of rauc/src/bootchooser.c and the boot script of    *)
(* contrib/uboot.sh, over U-Boot's environment: BOOT_ORDER, and for every  *)
(* slot the attempts it has left.                                          *)
(*                                                                         *)
(* fw_setenv writes one variable, so a call that sets two leaves the       *)
(* environment between them to a power cut.  A call is the set of write    *)
(* sequences it may perform: one environment after each command.           *)
(***************************************************************************)
EXTENDS Naturals, FiniteSets, SequencesExt

CONSTANTS
    Slots,
    PresetOrder,        \* the order of the script, and of RAUC's hash table
    NoSlot,
    DefaultAttempts,    \* boot-attempts, already replaced by 3 where it is not positive
    PrimaryAttempts     \* boot-attempts-primary

Fresh == 3              \* what the script sets

SlotOrders == {o \in SeqOf(Slots, Cardinality(Slots)) : IsInjective(o)}
Env == [order : SlotOrders, left : [Slots -> 0..3]]

\* The script has run before RAUC does, and leaves no variable unset.
Blank == {[order |-> PresetOrder, left |-> [s \in Slots |-> Fresh]]}

\* uboot_get_state: listed and with attempts left.
Good(env, s) == Contains(env.order, s) /\ env.left[s] > 0

\* uboot_get_primary: the first listed slot with attempts left.
Primary(env) ==
    LET usable == {i \in DOMAIN env.order : env.left[env.order[i]] > 0}
    IN  IF usable = {} THEN NoSlot
        ELSE env.order[CHOOSE i \in usable : \A j \in usable : i <= j]

\* The loop over the names of an order that keeps those that are not s.
Without(order, s) ==
    LET kept[n \in 0 .. Len(order)] ==
            IF n = 0 THEN <<>>
            ELSE IF order[n] = s THEN kept[n - 1] ELSE Append(kept[n - 1], order[n])
    IN  kept[Len(order)]

SetLeft(env, s, n) == [env EXCEPT !.left[s] = n]
SetOrder(env, o) == [env EXCEPT !.order = o]

\* uboot_set_state: a bad slot is taken out of BOOT_ORDER, then its counter is cleared; an
\* order that cannot be read is left alone.
SetState(env, s, good) ==
    IF good THEN {<<SetLeft(env, s, DefaultAttempts)>>}
    ELSE LET cut == SetOrder(env, Without(env.order, s))
         IN  {<<cut, SetLeft(cut, s, 0)>>, <<SetLeft(env, s, 0)>>}

\* The orders set_primary may start from: the current one, or every slot if it cannot be read.
OrdersRead(env) == {PresetOrder, env.order}

\* Mutant of SetPrimary: the slot is put behind the others.
SetPrimaryBehind(env, s) ==
    LET filled == SetLeft(env, s, PrimaryAttempts)
    IN  {<<filled, SetOrder(filled, Append(Without(o, s), s))>> : o \in OrdersRead(env)}

\* uboot_set_primary: the slot's attempts first, then the order with the slot in front.
SetPrimary(env, s) ==
    LET filled == SetLeft(env, s, PrimaryAttempts)
    IN  {<<filled, SetOrder(filled, <<s>> \o Without(o, s))>> : o \in OrdersRead(env)}

\* contrib/uboot.sh: an empty order is preset, the first listed slot with attempts left loses
\* one and starts; without one every counter is refilled and the machine resets, which is a
\* start with nothing booted.
Start(env) ==
    LET set == IF env.order = <<>> THEN SetOrder(env, PresetOrder) ELSE env
        s == Primary(set)
    IN  {IF s = NoSlot THEN [env |-> [set EXCEPT !.left = [t \in Slots |-> Fresh]], slot |-> NoSlot]
         ELSE [env |-> SetLeft(set, s, set.left[s] - 1), slot |-> s]}
=============================================================================
