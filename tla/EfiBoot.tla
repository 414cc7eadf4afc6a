------------------------------ MODULE EfiBoot ------------------------------
(***************************************************************************)
(* The EFI back end of rauc/src/bootchooser.c, over the firmware's boot    *)
(* entries: BootOrder, and BootNext for one start.  Entries that are no    *)
(* slot (a network boot) share the list, and a slot may have no entry.     *)
(* efibootmgr changes one variable per call.                               *)
(***************************************************************************)
EXTENDS Naturals, FiniteSets, SequencesExt

CONSTANTS Slots, PresetOrder, NoSlot, Foreign

Names == Slots \cup {Foreign}
BootOrders == {o \in SeqOf(Names, Cardinality(Names)) : IsInjective(o)}
Env == [entries : SUBSET Names, order : BootOrders, next : Slots \cup {NoSlot}]

\* The slots' entries and a foreign one; one of them may have been left out.
Blank == {[entries |-> Names \ {n}, order |-> RemoveFirst(<<Foreign>> \o PresetOrder, n),
           next |-> NoSlot] : n \in Names \cup {NoSlot}}

\* efi_bootorder_get fails without a BootOrder line, and keeps the entries that exist.
Readable(env) == env.order # <<>>

\* efi_get_state
Good(env, s) == Contains(env.order, s)

\* efi_get_primary: BootNext, then BootOrder; the first that is a slot.
Primary(env) ==
    LET list == (IF env.next = NoSlot THEN <<>> ELSE <<env.next>>) \o env.order
        at == {i \in DOMAIN list : list[i] \in Slots}
    IN  IF ~Readable(env) \/ at = {} THEN NoSlot
        ELSE list[CHOOSE i \in at : \A j \in at : i <= j]

\* efi_modify_persistent_bootorder: the slot out of BootOrder, and in front of it again if it
\* is to be prepended.  No sequence: the call fails before it writes.
ModifyOrder(env, s, prepend) ==
    IF ~Readable(env) \/ (prepend /\ s \notin env.entries) THEN {}
    ELSE {<<[env EXCEPT !.order = (IF prepend THEN <<s>> ELSE <<>>) \o RemoveFirst(@, s)]>>}

\* efi_set_state
SetState(env, s, good) == ModifyOrder(env, s, good)

\* efi_set_temp_primary: BootNext, for one start.
SetNext(env, s) ==
    IF Readable(env) /\ s \in env.entries THEN {<<[env EXCEPT !.next = s]>>} ELSE {}

\* efi_set_primary
SetPrimary(env, s, bootNext) == IF bootNext THEN SetNext(env, s) ELSE ModifyOrder(env, s, TRUE)

\* The firmware: BootNext once, else the first of BootOrder.
Start(env) ==
    {[env |-> [env EXCEPT !.next = NoSlot],
      slot |-> LET first == IF env.next # NoSlot THEN env.next
                            ELSE IF Readable(env) THEN Head(env.order) ELSE NoSlot
               IN  IF first \in Slots THEN first ELSE NoSlot]}
=============================================================================
