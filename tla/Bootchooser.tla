---------------------------- MODULE Bootchooser ----------------------------
(***************************************************************************)
(* What RAUC reads from and writes to the GRUB environment: the grub       *)
(* back end of rauc/src/bootchooser.c and the dispatchers in front of it.  *)
(*                                                                         *)
(* RAUC runs in a booted system, so the file it edits is one GRUB has      *)
(* saved and every variable is set.  All assignments of one call go to a   *)
(* single grub-editenv, which writes the file once.                        *)
(***************************************************************************)
EXTENDS GrubCfg

CONSTANT NoSlot     \* what grub_get_primary returns besides an error

ASSUME NoSlotAssumption == NoSlot \notin Slots

\* grub_get_state: a listed slot is good when OK=1 and TRY=0.
GrubGetState(env, s) ==
    /\ \E i \in DOMAIN env.order : env.order[i] = s
    /\ env.ok[s] = "1"
    /\ env.try[s] = "0"

\* grub_set_state: <slot>_OK=good and <slot>_TRY=0.
GrubSetState(env, s, good) ==
    [env EXCEPT !.ok[s] = IF good THEN "1" ELSE "0", !.try[s] = "0"]

\* grub_get_primary: the first slot in ORDER with OK=1 and TRY=0, an error without one.
GrubGetPrimary(env) ==
    LET good == {i \in DOMAIN env.order :
                    env.ok[env.order[i]] = "1" /\ env.try[env.order[i]] = "0"}
    IN  IF good = {} THEN NoSlot
        ELSE env.order[CHOOSE i \in good : \A j \in good : i <= j]

\* bootchooser_order_primary: the slot first, then the others in the order in
\* which the hash table yields them.
OrdersWithPrimary(s) == {o \in Orders : o[1] = s}

\* grub_set_primary: one environment for every order of the other slots.
GrubSetPrimary(env, s) ==
    {[order |-> o, ok |-> [env.ok EXCEPT ![s] = "1"], try |-> [env.try EXCEPT ![s] = "0"]] :
        o \in OrdersWithPrimary(s)}
=============================================================================
