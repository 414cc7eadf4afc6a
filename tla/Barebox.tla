------------------------------ MODULE Barebox ------------------------------
(***************************************************************************)
(* The barebox back end of rauc/src/bootchooser.c, over barebox-state: a   *)
(* priority and the remaining attempts of every slot.  barebox-state takes *)
(* all assignments of a call and writes them at once.                      *)
(***************************************************************************)
EXTENDS Naturals, FiniteSets

CONSTANTS Slots, PresetOrder, NoSlot, DefaultAttempts, PrimaryAttempts

DefaultPriority == 10
PrimaryPriority == 20

Env == [prio : [Slots -> {0, DefaultPriority, PrimaryPriority}], attempts : [Slots -> 0..3]]

\* What the image's state partition holds: one slot before the others, or all the same.
Blank == {[prio |-> p, attempts |-> [s \in Slots |-> DefaultAttempts]] :
            p \in {[s \in Slots |-> DefaultPriority]} \cup
                  {[s \in Slots |-> IF s = t THEN PrimaryPriority ELSE DefaultPriority] : t \in Slots}}

\* barebox_get_state
Good(env, s) == env.prio[s] > 0 /\ env.attempts[s] > 0

\* The slots of the highest priority among those barebox may start.
Leading(env) ==
    {s \in Slots : Good(env, s) /\ \A t \in Slots : Good(env, t) => env.prio[t] <= env.prio[s]}

\* barebox_get_primary: among equals the first of the hash table, whose order is fixed.
Primary(env) ==
    LET at == {i \in DOMAIN PresetOrder : PresetOrder[i] \in Leading(env)}
    IN  IF at = {} THEN NoSlot ELSE PresetOrder[CHOOSE i \in at : \A j \in at : i <= j]

\* barebox_set_state: good refills the attempts and leaves the priority, bad clears both.
SetState(env, s, good) ==
    {<<IF good THEN [env EXCEPT !.attempts[s] = DefaultAttempts]
       ELSE [env EXCEPT !.prio[s] = 0, !.attempts[s] = 0]>>}

\* Mutant of SetPrimary: a slot that was switched off gets the default priority again.
SetPrimaryRevives(env, s) ==
    {<<[prio |-> [t \in Slots |-> IF t = s THEN PrimaryPriority ELSE DefaultPriority],
        attempts |-> [env.attempts EXCEPT ![s] = PrimaryAttempts]]>>}

\* barebox_set_primary: the slot above the others, a slot that is switched off stays off.
SetPrimary(env, s) ==
    {<<[prio |-> [t \in Slots |-> IF t = s THEN PrimaryPriority
                                  ELSE IF env.prio[t] = 0 THEN 0 ELSE DefaultPriority],
        attempts |-> [env.attempts EXCEPT ![s] = PrimaryAttempts]]>>}

\* barebox: a slot of the highest priority is started and loses an attempt.
Start(env) ==
    IF Leading(env) = {} THEN {[env |-> env, slot |-> NoSlot]}
    ELSE {[env |-> [env EXCEPT !.attempts[s] = @ - 1], slot |-> s] : s \in Leading(env)}
=============================================================================
