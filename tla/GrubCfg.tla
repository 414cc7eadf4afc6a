------------------------------ MODULE GrubCfg ------------------------------
(***************************************************************************)
(* The A/B boot script of the image (meta-nuc/recipes-bsp/grub/files/      *)
(* grub.cfg): which root file system GRUB starts, and what it writes back  *)
(* to the environment file.                                                *)
(*                                                                         *)
(* The script is written out for two slots; here Slots is any finite set.  *)
(* A slot stands for its letter in ORDER, its menu entry and its INDEX.    *)
(***************************************************************************)
EXTENDS Naturals, FiniteSets

CONSTANTS
    Slots,          \* the boot names of system.conf, A and B
    PresetOrder     \* the script's own ORDER, "A B"

SlotCount == Cardinality(Slots)

\* Every ORDER that RAUC and the image write lists each slot exactly once.
Orders == {o \in [1..SlotCount -> Slots] : \A s \in Slots : \E i \in 1..SlotCount : o[i] = s}

ASSUME SlotsAssumption == IsFiniteSet(Slots) /\ Slots # {}
ASSUME PresetOrderAssumption == PresetOrder \in Orders

\* Menu entry 0, which `default' names until the scan finds something better.
DefaultSlot == PresetOrder[1]

Flag == {"0", "1"}

\* The variables of the script once all of them are set.
Env == [order : Orders, ok : [Slots -> Flag], try : [Slots -> Flag]]

\* What the file may hold: a variable may be missing (a slot outside the
\* function's domain) or set to the empty string.  An ORDER that is missing and
\* one that is empty have the same effect and are both the empty sequence.
EnvFile ==
    LET Vars == UNION {[S -> Flag \cup {""}] : S \in SUBSET Slots}
    IN  [order : Orders \cup {<<>>}, ok : Vars, try : Vars]

----------------------------------------------------------------------------
\* The presets, overwritten by load_env wherever the file has the variable.
LoadEnv(file) ==
    LET Loaded(v) == [s \in Slots |-> IF s \in DOMAIN v THEN v[s] ELSE "0"]
    IN  [order |-> file.order, ok |-> Loaded(file.ok), try |-> Loaded(file.try)]

\* The [ -z ... ] lines: what an empty variable is replaced by.
Fallback(env) ==
    [order |-> IF env.order = <<>> THEN PresetOrder ELSE env.order,
     ok    |-> [s \in Slots |-> IF env.ok[s] # "" THEN env.ok[s]
                                ELSE IF s = DefaultSlot THEN "1" ELSE "0"],
     try   |-> [s \in Slots |-> IF env.try[s] # "" THEN env.try[s] ELSE "0"]]

\* The condition that ends the scan.
Untried(env, s) == env.ok[s] = "1" /\ env.try[s] = "0"

Candidates(env) == {i \in 1..SlotCount : Untried(env, env.order[i])}

FirstCandidate(env) == CHOOSE i \in Candidates(env) : \A j \in Candidates(env) : i <= j

\* The scan that keeps going past a slot already tried; without a candidate
\* `default' is still menu entry 0.
Choice(env) ==
    IF Candidates(env) = {} THEN DefaultSlot ELSE env.order[FirstCandidate(env)]

\* Every slot the scan looks at has its TRY set, the chosen one included.
MarkTried(env) ==
    LET Last == IF Candidates(env) = {} THEN SlotCount ELSE FirstCandidate(env)
        Seen == {env.order[i] : i \in 1..Last}
    IN  [env EXCEPT !.try = [s \in Slots |-> IF s \in Seen THEN "1" ELSE env.try[s]]]

\* Mutants of ResetBooted: only the started slot is reset; all are, whichever is started.
ResetStartedOnly(env, chosen) ==
    IF chosen = DefaultSlot THEN [env EXCEPT !.try[chosen] = "0"] ELSE env
ResetAlways(env, chosen) ==
    [env EXCEPT !.try = [s \in Slots |-> IF env.ok[s] = "1" THEN "0" ELSE env.try[s]]]

\* "reset booted flags": only when menu entry 0 is the default, and for all slots.
ResetBooted(env, chosen) ==
    IF chosen = DefaultSlot
    THEN [env EXCEPT !.try =
             [s \in Slots |-> IF env.ok[s] = "1" /\ env.try[s] = "1" THEN "0" ELSE env.try[s]]]
    ELSE env

\* The slot started from an environment file, and the file that save_env leaves.
BootSlot(file) == Choice(Fallback(LoadEnv(file)))
SavedEnv(file) ==
    LET env == Fallback(LoadEnv(file))
    IN  ResetBooted(MarkTried(env), Choice(env))
=============================================================================
