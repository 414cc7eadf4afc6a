---------------------------- MODULE MCSlotUpdate ----------------------------
(* Two slots, A the menu entry 0; groups of a root slot and one child.      *)
EXTENDS SlotUpdate

CONSTANTS A, B, v1, v2, root, app

MCOrder == <<A, B>>
MCImages == {v1, v2}

MCFactory == [p \in Parts |-> v1]
FullUpdate == [p \in Parts |-> v2]
\* Only the root image is new: the child's may be skipped.
RootUpdate == [p \in Parts |-> IF p = root THEN v2 ELSE v1]
\* A bundle for the child alone.
ChildUpdate == [p \in {app} |-> v2]

FullOnly == {FullUpdate, RootUpdate}
OneUpdate == {FullUpdate}
WithChildOnly == {FullUpdate, ChildUpdate}

\* What comes up: the old system and the full update.  RootUpdate is a bad release, and
\* two bundles' parts do not work together.
GoodReleases == {MCFactory, FullUpdate}
\* Every complete group comes up.
AllBoot == [Parts -> Images]
\* No update comes up.
OldBoots == {MCFactory}

SkipChildOnly == [p \in Parts |-> p = root]
AlwaysWrite == [p \in Parts |-> TRUE]

\* rauc-mark-good.service and the administrator's mark-bad, for the running slot.
BootedMarks == {"good", "bad", "active"} \X {"booted"}
AllSafeMarks == BootedMarks \cup {<<"bad", "other">>}
\* The administrator activates an installed slot when it suits.
ActivateLater == {<<"good", "booted">>, <<"active", "other">>, <<"bad", "booted">>}
GoodOnly == {<<"good", "booted">>}
=============================================================================
