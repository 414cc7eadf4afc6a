---------------------------- MODULE ProgressTree ----------------------------
(***************************************************************************)
(* The nested steps in which an installation reports its progress          *)
(* (rauc/src/context.c).  A step opened inside another one takes a share   *)
(* of it, its weight; every misuse ends the service in an assertion.       *)
(*                                                                         *)
(* A tree is the steps that are open, the innermost first.  Percentages    *)
(* are floating point numbers in the code, here hundredths of a percent.   *)
(***************************************************************************)
EXTENDS Integers, Sequences, SequencesExt

\* All of an installation: 100 percent.
Full == 10000

NoSteps == [steps |-> <<>>, aborted |-> FALSE]

\* The sum of what the steps have done.
Reported(steps) == FoldLeft(LAMBDA sum, step : sum + step.percent, 0, steps)

\* r_context_send_progress: the innermost step has told its parent already.
Sendable(steps) ==
    LET top == Head(steps)
        sum == IF Len(steps) = 1 THEN top.percent ELSE Reported(Tail(steps))
        capped == IF top.percent < Full /\ sum > 9900 THEN 9900 ELSE sum
    IN  capped <= Full

With(tree, steps) == [tree EXCEPT !.steps = steps]
Aborted(tree) == [tree EXCEPT !.aborted = TRUE]

Checked(tree, holds, steps) ==
    IF ~tree.aborted /\ holds THEN With(tree, steps) ELSE Aborted(tree)

\* r_context_begin_step_weighted
BeginStep(tree, name, substeps, weight) ==
    LET old == tree.steps
        nested == old # <<>>
        parent == Head(old)
        share == IF nested THEN (weight * parent.total) \div parent.substeps ELSE Full
        step == [name |-> name, weight |-> weight, total |-> share, substeps |-> substeps,
                 done |-> 0, percent |-> 0, explicit |-> 0]
        room == ~nested \/ (/\ parent.substeps > 0
                            /\ parent.substeps # parent.done
                            /\ weight <= parent.substeps)
    IN  IF room THEN Checked(tree, Sendable(<<step>> \o old), <<step>> \o old)
        ELSE Checked(tree, FALSE, old)

\* A step that has reached so much, and one that has got so much further.
Reached(step, percent, explicit) == [step EXCEPT !.percent = percent, !.explicit = explicit]
Further(step, done, gain) == [step EXCEPT !.done = @ + done, !.percent = @ + gain]

\* The steps when the innermost has become "top", and its parent has got further.
Told(steps, top, done, gain) ==
    <<top, Further(steps[2], done, gain)>> \o Tail(Tail(steps))

\* r_context_set_step_percentage: only a leaf, and only inside another step.
SetPercentage(tree, name, percent) ==
    IF Len(tree.steps) < 2 THEN Checked(tree, FALSE, tree.steps)
    ELSE LET top == Head(tree.steps)
             gain == (top.total * (percent - top.explicit)) \div 100
             steps == Told(tree.steps, Reached(top, gain, percent), 0, gain)
         IN  Checked(tree, /\ top.name = name
                           /\ top.substeps = 0
                           /\ percent # 100 => Sendable(steps), steps)

\* The innermost step is complete, and its parent has been told so.
Completed(tree, name) ==
    LET top == Head(tree.steps)
        ended == Reached(top, top.total, top.explicit)
    IN  IF Len(tree.steps) = 1 THEN With(tree, <<ended>>)
        ELSE IF top.explicit = 0
        THEN With(tree, Told(tree.steps, ended, top.weight, top.total))
        ELSE SetPercentage(With(tree, Told(tree.steps, ended, top.weight, 0)), name, 100)

\* r_context_end_step
EndStep(tree, name, success) ==
    IF tree.steps = <<>> THEN Checked(tree, FALSE, <<>>)
    ELSE LET top == Head(tree.steps)
             told == Completed(tree, name).steps
         IN  Checked(Completed(tree, name),
                     /\ top.done <= top.substeps
                     /\ success => top.done = top.substeps
                     /\ top.name = name
                     /\ Len(told) > 1 => told[1].percent <= told[2].percent
                     /\ Sendable(told), Tail(told))

\* A step that opens none, done at once.
Leaf(tree, name, weight, success) ==
    EndStep(BeginStep(tree, name, 0, weight), name, success)
=============================================================================
