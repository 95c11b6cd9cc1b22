------------------------------- MODULE MCHooks -------------------------------
(* The shell commands tried in the checked instance: one of every shape.    *)
EXTENDS Hooks, TLC

CONSTANTS s1, s2

SubSymmetry == Permutations(Subs)

Shape(name, dir) ==
    [name |-> name, dir |-> dir, direct |-> TRUE, python |-> TRUE,
     subst |-> FALSE, commit |-> FALSE, segs |-> {}]
Chain(segs) ==
    [name |-> "none", dir |-> "none", direct |-> FALSE, python |-> FALSE,
     subst |-> FALSE, commit |-> FALSE, segs |-> segs]
Seg(head, arg, safe) == [head |-> head, arg |-> arg, safe |-> safe]

ReadFiles == Chain({Seg("reader", "cat", TRUE), Seg("git", "diff", TRUE)})

Tried ==
    {ExportTask, ReadFiles, Direct("baseline.py"), Direct("create_plan.py"),
     Direct("pipeline.py"), Direct("resume.py"),
     Shape("pipeline.py", "root"), Shape("quick_check.py", "engine"),
     [Direct("pipeline.py") EXCEPT !.direct = FALSE],
     [Direct("create_plan.py") EXCEPT !.subst = TRUE],
     [ReadFiles EXCEPT !.commit = TRUE],
     Chain({Seg("reader", "cat", FALSE)}), Chain({Seg("git", "push", TRUE)}),
     Chain({Seg("find", "-delete", FALSE)}), Chain({Seg("sed", "-i", TRUE)})}

=============================================================================
