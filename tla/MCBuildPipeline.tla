-------------------------- MODULE MCBuildPipeline --------------------------
(* Two pids, a source that may include a header, whose path sorts before    *)
(* its own, and two commands.  Pids and commands are interchangeable.       *)
EXTENDS BuildPipeline, TLC

CONSTANTS p1, p2, h, c1, c2

MCBuilders == {p1, p2}
MCHeaders == {h}
MCCommands == {c1, c2}
MCRank == [f \in 1..Sources \cup {h} |-> IF f = h THEN 0 ELSE f]
MCSymmetry == Permutations(MCBuilders) \cup Permutations(MCCommands)
=============================================================================
