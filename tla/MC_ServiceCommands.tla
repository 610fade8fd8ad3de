------------------------ MODULE MC_ServiceCommands ------------------------
(* Bounds for model checking ServiceCommands. *)
EXTENDS ServiceCommands, TLC

\* Rollouts are interchangeable, and so are ups: no definition singles one out.
Symmetry == Permutations(Rollouts) \cup Permutations(Ups)

\* Two commands at a time, of either kind.  A command that is killed does nothing
\* any more, and so does one that the other leaves behind at the same place: the
\* states after a kill add no behaviour.
Focus ==
    /\ Cardinality({c \in Rollouts : pc[c] # "describe"}
                   \cup {c \in Ups : pc[c] # "taskDefinition"}) <= 2
    /\ \A c \in Command : pc[c] # "killed"
=============================================================================
