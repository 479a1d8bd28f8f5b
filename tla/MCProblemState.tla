---------------------------- MODULE MCProblemState ----------------------------
(* Instances of ProblemState for TLC. *)
EXTENDS ProblemStateProps

\* Answers, keys, versions, tabs and tasks are interchangeable.
Symmetric ==
    Permutations(Answers) \cup Permutations(Keys)
        \cup Permutations(Versions) \cup Permutations(Tabs) \cup Permutations(Tasks)

\* An externally graded problem that is reset before each check, and a local one.
ExternalOrLocal ==
    {[external |-> TRUE, always |-> TRUE], [external |-> FALSE, always |-> FALSE]}

=============================================================================
