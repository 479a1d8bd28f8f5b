-------------------------- MODULE MCInstructorTasks --------------------------
(* Instances of InstructorTasks for TLC; the .cfg files choose among them. *)
EXTENDS InstructorTasksProps

Symmetric ==
    Permutations(Delegating) \cup Permutations(Tasks \ Delegating)
        \cup Permutations(Workers) \cup Permutations(Polls)

=============================================================================
