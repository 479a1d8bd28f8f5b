---------------------------- MODULE MCCourseEmail ----------------------------
(* Instances of CourseEmail for TLC; the .cfg files choose among them. *)
EXTENDS CourseEmailProps

\* uuid4 values, recipients, deliveries of the parent task and workers are
\* interchangeable; recipients only where the opted-out ones are told apart.
Symmetric ==
    Permutations(SubtaskIds) \cup Permutations(Parents) \cup Permutations(Workers)
        \cup Permutations(Recipients \ Optouts)

=============================================================================
