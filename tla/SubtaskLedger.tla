---------------------------- MODULE SubtaskLedger ----------------------------
(***************************************************************************)
(* What the InstructorTask row promises of a task with subtasks: the set   *)
(* of subtasks is written down before any of them is done, each is closed  *)
(* once and stays closed, and the task succeeds with the last of them.     *)
(* The parent task may fail before it writes down the set, which is then   *)
(* never written, and at any time after it did, even when all it had       *)
(* written down are closed and only a recipient too many is left; it then  *)
(* overwrites the row and may forget some it saw closed.                   *)
(***************************************************************************)
EXTENDS FiniteSets

CONSTANT Subtasks
VARIABLES state, open, closed

ledger == <<state, open, closed>>

Init == state = "QUEUING" /\ open = {} /\ closed = {}

Define ==
    /\ state = "QUEUING"
    /\ state' = "PROGRESS"
    /\ open' \in SUBSET Subtasks
    /\ UNCHANGED closed

Close(s) ==
    /\ state = "PROGRESS" /\ s \in open
    /\ open' = open \ {s}
    /\ closed' = closed \cup {s}
    /\ state' = IF open' = {} THEN "SUCCESS" ELSE state

Abort ==
    /\ state \in {"QUEUING", "PROGRESS", "SUCCESS"}
    /\ state' = "FAILURE"
    /\ closed' \in SUBSET closed
    /\ open' = open \cup (closed \ closed')

Next == Define \/ (\E s \in Subtasks : Close(s)) \/ Abort

Spec == Init /\ [][Next]_ledger
=============================================================================
