----------------------------- MODULE MCTaskList -----------------------------
(* Instances of TaskList: the operations that race, and the list they find. *)
EXTENDS TaskList, TLC

Pending == NewTask

OneTask == 1 :> Pending
TwoTasks == <<Pending, Pending>>
ThreeTasks == <<Pending, Pending, Pending>>
Chain == <<[NewTask EXCEPT !.blocks = {2}], [NewTask EXCEPT !.blockedBy = {1}]>>

Completion == {[status |-> "completed"]}
NoChanges == {}

(* Calls and agents are interchangeable: no task has an owner at the start. *)
CallSymmetry == Permutations(Callers) \cup Permutations(Agents)
=============================================================================
