-------------------------- MODULE MCLeaveRequests --------------------------
(* Small instances of LeaveRequests: a leave from the first or the second   *)
(* day to the fourth counts three days or two.                              *)
EXTENDS LeaveRequests, TLC

MCDaysOf == [d \in Details |-> d.end - d.start]

ThreadSymmetry == Permutations(Threads)

=============================================================================
