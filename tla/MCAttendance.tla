----------------------------- MODULE MCAttendance -----------------------------
(* Attendance with threads that may be exchanged for one another.           *)
EXTENDS Attendance, TLC

ThreadSymmetry == Permutations(Threads)
=============================================================================
