------------------------- MODULE MCAttendanceSummary -------------------------
(* Thursday to Sunday: days around each threshold, overlapping requests with  *)
(* different outcomes, a holiday of two days, and rows from before the      *)
(* period.                                                                  *)
EXTENDS AttendanceSummary

Worn(n, m) == [entries |-> n, minutes |-> m]
MCPunches ==
    {Worn(0, 0), Worn(1, 0)} \cup {Worn(2, m) : m \in {224, 225, 464, 465}}

Request(a, b, s) == [from |-> a, to |-> b, status |-> s]
MCLeaves == {Request(-1, 2, "APPROVED"), Request(0, 2, "APPROVED"),
             Request(0, 1, "DECLINED"), Request(1, 3, "PENDING")}

MCHolidays == {[from |-> -1, to |-> 1], [from |-> 1, to |-> 3]}
=============================================================================
