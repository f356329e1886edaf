----------------------------- MODULE MCLeaveDays -----------------------------
(* Leaves that start in the last days of a month, on days 0 to 2, or in the *)
(* first eleven of the next, which begins on Wednesday, day 3, and has 31   *)
(* days, and that end up to the first week of the month after.              *)
EXTENDS LeaveDays

MCStarts == 0 .. 13
MCMonthStarts == {0, 3, 34}
MCHolidayDays == {1, 6, 7, 8, 12}
=============================================================================
