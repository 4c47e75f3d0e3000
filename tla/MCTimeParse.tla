---------------------------- MODULE MCTimeParse ----------------------------
(***************************************************************************)
(* TimeParse for TLC: half days around every month's end from 2023 to the  *)
(* start of 2025, 2024 being a leap year.                                  *)
(***************************************************************************)
EXTENDS TimeParse

Ends == {DaysBefore(y) + MonthStart(y, m) : y \in {2023, 2024}, m \in 1 .. 12}
        \cup {DaysBefore(2025), DaysBefore(2025) + 31, DaysBefore(2025) + 59}

MonthEnds == {2 * d + k : d \in Ends \ {0}, k \in {-2, 0, 1}}

(* New year's eve and day. *)
NewYear == {2 * DaysBefore(2024) + k : k \in {-2, -1, 0, 1}}

=============================================================================
