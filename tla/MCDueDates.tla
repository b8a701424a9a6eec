------------------------------ MODULE MCDueDates ------------------------------
(* DueDates from 2027 on; the starts are the days of February to April     *)
(* 2027, and those around 29 February 2028.                                *)
EXTENDS DueDates

EarlyDays == (31..121) \cup (420..430)
=============================================================================
