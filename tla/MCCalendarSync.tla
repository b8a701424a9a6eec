--------------------------- MODULE MCCalendarSync ---------------------------
(* CalendarSync with the constants of the model-checking run. *)
EXTENDS CalendarSync
=============================================================================
