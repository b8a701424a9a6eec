---------------------------- MODULE MCAppointment ----------------------------
(* Appointment with the constants of the model-checking run. *)
EXTENDS Appointment
=============================================================================
