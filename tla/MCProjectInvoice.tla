--------------------------- MODULE MCProjectInvoice ---------------------------
(* ProjectInvoice on small instances. *)
EXTENDS ProjectInvoice

RowSymmetry == Permutations(Invoices) \cup Permutations(Payments) \cup Permutations(Milestones)
SlotSymmetry == RowSymmetry \cup Permutations(Requests)
=============================================================================
