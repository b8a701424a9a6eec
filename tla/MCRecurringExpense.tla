-------------------------- MODULE MCRecurringExpense --------------------------
(* RecurringExpense on small instances. *)
EXTENDS RecurringExpense

RowSymmetry == Permutations(Entries) \cup Permutations(Jobs) \cup Permutations(Rules)

Body == [interval |-> Null, amount |-> FALSE, due |-> Null, limit |-> Null, end |-> Null, clear |-> {}]
NoEdits == {}
DueEdits == {[Body EXCEPT !.amount = TRUE, !.end = 1], [Body EXCEPT !.due = 0, !.clear = {"end"}]}
=============================================================================
