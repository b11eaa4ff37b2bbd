------------------------ MODULE MCRecurringPayments ------------------------
(***************************************************************************)
(* Recurring payments for TLC.                                             *)
(***************************************************************************)
EXTENDS RecurringPayments, TLC

Collect == [requests |-> Requests, operations |-> {}, attempts |-> 1,
            stalls |-> FALSE, forks |-> FALSE]
Retry == [Collect EXCEPT !.attempts = 2]
Stall == [Collect EXCEPT !.stalls = TRUE]
Lifecycle == [Collect EXCEPT !.operations = {"cancel", "resume"}]
Fork == [Collect EXCEPT !.forks = TRUE]

(* A failed collection is retried; a request stands still; the payment is  *)
(* canceled and resumed around a collection.  On forks: two requests       *)
(* collect, one retries what may land after all, or two cancel and resume. *)
Safety == {Retry, Stall, Lifecycle, Fork, [Fork EXCEPT !.operations = {"cancel", "resume"},
                                                       !.attempts = 0]}
          \cup {[Fork EXCEPT !.requests = {w}, !.attempts = 2] : w \in Requests}
Liveness == {Fork}

Perms == Permutations(Requests) \cup Permutations(Attempts)
=============================================================================
