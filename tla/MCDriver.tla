------------------------------ MODULE MCDriver ------------------------------
(* Two rows of two cells and a queue of three: a queued newline starts the *)
(* next scroll while the queue is being replayed, and the queue fills.     *)
EXTENDS Driver

=============================================================================
