------------------------------ MODULE WaveRead ------------------------------
(***************************************************************************)
(* What sb_io_read_wave promises: it returns when every request of the     *)
(* wave has been answered, and each is answered once.                      *)
(***************************************************************************)
EXTENDS Integers

CONSTANT MaxReqs

VARIABLES busy, result

Answer == {"none", "ok", "failed"}

Unanswered == {i \in DOMAIN result : result[i] = "none"}

Begin ==
  /\ ~busy /\ busy' = TRUE
  /\ \E n \in 1..MaxReqs : result' = [i \in 1..n |-> "none"]

Answered ==
  /\ busy /\ UNCHANGED busy
  /\ \E i \in Unanswered, a \in {"ok", "failed"} : result' = [result EXCEPT ![i] = a]

Return == busy /\ Unanswered = {} /\ busy' = FALSE /\ UNCHANGED result

Init == busy = FALSE /\ result = <<>>

Next == Begin \/ Answered \/ Return

Spec == Init /\ [][Next]_<<busy, result>>
=============================================================================
