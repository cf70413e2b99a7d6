------------------------------ MODULE MC_IoEvent ------------------------------
EXTENDS IoEvent, TLC

CONSTANTS t1, t2, e1, e2, e3, k1, k2

MCThreadsOne == {t1}
MCThreadsTwo == {t1, t2}
MCEvents == {e1, e2, e3}
MCEventsOne == {e1}

(* e1 and e2 are two registrations of one doorbell, e3 another doorbell. *)
MCKey == (e1 :> k1) @@ (e2 :> k1) @@ (e3 :> k2)

(* The bounds are spent: no event left to allocate, no guest write left,  *)
(* every thread and the I/O thread idle.  The run ends here.              *)
Exhausted ==
  /\ allocated = Events
  /\ writes = MaxWrites
  /\ \A t \in Threads : pc[t] = "idle"
  /\ io_pc = "poll"
  /\ UNCHANGED vars

MCSpec == Init /\ [][Next \/ Exhausted]_vars /\ Fairness

=============================================================================
