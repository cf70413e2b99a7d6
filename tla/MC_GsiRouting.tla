--------------------------- MODULE MC_GsiRouting ---------------------------
EXTENDS GsiRouting

CONSTANTS t1, t2

MCThreadsOne == {t1}
MCThreadsTwo == {t1, t2}
MCTriggerFdOne == [t \in MCThreadsOne |-> 10]
MCTriggerFdTwo == (t1 :> 10) @@ (t2 :> 11)
MCNoFd == -1

(* The MaxGsi bound is reached and every device has removed its routes:  *)
(* the model stops here, the program would go on adding routes.          *)
Exhausted ==
  /\ next_gsi = MaxGsi
  /\ \A t \in Threads : pc[t] = "idle" /\ owned[t] = {}
  /\ UNCHANGED vars

(* A KVM_IRQFD failure has aborted the process. *)
Halted == Aborted /\ UNCHANGED vars

MCSpec == Init /\ [][Next \/ Exhausted \/ Halted]_vars

=============================================================================
