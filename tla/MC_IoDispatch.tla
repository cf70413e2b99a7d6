--------------------------- MODULE MC_IoDispatch ---------------------------
EXTENDS IoDispatch

CONSTANTS v1, d1, d2, p1, p2, p3, p4, m1

(* Resources of two devices.  The pass run fills the PIO table with four *)
(* entries, so that a hit at index 3 is promoted, and keeps one MMIO      *)
(* resource: both tables share the scan and MoveToFront.  p1 and p2 have  *)
(* the same base and overlap (different devices); p3 and p4 are one port  *)
(* each.  The violation runs need one resource of each kind.              *)
MCResources == {p1, p2, p3, p4, m1}
MCResourcesSmall == {p1, m1}

MCResType == [r \in MCResources |-> IF r \in {p1, p2, p3, p4} THEN "PIO" ELSE "MMIO"]
MCBase == (p1 :> 0) @@ (p2 :> 0) @@ (p3 :> 2) @@ (p4 :> 3) @@ (m1 :> 0)
MCLength == (p1 :> 2) @@ (p2 :> 1) @@ (p3 :> 1) @@ (p4 :> 1) @@ (m1 :> 1)
MCOwner == (p1 :> d1) @@ (p2 :> d2) @@ (p3 :> d1) @@ (p4 :> d2) @@ (m1 :> d1)

=============================================================================
