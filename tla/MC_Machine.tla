------------------------------ MODULE MC_Machine ------------------------------
EXTENDS Machine, TLC

CONSTANTS v1, v2, r1, r2, d1, d2, f1

MCVcpusOne == {v1}
MCVcpusTwo == {v1, v2}
MCReqs == {r1, r2}
MCReqsOne == {r1}

(* Two devices below system-root, connected in this order.  One           *)
(* configuration places a non-PCI device and a PCI one; the other puts    *)
(* two PCI devices at the same devfn, which RegisterDevice refuses.       *)
MCDevices == {d1, d2}
MCConnectOrder == <<d1, d2>>
MCDevfnConfigs == {(d1 :> NoPci) @@ (d2 :> f1), (d1 :> f1) @@ (d2 :> f1)}
MCDevfnConfigsOk == {(d1 :> NoPci) @@ (d2 :> f1)}

=============================================================================
