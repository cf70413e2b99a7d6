----------------------------- MODULE MsiRouting -----------------------------
(***************************************************************************)
(* What the device manager promises KVM's interrupt routing looks like:    *)
(* the kernel's GSI routing table changes one route at a time, as the      *)
(* devices asked, and an irqfd is only ever bound to a GSI that has an     *)
(* MSI route in the kernel, and such a route is never removed while an     *)
(* irqfd is still bound to it.                                             *)
(*                                                                         *)
(* routes is the kernel routing table as a set of entries; irqfds is the   *)
(* set of <<fd, gsi>> bindings made with KVM_IRQFD.                        *)
(***************************************************************************)
EXTENDS Integers

CONSTANTS
  InitialRoutes,  \* the table installed by SetupGsiRoutingTable
  MsiTargets,     \* the <<address, data>> pairs a route may carry
  Fds,            \* eventfds that may be bound as irqfds
  Gsis            \* GSI numbers an MSI route may take

VARIABLES routes, irqfds

vars == <<routes, irqfds>>

MsiRoutes == {e \in routes : e.type = "MSI"}

UsedGsis == {e.gsi : e \in routes}

Init ==
  /\ routes = InitialRoutes
  /\ irqfds = {}

AddRoute(g, tgt) ==
  /\ g \notin UsedGsis
  /\ routes' = routes \cup {[gsi |-> g, type |-> "MSI", u |-> tgt]}
  /\ UNCHANGED irqfds

ModifyRoute(e, tgt) ==
  /\ routes' = (routes \ {e}) \cup {[e EXCEPT !.u = tgt]}
  /\ UNCHANGED irqfds

RemoveRoute(e) ==
  /\ \A b \in irqfds : b[2] # e.gsi
  /\ routes' = routes \ {e}
  /\ UNCHANGED irqfds

Bind(fd, e) ==
  /\ irqfds' = irqfds \cup {<<fd, e.gsi>>}
  /\ UNCHANGED routes

Unbind(b) ==
  /\ irqfds' = irqfds \ {b}
  /\ UNCHANGED routes

Next ==
  \/ \E g \in Gsis, tgt \in MsiTargets : AddRoute(g, tgt)
  \/ \E e \in MsiRoutes, tgt \in MsiTargets : ModifyRoute(e, tgt)
  \/ \E e \in MsiRoutes : RemoveRoute(e)
  \/ \E fd \in Fds, e \in MsiRoutes : Bind(fd, e)
  \/ \E b \in irqfds : Unbind(b)

Spec == Init /\ [][Next]_vars

=============================================================================
