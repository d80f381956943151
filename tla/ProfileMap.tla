----------------------------- MODULE ProfileMap -----------------------------
(***************************************************************************)
(* What the profile store promises its callers, without slots, scans or    *)
(* sectors: a table of at most Capacity controllers with one profile each. *)
(* A profile is created whole, on a port no other one uses while there is  *)
(* such a port, and changes whole.  It goes when it is forgotten, or when  *)
(* the power is cut while it is being written.  Whatever happens, one step *)
(* is about one controller.                                                *)
(***************************************************************************)
EXTENDS Naturals, FiniteSets

CONSTANTS Macs, Names, Ports, Capacity, NoProfile

VARIABLE profiles

Stored == {m \in Macs : profiles[m] # NoProfile}
PortsInUse == {profiles[m].gc_port : m \in Stored}

Init == profiles = [m \in Macs |-> NoProfile]

Create(m) ==
  /\ m \notin Stored
  /\ Cardinality(Stored) < Capacity
  /\ \E n \in Names, p \in Ports :
       /\ p \notin PortsInUse \/ (PortsInUse = Ports /\ p = 0)
       /\ profiles' = [profiles EXCEPT ![m] = [mac |-> m, model_name |-> n, gc_port |-> p]]

Update(m) ==
  /\ m \in Stored
  /\ \E n \in Names, p \in Ports :
       profiles' = [profiles EXCEPT ![m] = [mac |-> m, model_name |-> n, gc_port |-> p]]

Remove(m) ==
  /\ m \in Stored
  /\ profiles' = [profiles EXCEPT ![m] = NoProfile]

Next == \E m \in Macs : Create(m) \/ Update(m) \/ Remove(m)

Spec == Init /\ [][Next]_profiles
=============================================================================
