-------------------------------- MODULE GceVMs --------------------------------
(***************************************************************************)
(* What the GCE backend's ensure and create handlers (src/unnamed/part_003) *)
(* promise together, whatever the task queue redelivers or runs twice: a  *)
(* VM entity comes into being without a hostname; its hostname is chosen  *)
(* once and never changes; and a GCE instance is only ever inserted under *)
(* the hostname the entity holds.                                          *)
(***************************************************************************)
CONSTANTS VMIds, Suffixes, None

VARIABLES
    hostname,   \* VM id -> None (no entity), "" or the chosen suffix
    instances   \* GCE instances, as <<VM id, suffix>>

vars == <<hostname, instances>>

Init ==
    /\ hostname = [id \in VMIds |-> None]
    /\ instances = {}

(* The entity of a VM is stored, with no hostname.                        *)
Store(id) ==
    /\ hostname[id] = None
    /\ hostname' = [hostname EXCEPT ![id] = ""]
    /\ UNCHANGED instances

(* The VM's hostname is chosen, once.                                     *)
Name(id, suf) ==
    /\ hostname[id] = ""
    /\ hostname' = [hostname EXCEPT ![id] = suf]
    /\ UNCHANGED instances

(* The instance of a named VM is inserted (again, possibly).              *)
Insert(id) ==
    /\ hostname[id] \notin {None, ""}
    /\ instances' = instances \cup {<<id, hostname[id]>>}
    /\ UNCHANGED hostname

Next ==
    \E id \in VMIds :
        \/ Store(id)
        \/ \E suf \in Suffixes : Name(id, suf)
        \/ Insert(id)

Spec == Init /\ [][Next]_vars

=============================================================================
