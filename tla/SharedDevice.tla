---------------------------- MODULE SharedDevice ----------------------------
(***************************************************************************)
(* What NICRegisterDevice and NICDeregisterDevice promise their adapters,  *)
(* free of mutex, count and handle: adapters join and leave one at a time, *)
(* the device they share is made by the one that joins first, is there     *)
(* as long as anybody is a member, and goes with the one that leaves last. *)
(*                                                                         *)
(* The device may turn out not to be made.  Then its members do without    *)
(* it, and whoever joins first after they have gone tries again.           *)
(***************************************************************************)
CONSTANT Miniports

VARIABLES
    members,    \* who has joined and not left
    device      \* is there a device?

vars == <<members, device>>

TypeOK == members \subseteq Miniports /\ device \in BOOLEAN

Init == members = {} /\ device = FALSE

Join(m) ==
    /\ m \notin members
    /\ members' = members \cup {m}
    /\ device' \in BOOLEAN
    /\ members # {} => device' = device

Leave(m) ==
    /\ m \in members
    /\ members' = members \ {m}
    /\ device' = (device /\ members' # {})

Next == \E m \in Miniports : Join(m) \/ Leave(m)

Spec == Init /\ [][Next]_vars

----------------------------------------------------------------------------
\* What a program may conclude from the device: somebody is a member.
DeviceHasMembers == device => members # {}

=============================================================================
