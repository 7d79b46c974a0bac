----------------------------- MODULE DockingLink -----------------------------
(***************************************************************************)
(* What the docking handshake promises.  A link joins two controllers, a   *)
(* host and its guest.  Both ends of a link always move together: there is *)
(* no state in which one end is docked and the other is not.  The guest    *)
(* reports that its port is ready, and only then does the host complete    *)
(* the docking or the undocking.                                           *)
(***************************************************************************)
CONSTANTS
    Controllers,  \* the ends a link can have
    Routes,       \* the pairs <<guest, host>> that may be linked
    NoTag         \* the peer of an end that is free

VARIABLE end   \* the end of a link each controller holds, Free if none

Free == [peer |-> NoTag, role |-> "none", phase |-> "undocked", heard |-> "nothing"]

HostEnd(g, phase) ==
    [peer |-> g, role |-> "server", phase |-> phase, heard |-> "nothing"]
GuestEnd(h, phase) ==
    [peer |-> h, role |-> "client", phase |-> phase, heard |-> "nothing"]

Held(c) == end[c] # Free
Linked(h, g) == Held(h) /\ end[h].role = "server" /\ end[h].peer = g

Init == end = [c \in Controllers |-> Free]

(* The host accepts a guest that asked for it. *)
Accept(h, g) ==
    /\ <<g, h>> \in Routes
    /\ h # g /\ ~ Held(h) /\ ~ Held(g)
    /\ end' = [end EXCEPT ![h] = HostEnd(g, "docking"), ![g] = GuestEnd(h, "docking")]

(* The guest is ready, for what is under way. *)
Confirm(h, g) ==
    /\ Linked(h, g)
    /\ end[h].phase \in {"docking", "undocking"}
    /\ end' = [end EXCEPT ![h].heard = "confirm"]

Join(h, g) ==
    /\ Linked(h, g)
    /\ end[h].phase = "docking" /\ end[h].heard = "confirm"
    /\ end' = [end EXCEPT ![h] = HostEnd(g, "docked"), ![g] = GuestEnd(h, "docked")]

(* It is the guest that asks to leave. *)
Part(h, g) ==
    /\ Linked(h, g)
    /\ end[h].phase = "docked"
    /\ end' = [end EXCEPT ![h].phase = "undocking", ![g].phase = "undocking"]

Release(h, g) ==
    /\ Linked(h, g)
    /\ end[h].phase = "undocking" /\ end[h].heard = "confirm"
    /\ end' = [end EXCEPT ![h] = Free, ![g] = Free]

(* The guest leaves without asking, at any time. *)
Break(h, g) ==
    /\ Linked(h, g)
    /\ end' = [end EXCEPT ![h] = Free, ![g] = Free]

Next ==
    \E h, g \in Controllers :
        Accept(h, g) \/ Confirm(h, g) \/ Join(h, g)
            \/ Part(h, g) \/ Release(h, g)

(* The links of guests that leave in good order. *)
Spec == Init /\ [][Next]_end

(* The links of guests that may also leave by force. *)
AbruptSpec == Init /\ [][Next \/ \E h, g \in Controllers : Break(h, g)]_end
=============================================================================
