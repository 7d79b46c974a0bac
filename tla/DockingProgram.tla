--------------------------- MODULE DockingProgram ---------------------------
(***************************************************************************)
(* The docking handshake of                                                *)
(*   code/game/machinery/embedded_controller/docking_program.dm            *)
(* run by a set of docking controllers.  A controller that initiates a     *)
(* docking is the client (a shuttle), the one that serves it is the server *)
(* (a berth); both run the same program.                                   *)
(*                                                                         *)
(* Signals are procedure calls: radio_frequency.post_signal calls          *)
(* receive_signal of every listening device before it returns, so a        *)
(* handler and everything the signals it posts set off form one step.      *)
(* A controller that was blown up (offline) neither hears, posts nor is    *)
(* processed, while a shuttle keeps its reference to the program and goes  *)
(* on calling it.                                                          *)
(*                                                                         *)
(* The docking port (a door, an airlock) and the override, which only      *)
(* decides whether the program moves the port, are left to the modules     *)
(* that implement this one: whether the port is ready is an arbitrary      *)
(* choice at every step that asks.                                         *)
(***************************************************************************)
EXTENDS Naturals

CONSTANTS
    Controllers,  \* the id_tags of the docking controllers
    Routes,       \* the pairs <<client, target>> that shuttles ask to dock
    ResendTime,   \* MESSAGE_RESEND_TIME, in calls of process()
    NoTag         \* null, the tag_target of an idle controller

ASSUME NoTagAssumption == NoTag \notin Controllers
ASSUME RoutesAssumption == Routes \subseteq Controllers \X Controllers
ASSUME ResendAssumption == ResendTime \in Nat \ {0}

VARIABLES
    prog,    \* the variables of the program each controller runs
    online   \* the controllers whose machine still stands

vars == <<prog, online>>

DockStates == {"undocked", "docking", "undocking", "docked"}
Modes == {"none", "server", "client"}

Program == [dock_state       : DockStates,
            control_mode     : Modes,
            tag_target       : Controllers \cup {NoTag},
            response_sent    : BOOLEAN,
            resend_counter   : 0 .. ResendTime - 1,
            received_confirm : BOOLEAN]

NewProgram == [dock_state |-> "undocked", control_mode |-> "none",
               tag_target |-> NoTag, response_sent |-> FALSE,
               resend_counter |-> 0, received_confirm |-> FALSE]

(* The controllers a shuttle has as its docking_controller. *)
Shuttles == {r[1] : r \in Routes}

(***************************************************************************)
(* Handlers.  Each maps the state of the receiving program, and the sender *)
(* of the signal, to its next state.                                       *)
(***************************************************************************)
Is(p, mode, state) == p.control_mode = mode /\ p.dock_state = state

(* Mutant: reset() keeps the control mode. *)
ResetStateOnly(p) == [p EXCEPT !.dock_state = "undocked", !.tag_target = NoTag,
                               !.response_sent = FALSE, !.received_confirm = FALSE]

(* reset() leaves resend_counter as it is. *)
Reset(p) == [p EXCEPT !.dock_state = "undocked", !.control_mode = "none",
                      !.tag_target = NoTag, !.response_sent = FALSE,
                      !.received_confirm = FALSE]

(* The server's end of a docking that is complete, and a client that has   *)
(* told the server its port is ready.                                      *)
Docked(p) == [p EXCEPT !.dock_state = "docked", !.response_sent = FALSE,
                       !.received_confirm = FALSE]
Reported(p) == [p EXCEPT !.response_sent = TRUE]

OnConfirmDock(p, from) ==
    IF p.tag_target # from THEN p
    ELSE IF Is(p, "client", "undocked") THEN [p EXCEPT !.dock_state = "docking"]
    ELSE IF Is(p, "client", "docking")
         THEN [p EXCEPT !.dock_state = "docked", !.response_sent = FALSE]
    ELSE IF Is(p, "server", "docking") THEN [p EXCEPT !.received_confirm = TRUE]
    ELSE p

(* Mutant: the server is done as soon as its client is. *)
OnConfirmUndockEager(p, from) ==
    IF p.tag_target = from /\ p.dock_state = "undocking" THEN Reset(p) ELSE p

OnConfirmUndock(p, from) ==
    IF p.tag_target # from THEN p
    ELSE IF Is(p, "client", "undocking") THEN Reset(p)
    ELSE IF Is(p, "server", "undocking") THEN [p EXCEPT !.received_confirm = TRUE]
    ELSE p

OnRequestUndock(p, from) ==
    IF Is(p, "server", "docked") /\ p.tag_target = from
    THEN [p EXCEPT !.dock_state = "undocking"]
    ELSE p

OnDockError(p, from) == IF p.tag_target = from THEN Reset(p) ELSE p

(* Mutant: a berth that is taken accepts another shuttle. *)
AcceptsAnyone(p) == p.control_mode # "client"

Accepts(p) == Is(p, "none", "undocked")
Accept(p, from) ==
    [p EXCEPT !.control_mode = "server", !.dock_state = "docking",
              !.tag_target = from]

(***************************************************************************)
(* Posting a signal: the sender is skipped, and only machines that stand   *)
(* post or hear.                                                           *)
(***************************************************************************)
Hears(to, from) == {to, from} \subseteq online /\ to # from

Deliver(S, to, from, Handler(_, _)) ==
    IF Hears(to, from) THEN [S EXCEPT ![to] = Handler(S[to], from)] ELSE S

(* request_dock is the one signal whose handler answers at once. *)
DeliverRequest(S, to, from) ==
    IF Hears(to, from) /\ Accepts(S[to])
    THEN Deliver([S EXCEPT ![to] = Accept(S[to], from)], from, to, OnConfirmDock)
    ELSE S

(***************************************************************************)
(* Calls made by the shuttle a controller belongs to.                      *)
(***************************************************************************)
InitiateDocking(c, target) ==
    /\ prog[c].dock_state = "undocked"
    /\ prog[c].control_mode # "server"
    /\ prog' = DeliverRequest(
                 [prog EXCEPT ![c].tag_target = target, ![c].control_mode = "client"],
                 target, c)
    /\ UNCHANGED online

InitiateUndocking(c) ==
    /\ Is(prog[c], "client", "docked")
    /\ prog' = Deliver([prog EXCEPT ![c].dock_state = "undocking"],
                       prog[c].tag_target, c, OnRequestUndock)
    /\ UNCHANGED online

(* move() and cancel_launch() call this only while undocked() is false. *)
ForceUndock(c) ==
    /\ prog[c].dock_state # "undocked"
    /\ LET told == Deliver(prog, prog[c].tag_target, c, OnDockError)
       IN  prog' = [told EXCEPT ![c] = Reset(@)]
    /\ UNCHANGED online

(***************************************************************************)
(* process(), called in turn for every machine of the world.               *)
(***************************************************************************)

(* The client's part: report, once, that its port is ready. *)
Report(S, c, Handler(_, _)) ==
    IF S[c].response_sent THEN S
    ELSE [Deliver(S, S[c].tag_target, c, Handler) EXCEPT ![c] = Reported(@)]

FinishDocking(S, c) ==
    [Deliver(S, S[c].tag_target, c, OnConfirmDock) EXCEPT ![c] = Docked(@)]

FinishUndocking(S, c) ==
    [Deliver(S, S[c].tag_target, c, OnConfirmUndock) EXCEPT ![c] = Reset(@)]

(* Mutant: a server does not wait for its client's port. *)
StepUnconfirmed(S, c, ready) ==
    IF ~ready THEN S
    ELSE IF Is(S[c], "client", "docking") THEN Report(S, c, OnConfirmDock)
    ELSE IF Is(S[c], "client", "undocking") THEN Report(S, c, OnConfirmUndock)
    ELSE IF Is(S[c], "server", "docking") THEN FinishDocking(S, c)
    ELSE IF Is(S[c], "server", "undocking") THEN FinishUndocking(S, c)
    ELSE S

Step(S, c, ready) ==
    IF ~ready THEN S
    ELSE IF Is(S[c], "client", "docking") THEN Report(S, c, OnConfirmDock)
    ELSE IF Is(S[c], "client", "undocking") THEN Report(S, c, OnConfirmUndock)
    ELSE IF Is(S[c], "server", "docking") /\ S[c].received_confirm
         THEN FinishDocking(S, c)
    ELSE IF Is(S[c], "server", "undocking") /\ S[c].received_confirm
         THEN FinishUndocking(S, c)
    ELSE S

(* Mutant: an off-by-one in the comparison. *)
ResendLate(p) ==
    LET n == IF p.response_sent \/ p.resend_counter > 0
             THEN p.resend_counter + 1 ELSE p.resend_counter
    IN  IF n > ResendTime \/ p.dock_state \notin {"docking", "undocking"}
        THEN [p EXCEPT !.response_sent = FALSE, !.resend_counter = 0]
        ELSE [p EXCEPT !.resend_counter = n]

(* The report is repeated after ResendTime calls.  The counter keeps       *)
(* running once it is above zero.                                          *)
Resend(p) ==
    LET n == IF p.response_sent \/ p.resend_counter > 0
             THEN p.resend_counter + 1 ELSE p.resend_counter
    IN  IF n >= ResendTime \/ p.dock_state \notin {"docking", "undocking"}
        THEN [p EXCEPT !.response_sent = FALSE, !.resend_counter = 0]
        ELSE [p EXCEPT !.resend_counter = n]

(* The repair of the states the table calls impossible. *)
Repair(S, c) ==
    IF S[c].control_mode = "none" /\ S[c].dock_state # "undocked"
    THEN [Deliver(S, S[c].tag_target, c, OnDockError) EXCEPT ![c] = Reset(@)]
    ELSE IF Is(S[c], "server", "undocked")
         THEN [S EXCEPT ![c].control_mode = "none"]
    ELSE S

Process(c, ready) ==
    /\ c \in online
    /\ LET stepped == Step(prog, c, ready)
       IN  prog' = Repair([stepped EXCEPT ![c] = Resend(@)], c)
    /\ UNCHANGED online

(* A machine is blown up. *)
Destroy(c) ==
    /\ online' = online \ {c}
    /\ c \in online
    /\ UNCHANGED prog

(* The steps in which a program tells its docking port what to do next,    *)
(* and those of them that complete what was under way.                     *)
Changed(m) == prog'[m].dock_state # prog[m].dock_state

Completes(m) ==
    \/ prog[m].dock_state = "docking" /\ prog'[m].dock_state = "docked"
    \/ prog[m].dock_state = "undocking" /\ prog'[m].dock_state = "undocked"

-----------------------------------------------------------------------------
Init ==
    /\ prog = [c \in Controllers |-> NewProgram]
    /\ online = Controllers

Orderly ==
    \/ \E r \in Routes : InitiateDocking(r[1], r[2])
    \/ \E c \in Shuttles : InitiateUndocking(c)
    \/ \E c \in Controllers, ready \in BOOLEAN : Process(c, ready)

Abrupt == Orderly \/ \E c \in Shuttles : ForceUndock(c)

Next == Abrupt \/ \E c \in Controllers : Destroy(c)

(* Shuttles leave only once they are undocked, no machine is lost. *)
OrderlySpec == Init /\ [][Orderly]_vars

(* Shuttles may leave by force, no machine is lost. *)
AbruptSpec == Init /\ [][Abrupt]_vars

(* Shuttles may leave by force and machines may be lost. *)
Spec == Init /\ [][Next]_vars

-----------------------------------------------------------------------------
(* Every program holds values of the declared kinds. *)
TypeOK ==
    /\ prog \in [Controllers -> Program]
    /\ online \in SUBSET Controllers

InTable(p) ==
    /\ ~ Is(p, "server", "undocked")
    /\ p.control_mode = "none" => p.dock_state = "undocked"
    /\ p.tag_target = NoTag <=> p.control_mode = "none"
    /\ p.received_confirm => /\ p.control_mode = "server"
                             /\ p.dock_state \in {"docking", "undocking"}

(* The state table of docking_program.dm l.13-27: MODE_SERVER with         *)
(* STATE_UNDOCKED and MODE_NONE with any other state never happen, so the  *)
(* repairs at the end of process() are never needed.  Only a busy server   *)
(* holds a client's confirmation, and only an idle program has no partner. *)
StateTable == \A c \in Controllers : InTable(prog[c])

Bound(p) == p.dock_state # "undocked"

(* A controller that is past its request and its partner, both standing,   *)
(* name each other, play opposite roles and are in the same dock_state:    *)
(* no step of either leaves one of them docked to a partner that thinks    *)
(* otherwise, and no berth serves two shuttles.                            *)
PartnersAgree ==
    \A c \in online :
        LET p == prog[c]
            q == prog[p.tag_target]
        IN  Bound(p) /\ p.tag_target \in online =>
                /\ p.tag_target # c
                /\ q.tag_target = c
                /\ q.dock_state = p.dock_state
                /\ q.control_mode # p.control_mode

(* What an end of the abstract link is here. *)
Heard(p) == IF p.received_confirm THEN "confirm" ELSE "nothing"
LinkEnd(p) ==
    IF p.dock_state = "undocked"
    THEN [peer |-> NoTag, role |-> "none", phase |-> "undocked", heard |-> "nothing"]
    ELSE [peer |-> p.tag_target, role |-> p.control_mode,
          phase |-> p.dock_state, heard |-> Heard(p)]

LinkEnds == [c \in Controllers |-> LinkEnd(prog[c])]
Link == INSTANCE DockingLink WITH end <- LinkEnds

(* The program implements the link: both ends change state in one step     *)
(* and, unless a shuttle leaves by force, the server completes only what   *)
(* its client has confirmed.                                               *)
ImplementsLink == Link!AbruptSpec
OrderlyKeepsLink == [][Orderly => Link!Next \/ UNCHANGED LinkEnds]_vars
=============================================================================
