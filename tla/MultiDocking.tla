---------------------------- MODULE MultiDocking ----------------------------
(***************************************************************************)
(* Docking ports with several airlocks:                                    *)
(*   code/game/machinery/embedded_controller/docking_program_multi.dm.     *)
(* A master runs the docking program of DockingProgram; its docking port   *)
(* is a set of airlocks, each with a controller and a child program of its *)
(* own.  The master tells its airlocks what to do and collects their       *)
(* reports by radio, and is ready when all of them have reported.          *)
(*                                                                         *)
(* When an airlock is ready (its cycle is over, one of its doors is        *)
(* secured) is an arbitrary choice: its doors, its pump and the override,  *)
(* which makes players do by hand what the program would do, are left out. *)
(***************************************************************************)
EXTENDS DockingProgram

CONSTANTS
    Airlocks,   \* the id_tags of the airlock controllers
    master_tag  \* the docking controller each of them serves

ASSUME MasterAssumption == master_tag \in [Airlocks -> Controllers]

VARIABLES
    airlock,         \* the variables of the child program of each airlock
    children_ready,  \* the airlocks whose masters have their reports
    intact           \* the airlock controllers that still stand

multiVars == <<vars, airlock, children_ready, intact>>

ChildModes == {"docking", "undocking"}

Child == [docking_enabled : BOOLEAN, docking_mode : ChildModes, response_sent : BOOLEAN]

NewChild == [docking_enabled |-> FALSE, docking_mode |-> "docking",
             response_sent |-> FALSE]

(* The tags in children_tags. *)
Children(m) == {a \in Airlocks : master_tag[a] = m}

(* ready_for_docking() and ready_for_undocking() of a master. *)
AllReady(m) == Children(m) \subseteq children_ready

(***************************************************************************)
(* The master's side.  The program calls prepare_for_docking(),            *)
(* finish_docking(), prepare_for_undocking() or finish_undocking() where   *)
(* it enters the next dock_state of the handshake, once for every change   *)
(* and in the same step; reset() by an error or by force calls none.       *)
(***************************************************************************)
(* Mutant: an airlock that closes its doors is used as an airlock again. *)
OnCommandFreed(p, state) ==
    CASE state = "docking" ->
           [docking_enabled |-> TRUE, docking_mode |-> "docking", response_sent |-> FALSE]
      [] state = "undocking" ->
           [docking_enabled |-> FALSE, docking_mode |-> "undocking", response_sent |-> FALSE]
      [] state = "docked" -> p
      [] state = "undocked" -> [p EXCEPT !.docking_enabled = FALSE]

(* Mutant: an airlock told to undock takes its old report for the new one. *)
OnCommandForgetful(p, state) ==
    CASE state = "docking" ->
           [docking_enabled |-> TRUE, docking_mode |-> "docking", response_sent |-> FALSE]
      [] state = "undocking" -> [p EXCEPT !.docking_mode = "undocking"]
      [] state = "docked" -> p
      [] state = "undocked" -> [p EXCEPT !.docking_enabled = FALSE]

(* The child's answer to the command its master sends on entering a state; *)
(* finish_docking only opens its doors.                                    *)
OnCommand(p, state) ==
    CASE state = "docking" ->
           [docking_enabled |-> TRUE, docking_mode |-> "docking", response_sent |-> FALSE]
      [] state = "undocking" ->
           [p EXCEPT !.docking_mode = "undocking", !.response_sent = FALSE]
      [] state = "docked" -> p
      [] state = "undocked" -> [p EXCEPT !.docking_enabled = FALSE]

(* The airlocks whose masters command them in this step, and those of them *)
(* that hear the command.                                                  *)
Commanded == {a \in Airlocks : Changed(master_tag[a])}
Told == {a \in Commanded \cap intact : master_tag[a] \in online}

(* Mutant: a master keeps the reports it has. *)
KeepReports == children_ready

ClearReports == children_ready \ Commanded

TellChildren ==
    /\ airlock' = [a \in Airlocks |->
                      IF a \in Told
                      THEN OnCommand(airlock[a], prog'[master_tag[a]].dock_state)
                      ELSE airlock[a]]
    /\ children_ready' = ClearReports
    /\ UNCHANGED intact

TellNobody == UNCHANGED <<airlock, children_ready, intact>>

(* process() of a docking controller: the port of one without airlocks is  *)
(* ready or not as it likes.                                               *)
MultiProcess(c, ready) ==
    /\ Children(c) # {} => ready = AllReady(c)
    /\ Process(c, ready)
    /\ TellChildren

(***************************************************************************)
(* The airlock's side: process() reports, once, that it is ready.  The     *)
(* master takes the report whatever its own state is.                      *)
(***************************************************************************)
AirlockReports(a) ==
    /\ a \in intact
    /\ airlock[a].docking_enabled /\ ~ airlock[a].response_sent
    /\ airlock' = [airlock EXCEPT ![a].response_sent = TRUE]
    /\ children_ready' = IF master_tag[a] \in online
                         THEN children_ready \cup {a} ELSE children_ready
    /\ UNCHANGED <<vars, intact>>

(* The controller of an airlock is blown up. *)
DestroyAirlock(a) ==
    /\ a \in intact
    /\ intact' = intact \ {a}
    /\ UNCHANGED <<vars, airlock, children_ready>>

-----------------------------------------------------------------------------
MultiInit ==
    /\ Init
    /\ airlock = [a \in Airlocks |-> NewChild]
    /\ children_ready = {}
    /\ intact = Airlocks

MultiOrderly ==
    \/ \E r \in Routes : InitiateDocking(r[1], r[2]) /\ TellChildren
    \/ \E c \in Shuttles : InitiateUndocking(c) /\ TellChildren
    \/ \E c \in Controllers, ready \in BOOLEAN : MultiProcess(c, ready)
    \/ \E a \in Airlocks : AirlockReports(a)

MultiAbrupt == MultiOrderly \/ \E c \in Shuttles : ForceUndock(c) /\ TellNobody

MultiNext ==
    \/ MultiAbrupt
    \/ \E c \in Controllers : Destroy(c) /\ TellNobody
    \/ \E a \in Airlocks : DestroyAirlock(a)

(* Shuttles may leave by force and machines may be lost. *)
MultiSpec == MultiInit /\ [][MultiNext]_multiVars

(* Every machine is processed over and over, and a port without airlocks   *)
(* is ready, as the base program's is.  Nothing is assumed of airlocks:    *)
(* one that does not end its cycle never reports.                          *)
Fairness ==
    \A c \in Controllers : WF_multiVars(\E ready \in BOOLEAN :
        MultiProcess(c, ready) /\ (Children(c) = {} => ready))

(* Shuttles may leave by force, no machine is lost. *)
FairSpec == MultiInit /\ [][MultiAbrupt]_multiVars /\ Fairness

-----------------------------------------------------------------------------
(* The airlocks' programs hold values of the declared kinds. *)
MultiTypeOK ==
    /\ TypeOK
    /\ airlock \in [Airlocks -> Child]
    /\ children_ready \in SUBSET Airlocks
    /\ intact \in SUBSET Airlocks

(* The port is used as an airlock "only ... if nothing is docked here"     *)
(* (docking_program_multi.dm l.138): while a standing master is docked,    *)
(* docking or undocking, each of its standing airlocks is held and in the  *)
(* mode of the handshake, whatever shuttles left by force before.          *)
Mode(state) == IF state = "undocking" THEN "undocking" ELSE "docking"

AirlocksHeld ==
    \A a \in intact :
        LET state == prog[master_tag[a]].dock_state
        IN  master_tag[a] \in online /\ state # "undocked"
              => airlock[a].docking_enabled /\ airlock[a].docking_mode = Mode(state)

(* An airlock that has done what the handshake of a master in this state   *)
(* asked of it.                                                            *)
HasReported(a, state) ==
    /\ airlock[a].docking_enabled /\ airlock[a].response_sent
    /\ airlock[a].docking_mode = Mode(state)

(* A docking or undocking is completed only when every airlock of either   *)
(* end has reported since it was last told to prepare: no report left over *)
(* from an earlier handshake, or from one that was broken off, counts.     *)
AllReported ==
    [][MultiOrderly => \A m \in online : Completes(m) =>
          \A a \in Children(m) : HasReported(a, prog[m].dock_state)]_multiVars

(* The handshake ends: while no machine is lost, a docking or an undocking *)
(* under way is completed, or aborted by force_undock, although each waits *)
(* for signals that are sent once.  One that is not waits for ever for one *)
(* airlock of one of its own two ends that does not become ready.          *)
AwaitedBy(c, a) ==
    /\ master_tag[a] \in {c, prog[c].tag_target}
    /\ ~ airlock[a].response_sent

HandshakeEnds ==
    \A c \in Controllers, state \in {"docking", "undocking"} :
        []<>(prog[c].dock_state # state) \/ \E a \in Airlocks : <>[]AwaitedBy(c, a)
=============================================================================
