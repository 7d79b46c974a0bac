---------------------------- MODULE SimpleDocking ----------------------------
(***************************************************************************)
(* Docking ports that are a single door:                                   *)
(*   code/game/machinery/embedded_controller/simple_docking_controller.dm  *)
(* and the doors they control,                                             *)
(*   code/game/machinery/doors/airlock_control.dm, airlock.dm and door.dm. *)
(*                                                                         *)
(* A program opens its door when a docking is complete and closes it when  *)
(* an undocking begins.  It never looks at the door: it remembers what the *)
(* door reported last, decides from that which command to send, and is     *)
(* ready to undock when it remembers a door that is closed and locked.     *)
(* The door carries its command out in threads that sleep while it moves,  *)
(* and others may start, or replace the command, in the meantime.          *)
(***************************************************************************)
EXTENDS Naturals, SequencesExt

CONSTANTS
    Controllers, Routes, ResendTime, NoTag,   \* as in DockingProgram
    MaxThreads   \* bound: threads a door has at a time

ASSUME ThreadsAssumption == MaxThreads \in Nat \ {0}
ASSUME DockingAssumption ==   \* those of DockingProgram
    /\ NoTag \notin Controllers
    /\ Routes \subseteq Controllers \X Controllers
    /\ ResendTime \in Nat \ {0}

VARIABLES
    prog, online,   \* the docking programs
    override,       \* the controllers whose override_enabled is on
    memory,         \* memory["door_status"] of each program
    door,           \* the door of each controller
    threads,        \* what each door's threads wait for, oldest first
    blocked,        \* the doors somebody stands in
    patient         \* the programs that began to undock with all doors at rest
                    \* (for the properties only)

vars == <<prog, online, override, memory, door, threads, blocked, patient>>

Docking == INSTANCE DockingProgram

Status == [state : {"open", "closed"}, lock : {"locked", "unlocked"}]
Commands == {"secure_open", "secure_close", "lock", "none"}
Door == [state : {"open", "closed"}, lock : {"locked", "unlocked"},
         operating : BOOLEAN, cur_command : Commands]

(* start: spawned, to execute the command.  unlocked and locked: in one of *)
(* the two sleeps of 0.2 s.  opening, closing: the door moves for a second.*)
(* late: the close() that is tried again 6 s after somebody was in the way.*)
(* A polling thread is one that process() runs.                            *)
Waits == {"start", "unlocked", "opening", "closing", "locked", "late", "late_closing"}
Thread == [at : Waits, polling : BOOLEAN]
Start == [at |-> "start", polling |-> FALSE]

-----------------------------------------------------------------------------
(* The program's side. *)

Shut(status) == status.state = "closed" /\ status.lock = "locked"

(* open_door() and close_door(): the command they send to the door.        *)
Lock(status) == IF status.lock = "unlocked" THEN "lock" ELSE "none"
OpenDoor(status) == IF status.state = "closed" THEN "secure_open" ELSE Lock(status)
CloseDoor(status) == IF status.state = "open" THEN "secure_close" ELSE Lock(status)

(* Mutant: only the end that initiates an undocking prepares for it. *)
PortCommandClient(c) ==
    IF c \in override THEN "none"
    ELSE IF prog[c].dock_state = "docking" /\ prog'[c].dock_state = "docked"
         THEN OpenDoor(memory[c])
    ELSE IF /\ prog[c].dock_state = "docked" /\ prog'[c].dock_state = "undocking"
            /\ prog[c].control_mode = "client"
         THEN CloseDoor(memory[c])
    ELSE "none"

(* finish_docking() opens the door, prepare_for_undocking() closes it.     *)
PortCommand(c) ==
    IF c \in override THEN "none"
    ELSE IF prog[c].dock_state = "docking" /\ prog'[c].dock_state = "docked"
         THEN OpenDoor(memory[c])
    ELSE IF prog[c].dock_state = "docked" /\ prog'[c].dock_state = "undocking"
         THEN CloseDoor(memory[c])
    ELSE "none"

(* A door that gets a command remembers it and spawns a thread.            *)
Signal(command) ==
    LET told == {c \in Controllers : command[c] # "none"}
    IN  /\ \A c \in told : Len(threads[c]) < MaxThreads
        /\ door' = [c \in Controllers |->
                      IF c \in told THEN [door[c] EXCEPT !.cur_command = command[c]]
                                    ELSE door[c]]
        /\ threads' = [c \in Controllers |->
                         IF c \in told THEN Append(threads[c], Start) ELSE threads[c]]

AtRest(c) == threads[c] = << >> /\ door[c].cur_command = "none"

SignalPorts ==
    /\ Signal([c \in Controllers |-> PortCommand(c)])
    /\ patient' = {c \in Controllers :
                     /\ prog'[c].dock_state = "undocking"
                     /\ \/ prog[c].dock_state = "undocking" /\ c \in patient
                        \/ /\ prog[c].dock_state # "undocking"
                           /\ \A d \in Controllers : AtRest(d)}
    /\ UNCHANGED <<override, memory, blocked>>

InitiateDocking(c, target) == Docking!InitiateDocking(c, target) /\ SignalPorts
InitiateUndocking(c) == Docking!InitiateUndocking(c) /\ SignalPorts
ForceUndock(c) == Docking!ForceUndock(c) /\ SignalPorts

(* Mutant: nobody asks whether the port is ready to undock. *)
ProcessReady(c) == Docking!Process(c, TRUE) /\ SignalPorts

(* ready_for_docking() is always true. *)
Process(c) ==
    /\ Docking!Process(c, prog[c].dock_state = "docking" \/ Shut(memory[c]))
    /\ SignalPorts

ToggleOverride(c) ==
    /\ override' = IF c \in override THEN override \ {c} ELSE override \cup {c}
    /\ UNCHANGED <<prog, online, memory, door, threads, blocked, patient>>

ForceDoor(c) ==
    /\ c \in override
    /\ Signal([d \in Controllers |->
                 IF d # c THEN "none"
                 ELSE IF memory[c].state = "open" THEN CloseDoor(memory[c])
                 ELSE OpenDoor(memory[c])])
    /\ UNCHANGED <<prog, online, override, memory, blocked, patient>>

-----------------------------------------------------------------------------
(* The door's side. *)

StatusOf(d) == [state |-> d.state, lock |-> d.lock]

(* Mutant: a door that moves already is moved again. *)
StuckLocked(d) == d.lock = "locked"

Stuck(d) == d.operating \/ d.lock = "locked"
Locked(d) == IF d.operating THEN d ELSE [d EXCEPT !.lock = "locked"]
Unlocked(d) == [d EXCEPT !.lock = "unlocked"]
Opening(d) == [d EXCEPT !.operating = TRUE]
Opened(d) == [d EXCEPT !.operating = FALSE, !.state = "open"]
Closing(d) == [d EXCEPT !.operating = TRUE, !.state = "closed"]
Closed(d) == [d EXCEPT !.operating = FALSE]

(* command_completed() *)
CommandDone(d, command) ==
    /\ d.lock = "locked"
    /\ command = "secure_open" => d.state = "open"
    /\ command = "secure_close" => d.state = "closed"

(* Mutant: whatever command the door has by now is taken for done. *)
DoneAlways(d) == [d EXCEPT !.cur_command = "none"]

(* The end of execute_current_command().  It asks about the command the    *)
(* door has by now, not the one that the thread carried out.               *)
Done(d) == IF CommandDone(d, d.cur_command) THEN [d EXCEPT !.cur_command = "none"] ELSE d

(* Thread i of c's door wakes, leaves the door as it is in new, reports    *)
(* what it sees, and goes on to wait as next says.                         *)
Wakes(c, i, at) == i \in DOMAIN threads[c] /\ threads[c][i].at = at
Go(c, i, new, status, next) ==
    /\ door' = [door EXCEPT ![c] = new]
    /\ memory' = [memory EXCEPT ![c] = status]
    /\ threads' = [threads EXCEPT ![c] =
                     RemoveAt(@, i) \o
                     [k \in DOMAIN next |->
                        [at |-> next[k], polling |-> @[i].polling /\ next[k] # "late"]]]
    /\ UNCHANGED <<prog, online, override, blocked, patient>>
Silently(c, i, new, next) == Go(c, i, new, memory[c], next)
Reporting(c, i, new, next) == Go(c, i, new, StatusOf(new), next)

(* execute_current_command() *)
Execute(c, i) ==
    /\ Wakes(c, i, "start")
    /\ LET d == door[c]
           u == Unlocked(d)
       IN  CASE d.operating \/ d.cur_command = "none" -> Silently(c, i, d, << >>)
             [] ~ d.operating /\ d.cur_command = "lock" ->
                    Reporting(c, i, Done(Locked(d)), << >>)
             [] ~ d.operating /\ d.cur_command = "secure_open" ->
                    Silently(c, i, u, <<"unlocked">>)
             [] ~ d.operating /\ d.cur_command = "secure_close" ->
                    IF c \in blocked
                    THEN /\ Len(threads[c]) <= MaxThreads
                         /\ Go(c, i, Locked(u), StatusOf(u), <<"locked", "late">>)
                    ELSE IF d.state = "closed" THEN Go(c, i, Locked(u), StatusOf(u), <<"locked">>)
                    ELSE Silently(c, i, Closing(u), <<"closing">>)

(* secure_open: open() after the first sleep, unless the door is stuck or  *)
(* open already; then lock().                                              *)
Open(c, i) ==
    /\ Wakes(c, i, "unlocked")
    /\ IF Stuck(door[c]) \/ door[c].state = "open"
       THEN Reporting(c, i, Done(Locked(door[c])), << >>)
       ELSE Silently(c, i, Opening(door[c]), <<"opening">>)

FinishOpening(c, i) ==
    /\ Wakes(c, i, "opening")
    /\ Reporting(c, i, Done(Locked(Opened(door[c]))), << >>)

(* secure_close: the door is closed, reports so and is locked after that.  *)
FinishClosing(c, i) ==
    /\ Wakes(c, i, "closing")
    /\ Go(c, i, Locked(Closed(door[c])), StatusOf(Closed(door[c])), <<"locked">>)

(* Mutant: the lock is not reported. *)
FinishLockingSilently(c, i) ==
    /\ Wakes(c, i, "locked")
    /\ Silently(c, i, Done(door[c]), << >>)

FinishLocking(c, i) ==
    /\ Wakes(c, i, "locked")
    /\ Reporting(c, i, Done(door[c]), << >>)

LateClose(c, i) ==
    /\ Wakes(c, i, "late")
    /\ IF Stuck(door[c]) THEN Reporting(c, i, door[c], << >>)
       ELSE IF c \in blocked THEN Reporting(c, i, door[c], <<"late">>)
       ELSE IF door[c].state = "closed" THEN Reporting(c, i, door[c], << >>)
       ELSE Silently(c, i, Closing(door[c]), <<"late_closing">>)

FinishLateClosing(c, i) ==
    /\ Wakes(c, i, "late_closing")
    /\ Reporting(c, i, Closed(door[c]), << >>)

Wake(c, i) == \/ Execute(c, i) \/ Open(c, i) \/ FinishOpening(c, i)
              \/ FinishClosing(c, i) \/ FinishLocking(c, i)
              \/ LateClose(c, i) \/ FinishLateClosing(c, i)

(* process() of the door executes the command too, and is not called again *)
(* before it returns.                                                      *)
PollDoor(c) ==
    /\ door[c].cur_command # "none" /\ ~ door[c].operating
    /\ \A i \in DOMAIN threads[c] : ~ threads[c][i].polling
    /\ Len(threads[c]) < MaxThreads
    /\ threads' = [threads EXCEPT ![c] = Append(@, [at |-> "start", polling |-> TRUE])]
    /\ UNCHANGED <<prog, online, override, memory, door, blocked, patient>>

(* Somebody stops in the open door, or goes on. *)
Block(c) ==
    /\ c \notin blocked /\ door[c].state = "open"
    /\ blocked' = blocked \cup {c}
    /\ UNCHANGED <<prog, online, override, memory, door, threads, patient>>
Unblock(c) ==
    /\ c \in blocked
    /\ blocked' = blocked \ {c}
    /\ UNCHANGED <<prog, online, override, memory, door, threads, patient>>

-----------------------------------------------------------------------------
(* The doors have reported in: every program remembers its door rightly.   *)
Init ==
    /\ Docking!Init
    /\ override = {}
    /\ memory \in [Controllers -> {[state |-> "closed", lock |-> l] : l \in {"locked", "unlocked"}}]
    /\ door = [c \in Controllers |->
                 [state |-> "closed", lock |-> memory[c].lock, operating |-> FALSE,
                  cur_command |-> "none"]]
    /\ threads = [c \in Controllers |-> << >>]
    /\ blocked = {} /\ patient = {}

Doors ==
    \/ \E c \in Controllers : \/ \E i \in DOMAIN threads[c] : Wake(c, i)
                              \/ PollDoor(c) \/ Block(c) \/ Unblock(c)

(* The ports of shuttles that leave in good order, with no override.       *)
Orderly ==
    \/ Doors
    \/ \E r \in Routes : InitiateDocking(r[1], r[2])
    \/ \E c \in Docking!Shuttles : InitiateUndocking(c)
    \/ \E c \in Controllers : Process(c)

Next ==
    \/ Orderly
    \/ \E c \in Docking!Shuttles : ForceUndock(c)
    \/ \E c \in Controllers : ToggleOverride(c) \/ ForceDoor(c)

Spec == Init /\ [][Next]_vars

(* Sleeps end, and programs and doors are processed over and over.  Nobody *)
(* needs to get out of the way.                                            *)
Fairness ==
    \A c \in Controllers :
        /\ \A w \in Waits :
              WF_vars(\E i \in DOMAIN threads[c] : threads[c][i].at = w /\ Wake(c, i))
        /\ WF_vars(PollDoor(c))
        /\ WF_vars(Process(c))
FairSpec == Init /\ [][Orderly]_vars /\ Fairness

-----------------------------------------------------------------------------
(* Every variable holds values of its kind. *)
TypeOK ==
    /\ Docking!TypeOK
    /\ override \subseteq Controllers /\ blocked \subseteq Controllers
    /\ patient \subseteq Controllers
    /\ memory \in [Controllers -> Status]
    /\ door \in [Controllers -> Door]
    /\ \A c \in Controllers : /\ Len(threads[c]) <= MaxThreads + 1
                              /\ \A i \in DOMAIN threads[c] : threads[c][i] \in Thread

(* However commands overtake each other, a program remembers its door      *)
(* rightly whenever none of the door's threads is left.                    *)
MemoryRight ==
    \A c \in Controllers : threads[c] = << >> => memory[c] = StatusOf(door[c])

(* A door moves only while a thread moves it, and one does at a time: its  *)
(* operating flag never stays up, nor is it taken down by another.         *)
OneMover ==
    \A c \in Controllers :
        LET movers == {i \in DOMAIN threads[c] :
                          threads[c][i].at \in {"opening", "closing", "late_closing"}}
        IN  /\ door[c].operating <=> movers # {}
            /\ \A i, k \in movers : i = k

(* An undocking that began with the doors at rest is complete only when    *)
(* the doors at both ends are closed and locked.                           *)
UndocksShut ==
    [][\A c \in patient : prog'[c].dock_state = "undocked" => Shut(door[c])]_vars

(* And it ends, unless somebody stands in a door.                          *)
UndockingEnds ==
    \A c \in Controllers :
        (c \in patient) ~> (prog[c].dock_state # "undocking" \/ blocked # {})

(* The comment at simple_docking_controller.dm l.129: to undock the port   *)
(* gets ready, by closing its door, so that any undocking ends.            *)
AnyUndockingEnds ==
    \A c \in Controllers :
        (prog[c].dock_state = "undocking") ~> (prog[c].dock_state # "undocking" \/ blocked # {})

(* A command sent to a door is carried out, unless another one replaces it *)
(* or somebody stands in the door; it is never forgotten when the thread   *)
(* of an earlier one ends.                                                 *)
CommandsDone ==
    \A c \in Controllers, command \in {"secure_open", "secure_close"} :
        (door[c].cur_command = command)
            ~> \/ CommandDone(door[c], command)
               \/ door[c].cur_command \notin {command, "none"}
               \/ c \in blocked
=============================================================================
