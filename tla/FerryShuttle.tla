---------------------------- MODULE FerryShuttle ----------------------------
(***************************************************************************)
(* Ferry shuttles: code/modules/shuttles/shuttle.dm and shuttle_ferry.dm.  *)
(* A ferry commutes between the station and a site off it.  Its process(), *)
(* called by the shuttle controller while it is not idle, takes it through *)
(*                                                                         *)
(*   idle -> wait_launch -> wait_arrive -> wait_finish -> idle             *)
(*             (force_launch)                                              *)
(*                                                                         *)
(* and jumps are carried out by code that short_jump() and long_jump()     *)
(* spawn: it sleeps for the warmup, moves the shuttle and, for a long      *)
(* jump, sleeps again until the arrival.  Consoles call launch(),          *)
(* force_launch() and cancel_launch() in between, and each ferry docks     *)
(* through its docking program.                                            *)
(***************************************************************************)
EXTENDS Naturals, SequencesExt

CONSTANTS
    Controllers, Routes, ResendTime, NoTag,   \* as in DockingProgram
    Ferries,     \* the ferries, each by the tag of its docking controller
    LongJump,    \* the ferries that have a move_time and an area_transition
    Target,      \* dock_target_station (0) and dock_target_offsite (1), or NoTag
    MaxJumps,    \* bound: spawned jumps under way at a time, per ferry
    MaxRedocks   \* bound: dock() calls that cancelled launches left, per ferry

Places == {0, 1}   \* the two locations: 0 the station, 1 off it
Transit == 2       \* area_transition

ASSUME DockingAssumption ==
    /\ NoTag \notin Controllers
    /\ Routes \subseteq Controllers \X Controllers
    /\ ResendTime \in Nat \ {0}
ASSUME FerryAssumption ==
    /\ Ferries \subseteq Controllers
    /\ LongJump \subseteq Ferries
    /\ Target \in [Ferries -> [Places -> Controllers \cup {NoTag}]]
    /\ \A s \in Ferries : \E l \in Places : Target[s][l] # NoTag
    /\ \A s \in Ferries, l \in Places :
          Target[s][l] # NoTag => <<s, Target[s][l]>> \in Routes
    /\ \A s \in Ferries, l \in Places : Target[s][l] \notin Ferries   \* ferries dock to berths
    /\ MaxJumps \in Nat /\ MaxRedocks \in Nat

VARIABLES
    prog, online,    \* the docking programs
    location,        \* the place a ferry was last at
    moving_status,
    process_state,
    in_use,          \* whether a console holds the lock
    area,            \* where the ferry really is: a place or Transit
    jumps,           \* the jumps spawned and not finished, oldest first
    arriving,        \* whether arrive_time has come
    redocks,         \* dock() calls still to be made for cancelled launches
    timed_out,       \* whether DOCK_ATTEMPT_TIMEOUT is over
    setup            \* the ferries setup_shuttle_docks() has yet to dock

dockVars == <<prog, online>>
ferryVars == <<location, moving_status, process_state, in_use, area, jumps,
               arriving, redocks, timed_out, setup>>
vars == <<dockVars, ferryVars>>

Docking == INSTANCE DockingProgram

(* setup_shuttle_docks() is over: it runs as the round starts, before      *)
(* anything else does.                                                     *)
Running == setup = {} /\ UNCHANGED setup

(* A spawned jump: where it starts, where it ends, whether it has left,    *)
(* and, of the launch it belongs to, whether it was forced and whether it  *)
(* has been cancelled (the last two for the properties only).              *)
Jump == [from : Places, to : Places, left : BOOLEAN, forced : BOOLEAN,
         cancelled : BOOLEAN]

-----------------------------------------------------------------------------
(* Calls of the docking controller.  The program ignores a call that does  *)
(* not fit its state.                                                      *)

Undocked(s) == prog[s].dock_state = "undocked"
Docked(s) == prog[s].dock_state = "docked"
SkipChecks(s) == Target[s][location[s]] = NoTag

Undock(s) ==
    IF Docking!Is(prog[s], "client", "docked")
    THEN Docking!InitiateUndocking(s) ELSE UNCHANGED dockVars

Dock(s) ==
    /\ IF ~ SkipChecks(s) /\ Undocked(s) /\ prog[s].control_mode # "server"
       THEN Docking!InitiateDocking(s, Target[s][location[s]])
       ELSE UNCHANGED dockVars
    /\ timed_out' = [timed_out EXCEPT ![s] = FALSE]

(* Mutant: the other end is not told. *)
ForceSilently(s) ==
    /\ prog' = [prog EXCEPT ![s] = Docking!Reset(@)]
    /\ UNCHANGED online

ForceIfDocked(s) ==
    IF Undocked(s) THEN UNCHANGED dockVars ELSE Docking!ForceUndock(s)

-----------------------------------------------------------------------------
(* The consoles. *)

CanLaunch(s) == moving_status[s] = "idle" /\ ~ in_use[s]
CanForce(s) == moving_status[s] = "idle" /\ process_state[s] = "wait_launch"
CanCancel(s) == \/ moving_status[s] = "warmup"
                \/ process_state[s] \in {"wait_launch", "force_launch"}

Launch(s) ==
    /\ Running
    /\ CanLaunch(s)
    /\ in_use' = [in_use EXCEPT ![s] = TRUE]
    /\ process_state' = [process_state EXCEPT ![s] = "wait_launch"]
    /\ Undock(s)
    /\ UNCHANGED <<location, moving_status, area, jumps, arriving, redocks, timed_out>>

ForceLaunch(s) ==
    /\ Running
    /\ CanForce(s)
    /\ in_use' = [in_use EXCEPT ![s] = TRUE]
    /\ process_state' = [process_state EXCEPT ![s] = "force_launch"]
    /\ UNCHANGED <<dockVars, location, moving_status, area, jumps, arriving,
                   redocks, timed_out>>

CancelLaunch(s) ==
    /\ Running
    /\ CanCancel(s)
    /\ redocks[s] < MaxRedocks
    /\ moving_status' = [moving_status EXCEPT ![s] = "idle"]
    /\ process_state' = [process_state EXCEPT ![s] = "wait_finish"]
    /\ in_use' = [in_use EXCEPT ![s] = FALSE]
    /\ ForceIfDocked(s)
    /\ redocks' = [redocks EXCEPT ![s] = @ + 1]
    /\ jumps' = [jumps EXCEPT ![s] =
                   [i \in DOMAIN @ |-> [@[i] EXCEPT !.cancelled = TRUE]]]
    /\ UNCHANGED <<location, area, arriving, timed_out>>

(* One second after a cancelled launch, whatever has happened since. *)
Redock(s) ==
    /\ Running
    /\ redocks[s] > 0
    /\ redocks' = [redocks EXCEPT ![s] = @ - 1]
    /\ Dock(s)
    /\ UNCHANGED <<location, moving_status, process_state, in_use, area, jumps, arriving>>

(* The console that holds the lock is destroyed: in_use becomes null. *)
LoseConsole(s) ==
    /\ Running
    /\ in_use[s]
    /\ in_use' = [in_use EXCEPT ![s] = FALSE]
    /\ UNCHANGED <<dockVars, location, moving_status, process_state, area, jumps,
                   arriving, redocks, timed_out>>

-----------------------------------------------------------------------------
(* process() *)

StartJump(s, forced) ==
    IF moving_status[s] # "idle" THEN UNCHANGED <<moving_status, jumps>>
    ELSE /\ Len(jumps[s]) < MaxJumps
         /\ moving_status' = [moving_status EXCEPT ![s] = "warmup"]
         /\ jumps' = [jumps EXCEPT ![s] =
               Append(@, [from |-> location[s], to |-> 1 - location[s],
                          left |-> FALSE, forced |-> forced, cancelled |-> FALSE])]

(* Mutant: can_launch() is not asked. *)
DepartUnchecked(s) ==
    /\ Running
    /\ process_state[s] \in {"wait_launch", "force_launch"}
    /\ StartJump(s, process_state[s] = "force_launch")
    /\ process_state' = [process_state EXCEPT ![s] = "wait_arrive"]
    /\ UNCHANGED <<dockVars, location, in_use, area, arriving, redocks, timed_out>>

(* Mutant: can_launch() asks that nothing is even requested. *)
DepartIfFree(s) ==
    /\ Running
    /\ \/ /\ process_state[s] = "wait_launch"
          /\ SkipChecks(s) \/ prog[s].control_mode = "none"
          /\ StartJump(s, FALSE)
       \/ /\ process_state[s] = "force_launch"
          /\ StartJump(s, TRUE)
    /\ process_state' = [process_state EXCEPT ![s] = "wait_arrive"]
    /\ UNCHANGED <<dockVars, location, in_use, area, arriving, redocks, timed_out>>

Depart(s) ==
    /\ Running
    /\ \/ /\ process_state[s] = "wait_launch"
          /\ SkipChecks(s) \/ Undocked(s)
          /\ StartJump(s, FALSE)
       \/ /\ process_state[s] = "force_launch"
          /\ StartJump(s, TRUE)
    /\ process_state' = [process_state EXCEPT ![s] = "wait_arrive"]
    /\ UNCHANGED <<dockVars, location, in_use, area, arriving, redocks, timed_out>>

(* Mutant: the lock of the launch that is over is kept. *)
ArriveLocked(s) ==
    /\ Running
    /\ process_state[s] = "wait_arrive"
    /\ moving_status[s] = "idle"
    /\ Dock(s)
    /\ process_state' = [process_state EXCEPT ![s] = "wait_finish"]
    /\ UNCHANGED <<location, moving_status, in_use, area, jumps, arriving, redocks>>

Arrive(s) ==
    /\ Running
    /\ process_state[s] = "wait_arrive"
    /\ moving_status[s] = "idle"
    /\ Dock(s)
    /\ in_use' = [in_use EXCEPT ![s] = FALSE]
    /\ process_state' = [process_state EXCEPT ![s] = "wait_finish"]
    /\ UNCHANGED <<location, moving_status, area, jumps, arriving, redocks>>

(* Mutant: no DOCK_ATTEMPT_TIMEOUT. *)
FinishDockedOnly(s) ==
    /\ Running
    /\ process_state[s] = "wait_finish"
    /\ SkipChecks(s) \/ Docked(s)
    /\ process_state' = [process_state EXCEPT ![s] = "idle"]
    /\ UNCHANGED <<dockVars, location, moving_status, in_use, area, jumps,
                   arriving, redocks, timed_out>>

Finish(s) ==
    /\ Running
    /\ process_state[s] = "wait_finish"
    /\ SkipChecks(s) \/ Docked(s) \/ timed_out[s]
    /\ process_state' = [process_state EXCEPT ![s] = "idle"]
    /\ UNCHANGED <<dockVars, location, moving_status, in_use, area, jumps,
                   arriving, redocks, timed_out>>

ProcessFerry(s) == Depart(s) \/ Arrive(s) \/ Finish(s)

-----------------------------------------------------------------------------
(* The spawned jumps. *)

(* Mutant: the interim area counts as a location. *)
MoveInterim(s, from, to) ==
    /\ ForceIfDocked(s)
    /\ area' = [area EXCEPT ![s] = to]
    /\ location' = [location EXCEPT ![s] = to]

(* Mutant: the shuttle leaves without undocking. *)
MoveDocked(s, from, to) ==
    /\ UNCHANGED dockVars
    /\ area' = [area EXCEPT ![s] = IF @ = from THEN to ELSE @]
    /\ location' = [location EXCEPT ![s] = IF to \in Places THEN to ELSE @]

(* move() carries what is in the area from, and only that.  A move from an *)
(* area to itself does nothing but still sets the location.                *)
Move(s, from, to) ==
    /\ IF from = to THEN UNCHANGED <<dockVars, area>>
       ELSE /\ ForceIfDocked(s)
            /\ area' = [area EXCEPT ![s] = IF @ = from THEN to ELSE @]
    /\ location' = [location EXCEPT ![s] = IF to \in Places THEN to ELSE @]

(* Warmups are equally long, so they end in the order they began. *)
Warm(s, i) ==
    /\ i \in DOMAIN jumps[s]
    /\ ~ jumps[s][i].left
    /\ \A k \in 1 .. i - 1 : jumps[s][k].left

CallOff(s, i) ==
    /\ Running
    /\ Warm(s, i)
    /\ moving_status[s] = "idle"
    /\ jumps' = [jumps EXCEPT ![s] = RemoveAt(@, i)]
    /\ UNCHANGED <<dockVars, location, moving_status, process_state, in_use, area,
                   arriving, redocks, timed_out>>

(* A short jump is over as soon as the warmup is. *)
Leave(s, i) ==
    /\ Running
    /\ Warm(s, i)
    /\ moving_status[s] # "idle"
    /\ IF s \in LongJump
       THEN /\ Move(s, jumps[s][i].from, Transit)
            /\ moving_status' = [moving_status EXCEPT ![s] = "intransit"]
            /\ arriving' = [arriving EXCEPT ![s] = FALSE]
            /\ jumps' = [jumps EXCEPT ![s][i].left = TRUE]
       ELSE /\ Move(s, jumps[s][i].from, jumps[s][i].to)
            /\ moving_status' = [moving_status EXCEPT ![s] = "idle"]
            /\ jumps' = [jumps EXCEPT ![s] = RemoveAt(@, i)]
            /\ UNCHANGED arriving
    /\ UNCHANGED <<process_state, in_use, redocks, timed_out>>

(* Mutant: the second move() starts from the place that was left. *)
LandFromOrigin(s, i) ==
    /\ Running
    /\ i \in DOMAIN jumps[s]
    /\ jumps[s][i].left
    /\ arriving[s]
    /\ Move(s, jumps[s][i].from, jumps[s][i].to)
    /\ moving_status' = [moving_status EXCEPT ![s] = "idle"]
    /\ jumps' = [jumps EXCEPT ![s] = RemoveAt(@, i)]
    /\ UNCHANGED <<process_state, in_use, arriving, redocks, timed_out>>

(* Mutant: the jump is over and moving_status still says it is on. *)
LandInTransit(s, i) ==
    /\ Running
    /\ i \in DOMAIN jumps[s]
    /\ jumps[s][i].left
    /\ arriving[s]
    /\ Move(s, Transit, jumps[s][i].to)
    /\ jumps' = [jumps EXCEPT ![s] = RemoveAt(@, i)]
    /\ UNCHANGED <<moving_status, process_state, in_use, arriving, redocks, timed_out>>

Land(s, i) ==
    /\ Running
    /\ i \in DOMAIN jumps[s]
    /\ jumps[s][i].left
    /\ arriving[s]
    /\ Move(s, Transit, jumps[s][i].to)
    /\ moving_status' = [moving_status EXCEPT ![s] = "idle"]
    /\ jumps' = [jumps EXCEPT ![s] = RemoveAt(@, i)]
    /\ UNCHANGED <<process_state, in_use, arriving, redocks, timed_out>>

-----------------------------------------------------------------------------
(* The passage of time: arrive_time comes, the attempt to dock times out.  *)
(* Each happens, like any time, when it may first be looked at, or later.  *)

TravelEnds(s) ==
    /\ Running
    /\ ~ arriving[s]
    /\ \E i \in DOMAIN jumps[s] : jumps[s][i].left
    /\ arriving' = [arriving EXCEPT ![s] = TRUE]
    /\ UNCHANGED <<dockVars, location, moving_status, process_state, in_use, area,
                   jumps, redocks, timed_out>>

TimeOut(s) ==
    /\ Running
    /\ ~ timed_out[s]
    /\ process_state[s] = "wait_finish"
    /\ timed_out' = [timed_out EXCEPT ![s] = TRUE]
    /\ UNCHANGED <<dockVars, location, moving_status, process_state, in_use, area,
                   jumps, arriving, redocks>>

(* The docking programs are processed, and machines blown up. *)
ProcessDocking(c) ==
    /\ Running
    /\ \E ready \in BOOLEAN : Docking!Process(c, ready)
    /\ UNCHANGED <<location, moving_status, process_state, in_use, area, jumps,
                   arriving, redocks, timed_out>>

DestroyDocking(c) ==
    /\ Running
    /\ Docking!Destroy(c)
    /\ UNCHANGED <<location, moving_status, process_state, in_use, area, jumps,
                   arriving, redocks, timed_out>>

(* setup_shuttle_docks() docks the ferries, one by one. *)
SetupDock(s) ==
    /\ s \in setup
    /\ Dock(s)
    /\ setup' = setup \ {s}
    /\ UNCHANGED <<location, moving_status, process_state, in_use, area, jumps,
                   arriving, redocks>>

-----------------------------------------------------------------------------
Init ==
    /\ Docking!Init
    /\ location \in [Ferries -> Places]
    /\ moving_status = [s \in Ferries |-> "idle"]
    /\ process_state = [s \in Ferries |-> "idle"]
    /\ in_use = [s \in Ferries |-> FALSE]
    /\ area = location
    /\ jumps = [s \in Ferries |-> << >>]
    /\ arriving = [s \in Ferries |-> TRUE]
    /\ redocks = [s \in Ferries |-> 0]
    /\ timed_out = [s \in Ferries |-> FALSE]
    /\ setup = Ferries

Operate(s) ==
    \/ Launch(s) \/ ForceLaunch(s) \/ LoseConsole(s)
    \/ ProcessFerry(s) \/ Redock(s)
    \/ \E i \in DOMAIN jumps[s] : CallOff(s, i) \/ Leave(s, i) \/ Land(s, i)
    \/ TravelEnds(s) \/ TimeOut(s)

Calm ==
    \/ \E s \in Ferries : SetupDock(s) \/ Operate(s)
    \/ \E c \in Controllers : ProcessDocking(c)

Uncancelled == Calm \/ \E c \in Controllers : DestroyDocking(c)

Next == Uncancelled \/ \E s \in Ferries : CancelLaunch(s)

(* Nobody cancels a launch; machines may be lost. *)
UncancelledSpec == Init /\ [][Uncancelled]_vars

Spec == Init /\ [][Next]_vars

(* Every machine and every ferry is processed over and over, sleeps end    *)
(* and time passes; ports are ready as in DockingProgram.  No launch need  *)
(* be asked for, forced or cancelled.                                      *)
Fairness ==
    /\ \A s \in Ferries :
        /\ WF_vars(SetupDock(s))
        /\ WF_vars(ProcessFerry(s))
        /\ WF_vars(\E i \in DOMAIN jumps[s] :
                      CallOff(s, i) \/ Leave(s, i) \/ Land(s, i))
        /\ WF_vars(TravelEnds(s))
        /\ WF_vars(TimeOut(s))
    /\ \A c \in Controllers :
        WF_vars(Docking!Process(c, TRUE) /\ UNCHANGED ferryVars)
FairSpec == Init /\ [][Calm]_vars /\ Fairness

-----------------------------------------------------------------------------
(* Every variable holds values of its kind. *)
TypeOK ==
    /\ Docking!TypeOK
    /\ location \in [Ferries -> Places]
    /\ moving_status \in [Ferries -> {"idle", "warmup", "intransit"}]
    /\ process_state \in [Ferries -> {"idle", "wait_launch", "force_launch",
                                      "wait_arrive", "wait_finish"}]
    /\ area \in [Ferries -> Places \cup {Transit}]
    /\ \A s \in Ferries : /\ in_use[s] \in BOOLEAN
                          /\ \A i \in DOMAIN jumps[s] : jumps[s][i] \in Jump
                          /\ Len(jumps[s]) <= MaxJumps
                          /\ arriving[s] \in BOOLEAN
                          /\ redocks[s] \in 0 .. MaxRedocks
                          /\ timed_out[s] \in BOOLEAN
    /\ setup \subseteq Ferries

(* The comment at shuttle_ferry.dm l.67: while no launch is cancelled, a   *)
(* ferry has one jump under way at most, has one exactly while its         *)
(* moving_status says so, and its process() then waits for the arrival.    *)
OneJump ==
    \A s \in Ferries :
        /\ Len(jumps[s]) <= 1
        /\ Len(jumps[s]) = 1 <=> moving_status[s] # "idle"

(* While no launch is cancelled: a ferry is where location says, or on its *)
(* way from there; and a ferry whose program is docking, docked or         *)
(* undocking deals with the berth of the place it stands at.               *)
Located ==
    \A s \in Ferries :
        /\ area[s] = location[s] \/ (area[s] = Transit /\ jumps[s] # << >>)
        /\ ~ Undocked(s) => /\ area[s] = location[s]
                            /\ prog[s].tag_target = Target[s][location[s]]

(* can_launch() keeps an undocking or docked ferry from leaving unless it  *)
(* is forced, although the ferry leaves a whole warmup after it was asked. *)
LeavesUndocked ==
    [][\A s \in Ferries :
          /\ area[s] \in Places /\ area'[s] # area[s]
          /\ \A i \in DOMAIN jumps[s] : ~ jumps[s][i].forced
          => Undocked(s)]_vars

(* However launches are forced and cancelled, nobody is left behind in     *)
(* transit: a ferry between the places has a jump that will land it.       *)
NotStranded ==
    \A s \in Ferries :
        area[s] = Transit => \E i \in DOMAIN jumps[s] : jumps[s][i].left

(* The two ends of a docking agree, whatever the ferries do. *)
BerthsAgree == Docking!PartnersAgree

(* Launching, jumping and docking a ferry never leaves the docking         *)
(* protocol: what DockingProgram shows of it holds of the ferries too.     *)
ImplementsDocking == Docking!Spec

(* A jump whose launch somebody cancelled does not take place              *)
(* (shuttle.dm l.22).                                                      *)
CancelledStays ==
    [][\A s \in Ferries : \A i \in DOMAIN jumps[s] :
          Warm(s, i) /\ jumps[s][i].cancelled /\ area[s] \in Places
          => area'[s] = area[s]]_vars

(* A jump comes to its end, and so does the attempt to dock. *)
Arrives ==
    \A s \in Ferries :
        (process_state[s] = "wait_arrive") ~> (process_state[s] # "wait_arrive")
Finishes ==
    \A s \in Ferries :
        (process_state[s] = "wait_finish") ~> (process_state[s] # "wait_finish")

(* A launch asked for while the ferry is docked (so that it undocks) or    *)
(* undocked goes ahead without being forced.                               *)
LaunchLeaves ==
    \A s \in Ferries :
        (process_state[s] = "wait_launch" /\ prog[s].dock_state \in {"undocking", "undocked"})
            ~> (process_state[s] = "wait_arrive")
=============================================================================
