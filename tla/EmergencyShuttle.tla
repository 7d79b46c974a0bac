-------------------------- MODULE EmergencyShuttle --------------------------
(***************************************************************************)
(* The emergency shuttle and its escape pods:                              *)
(* code/controllers/emergency_shuttle_controller.dm, shuttle_emergency.dm  *)
(* and escape_pods.dm in code/modules/shuttles.  All of them are ferries   *)
(* (FerryShuttle).  The controller counts down to a launch, recalls the    *)
(* shuttle and arms and launches the pods; the shuttle's console overrides *)
(* it once enough heads of staff have authorized that.                     *)
(*                                                                         *)
(* launch_time and auto_recall_time are abstracted to whether they have    *)
(* come.  The ticker calls the controller's process() every two seconds,   *)
(* and the model keeps of the durations what the code relies on: a jump    *)
(* takes longer than that (Prompt), and so does it from an automatic       *)
(* recall to the launch that was set with it, 30 s (LaunchComes); but a    *)
(* jump that somebody else starts makes launch_time come at once (Depart). *)
(* Left out are admins, who may edit the countdown or ask for an automatic *)
(* recall while it runs; deny_shuttle, which only keeps calls from being   *)
(* made; and the loss of docking machines, which FerryShuttle has.         *)
(***************************************************************************)
EXTENDS Naturals, FiniteSets

CONSTANTS
    Controllers, Routes, ResendTime, NoTag, Ferries, LongJump, Target,
    MaxJumps, MaxRedocks,    \* as in FerryShuttle
    Escape,                  \* the emergency shuttle; the other ferries are pods
    Heads,                   \* the identities with access_heads
    ReqAuthorizations

Pods == Ferries \ {Escape}

ASSUME DockingAssumption ==
    /\ NoTag \notin Controllers
    /\ Routes \subseteq Controllers \X Controllers
    /\ ResendTime \in Nat \ {0}
ASSUME FerryAssumption ==
    /\ Ferries \subseteq Controllers
    /\ LongJump \subseteq Ferries
    /\ Target \in [Ferries -> [{0, 1} -> Controllers \cup {NoTag}]]
    /\ \A s \in Ferries : \E l \in {0, 1} : Target[s][l] # NoTag
    /\ \A s \in Ferries, l \in {0, 1} :
          Target[s][l] # NoTag => <<s, Target[s][l]>> \in Routes
    /\ \A s \in Ferries, l \in {0, 1} : Target[s][l] \notin Ferries
    /\ MaxJumps \in Nat /\ MaxRedocks \in Nat
ASSUME EmergencyAssumption ==
    /\ Escape \in Ferries /\ Escape \in LongJump
    /\ ReqAuthorizations \in Nat

VARIABLES
    prog, online, location, moving_status, process_state, in_use, area, jumps,
    arriving, redocks, timed_out, setup,   \* the ferries
    countdown,       \* wait_for_launch, and whether launch_time has come
    evac, autopilot, departed,
    armed,           \* the pods whose berth is armed
    authorized,      \* who has authorized at the shuttle's console
    emagged,
    console_lock,    \* whether the shuttle's in_use is its console
    launching,       \* the ferries process() has yet to launch
    auto_recall,     \* whether it is set, and whether auto_recall_time has come
    set_at,          \* history: where the shuttle was when the countdown was set
    recalled         \* history: "yes" if it was recalled, and not called or
                     \*   launched from its console since; "relaunched" if the
                     \*   call of process() that recalled it launches it again

ferryVars == <<prog, online, location, moving_status, process_state, in_use, area,
               jumps, arriving, redocks, timed_out, setup>>
flight == <<evac, autopilot, departed, armed, recalled>>
console == <<authorized, emagged>>
vars == <<ferryVars, countdown, set_at, auto_recall, flight, console, console_lock,
          launching>>

Ferry == INSTANCE FerryShuttle

Idle == moving_status[Escape] = "idle"
AtStation == location[Escape] = 0

(* Between two steps that others see: the docks are set up, and process()  *)
(* is not in the middle of its launches.                                   *)
Free == setup = {} /\ launching = {}

-----------------------------------------------------------------------------
(* The controller. *)

SetLaunchCountdown(due) ==
    /\ countdown' = IF due THEN "due" ELSE "running"
    /\ set_at' = location[Escape]

StopLaunchCountdown ==
    /\ countdown' = "off"
    /\ set_at' = 1

(* A shuttle already on its way, or about to leave, is not called. *)
CanCall == Idle /\ ~ AtStation /\ countdown = "off"

CanRecall == /\ moving_status[Escape] # "intransit"
             /\ ~ AtStation
             /\ countdown # "off"

(* call_evac() and call_transfer(), which set auto_recall_time anew; some  *)
(* game modes and init_shift_change() set auto_recall before the call, and *)
(* Nar-Sie lets launch_time be 0 after it.                                 *)
Call ==
    /\ Free
    /\ CanCall
    /\ autopilot' = TRUE
    /\ \E narsie \in BOOLEAN : SetLaunchCountdown(narsie)
    /\ \/ auto_recall' = "set"
       \/ auto_recall = "off" /\ auto_recall' = "off"
    /\ evac' \in {evac, TRUE}
    /\ recalled' = "no"
    /\ UNCHANGED <<ferryVars, departed, armed, console, console_lock, launching>>

(* recall() *)
RecallShuttle ==
    /\ Free
    /\ CanRecall
    /\ StopLaunchCountdown
    /\ IF Ferry!CanCancel(Escape)
       THEN Ferry!CancelLaunch(Escape) /\ console_lock' = FALSE
       ELSE UNCHANGED <<ferryVars, console_lock>>
    /\ evac' = FALSE
    /\ UNCHANGED <<auto_recall, autopilot, departed, armed, console>>

(* Mutant: a launch under way is not cancelled. *)
RecallNoCancel ==
    /\ Free
    /\ CanRecall
    /\ StopLaunchCountdown
    /\ evac' = FALSE
    /\ recalled' = "yes"
    /\ UNCHANGED <<ferryVars, auto_recall, autopilot, departed, armed, console,
                   console_lock, launching>>

(* Somebody recalls the shuttle. *)
Recall ==
    /\ RecallShuttle
    /\ recalled' = "yes"
    /\ UNCHANGED launching

(* process() when auto_recall_time has come.  It then looks at launch_time *)
(* without asking again whether the countdown is still on: if that has     *)
(* come too, the same call goes on to launch the shuttle.                  *)
AutoRecall ==
    /\ auto_recall = "due"
    /\ RecallShuttle
    /\ IF countdown = "due" /\ autopilot
       THEN launching' = {Escape} /\ recalled' = "relaunched"
       ELSE launching' = {} /\ recalled' = "yes"

(* process() when launch_time has come.  It launches the armed pods when   *)
(* the shuttle leaves the station, and the shuttle itself; the calls       *)
(* follow one by one, and nothing else happens in between.                 *)
TimeToLaunch ==
    /\ Free
    /\ countdown = "due"
    /\ ~ (auto_recall = "due" /\ CanRecall)
    /\ StopLaunchCountdown
    /\ launching' = (IF AtStation THEN Pods \cap armed ELSE {})
                    \cup (IF autopilot THEN {Escape} ELSE {})
    /\ UNCHANGED <<ferryVars, auto_recall, flight, console, console_lock>>

(* Mutant: a pod is launched wherever it is. *)
CanLaunchArmed(s) ==
    /\ Ferry!CanLaunch(s)
    /\ s \in Pods => s \in armed

CanLaunch(s) ==
    /\ Ferry!CanLaunch(s)
    /\ s \in Pods => s \in armed /\ location[s] = 0

LaunchNext(s) ==
    /\ s \in launching
    /\ launching' = launching \ {s}
    /\ IF CanLaunch(s)
       THEN Ferry!Launch(s) /\ console_lock' = (console_lock /\ s # Escape)
       ELSE UNCHANGED <<ferryVars, console_lock>>
    /\ UNCHANGED <<countdown, set_at, auto_recall, flight, console>>

Process == AutoRecall \/ TimeToLaunch \/ \E s \in Ferries : LaunchNext(s)

(* A countdown that is over does not wait for process(): a jump's sleeps,  *)
(* the warmup of 10 s and the transit of minutes, are longer than the two  *)
(* seconds between its calls.                                              *)
Prompt == countdown # "due"

(* An automatic recall comes 30 s or more before the launch_time that was  *)
(* set with it, and process() in between.                                  *)
LaunchComes ==
    /\ Free
    /\ countdown = "running"
    /\ AtStation \/ auto_recall = "off"
    /\ countdown' = "due"
    /\ UNCHANGED <<ferryVars, set_at, auto_recall, flight, console, console_lock,
                   launching>>

(* auto_recall_time comes 30 s or more after the call: Nar-Sie's launch is *)
(* under way by then.                                                      *)
RecallComes ==
    /\ Free
    /\ auto_recall = "set"
    /\ countdown = "running" /\ ~ AtStation
    /\ auto_recall' = "due"
    /\ UNCHANGED <<ferryVars, countdown, set_at, flight, console, console_lock,
                   launching>>

(* The revolution or the malfunction is over, and the round goes on. *)
EndAutoRecall ==
    /\ Free
    /\ auto_recall # "off"
    /\ auto_recall' = "off"
    /\ UNCHANGED <<ferryVars, countdown, set_at, flight, console, console_lock,
                   launching>>

-----------------------------------------------------------------------------
(* The shuttle's console. *)

HasAuthorization == Cardinality(authorized) >= ReqAuthorizations \/ emagged

ReadAuthorization(h) ==
    /\ Free
    /\ Cardinality(authorized) < ReqAuthorizations
    /\ h \notin authorized
    /\ authorized' = authorized \cup {h}
    /\ UNCHANGED <<ferryVars, countdown, set_at, auto_recall, flight, emagged,
                   console_lock, launching>>

RemoveId(h) ==
    /\ Free
    /\ h \in authorized
    /\ authorized' = authorized \ {h}
    /\ UNCHANGED <<ferryVars, countdown, set_at, auto_recall, flight, emagged,
                   console_lock, launching>>

Emag ==
    /\ Free
    /\ ~ emagged
    /\ emagged' = TRUE
    /\ UNCHANGED <<ferryVars, countdown, set_at, auto_recall, flight, authorized,
                   console_lock, launching>>

ConsoleLaunch ==
    /\ Free
    /\ HasAuthorization
    /\ Ferry!Launch(Escape)
    /\ autopilot' = FALSE
    /\ console_lock' = TRUE
    /\ recalled' = "no"
    /\ UNCHANGED <<countdown, set_at, auto_recall, evac, departed, armed, console,
                   launching>>

(* Whoever launched the shuttle, forcing it takes no authorization. *)
ConsoleForce ==
    /\ Free
    /\ process_state[Escape] = "wait_launch" \/ HasAuthorization
    /\ Ferry!ForceLaunch(Escape)
    /\ autopilot' = FALSE
    /\ console_lock' = TRUE
    /\ recalled' = "no"
    /\ UNCHANGED <<countdown, set_at, auto_recall, evac, departed, armed, console,
                   launching>>

ConsoleCancel ==
    /\ Free
    /\ HasAuthorization
    /\ Ferry!CancelLaunch(Escape)
    /\ autopilot' = FALSE
    /\ console_lock' = FALSE
    /\ UNCHANGED <<countdown, set_at, auto_recall, evac, departed, armed, recalled,
                   console, launching>>

-----------------------------------------------------------------------------
(* The pods: their berths may be armed by hand, and any request of a pod's *)
(* panel arms it and tries to launch it.  Forcing has to wait until 5 s    *)
(* after the ejection countdown, which may be at any time.                 *)

ArmPod(p) ==
    /\ Free
    /\ p \notin armed
    /\ armed' = armed \cup {p}
    /\ UNCHANGED <<ferryVars, countdown, set_at, auto_recall, evac, autopilot,
                   departed, recalled, console, console_lock, launching>>

PodPanel(p) ==
    /\ Free
    /\ armed' = armed \cup {p}
    /\ \/ Ferry!ForceLaunch(p)
       \/ departed /\ location[p] = 0 /\ Ferry!Launch(p)
    /\ UNCHANGED <<countdown, set_at, auto_recall, evac, autopilot, departed,
                   recalled, console, console_lock, launching>>

(* The shuttle's console is destroyed while it holds the lock, and a new   *)
(* one is built.  A pod's panel is its docking machine, which is not lost. *)
LoseConsole ==
    /\ Free
    /\ console_lock
    /\ Ferry!LoseConsole(Escape)
    /\ console_lock' = FALSE
    /\ authorized' = {} /\ emagged' = FALSE
    /\ UNCHANGED <<countdown, set_at, auto_recall, flight, launching>>

-----------------------------------------------------------------------------
(* The flights.  What the emergency shuttle overrides comes on top of what *)
(* any ferry does.                                                         *)

(* Mutant: launch_time is not brought up to date. *)
DepartUntimed(s) ==
    /\ Free
    /\ Ferry!Depart(s)
    /\ UNCHANGED <<countdown, set_at, auto_recall, flight, console, console_lock,
                   launching>>

(* long_jump() *)
Depart(s) ==
    /\ Free
    /\ Ferry!Depart(s)
    /\ countdown' = IF s = Escape /\ countdown = "running" THEN "due" ELSE countdown
    /\ UNCHANGED <<set_at, auto_recall, flight, console, console_lock, launching>>

Arrive(s) ==
    /\ Free
    /\ Ferry!Arrive(s)
    /\ console_lock' = (console_lock /\ s # Escape)
    /\ UNCHANGED <<countdown, set_at, auto_recall, flight, console, launching>>

(* shuttle_arrived() *)
ShuttleArrived ==
    /\ IF AtStation /\ autopilot THEN SetLaunchCountdown(FALSE)
       ELSE UNCHANGED <<countdown, set_at>>
    /\ armed' = IF AtStation /\ evac THEN Pods ELSE armed

(* arrived() *)
Finish(s) ==
    /\ Free
    /\ Ferry!Finish(s)
    /\ IF s = Escape
       THEN /\ authorized' = IF console_lock THEN {} ELSE authorized
            /\ ShuttleArrived
       ELSE UNCHANGED <<authorized, countdown, set_at, armed>>
    /\ UNCHANGED <<auto_recall, evac, autopilot, departed, recalled, emagged,
                   console_lock, launching>>

(* move() *)
Leave(s, i) ==
    /\ Free
    /\ Prompt
    /\ Ferry!Leave(s, i)
    /\ departed' = (departed \/ (s = Escape /\ jumps[s][i].from = 0))
    /\ UNCHANGED <<countdown, set_at, auto_recall, evac, autopilot, armed, recalled,
                   console, console_lock, launching>>

Land(s, i) ==
    /\ Free
    /\ Prompt
    /\ Ferry!Land(s, i)
    /\ UNCHANGED <<countdown, set_at, auto_recall, flight, console, console_lock,
                   launching>>

(* The rest is as for any ferry. *)
OtherStep ==
    /\ launching = {}
    /\ \/ \E s \in Ferries :
            \/ Ferry!SetupDock(s) \/ Ferry!Redock(s)
            \/ Ferry!TravelEnds(s) \/ Ferry!TimeOut(s)
            \/ \E i \in DOMAIN jumps[s] : Ferry!CallOff(s, i)
       \/ \E c \in Controllers : Ferry!ProcessDocking(c)
    /\ UNCHANGED <<countdown, set_at, auto_recall, flight, console, console_lock,
                   launching>>

-----------------------------------------------------------------------------
Init ==
    /\ Ferry!Init
    /\ location = [s \in Ferries |-> IF s = Escape THEN 1 ELSE 0]
    /\ countdown = "off" /\ set_at = 1
    /\ evac = FALSE /\ autopilot = TRUE /\ departed = FALSE
    /\ armed = {}
    /\ authorized = {} /\ emagged = FALSE
    /\ console_lock = FALSE /\ launching = {}
    /\ auto_recall = "off"
    /\ recalled = "no"

Next ==
    \/ Call \/ Recall \/ Process \/ LaunchComes \/ RecallComes \/ EndAutoRecall
    \/ \E h \in Heads : ReadAuthorization(h) \/ RemoveId(h)
    \/ Emag \/ ConsoleLaunch \/ ConsoleForce \/ ConsoleCancel \/ LoseConsole
    \/ \E p \in Pods : ArmPod(p) \/ PodPanel(p)
    \/ \E s \in Ferries :
         \/ Depart(s) \/ Arrive(s) \/ Finish(s)
         \/ \E i \in DOMAIN jumps[s] : Leave(s, i) \/ Land(s, i)
    \/ OtherStep

Spec == Init /\ [][Next]_vars

-----------------------------------------------------------------------------
(* Every variable holds values of its kind. *)
TypeOK ==
    /\ Ferry!TypeOK
    /\ countdown \in {"off", "running", "due"}
    /\ auto_recall \in {"off", "set", "due"}
    /\ recalled \in {"no", "yes", "relaunched"}
    /\ {evac, autopilot, departed, emagged, console_lock} \subseteq BOOLEAN
    /\ armed \subseteq Pods
    /\ authorized \subseteq Heads /\ Cardinality(authorized) <= ReqAuthorizations
    /\ launching \subseteq Ferries
    /\ set_at \in Ferry!Places

(* The autopilot never leaves on a countdown that was set at the other     *)
(* place: whoever overrides it in the meantime, the shuttle waits at the   *)
(* station for the whole SHUTTLE_LEAVETIME, and at Central Command until   *)
(* it is called (shuttle_emergency.dm l.18-20).                            *)
LeavesOnTime ==
    [][launching = {} /\ Escape \in launching' => location[Escape] = set_at]_vars

(* A shuttle recalled stays at Central Command, also when its launch was   *)
(* under way, until it is called again or launched from its console.  The  *)
(* exception is the automatic recall that finds launch_time come: process()*)
(* launches again what it has just recalled                                *)
(* (emergency_shuttle_controller.dm l.27-39).                              *)
RecalledStays ==
    [][recalled = "yes" /\ area[Escape] = 1 => area'[Escape] = 1]_vars

(* Nobody is forgotten at the station: process() stops the countdown       *)
(* before it asks for a launch that may be refused in silence              *)
(* (emergency_shuttle_controller.dm l.30, l.39), and still, while nobody   *)
(* overrides the autopilot, a shuttle that rests there has a countdown.    *)
StillLeaves ==
    autopilot /\ AtStation /\ Idle /\ process_state[Escape] = "idle"
    => countdown # "off" \/ Escape \in launching

(* The round ends when returned() says so, and then the shuttle really is  *)
(* at Central Command, whatever was cancelled on the way.                  *)
Returned == departed /\ Idle /\ ~ AtStation
ReturnedHome == Returned => area[Escape] = 1

(* A pod's trip is one-way (escape_pods.dm l.8). *)
OneWay == [][\A p \in Pods : area[p] = 1 => area'[p] = 1]_vars

(* Authorizations end with the flight they were given for: a shuttle that  *)
(* its console launched needs new ones when it has arrived, unless the     *)
(* console is emagged (shuttle_emergency.dm l.113).                        *)
AuthorizationEnds ==
    [][/\ ~ autopilot /\ ~ emagged
       /\ process_state[Escape] = "wait_finish" /\ process_state'[Escape] = "idle"
       => authorized' = {}]_vars
=============================================================================
