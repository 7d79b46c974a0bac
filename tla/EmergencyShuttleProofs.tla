----------------------- MODULE EmergencyShuttleProofs -----------------------
(***************************************************************************)
(* The emergency shuttle and its pods are ferries, and well typed.  As     *)
(* long as each makes one jump at a time the autopilot leaves on a         *)
(* countdown only from the place it was set at and is not forgotten at the *)
(* station, a shuttle that is recalled stays unless the recall itself goes *)
(* on to launch it, the round ends with the shuttle back, and pods do not  *)
(* return.                                                                 *)
(***************************************************************************)
EXTENDS EmergencyShuttle, Sequences, FiniteSetTheorems, TLAPS

FP == INSTANCE FerryShuttleProofs

-----------------------------------------------------------------------------
(* The calls of the controller, the console and the pods are calls a ferry *)
(* allows.                                                                 *)
LEMMA FerryCalls ==
    ASSUME \/ Call \/ Recall \/ Process \/ LaunchComes \/ RecallComes
           \/ EndAutoRecall \/ Emag
           \/ ConsoleLaunch \/ ConsoleForce \/ ConsoleCancel \/ LoseConsole
           \/ \E h \in Heads : ReadAuthorization(h) \/ RemoveId(h)
           \/ \E p \in Pods : ArmPod(p) \/ PodPanel(p)
    PROVE  [Ferry!Next]_ferryVars
<1>1. CASE \/ Call \/ TimeToLaunch \/ LaunchComes \/ RecallComes \/ EndAutoRecall \/ Emag
           \/ \E h \in Heads : ReadAuthorization(h) \/ RemoveId(h)
           \/ \E p \in Pods : ArmPod(p)
  BY <1>1 DEF Call, TimeToLaunch, LaunchComes, RecallComes, EndAutoRecall, Emag,
              ReadAuthorization, RemoveId, ArmPod
<1>2. CASE RecallShuttle \/ ConsoleCancel
  BY <1>2, EmergencyAssumption DEF RecallShuttle, ConsoleCancel, Ferry!Next
<1>3. CASE ConsoleLaunch \/ ConsoleForce \/ LoseConsole
  BY <1>3, EmergencyAssumption
     DEF ConsoleLaunch, ConsoleForce, LoseConsole, Ferry!Next, Ferry!Uncancelled,
         Ferry!Calm, Ferry!Operate
<1>4. CASE (\E s \in Ferries : LaunchNext(s)) \/ \E p \in Pods : PodPanel(p)
  BY <1>4 DEF LaunchNext, PodPanel, Pods, Ferry!Next, Ferry!Uncancelled, Ferry!Calm,
              Ferry!Operate
<1> QED
  BY <1>1, <1>2, <1>3, <1>4 DEF Process, Recall, AutoRecall

(* So are the steps of a flight. *)
LEMMA FerryFlies ==
    ASSUME \/ \E s \in Ferries :
                \/ Depart(s) \/ Arrive(s) \/ Finish(s)
                \/ \E i \in DOMAIN jumps[s] : Leave(s, i) \/ Land(s, i)
           \/ OtherStep
    PROVE  Ferry!Next
<1>1. ASSUME NEW s \in Ferries, Depart(s) \/ Arrive(s) \/ Finish(s)
      PROVE  Ferry!Next
  BY <1>1 DEF Depart, Arrive, Finish, Ferry!Next, Ferry!Uncancelled, Ferry!Calm,
              Ferry!Operate, Ferry!ProcessFerry
<1>2. ASSUME NEW s \in Ferries, NEW i \in DOMAIN jumps[s], Leave(s, i) \/ Land(s, i)
      PROVE  Ferry!Next
  BY <1>2 DEF Leave, Land, Ferry!Next, Ferry!Uncancelled, Ferry!Calm, Ferry!Operate
<1>3. CASE OtherStep
  BY <1>3 DEF OtherStep, Ferry!Next, Ferry!Uncancelled, Ferry!Calm, Ferry!Operate
<1> QED
  BY <1>1, <1>2, <1>3

(* The emergency shuttle and its pods implement ferries, so that what      *)
(* holds of ferries, the docking protocol above all, holds of them.        *)
LEMMA FerryImplemented == Spec => Ferry!Spec
<1>1. Init => Ferry!Init
  BY DEF Init
<1>2. [Next]_vars => [Ferry!Next]_(Ferry!vars)
  <2>1. [Next]_vars => [Ferry!Next]_ferryVars
    BY FerryCalls, FerryFlies DEF Next, vars
  <2>2. UNCHANGED ferryVars => UNCHANGED Ferry!vars
    BY DEF ferryVars, Ferry!vars, Ferry!ferryVars, Ferry!dockVars
  <2> QED
    BY <2>1, <2>2
<1> QED
  BY <1>1, <1>2, PTL DEF Spec, Ferry!Spec

-----------------------------------------------------------------------------
(* What is proved of ferries holds of the emergency shuttle and its pods.  *)

(* The two instances of FerryShuttle have the same docking programs.       *)
LEMMA SameRequest ==
    ASSUME NEW c, NEW t
    PROVE  Ferry!Docking!InitiateDocking(c, t) <=> FP!Docking!InitiateDocking(c, t)
<1>1. ASSUME NEW S, NEW to, NEW from
      PROVE  Ferry!Docking!DeliverRequest(S, to, from) = FP!Docking!DeliverRequest(S, to, from)
  BY DEF Ferry!Docking!DeliverRequest, FP!Docking!DeliverRequest, Ferry!Docking!Deliver,
         FP!Docking!Deliver, Ferry!Docking!Hears, FP!Docking!Hears, Ferry!Docking!Accepts,
         FP!Docking!Accepts, Ferry!Docking!Accept, FP!Docking!Accept, Ferry!Docking!Is,
         FP!Docking!Is, Ferry!Docking!OnConfirmDock, FP!Docking!OnConfirmDock
<1> QED
  BY <1>1 DEF Ferry!Docking!InitiateDocking, FP!Docking!InitiateDocking

(* The two instances of FerryShuttle have the same docking programs.       *)
LEMMA SameUndock ==
    ASSUME NEW c
    PROVE  /\ Ferry!Docking!InitiateUndocking(c) <=> FP!Docking!InitiateUndocking(c)
           /\ Ferry!Docking!ForceUndock(c) <=> FP!Docking!ForceUndock(c)
           /\ \A p, mode, state : Ferry!Docking!Is(p, mode, state) <=> FP!Docking!Is(p, mode, state)
BY DEF Ferry!Docking!InitiateUndocking, FP!Docking!InitiateUndocking,
       Ferry!Docking!ForceUndock, FP!Docking!ForceUndock, Ferry!Docking!Deliver,
       FP!Docking!Deliver, Ferry!Docking!Hears, FP!Docking!Hears, Ferry!Docking!Is,
       FP!Docking!Is, Ferry!Docking!Reset, FP!Docking!Reset, Ferry!Docking!OnDockError,
       FP!Docking!OnDockError, Ferry!Docking!OnRequestUndock, FP!Docking!OnRequestUndock

(* The two instances of FerryShuttle have the same docking programs.       *)
LEMMA SameProcess ==
    ASSUME NEW c, NEW ready
    PROVE  Ferry!Docking!Process(c, ready) <=> FP!Docking!Process(c, ready)
<1>1. \A S : Ferry!Docking!Repair(S, c) = FP!Docking!Repair(S, c)
  BY Zenon DEF Ferry!Docking!Repair, FP!Docking!Repair, Ferry!Docking!Deliver,
     FP!Docking!Deliver, Ferry!Docking!Hears, FP!Docking!Hears, Ferry!Docking!Is,
     FP!Docking!Is, Ferry!Docking!Reset, FP!Docking!Reset, Ferry!Docking!OnDockError,
     FP!Docking!OnDockError
<1>2. \A S : Ferry!Docking!Step(S, c, ready) = FP!Docking!Step(S, c, ready)
  BY Zenon DEF Ferry!Docking!Step, FP!Docking!Step, Ferry!Docking!Deliver,
     FP!Docking!Deliver, Ferry!Docking!Hears, FP!Docking!Hears, Ferry!Docking!Is,
     FP!Docking!Is, Ferry!Docking!Reset, FP!Docking!Reset, Ferry!Docking!OnConfirmDock,
     FP!Docking!OnConfirmDock, Ferry!Docking!OnConfirmUndock, FP!Docking!OnConfirmUndock,
     Ferry!Docking!Report, FP!Docking!Report, Ferry!Docking!FinishDocking,
     FP!Docking!FinishDocking, Ferry!Docking!FinishUndocking, FP!Docking!FinishUndocking,
     Ferry!Docking!Docked, FP!Docking!Docked, Ferry!Docking!Reported, FP!Docking!Reported
<1>3. \A p : Ferry!Docking!Resend(p) = FP!Docking!Resend(p)
  BY Zenon DEF Ferry!Docking!Resend, FP!Docking!Resend
<1> QED
  BY <1>1, <1>2, <1>3 DEF Ferry!Docking!Process, FP!Docking!Process

(* They start and lose them alike, and call them alike.                    *)
LEMMA SameCalls ==
    ASSUME NEW s
    PROVE  /\ Ferry!Dock(s) <=> FP!Dock(s)
           /\ Ferry!Undock(s) <=> FP!Undock(s)
           /\ Ferry!ForceIfDocked(s) <=> FP!ForceIfDocked(s)
           /\ \A from, to : Ferry!Move(s, from, to) <=> FP!Move(s, from, to)
<1>1. /\ Ferry!SkipChecks(s) <=> FP!SkipChecks(s)
      /\ Ferry!Undocked(s) <=> FP!Undocked(s)
      /\ Ferry!dockVars = FP!dockVars
  BY DEF Ferry!SkipChecks, FP!SkipChecks, Ferry!Undocked, FP!Undocked, Ferry!dockVars,
         FP!dockVars
<1>2. Ferry!Dock(s) <=> FP!Dock(s)
  BY <1>1, SameRequest DEF Ferry!Dock, FP!Dock, Ferry!dockVars, FP!dockVars
<1>3. Ferry!Undock(s) <=> FP!Undock(s)
  BY SameUndock DEF Ferry!Undock, FP!Undock, Ferry!dockVars, FP!dockVars
<1>4. Ferry!ForceIfDocked(s) <=> FP!ForceIfDocked(s)
  BY <1>1, SameUndock DEF Ferry!ForceIfDocked, FP!ForceIfDocked, Ferry!dockVars, FP!dockVars
<1>5. ASSUME NEW from, NEW to
      PROVE  Ferry!Move(s, from, to) <=> FP!Move(s, from, to)
  BY <1>4 DEF Ferry!Move, FP!Move, Ferry!dockVars, FP!dockVars, Ferry!Places, FP!Places
<1> QED
  BY <1>2, <1>3, <1>4, <1>5

(* So the steps of a ferry are the same, *)
LEMMA SameSteps ==
    ASSUME NEW s, Ferry!SetupDock(s) \/ Ferry!Operate(s) \/ Ferry!CancelLaunch(s)
    PROVE  FP!SetupDock(s) \/ FP!Operate(s) \/ FP!CancelLaunch(s)
<1>1. Ferry!dockVars = FP!dockVars /\ (Ferry!Running <=> FP!Running)
  BY DEF Ferry!dockVars, FP!dockVars, Ferry!Running, FP!Running
<1>2. CASE Ferry!SetupDock(s) \/ Ferry!Redock(s) \/ Ferry!Launch(s) \/ Ferry!CancelLaunch(s)
  BY <1>1, <1>2, SameCalls
     DEF Ferry!SetupDock, FP!SetupDock, Ferry!Redock, FP!Redock, Ferry!Launch, FP!Launch,
         Ferry!CanLaunch, FP!CanLaunch, Ferry!CancelLaunch, FP!CancelLaunch,
         Ferry!CanCancel, FP!CanCancel, FP!Operate
<1>3. CASE Ferry!ForceLaunch(s) \/ Ferry!LoseConsole(s) \/ Ferry!TravelEnds(s) \/ Ferry!TimeOut(s)
  BY <1>3
     DEF Ferry!ForceLaunch, FP!ForceLaunch, Ferry!CanForce, FP!CanForce,
         Ferry!LoseConsole, FP!LoseConsole, Ferry!TravelEnds, FP!TravelEnds,
         Ferry!TimeOut, FP!TimeOut, Ferry!dockVars, FP!dockVars, Ferry!Running, FP!Running,
         FP!Operate
<1>4. CASE Ferry!Depart(s)
  BY <1>4
     DEF Ferry!Depart, FP!Depart, Ferry!StartJump, FP!StartJump, Ferry!SkipChecks,
         FP!SkipChecks, Ferry!Undocked, FP!Undocked, Ferry!dockVars, FP!dockVars,
         Ferry!Running, FP!Running, FP!Operate, FP!ProcessFerry
<1>5. CASE Ferry!Arrive(s) \/ Ferry!Finish(s)
  BY <1>5, SameCalls
     DEF Ferry!Arrive, FP!Arrive, Ferry!Finish, FP!Finish, Ferry!SkipChecks,
         FP!SkipChecks, Ferry!Docked, FP!Docked, Ferry!dockVars, FP!dockVars,
         Ferry!Running, FP!Running, FP!Operate, FP!ProcessFerry
<1>6. ASSUME NEW i \in DOMAIN jumps[s], Ferry!CallOff(s, i)
      PROVE  FP!CallOff(s, i)
  BY <1>6
     DEF Ferry!CallOff, FP!CallOff, Ferry!Warm, FP!Warm, Ferry!RemoveAt, FP!RemoveAt,
         Ferry!dockVars, FP!dockVars, Ferry!Running, FP!Running
<1>7. ASSUME NEW i \in DOMAIN jumps[s], Ferry!Leave(s, i) \/ Ferry!Land(s, i)
      PROVE  FP!Leave(s, i) \/ FP!Land(s, i)
  BY <1>7, SameCalls
     DEF Ferry!Leave, FP!Leave, Ferry!Land, FP!Land, Ferry!Warm, FP!Warm,
         Ferry!RemoveAt, FP!RemoveAt, Ferry!Transit, FP!Transit, Ferry!Running, FP!Running
<1> QED
  BY <1>2, <1>3, <1>4, <1>5, <1>6, <1>7 DEF Ferry!Operate, FP!Operate, Ferry!ProcessFerry

(* and so are their specifications. *)
LEMMA SameSpec == Ferry!Spec => FP!Spec
<1>1. Ferry!Init => FP!Init
  BY DEF Ferry!Init, FP!Init, Ferry!Docking!Init, FP!Docking!Init, Ferry!Places, FP!Places,
         Ferry!Docking!NewProgram, FP!Docking!NewProgram
<1>2. ASSUME NEW c, Ferry!ProcessDocking(c) \/ Ferry!DestroyDocking(c)
      PROVE  FP!ProcessDocking(c) \/ FP!DestroyDocking(c)
  BY <1>2, SameProcess
     DEF Ferry!ProcessDocking, FP!ProcessDocking, Ferry!DestroyDocking, FP!DestroyDocking,
         Ferry!Docking!Destroy, FP!Docking!Destroy, Ferry!Running, FP!Running
<1>3. Ferry!Next => FP!Next
  BY <1>2, SameSteps
     DEF Ferry!Next, FP!Next, Ferry!Uncancelled, FP!Uncancelled, Ferry!Calm, FP!Calm
<1>4. UNCHANGED Ferry!vars => UNCHANGED FP!vars
  BY DEF Ferry!vars, FP!vars, Ferry!dockVars, FP!dockVars, Ferry!ferryVars, FP!ferryVars
<1> QED
  BY <1>1, <1>3, <1>4, PTL DEF Ferry!Spec, FP!Spec

(* What the shuttle's controller, console and pods keep of their own. *)
OwnTypes ==
    /\ countdown \in {"off", "running", "due"} /\ set_at \in Ferry!Places
    /\ auto_recall \in {"off", "set", "due"} /\ recalled \in {"no", "yes", "relaunched"}
    /\ {evac, autopilot, departed, emagged, console_lock} \subseteq BOOLEAN
    /\ armed \subseteq Pods /\ launching \subseteq Ferries
    /\ authorized \subseteq Heads /\ IsFiniteSet(authorized)
    /\ Cardinality(authorized) <= ReqAuthorizations

(* An identity that authorizes is one more, and one removed one less.      *)
LEMMA Authorizing ==
    ASSUME OwnTypes, NEW h \in Heads, ReadAuthorization(h) \/ RemoveId(h)
    PROVE  OwnTypes'
<1>1. Cardinality(authorized) \in Nat /\ ReqAuthorizations \in Nat
  BY FS_CardinalityType, EmergencyAssumption DEF OwnTypes
<1>2. /\ IsFiniteSet(authorized \cup {h}) /\ IsFiniteSet(authorized \ {h})
      /\ h \notin authorized => Cardinality(authorized \cup {h}) = Cardinality(authorized) + 1
      /\ h \in authorized => Cardinality(authorized \ {h}) = Cardinality(authorized) - 1
  BY FS_AddElement, FS_RemoveElement DEF OwnTypes
<1>3. CASE ReadAuthorization(h)
  BY <1>1, <1>2, <1>3 DEF ReadAuthorization, flight, OwnTypes
<1>4. CASE RemoveId(h)
  BY <1>1, <1>2, <1>4 DEF RemoveId, flight, OwnTypes
<1> QED
  BY <1>3, <1>4

(* So keeps every other step. *)
LEMMA StepOwnTypes ==
    ASSUME OwnTypes, location \in [Ferries -> Ferry!Places], [Next]_vars
    PROVE  OwnTypes'
<1>1. location[Escape] \in Ferry!Places /\ 1 \in Ferry!Places /\ Pods \subseteq Ferries
  BY EmergencyAssumption DEF Ferry!Places, Pods
<1>2. IsFiniteSet({}) /\ Cardinality({}) <= ReqAuthorizations
  BY FS_EmptySet, EmergencyAssumption
<1> USE DEF OwnTypes, flight, console
<1>3. CASE \/ Call \/ Recall \/ AutoRecall \/ TimeToLaunch
           \/ LaunchComes \/ RecallComes \/ EndAutoRecall
  BY <1>1, <1>3, EmergencyAssumption
     DEF Call, Recall, AutoRecall, RecallShuttle, TimeToLaunch, LaunchComes, RecallComes,
         EndAutoRecall, SetLaunchCountdown, StopLaunchCountdown
<1>4. CASE Emag \/ ConsoleLaunch \/ ConsoleForce \/ ConsoleCancel \/ LoseConsole
  BY <1>2, <1>4 DEF Emag, ConsoleLaunch, ConsoleForce, ConsoleCancel, LoseConsole
<1>5. ASSUME NEW p \in Pods, ArmPod(p) \/ PodPanel(p)
      PROVE  OwnTypes'
  BY <1>5 DEF ArmPod, PodPanel
<1>6. ASSUME NEW s \in Ferries, Depart(s) \/ Arrive(s) \/ Finish(s) \/ LaunchNext(s)
      PROVE  OwnTypes'
  BY <1>1, <1>2, <1>6
     DEF Depart, Arrive, Finish, LaunchNext, ShuttleArrived, SetLaunchCountdown
<1>7. ASSUME NEW s \in Ferries, NEW i \in DOMAIN jumps[s], Leave(s, i) \/ Land(s, i)
      PROVE  OwnTypes'
  BY <1>7 DEF Leave, Land
<1>8. CASE OtherStep \/ UNCHANGED vars
  BY <1>8 DEF OtherStep, vars
<1> QED
  BY <1>3, <1>4, <1>5, <1>6, <1>7, <1>8, Authorizing DEF Next, Process

(* All hold values of their kinds, the ferries because they are ferries.   *)
THEOREM EmergencyTypes == Spec => []TypeOK
<1>1. Spec => []FP!TypeOK
  <2>1. FP!Spec => []FP!TypeOK
    BY FP!FerryTypes, DockingAssumption, FerryAssumption DEF FP!FerryTypes, FP!Places
  <2> QED
    BY <2>1, FerryImplemented, SameSpec, PTL
<1>2. FP!TypeOK => Ferry!TypeOK
  BY DEF FP!TypeOK, Ferry!TypeOK, FP!Docking!TypeOK, Ferry!Docking!TypeOK,
         FP!Docking!Program, Ferry!Docking!Program, FP!Docking!DockStates,
         Ferry!Docking!DockStates, FP!Docking!Modes, Ferry!Docking!Modes, FP!Places,
         Ferry!Places, FP!Transit, Ferry!Transit, FP!Jump, Ferry!Jump
<1>3. Ferry!TypeOK => location \in [Ferries -> Ferry!Places]
  BY DEF Ferry!TypeOK
<1>4. Init => OwnTypes
  <2>1. IsFiniteSet({}) /\ Cardinality({}) = 0 /\ 0 <= ReqAuthorizations
    BY FS_EmptySet, EmergencyAssumption
  <2> QED
    BY <2>1 DEF Init, OwnTypes, Ferry!Places
<1>5. OwnTypes /\ location \in [Ferries -> Ferry!Places] /\ [Next]_vars => OwnTypes'
  BY StepOwnTypes
<1>6. Ferry!TypeOK /\ OwnTypes => TypeOK
  BY DEF OwnTypes, TypeOK
<1> QED
  BY <1>1, <1>2, <1>3, <1>4, <1>5, <1>6, PTL DEF Spec

-----------------------------------------------------------------------------
(* The countdown is set where the shuttle is, and the shuttle does not     *)
(* move while it runs: it is idle then, a jump makes it due, and nothing   *)
(* lands before process() has seen that.  All this is so as long as every  *)
(* ferry makes one jump at a time.                                         *)

Statuses == {"idle", "warmup", "intransit"}
Waiting == {"wait_launch", "force_launch", "wait_finish"}

Alone(j) == <<j>>
Single == {<< >>} \cup {Alone(j) : j \in Ferry!Jump}
Left(q) == \E i \in DOMAIN q : q[i].left

OneAtATime == \A s \in Ferries : Len(jumps[s]) <= 1

(* A jump that has left is the one its ferry is in transit with, and a     *)
(* ferry that waits to leave or to dock is idle.                           *)
FlightInv ==
    /\ location \in [Ferries -> Ferry!Places]
    /\ moving_status \in [Ferries -> Statuses]
    /\ process_state \in [Ferries -> Waiting \cup {"idle", "wait_arrive"}]
    /\ jumps \in [Ferries -> Single]
    /\ \A s \in Ferries : Left(jumps[s]) => moving_status[s] = "intransit"
    /\ \A s \in Ferries : process_state[s] \in Waiting => moving_status[s] = "idle"

(* A single jump under way, and what becomes of it when it is over. *)
LEMMA SingleJump ==
    ASSUME NEW q \in Single, NEW i \in DOMAIN q
    PROVE  /\ i = 1 /\ \E j \in Ferry!Jump : q = <<j>>
           /\ Ferry!RemoveAt(q, i) = << >>
<1>1. PICK j \in Ferry!Jump : q = <<j>>
  BY DEF Single, Alone
<1>2. i = 1 /\ Len(q) = 1
  BY <1>1
<1>3. SubSeq(q, 1, 0) = << >> /\ SubSeq(q, 2, 1) = << >>
  BY <1>1
<1>4. Ferry!RemoveAt(q, i) = SubSeq(q, 1, 0) \o SubSeq(q, 2, 1)
  BY <1>2 DEF Ferry!RemoveAt
<1> QED
  BY <1>1, <1>2, <1>3, <1>4

(* A jump that is begun and not the second is the only one. *)
LEMMA FirstJump ==
    ASSUME NEW q \in Single, NEW j \in Ferry!Jump, Len(Append(q, j)) <= 1
    PROVE  q = << >> /\ Append(q, j) = <<j>> /\ <<j>> \in Single /\ (Left(<<j>>) => j.left)
<1>1. q = << >>
  BY DEF Single, Alone
<1>2. Append(q, j) = <<j>>
  BY <1>1
<1>3. <<j>> \in Single
  BY DEF Single, Alone
<1> QED
  BY <1>1, <1>2, <1>3 DEF Left

(* A jump that is cancelled stays single, and leaves no sooner. *)
LEMMA CancelledJump ==
    ASSUME NEW q \in Single
    PROVE  LET r == [i \in DOMAIN q |-> [q[i] EXCEPT !.cancelled = TRUE]]
           IN  r \in Single /\ (Left(r) => Left(q))
<1> DEFINE r == [i \in DOMAIN q |-> [q[i] EXCEPT !.cancelled = TRUE]]
<1>1. CASE q = << >>
  <2>1. r = << >>
    BY <1>1
  <2> QED
    BY <2>1 DEF Single, Left
<1>2. ASSUME NEW j \in Ferry!Jump, q = <<j>>
      PROVE  r \in Single /\ (Left(r) => Left(q))
  <2> DEFINE c == [j EXCEPT !.cancelled = TRUE]
  <2>1. c \in Ferry!Jump /\ c.left = j.left
    BY DEF Ferry!Jump
  <2>2. DOMAIN q = {1} /\ q[1] = j
    BY <1>2
  <2>3. r = [i \in {1} |-> c]
    BY <2>2, Zenon
  <2> HIDE DEF r, c
  <2>4. r = <<c>>
    BY <2>3
  <2>5. <<c>> \in Single
    BY <2>1 DEF Single, Alone
  <2>6. Left(r) => j.left
    BY <2>1, <2>4 DEF Left
  <2> QED
    BY <2>2, <2>4, <2>5, <2>6 DEF Left
<1> QED
  BY <1>1, <1>2 DEF Single, Alone

(* So does one that leaves. *)
LEMMA LeavingJump ==
    ASSUME NEW q \in Single, NEW i \in DOMAIN q
    PROVE  [q EXCEPT ![i].left = TRUE] \in Single
<1>1. PICK j \in Ferry!Jump : q = <<j>> /\ i = 1
  BY SingleJump
<1> DEFINE c == [j EXCEPT !.left = TRUE]
           r == [q EXCEPT ![i].left = TRUE]
<1>2. c \in Ferry!Jump
  BY DEF Ferry!Jump
<1>3. q = [k \in {1} |-> j]
  BY <1>1
<1>4. r = [k \in {1} |-> c]
  BY <1>1, <1>3, Zenon
<1> HIDE DEF c, r
<1>5. r = <<c>>
  BY <1>4
<1> QED
  BY <1>2, <1>5 DEF Single, Alone, r

(* The steps that start and end no jump. *)
LEMMA PlainFlight ==
    ASSUME FlightInv, NEW s \in Ferries,
           \/ Ferry!Launch(s) \/ Ferry!ForceLaunch(s) \/ Ferry!LoseConsole(s)
           \/ Ferry!Arrive(s) \/ Ferry!Finish(s) \/ Ferry!SetupDock(s)
           \/ Ferry!Redock(s) \/ Ferry!TravelEnds(s) \/ Ferry!TimeOut(s)
    PROVE  FlightInv' /\ UNCHANGED <<location, moving_status>>
<1>1. CASE \/ Ferry!LoseConsole(s) \/ Ferry!SetupDock(s) \/ Ferry!Redock(s)
           \/ Ferry!TravelEnds(s) \/ Ferry!TimeOut(s)
  BY <1>1 DEF Ferry!LoseConsole, Ferry!SetupDock, Ferry!Redock, Ferry!TravelEnds,
              Ferry!TimeOut, FlightInv
<1>2. CASE Ferry!Launch(s) \/ Ferry!ForceLaunch(s)
  BY <1>2 DEF Ferry!Launch, Ferry!ForceLaunch, Ferry!CanLaunch, Ferry!CanForce,
              FlightInv, Waiting
<1>3. CASE Ferry!Arrive(s) \/ Ferry!Finish(s)
  BY <1>3 DEF Ferry!Arrive, Ferry!Finish, FlightInv, Waiting
<1> QED
  BY <1>1, <1>2, <1>3

(* A jump starts where none is under way. *)
LEMMA DepartFlight ==
    ASSUME FlightInv, OneAtATime', NEW s \in Ferries, Ferry!Depart(s)
    PROVE  /\ FlightInv' /\ UNCHANGED location
           /\ \A t \in Ferries \ {s} : moving_status'[t] = moving_status[t]
<1>1. PICK forced \in BOOLEAN : Ferry!StartJump(s, forced)
  BY DEF Ferry!Depart
<1>2. process_state[s] \in Waiting /\ moving_status[s] = "idle"
  BY DEF Ferry!Depart, FlightInv, Waiting
<1> DEFINE j == [from |-> location[s], to |-> 1 - location[s], left |-> FALSE,
                 forced |-> forced, cancelled |-> FALSE]
<1>3. /\ moving_status' = [moving_status EXCEPT ![s] = "warmup"]
      /\ jumps' = [jumps EXCEPT ![s] = Append(@, j)]
  BY <1>1, <1>2 DEF Ferry!StartJump
<1>4. j \in Ferry!Jump /\ ~ j.left
  <2>1. location[s] \in Ferry!Places /\ 1 - location[s] \in Ferry!Places
    BY DEF FlightInv, Ferry!Places
  <2> QED
    BY <2>1 DEF Ferry!Jump
<1> HIDE DEF j
<1>5. Append(jumps[s], j) \in Single /\ ~ Left(Append(jumps[s], j))
  BY <1>3, <1>4, FirstJump DEF FlightInv, OneAtATime
<1>6. /\ process_state' = [process_state EXCEPT ![s] = "wait_arrive"]
      /\ location' = location
  BY DEF Ferry!Depart
<1> QED
  BY <1>3, <1>5, <1>6 DEF FlightInv, Statuses, Waiting

(* Only a launch that has not left is cancelled. *)
LEMMA CancelFlight ==
    ASSUME FlightInv, NEW s \in Ferries, Ferry!CancelLaunch(s)
    PROVE  /\ FlightInv' /\ UNCHANGED location
           /\ moving_status' = [moving_status EXCEPT ![s] = "idle"]
<1> DEFINE q == jumps[s]
           r == [i \in DOMAIN q |-> [q[i] EXCEPT !.cancelled = TRUE]]
<1>1. /\ moving_status' = [moving_status EXCEPT ![s] = "idle"]
      /\ process_state' = [process_state EXCEPT ![s] = "wait_finish"]
      /\ location' = location
  BY DEF Ferry!CancelLaunch
<1>2. jumps' = [jumps EXCEPT ![s] = r]
  BY Zenon DEF Ferry!CancelLaunch
<1>3. r \in Single /\ (Left(r) => Left(q))
  BY CancelledJump DEF FlightInv
<1>4. ~ Left(q)
  BY DEF Ferry!CancelLaunch, Ferry!CanCancel, FlightInv, Waiting
<1> HIDE DEF q, r
<1> QED
  BY <1>1, <1>2, <1>3, <1>4 DEF FlightInv, Statuses, Waiting

(* A jump ends or is called off. *)
LEMMA EndFlight ==
    ASSUME FlightInv, NEW s \in Ferries, NEW i \in DOMAIN jumps[s],
           Ferry!CallOff(s, i) \/ Ferry!Land(s, i) \/ (Ferry!Leave(s, i) /\ s \notin LongJump)
    PROVE  /\ FlightInv' /\ \A t \in Ferries \ {s} : location'[t] = location[t]
           /\ moving_status' = [moving_status EXCEPT ![s] = "idle"]
<1>1. Ferry!RemoveAt(jumps[s], i) = << >> /\ jumps[s][i].to \in Ferry!Places
  <2>1. jumps[s] \in Single
    BY DEF FlightInv
  <2>2. PICK j \in Ferry!Jump : jumps[s] = <<j>> /\ i = 1
    BY <2>1, SingleJump
  <2> QED
    BY <2>1, <2>2, SingleJump DEF Ferry!Jump
<1>2. jumps' = [jumps EXCEPT ![s] = << >>] /\ process_state' = process_state
  BY <1>1 DEF Ferry!CallOff, Ferry!Land, Ferry!Leave
<1>3. moving_status' = [moving_status EXCEPT ![s] = "idle"]
  BY DEF Ferry!CallOff, Ferry!Land, Ferry!Leave, FlightInv
<1>4. location' = location \/ location' = [location EXCEPT ![s] = jumps[s][i].to]
  BY <1>1 DEF Ferry!CallOff, Ferry!Land, Ferry!Leave, Ferry!Move
<1>5. << >> \in Single /\ ~ Left(<< >>)
  BY DEF Single, Left
<1> QED
  BY <1>1, <1>2, <1>3, <1>4, <1>5 DEF FlightInv, Statuses, Waiting

(* A long jump leaves, and its ferry keeps its location. *)
LEMMA LeaveFlight ==
    ASSUME FlightInv, NEW s \in LongJump \cap Ferries, NEW i \in DOMAIN jumps[s],
           Ferry!Leave(s, i)
    PROVE  /\ FlightInv' /\ UNCHANGED location
           /\ \A t \in Ferries \ {s} : moving_status'[t] = moving_status[t]
           /\ moving_status[s] # "idle"
<1> DEFINE r == [jumps[s] EXCEPT ![i].left = TRUE]
<1>1. r \in Single
  BY LeavingJump DEF FlightInv
<1>2. jumps' = [jumps EXCEPT ![s] = r]
  BY Zenon DEF Ferry!Leave
<1> HIDE DEF r
<1>3. /\ moving_status' = [moving_status EXCEPT ![s] = "intransit"]
      /\ process_state' = process_state /\ location' = location
  <2>1. /\ moving_status' = [moving_status EXCEPT ![s] = "intransit"]
        /\ process_state' = process_state
        /\ Ferry!Move(s, jumps[s][i].from, Ferry!Transit)
    BY Zenon DEF Ferry!Leave
  <2>2. location' = [location EXCEPT ![s] = location[s]]
    BY <2>1 DEF Ferry!Move, Ferry!Transit, Ferry!Places
  <2> QED
    BY <2>1, <2>2 DEF FlightInv
<1>4. moving_status[s] # "idle"
  BY Zenon DEF Ferry!Leave
<1>5. process_state[s] \notin Waiting
  BY <1>4 DEF FlightInv
<1> QED
  BY <1>1, <1>2, <1>3, <1>4, <1>5 DEF FlightInv, Statuses, Waiting

(* The countdown, told from where the shuttle is. *)
CountdownInv ==
    /\ countdown \in {"off", "running", "due"}
    /\ countdown = "running" => Idle
    /\ countdown # "off" => set_at = location[Escape]

(* Leaving alone the countdown and the shuttle's place keeps the invariant,*)
(* and so does making the shuttle idle.                                    *)
LEMMA CountdownKept ==
    ASSUME CountdownInv, UNCHANGED <<countdown, set_at>>,
           location'[Escape] = location[Escape],
           moving_status'[Escape] \in {moving_status[Escape], "idle"}
    PROVE  CountdownInv'
BY DEF CountdownInv, Idle

(* The calls of controller, console and pods keep the invariant. *)
LEMMA CallsKeep ==
    ASSUME FlightInv, CountdownInv,
           \/ Call \/ Recall \/ Process \/ LaunchComes \/ RecallComes
           \/ EndAutoRecall \/ Emag
           \/ ConsoleLaunch \/ ConsoleForce \/ ConsoleCancel \/ LoseConsole
           \/ \E h \in Heads : ReadAuthorization(h) \/ RemoveId(h)
           \/ \E p \in Pods : ArmPod(p) \/ PodPanel(p)
    PROVE  FlightInv' /\ CountdownInv'
<1>0. ASSUME UNCHANGED ferryVars
      PROVE  FlightInv' /\ UNCHANGED <<location, moving_status>>
  BY <1>0 DEF ferryVars, FlightInv
<1>1. CASE Call
  BY <1>0, <1>1 DEF Call, CanCall, SetLaunchCountdown, CountdownInv, Idle
<1>2. CASE RecallShuttle
  <2>1. FlightInv'
    BY <1>0, <1>2, CancelFlight, EmergencyAssumption DEF RecallShuttle
  <2>2. countdown' = "off"
    BY <1>2 DEF RecallShuttle, StopLaunchCountdown
  <2> QED
    BY <2>1, <2>2 DEF CountdownInv
<1>3. CASE TimeToLaunch
  BY <1>0, <1>3 DEF TimeToLaunch, StopLaunchCountdown, CountdownInv
<1>4. ASSUME NEW s \in Ferries, LaunchNext(s)
      PROVE  FlightInv' /\ CountdownInv'
  <2>1. FlightInv' /\ UNCHANGED <<location, moving_status>>
    BY <1>0, <1>4, PlainFlight DEF LaunchNext
  <2>2. UNCHANGED <<countdown, set_at>>
    BY <1>4 DEF LaunchNext
  <2> QED
    BY <2>1, <2>2, CountdownKept
<1>5. CASE LaunchComes
  BY <1>0, <1>5 DEF LaunchComes, CountdownInv
<1>6. CASE \/ RecallComes \/ EndAutoRecall \/ Emag
           \/ \E h \in Heads : ReadAuthorization(h) \/ RemoveId(h)
           \/ \E p \in Pods : ArmPod(p)
  BY <1>0, <1>6, CountdownKept
     DEF RecallComes, EndAutoRecall, Emag, ReadAuthorization, RemoveId, ArmPod
<1>7. CASE ConsoleLaunch \/ ConsoleForce \/ LoseConsole
  <2>1. FlightInv' /\ UNCHANGED <<location, moving_status>>
    BY <1>7, PlainFlight, EmergencyAssumption DEF ConsoleLaunch, ConsoleForce, LoseConsole
  <2>2. UNCHANGED <<countdown, set_at>>
    BY <1>7 DEF ConsoleLaunch, ConsoleForce, LoseConsole
  <2> QED
    BY <2>1, <2>2, CountdownKept
<1>8. ASSUME NEW p \in Pods, PodPanel(p)
      PROVE  FlightInv' /\ CountdownInv'
  <2>1. FlightInv' /\ UNCHANGED <<location, moving_status>>
    BY <1>8, PlainFlight DEF PodPanel, Pods
  <2>2. UNCHANGED <<countdown, set_at>>
    BY <1>8 DEF PodPanel
  <2> QED
    BY <2>1, <2>2, CountdownKept
<1>9. CASE ConsoleCancel
  <2>1. /\ FlightInv' /\ UNCHANGED location
        /\ moving_status' = [moving_status EXCEPT ![Escape] = "idle"]
    BY <1>9, CancelFlight, EmergencyAssumption DEF ConsoleCancel
  <2>2. moving_status'[Escape] = "idle"
    BY <2>1, EmergencyAssumption DEF FlightInv
  <2>3. UNCHANGED <<countdown, set_at>>
    BY <1>9 DEF ConsoleCancel
  <2> QED
    BY <2>1, <2>2, <2>3, CountdownKept
<1> QED
  BY <1>1, <1>2, <1>3, <1>4, <1>5, <1>6, <1>7, <1>8, <1>9
     DEF Process, Recall, AutoRecall

(* So do the flights: what moves the shuttle finds the countdown off, and  *)
(* the flights of pods do not touch it.                                    *)
LEMMA FlightsKeep ==
    ASSUME FlightInv, CountdownInv, OneAtATime',
           \/ \E s \in Ferries :
                \/ Depart(s) \/ Arrive(s) \/ Finish(s)
                \/ \E i \in DOMAIN jumps[s] : Leave(s, i) \/ Land(s, i)
           \/ OtherStep
    PROVE  FlightInv' /\ CountdownInv'
<1>0. Escape \in Ferries /\ Escape \in LongJump
  BY EmergencyAssumption
<1>1. ASSUME NEW s \in Ferries, Depart(s)
      PROVE  FlightInv' /\ CountdownInv'
  <2>1. /\ FlightInv' /\ UNCHANGED location
        /\ \A t \in Ferries \ {s} : moving_status'[t] = moving_status[t]
    BY <1>1, DepartFlight DEF Depart
  <2>2. /\ countdown' = IF s = Escape /\ countdown = "running" THEN "due" ELSE countdown
        /\ set_at' = set_at
    BY <1>1 DEF Depart
  <2>3. CASE s = Escape
    BY <2>1, <2>2, <2>3 DEF CountdownInv
  <2>4. CASE s # Escape
    BY <1>0, <2>1, <2>2, <2>4, CountdownKept
  <2> QED
    BY <2>3, <2>4
<1>2. ASSUME NEW s \in Ferries, Arrive(s)
      PROVE  FlightInv' /\ CountdownInv'
  <2>1. FlightInv' /\ UNCHANGED <<location, moving_status>>
    BY <1>2, PlainFlight DEF Arrive
  <2>2. UNCHANGED <<countdown, set_at>>
    BY <1>2 DEF Arrive
  <2> QED
    BY <2>1, <2>2, CountdownKept
<1>3. ASSUME NEW s \in Ferries, Finish(s)
      PROVE  FlightInv' /\ CountdownInv'
  <2>1. FlightInv' /\ UNCHANGED <<location, moving_status>>
    BY <1>3, PlainFlight DEF Finish
  <2>2. CASE UNCHANGED <<countdown, set_at>>
    BY <2>1, <2>2, CountdownKept
  <2>3. CASE s = Escape /\ SetLaunchCountdown(FALSE)
    <3>1. Idle
      BY <1>0, <1>3, <2>3 DEF Finish, Ferry!Finish, FlightInv, Waiting, Idle
    <3> QED
      BY <2>1, <2>3, <3>1 DEF SetLaunchCountdown, CountdownInv, Idle
  <2> QED
    BY <1>3, <2>2, <2>3 DEF Finish, ShuttleArrived
<1>4. ASSUME NEW s \in Ferries, NEW i \in DOMAIN jumps[s], Leave(s, i) \/ Land(s, i)
      PROVE  FlightInv' /\ CountdownInv'
  <2>1. UNCHANGED <<countdown, set_at>> /\ countdown # "due"
    BY <1>4 DEF Leave, Land, Prompt
  <2>2. CASE s \in LongJump /\ Leave(s, i)
    <3>1. /\ FlightInv' /\ UNCHANGED location
          /\ \A t \in Ferries \ {s} : moving_status'[t] = moving_status[t]
          /\ moving_status[s] # "idle"
      BY <2>2, LeaveFlight DEF Leave
    <3>2. CASE s = Escape
      <4>1. countdown = "off"
        BY <2>1, <3>1, <3>2 DEF CountdownInv, Idle
      <4> QED
        BY <2>1, <3>1, <4>1 DEF CountdownInv
    <3>3. CASE s # Escape
      BY <1>0, <2>1, <3>1, <3>3, CountdownKept
    <3> QED
      BY <3>2, <3>3
  <2>3. CASE Land(s, i) \/ s \notin LongJump
    <3>1. /\ FlightInv' /\ \A t \in Ferries \ {s} : location'[t] = location[t]
          /\ moving_status' = [moving_status EXCEPT ![s] = "idle"]
      BY <1>4, <2>3, EndFlight DEF Leave, Land
    <3>2. CASE s = Escape
      <4>1. jumps[s][i].left
        BY <1>0, <1>4, <2>3, <3>2 DEF Land, Ferry!Land
      <4>2. moving_status[Escape] # "idle"
        BY <3>2, <4>1 DEF FlightInv, Left
      <4>3. countdown = "off"
        BY <2>1, <4>2 DEF CountdownInv, Idle
      <4> QED
        BY <2>1, <3>1, <4>3 DEF CountdownInv
    <3>3. CASE s # Escape
      <4>1. moving_status'[Escape] = moving_status[Escape]
        BY <1>0, <3>1, <3>3 DEF FlightInv
      <4> QED
        BY <1>0, <2>1, <3>1, <3>3, <4>1, CountdownKept
    <3> QED
      BY <3>2, <3>3
  <2> QED
    BY <1>4, <2>2, <2>3
<1>5. CASE OtherStep
  <2>1. UNCHANGED <<countdown, set_at>>
    BY <1>5 DEF OtherStep
  <2>2. ASSUME NEW s \in Ferries,
               \/ Ferry!SetupDock(s) \/ Ferry!Redock(s)
               \/ Ferry!TravelEnds(s) \/ Ferry!TimeOut(s)
        PROVE  FlightInv' /\ CountdownInv'
    BY <2>1, <2>2, PlainFlight, CountdownKept
  <2>3. ASSUME NEW s \in Ferries, NEW i \in DOMAIN jumps[s], Ferry!CallOff(s, i)
        PROVE  FlightInv' /\ CountdownInv'
    <3>1. FlightInv' /\ moving_status' = [moving_status EXCEPT ![s] = "idle"]
      BY <2>3, EndFlight
    <3>2. location' = location
      BY <2>3 DEF Ferry!CallOff
    <3>3. moving_status'[Escape] \in {moving_status[Escape], "idle"}
      BY <1>0, <3>1 DEF FlightInv
    <3> QED
      BY <2>1, <3>1, <3>2, <3>3, CountdownKept
  <2>4. ASSUME NEW c \in Controllers, Ferry!ProcessDocking(c)
        PROVE  FlightInv' /\ CountdownInv'
    <3>1. UNCHANGED <<location, moving_status, process_state, jumps>>
      BY <2>4 DEF Ferry!ProcessDocking
    <3>2. FlightInv'
      BY <3>1 DEF FlightInv
    <3> QED
      BY <2>1, <3>1, <3>2, CountdownKept
  <2> QED
    BY <1>5, <2>2, <2>3, <2>4 DEF OtherStep
<1> QED
  BY <1>1, <1>2, <1>3, <1>4, <1>5

(* No flight is under way as the round starts. *)
LEMMA InitFlight == Init => FlightInv
<1> SUFFICES ASSUME Init PROVE FlightInv
  OBVIOUS
<1>1. << >> \in Single /\ ~ Left(<< >>)
  BY DEF Single, Left
<1>2. location \in [Ferries -> Ferry!Places]
  BY DEF Init, Ferry!Init
<1> QED
  BY <1>1, <1>2 DEF Init, Ferry!Init, FlightInv, Statuses, Waiting

(* The autopilot leaves on a countdown only from the place it was set at,  *)
(* however launches are called, recalled, forced and cancelled, as long as *)
(* no launch follows another before the first one's warmup is over.        *)
THEOREM LeavesOnTimeHolds == Spec /\ []OneAtATime => LeavesOnTime
<1> DEFINE Inv == FlightInv /\ CountdownInv
<1>1. Init => Inv
  BY InitFlight DEF Init, CountdownInv
<1>2. Inv /\ OneAtATime' /\ [Next]_vars => Inv'
  <2>1. Inv /\ OneAtATime' /\ Next => Inv'
    BY CallsKeep, FlightsKeep DEF Next
  <2>2. Inv /\ UNCHANGED vars => Inv'
    BY DEF vars, ferryVars, FlightInv, CountdownInv, Idle
  <2> QED
    BY <2>1, <2>2
<1>3. Inv /\ [Next]_vars =>
        [launching = {} /\ Escape \in launching' => location[Escape] = set_at]_vars
  <2> SUFFICES ASSUME Inv, Next, launching = {}, Escape \in launching'
               PROVE  location[Escape] = set_at
    OBVIOUS
  <2>1. TimeToLaunch \/ AutoRecall
    BY Zenon DEF Next, Call, Recall, Process, LaunchComes, RecallComes, EndAutoRecall,
       ReadAuthorization, RemoveId, Emag, ConsoleLaunch, ConsoleForce, ConsoleCancel,
       LoseConsole, ArmPod, PodPanel, Depart, Arrive, Finish, Leave, Land, OtherStep,
       LaunchNext
  <2> QED
    BY <2>1 DEF TimeToLaunch, AutoRecall, RecallShuttle, CanRecall, CountdownInv
<1> QED
  BY <1>1, <1>2, <1>3, PTL DEF Spec, LeavesOnTime

-----------------------------------------------------------------------------
(* Where the shuttle and its pods are.  A ferry is in transit exactly      *)
(* while its jump has left, and a jump that has not starts where the ferry *)
(* stands.                                                                 *)

Stands(s) ==
    /\ Left(jumps[s]) => area[s] = Ferry!Transit
    /\ ~ Left(jumps[s]) => area[s] = location[s]
    /\ \A i \in DOMAIN jumps[s] : ~ jumps[s][i].left => jumps[s][i].from = location[s]

StandInv ==
    /\ area \in [Ferries -> Ferry!Places \cup {Ferry!Transit}]
    /\ \A s \in Ferries : Stands(s)

(* A ferry none of these variables changes for stands where it did. *)
LEMMA StillStands ==
    ASSUME NEW s, Stands(s), area'[s] = area[s], location'[s] = location[s],
           jumps'[s] = jumps[s]
    PROVE  Stands(s)'
BY DEF Stands, Left

(* A ferry that jumps has one jump, which has left or starts where it is.  *)
LEMMA TheJump ==
    ASSUME FlightInv, StandInv, NEW s \in Ferries, NEW i \in DOMAIN jumps[s]
    PROVE  /\ jumps[s] = <<jumps[s][i]>> /\ i = 1
           /\ jumps[s][i] \in Ferry!Jump /\ Ferry!RemoveAt(jumps[s], i) = << >>
           /\ jumps[s][i].left => area[s] = Ferry!Transit
           /\ ~ jumps[s][i].left => /\ area[s] = location[s]
                                    /\ jumps[s][i].from = location[s]
<1>1. jumps[s] \in Single
  BY DEF FlightInv
<1>2. PICK j \in Ferry!Jump : jumps[s] = <<j>> /\ i = 1
  BY <1>1, SingleJump
<1>3. jumps[s][i] = j /\ (Left(jumps[s]) <=> j.left)
  BY <1>2 DEF Left
<1> QED
  BY <1>1, <1>2, <1>3, SingleJump DEF StandInv, Stands

(* A ferry that is launched stands where its jump starts. *)
LEMMA DepartStands ==
    ASSUME FlightInv, StandInv, OneAtATime', NEW s \in Ferries, Ferry!Depart(s)
    PROVE  StandInv'
<1>1. PICK forced \in BOOLEAN : Ferry!StartJump(s, forced)
  BY DEF Ferry!Depart
<1>2. moving_status[s] = "idle"
  BY DEF Ferry!Depart, FlightInv, Waiting
<1>3. PICK j :
        /\ j = [from |-> location[s], to |-> 1 - location[s], left |-> FALSE,
                forced |-> forced, cancelled |-> FALSE]
        /\ jumps' = [jumps EXCEPT ![s] = Append(@, j)]
  BY <1>1, <1>2 DEF Ferry!StartJump
<1>4. j.from = location[s] /\ j.left = FALSE /\ j \in Ferry!Jump
  <2>1. location[s] \in Ferry!Places /\ 1 - location[s] \in Ferry!Places
    BY DEF FlightInv, Ferry!Places
  <2> QED
    BY <1>3, <2>1 DEF Ferry!Jump
<1>5. jumps[s] = << >> /\ jumps'[s] = <<j>>
  BY <1>3, <1>4, FirstJump DEF FlightInv, OneAtATime
<1>6. UNCHANGED <<area, location>>
  BY DEF Ferry!Depart
<1>7. ~ Left(jumps[s]) /\ ~ Left(<<j>>)
  BY <1>4, <1>5 DEF Left
<1>8. Stands(s)'
  <2>1. Left(jumps'[s]) <=> FALSE
    BY <1>5, <1>7
  <2>2. \A i \in DOMAIN jumps'[s] : jumps'[s][i] = j
    BY <1>5
  <2> QED
    BY <1>4, <1>6, <1>7, <2>1, <2>2 DEF StandInv, Stands
<1>9. ASSUME NEW t \in Ferries \ {s}
      PROVE  Stands(t)'
  BY <1>3, <1>6, StillStands DEF StandInv, FlightInv
<1> QED
  BY <1>6, <1>8, <1>9 DEF StandInv

(* A cancelled launch leaves the ferry where it is. *)
LEMMA CancelStands ==
    ASSUME FlightInv, StandInv, NEW s \in Ferries, Ferry!CancelLaunch(s)
    PROVE  StandInv'
<1> DEFINE q == jumps[s]
           r == [i \in DOMAIN q |-> [q[i] EXCEPT !.cancelled = TRUE]]
<1>1. UNCHANGED <<area, location>> /\ jumps' = [jumps EXCEPT ![s] = r]
  BY Zenon DEF Ferry!CancelLaunch
<1>2. ASSUME NEW i \in DOMAIN q
      PROVE  r[i].left = q[i].left /\ r[i].from = q[i].from
  <2>1. q[i] \in Ferry!Jump
    BY TheJump
  <2>2. r[i] = [q[i] EXCEPT !.cancelled = TRUE]
    OBVIOUS
  <2> QED
    BY <2>1, <2>2 DEF Ferry!Jump
<1>3. DOMAIN r = DOMAIN q
  OBVIOUS
<1> HIDE DEF r
<1>4. jumps'[s] = r
  BY <1>1 DEF FlightInv
<1>5. Stands(s)'
  <2>1. Left(jumps'[s]) <=> Left(q)
    BY <1>2, <1>3, <1>4 DEF Left
  <2>2. \A i \in DOMAIN jumps'[s] :
           /\ i \in DOMAIN q
           /\ jumps'[s][i].left = q[i].left /\ jumps'[s][i].from = q[i].from
    BY <1>2, <1>3, <1>4
  <2> QED
    BY <1>1, <2>1, <2>2 DEF StandInv, Stands
<1>6. ASSUME NEW t \in Ferries \ {s}
      PROVE  Stands(t)'
  BY <1>1, StillStands DEF StandInv, FlightInv
<1> QED
  BY <1>1, <1>5, <1>6 DEF StandInv

(* A jump is called off, leaves or ends. *)
LEMMA JumpStands ==
    ASSUME FlightInv, StandInv, NEW s \in Ferries, NEW i \in DOMAIN jumps[s],
           Ferry!CallOff(s, i) \/ Ferry!Leave(s, i) \/ Ferry!Land(s, i)
    PROVE  /\ StandInv'
           /\ \A t \in Ferries \ {s} : /\ area'[t] = area[t] /\ location'[t] = location[t]
                                       /\ jumps'[t] = jumps[t]
<1> DEFINE j == jumps[s][i]
           Off == ~ (Ferry!Leave(s, i) /\ s \in LongJump)
<1>1. /\ jumps[s] = <<j>> /\ i = 1 /\ j \in Ferry!Jump
      /\ Ferry!RemoveAt(jumps[s], i) = << >>
      /\ j.left => area[s] = Ferry!Transit
      /\ ~ j.left => area[s] = location[s] /\ j.from = location[s]
  BY TheJump
<1>2. /\ j.from \in Ferry!Places /\ j.to \in Ferry!Places
      /\ Ferry!Transit \notin Ferry!Places
  BY <1>1 DEF Ferry!Jump, Ferry!Transit, Ferry!Places
<1>3. ASSUME NEW from, NEW to \in Ferry!Places \cup {Ferry!Transit},
             Ferry!Move(s, from, to), area[s] = from, from = to => location[s] = to
      PROVE  /\ area' \in [Ferries -> Ferry!Places \cup {Ferry!Transit}]
             /\ area'[s] = to
             /\ location'[s] = IF to \in Ferry!Places THEN to ELSE location[s]
             /\ \A t \in Ferries \ {s} : area'[t] = area[t] /\ location'[t] = location[t]
  BY <1>3 DEF Ferry!Move, StandInv, FlightInv
<1>4. /\ area' \in [Ferries -> Ferry!Places \cup {Ferry!Transit}]
      /\ \A t \in Ferries \ {s} : area'[t] = area[t] /\ location'[t] = location[t]
      /\ IF Off THEN area'[s] = location'[s]
         ELSE area'[s] = Ferry!Transit
  <2>1. CASE Ferry!CallOff(s, i)
    BY <1>1, <2>1 DEF Ferry!CallOff, Ferry!Warm, Ferry!Leave, StandInv
  <2>2. CASE Ferry!Leave(s, i) /\ s \in LongJump
    <3>1. Ferry!Move(s, j.from, Ferry!Transit) /\ area[s] = j.from
      BY <1>1, <2>2 DEF Ferry!Leave, Ferry!Warm
    <3> QED
      BY <1>2, <1>3, <2>2, <3>1
  <2>3. CASE Ferry!Leave(s, i) /\ s \notin LongJump
    <3>1. Ferry!Move(s, j.from, j.to) /\ area[s] = j.from /\ j.from = location[s]
      BY <1>1, <2>3 DEF Ferry!Leave, Ferry!Warm
    <3> QED
      BY <1>2, <1>3, <2>3, <3>1
  <2>4. CASE Ferry!Land(s, i)
    <3>1. Ferry!Move(s, Ferry!Transit, j.to) /\ area[s] = Ferry!Transit /\ Off
      BY <1>1, <2>4 DEF Ferry!Land, Ferry!Leave, Ferry!Warm
    <3> QED
      BY <1>2, <1>3, <2>4, <3>1
  <2> QED
    BY <2>1, <2>2, <2>3, <2>4
<1>5. \A t \in Ferries \ {s} : jumps'[t] = jumps[t]
  BY DEF Ferry!CallOff, Ferry!Leave, Ferry!Land, FlightInv
<1>6. Stands(s)'
  <2>1. CASE Off
    <3>1. jumps' = [jumps EXCEPT ![s] = << >>]
      BY <1>1, <2>1 DEF Ferry!CallOff, Ferry!Leave, Ferry!Land
    <3>2. jumps'[s] = << >> /\ ~ Left(<< >>)
      BY <3>1 DEF FlightInv, Left
    <3> QED
      BY <1>4, <2>1, <3>2 DEF Stands
  <2>2. CASE ~ Off
    <3>1. PICK k : k = [j EXCEPT !.left = TRUE] /\ jumps' = [jumps EXCEPT ![s] = [@ EXCEPT ![i] = k]]
      BY <2>2, Zenon DEF Ferry!Leave
    <3>2. k.left
      BY <1>1, <3>1 DEF Ferry!Jump
    <3>3. jumps'[s] = [jumps[s] EXCEPT ![i] = k]
      BY <3>1 DEF FlightInv
    <3>4. DOMAIN jumps'[s] = {1} /\ jumps'[s][1] = k
      BY <1>1, <3>3
    <3>5. Left(jumps'[s])
      BY <3>2, <3>4 DEF Left
    <3> QED
      BY <1>4, <2>2, <3>2, <3>4, <3>5 DEF Stands
  <2> QED
    BY <2>1, <2>2
<1>7. ASSUME NEW t \in Ferries \ {s}
      PROVE  Stands(t)'
  BY <1>4, <1>5, StillStands DEF StandInv
<1> QED
  BY <1>4, <1>5, <1>6, <1>7 DEF StandInv

(* The steps of a ferry that neither begin nor carry out a jump.           *)
Idles(s) ==
    \/ Ferry!LoseConsole(s) \/ Ferry!Arrive(s) \/ Ferry!Finish(s) \/ Ferry!SetupDock(s)
    \/ Ferry!Redock(s) \/ Ferry!TravelEnds(s) \/ Ferry!TimeOut(s)
Quiet(s) == Idles(s) \/ Ferry!Launch(s) \/ Ferry!ForceLaunch(s)

(* And those that do. *)
Flies(s) ==
    \E i \in DOMAIN jumps[s] : Ferry!CallOff(s, i) \/ Ferry!Leave(s, i) \/ Ferry!Land(s, i)
Jumps(s) == Flies(s) \/ Ferry!Depart(s) \/ Ferry!CancelLaunch(s)

Still == UNCHANGED <<area, location, jumps, moving_status, process_state>>

LEMMA QuietPlaces ==
    ASSUME NEW s \in Ferries, Quiet(s)
    PROVE  UNCHANGED <<area, location, jumps, moving_status>>
BY DEF Quiet, Idles, Ferry!Launch, Ferry!ForceLaunch, Ferry!LoseConsole, Ferry!Arrive,
       Ferry!Finish, Ferry!SetupDock, Ferry!Redock, Ferry!TravelEnds, Ferry!TimeOut

(* A machine does nothing to where a ferry is or what it does. *)
LEMMA MachinePlaces ==
    ASSUME NEW c \in Controllers, Ferry!ProcessDocking(c) \/ Ferry!DestroyDocking(c)
    PROVE  UNCHANGED <<area, location, jumps, moving_status, process_state>>
BY DEF Ferry!ProcessDocking, Ferry!DestroyDocking

(* Those are all steps there are. *)
LEMMA FerrySteps ==
    ASSUME [Ferry!Next]_ferryVars
    PROVE  Still \/ \E s \in Ferries : Quiet(s) \/ Jumps(s)
<1>1. CASE UNCHANGED ferryVars
  BY <1>1 DEF ferryVars, Still
<1>2. CASE Ferry!Next
  BY <1>2, MachinePlaces
     DEF Ferry!Next, Ferry!Uncancelled, Ferry!Calm, Ferry!Operate, Ferry!ProcessFerry,
         Quiet, Idles, Jumps, Flies, Still
<1> QED
  BY <1>1, <1>2

LEMMA StepStands ==
    ASSUME FlightInv, StandInv, OneAtATime', [Ferry!Next]_ferryVars
    PROVE  StandInv'
<1>1. CASE UNCHANGED <<area, location, jumps>>
  BY <1>1, StillStands DEF StandInv
<1> QED
  BY <1>1, FerrySteps, QuietPlaces, DepartStands, CancelStands, JumpStands
     DEF Flies, Jumps, Still

(* A step of one ferry does nothing to another. *)
LEMMA Apart ==
    ASSUME FlightInv, StandInv, NEW s \in Ferries, NEW t \in Ferries \ {s},
           Quiet(s) \/ Jumps(s)
    PROVE  /\ area'[t] = area[t] /\ location'[t] = location[t] /\ jumps'[t] = jumps[t]
           /\ moving_status'[t] = moving_status[t]
           /\ process_state'[t] = process_state[t]
<1>1. CASE Quiet(s)
  <2>1. process_state'[t] = process_state[t]
    BY <1>1 DEF Quiet, Idles, Ferry!Launch, Ferry!ForceLaunch, Ferry!LoseConsole, Ferry!Arrive,
       Ferry!Finish, Ferry!SetupDock, Ferry!Redock, Ferry!TravelEnds, Ferry!TimeOut, FlightInv
  <2> QED
    BY <1>1, <2>1, QuietPlaces
<1>2. CASE Flies(s)
  <2>1. /\ moving_status'[t] = moving_status[t]
        /\ process_state'[t] = process_state[t]
    BY <1>2 DEF Flies, Ferry!CallOff, Ferry!Leave, Ferry!Land, FlightInv
  <2> QED
    BY <1>2, <2>1, JumpStands DEF Flies
<1>3. CASE Ferry!Depart(s)
  BY <1>3 DEF Ferry!Depart, Ferry!StartJump, FlightInv
<1>4. CASE Ferry!CancelLaunch(s)
  BY <1>4 DEF Ferry!CancelLaunch, FlightInv
<1> QED
  BY <1>1, <1>2, <1>3, <1>4 DEF Jumps

-----------------------------------------------------------------------------
(* Pods do not return: one that is to be launched, or jumps, starts at the *)
(* station.                                                                *)

ToLaunch == {"wait_launch", "force_launch"}

FromStation(p) ==
    /\ process_state[p] \in ToLaunch => location[p] = 0
    /\ \A i \in DOMAIN jumps[p] : jumps[p][i].from = 0

LEMMA PodStep ==
    ASSUME FlightInv, StandInv, OneAtATime', NEW p \in Ferries, FromStation(p),
           NEW t \in Ferries,
           \/ Idles(t) \/ Jumps(t) \/ Ferry!ForceLaunch(t)
           \/ Ferry!Launch(t) /\ (t = p => location[t] = 0)
    PROVE  FromStation(p)' /\ (area[p] = 1 => area'[p] = 1)
<1>2. CASE t # p
  BY <1>2, Apart DEF FromStation, Quiet
<1>3. CASE t = p /\ (Idles(t) \/ Ferry!ForceLaunch(t) \/ (Ferry!Launch(t) /\ location[t] = 0))
  <2>1. UNCHANGED <<area, location, jumps>>
    BY <1>3, QuietPlaces DEF Quiet
  <2>2. process_state'[p] \in ToLaunch => location[p] = 0
    BY <1>3 DEF Idles, Ferry!Launch, Ferry!ForceLaunch, Ferry!CanForce, Ferry!LoseConsole,
       Ferry!Arrive, Ferry!Finish, Ferry!SetupDock, Ferry!Redock, Ferry!TravelEnds,
       Ferry!TimeOut, FlightInv, FromStation, ToLaunch
  <2> QED
    BY <2>1, <2>2 DEF FromStation
<1>4. CASE Ferry!Depart(p)
  <2>1. PICK forced \in BOOLEAN : Ferry!StartJump(p, forced)
    BY <1>4 DEF Ferry!Depart
  <2>2. moving_status[p] = "idle" /\ process_state[p] \in ToLaunch
    BY <1>4 DEF Ferry!Depart, FlightInv, Waiting, ToLaunch
  <2>3. PICK j :
          /\ j = [from |-> location[p], to |-> 1 - location[p], left |-> FALSE,
                  forced |-> forced, cancelled |-> FALSE]
          /\ jumps' = [jumps EXCEPT ![p] = Append(@, j)]
    BY <2>1, <2>2 DEF Ferry!StartJump
  <2>4. j.from = 0 /\ j \in Ferry!Jump
    <3>1. location[p] \in Ferry!Places /\ 1 - location[p] \in Ferry!Places /\ location[p] = 0
      BY <2>2 DEF FlightInv, Ferry!Places, FromStation
    <3> QED
      BY <2>3, <3>1 DEF Ferry!Jump
  <2>5. jumps'[p] = <<j>>
    BY <2>3, <2>4, FirstJump DEF FlightInv, OneAtATime
  <2>6. /\ area' = area /\ process_state'[p] = "wait_arrive"
    BY <1>4 DEF Ferry!Depart, FlightInv
  <2>7. \A i \in DOMAIN jumps'[p] : jumps'[p][i].from = 0
    BY <2>4, <2>5
  <2> QED
    BY <2>6, <2>7 DEF FromStation, ToLaunch
<1>5. CASE Ferry!CancelLaunch(p)
  <2> DEFINE q == jumps[p]
             r == [i \in DOMAIN q |-> [q[i] EXCEPT !.cancelled = TRUE]]
  <2>1. /\ area' = area /\ process_state'[p] = "wait_finish"
        /\ jumps' = [jumps EXCEPT ![p] = r]
    BY <1>5, Zenon DEF Ferry!CancelLaunch, FlightInv
  <2>2. jumps'[p] = r
    BY <2>1 DEF FlightInv
  <2>3. ASSUME NEW i \in DOMAIN q PROVE r[i].from = 0
    <3>1. q[i] \in Ferry!Jump /\ q[i].from = 0
      BY TheJump DEF FromStation
    <3>2. r[i] = [q[i] EXCEPT !.cancelled = TRUE]
      OBVIOUS
    <3> QED
      BY <3>1, <3>2 DEF Ferry!Jump
  <2>4. DOMAIN r = DOMAIN q
    OBVIOUS
  <2> HIDE DEF r
  <2> QED
    BY <2>1, <2>2, <2>3, <2>4 DEF FromStation, ToLaunch
<1>6. ASSUME NEW i \in DOMAIN jumps[p],
             Ferry!CallOff(p, i) \/ Ferry!Leave(p, i) \/ Ferry!Land(p, i)
      PROVE  FromStation(p)' /\ (area[p] = 1 => area'[p] = 1)
  <2> DEFINE j == jumps[p][i]
  <2>1. /\ jumps[p] = <<j>> /\ i = 1 /\ j \in Ferry!Jump /\ j.from = 0
        /\ Ferry!RemoveAt(jumps[p], i) = << >>
        /\ j.left => area[p] = Ferry!Transit
        /\ ~ j.left => area[p] = location[p] /\ j.from = location[p]
    BY TheJump DEF FromStation
  <2>2. area[p] # 1
    BY <2>1 DEF Ferry!Transit
  <2>3. process_state' = process_state
    BY <1>6 DEF Ferry!CallOff, Ferry!Leave, Ferry!Land
  <2>4. CASE Ferry!CallOff(p, i)
    <3>1. jumps' = [jumps EXCEPT ![p] = << >>] /\ location' = location
      BY <2>1, <2>4 DEF Ferry!CallOff
    <3>2. jumps'[p] = << >>
      BY <3>1 DEF FlightInv
    <3> QED
      BY <2>2, <2>3, <3>1, <3>2 DEF FromStation
  <2>5. CASE Ferry!Leave(p, i) \/ Ferry!Land(p, i)
    <3>1. process_state[p] \notin ToLaunch
      <4>1. moving_status[p] # "idle"
        BY <2>5 DEF Ferry!Leave, Ferry!Land, FlightInv, Left
      <4> QED
        BY <4>1 DEF FlightInv, Waiting, ToLaunch
    <3>2. \A k \in DOMAIN jumps'[p] : jumps'[p][k].from = 0
      <4>1. CASE jumps' = [jumps EXCEPT ![p] = Ferry!RemoveAt(@, i)]
        <5>1. jumps'[p] = << >>
          BY <2>1, <4>1 DEF FlightInv
        <5> QED
          BY <5>1
      <4>2. CASE Ferry!Leave(p, i) /\ p \in LongJump
        <5>1. PICK k : k = [j EXCEPT !.left = TRUE] /\ jumps' = [jumps EXCEPT ![p] = [@ EXCEPT ![i] = k]]
          BY <4>2, Zenon DEF Ferry!Leave
        <5>2. k.from = 0
          BY <2>1, <5>1 DEF Ferry!Jump
        <5>3. jumps'[p] = [jumps[p] EXCEPT ![i] = k]
          BY <5>1 DEF FlightInv
        <5>4. DOMAIN jumps'[p] = {1} /\ jumps'[p][1] = k
          BY <2>1, <5>3
        <5> QED
          BY <5>2, <5>4
      <4> QED
        BY <2>5, <4>1, <4>2 DEF Ferry!Leave, Ferry!Land
    <3> QED
      BY <2>2, <2>3, <3>1, <3>2 DEF FromStation
  <2> QED
    BY <1>6, <2>4, <2>5
<1> QED
  BY <1>2, <1>3, <1>4, <1>5, <1>6 DEF Jumps, Flies

-----------------------------------------------------------------------------
(* A shuttle recalled rests until somebody launches it. *)

Resting(s) == moving_status[s] = "idle" /\ process_state[s] \notin ToLaunch

LEMMA RestStep ==
    ASSUME FlightInv, StandInv, NEW s \in Ferries, Resting(s), NEW t \in Ferries,
           \/ Idles(t) \/ Jumps(t)
           \/ t # s /\ (Ferry!Launch(t) \/ Ferry!ForceLaunch(t))
    PROVE  Resting(s)' /\ location'[s] = location[s] /\ area'[s] = area[s]
<1>2. CASE t # s
  BY <1>2, Apart DEF Resting, Quiet
<1>3. CASE Idles(s)
  <2>1. process_state'[s] \in {process_state[s], "wait_finish", "idle"}
    BY <1>3 DEF Idles, Ferry!LoseConsole, Ferry!Arrive, Ferry!Finish, Ferry!SetupDock,
       Ferry!Redock, Ferry!TravelEnds, Ferry!TimeOut, FlightInv
  <2> QED
    BY <1>3, <2>1, QuietPlaces DEF Quiet, Resting, ToLaunch
<1>4. CASE Ferry!Depart(s)
  BY <1>4 DEF Ferry!Depart, Resting, ToLaunch
<1>5. CASE Ferry!CancelLaunch(s)
  BY <1>5 DEF Ferry!CancelLaunch, Resting, ToLaunch, FlightInv
<1>6. ASSUME NEW i \in DOMAIN jumps[s], Ferry!CallOff(s, i)
      PROVE  Resting(s)' /\ location'[s] = location[s] /\ area'[s] = area[s]
  BY <1>6 DEF Ferry!CallOff, Resting
<1>7. ASSUME NEW i \in DOMAIN jumps[s], Ferry!Leave(s, i) \/ Ferry!Land(s, i)
      PROVE  FALSE
  BY <1>7 DEF Ferry!Leave, Ferry!Land, Resting, FlightInv, Left
<1> QED
  BY <1>2, <1>3, <1>4, <1>5, <1>6, <1>7 DEF Jumps, Flies

(* Who launches a ferry. *)
LEMMA WhoLaunches ==
    ASSUME Next
    PROVE  \/ Still
           \/ \E s \in Ferries : Idles(s) \/ Jumps(s)
           \/ \E s \in Ferries : /\ Ferry!Launch(s)
                                 /\ s \in Pods => location[s] = 0
                                 /\ s = Escape => Escape \in launching \/ recalled' # "yes"
           \/ \E s \in Ferries : /\ Ferry!ForceLaunch(s)
                                 /\ s = Escape => recalled' # "yes"
<1> USE EmergencyAssumption
<1>1. CASE \/ Call \/ TimeToLaunch \/ LaunchComes \/ RecallComes \/ EndAutoRecall \/ Emag
           \/ \E h \in Heads : ReadAuthorization(h) \/ RemoveId(h)
           \/ \E p \in Pods : ArmPod(p)
  BY <1>1 DEF Call, TimeToLaunch, LaunchComes, RecallComes, EndAutoRecall, Emag,
              ReadAuthorization, RemoveId, ArmPod, ferryVars, Still
<1>2. CASE RecallShuttle \/ ConsoleCancel \/ LoseConsole
  BY <1>2 DEF RecallShuttle, ConsoleCancel, LoseConsole, ferryVars, Still, Idles, Jumps
<1>3. CASE ConsoleLaunch \/ ConsoleForce
  BY <1>3 DEF ConsoleLaunch, ConsoleForce, Pods
<1>4. ASSUME NEW s \in Ferries, LaunchNext(s)
      PROVE  \/ /\ Ferry!Launch(s)
                /\ s \in Pods => location[s] = 0
                /\ s = Escape => Escape \in launching \/ recalled' # "yes"
             \/ Still
  BY <1>4 DEF LaunchNext, CanLaunch, ferryVars, Still
<1>5. ASSUME NEW p \in Pods, PodPanel(p)
      PROVE  /\ p \in Ferries /\ p # Escape
             /\ Ferry!ForceLaunch(p) \/ (Ferry!Launch(p) /\ location[p] = 0)
  BY <1>5 DEF PodPanel, Pods
<1>6. ASSUME NEW s \in Ferries,
             \/ Depart(s) \/ Arrive(s) \/ Finish(s)
             \/ \E i \in DOMAIN jumps[s] : Leave(s, i) \/ Land(s, i)
      PROVE  Idles(s) \/ Jumps(s)
  BY <1>6 DEF Depart, Arrive, Finish, Leave, Land, Flies, Idles, Jumps
<1>7. CASE OtherStep
  BY <1>7, MachinePlaces DEF OtherStep, Flies, Idles, Jumps, Still
<1> QED
  BY <1>1, <1>2, <1>3, <1>4, <1>5, <1>6, <1>7 DEF Next, Process, Recall, AutoRecall

-----------------------------------------------------------------------------
(* What the three properties need: where ferries stand, that pods start at *)
(* the station, and that a shuttle recalled rests off it with nothing      *)
(* under way that would launch it.                                         *)
RecallInv ==
    recalled = "yes" => /\ ~ AtStation /\ Resting(Escape)
                        /\ countdown = "off" /\ Escape \notin launching

HomeInv == /\ FlightInv /\ StandInv /\ RecallInv
           /\ \A p \in Pods : FromStation(p)

(* A recall stops the launch that is under way, if there is one. *)
LEMMA RecallRests ==
    ASSUME FlightInv, RecallShuttle, launching' = {}
    PROVE  RecallInv'
<1>0. Escape \in Ferries
  BY EmergencyAssumption
<1>1. /\ countdown' = "off" /\ ~ AtStation
      /\ moving_status[Escape] # "intransit"
  BY DEF RecallShuttle, Free, CanRecall, StopLaunchCountdown
<1>2. CASE Ferry!CancelLaunch(Escape)
  BY <1>0, <1>1, <1>2
     DEF Ferry!CancelLaunch, FlightInv, RecallInv, Resting, ToLaunch, AtStation
<1>3. CASE UNCHANGED ferryVars /\ ~ Ferry!CanCancel(Escape)
  <2>1. moving_status[Escape] = "idle" /\ process_state[Escape] \notin ToLaunch
    BY <1>0, <1>1, <1>3 DEF Ferry!CanCancel, FlightInv, Statuses, ToLaunch
  <2> QED
    BY <1>1, <1>3, <2>1 DEF ferryVars, RecallInv, Resting, AtStation
<1> QED
  BY <1>2, <1>3 DEF RecallShuttle

(* What is not a recall leaves a shuttle that was not recalled as it was.  *)
LEMMA OnlyRecallRecalls ==
    ASSUME [Next]_vars, recalled' = "yes", recalled # "yes"
    PROVE  RecallShuttle /\ launching' = {}
<1>1. Recall \/ AutoRecall
  BY DEF Next, Call, Process, TimeToLaunch, LaunchNext, LaunchComes, RecallComes,
     EndAutoRecall, ReadAuthorization, RemoveId, Emag, ConsoleLaunch, ConsoleForce,
     ConsoleCancel, LoseConsole, ArmPod, PodPanel, Depart, Arrive, Finish, Leave, Land,
     OtherStep, flight, vars
<1> QED
  BY <1>1 DEF Recall, AutoRecall, RecallShuttle, Free

(* The countdown stays off, and so nothing launches the shuttle. *)
LEMMA RecalledQuiet ==
    ASSUME RecallInv, recalled = "yes", recalled' = "yes", [Next]_vars
    PROVE  countdown' = "off" /\ Escape \notin launching'
<1>1. ~ AtStation /\ countdown = "off" /\ Escape \notin launching
  BY DEF RecallInv
<1>2. CASE \/ Call \/ RecallShuttle \/ TimeToLaunch
           \/ LaunchComes \/ RecallComes \/ EndAutoRecall
  BY <1>1, <1>2 DEF Call, RecallShuttle, CanRecall, TimeToLaunch, LaunchComes, RecallComes,
                    EndAutoRecall
<1>3. ASSUME NEW s \in Ferries, LaunchNext(s) \/ Depart(s) \/ Arrive(s) \/ Finish(s)
      PROVE  countdown' = "off" /\ Escape \notin launching'
  BY <1>1, <1>3 DEF LaunchNext, Depart, Arrive, Finish, ShuttleArrived
<1>4. ASSUME NEW s \in Ferries, NEW i \in DOMAIN jumps[s], Leave(s, i) \/ Land(s, i)
      PROVE  countdown' = "off" /\ Escape \notin launching'
  BY <1>1, <1>4 DEF Leave, Land
<1>5. CASE \/ Emag \/ ConsoleLaunch \/ ConsoleForce \/ ConsoleCancel \/ LoseConsole
           \/ \E h \in Heads : ReadAuthorization(h) \/ RemoveId(h)
           \/ \E p \in Pods : ArmPod(p) \/ PodPanel(p)
           \/ OtherStep
           \/ UNCHANGED vars
  BY <1>1, <1>5
     DEF Emag, ConsoleLaunch, ConsoleForce, ConsoleCancel, LoseConsole,
         ReadAuthorization, RemoveId, ArmPod, PodPanel, OtherStep, vars
<1> QED
  BY <1>2, <1>3, <1>4, <1>5 DEF Next, Process, Recall, AutoRecall

(* A shuttle recalled stays recalled, or is called or launched. *)
LEMMA RecalledRests ==
    ASSUME HomeInv, recalled = "yes", recalled' = "yes", [Next]_vars
    PROVE  RecallInv' /\ area'[Escape] = area[Escape]
<1>0. Escape \in Ferries
  BY EmergencyAssumption
<1>1. ~ AtStation /\ Resting(Escape) /\ Escape \notin launching
  BY DEF HomeInv, RecallInv
<1>2. /\ Resting(Escape)' /\ location'[Escape] = location[Escape]
      /\ area'[Escape] = area[Escape]
  <2>1. CASE Still \/ UNCHANGED vars
    BY <1>1, <2>1 DEF Still, vars, ferryVars, Resting
  <2>2. ASSUME NEW s \in Ferries,
               \/ Idles(s) \/ Jumps(s)
               \/ s # Escape /\ (Ferry!Launch(s) \/ Ferry!ForceLaunch(s))
        PROVE  /\ Resting(Escape)' /\ location'[Escape] = location[Escape]
               /\ area'[Escape] = area[Escape]
    BY <1>0, <1>1, <2>2, RestStep DEF HomeInv
  <2> QED
    BY <1>1, <2>1, <2>2, WhoLaunches
<1>3. countdown' = "off" /\ Escape \notin launching'
  BY RecalledQuiet DEF HomeInv
<1> QED
  BY <1>1, <1>2, <1>3 DEF RecallInv, AtStation

(* Pods go one way. *)
LEMMA PodsStep ==
    ASSUME HomeInv, OneAtATime', [Next]_vars, NEW p \in Pods
    PROVE  FromStation(p)' /\ (area[p] = 1 => area'[p] = 1)
<1>1. p \in Ferries /\ FromStation(p) /\ FlightInv /\ StandInv
  BY DEF HomeInv, Pods
<1>2. CASE Still \/ UNCHANGED vars
  BY <1>1, <1>2 DEF Still, vars, ferryVars, FromStation
<1>3. ASSUME NEW s \in Ferries,
             \/ Idles(s) \/ Jumps(s) \/ Ferry!ForceLaunch(s)
             \/ Ferry!Launch(s) /\ (s \in Pods => location[s] = 0)
      PROVE  FromStation(p)' /\ (area[p] = 1 => area'[p] = 1)
  <2>1. \/ Idles(s) \/ Jumps(s) \/ Ferry!ForceLaunch(s)
        \/ Ferry!Launch(s) /\ (s = p => location[s] = 0)
    BY <1>3
  <2> QED
    BY <1>1, <2>1, PodStep
<1> QED
  BY <1>2, <1>3, WhoLaunches

LEMMA StepHome ==
    ASSUME HomeInv, CountdownInv, OneAtATime', [Next]_vars
    PROVE  HomeInv' /\ CountdownInv'
<1>1. FlightInv' /\ CountdownInv'
  <2>1. CASE UNCHANGED vars
    BY <2>1 DEF vars, ferryVars, HomeInv, FlightInv, CountdownInv, Idle
  <2> QED
    BY <2>1, CallsKeep, FlightsKeep DEF Next, HomeInv
<1>2. [Ferry!Next]_ferryVars
  BY FerryCalls, FerryFlies DEF Next, vars
<1>3. StandInv'
  BY <1>2, StepStands DEF HomeInv
<1>4. RecallInv'
  <2>1. CASE recalled' # "yes"
    BY <2>1 DEF RecallInv
  <2>2. CASE recalled' = "yes" /\ recalled = "yes"
    BY <2>2, RecalledRests
  <2>3. CASE recalled' = "yes" /\ recalled # "yes"
    BY <2>3, OnlyRecallRecalls, RecallRests DEF HomeInv
  <2> QED
    BY <2>1, <2>2, <2>3
<1>5. \A p \in Pods : FromStation(p)'
  BY PodsStep
<1> QED
  BY <1>1, <1>3, <1>4, <1>5 DEF HomeInv

(* As long as no ferry has two jumps under way at once the invariant holds.*)
LEMMA HomeHolds == Spec /\ []OneAtATime => [](HomeInv /\ CountdownInv)
<1>1. Init => HomeInv /\ CountdownInv
  <2> SUFFICES ASSUME Init PROVE HomeInv /\ CountdownInv
    OBVIOUS
  <2>1. FlightInv
    BY InitFlight
  <2>2. ~ Left(<< >>)
    BY DEF Left
  <2>3. StandInv
    BY <2>1, <2>2 DEF Init, Ferry!Init, StandInv, Stands, FlightInv
  <2>4. \A p \in Pods : FromStation(p)
    BY EmergencyAssumption DEF Init, Ferry!Init, FromStation, ToLaunch, Pods
  <2>5. RecallInv /\ CountdownInv
    BY DEF Init, RecallInv, CountdownInv
  <2> QED
    BY <2>1, <2>3, <2>4, <2>5 DEF HomeInv
<1>2. HomeInv /\ CountdownInv /\ OneAtATime' /\ [Next]_vars => HomeInv' /\ CountdownInv'
  BY StepHome
<1> QED
  BY <1>1, <1>2, PTL DEF Spec

(* When the round is said to be over, the shuttle is at Central Command:   *)
(* one that is idle has no jump that left, and stands where location says. *)
THEOREM ReturnedHomeHolds == Spec /\ []OneAtATime => []ReturnedHome
<1>1. ASSUME HomeInv, Returned
      PROVE  area[Escape] = 1
  <2>1. Escape \in Ferries /\ moving_status[Escape] = "idle" /\ location[Escape] # 0
    BY <1>1, EmergencyAssumption DEF Returned, Idle, AtStation
  <2>2. ~ Left(jumps[Escape])
    BY <1>1, <2>1 DEF HomeInv, FlightInv
  <2>3. area[Escape] = location[Escape] /\ location[Escape] \in Ferry!Places
    BY <1>1, <2>1, <2>2 DEF HomeInv, StandInv, Stands, FlightInv
  <2> QED
    BY <2>1, <2>3 DEF Ferry!Places
<1>2. HomeInv => ReturnedHome
  BY <1>1 DEF ReturnedHome
<1> QED
  BY <1>2, HomeHolds, PTL

(* A shuttle that was recalled stays at Central Command, unless the call   *)
(* of process() that recalled it launches it again.                        *)
THEOREM RecalledStaysHolds == Spec /\ []OneAtATime => RecalledStays
<1>1. HomeInv /\ [Next]_vars =>
        [recalled = "yes" /\ area[Escape] = 1 => area'[Escape] = 1]_vars
  <2> SUFFICES ASSUME HomeInv, Next, recalled = "yes", area[Escape] = 1
               PROVE  area'[Escape] = 1
    OBVIOUS
  <2>1. CASE recalled' = "yes"
    BY <2>1, RecalledRests
  <2>2. CASE recalled' # "yes"
    <3>1. CASE Call
      BY <3>1 DEF Call, ferryVars
    <3>2. CASE ConsoleLaunch \/ ConsoleForce
      BY <3>2 DEF ConsoleLaunch, ConsoleForce, Ferry!Launch, Ferry!ForceLaunch
    <3>3. CASE RecallShuttle
      BY <3>3 DEF RecallShuttle, CanRecall, HomeInv, RecallInv
    <3>4. Call \/ ConsoleLaunch \/ ConsoleForce \/ RecallShuttle
      BY <2>2 DEF Next, Recall, AutoRecall, Process, TimeToLaunch, LaunchNext, LaunchComes,
         RecallComes, EndAutoRecall, ReadAuthorization, RemoveId, Emag, ConsoleCancel,
         LoseConsole, ArmPod, PodPanel, Depart, Arrive, Finish, Leave, Land, OtherStep,
         flight
    <3> QED
      BY <3>1, <3>2, <3>3, <3>4
  <2> QED
    BY <2>1, <2>2
<1> QED
  BY <1>1, HomeHolds, PTL DEF Spec, RecalledStays

(* A pod that has arrived does not leave again. *)
THEOREM OneWayHolds == Spec /\ []OneAtATime => OneWay
<1>1. HomeInv /\ OneAtATime' /\ [Next]_vars =>
        [\A p \in Pods : area[p] = 1 => area'[p] = 1]_vars
  BY PodsStep
<1> QED
  BY <1>1, HomeHolds, PTL DEF Spec, OneWay

-----------------------------------------------------------------------------
(* Nobody is forgotten at the station.  What process() asks for there is   *)
(* not refused: a shuttle at rest is idle, and no console holds its lock.  *)
RestInv ==
    /\ in_use \in [Ferries -> BOOLEAN]
    /\ process_state[Escape] \in {"idle", "wait_finish"} => ~ in_use[Escape]
    /\ process_state[Escape] = "idle" => Idle

(* A ferry's steps leave it so. *)
LEMMA RestKept ==
    ASSUME FlightInv, RestInv, [Ferry!Next]_ferryVars
    PROVE  RestInv'
<1>0. Escape \in Ferries
  BY EmergencyAssumption
<1>1. CASE UNCHANGED <<in_use, process_state, moving_status>>
  BY <1>1 DEF RestInv, Idle
<1>2. ASSUME NEW s \in Ferries, Quiet(s)
      PROVE  RestInv'
  <2>1. UNCHANGED moving_status
    BY <1>2, QuietPlaces
  <2>2. CASE \/ Ferry!LoseConsole(s) \/ Ferry!SetupDock(s) \/ Ferry!Redock(s)
             \/ Ferry!TravelEnds(s) \/ Ferry!TimeOut(s)
    BY <1>0, <2>1, <2>2 DEF Ferry!LoseConsole, Ferry!SetupDock, Ferry!Redock,
       Ferry!TravelEnds, Ferry!TimeOut, RestInv, Idle
  <2>3. CASE Ferry!Launch(s) \/ Ferry!ForceLaunch(s)
    BY <1>0, <2>1, <2>3 DEF Ferry!Launch, Ferry!ForceLaunch, FlightInv, RestInv, Idle
  <2>4. CASE Ferry!Arrive(s) \/ Ferry!Finish(s)
    BY <1>0, <2>1, <2>4 DEF Ferry!Arrive, Ferry!Finish, FlightInv, Waiting, RestInv, Idle
  <2> QED
    BY <1>2, <2>2, <2>3, <2>4 DEF Quiet, Idles
<1>3. ASSUME NEW s \in Ferries, Jumps(s)
      PROVE  RestInv'
  <2>1. CASE Ferry!Depart(s)
    BY <1>0, <2>1 DEF Ferry!Depart, Ferry!StartJump, FlightInv, RestInv, Idle
  <2>2. CASE Ferry!CancelLaunch(s)
    BY <1>0, <2>2 DEF Ferry!CancelLaunch, FlightInv, RestInv, Idle
  <2>3. ASSUME NEW i \in DOMAIN jumps[s],
               Ferry!CallOff(s, i) \/ Ferry!Leave(s, i) \/ Ferry!Land(s, i)
        PROVE  RestInv'
    <3>1. UNCHANGED <<process_state, in_use>>
      BY <2>3, Zenon DEF Ferry!CallOff, Ferry!Leave, Ferry!Land
    <3>2. process_state[Escape] = "idle" => moving_status'[Escape] = "idle"
      BY <1>0, <2>3 DEF Ferry!CallOff, Ferry!Leave, Ferry!Land, FlightInv, RestInv, Idle
    <3> QED
      BY <3>1, <3>2 DEF RestInv, Idle
  <2> QED
    BY <1>3, <2>1, <2>2, <2>3 DEF Jumps, Flies
<1>4. CASE Still /\ UNCHANGED in_use
  BY <1>1, <1>4 DEF Still
<1>5. ASSUME NEW c \in Controllers, Ferry!ProcessDocking(c) \/ Ferry!DestroyDocking(c)
      PROVE  RestInv'
  BY <1>1, <1>5 DEF Ferry!ProcessDocking, Ferry!DestroyDocking
<1>6. CASE Ferry!Next
  BY <1>2, <1>3, <1>5, <1>6
     DEF Ferry!Next, Ferry!Uncancelled, Ferry!Calm, Ferry!Operate, Ferry!ProcessFerry,
         Quiet, Idles, Jumps, Flies
<1> QED
  BY <1>1, <1>6 DEF ferryVars

(* What changes nothing of it keeps it, *)
LEMMA LeavesKept ==
    ASSUME StillLeaves, UNCHANGED <<autopilot, countdown>>,
           Escape \in launching => Escape \in launching',
           location'[Escape] = location[Escape],
           moving_status'[Escape] = moving_status[Escape],
           process_state'[Escape] = process_state[Escape]
    PROVE  StillLeaves'
BY DEF StillLeaves, AtStation, Idle

(* so do the calls of the controller, the console and the pods, *)
LEMMA CallsLeave ==
    ASSUME FlightInv, StandInv, RestInv, RestInv', StillLeaves,
           \/ Call \/ Recall \/ Process \/ LaunchComes \/ RecallComes
           \/ EndAutoRecall \/ Emag
           \/ ConsoleLaunch \/ ConsoleForce \/ ConsoleCancel \/ LoseConsole
           \/ \E h \in Heads : ReadAuthorization(h) \/ RemoveId(h)
           \/ \E p \in Pods : ArmPod(p) \/ PodPanel(p)
    PROVE  StillLeaves'
<1>0. Escape \in Ferries /\ Pods = Ferries \ {Escape}
  BY EmergencyAssumption DEF Pods
<1>1. CASE Call \/ RecallShuttle
  <2>1. ~ AtStation /\ UNCHANGED location
    BY <1>1 DEF Call, CanCall, RecallShuttle, CanRecall, ferryVars, Ferry!CancelLaunch
  <2> QED
    BY <2>1 DEF StillLeaves, AtStation
<1>2. CASE TimeToLaunch
  BY <1>2 DEF TimeToLaunch, flight, StillLeaves
<1>3. ASSUME NEW s \in Ferries, LaunchNext(s)
      PROVE  StillLeaves'
  <2>1. CASE s # Escape
    <3>1. UNCHANGED ferryVars \/ Ferry!Launch(s)
      BY <1>3 DEF LaunchNext
    <3>2. /\ location'[Escape] = location[Escape]
          /\ moving_status'[Escape] = moving_status[Escape]
          /\ process_state'[Escape] = process_state[Escape]
      BY <1>0, <2>1, <3>1, Apart DEF Quiet, ferryVars
    <3>3. UNCHANGED <<autopilot, countdown>> /\ launching' = launching \ {s}
      BY <1>3 DEF LaunchNext, flight
    <3> QED
      BY <2>1, <3>2, <3>3, LeavesKept
  <2>2. CASE s = Escape /\ CanLaunch(Escape)
    <3>1. process_state'[Escape] = "wait_launch"
      BY <1>0, <1>3, <2>2 DEF LaunchNext, Ferry!Launch, FlightInv
    <3> QED
      BY <3>1 DEF StillLeaves
  <2>3. CASE s = Escape /\ ~ CanLaunch(Escape)
    <3>1. process_state'[Escape] # "idle"
      BY <1>0, <1>3, <2>3
         DEF LaunchNext, CanLaunch, Ferry!CanLaunch, RestInv, Idle, ferryVars
    <3> QED
      BY <3>1 DEF StillLeaves
  <2> QED
    BY <2>1, <2>2, <2>3
<1>4. CASE LaunchComes
  BY <1>4 DEF LaunchComes, StillLeaves
<1>5. CASE \/ RecallComes \/ EndAutoRecall \/ Emag
           \/ \E h \in Heads : ReadAuthorization(h) \/ RemoveId(h)
           \/ \E p \in Pods : ArmPod(p)
  BY <1>5, LeavesKept
     DEF RecallComes, EndAutoRecall, Emag, ReadAuthorization, RemoveId, ArmPod, ferryVars,
         flight
<1>6. CASE ConsoleLaunch \/ ConsoleForce \/ ConsoleCancel
  BY <1>6 DEF ConsoleLaunch, ConsoleForce, ConsoleCancel, StillLeaves
<1>7. CASE LoseConsole
  BY <1>7, LeavesKept DEF LoseConsole, Ferry!LoseConsole, flight
<1>8. ASSUME NEW p \in Pods, PodPanel(p)
      PROVE  StillLeaves'
  <2>1. /\ location'[Escape] = location[Escape]
        /\ moving_status'[Escape] = moving_status[Escape]
        /\ process_state'[Escape] = process_state[Escape]
    BY <1>0, <1>8, Apart DEF PodPanel, Quiet
  <2> QED
    BY <1>8, <2>1, LeavesKept DEF PodPanel
<1> QED
  BY <1>1, <1>2, <1>3, <1>4, <1>5, <1>6, <1>7, <1>8 DEF Process, Recall, AutoRecall

(* and the flights: one that ends at the station sets the countdown.       *)
LEMMA FlightsLeave ==
    ASSUME FlightInv, StandInv, RestInv, RestInv', StillLeaves,
           \/ \E s \in Ferries :
                \/ Depart(s) \/ Arrive(s) \/ Finish(s)
                \/ \E i \in DOMAIN jumps[s] : Leave(s, i) \/ Land(s, i)
           \/ OtherStep
    PROVE  StillLeaves'
<1>0. Escape \in Ferries
  BY EmergencyAssumption
<1>1. ASSUME NEW s \in Ferries \ {Escape},
             \/ Depart(s) \/ Arrive(s) \/ Finish(s)
             \/ \E i \in DOMAIN jumps[s] : Leave(s, i) \/ Land(s, i)
      PROVE  StillLeaves'
  <2>1. Quiet(s) \/ Jumps(s)
    BY <1>1 DEF Depart, Arrive, Finish, Leave, Land, Quiet, Idles, Jumps, Flies
  <2>2. /\ location'[Escape] = location[Escape]
        /\ moving_status'[Escape] = moving_status[Escape]
        /\ process_state'[Escape] = process_state[Escape]
    BY <1>0, <1>1, <2>1, Apart
  <2>3. UNCHANGED <<autopilot, countdown, launching>>
    BY <1>1 DEF Depart, Arrive, Finish, Leave, Land, flight
  <2> QED
    BY <2>2, <2>3, LeavesKept
<1>2. CASE Depart(Escape) \/ Arrive(Escape)
  <2>1. process_state'[Escape] # "idle"
    BY <1>0, <1>2 DEF Depart, Ferry!Depart, Arrive, Ferry!Arrive, FlightInv
  <2> QED
    BY <2>1 DEF StillLeaves
<1>3. CASE Finish(Escape)
  <2>1. UNCHANGED <<autopilot, location>>
    BY <1>3 DEF Finish, Ferry!Finish
  <2>2. AtStation /\ autopilot => countdown' = "running"
    BY <1>3 DEF Finish, ShuttleArrived, SetLaunchCountdown
  <2> QED
    BY <2>1, <2>2 DEF StillLeaves, AtStation
<1>4. ASSUME NEW i \in DOMAIN jumps[Escape], Leave(Escape, i) \/ Land(Escape, i)
      PROVE  StillLeaves'
  <2>1. moving_status[Escape] # "idle"
    BY <1>0, <1>4, Zenon DEF Leave, Ferry!Leave, Land, Ferry!Land, FlightInv, Left
  <2>2. process_state'[Escape] # "idle"
    BY <1>4, <2>1, Zenon DEF Leave, Ferry!Leave, Land, Ferry!Land, RestInv, Idle
  <2> QED
    BY <2>2 DEF StillLeaves
<1>5. CASE OtherStep
  <2>1. UNCHANGED <<autopilot, countdown, launching>>
    BY <1>5 DEF OtherStep, flight
  <2>2. /\ location' = location /\ process_state' = process_state
        /\ moving_status' = moving_status
    BY <1>5
       DEF OtherStep, Ferry!SetupDock, Ferry!Redock, Ferry!TravelEnds, Ferry!TimeOut,
           Ferry!CallOff, Ferry!ProcessDocking
  <2> QED
    BY <2>1, <2>2, LeavesKept
<1> QED
  BY <1>1, <1>2, <1>3, <1>4, <1>5

(* A shuttle on autopilot that rests at the station has a countdown, or is *)
(* about to be launched.                                                   *)
THEOREM StillLeavesHolds == Spec /\ []OneAtATime => []StillLeaves
<1>1. Init => RestInv /\ StillLeaves
  BY EmergencyAssumption DEF Init, Ferry!Init, RestInv, Idle, StillLeaves, AtStation
<1>2. HomeInv /\ RestInv /\ StillLeaves /\ [Next]_vars => RestInv' /\ StillLeaves'
  <2> SUFFICES ASSUME HomeInv, RestInv, StillLeaves, [Next]_vars
               PROVE  RestInv' /\ StillLeaves'
    OBVIOUS
  <2>1. FlightInv /\ StandInv
    BY DEF HomeInv
  <2>2. RestInv'
    BY <2>1, RestKept, FerryCalls, FerryFlies DEF Next, vars
  <2>3. CASE UNCHANGED vars
    BY <2>2, <2>3, LeavesKept DEF vars, ferryVars, flight
  <2>4. CASE Next
    BY <2>1, <2>2, <2>4, CallsLeave, FlightsLeave DEF Next
  <2> QED
    BY <2>2, <2>3, <2>4
<1> QED
  BY <1>1, <1>2, HomeHolds, PTL DEF Spec
=============================================================================
