------------------------- MODULE FerryShuttleProofs -------------------------
(***************************************************************************)
(* Ferries keep to the docking protocol, so that what                      *)
(* DockingProgramProofs proves of it holds of them; they are well typed,   *)
(* and never stranded in transit; and a ferry whose launches nobody        *)
(* cancels makes one jump at a time, is where its location says, and is    *)
(* undocked when it leaves, unless it was forced.                          *)
(***************************************************************************)
EXTENDS FerryShuttle, TLAPS

DP == INSTANCE DockingProgramProofs

-----------------------------------------------------------------------------
(* A ferry's calls of its docking program. *)

PlaceKnown == location \in [Ferries -> Places]

(* Every ferry has a berth, so its controller is one that may be docked.   *)
LEMMA FerryRoutes ==
    ASSUME NEW s \in Ferries
    PROVE  s \in Controllers /\ s \in Docking!Shuttles
<1>1. PICK l \in Places : Target[s][l] # NoTag
  BY FerryAssumption
<1>2. <<s, Target[s][l]>> \in Routes /\ <<s, Target[s][l]>>[1] = s
  BY <1>1, FerryAssumption
<1> QED
  BY <1>2, FerryAssumption DEF Docking!Shuttles

(* dock() is a step of the docking protocol, or nothing happens.           *)
LEMMA DockCalls ==
    ASSUME PlaceKnown, NEW s \in Ferries, Dock(s)
    PROVE  [Docking!Next]_dockVars
<1>1. CASE UNCHANGED dockVars
  BY <1>1
<1>2. CASE ~ SkipChecks(s) /\ Docking!InitiateDocking(s, Target[s][location[s]])
  <2> DEFINE r == <<s, Target[s][location[s]]>>
  <2>1. r \in Routes /\ r[1] = s /\ r[2] = Target[s][location[s]]
    BY <1>2, FerryAssumption DEF SkipChecks, PlaceKnown
  <2>2. Docking!InitiateDocking(r[1], r[2])
    BY <1>2, <2>1
  <2> HIDE DEF r
  <2> QED
    BY <2>1, <2>2 DEF Docking!Next, Docking!Abrupt, Docking!Orderly
<1> QED
  BY <1>1, <1>2 DEF Dock

(* So is undock(). *)
LEMMA UndockCalls ==
    ASSUME NEW s \in Ferries, Undock(s)
    PROVE  [Docking!Next]_dockVars
BY FerryRoutes DEF Undock, Docking!Next, Docking!Abrupt, Docking!Orderly

(* So is the force_undock() of move() and cancel_launch(). *)
LEMMA ForceCalls ==
    ASSUME NEW s \in Ferries, ForceIfDocked(s)
    PROVE  [Docking!Next]_dockVars
BY FerryRoutes DEF ForceIfDocked, Docking!Next, Docking!Abrupt

(* So is a step of the processing of docking programs and their loss.      *)
LEMMA MachineCalls ==
    ASSUME NEW c \in Controllers, ProcessDocking(c) \/ DestroyDocking(c)
    PROVE  [Docking!Next]_dockVars
BY DEF ProcessDocking, DestroyDocking, Docking!Next, Docking!Abrupt, Docking!Orderly

(* Every step of the ferries is a step of the docking protocol, or leaves  *)
(* it alone.                                                               *)
LEMMA StepDocks ==
    ASSUME PlaceKnown, [Next]_vars
    PROVE  [Docking!Next]_dockVars /\ PlaceKnown'
<1>1. CASE UNCHANGED vars
  BY <1>1 DEF vars, dockVars, ferryVars, PlaceKnown
<1>2. ASSUME NEW s \in Ferries,
             \/ ForceLaunch(s) \/ LoseConsole(s) \/ Depart(s) \/ Finish(s)
             \/ TravelEnds(s) \/ TimeOut(s) \/ \E i \in DOMAIN jumps[s] : CallOff(s, i)
      PROVE  [Docking!Next]_dockVars /\ PlaceKnown'
  BY <1>2 DEF ForceLaunch, LoseConsole, Depart, Finish, TravelEnds, TimeOut, CallOff,
              dockVars, PlaceKnown
<1>3. ASSUME NEW s \in Ferries, Redock(s) \/ Arrive(s) \/ SetupDock(s)
      PROVE  [Docking!Next]_dockVars /\ PlaceKnown'
  BY <1>3, DockCalls DEF Redock, Arrive, SetupDock, PlaceKnown
<1>4. ASSUME NEW s \in Ferries, Launch(s) \/ CancelLaunch(s)
      PROVE  [Docking!Next]_dockVars /\ PlaceKnown'
  BY <1>4, UndockCalls, ForceCalls DEF Launch, CancelLaunch, PlaceKnown
<1>5. ASSUME NEW s \in Ferries, NEW i \in DOMAIN jumps[s], Leave(s, i) \/ Land(s, i)
      PROVE  [Docking!Next]_dockVars /\ PlaceKnown'
  <2>1. PICK from, to : Move(s, from, to)
    BY <1>5 DEF Leave, Land
  <2>2. PlaceKnown'
    BY <2>1 DEF Move, PlaceKnown
  <2>3. [Docking!Next]_dockVars
    BY <2>1, ForceCalls DEF Move, dockVars
  <2> QED
    BY <2>2, <2>3
<1>6. ASSUME NEW c \in Controllers, ProcessDocking(c) \/ DestroyDocking(c)
      PROVE  [Docking!Next]_dockVars /\ PlaceKnown'
  BY <1>6, MachineCalls DEF ProcessDocking, DestroyDocking, PlaceKnown
<1> QED
  BY <1>1, <1>2, <1>3, <1>4, <1>5, <1>6
     DEF Next, Uncancelled, Calm, Operate, ProcessFerry

(* The ferries, however they are launched, forced and cancelled, implement *)
(* the docking protocol.                                                   *)
THEOREM DockingImplemented == Spec => ImplementsDocking
<1>1. Init => Docking!Init /\ PlaceKnown
  BY DEF Init, PlaceKnown
<1>2. PlaceKnown /\ [Next]_vars => [Docking!Next]_(Docking!vars) /\ PlaceKnown'
  BY StepDocks DEF dockVars, Docking!vars
<1> QED
  BY <1>1, <1>2, PTL DEF Spec, ImplementsDocking, Docking!Spec

-----------------------------------------------------------------------------
(* What is proved of the docking program holds of the ferries'.            *)

(* The two instances of DockingProgram have the same steps.                *)
LEMMA SameRequest ==
    ASSUME NEW c, NEW t, Docking!InitiateDocking(c, t)
    PROVE  DP!InitiateDocking(c, t)
<1>1. ASSUME NEW S, NEW to, NEW from
      PROVE  Docking!DeliverRequest(S, to, from) = DP!DeliverRequest(S, to, from)
  BY DEF Docking!DeliverRequest, DP!DeliverRequest, Docking!Deliver, DP!Deliver,
         Docking!Hears, DP!Hears, Docking!Accepts, DP!Accepts, Docking!Accept,
         DP!Accept, Docking!Is, DP!Is, Docking!OnConfirmDock, DP!OnConfirmDock
<1> QED
  BY <1>1 DEF Docking!InitiateDocking, DP!InitiateDocking

(* The two instances of DockingProgram have the same steps.                *)
LEMMA SameUndock ==
    ASSUME NEW c, Docking!InitiateUndocking(c) \/ Docking!ForceUndock(c)
    PROVE  DP!InitiateUndocking(c) \/ DP!ForceUndock(c)
BY DEF Docking!InitiateUndocking, DP!InitiateUndocking, Docking!ForceUndock,
       DP!ForceUndock, Docking!Deliver, DP!Deliver, Docking!Hears, DP!Hears,
       Docking!Is, DP!Is, Docking!Reset, DP!Reset, Docking!OnDockError,
       DP!OnDockError, Docking!OnRequestUndock, DP!OnRequestUndock

(* The two instances of DockingProgram have the same steps.                *)
LEMMA SameProcess ==
    ASSUME NEW c, NEW ready, Docking!Process(c, ready)
    PROVE  DP!Process(c, ready)
<1>1. \A S : Docking!Repair(S, c) = DP!Repair(S, c)
  BY Zenon DEF Docking!Repair, DP!Repair, Docking!Deliver, DP!Deliver, Docking!Hears,
               DP!Hears, Docking!Is, DP!Is, Docking!Reset, DP!Reset,
               Docking!OnDockError, DP!OnDockError
<1>2. \A S : Docking!Step(S, c, ready) = DP!Step(S, c, ready)
  BY Zenon DEF Docking!Step, DP!Step, Docking!Deliver, DP!Deliver, Docking!Hears,
               DP!Hears, Docking!Is, DP!Is, Docking!Reset, DP!Reset,
               Docking!OnConfirmDock, DP!OnConfirmDock, Docking!OnConfirmUndock,
               DP!OnConfirmUndock, Docking!Report, DP!Report, Docking!FinishDocking,
               DP!FinishDocking, Docking!FinishUndocking, DP!FinishUndocking,
               Docking!Docked, DP!Docked, Docking!Reported, DP!Reported
<1>3. \A p : Docking!Resend(p) = DP!Resend(p)
  BY Zenon DEF Docking!Resend, DP!Resend
<1> QED
  BY <1>1, <1>2, <1>3 DEF Docking!Process, DP!Process

(* The two instances of DockingProgram have the same specification.        *)
LEMMA SameSpec == Docking!Spec => DP!Spec
<1>1. Docking!Init => DP!Init
  BY DEF Docking!Init, DP!Init, Docking!NewProgram, DP!NewProgram
<1>2. [Docking!Next]_(Docking!vars) => [DP!Next]_(DP!vars)
  BY SameRequest, SameUndock, SameProcess
     DEF Docking!Next, DP!Next, Docking!Abrupt, DP!Abrupt, Docking!Orderly, DP!Orderly,
         Docking!vars, DP!vars, Docking!Destroy, DP!Destroy, Docking!Shuttles, DP!Shuttles
<1> QED
  BY <1>1, <1>2, PTL DEF Docking!Spec, DP!Spec

(* Whatever the ferries do, a berth and the ferry docked to it agree that  *)
(* they are.                                                               *)
THEOREM FerriesAgree == Spec => []BerthsAgree
<1>1. DP!Spec => []DP!PartnersAgree
  BY DP!Agreement, DockingAssumption DEF DP!Agreement
<1>2. DP!PartnersAgree => BerthsAgree
  BY DEF BerthsAgree, Docking!PartnersAgree, DP!PartnersAgree, Docking!Bound, DP!Bound
<1> QED
  BY <1>1, <1>2, DockingImplemented, SameSpec, PTL DEF ImplementsDocking

-----------------------------------------------------------------------------
(* One jump at a time.  The invariant says which sequences jumps holds, so *)
(* that what is appended to and removed from them can be counted.          *)

Statuses == {"idle", "warmup", "intransit"}
JumpsKnown ==
    /\ PlaceKnown
    /\ moving_status \in [Ferries -> Statuses]
    /\ jumps \in [Ferries -> Seq(Jump)]
JInv == JumpsKnown /\ OneJump

(* Taking the only element out of a sequence leaves nothing. *)
LEMMA RemoveOnly ==
    ASSUME NEW T, NEW q \in Seq(T), Len(q) <= 1, NEW i \in DOMAIN q
    PROVE  RemoveAt(q, i) = << >> /\ Len(q) = 1 /\ i = 1
<1>1. Len(q) = 1 /\ i = 1
  OBVIOUS
<1>2. SubSeq(q, 1, 0) = << >> /\ SubSeq(q, 2, 1) = << >>
  OBVIOUS
<1>3. RemoveAt(q, i) = SubSeq(q, 1, 0) \o SubSeq(q, 2, 1)
  BY <1>1 DEF RemoveAt
<1> QED
  BY <1>1, <1>2, <1>3

(* Only warm jumps are called off, and only while no jump is on; while     *)
(* nobody cancels there is none.                                           *)
LEMMA NoCallOff ==
    ASSUME JInv, NEW s \in Ferries, NEW i \in DOMAIN jumps[s]
    PROVE  ~ CallOff(s, i)
<1>1. jumps[s] \in Seq(Jump) /\ Len(jumps[s]) <= 1
  BY DEF JInv, JumpsKnown, OneJump
<1>2. Len(jumps[s]) = 1
  BY <1>1, RemoveOnly
<1> QED
  BY <1>2 DEF JInv, OneJump, CallOff

(* A jump begins only while there is none. *)
LEMMA DepartJumps ==
    ASSUME JInv, NEW s \in Ferries, Depart(s)
    PROVE  JInv'
<1>1. PICK forced \in BOOLEAN : StartJump(s, forced)
  BY DEF Depart
<1>2. CASE moving_status[s] # "idle"
  BY <1>1, <1>2 DEF StartJump, Depart, JInv, JumpsKnown, PlaceKnown, OneJump
<1>3. CASE moving_status[s] = "idle"
  <2> DEFINE j == [from |-> location[s], to |-> 1 - location[s], left |-> FALSE,
                   forced |-> forced, cancelled |-> FALSE]
  <2>1. /\ moving_status' = [moving_status EXCEPT ![s] = "warmup"]
        /\ jumps' = [jumps EXCEPT ![s] = Append(@, j)]
    BY <1>1, <1>3 DEF StartJump
  <2>2. location[s] \in Places /\ 1 - location[s] \in Places
    BY DEF JInv, JumpsKnown, PlaceKnown, Places
  <2>3. j \in Jump
    BY <2>2 DEF Jump
  <2> HIDE DEF j
  <2>4. jumps[s] \in Seq(Jump) /\ Len(jumps[s]) = 0
    <3>1. jumps[s] \in Seq(Jump)
      BY DEF JInv, JumpsKnown
    <3>2. Len(jumps[s]) <= 1 /\ Len(jumps[s]) # 1
      BY <1>3 DEF JInv, OneJump
    <3>3. Len(jumps[s]) \in Nat
      BY <3>1
    <3>4. \A n \in Nat : n <= 1 /\ n # 1 => n = 0
      OBVIOUS
    <3> QED
      BY <3>1, <3>2, <3>3, <3>4, Zenon
  <2>5. Append(jumps[s], j) \in Seq(Jump) /\ Len(Append(jumps[s], j)) = 1
    BY <2>3, <2>4
  <2>6. JumpsKnown'
    BY <2>1, <2>5 DEF JInv, JumpsKnown, PlaceKnown, Depart, Statuses
  <2>7. OneJump'
    <3> SUFFICES ASSUME NEW t \in Ferries
                 PROVE  /\ Len(jumps'[t]) <= 1
                        /\ Len(jumps'[t]) = 1 <=> moving_status'[t] # "idle"
      BY DEF OneJump
    <3>1. CASE t = s
      BY <2>1, <2>5, <3>1 DEF JInv, JumpsKnown
    <3>2. CASE t # s
      BY <2>1, <3>2 DEF JInv, JumpsKnown, OneJump
    <3> QED
      BY <3>1, <3>2
  <2> QED
    BY <2>6, <2>7 DEF JInv
<1> QED
  BY <1>2, <1>3

(* A jump that leaves for good is the only one, and then there is none.    *)
LEMMA OverJumps ==
    ASSUME JInv, NEW s \in Ferries, NEW i \in DOMAIN jumps[s],
           moving_status' = [moving_status EXCEPT ![s] = "idle"],
           jumps' = [jumps EXCEPT ![s] = RemoveAt(@, i)],
           PlaceKnown'
    PROVE  JInv'
<1>1. RemoveAt(jumps[s], i) = << >>
  BY RemoveOnly DEF JInv, JumpsKnown, OneJump
<1>2. JumpsKnown'
  BY <1>1 DEF JInv, JumpsKnown, Statuses
<1>3. ASSUME NEW t \in Ferries
      PROVE  Len(jumps'[t]) <= 1 /\ (Len(jumps'[t]) = 1 <=> moving_status'[t] # "idle")
  BY <1>1, <1>3 DEF JInv, JumpsKnown, OneJump
<1> QED
  BY <1>2, <1>3 DEF JInv, OneJump

(* A long jump that leaves is still the only one. *)
LEMMA AwayJumps ==
    ASSUME JInv, NEW s \in Ferries, NEW i \in DOMAIN jumps[s],
           moving_status' = [moving_status EXCEPT ![s] = "intransit"],
           jumps' = [jumps EXCEPT ![s][i].left = TRUE],
           PlaceKnown'
    PROVE  JInv'
<1> DEFINE q == jumps[s]
           r == [q EXCEPT ![i].left = TRUE]
<1>1. q \in Seq(Jump) /\ Len(q) = 1 /\ i = 1
  BY RemoveOnly DEF JInv, JumpsKnown, OneJump
<1>2. q[1] \in Jump
  BY <1>1
<1>3. [q[1] EXCEPT !.left = TRUE] \in Jump
  BY <1>2, Zenon DEF Jump
<1>4. r \in Seq(Jump) /\ Len(r) = 1
  BY <1>1, <1>3
<1>5. jumps' = [jumps EXCEPT ![s] = r]
  OBVIOUS
<1> HIDE DEF r
<1>6. JumpsKnown'
  BY <1>4, <1>5 DEF JInv, JumpsKnown, Statuses
<1>7. ASSUME NEW t \in Ferries
      PROVE  Len(jumps'[t]) <= 1 /\ (Len(jumps'[t]) = 1 <=> moving_status'[t] # "idle")
  BY <1>4, <1>5, <1>7 DEF JInv, JumpsKnown, OneJump
<1> QED
  BY <1>6, <1>7 DEF JInv, OneJump

(* Every step but a cancelled launch keeps the invariant. *)
LEMMA StepJumps ==
    ASSUME JInv, [Uncancelled]_vars
    PROVE  JInv'
<1>1. PlaceKnown'
  BY StepDocks DEF JInv, JumpsKnown, Next
<1>2. CASE UNCHANGED <<moving_status, jumps>>
  BY <1>1, <1>2 DEF JInv, JumpsKnown, OneJump
<1>3. ASSUME NEW s \in Ferries, NEW i \in DOMAIN jumps[s], Leave(s, i) \/ Land(s, i)
      PROVE  JInv'
  BY <1>1, <1>3, OverJumps, AwayJumps DEF Leave, Land
<1>4. ASSUME NEW s \in Ferries, Operate(s) \/ SetupDock(s)
      PROVE  JInv'
  BY <1>2, <1>3, <1>4, DepartJumps, NoCallOff
     DEF Operate, SetupDock, ProcessFerry, Launch, ForceLaunch, LoseConsole, Arrive,
         Finish, Redock, TravelEnds, TimeOut
<1>5. ASSUME NEW c \in Controllers, ProcessDocking(c) \/ DestroyDocking(c)
      PROVE  JInv'
  BY <1>2, <1>5 DEF ProcessDocking, DestroyDocking
<1> QED
  BY <1>2, <1>4, <1>5 DEF Uncancelled, Calm, vars, ferryVars

(* While no launch is cancelled a ferry makes at most one jump at a time,  *)
(* and moving_status tells whether it is making one.                       *)
THEOREM OneJumpHolds == UncancelledSpec => []OneJump
<1>1. Init => JInv
  BY DEF Init, JInv, JumpsKnown, PlaceKnown, OneJump, Statuses
<1>2. JInv /\ [Uncancelled]_vars => JInv'
  BY StepJumps
<1> QED
  BY <1>1, <1>2, PTL DEF UncancelledSpec, JInv

-----------------------------------------------------------------------------
(* Types.  What the jumps of a ferry become when one is begun, cancelled,  *)
(* leaves or ends.                                                         *)

HasLeft(q) == \E i \in DOMAIN q : q[i].left
CancelAll(q) == [i \in DOMAIN q |-> [q[i] EXCEPT !.cancelled = TRUE]]

(* The elements that are left when one is taken out of a sequence.         *)
LEMMA RemoveAtProps ==
    ASSUME NEW T, NEW q \in Seq(T), NEW i \in DOMAIN q
    PROVE  /\ RemoveAt(q, i) \in Seq(T)
           /\ Len(RemoveAt(q, i)) = Len(q) - 1
           /\ \A k \in 1 .. Len(q) - 1 :
                 RemoveAt(q, i)[k] = IF k < i THEN q[k] ELSE q[k + 1]
<1> DEFINE a == SubSeq(q, 1, i - 1)
           b == SubSeq(q, i + 1, Len(q))
<1>1. Len(q) \in Nat /\ i \in 1 .. Len(q)
  OBVIOUS
<1>2. a \in Seq(T) /\ Len(a) = i - 1 /\ \A k \in 1 .. i - 1 : a[k] = q[k]
  BY <1>1
<1>3. b \in Seq(T) /\ Len(b) = Len(q) - i /\ \A k \in 1 .. Len(q) - i : b[k] = q[i + k]
  BY <1>1
<1>4. RemoveAt(q, i) = a \o b
  BY DEF RemoveAt
<1> HIDE DEF a, b
<1>5. /\ a \o b \in Seq(T) /\ Len(a \o b) = Len(a) + Len(b)
      /\ \A k \in 1 .. Len(a) + Len(b) :
            (a \o b)[k] = IF k <= Len(a) THEN a[k] ELSE b[k - Len(a)]
  BY <1>2, <1>3
<1>6. ASSUME NEW k \in 1 .. Len(q) - 1
      PROVE  (a \o b)[k] = IF k < i THEN q[k] ELSE q[k + 1]
  <2>1. /\ k \in 1 .. Len(a) + Len(b) /\ k \in Nat /\ i \in Nat
        /\ k < i => k <= Len(a) /\ k \in 1 .. i - 1
        /\ ~ (k < i) => /\ ~ (k <= Len(a)) /\ k - Len(a) \in 1 .. Len(q) - i
                       /\ i + (k - Len(a)) = k + 1
    BY <1>1, <1>2, <1>3
  <2>2. CASE k < i
    BY <1>2, <1>5, <2>1, <2>2
  <2>3. CASE ~ (k < i)
    <3>1. (a \o b)[k] = b[k - Len(a)]
      BY <1>5, <2>1, <2>3
    <3>2. b[k - Len(a)] = q[i + (k - Len(a))]
      BY <1>3, <2>1, <2>3
    <3> QED
      BY <2>1, <2>3, <3>1, <3>2
  <2> QED
    BY <2>2, <2>3
<1> QED
  BY <1>1, <1>2, <1>3, <1>4, <1>5, <1>6

(* A jump that is appended. *)
LEMMA BeginJump ==
    ASSUME NEW q \in Seq(Jump), NEW j \in Jump
    PROVE  /\ Append(q, j) \in Seq(Jump) /\ Len(Append(q, j)) = Len(q) + 1
           /\ HasLeft(q) => HasLeft(Append(q, j))
<1>1. /\ Append(q, j) \in Seq(Jump) /\ Len(Append(q, j)) = Len(q) + 1
      /\ \A i \in DOMAIN q : i \in DOMAIN Append(q, j) /\ Append(q, j)[i] = q[i]
  OBVIOUS
<1> QED
  BY <1>1 DEF HasLeft

(* Jumps that are cancelled. *)
LEMMA CancelJumps ==
    ASSUME NEW q \in Seq(Jump)
    PROVE  /\ CancelAll(q) \in Seq(Jump) /\ Len(CancelAll(q)) = Len(q)
           /\ HasLeft(q) => HasLeft(CancelAll(q))
<1> DEFINE r == CancelAll(q)
<1>1. Len(q) \in Nat /\ DOMAIN q = 1 .. Len(q)
  OBVIOUS
<1>2. ASSUME NEW i \in DOMAIN q
      PROVE  r[i] \in Jump /\ r[i].left = q[i].left
  <2>1. q[i] \in Jump
    OBVIOUS
  <2>2. r[i] = [q[i] EXCEPT !.cancelled = TRUE]
    BY DEF CancelAll
  <2> QED
    BY <2>1, <2>2 DEF Jump
<1>3. DOMAIN r = 1 .. Len(q) /\ r = [i \in 1 .. Len(q) |-> r[i]]
  BY <1>1 DEF CancelAll
<1> HIDE DEF r
<1>4. r \in Seq(Jump) /\ Len(r) = Len(q)
  BY <1>1, <1>2, <1>3
<1> QED
  BY <1>1, <1>2, <1>3, <1>4 DEF HasLeft, r

(* A jump that leaves. *)
LEMMA LeaveJump ==
    ASSUME NEW q \in Seq(Jump), NEW i \in DOMAIN q
    PROVE  LET r == [q EXCEPT ![i].left = TRUE]
           IN  r \in Seq(Jump) /\ Len(r) = Len(q) /\ HasLeft(r)
<1> DEFINE j == [q[i] EXCEPT !.left = TRUE]
           r == [q EXCEPT ![i].left = TRUE]
<1>1. q[i] \in Jump
  OBVIOUS
<1>2. j \in Jump /\ j.left
  BY <1>1 DEF Jump
<1>3. r = [q EXCEPT ![i] = j]
  OBVIOUS
<1> HIDE DEF j
<1>4. [q EXCEPT ![i] = j] \in Seq(Jump) /\ Len([q EXCEPT ![i] = j]) = Len(q)
  BY <1>2
<1>5. i \in DOMAIN [q EXCEPT ![i] = j] /\ [q EXCEPT ![i] = j][i] = j
  OBVIOUS
<1> QED
  BY <1>2, <1>3, <1>4, <1>5 DEF HasLeft

(* A jump that is over, or called off. *)
LEMMA DropJump ==
    ASSUME NEW q \in Seq(Jump), NEW i \in DOMAIN q
    PROVE  /\ RemoveAt(q, i) \in Seq(Jump) /\ Len(RemoveAt(q, i)) = Len(q) - 1
           /\ ~ q[i].left /\ HasLeft(q) => HasLeft(RemoveAt(q, i))
<1> DEFINE r == RemoveAt(q, i)
<1>1. /\ r \in Seq(Jump) /\ Len(r) = Len(q) - 1
      /\ \A k \in 1 .. Len(q) - 1 : r[k] = IF k < i THEN q[k] ELSE q[k + 1]
  BY RemoveAtProps
<1>2. Len(q) \in Nat /\ DOMAIN q = 1 .. Len(q) /\ DOMAIN r = 1 .. Len(q) - 1
  BY <1>1
<1> HIDE DEF r
<1>3. ASSUME ~ q[i].left, NEW k \in DOMAIN q, q[k].left
      PROVE  HasLeft(r)
  <2>1. k # i
    BY <1>3
  <2>2. CASE k < i
    BY <1>1, <1>2, <1>3, <2>2 DEF HasLeft
  <2>3. CASE k > i
    <3>1. k - 1 \in DOMAIN r /\ ~ (k - 1 < i) /\ (k - 1) + 1 = k
      BY <1>2, <2>3
    <3>2. r[k - 1] = q[k]
      BY <1>1, <1>2, <3>1
    <3> QED
      BY <1>3, <3>1, <3>2 DEF HasLeft
  <2> QED
    BY <1>2, <2>1, <2>2, <2>3
<1> QED
  BY <1>1, <1>3 DEF HasLeft, r

(* The variables of the ferries, but their jumps, hold values of their     *)
(* kinds.                                                                  *)
ProcessStates == {"idle", "wait_launch", "force_launch", "wait_arrive", "wait_finish"}
StatesKnown ==
    /\ PlaceKnown
    /\ moving_status \in [Ferries -> Statuses]
    /\ process_state \in [Ferries -> ProcessStates]
    /\ area \in [Ferries -> Places \cup {Transit}]
    /\ in_use \in [Ferries -> BOOLEAN]
    /\ arriving \in [Ferries -> BOOLEAN]
    /\ timed_out \in [Ferries -> BOOLEAN]
    /\ redocks \in [Ferries -> 0 .. MaxRedocks]
    /\ setup \subseteq Ferries

(* A ferry's jumps, and that one of them has left if it is in transit.     *)
JumpsFit(q, place) ==
    /\ q \in Seq(Jump) /\ Len(q) <= MaxJumps
    /\ place = Transit => HasLeft(q)

SInv == /\ StatesKnown
        /\ jumps \in [Ferries -> Seq(Jump)]
        /\ \A s \in Ferries : JumpsFit(jumps[s], area[s])

(* The jumps of one ferry change. *)
LEMMA OneFerryJumps ==
    ASSUME SInv, NEW s \in Ferries, NEW q, jumps' = [jumps EXCEPT ![s] = q],
           StatesKnown', JumpsFit(q, area'[s]),
           \A u \in Ferries \ {s} : area'[u] = area[u]
    PROVE  SInv'
<1>1. jumps' \in [Ferries -> Seq(Jump)]
  BY DEF SInv, JumpsFit
<1>2. ASSUME NEW u \in Ferries
      PROVE  JumpsFit(jumps'[u], area'[u])
  BY DEF SInv
<1> QED
  BY <1>1, <1>2 DEF SInv

(* A launch begins a jump. *)
LEMMA DepartStates ==
    ASSUME SInv, NEW s \in Ferries, Depart(s)
    PROVE  SInv'
<1>1. PICK forced \in BOOLEAN : StartJump(s, forced)
  BY DEF Depart
<1>2. CASE moving_status[s] # "idle"
  BY <1>1, <1>2 DEF StartJump, Depart, Running, SInv, StatesKnown, PlaceKnown, ProcessStates
<1>3. CASE moving_status[s] = "idle"
  <2> DEFINE j == [from |-> location[s], to |-> 1 - location[s], left |-> FALSE,
                   forced |-> forced, cancelled |-> FALSE]
             q == Append(jumps[s], j)
  <2>1. /\ Len(jumps[s]) < MaxJumps
        /\ moving_status' = [moving_status EXCEPT ![s] = "warmup"]
        /\ jumps' = [jumps EXCEPT ![s] = Append(@, j)]
    BY <1>1, <1>3 DEF StartJump
  <2>2. location[s] \in Places /\ 1 - location[s] \in Places
    BY DEF SInv, StatesKnown, PlaceKnown, Places
  <2>3. j \in Jump
    BY <2>2 DEF Jump
  <2>4. jumps' = [jumps EXCEPT ![s] = q]
    BY <2>1
  <2> HIDE DEF j
  <2>5. jumps[s] \in Seq(Jump) /\ JumpsFit(jumps[s], area[s])
    BY DEF SInv
  <2>6. q \in Seq(Jump) /\ Len(q) = Len(jumps[s]) + 1 /\ (HasLeft(jumps[s]) => HasLeft(q))
    BY <2>3, <2>5, BeginJump
  <2>7. Len(q) <= MaxJumps
    BY <2>1, <2>5, <2>6, FerryAssumption
  <2> HIDE DEF q
  <2>8. JumpsFit(q, area[s])
    BY <2>5, <2>6, <2>7 DEF JumpsFit
  <2>9. StatesKnown' /\ area' = area
    BY <2>1 DEF Depart, Running, SInv, StatesKnown, PlaceKnown, ProcessStates, Statuses
  <2> QED
    BY <2>4, <2>8, <2>9, OneFerryJumps
<1> QED
  BY <1>2, <1>3

(* A cancelled launch marks the jumps. *)
LEMMA CancelStates ==
    ASSUME SInv, NEW s \in Ferries, CancelLaunch(s)
    PROVE  SInv'
<1> DEFINE q == CancelAll(jumps[s])
<1>1. jumps' = [jumps EXCEPT ![s] = q]
  BY DEF CancelLaunch, CancelAll
<1>2. JumpsFit(jumps[s], area[s])
  BY DEF SInv
<1>3. q \in Seq(Jump) /\ Len(q) = Len(jumps[s]) /\ (HasLeft(jumps[s]) => HasLeft(q))
  BY <1>2, CancelJumps DEF JumpsFit
<1> HIDE DEF q
<1>4. JumpsFit(q, area[s])
  BY <1>2, <1>3 DEF JumpsFit
<1>5. redocks[s] + 1 \in 0 .. MaxRedocks
  BY FerryAssumption DEF CancelLaunch, SInv, StatesKnown
<1>6. StatesKnown' /\ area' = area
  BY <1>5 DEF CancelLaunch, Running, SInv, StatesKnown, PlaceKnown, ProcessStates, Statuses
<1> QED
  BY <1>1, <1>4, <1>6, OneFerryJumps

(* move() changes the area and the location of one ferry. *)
LEMMA MoveStates ==
    ASSUME SInv, NEW s \in Ferries, NEW from, NEW to \in Places \cup {Transit},
           Move(s, from, to)
    PROVE  /\ PlaceKnown'
           /\ area' \in [Ferries -> Places \cup {Transit}]
           /\ \A u \in Ferries \ {s} : area'[u] = area[u]
           /\ area'[s] \in {area[s], to}
           /\ area[s] = from => area'[s] = to
BY DEF SInv, StatesKnown, PlaceKnown, Move

(* A jump is called off, leaves or ends. *)
LEMMA JumpStates ==
    ASSUME SInv, NEW s \in Ferries, NEW i \in DOMAIN jumps[s],
           CallOff(s, i) \/ Leave(s, i) \/ Land(s, i)
    PROVE  SInv'
<1> DEFINE q == jumps[s]
           out == RemoveAt(q, i)
           away == [q EXCEPT ![i].left = TRUE]
<1>1. q \in Seq(Jump) /\ JumpsFit(q, area[s]) /\ Len(q) \in Nat /\ q[i] \in Jump
  BY DEF SInv
<1>2. /\ out \in Seq(Jump) /\ Len(out) = Len(q) - 1
      /\ ~ q[i].left /\ HasLeft(q) => HasLeft(out)
  BY <1>1, DropJump
<1>3. away \in Seq(Jump) /\ Len(away) = Len(q) /\ HasLeft(away)
  BY <1>1, LeaveJump
<1>4. Transit \notin Places /\ q[i].from \in Places /\ q[i].to \in Places
  BY <1>1 DEF Transit, Places, Jump
<1>5. Len(out) <= MaxJumps /\ Len(away) <= MaxJumps
  BY <1>1, <1>2, <1>3, FerryAssumption DEF JumpsFit
<1>6. CASE CallOff(s, i)
  <2>1. jumps' = [jumps EXCEPT ![s] = out] /\ ~ q[i].left /\ area' = area
    BY <1>6 DEF CallOff, Warm
  <2>2. StatesKnown'
    BY <1>6 DEF CallOff, Running, SInv, StatesKnown, PlaceKnown
  <2> HIDE DEF out, q
  <2>3. JumpsFit(out, area'[s])
    BY <1>1, <1>2, <1>5, <2>1 DEF JumpsFit
  <2> QED
    BY <2>1, <2>2, <2>3, OneFerryJumps
<1>7. CASE Leave(s, i) /\ s \in LongJump
  <2>1. jumps' = [jumps EXCEPT ![s] = away] /\ Move(s, q[i].from, Transit)
    BY <1>7 DEF Leave
  <2>2. /\ PlaceKnown' /\ area' \in [Ferries -> Places \cup {Transit}]
        /\ \A u \in Ferries \ {s} : area'[u] = area[u]
    BY <2>1, MoveStates
  <2>3. StatesKnown'
    BY <1>7, <2>2 DEF Leave, Running, SInv, StatesKnown, Statuses
  <2> HIDE DEF away, q
  <2>4. JumpsFit(away, area'[s])
    BY <1>3, <1>5 DEF JumpsFit
  <2> QED
    BY <2>1, <2>2, <2>3, <2>4, OneFerryJumps
<1>8. CASE Leave(s, i) /\ s \notin LongJump
  <2>1. jumps' = [jumps EXCEPT ![s] = out] /\ Move(s, q[i].from, q[i].to) /\ ~ q[i].left
    BY <1>8 DEF Leave, Warm
  <2>2. /\ PlaceKnown' /\ area' \in [Ferries -> Places \cup {Transit}]
        /\ \A u \in Ferries \ {s} : area'[u] = area[u]
        /\ area'[s] \in {area[s], q[i].to}
    BY <1>4, <2>1, MoveStates
  <2>3. StatesKnown'
    BY <1>8, <2>2 DEF Leave, Running, SInv, StatesKnown, Statuses
  <2> HIDE DEF out, q
  <2>4. JumpsFit(out, area'[s])
    BY <1>1, <1>2, <1>4, <1>5, <2>1, <2>2 DEF JumpsFit
  <2> QED
    BY <2>1, <2>2, <2>3, <2>4, OneFerryJumps
<1>9. CASE Land(s, i)
  <2>1. jumps' = [jumps EXCEPT ![s] = out] /\ Move(s, Transit, q[i].to)
    BY <1>9 DEF Land
  <2>2. /\ PlaceKnown' /\ area' \in [Ferries -> Places \cup {Transit}]
        /\ \A u \in Ferries \ {s} : area'[u] = area[u]
        /\ area'[s] \in {area[s], q[i].to}
        /\ area[s] = Transit => area'[s] = q[i].to
    BY <1>4, <2>1, MoveStates
  <2>3. StatesKnown'
    BY <1>9, <2>2 DEF Land, Running, SInv, StatesKnown, Statuses
  <2> HIDE DEF out, q
  <2>4. area'[s] # Transit
    BY <1>4, <2>2
  <2>5. JumpsFit(out, area'[s])
    BY <1>2, <1>5, <2>4 DEF JumpsFit
  <2> QED
    BY <2>1, <2>2, <2>3, <2>5, OneFerryJumps
<1> QED
  BY <1>6, <1>7, <1>8, <1>9

(* Every other step of a ferry leaves the areas and the jumps alone.       *)
LEMMA QuietStates ==
    ASSUME SInv, NEW s \in Ferries,
           \/ SetupDock(s) \/ Launch(s) \/ ForceLaunch(s) \/ LoseConsole(s)
           \/ Arrive(s) \/ Finish(s) \/ Redock(s) \/ TravelEnds(s) \/ TimeOut(s)
    PROVE  SInv'
<1>1. UNCHANGED <<area, jumps>>
  BY DEF SetupDock, Launch, ForceLaunch, LoseConsole, Arrive, Finish, Redock,
         TravelEnds, TimeOut
<1>2. redocks[s] > 0 => redocks[s] - 1 \in 0 .. MaxRedocks
  BY FerryAssumption DEF SInv, StatesKnown
<1>3. StatesKnown'
  <2> USE DEF SInv, StatesKnown, PlaceKnown, ProcessStates, Running
  <2>1. CASE SetupDock(s)
    BY <2>1 DEF SetupDock, Dock
  <2>2. CASE Launch(s) \/ ForceLaunch(s) \/ LoseConsole(s)
    BY <2>2 DEF Launch, ForceLaunch, LoseConsole
  <2>3. CASE Arrive(s) \/ Finish(s)
    BY <2>3 DEF Arrive, Finish, Dock
  <2>4. CASE Redock(s)
    BY <1>2, <2>4 DEF Redock, Dock
  <2>5. CASE TravelEnds(s) \/ TimeOut(s)
    BY <2>5 DEF TravelEnds, TimeOut
  <2> QED
    BY <2>1, <2>2, <2>3, <2>4, <2>5
<1> QED
  BY <1>1, <1>3 DEF SInv

LEMMA StepStates ==
    ASSUME SInv, [Next]_vars
    PROVE  SInv'
<1>1. CASE UNCHANGED ferryVars
  BY <1>1 DEF ferryVars, SInv, StatesKnown, PlaceKnown
<1>2. ASSUME NEW s \in Ferries, SetupDock(s) \/ Operate(s)
      PROVE  SInv'
  BY <1>2, QuietStates, DepartStates, JumpStates DEF Operate, ProcessFerry
<1>3. ASSUME NEW c \in Controllers, ProcessDocking(c) \/ DestroyDocking(c)
      PROVE  SInv'
  BY <1>1, <1>3 DEF ProcessDocking, DestroyDocking, Running, ferryVars
<1> QED
  BY <1>1, <1>2, <1>3, CancelStates DEF Next, Uncancelled, Calm, vars

LEMMA InitStates == Init => SInv
<1> SUFFICES ASSUME Init PROVE SInv
  OBVIOUS
<1>1. StatesKnown
  BY FerryAssumption DEF Init, StatesKnown, PlaceKnown, ProcessStates, Statuses
<1>2. << >> \in Seq(Jump) /\ Len(<< >>) = 0 /\ Transit \notin Places
  BY DEF Transit, Places
<1> QED
  BY <1>1, <1>2, FerryAssumption DEF Init, SInv, JumpsFit, PlaceKnown, StatesKnown

(* The ferries and their docking programs hold values of their kinds.      *)
THEOREM FerryTypes == Spec => []TypeOK
<1>1. Spec => []SInv
  <2>1. SInv /\ [Next]_vars => SInv'
    BY StepStates
  <2> QED
    BY <2>1, InitStates, PTL DEF Spec
<1>2. DP!Spec => []DP!TypeOK
  BY DP!TypeCorrect, DockingAssumption DEF DP!TypeCorrect
<1>3. SInv /\ DP!TypeOK => TypeOK
  BY DEF SInv, StatesKnown, PlaceKnown, JumpsFit, Statuses, ProcessStates, TypeOK,
         Docking!TypeOK, DP!TypeOK, Docking!Program, DP!Program, Docking!DockStates,
         DP!DockStates, Docking!Modes, DP!Modes
<1> QED
  BY <1>1, <1>2, <1>3, DockingImplemented, SameSpec, PTL DEF ImplementsDocking

(* However launches are forced and cancelled, nobody is left in transit.   *)
THEOREM NobodyStranded == Spec => []NotStranded
<1>1. SInv /\ [Next]_vars => SInv'
  BY StepStates
<1>2. SInv => NotStranded
  BY DEF SInv, JumpsFit, NotStranded, HasLeft
<1> QED
  BY <1>1, <1>2, InitStates, PTL DEF Spec

-----------------------------------------------------------------------------
(* Where a ferry is and what it is docked to, while no launch is           *)
(* cancelled.  Between the steps that the properties speak of the          *)
(* invariant knows where the jump under way goes, and that a ferry whose   *)
(* launch was not forced stays undocked through its warmup.                *)

JumpFits(s, j) ==
    /\ setup = {}
    /\ j.from = location[s] /\ j.to = 1 - location[s]
    /\ j.left => area[s] = Transit /\ Undocked(s)
    /\ ~ j.left => area[s] = location[s] /\ (j.forced \/ Undocked(s))

Placed(s) ==
    /\ redocks[s] = 0
    /\ prog[s].control_mode # "server"
    /\ ~ Undocked(s) => prog[s].tag_target = Target[s][location[s]]
    /\ jumps[s] = << >> => area[s] = location[s]
    /\ \A i \in DOMAIN jumps[s] : JumpFits(s, jumps[s][i])

LInv == DP!IInv /\ SInv /\ JInv /\ \A s \in Ferries : Placed(s)

(* force_undock() leaves the ferry undocked. *)
LEMMA ForceUndocks ==
    ASSUME DP!IInv, NEW s \in Ferries, ForceIfDocked(s)
    PROVE  prog'[s].dock_state = "undocked"
<1> DEFINE t == prog[s].tag_target
           told == Docking!Deliver(prog, t, s, Docking!OnDockError)
<1>1. CASE Undocked(s)
  BY <1>1 DEF ForceIfDocked, Undocked, dockVars
<1>2. CASE ~ Undocked(s)
  <2>1. /\ prog \in [Controllers -> DP!Program] /\ s \in Controllers
        /\ prog[s] \in DP!Program
    BY FerryRoutes DEF DP!IInv, DP!TypeOK
  <2>2. /\ \/ told = prog
           \/ t # s /\ told = [prog EXCEPT ![t] = Docking!OnDockError(prog[t], s)]
        /\ prog' = [told EXCEPT ![s] = Docking!Reset(@)]
    BY <1>2 DEF ForceIfDocked, Docking!ForceUndock, Docking!Deliver, Docking!Hears
  <2> HIDE DEF told
  <2>3. prog'[s] = Docking!Reset(prog[s])
    BY <2>1, <2>2
  <2>4. ASSUME NEW p \in DP!Program PROVE Docking!Reset(p).dock_state = "undocked"
    BY DEF DP!Program, Docking!Reset
  <2> QED
    BY <2>1, <2>3, <2>4
<1> QED
  BY <1>1, <1>2

(* Ends that nothing is done to are kept. *)
LEMMA SameKept ==
    ASSUME NEW m, prog'[m] = prog[m]
    PROVE  DP!EndKept(m)
BY DEF DP!EndKept, DP!Bound

(* Undocking, by force or not, keeps the ends. *)
LEMMA UndockKeeps ==
    ASSUME DP!IInv, NEW s \in Ferries, Undock(s) \/ ForceIfDocked(s),
           NEW m \in Controllers
    PROVE  DP!EndKept(m)
<1>1. CASE UNCHANGED dockVars
  BY <1>1, SameKept DEF dockVars
<1>2. CASE Docking!InitiateUndocking(s) \/ Docking!ForceUndock(s)
  BY <1>2, SameUndock, FerryRoutes, DP!CallsKeepEnds, DockingAssumption DEF DP!CallsKeepEnds
<1> QED
  BY <1>1, <1>2 DEF Undock, ForceIfDocked

(* So do the machines. *)
LEMMA MachineKeeps ==
    ASSUME DP!IInv, NEW c \in Controllers, ProcessDocking(c) \/ DestroyDocking(c),
           NEW m \in Controllers
    PROVE  DP!EndKept(m)
<1>1. CASE DestroyDocking(c)
  BY <1>1, SameKept DEF DestroyDocking, Docking!Destroy
<1>2. CASE ProcessDocking(c)
  <2>1. PICK ready \in BOOLEAN : DP!Process(c, ready)
    BY <1>2, SameProcess DEF ProcessDocking
  <2> QED
    BY <2>1, DP!CallsKeepEnds, DockingAssumption DEF DP!CallsKeepEnds
<1> QED
  BY <1>1, <1>2

(* dock() binds the ferry to the berth where it is, and no other ferry is  *)
(* a berth.                                                                *)
LEMMA DockBinds ==
    ASSUME DP!IInv, PlaceKnown, NEW s \in Ferries, Dock(s)
    PROVE  /\ \/ prog' = prog
              \/ /\ prog'[s].tag_target = Target[s][location[s]]
                 /\ prog'[s].control_mode = "client"
           /\ \A u \in Ferries \ {s} : prog'[u] = prog[u]
<1>1. CASE UNCHANGED dockVars
  BY <1>1 DEF dockVars
<1>2. CASE ~ SkipChecks(s) /\ Docking!InitiateDocking(s, Target[s][location[s]])
  <2> DEFINE t == Target[s][location[s]]
  <2>1. t \in Controllers /\ t \notin Ferries
    BY <1>2, FerryAssumption DEF SkipChecks, PlaceKnown
  <2>2. DP!InitiateDocking(s, t)
    BY <1>2, SameRequest
  <2> HIDE DEF t
  <2>3. /\ prog'[s].tag_target = t /\ prog'[s].control_mode = "client"
        /\ \A m \in Controllers \ {s, t} : prog'[m] = prog[m]
    BY <2>1, <2>2, FerryRoutes, DP!RequestBinds, DockingAssumption DEF DP!RequestBinds
  <2>4. \A u \in Ferries \ {s} : u \in Controllers \ {s, t}
    BY <2>1, FerryRoutes
  <2> QED
    BY <2>3, <2>4 DEF t
<1> QED
  BY <1>1, <1>2 DEF Dock

(* A ferry whose end is kept, and which nothing else is done to, stays     *)
(* where it is.                                                            *)
LEMMA StillPlaced ==
    ASSUME NEW u \in Ferries, Placed(u), DP!EndKept(u), setup' \subseteq setup,
           location'[u] = location[u], area'[u] = area[u], jumps'[u] = jumps[u],
           redocks'[u] = redocks[u]
    PROVE  Placed(u)'
<1>1. /\ ~ Undocked(u)' => ~ Undocked(u) /\ prog'[u].tag_target = prog[u].tag_target
      /\ prog'[u].control_mode = "server" => prog[u].control_mode = "server"
  BY DEF DP!EndKept, DP!Bound, Undocked
<1> QED
  BY <1>1 DEF Placed, JumpFits, Undocked

(* At most one jump, and not one, is none. *)
LEMMA NoJump ==
    ASSUME NEW q \in Seq(Jump), Len(q) <= 1, Len(q) # 1
    PROVE  q = << >> /\ DOMAIN q = {}
<1>1. Len(q) \in Nat /\ \A n \in Nat : n <= 1 /\ n # 1 => n = 0
  OBVIOUS
<1>2. Len(q) = 0
  BY <1>1, Zenon
<1> QED
  BY <1>2

(* A ferry that docks is not moving. *)
LEMMA DockPlaced ==
    ASSUME LInv, NEW s \in Ferries, SetupDock(s) \/ Arrive(s), NEW u \in Ferries
    PROVE  Placed(u)'
<1>1. /\ Dock(s) /\ UNCHANGED <<location, area, jumps, redocks>> /\ setup' \subseteq setup
  BY DEF SetupDock, Arrive, Running
<1>2. /\ \/ prog' = prog
         \/ /\ prog'[s].tag_target = Target[s][location[s]]
            /\ prog'[s].control_mode = "client"
      /\ \A v \in Ferries \ {s} : prog'[v] = prog[v]
  BY <1>1, DockBinds DEF LInv, SInv, StatesKnown
<1>3. CASE prog'[u] = prog[u]
  BY <1>1, <1>3, SameKept, StillPlaced DEF LInv
<1>4. CASE /\ u = s /\ prog'[s].tag_target = Target[s][location[s]]
           /\ prog'[s].control_mode = "client"
  <2>1. jumps[s] \in Seq(Jump) /\ Len(jumps[s]) <= 1 /\ Placed(s)
    BY DEF LInv, JInv, JumpsKnown, OneJump
  <2>2. DOMAIN jumps[s] = {}
    <3>1. CASE SetupDock(s)
      BY <3>1, <2>1 DEF SetupDock, Placed, JumpFits
    <3>2. CASE Arrive(s)
      <4>1. Len(jumps[s]) # 1
        BY <3>2 DEF Arrive, LInv, JInv, OneJump
      <4> QED
        BY <2>1, <4>1, NoJump
    <3> QED
      BY <3>1, <3>2
  <2> QED
    BY <1>1, <1>4, <2>1, <2>2 DEF Placed
<1> QED
  BY <1>2, <1>3, <1>4

(* A ferry that is launched is undocked, unless it is launched by force.   *)
LEMMA DepartPlaced ==
    ASSUME LInv, NEW s \in Ferries, Depart(s), NEW u \in Ferries
    PROVE  Placed(u)'
<1>1. /\ UNCHANGED <<prog, location, area, redocks, setup>> /\ setup = {}
  BY DEF Depart, Running, dockVars
<1>2. PICK forced \in BOOLEAN :
         /\ StartJump(s, forced)
         /\ forced \/ SkipChecks(s) \/ Undocked(s)
  BY DEF Depart
<1>3. CASE jumps'[u] = jumps[u]
  BY <1>1, <1>3, SameKept, StillPlaced DEF LInv
<1>4. CASE u = s /\ moving_status[s] = "idle"
  <2>1. PICK j :
          /\ j = [from |-> location[s], to |-> 1 - location[s], left |-> FALSE,
                  forced |-> forced, cancelled |-> FALSE]
          /\ jumps' = [jumps EXCEPT ![s] = Append(@, j)]
    BY <1>2, <1>4 DEF StartJump
  <2>2. /\ j.from = location[s] /\ j.to = 1 - location[s]
        /\ j.left = FALSE /\ j.forced = forced
    BY <2>1
  <2>3. /\ jumps[s] \in Seq(Jump) /\ Len(jumps[s]) <= 1 /\ Len(jumps[s]) # 1 /\ Placed(s)
        /\ jumps \in [Ferries -> Seq(Jump)]
    BY <1>4 DEF LInv, JInv, JumpsKnown, OneJump
  <2>4. jumps[s] = << >> /\ jumps'[s] = << j >>
    <3>1. jumps[s] = << >>
      BY <2>3, NoJump
    <3>2. jumps'[s] = Append(jumps[s], j)
      BY <2>1, <2>3
    <3> QED
      BY <3>1, <3>2
  <2>5. DOMAIN jumps'[s] = {1} /\ jumps'[s][1] = j /\ jumps'[s] # << >>
    BY <2>4
  <2>6. forced \/ Undocked(s)
    <3>1. CASE SkipChecks(s)
      <4>1. prog[s].tag_target = NoTag => prog[s].dock_state = "undocked"
        BY FerryRoutes DEF LInv, DP!IInv, DP!StateTable, DP!InTable
      <4> QED
        BY <2>3, <3>1, <4>1 DEF SkipChecks, Placed, Undocked
    <3> QED
      BY <1>2, <3>1
  <2>7. JumpFits(s, j)'
    BY <1>1, <2>2, <2>3, <2>4, <2>6 DEF Placed, JumpFits, Undocked
  <2> QED
    BY <1>1, <1>4, <2>3, <2>5, <2>7 DEF Placed, Undocked
<1> QED
  BY <1>2, <1>3, <1>4 DEF StartJump, LInv, JInv, JumpsKnown

(* The jump under way is the first and the only one. *)
LEMMA OnlyJump ==
    ASSUME LInv, NEW s \in Ferries, NEW i \in DOMAIN jumps[s]
    PROVE  /\ i = 1 /\ RemoveAt(jumps[s], i) = << >>
           /\ jumps[s] \in Seq(Jump) /\ Len(jumps[s]) = 1 /\ jumps[s][i] \in Jump
           /\ JumpFits(s, jumps[s][i])
<1>1. jumps[s] \in Seq(Jump) /\ Len(jumps[s]) <= 1 /\ Placed(s)
  BY DEF LInv, JInv, JumpsKnown, OneJump
<1> QED
  BY <1>1, RemoveOnly DEF Placed

(* A ferry that moves undocks, goes where its jump takes it and is, once   *)
(* it has landed, where location says.                                     *)
LEMMA MovePlaced ==
    ASSUME LInv, NEW s \in Ferries, NEW i \in DOMAIN jumps[s],
           Leave(s, i) \/ Land(s, i), NEW u \in Ferries
    PROVE  Placed(u)'
<1> DEFINE j == jumps[s][i]
           from == IF Land(s, i) THEN Transit ELSE j.from
           to == IF Leave(s, i) /\ s \in LongJump THEN Transit ELSE j.to
<1>1. /\ j \in Jump /\ JumpFits(s, j) /\ jumps[s] \in Seq(Jump) /\ Len(jumps[s]) = 1
      /\ i = 1 /\ RemoveAt(jumps[s], i) = << >>
  BY OnlyJump
<1>2. /\ j.from \in Places /\ j.to \in Places /\ location[s] \in Places
      /\ Transit \notin Places /\ j.from # j.to
  BY <1>1 DEF Jump, JumpFits, Transit, Places
<1>3. Leave(s, i) => ~ Land(s, i)
  BY DEF Leave, Land, Warm
<1>4. /\ Move(s, from, to) /\ from # to /\ area[s] = from
      /\ to \in Places \cup {Transit} /\ UNCHANGED <<redocks, setup>>
  <2>1. CASE Leave(s, i)
    BY <1>1, <1>2, <1>3, <2>1 DEF Leave, Warm, JumpFits, Running
  <2>2. CASE Land(s, i)
    BY <1>1, <1>2, <1>3, <2>2 DEF Land, JumpFits, Running
  <2> QED
    BY <2>1, <2>2
<1>5. IF Leave(s, i) /\ s \in LongJump
      THEN jumps' = [jumps EXCEPT ![s][i].left = TRUE]
      ELSE jumps' = [jumps EXCEPT ![s] = RemoveAt(@, i)]
  BY <1>3 DEF Leave, Land
<1>6. to = Transit <=> Leave(s, i) /\ s \in LongJump
  BY <1>2
<1>7. to # Transit => to = j.to
  OBVIOUS
<1>8. SInv /\ jumps \in [Ferries -> Seq(Jump)] /\ location \in [Ferries -> Places]
      /\ DP!IInv /\ Placed(u) /\ setup = {}
  BY <1>1 DEF LInv, SInv, StatesKnown, PlaceKnown, JumpFits
<1> HIDE DEF from, to
<1>9. ForceIfDocked(s)
  BY <1>4 DEF Move
<1>10. DP!EndKept(u) /\ DP!EndKept(s)
  BY <1>8, <1>9, UndockKeeps, FerryRoutes
<1>11. CASE u # s
  BY <1>4, <1>5, <1>8, <1>10, <1>11, MoveStates, StillPlaced DEF Move
<1>12. CASE u = s
  <2>1. Undocked(s)'
    BY <1>8, <1>9, ForceUndocks DEF Undocked
  <2>2. area'[s] = to /\ location'[s] = IF to = Transit THEN location[s] ELSE to
    BY <1>2, <1>4, <1>7, <1>8, MoveStates DEF Move
  <2>3. redocks'[s] = 0 /\ prog'[s].control_mode # "server"
    BY <1>4, <1>8, <1>10, <1>12 DEF DP!EndKept, Placed
  <2>4. CASE to = Transit
    <3>1. jumps' = [jumps EXCEPT ![s][i].left = TRUE]
      BY <1>5, <1>6, <2>4
    <3>2. PICK k : k = [j EXCEPT !.left = TRUE] /\ jumps'[s] = [jumps[s] EXCEPT ![i] = k]
      BY <1>8, <3>1
    <3>3. k.from = j.from /\ k.to = j.to /\ k.left
      BY <1>1, <3>2 DEF Jump
    <3>4. DOMAIN jumps'[s] = {1} /\ jumps'[s][1] = k /\ jumps'[s] # << >>
      BY <1>1, <3>2
    <3>5. JumpFits(s, k)'
      BY <1>1, <1>4, <1>8, <2>1, <2>2, <2>4, <3>3 DEF JumpFits
    <3> QED
      BY <1>12, <2>1, <2>3, <3>4, <3>5 DEF Placed
  <2>5. CASE to # Transit
    <3>1. jumps' = [jumps EXCEPT ![s] = << >>]
      BY <1>1, <1>5, <1>6, <2>5
    <3>2. jumps'[s] = << >> /\ DOMAIN jumps'[s] = {}
      BY <1>8, <3>1
    <3> QED
      BY <1>12, <2>1, <2>2, <2>3, <2>5, <3>2 DEF Placed
  <2> QED
    BY <2>4, <2>5
<1> QED
  BY <1>11, <1>12

(* Every step but a cancelled launch leaves every ferry where it belongs.  *)
LEMMA StepPlaced ==
    ASSUME LInv, [Uncancelled]_vars, NEW u \in Ferries
    PROVE  Placed(u)'
<1>1. Placed(u) /\ DP!IInv /\ u \in Controllers
  BY FerryRoutes DEF LInv
<1>2. CASE UNCHANGED vars
  BY <1>1, <1>2, SameKept, StillPlaced DEF vars, dockVars, ferryVars
<1>3. ASSUME NEW s \in Ferries,
             \/ ForceLaunch(s) \/ LoseConsole(s) \/ Finish(s) \/ TravelEnds(s) \/ TimeOut(s)
      PROVE  Placed(u)'
  BY <1>1, <1>3, SameKept, StillPlaced
     DEF ForceLaunch, LoseConsole, Finish, TravelEnds, TimeOut, Running, dockVars
<1>4. ASSUME NEW s \in Ferries, Launch(s)
      PROVE  Placed(u)'
  BY <1>1, <1>4, UndockKeeps, StillPlaced DEF Launch, Running
<1>5. ASSUME NEW s \in Ferries, Redock(s)
      PROVE  FALSE
  BY <1>5 DEF Redock, LInv, Placed
<1>6. ASSUME NEW c \in Controllers, ProcessDocking(c) \/ DestroyDocking(c)
      PROVE  Placed(u)'
  BY <1>1, <1>6, MachineKeeps, StillPlaced DEF ProcessDocking, DestroyDocking, Running
<1>7. ASSUME NEW s \in Ferries, NEW i \in DOMAIN jumps[s], CallOff(s, i)
      PROVE  FALSE
  BY <1>7, NoCallOff DEF LInv
<1> QED
  BY <1>2, <1>3, <1>4, <1>5, <1>6, <1>7, DockPlaced, DepartPlaced, MovePlaced
     DEF Uncancelled, Calm, Operate, ProcessFerry

LEMMA InitPlaced ==
    ASSUME Init, NEW s \in Ferries
    PROVE  Placed(s)
<1>1. prog[s] = Docking!NewProgram
  BY FerryRoutes DEF Init, Docking!Init
<1> QED
  BY <1>1, FerryAssumption DEF Init, Placed, Undocked, Docking!NewProgram

(* The specification without cancelled launches keeps the invariant.       *)
LEMMA PlacedHolds == UncancelledSpec => []LInv
<1>1. UncancelledSpec => Spec
  <2>1. [Uncancelled]_vars => [Next]_vars
    BY DEF Next
  <2> QED
    BY <2>1, PTL DEF UncancelledSpec, Spec
<1>2. Spec => []DP!IInv
  <2>1. DP!Spec => []DP!IInv
    BY DP!Invariant, DockingAssumption DEF DP!Invariant
  <2> QED
    BY <2>1, DockingImplemented, SameSpec, PTL DEF ImplementsDocking
<1>3. Spec => []SInv
  <2>1. SInv /\ [Next]_vars => SInv'
    BY StepStates
  <2> QED
    BY <2>1, InitStates, PTL DEF Spec
<1>4. Init => JInv
  BY DEF Init, JInv, JumpsKnown, PlaceKnown, OneJump, Statuses
<1> DEFINE P == \A s \in Ferries : Placed(s)
<1>5. DP!IInv /\ SInv /\ JInv /\ P /\ [Uncancelled]_vars => JInv' /\ P'
  BY StepJumps, StepPlaced DEF LInv
<1>6. DP!IInv /\ SInv /\ JInv /\ P => LInv
  BY DEF LInv
<1>7. Init => P
  BY InitPlaced
<1> HIDE DEF P
<1> QED
  BY <1>1, <1>2, <1>3, <1>4, <1>5, <1>6, <1>7, PTL DEF UncancelledSpec

(* While no launch is cancelled, a ferry is where its location says or on  *)
(* its way from there, and only ever deals with the berth it stands at.    *)
THEOREM LocatedHolds == UncancelledSpec => []Located
<1>1. ASSUME LInv, NEW s \in Ferries
      PROVE  /\ area[s] = location[s] \/ (area[s] = Transit /\ jumps[s] # << >>)
             /\ ~ Undocked(s) => /\ area[s] = location[s]
                                 /\ prog[s].tag_target = Target[s][location[s]]
  <2>1. Placed(s) /\ jumps[s] \in Seq(Jump)
    BY <1>1 DEF LInv, SInv
  <2>2. CASE jumps[s] = << >>
    BY <2>1, <2>2 DEF Placed
  <2>3. CASE jumps[s] # << >>
    <3>1. 1 \in DOMAIN jumps[s]
      BY <2>1, <2>3
    <3>2. JumpFits(s, jumps[s][1]) /\ jumps[s][1].left \in BOOLEAN
      BY <1>1, <3>1, OnlyJump DEF Jump
    <3> QED
      BY <2>1, <2>3, <3>2 DEF Placed, JumpFits
  <2> QED
    BY <2>2, <2>3
<1>2. LInv => Located
  BY <1>1 DEF Located
<1> QED
  BY <1>2, PlacedHolds, PTL

(* A ferry that leaves without being forced is undocked, although it was   *)
(* asked whether it is a whole warmup before.                              *)
THEOREM LeavesUndockedHolds == UncancelledSpec => LeavesUndocked
<1> DEFINE Honest == \A s \in Ferries :
                        /\ area[s] \in Places /\ area'[s] # area[s]
                        /\ \A i \in DOMAIN jumps[s] : ~ jumps[s][i].forced
                        => Undocked(s)
<1>1. ASSUME LInv, [Uncancelled]_vars, NEW s \in Ferries,
             area[s] \in Places, area'[s] # area[s],
             \A i \in DOMAIN jumps[s] : ~ jumps[s][i].forced
      PROVE  Undocked(s)
  <2>1. PICK u \in Ferries : \E i \in DOMAIN jumps[u] : Leave(u, i) \/ Land(u, i)
    BY <1>1 DEF Uncancelled, Calm, Operate, ProcessFerry, vars, ferryVars, SetupDock,
                Launch, ForceLaunch, LoseConsole, Depart, Arrive, Finish, Redock,
                TravelEnds, TimeOut, CallOff, ProcessDocking, DestroyDocking
  <2>2. PICK i \in DOMAIN jumps[u] : Leave(u, i) \/ Land(u, i)
    BY <2>1
  <2>3. JumpFits(u, jumps[u][i]) /\ jumps[u][i] \in Jump /\ Transit \notin Places
    BY <1>1, OnlyJump DEF Transit, Places
  <2>4. u = s
    <3>1. PICK from, to \in Places \cup {Transit} : Move(u, from, to)
      BY <2>2, <2>3 DEF Leave, Land, Jump
    <3> QED
      BY <1>1, <3>1, MoveStates DEF LInv
  <2>5. ~ jumps[s][i].left
    BY <1>1, <2>3, <2>4 DEF JumpFits
  <2> QED
    BY <1>1, <2>2, <2>3, <2>4, <2>5 DEF JumpFits
<1>2. LInv /\ [Uncancelled]_vars => [Honest]_vars
  BY <1>1
<1> QED
  BY <1>2, PlacedHolds, PTL DEF UncancelledSpec, LeavesUndocked
=============================================================================
