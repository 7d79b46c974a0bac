------------------------- MODULE MultiDockingProofs -------------------------
(***************************************************************************)
(* Docking ports with several airlocks dock like any other, hold their     *)
(* airlocks for as long as they are bound, and complete a docking or an    *)
(* undocking only when all their airlocks have reported.                   *)
(***************************************************************************)
EXTENDS MultiDocking, DockingProgramProofs

(* Every step of the ports is a step of their docking programs.            *)
LEMMA StepDocks ==
    /\ MultiInit => Init
    /\ MultiOrderly => [Orderly]_vars
    /\ [MultiAbrupt]_multiVars => [Abrupt]_vars
    /\ [MultiNext]_multiVars => [Next]_vars
<1>1. MultiOrderly => [Orderly]_vars
  BY DEF MultiOrderly, Orderly, MultiProcess, AirlockReports
<1>2. MultiAbrupt => [Abrupt]_vars
  BY <1>1 DEF MultiAbrupt, Abrupt
<1>3. MultiNext => [Next]_vars
  BY <1>2 DEF MultiNext, Next, DestroyAirlock
<1> QED BY <1>1, <1>2, <1>3 DEF MultiInit, multiVars

(* So what is proved of docking programs holds of ports with airlocks too. *)
LEMMA PortsDock == MultiSpec => Spec
BY StepDocks, PTL DEF MultiSpec, Spec

(* A command leaves the program of an airlock of its kind. *)
LEMMA CommandType ==
    ASSUME NEW p \in Child, NEW state \in DockStates
    PROVE  OnCommand(p, state) \in Child
BY DEF OnCommand, Child, ChildModes, DockStates

(* The variables of the airlocks' programs hold values of their kinds,     *)
(* whatever the masters are told to do.                                    *)
THEOREM MultiTypeCorrect == MultiSpec => []MultiTypeOK
<1> DEFINE Typed == /\ airlock \in [Airlocks -> Child]
                    /\ children_ready \in SUBSET Airlocks
                    /\ intact \in SUBSET Airlocks
<1>1. MultiInit => Typed
  BY DEF MultiInit, NewChild, Child, ChildModes
<1>2. Typed /\ TypeOK' /\ [MultiNext]_multiVars => Typed'
  <2> SUFFICES ASSUME Typed, TypeOK', [MultiNext]_multiVars PROVE Typed'
    OBVIOUS
  <2>1. CASE TellChildren
    <3>1. ASSUME NEW a \in Airlocks
          PROVE  OnCommand(airlock[a], prog'[master_tag[a]].dock_state) \in Child
      BY CommandType, MasterAssumption DEF TypeOK, Program
    <3>2. airlock' \in [Airlocks -> Child]
      BY <2>1, <3>1 DEF TellChildren
    <3> QED BY <2>1, <3>2 DEF TellChildren, ClearReports
  <2>2. CASE TellNobody
    BY <2>2 DEF TellNobody
  <2>3. ASSUME NEW a \in Airlocks, AirlockReports(a) PROVE Typed'
    <3>1. [airlock[a] EXCEPT !.response_sent = TRUE] \in Child
      BY DEF Child
    <3> QED BY <2>3, <3>1 DEF AirlockReports
  <2>4. ASSUME NEW a \in Airlocks, DestroyAirlock(a) PROVE Typed'
    BY <2>4 DEF DestroyAirlock
  <2>5. CASE UNCHANGED multiVars
    BY <2>5 DEF multiVars
  <2> QED BY <2>1, <2>2, <2>3, <2>4, <2>5
      DEF MultiNext, MultiAbrupt, MultiOrderly, MultiProcess
<1> QED BY <1>1, <1>2, PortsDock, TypeCorrect, PTL DEF MultiSpec, MultiTypeOK

-----------------------------------------------------------------------------

(* A report that a bound master has is one its airlock made since it was   *)
(* last told to prepare.                                                   *)
FreshReports ==
    \A a \in children_ready :
        Bound(prog[master_tag[a]]) => HasReported(a, prog[master_tag[a]].dock_state)

(* The airlocks of a client whose server holds its confirmation have all   *)
(* reported.                                                               *)
ClientsReported ==
    \A s, c \in online :
        Holds(s, c) => \A a \in Children(c) : HasReported(a, prog[c].dock_state)

MultiIInv == /\ IInv /\ MultiTypeOK
             /\ AirlocksHeld /\ FreshReports /\ ClientsReported

(* Commands keep all three: a master that changes its state tells its      *)
(* airlocks and forgets what they reported before.                         *)
LEMMA TellKeeps ==
    ASSUME MultiIInv, TellChildren, online' = online,
           \A m \in Controllers : InOrder(m)
    PROVE  /\ AirlocksHeld' /\ FreshReports'
           /\ \A a \in Airlocks, state \in DockStates :
                 ~ Changed(master_tag[a]) /\ HasReported(a, state) => HasReported(a, state)'
<1>1. /\ airlock \in [Airlocks -> Child] /\ children_ready \subseteq Airlocks
      /\ intact \subseteq Airlocks /\ intact' = intact
      /\ \A a \in Airlocks : master_tag[a] \in Controllers
  BY MasterAssumption DEF MultiIInv, MultiTypeOK, TellChildren
<1>2. ASSUME NEW a \in Airlocks, ~ Changed(master_tag[a])
      PROVE  /\ airlock'[a] = airlock[a]
             /\ prog'[master_tag[a]].dock_state = prog[master_tag[a]].dock_state
  BY <1>1, <1>2 DEF TellChildren, Told, Commanded, Changed
<1>3. ASSUME NEW a \in children_ready'
      PROVE  a \in children_ready /\ ~ Changed(master_tag[a])
  BY <1>1, <1>3 DEF TellChildren, ClearReports, Commanded
<1>4. FreshReports'
  BY <1>1, <1>2, <1>3 DEF MultiIInv, FreshReports, Bound, HasReported
<1>5. ASSUME NEW a \in intact, master_tag[a] \in online,
             prog'[master_tag[a]].dock_state # "undocked"
      PROVE  /\ airlock'[a].docking_enabled
             /\ airlock'[a].docking_mode = Mode(prog'[master_tag[a]].dock_state)
  <2> DEFINE m == master_tag[a]
             old == prog[m].dock_state
             new == prog'[m].dock_state
  <2>1. CASE ~ Changed(m)
    BY <1>1, <1>2, <1>5, <2>1 DEF MultiIInv, AirlocksHeld
  <2>2. CASE Changed(m)
    <3>1. airlock'[a] = OnCommand(airlock[a], new)
      BY <1>1, <1>5, <2>2 DEF TellChildren, Told, Commanded
    <3>2. \/ old = "undocked" /\ new = "docking"
          \/ old = "docking" /\ new = "docked"
          \/ old = "docked" /\ new = "undocking"
      BY <1>1, <1>5, <2>2 DEF InOrder, Follows, Changed
    <3>3. airlock[a] \in Child
      BY <1>1
    <3>4. CASE new = "docking"
      BY <3>1, <3>4 DEF OnCommand, Mode
    <3>5. CASE new = "docked" /\ old = "docking"
      <4>1. airlock[a].docking_enabled /\ airlock[a].docking_mode = "docking"
        BY <1>5, <3>5 DEF MultiIInv, AirlocksHeld, Mode
      <4> QED BY <3>1, <3>5, <4>1 DEF OnCommand, Mode
    <3>6. CASE new = "undocking" /\ old = "docked"
      <4>1. airlock[a].docking_enabled
        BY <1>5, <3>6 DEF MultiIInv, AirlocksHeld
      <4> QED BY <3>1, <3>3, <3>6, <4>1 DEF OnCommand, Mode, Child
    <3> QED BY <3>2, <3>4, <3>5, <3>6
  <2> QED BY <2>1, <2>2
<1>6. AirlocksHeld'
  BY <1>1, <1>5 DEF AirlocksHeld
<1> QED BY <1>2, <1>4, <1>6 DEF HasReported

(* Reports keep them too. *)
LEMMA ReportKeeps ==
    ASSUME MultiIInv, NEW a \in Airlocks, AirlockReports(a)
    PROVE  AirlocksHeld' /\ FreshReports' /\ ClientsReported'
<1>1. /\ airlock \in [Airlocks -> Child] /\ children_ready \subseteq Airlocks
      /\ intact \subseteq Airlocks /\ intact' = intact
      /\ prog' = prog /\ online' = online
      /\ \A b \in Airlocks : master_tag[b] \in Controllers
  BY MasterAssumption DEF MultiIInv, MultiTypeOK, AirlockReports, vars
<1>2. /\ \A b \in Airlocks \ {a} : airlock'[b] = airlock[b]
      /\ airlock'[a] = [airlock[a] EXCEPT !.response_sent = TRUE]
      /\ airlock[a] \in Child /\ a \in intact
  BY <1>1 DEF AirlockReports
<1>3. /\ airlock'[a].docking_enabled = airlock[a].docking_enabled
      /\ airlock'[a].docking_mode = airlock[a].docking_mode
  BY <1>2 DEF Child
<1>4. AirlocksHeld'
  BY <1>1, <1>2, <1>3 DEF MultiIInv, AirlocksHeld
<1>5. \A b \in Airlocks, state \in DockStates : HasReported(b, state) => HasReported(b, state)'
  <2> SUFFICES ASSUME NEW b \in Airlocks, NEW state \in DockStates, HasReported(b, state)
               PROVE  HasReported(b, state)'
    OBVIOUS
  <2>1. CASE b = a
    BY <1>2, <1>3, <2>1 DEF HasReported, Child
  <2>2. CASE b # a
    BY <1>2, <2>2 DEF HasReported
  <2> QED BY <2>1, <2>2
<1>6. \A c \in Controllers : prog[c].dock_state \in DockStates
  BY DEF MultiIInv, MultiTypeOK, TypeOK, Program
<1>7. ASSUME NEW b \in children_ready', Bound(prog[master_tag[b]])
      PROVE  HasReported(b, prog[master_tag[b]].dock_state)'
  <2>1. CASE b \in children_ready
    BY <1>1, <1>5, <1>6, <1>7, <2>1 DEF MultiIInv, FreshReports
  <2>2. CASE b \notin children_ready
    <3>1. b = a /\ master_tag[a] \in online
      BY <1>7, <2>2 DEF AirlockReports
    <3>2. /\ airlock[a].docking_enabled
          /\ airlock[a].docking_mode = Mode(prog[master_tag[a]].dock_state)
      BY <1>2, <1>7, <3>1 DEF MultiIInv, AirlocksHeld, Bound
    <3>3. airlock[a].docking_enabled = TRUE
      BY <1>2, <3>2 DEF Child
    <3> QED BY <1>1, <1>2, <3>1, <3>2, <3>3 DEF HasReported, Child
  <2> QED BY <2>1, <2>2
<1>8. FreshReports'
  BY <1>1, <1>7 DEF FreshReports
<1>9. ClientsReported'
  BY <1>1, <1>5, <1>6 DEF MultiIInv, ClientsReported, Holds, Children, IInv, TypeOK
<1> QED BY <1>4, <1>8, <1>9

(* What a server holds, its client's airlocks have reported. *)
LEMMA HeldReported ==
    ASSUME MultiIInv, online' = online,
           \A a \in Airlocks, state \in DockStates :
              ~ Changed(master_tag[a]) /\ HasReported(a, state) => HasReported(a, state)',
           \A s, c \in online : Holds(s, c)' =>
              \/ StillHolds(s, c)
              \/ /\ ~ Changed(c)
                 /\ \A a \in Children(c) : HasReported(a, prog[c].dock_state)
    PROVE  ClientsReported'
<1>1. ASSUME NEW s \in online, NEW c \in online, Holds(s, c)', NEW a \in Children(c)
      PROVE  HasReported(a, prog[c].dock_state)'
  <2>1. /\ ~ Changed(c) /\ HasReported(a, prog[c].dock_state)
    BY <1>1 DEF MultiIInv, ClientsReported, StillHolds
  <2>2. a \in Airlocks /\ master_tag[a] = c /\ prog[c].dock_state \in DockStates
    BY DEF Children, MultiIInv, IInv, TypeOK, Program
  <2> QED BY <2>1, <2>2 DEF Changed, HasReported
<1> QED BY <1>1 DEF ClientsReported, Children

(* A call that goes through the handshake in order keeps the invariant.    *)
LEMMA CallKeeps ==
    ASSUME MultiIInv, TellChildren, online' = online,
           NEW c \in Controllers,
           \A m \in Controllers : InOrder(m),
           \A s, d \in online : Holds(s, d)' =>
              \/ StillHolds(s, d)
              \/ d = c /\ AllReady(c) /\ Bound(prog[c]) /\ ~ Changed(c)
    PROVE  AirlocksHeld' /\ FreshReports' /\ ClientsReported'
<1>1. AllReady(c) /\ Bound(prog[c]) =>
         \A a \in Children(c) : HasReported(a, prog[c].dock_state)
  BY DEF AllReady, MultiIInv, FreshReports, Children
<1>2. ClientsReported'
  BY <1>1, TellKeeps, HeldReported
<1> QED BY <1>2, TellKeeps

(* The steps of a port that nobody breaks off. *)
LEMMA OrderlyKeeps ==
    ASSUME MultiIInv, MultiOrderly
    PROVE  /\ AirlocksHeld' /\ FreshReports' /\ ClientsReported'
           /\ \A m \in online : Completes(m) =>
                 \A a \in Children(m) : HasReported(a, prog[m].dock_state)
<1>1. IInv
  BY DEF MultiIInv
<1>2. online \subseteq Controllers
  BY <1>1 DEF IInv, TypeOK
<1>3. ASSUME NEW r \in Routes, InitiateDocking(r[1], r[2]), TellChildren
      PROVE  /\ AirlocksHeld' /\ FreshReports' /\ ClientsReported'
             /\ \A m \in online : ~ Completes(m)
  <2>1. r[1] \in Controllers /\ r[2] \in Controllers /\ online' = online
    BY <1>3, RoutesAssumption DEF InitiateDocking
  <2>2. /\ \A m \in Controllers : InOrder(m) /\ ~ Completes(m)
        /\ \A s, d \in online : Holds(s, d)' => StillHolds(s, d)
    BY <1>1, <1>3, <2>1, InitiateOrder
  <2> QED BY <1>2, <1>3, <2>1, <2>2, CallKeeps
<1>4. ASSUME NEW c \in Shuttles, InitiateUndocking(c), TellChildren
      PROVE  /\ AirlocksHeld' /\ FreshReports' /\ ClientsReported'
             /\ \A m \in online : ~ Completes(m)
  <2>1. c \in Controllers /\ online' = online
    BY <1>4, RoutesAssumption DEF Shuttles, InitiateUndocking
  <2>2. /\ \A m \in Controllers : InOrder(m) /\ ~ Completes(m)
        /\ \A s, d \in online : Holds(s, d)' => StillHolds(s, d)
    BY <1>1, <1>4, <2>1, UndockOrder
  <2> QED BY <1>2, <1>4, <2>1, <2>2, CallKeeps
<1>5. ASSUME NEW c \in Controllers, NEW ready \in BOOLEAN, MultiProcess(c, ready)
      PROVE  /\ AirlocksHeld' /\ FreshReports' /\ ClientsReported'
             /\ \A m \in online : Completes(m) =>
                   \A a \in Children(m) : HasReported(a, prog[m].dock_state)
  <2>1. /\ Process(c, ready) /\ TellChildren /\ online' = online
        /\ ready => AllReady(c)
    BY <1>5 DEF MultiProcess, Process, AllReady
  <2>2. /\ \A m \in Controllers : InOrder(m)
        /\ \A m \in online : Completes(m) =>
              (m = c /\ ready) \/ (Holds(c, m) /\ c \in online)
        /\ \A s, d \in online : Holds(s, d)' =>
              \/ StillHolds(s, d)
              \/ d = c /\ AllReady(c) /\ Bound(prog[c]) /\ ~ Changed(c)
    BY <1>1, <2>1, ProcessOrder
  <2>3. ASSUME NEW m \in online, Completes(m), NEW a \in Children(m)
        PROVE  HasReported(a, prog[m].dock_state)
    <3>1. CASE m = c /\ ready
      BY <2>1, <2>3, <3>1
         DEF AllReady, Children, MultiIInv, FreshReports, Completes, Bound
    <3>2. CASE Holds(c, m) /\ c \in online
      BY <2>3, <3>2 DEF MultiIInv, ClientsReported
    <3> QED BY <2>2, <2>3, <3>1, <3>2
  <2>4. AirlocksHeld' /\ FreshReports' /\ ClientsReported'
    BY <2>1, <2>2, CallKeeps
  <2> QED BY <2>3, <2>4
<1>6. ASSUME NEW a \in Airlocks, AirlockReports(a)
      PROVE  /\ AirlocksHeld' /\ FreshReports' /\ ClientsReported'
             /\ \A m \in online : ~ Completes(m)
  BY <1>6, ReportKeeps DEF AirlockReports, vars, Completes
<1> QED BY <1>3, <1>4, <1>5, <1>6 DEF MultiOrderly

(* A shuttle that leaves by force frees both ends and tells no airlock.    *)
LEMMA ForceKeeps ==
    ASSUME MultiIInv, NEW c \in Shuttles, ForceUndock(c), TellNobody
    PROVE  AirlocksHeld' /\ FreshReports' /\ ClientsReported'
<1>1. /\ IInv /\ c \in Controllers /\ online' = online
      /\ intact \subseteq Airlocks /\ children_ready \subseteq Airlocks
      /\ \A a \in Airlocks : master_tag[a] \in Controllers
  BY RoutesAssumption, MasterAssumption DEF Shuttles, MultiIInv, MultiTypeOK, ForceUndock
<1>2. /\ \A m \in Controllers : Changed(m) => ~ Bound(prog'[m])
      /\ \A s, d \in online : Holds(s, d)' => StillHolds(s, d)
  BY <1>1, ForceOrder
<1>3. AirlocksHeld'
  BY <1>1, <1>2 DEF MultiIInv, AirlocksHeld, TellNobody, Changed, Bound
<1>4. FreshReports'
  BY <1>1, <1>2 DEF MultiIInv, FreshReports, TellNobody, Changed, Bound, HasReported
<1>5. \A a \in Airlocks, state \in DockStates : HasReported(a, state) => HasReported(a, state)'
  BY DEF TellNobody, HasReported
<1>6. ClientsReported'
  BY <1>1, <1>2, <1>5, HeldReported
<1> QED BY <1>3, <1>4, <1>6

(***************************************************************************)
(* The inductive invariant of the ports.  That an airlock is held does not *)
(* say that the reports its master has are fresh, and a client completes   *)
(* on the word of its server, long after its own airlocks reported: both   *)
(* are part of it.                                                         *)
(***************************************************************************)
THEOREM MultiInvariant == MultiSpec => []MultiIInv
<1> DEFINE New == AirlocksHeld /\ FreshReports /\ ClientsReported
<1>1. MultiInit => New
  BY MasterAssumption DEF MultiInit, Init, AirlocksHeld, FreshReports, ClientsReported, NewProgram, Holds
<1>2. MultiIInv /\ [MultiNext]_multiVars => New'
  <2> SUFFICES ASSUME MultiIInv, [MultiNext]_multiVars PROVE New'
    OBVIOUS
  <2>1. CASE MultiOrderly
    BY <2>1, OrderlyKeeps
  <2>2. ASSUME NEW c \in Shuttles, ForceUndock(c), TellNobody PROVE New'
    BY <2>2, ForceKeeps
  <2>3. ASSUME NEW c \in Controllers, Destroy(c), TellNobody PROVE New'
    BY <2>3 DEF MultiIInv, AirlocksHeld, FreshReports, ClientsReported, Destroy, TellNobody,
       Holds, HasReported, Bound
  <2>4. ASSUME NEW a \in Airlocks, DestroyAirlock(a) PROVE New'
    BY <2>4 DEF MultiIInv, AirlocksHeld, FreshReports, ClientsReported, DestroyAirlock, vars,
       Holds, HasReported, Bound
  <2>5. CASE UNCHANGED multiVars
    BY <2>5 DEF MultiIInv, AirlocksHeld, FreshReports, ClientsReported, multiVars, vars,
       Holds, HasReported, Bound
  <2> QED BY <2>1, <2>2, <2>3, <2>4, <2>5 DEF MultiNext, MultiAbrupt
<1>3. MultiSpec => []IInv
  BY PortsDock, Invariant, PTL
<1> QED BY <1>1, <1>2, <1>3, MultiTypeCorrect, PTL DEF MultiSpec, MultiIInv

(* While a standing master is docked, docking or undocking, none of its    *)
(* standing airlocks is used as an airlock, however shuttles leave and     *)
(* whichever machines are lost.                                            *)
THEOREM AirlocksAreHeld == MultiSpec => []AirlocksHeld
BY MultiInvariant, PTL DEF MultiIInv

(* A docking or an undocking is completed only when all airlocks of either *)
(* end have reported since they were last told to prepare, also after      *)
(* shuttles that left by force.                                            *)
THEOREM AllHaveReported == MultiSpec => AllReported
<1>1. MultiIInv => [MultiOrderly => \A m \in online : Completes(m) =>
         \A a \in Children(m) : HasReported(a, prog[m].dock_state)]_multiVars
  BY OrderlyKeeps
<1> QED BY <1>1, MultiInvariant, PTL DEF AllReported
=============================================================================
