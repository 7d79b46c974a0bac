------------------------ MODULE DockingProgramProofs ------------------------
(***************************************************************************)
(* The docking programs are well typed, keep to their state table, and the *)
(* two ends of a docking always agree.  The proof first works out what     *)
(* each call of the code does to the two ends of a docking (the lemmas     *)
(* named Shape), then that such a step keeps the invariant (those named    *)
(* Inv).                                                                   *)
(***************************************************************************)
EXTENDS DockingProgram, TLAPS

(* Every handler maps a program to a program. *)
LEMMA HandlerTypes ==
    ASSUME NEW p \in Program, NEW from \in Controllers
    PROVE  /\ Reset(p) \in Program
           /\ Docked(p) \in Program
           /\ Reported(p) \in Program
           /\ OnConfirmDock(p, from) \in Program
           /\ OnConfirmUndock(p, from) \in Program
           /\ OnRequestUndock(p, from) \in Program
           /\ OnDockError(p, from) \in Program
           /\ Accept(p, from) \in Program
<1>1. Reset(p) \in Program
  BY DEF Reset, Program, DockStates, Modes
<1>2. OnConfirmDock(p, from) \in Program
  BY DEF OnConfirmDock, Program, DockStates, Modes
<1>3. OnConfirmUndock(p, from) \in Program
  BY <1>1 DEF OnConfirmUndock, Program, DockStates, Modes
<1>4. OnRequestUndock(p, from) \in Program
  BY DEF OnRequestUndock, Program, DockStates, Modes
<1>5. OnDockError(p, from) \in Program
  BY <1>1 DEF OnDockError
<1>6. Accept(p, from) \in Program
  BY DEF Accept, Program, DockStates, Modes
<1>7. Docked(p) \in Program /\ Reported(p) \in Program
  BY DEF Docked, Reported, Program, DockStates, Modes
<1> QED BY <1>1, <1>2, <1>3, <1>4, <1>5, <1>6, <1>7

(* The resend counter stays below ResendTime. *)
LEMMA ResendType ==
    ASSUME NEW p \in Program
    PROVE  Resend(p) \in Program
<1> DEFINE n == IF p.response_sent \/ p.resend_counter > 0
                THEN p.resend_counter + 1 ELSE p.resend_counter
           stop == n >= ResendTime \/ p.dock_state \notin {"docking", "undocking"}
<1>1. p.resend_counter \in Nat /\ n \in Nat
  BY ResendAssumption DEF Program
<1>2. CASE stop
  <2>1. Resend(p) = [p EXCEPT !.response_sent = FALSE, !.resend_counter = 0]
    BY <1>2 DEF Resend
  <2>2. 0 \in 0 .. ResendTime - 1
    BY ResendAssumption
  <2> QED BY <2>1, <2>2 DEF Program
<1>3. CASE ~ stop
  <2>1. Resend(p) = [p EXCEPT !.resend_counter = n]
    BY <1>3 DEF Resend
  <2>2. n \in 0 .. ResendTime - 1
    BY <1>1, <1>3, ResendAssumption
  <2> QED BY <2>1, <2>2 DEF Program
<1> QED BY <1>2, <1>3

Programs == [Controllers -> Program]

(* Posting any of the signals leaves every program of its kind. *)
LEMMA DeliverTypes ==
    ASSUME NEW S \in Programs, NEW to \in Controllers \cup {NoTag},
           NEW from \in Controllers
    PROVE  /\ Deliver(S, to, from, OnConfirmDock) \in Programs
           /\ Deliver(S, to, from, OnConfirmUndock) \in Programs
           /\ Deliver(S, to, from, OnRequestUndock) \in Programs
           /\ Deliver(S, to, from, OnDockError) \in Programs
<1>1. CASE Hears(to, from) /\ to \in Controllers
  <2>1. S[to] \in Program
    BY <1>1 DEF Programs
  <2>2. /\ OnConfirmDock(S[to], from) \in Program
        /\ OnConfirmUndock(S[to], from) \in Program
        /\ OnRequestUndock(S[to], from) \in Program
        /\ OnDockError(S[to], from) \in Program
    BY <2>1, HandlerTypes
  <2> QED BY <1>1, <2>2 DEF Deliver, Programs
<1>2. CASE ~ Hears(to, from)
  BY <1>2 DEF Deliver
<1>3. CASE to \notin Controllers
  BY <1>3 DEF Deliver, Programs
<1> QED BY <1>1, <1>2, <1>3

(* So does the first half of process(). *)
LEMMA StepTypes ==
    ASSUME NEW S \in Programs, NEW c \in Controllers, NEW ready \in BOOLEAN
    PROVE  Step(S, c, ready) \in Programs
<1>1. S[c].tag_target \in Controllers \cup {NoTag}
  BY DEF Programs, Program
<1>2. ASSUME NEW T \in Programs
      PROVE  /\ [T EXCEPT ![c] = Reported(@)] \in Programs
             /\ [T EXCEPT ![c] = Docked(@)] \in Programs
             /\ [T EXCEPT ![c] = Reset(@)] \in Programs
  BY HandlerTypes DEF Programs
<1>3. /\ Report(S, c, OnConfirmDock) \in Programs
      /\ Report(S, c, OnConfirmUndock) \in Programs
  BY <1>1, <1>2, DeliverTypes DEF Report
<1>4. /\ FinishDocking(S, c) \in Programs
      /\ FinishUndocking(S, c) \in Programs
  BY <1>1, <1>2, DeliverTypes DEF FinishDocking, FinishUndocking
<1> QED BY <1>3, <1>4 DEF Step

(* So does initiate_docking(), whose request the target may answer at      *)
(* once.                                                                   *)
LEMMA InitiateTypes ==
    ASSUME TypeOK, NEW c \in Controllers, NEW t \in Controllers,
           InitiateDocking(c, t)
    PROVE  TypeOK'
<1> DEFINE S == [prog EXCEPT ![c].tag_target = t, ![c].control_mode = "client"]
<1>1. S \in Programs
  BY DEF TypeOK, Programs, Program, Modes
<1>2. DeliverRequest(S, t, c) \in Programs
  <2>1. [S EXCEPT ![t] = Accept(S[t], c)] \in Programs
    BY <1>1, HandlerTypes DEF Programs
  <2> QED BY <1>1, <2>1, DeliverTypes DEF DeliverRequest
<1> QED BY <1>2 DEF InitiateDocking, TypeOK, Programs

(* Every variable of every docking program holds values of its kind: the   *)
(* resend counter never passes its limit and tag_target always names a     *)
(* controller or nobody, whatever docking_program.dm is called to do.      *)
THEOREM TypeCorrect == Spec => []TypeOK
<1>1. Init => TypeOK
  BY ResendAssumption DEF Init, TypeOK, NewProgram, Program, DockStates, Modes
<1>2. TypeOK /\ [Next]_vars => TypeOK'
  <2> SUFFICES ASSUME TypeOK, [Next]_vars PROVE TypeOK'
    OBVIOUS
  <2>1. ASSUME NEW r \in Routes, InitiateDocking(r[1], r[2]) PROVE TypeOK'
    BY <2>1, InitiateTypes, RoutesAssumption
  <2>2. ASSUME NEW c \in Shuttles, InitiateUndocking(c) PROVE TypeOK'
    <3>1. c \in Controllers
      BY RoutesAssumption DEF Shuttles
    <3> DEFINE S == [prog EXCEPT ![c].dock_state = "undocking"]
    <3>2. S \in Programs
      BY DEF TypeOK, Programs, Program, DockStates
    <3>3. prog[c].tag_target \in Controllers \cup {NoTag}
      BY <3>1 DEF TypeOK, Program
    <3> QED BY <2>2, <3>1, <3>2, <3>3, DeliverTypes
        DEF InitiateUndocking, TypeOK, Programs
  <2>3. ASSUME NEW c \in Shuttles, ForceUndock(c) PROVE TypeOK'
    <3>1. c \in Controllers
      BY RoutesAssumption DEF Shuttles
    <3>2. Deliver(prog, prog[c].tag_target, c, OnDockError) \in Programs
      BY <3>1, DeliverTypes DEF TypeOK, Program, Programs
    <3> QED BY <2>3, <3>1, <3>2, HandlerTypes DEF ForceUndock, TypeOK, Programs
  <2>4. ASSUME NEW c \in Controllers, NEW ready \in BOOLEAN, Process(c, ready)
        PROVE  TypeOK'
    <3> DEFINE S == [Step(prog, c, ready) EXCEPT ![c] = Resend(@)]
    <3>1. S \in Programs
      BY StepTypes, ResendType DEF TypeOK, Programs
    <3>2. Deliver(S, S[c].tag_target, c, OnDockError) \in Programs
      BY <3>1, DeliverTypes DEF Programs, Program
    <3>3. [Deliver(S, S[c].tag_target, c, OnDockError) EXCEPT ![c] = Reset(@)]
            \in Programs
      BY <3>2, HandlerTypes DEF Programs
    <3>4. [S EXCEPT ![c].control_mode = "none"] \in Programs
      BY <3>1 DEF Programs, Program, Modes
    <3>5. Repair(S, c) \in Programs
      BY <3>1, <3>3, <3>4 DEF Repair
    <3> QED BY <2>4, <3>5 DEF Process, TypeOK, Programs
  <2>5. ASSUME NEW c \in Controllers, Destroy(c) PROVE TypeOK'
    BY <2>5 DEF Destroy, TypeOK
  <2>6. CASE UNCHANGED vars
    BY <2>6 DEF vars, TypeOK
  <2> QED BY <2>1, <2>2, <2>3, <2>4, <2>5, <2>6 DEF Next, Abrupt, Orderly
<1> QED BY <1>1, <1>2, PTL DEF Spec

-----------------------------------------------------------------------------

IInv == TypeOK /\ StateTable /\ PartnersAgree

Unbound(p) == ~ Bound(p)
SameEnd(p, q) == /\ p.dock_state = q.dock_state
                 /\ p.control_mode = q.control_mode
                 /\ p.tag_target = q.tag_target

(* A step that changes one program keeps the table and the agreement, if   *)
(* the program stays unbound, keeps its end of a docking, or has a partner *)
(* that was lost.                                                          *)
LEMMA SoloUpdate ==
    ASSUME IInv, NEW c \in Controllers, NEW P \in Program, InTable(P),
           prog' = [prog EXCEPT ![c] = P], online' = online,
           \/ Unbound(prog[c]) /\ Unbound(P)
           \/ SameEnd(prog[c], P)
           \/ /\ ~ Hears(prog[c].tag_target, c)
              /\ Bound(prog[c])
              /\ Unbound(P) \/ P.tag_target = prog[c].tag_target
    PROVE  StateTable' /\ PartnersAgree'
<1>1. /\ prog \in [Controllers -> Program]
      /\ online \subseteq Controllers
      /\ \A d \in Controllers : prog'[d] = IF d = c THEN P ELSE prog[d]
      /\ \A d \in Controllers : InTable(prog[d])
  BY DEF IInv, TypeOK, StateTable
<1>2. StateTable'
  BY <1>1 DEF StateTable
<1>3. ASSUME NEW d \in online, Bound(prog'[d]), prog'[d].tag_target \in online
      PROVE  /\ prog'[d].tag_target # d
             /\ prog'[prog'[d].tag_target].tag_target = d
             /\ prog'[prog'[d].tag_target].dock_state = prog'[d].dock_state
             /\ prog'[prog'[d].tag_target].control_mode # prog'[d].control_mode
  BY <1>1, <1>3 DEF IInv, PartnersAgree, Unbound, Bound, SameEnd, Hears
<1> QED BY <1>2, <1>3 DEF PartnersAgree

(* A step that changes two programs which are free or each other's         *)
(* partners keeps both, if it leaves them free or partners in the same     *)
(* state.                                                                  *)
LEMMA PairUpdate ==
    ASSUME IInv, NEW c \in Controllers, NEW t \in Controllers, c # t,
           NEW P \in Program, InTable(P), NEW Q \in Program, InTable(Q),
           prog' = [prog EXCEPT ![c] = P, ![t] = Q], online' = online,
           c \in online, t \in online,
           Unbound(prog[c]) \/ prog[c].tag_target = t,
           Unbound(prog[t]) \/ prog[t].tag_target = c,
           \/ Unbound(P) /\ Unbound(Q)
           \/ /\ P.tag_target = t /\ Q.tag_target = c
              /\ P.dock_state = Q.dock_state /\ P.control_mode # Q.control_mode
    PROVE  StateTable' /\ PartnersAgree'
<1>1. /\ prog \in [Controllers -> Program]
      /\ online \subseteq Controllers
      /\ \A d \in Controllers : prog'[d] = IF d = t THEN Q
                                           ELSE IF d = c THEN P ELSE prog[d]
      /\ \A d \in Controllers : InTable(prog[d])
  BY DEF IInv, TypeOK, StateTable
<1>2. StateTable'
  BY <1>1 DEF StateTable
<1>3. ASSUME NEW d \in online, Bound(prog'[d]), prog'[d].tag_target \in online
      PROVE  /\ prog'[d].tag_target # d
             /\ prog'[prog'[d].tag_target].tag_target = d
             /\ prog'[prog'[d].tag_target].dock_state = prog'[d].dock_state
             /\ prog'[prog'[d].tag_target].control_mode # prog'[d].control_mode
  BY <1>1, <1>3 DEF IInv, PartnersAgree, Unbound, Bound
<1> QED BY <1>2, <1>3 DEF PartnersAgree

-----------------------------------------------------------------------------

Like(p, q) == SameEnd(p, q) /\ p.received_confirm = q.received_confirm
Ask(p, t) == [p EXCEPT !.tag_target = t, !.control_mode = "client"]

(* Two updates of one element of a function, with one of another element   *)
(* in between, come to the last of the two.                                *)
LEMMA Overwrite ==
    ASSUME NEW D, NEW R, NEW f \in [D -> R], NEW c \in D, NEW t \in D, c # t,
           NEW A, NEW B, NEW X
    PROVE  [[[f EXCEPT ![c] = A] EXCEPT ![t] = X] EXCEPT ![c] = B]
              = [f EXCEPT ![c] = B, ![t] = X]
OBVIOUS

(* The client's part of the answer to a request_dock. *)
LEMMA AskAnswered ==
    ASSUME NEW p \in Program, p.dock_state = "undocked", NEW t \in Controllers
    PROVE  OnConfirmDock(Ask(p, t), t) = [Ask(p, t) EXCEPT !.dock_state = "docking"]
<1>1. /\ Ask(p, t).dock_state = "undocked"
      /\ Ask(p, t).control_mode = "client"
      /\ Ask(p, t).tag_target = t
  BY DEF Ask, Program
<1> QED BY <1>1 DEF OnConfirmDock, Is

(* A request for docking binds nobody or both ends at once: the            *)
(* confirmation of the target arrives before initiate_docking() returns.   *)
LEMMA InitiateShape ==
    ASSUME IInv, NEW c \in Controllers, NEW t \in Controllers,
           InitiateDocking(c, t)
    PROVE  \/ prog' = [prog EXCEPT ![c] = Ask(prog[c], t)]
           \/ /\ Hears(t, c) /\ Accepts(prog[t])
              /\ prog' = [prog EXCEPT ![c] = [Ask(prog[c], t) EXCEPT !.dock_state = "docking"],
                                      ![t] = Accept(prog[t], c)]
<1> DEFINE S == [prog EXCEPT ![c].tag_target = t, ![c].control_mode = "client"]
<1>1. prog \in [Controllers -> Program] /\ prog[c].dock_state = "undocked"
  BY DEF IInv, TypeOK, InitiateDocking
<1>2. S = [prog EXCEPT ![c] = Ask(prog[c], t)]
  BY <1>1 DEF Ask
<1>3. prog' = DeliverRequest(S, t, c)
  BY DEF InitiateDocking
<1>4. CASE Hears(t, c) /\ Accepts(S[t])
  <2>1. t # c
    BY <1>4 DEF Hears
  <2>2. S[t] = prog[t] /\ S[c] = Ask(prog[c], t)
    BY <1>1, <1>2, <2>1
  <2> DEFINE T == [S EXCEPT ![t] = Accept(S[t], c)]
  <2>3. Hears(c, t)
    BY <1>4 DEF Hears
  <2>4. prog' = [T EXCEPT ![c] = OnConfirmDock(T[c], t)]
    BY <1>3, <1>4, <2>3 DEF DeliverRequest, Deliver
  <2>5. T[c] = Ask(prog[c], t)
    BY <1>1, <1>2, <2>1, <2>2
  <2> DEFINE B == [Ask(prog[c], t) EXCEPT !.dock_state = "docking"]
  <2>6. OnConfirmDock(T[c], t) = B
    BY <1>1, <2>5, AskAnswered
  <2>7. prog' = [[[prog EXCEPT ![c] = Ask(prog[c], t)]
                    EXCEPT ![t] = Accept(prog[t], c)] EXCEPT ![c] = B]
    BY <1>2, <2>2, <2>4, <2>6
  <2>8. prog' = [prog EXCEPT ![c] = B, ![t] = Accept(prog[t], c)]
    <3> HIDE DEF B
    <3> QED BY <1>1, <2>1, <2>7, Overwrite
  <2> QED BY <1>4, <2>2, <2>8
<1>5. CASE ~ (Hears(t, c) /\ Accepts(S[t]))
  BY <1>2, <1>3, <1>5 DEF DeliverRequest
<1> QED BY <1>4, <1>5

(* initiate_undocking() makes the client undocking, and its server too if  *)
(* it hears the request.                                                   *)
LEMMA UndockShape ==
    ASSUME IInv, NEW c \in Controllers, InitiateUndocking(c)
    PROVE  LET t == prog[c].tag_target
               P == [prog[c] EXCEPT !.dock_state = "undocking"]
               Q == [prog[t] EXCEPT !.dock_state = "undocking"]
           IN  /\ t \in Controllers
               /\ ~ Hears(t, c) => prog' = [prog EXCEPT ![c] = P]
               /\ Hears(t, c) => prog' = [prog EXCEPT ![c] = P, ![t] = Q]
<1> DEFINE t == prog[c].tag_target
           S == [prog EXCEPT ![c].dock_state = "undocking"]
<1>1. /\ prog \in [Controllers -> Program]
      /\ Is(prog[c], "client", "docked")
      /\ prog' = Deliver(S, t, c, OnRequestUndock)
      /\ InTable(prog[c])
  BY DEF IInv, TypeOK, InitiateUndocking, StateTable
<1>2. t \in Controllers
  BY <1>1 DEF InTable, Is, Program
<1>3. CASE Hears(t, c)
  <2>1. /\ t # c /\ t \in Controllers
        /\ Is(prog[t], "server", "docked") /\ prog[t].tag_target = c
    BY <1>1, <1>2, <1>3 DEF Hears, IInv, PartnersAgree, Bound, Is, StateTable, InTable,
       TypeOK, Program, Modes
  <2>2. S[t] = prog[t]
    BY <1>1, <2>1
  <2> QED BY <1>1, <1>2, <1>3, <2>1, <2>2 DEF Deliver, OnRequestUndock
<1>4. CASE ~ Hears(t, c)
  BY <1>1, <1>2, <1>4 DEF Deliver
<1> QED BY <1>2, <1>3, <1>4

(* force_undock() resets the client, and its partner too if it hears the   *)
(* dock_error.                                                             *)
LEMMA ForceShape ==
    ASSUME IInv, NEW c \in Controllers, ForceUndock(c)
    PROVE  LET t == prog[c].tag_target
           IN  /\ t \in Controllers
               /\ ~ Hears(t, c) => prog' = [prog EXCEPT ![c] = Reset(@)]
               /\ Hears(t, c) => prog' = [prog EXCEPT ![c] = Reset(@), ![t] = Reset(@)]
<1> DEFINE t == prog[c].tag_target
           S == Deliver(prog, t, c, OnDockError)
<1>1. /\ prog \in [Controllers -> Program]
      /\ Bound(prog[c])
      /\ prog' = [S EXCEPT ![c] = Reset(@)]
      /\ InTable(prog[c])
  BY DEF IInv, TypeOK, ForceUndock, StateTable, Bound
<1>2. t \in Controllers
  BY <1>1 DEF InTable, Bound, Program
<1>3. CASE Hears(t, c)
  <2>1. t # c /\ prog[t].tag_target = c
    BY <1>1, <1>2, <1>3 DEF Hears, IInv, PartnersAgree
  <2> QED BY <1>1, <1>2, <1>3, <2>1 DEF Deliver, OnDockError
<1>4. CASE ~ Hears(t, c)
  BY <1>1, <1>2, <1>4 DEF Deliver
<1> QED BY <1>2, <1>3, <1>4


(* The client's end of a docking that is complete. *)
Joined(p) == [p EXCEPT !.dock_state = "docked", !.response_sent = FALSE]
Confirmed(p) == [p EXCEPT !.received_confirm = TRUE]

(* The end of c becomes P, and the end of its partner t, if it hears, Q. *)
BothEnds(S, c, t, P, Q) ==
    S = IF Hears(t, c) THEN [prog EXCEPT ![c] = P, ![t] = Q]
                       ELSE [prog EXCEPT ![c] = P]

(* The partner of a bound program, if it hears, names it, is in the same   *)
(* state and plays the other role.                                         *)
LEMMA PartnerOf ==
    ASSUME IInv, NEW c \in Controllers, Bound(prog[c])
    PROVE  LET t == prog[c].tag_target
           IN  /\ t \in Controllers
               /\ prog[c].control_mode \in {"client", "server"}
               /\ Hears(t, c) =>
                     /\ t # c
                     /\ prog[t].tag_target = c
                     /\ prog[t].dock_state = prog[c].dock_state
                     /\ prog[c].control_mode = "client" => prog[t].control_mode = "server"
                     /\ prog[c].control_mode = "server" => prog[t].control_mode = "client"
<1> DEFINE t == prog[c].tag_target
<1>1. prog[c] \in Program /\ InTable(prog[c])
  BY DEF IInv, TypeOK, StateTable
<1>2. t \in Controllers /\ prog[c].control_mode \in {"client", "server"}
  BY <1>1 DEF InTable, Bound, Program, Modes
<1>3. ASSUME Hears(t, c)
      PROVE  /\ t # c
             /\ prog[t].tag_target = c
             /\ prog[t].dock_state = prog[c].dock_state
             /\ prog[t].control_mode # prog[c].control_mode
  BY <1>3, <1>2 DEF IInv, PartnersAgree, Hears
<1>4. ASSUME Hears(t, c) PROVE prog[t].control_mode \in {"client", "server"}
  BY <1>2, <1>3, <1>4 DEF IInv, TypeOK, StateTable, InTable, Bound, Program, Modes
<1> QED BY <1>2, <1>3, <1>4

(* What the first half of process() does to the two ends of a docking. *)
LEMMA StepShape ==
    ASSUME IInv, NEW c \in Controllers, NEW ready \in BOOLEAN
    PROVE  LET p == prog[c]
               t == prog[c].tag_target
               S == Step(prog, c, ready)
           IN  \/ S = prog
               \/ /\ p.control_mode = "client" /\ p.dock_state \in {"docking", "undocking"}
                  /\ BothEnds(S, c, t, Reported(p), Confirmed(prog[t]))
               \/ /\ Is(p, "server", "docking") /\ p.received_confirm
                  /\ BothEnds(S, c, t, Docked(p), Joined(prog[t]))
               \/ /\ Is(p, "server", "undocking") /\ p.received_confirm
                  /\ BothEnds(S, c, t, Reset(p), Reset(prog[t]))
<1> DEFINE p == prog[c]
           t == prog[c].tag_target
           S == Step(prog, c, ready)
<1>1. prog \in [Controllers -> Program]
  BY DEF IInv, TypeOK
<1>2. CASE ready /\ Is(p, "client", "docking") /\ ~ p.response_sent
  <2>1. /\ t \in Controllers
        /\ S = [Deliver(prog, t, c, OnConfirmDock) EXCEPT ![c] = Reported(@)]
    BY <1>2, PartnerOf DEF Step, Report, Is, Bound
  <2>2. Hears(t, c) => t # c /\ OnConfirmDock(prog[t], c) = Confirmed(prog[t])
    BY <1>2, PartnerOf DEF OnConfirmDock, Is, Bound, Confirmed
  <2>3. BothEnds(S, c, t, Reported(p), Confirmed(prog[t]))
    BY <1>1, <2>1, <2>2 DEF BothEnds, Deliver
  <2> QED BY <1>2, <2>3 DEF Is
<1>3. CASE ready /\ Is(p, "client", "undocking") /\ ~ p.response_sent
  <2>1. /\ t \in Controllers
        /\ S = [Deliver(prog, t, c, OnConfirmUndock) EXCEPT ![c] = Reported(@)]
    BY <1>3, PartnerOf DEF Step, Report, Is, Bound
  <2>2. Hears(t, c) => t # c /\ OnConfirmUndock(prog[t], c) = Confirmed(prog[t])
    BY <1>3, PartnerOf DEF OnConfirmUndock, Is, Bound, Confirmed
  <2>3. BothEnds(S, c, t, Reported(p), Confirmed(prog[t]))
    BY <1>1, <2>1, <2>2 DEF BothEnds, Deliver
  <2> QED BY <1>3, <2>3 DEF Is
<1>4. CASE ready /\ Is(p, "server", "docking") /\ p.received_confirm
  <2>1. /\ t \in Controllers
        /\ S = [Deliver(prog, t, c, OnConfirmDock) EXCEPT ![c] = Docked(@)]
    BY <1>4, PartnerOf DEF Step, FinishDocking, Is, Bound
  <2>2. Hears(t, c) => t # c /\ OnConfirmDock(prog[t], c) = Joined(prog[t])
    BY <1>4, PartnerOf DEF OnConfirmDock, Is, Bound, Joined
  <2>3. BothEnds(S, c, t, Docked(p), Joined(prog[t]))
    BY <1>1, <2>1, <2>2 DEF BothEnds, Deliver
  <2> QED BY <1>4, <2>3
<1>5. CASE ready /\ Is(p, "server", "undocking") /\ p.received_confirm
  <2>1. /\ t \in Controllers
        /\ S = [Deliver(prog, t, c, OnConfirmUndock) EXCEPT ![c] = Reset(@)]
    BY <1>5, PartnerOf DEF Step, FinishUndocking, Is, Bound
  <2>2. Hears(t, c) => t # c /\ OnConfirmUndock(prog[t], c) = Reset(prog[t])
    BY <1>5, PartnerOf DEF OnConfirmUndock, Is, Bound
  <2>3. BothEnds(S, c, t, Reset(p), Reset(prog[t]))
    BY <1>1, <2>1, <2>2 DEF BothEnds, Deliver
  <2> QED BY <1>5, <2>3
<1>6. CASE ~ ready \/ ~ \/ Is(p, "client", "docking") /\ ~ p.response_sent
                        \/ Is(p, "client", "undocking") /\ ~ p.response_sent
                        \/ Is(p, "server", "docking") /\ p.received_confirm
                        \/ Is(p, "server", "undocking") /\ p.received_confirm
  <2>1. S = prog
    BY <1>6 DEF Step, Report
  <2> QED BY <2>1
<1> QED BY <1>2, <1>3, <1>4, <1>5, <1>6

(* The second half of process() changes nothing that the table or the      *)
(* agreement looks at.                                                     *)
LEMMA ResendLike ==
    ASSUME NEW p \in Program
    PROVE  /\ Like(Resend(p), p)
           /\ InTable(p) => InTable(Resend(p))
<1>1. Like(Resend(p), p)
  BY DEF Resend, Like, SameEnd, Program
<1> QED BY <1>1 DEF InTable, Is, Like, SameEnd

(* A process() call of c changes c's end to something like P and its       *)
(* partner's end, if it hears, to Q.                                       *)
ProcessOutcome(c, P, Q) ==
    \E R \in Program : /\ Like(R, P)
                       /\ BothEnds(prog', c, prog[c].tag_target, R, Q)

(* process() changes one end alone in what only that end looks at, or      *)
(* carries a confirmation to the server, or completes what is under way at *)
(* both ends.                                                              *)
LEMMA ProcessShape ==
    ASSUME IInv, NEW c \in Controllers, NEW ready \in BOOLEAN, Process(c, ready)
    PROVE  LET p == prog[c]
               t == prog[c].tag_target
           IN  \/ \E R \in Program : Like(R, p) /\ prog' = [prog EXCEPT ![c] = R]
               \/ /\ p.control_mode = "client" /\ p.dock_state \in {"docking", "undocking"}
                  /\ ProcessOutcome(c, p, Confirmed(prog[t]))
               \/ /\ Is(p, "server", "docking") /\ p.received_confirm
                  /\ ProcessOutcome(c, Docked(p), Joined(prog[t]))
               \/ /\ Is(p, "server", "undocking") /\ p.received_confirm
                  /\ ProcessOutcome(c, Reset(p), Reset(prog[t]))
<1> DEFINE p == prog[c]
           t == prog[c].tag_target
           S == Step(prog, c, ready)
           T == [S EXCEPT ![c] = Resend(@)]
<1>1. /\ prog \in [Controllers -> Program]
      /\ p \in Program /\ InTable(p)
      /\ S \in [Controllers -> Program]
      /\ prog' = Repair(T, c)
  BY StepTypes DEF IInv, TypeOK, StateTable, Programs, Process
<1>2. T[c] = Resend(S[c]) /\ T[c] \in Program
  BY <1>1, ResendType
<1>3. ASSUME InTable(S[c]) PROVE prog' = T
  <2>1. InTable(T[c])
    BY <1>1, <1>2, <1>3, ResendLike
  <2> QED BY <1>1, <2>1 DEF Repair, InTable, Is
<1>4. ASSUME NEW P \in Program, NEW Q \in Program, InTable(P),
             BothEnds(S, c, t, P, Q)
      PROVE  Like(Resend(P), P) /\ BothEnds(prog', c, t, Resend(P), Q)
  <2>1. S[c] = P
    BY <1>1, <1>4 DEF BothEnds, Hears
  <2>2. prog' = [S EXCEPT ![c] = Resend(P)]
    BY <1>3, <1>4, <2>1
  <2>3. CASE Hears(t, c)
    <3>1. S = [prog EXCEPT ![c] = P, ![t] = Q] /\ t # c
      BY <1>4, <2>3 DEF BothEnds, Hears
    <3>2. [S EXCEPT ![c] = Resend(P)] = [prog EXCEPT ![c] = Resend(P), ![t] = Q]
      <4>1. \A x : [[prog EXCEPT ![c] = P, ![t] = Q] EXCEPT ![c] = x]
                     = [prog EXCEPT ![c] = x, ![t] = Q]
        BY <1>1, <3>1
      <4> QED BY <3>1, <4>1
    <3> QED BY <1>4, <2>2, <2>3, <3>2, ResendLike DEF BothEnds
  <2>4. CASE ~ Hears(t, c)
    <3>1. S = [prog EXCEPT ![c] = P]
      BY <1>4, <2>4 DEF BothEnds
    <3>2. [S EXCEPT ![c] = Resend(P)] = [prog EXCEPT ![c] = Resend(P)]
      BY <1>1, <3>1
    <3> QED BY <1>4, <2>2, <2>4, <3>2, ResendLike DEF BothEnds
  <2> QED BY <2>3, <2>4
<1>5. CASE S = prog
  <2>1. prog' = [prog EXCEPT ![c] = Resend(p)]
    BY <1>1, <1>3, <1>5
  <2> QED BY <1>1, <2>1, ResendLike, ResendType
<1>6. CASE /\ p.control_mode = "client" /\ p.dock_state \in {"docking", "undocking"}
           /\ BothEnds(S, c, t, Reported(p), Confirmed(prog[t]))
  <2>1. t \in Controllers
    BY <1>6, PartnerOf DEF Bound
  <2>2. Confirmed(prog[t]) \in Program /\ Reported(p) \in Program
    BY <1>1, <2>1, HandlerTypes DEF Confirmed, Program
  <2>3. InTable(Reported(p)) /\ Like(Reported(p), p)
    BY <1>1 DEF InTable, Is, Reported, Program, Like, SameEnd
  <2>4. /\ Like(Resend(Reported(p)), p) /\ Resend(Reported(p)) \in Program
        /\ BothEnds(prog', c, t, Resend(Reported(p)), Confirmed(prog[t]))
    BY <1>4, <1>6, <2>2, <2>3, ResendType DEF Like, SameEnd
  <2> QED BY <1>6, <2>4 DEF ProcessOutcome
<1>7. CASE /\ Is(p, "server", "docking") /\ p.received_confirm
           /\ BothEnds(S, c, t, Docked(p), Joined(prog[t]))
  <2>1. t \in Controllers
    BY <1>7, PartnerOf DEF Bound, Is
  <2>2. Joined(prog[t]) \in Program /\ Docked(p) \in Program
    <3>1. prog[t] \in Program
      BY <1>1, <2>1
    <3>2. Joined(prog[t]) \in Program
      BY <3>1 DEF Joined, Program, DockStates
    <3> QED BY <1>1, <2>1, <3>2, HandlerTypes
  <2>3. InTable(Docked(p))
    BY <1>1, <1>7 DEF InTable, Is, Docked, Program
  <2> QED BY <1>4, <1>7, <2>2, <2>3, ResendType DEF ProcessOutcome
<1>8. CASE /\ Is(p, "server", "undocking") /\ p.received_confirm
           /\ BothEnds(S, c, t, Reset(p), Reset(prog[t]))
  <2>1. t \in Controllers
    BY <1>8, PartnerOf DEF Bound, Is
  <2>2. Reset(prog[t]) \in Program /\ Reset(p) \in Program
    BY <1>1, <2>1, HandlerTypes
  <2>3. InTable(Reset(p))
    BY <1>1 DEF InTable, Is, Reset, Program
  <2> QED BY <1>4, <1>8, <2>2, <2>3, ResendType DEF ProcessOutcome
<1> QED BY <1>5, <1>6, <1>7, <1>8, StepShape

-----------------------------------------------------------------------------

(* initiate_docking() keeps the table and the agreement. *)
LEMMA InitiateInv ==
    ASSUME IInv, NEW c \in Controllers, NEW t \in Controllers,
           InitiateDocking(c, t)
    PROVE  StateTable' /\ PartnersAgree'
<1> DEFINE p == prog[c]
           A == Ask(p, t)
           B == [Ask(p, t) EXCEPT !.dock_state = "docking"]
<1>1. /\ online' = online
      /\ p \in Program /\ prog[t] \in Program
      /\ InTable(p) /\ InTable(prog[t])
      /\ p.dock_state = "undocked" /\ p.control_mode # "server"
      /\ t # NoTag
  BY NoTagAssumption DEF InitiateDocking, IInv, TypeOK, StateTable
<1>2. A \in Program /\ InTable(A)
  BY <1>1 DEF Ask, InTable, Is, Program, Modes
<1>3. B \in Program /\ InTable(B) /\ B.tag_target = t /\ B.dock_state = "docking"
      /\ B.control_mode = "client"
  BY <1>1 DEF Ask, InTable, Is, Program, Modes, DockStates
<1>4. CASE prog' = [prog EXCEPT ![c] = A]
  <2>1. Unbound(p) /\ Unbound(A)
    BY <1>1 DEF Unbound, Bound, Ask, Program
  <2> QED BY <1>1, <1>2, <1>4, <2>1, SoloUpdate
<1>5. CASE /\ Hears(t, c) /\ Accepts(prog[t])
           /\ prog' = [prog EXCEPT ![c] = B, ![t] = Accept(prog[t], c)]
  <2>1. /\ c \in online /\ t \in online /\ c # t
        /\ Unbound(p) /\ Unbound(prog[t])
    BY <1>1, <1>5 DEF Hears, Accepts, Is, Unbound, Bound
  <2>2. /\ Accept(prog[t], c).tag_target = c
        /\ Accept(prog[t], c).dock_state = "docking"
        /\ Accept(prog[t], c).control_mode = "server"
        /\ Accept(prog[t], c).received_confirm = prog[t].received_confirm
    BY <1>1 DEF Accept, Program
  <2>3. Accept(prog[t], c) \in Program
    BY <1>1, HandlerTypes
  <2>4. InTable(Accept(prog[t], c))
    BY <2>2, NoTagAssumption DEF InTable, Is
  <2> HIDE DEF B
  <2> QED BY <1>1, <1>3, <1>5, <2>1, <2>2, <2>3, <2>4, PairUpdate
<1> QED BY <1>4, <1>5, InitiateShape

(* Both ends leave the link. *)
LEMMA ResetInv ==
    ASSUME IInv, NEW c \in Controllers, Bound(prog[c]), online' = online,
           NEW R \in Program, Like(R, Reset(prog[c])),
           BothEnds(prog', c, prog[c].tag_target, R, Reset(prog[prog[c].tag_target]))
    PROVE  StateTable' /\ PartnersAgree'
<1> DEFINE t == prog[c].tag_target
           Q == Reset(prog[t])
<1>1. /\ t \in Controllers
      /\ prog[c] \in Program /\ prog[t] \in Program
      /\ Hears(t, c) => t # c /\ prog[t].tag_target = c
  BY PartnerOf DEF IInv, TypeOK
<1>2. ASSUME NEW p \in Program
      PROVE  InTable(Reset(p)) /\ Unbound(Reset(p))
  BY DEF InTable, Is, Unbound, Bound, Reset, Program
<1>3. InTable(R) /\ Unbound(R) /\ InTable(Q) /\ Unbound(Q) /\ Q \in Program
  <2>1. InTable(R) /\ Unbound(R)
    BY <1>1, <1>2 DEF InTable, Is, Unbound, Bound, Like, SameEnd
  <2>2. InTable(Q) /\ Unbound(Q)
    BY <1>1, <1>2
  <2>3. Q \in Program
    BY <1>1, HandlerTypes
  <2> QED BY <2>1, <2>2, <2>3
<1>4. CASE Hears(t, c)
  <2>1. prog' = [prog EXCEPT ![c] = R, ![t] = Q] /\ c \in online /\ t \in online
    BY <1>4 DEF BothEnds, Hears
  <2> HIDE DEF Q
  <2> QED BY <1>1, <1>3, <1>4, <2>1, PairUpdate
<1>5. CASE ~ Hears(t, c)
  <2>1. prog' = [prog EXCEPT ![c] = R]
    BY <1>5 DEF BothEnds
  <2> QED BY <1>3, <1>5, <2>1, SoloUpdate
<1> QED BY <1>4, <1>5

(* Both ends go on to the next state of the link. *)
LEMMA AdvanceInv ==
    ASSUME IInv, NEW c \in Controllers, Bound(prog[c]), online' = online,
           NEW R \in Program,
           R.tag_target = prog[c].tag_target,
           R.control_mode = prog[c].control_mode,
           R.dock_state \in {"docked", "undocking"}, ~ R.received_confirm,
           NEW Q,
           Hears(prog[c].tag_target, c) =>
              /\ Q \in Program
              /\ Q.tag_target = c
              /\ Q.control_mode = prog[prog[c].tag_target].control_mode
              /\ Q.dock_state = R.dock_state /\ ~ Q.received_confirm,
           BothEnds(prog', c, prog[c].tag_target, R, Q)
    PROVE  StateTable' /\ PartnersAgree'
<1> DEFINE t == prog[c].tag_target
<1>1. /\ t \in Controllers
      /\ prog[c].control_mode \in {"client", "server"}
      /\ Hears(t, c) => /\ t # c /\ prog[t].tag_target = c
                        /\ prog[t].control_mode \in {"client", "server"}
                        /\ prog[t].control_mode # prog[c].control_mode
  BY PartnerOf
<1>2. InTable(R) /\ Bound(R)
  BY <1>1, NoTagAssumption DEF InTable, Is, Bound
<1>3. CASE Hears(t, c)
  <2>1. /\ prog' = [prog EXCEPT ![c] = R, ![t] = Q]
        /\ c \in online /\ t \in online
        /\ R.control_mode # Q.control_mode
    BY <1>1, <1>3 DEF BothEnds, Hears
  <2>2. InTable(Q)
    BY <1>1, <1>3, NoTagAssumption DEF InTable, Is
  <2> QED BY <1>1, <1>2, <1>3, <2>1, <2>2, PairUpdate
<1>4. CASE ~ Hears(t, c)
  <2>1. prog' = [prog EXCEPT ![c] = R]
    BY <1>4 DEF BothEnds
  <2> QED BY <1>2, <1>4, <2>1, SoloUpdate
<1> QED BY <1>3, <1>4

(* initiate_undocking() keeps them. *)
LEMMA UndockInv ==
    ASSUME IInv, NEW c \in Controllers, InitiateUndocking(c)
    PROVE  StateTable' /\ PartnersAgree'
<1> DEFINE t == prog[c].tag_target
           P == [prog[c] EXCEPT !.dock_state = "undocking"]
           Q == [prog[t] EXCEPT !.dock_state = "undocking"]
<1>1. /\ prog[c] \in Program /\ Is(prog[c], "client", "docked")
      /\ InTable(prog[c]) /\ online' = online
      /\ t \in Controllers /\ prog[t] \in Program /\ InTable(prog[t])
  BY UndockShape DEF IInv, TypeOK, StateTable, InitiateUndocking
<1>2. BothEnds(prog', c, t, P, Q)
  BY UndockShape DEF BothEnds
<1>3. /\ P \in Program /\ P.tag_target = t /\ P.control_mode = prog[c].control_mode
      /\ P.dock_state = "undocking" /\ ~ P.received_confirm
  BY <1>1 DEF Program, DockStates, InTable, Is
<1>4. Hears(t, c) => prog[t].tag_target = c /\ prog[t].dock_state = "docked"
  BY <1>1, PartnerOf DEF Is, Bound
<1>5. /\ Q \in Program /\ Q.tag_target = prog[t].tag_target
      /\ Q.control_mode = prog[t].control_mode /\ Q.dock_state = "undocking"
      /\ prog[t].dock_state = "docked" => ~ Q.received_confirm
  BY <1>1 DEF Program, DockStates, InTable
<1> HIDE DEF P, Q
<1> QED BY <1>1, <1>2, <1>3, <1>4, <1>5, AdvanceInv DEF Is, Bound

(* force_undock() keeps them. *)
LEMMA ForceInv ==
    ASSUME IInv, NEW c \in Controllers, ForceUndock(c)
    PROVE  StateTable' /\ PartnersAgree'
<1> DEFINE t == prog[c].tag_target
<1>1. /\ prog \in [Controllers -> Program]
      /\ t \in Controllers /\ Bound(prog[c]) /\ online' = online
      /\ Hears(t, c) => t # c
  BY ForceShape, PartnerOf DEF IInv, TypeOK, ForceUndock, Bound
<1>2. BothEnds(prog', c, t, Reset(prog[c]), Reset(prog[t]))
  BY <1>1, ForceShape DEF BothEnds
<1>3. Reset(prog[c]) \in Program /\ Like(Reset(prog[c]), Reset(prog[c]))
  BY <1>1, HandlerTypes DEF Like, SameEnd
<1> QED BY <1>1, <1>2, <1>3, ResetInv

(* process() keeps them. *)
LEMMA ProcessInv ==
    ASSUME IInv, NEW c \in Controllers, NEW ready \in BOOLEAN, Process(c, ready)
    PROVE  StateTable' /\ PartnersAgree'
<1> DEFINE p == prog[c]
           t == prog[c].tag_target
<1>1. /\ prog \in [Controllers -> Program] /\ p \in Program /\ InTable(p)
      /\ c \in online /\ online' = online
  BY DEF IInv, TypeOK, StateTable, Process
<1>2. CASE \E R \in Program : Like(R, p) /\ prog' = [prog EXCEPT ![c] = R]
  <2>1. PICK R \in Program : Like(R, p) /\ prog' = [prog EXCEPT ![c] = R]
    BY <1>2
  <2>2. InTable(R) /\ SameEnd(prog[c], R)
    BY <1>1, <2>1 DEF InTable, Is, Like, SameEnd
  <2> QED BY <1>1, <2>1, <2>2, SoloUpdate
<1>3. CASE /\ p.control_mode = "client" /\ p.dock_state \in {"docking", "undocking"}
           /\ ProcessOutcome(c, p, Confirmed(prog[t]))
  <2>1. PICK R \in Program :
          Like(R, p) /\ BothEnds(prog', c, t, R, Confirmed(prog[t]))
    BY <1>3 DEF ProcessOutcome
  <2>2. InTable(R) /\ SameEnd(prog[c], R)
    BY <1>1, <2>1 DEF InTable, Is, Like, SameEnd
  <2>3. CASE ~ Hears(t, c)
    BY <1>1, <2>1, <2>2, <2>3, SoloUpdate DEF BothEnds
  <2>4. CASE Hears(t, c)
    <3>1. /\ t \in Controllers /\ t # c /\ t \in online
          /\ prog[t].tag_target = c
          /\ prog[t].dock_state = p.dock_state
          /\ prog[t].control_mode = "server"
          /\ prog[t] \in Program
      BY <1>1, <1>3, <2>4, PartnerOf DEF Bound, Hears
    <3> DEFINE Q == Confirmed(prog[t])
    <3>2. /\ Q \in Program /\ Q.tag_target = c /\ Q.dock_state = p.dock_state
          /\ Q.control_mode = "server"
      BY <3>1 DEF Confirmed, Program
    <3>3. InTable(Q)
      BY <1>1, <1>3, <3>2, NoTagAssumption DEF InTable, Is
    <3>4. prog' = [prog EXCEPT ![c] = R, ![t] = Q]
      BY <2>1, <2>4 DEF BothEnds
    <3> HIDE DEF Q
    <3> QED BY <1>1, <1>3, <2>1, <2>2, <3>1, <3>2, <3>3, <3>4, PairUpdate
        DEF Like, SameEnd
  <2> QED BY <2>3, <2>4
<1>4. CASE /\ Is(p, "server", "docking") /\ p.received_confirm
           /\ ProcessOutcome(c, Docked(p), Joined(prog[t]))
  <2>1. PICK R \in Program :
          Like(R, Docked(p)) /\ BothEnds(prog', c, t, R, Joined(prog[t]))
    BY <1>4 DEF ProcessOutcome
  <2>2. /\ R.tag_target = p.tag_target /\ R.control_mode = p.control_mode
        /\ R.dock_state = "docked" /\ ~ R.received_confirm
    BY <1>1, <2>1 DEF Like, SameEnd, Docked, Program
  <2>3. /\ t \in Controllers /\ Bound(p)
        /\ Hears(t, c) => prog[t].tag_target = c /\ prog[t].control_mode = "client"
    BY <1>4, PartnerOf DEF Is, Bound
  <2> DEFINE Q == Joined(prog[t])
  <2>4. prog[t] \in Program /\ InTable(prog[t])
    BY <2>3 DEF IInv, TypeOK, StateTable
  <2>5. /\ Q \in Program /\ Q.tag_target = prog[t].tag_target
        /\ Q.control_mode = prog[t].control_mode /\ Q.dock_state = "docked"
        /\ Q.received_confirm = prog[t].received_confirm
    BY <2>4 DEF Joined, Program, DockStates
  <2>6. Hears(t, c) => ~ Q.received_confirm
    BY <2>3, <2>4, <2>5 DEF InTable
  <2> HIDE DEF Q
  <2> QED BY <1>1, <2>1, <2>2, <2>3, <2>5, <2>6, AdvanceInv DEF Q
<1>5. CASE /\ Is(p, "server", "undocking") /\ p.received_confirm
           /\ ProcessOutcome(c, Reset(p), Reset(prog[t]))
  <2>1. Bound(p)
    BY <1>5 DEF Is, Bound
  <2> QED BY <1>1, <1>5, <2>1, ResetInv DEF ProcessOutcome
<1> QED BY <1>2, <1>3, <1>4, <1>5, ProcessShape

(***************************************************************************)
(* The inductive invariant: types, state table and agreement, whichever    *)
(* machines are lost.  The table alone is not inductive: what a signal     *)
(* does to its receiver depends on the state the sender believes it to be  *)
(* in, and the agreement says that this is its state.                      *)
(***************************************************************************)
THEOREM Invariant == Spec => []IInv
<1>1. Init => IInv
  BY ResendAssumption DEF Init, IInv, TypeOK, StateTable, PartnersAgree, InTable, Is, Bound,
     NewProgram, Program, DockStates, Modes
<1>2. IInv /\ TypeOK' /\ [Next]_vars => IInv'
  <2> SUFFICES ASSUME IInv, TypeOK', [Next]_vars
               PROVE  StateTable' /\ PartnersAgree'
    BY DEF IInv
  <2>1. ASSUME NEW r \in Routes, InitiateDocking(r[1], r[2])
        PROVE  StateTable' /\ PartnersAgree'
    BY <2>1, InitiateInv, RoutesAssumption
  <2>2. ASSUME NEW c \in Shuttles, InitiateUndocking(c) \/ ForceUndock(c)
        PROVE  StateTable' /\ PartnersAgree'
    <3>1. c \in Controllers
      BY RoutesAssumption DEF Shuttles
    <3> QED BY <2>2, <3>1, UndockInv, ForceInv
  <2>3. ASSUME NEW c \in Controllers, NEW ready \in BOOLEAN, Process(c, ready)
        PROVE  StateTable' /\ PartnersAgree'
    BY <2>3, ProcessInv
  <2>4. ASSUME NEW c \in Controllers, Destroy(c)
        PROVE  StateTable' /\ PartnersAgree'
    BY <2>4 DEF Destroy, IInv, StateTable, PartnersAgree
  <2>5. CASE UNCHANGED vars
    BY <2>5 DEF vars, IInv, StateTable, PartnersAgree
  <2> QED BY <2>1, <2>2, <2>3, <2>4, <2>5 DEF Next, Abrupt, Orderly
<1> QED BY <1>1, <1>2, TypeCorrect, PTL DEF Spec

(* No docking program ever reaches a state that the table at               *)
(* docking_program.dm l.13-27 calls impossible: the repairs at the end of  *)
(* process() are never needed.                                             *)
THEOREM TableHolds == Spec => []StateTable
BY Invariant, PTL DEF IInv

(* The two ends of a docking, both standing, always agree: they name each  *)
(* other, are in the same dock_state and play opposite roles, however      *)
(* shuttles leave and whichever machines are lost.                         *)
THEOREM Agreement == Spec => []PartnersAgree
BY Invariant, PTL DEF IInv

-----------------------------------------------------------------------------

(* A program whose port is not ready changes nothing its partner sees. *)
LEMMA UnreadyShape ==
    ASSUME IInv, NEW c \in Controllers, Process(c, FALSE)
    PROVE  \E R \in Program : Like(R, prog[c]) /\ prog' = [prog EXCEPT ![c] = R]
<1> DEFINE T == [prog EXCEPT ![c] = Resend(@)]
<1>1. /\ prog \in [Controllers -> Program]
      /\ prog[c] \in Program /\ InTable(prog[c])
  BY DEF IInv, TypeOK, StateTable
<1>2. prog' = Repair(T, c)
  BY DEF Process, Step
<1>3. /\ T[c] = Resend(prog[c])
      /\ Resend(prog[c]) \in Program
      /\ Like(Resend(prog[c]), prog[c]) /\ InTable(Resend(prog[c]))
  BY <1>1, ResendType, ResendLike
<1>4. prog' = T
  BY <1>2, <1>3 DEF Repair, InTable, Is
<1> QED BY <1>1, <1>3, <1>4

(* The handshake in the order of its states. *)
Follows(next, state) ==
    \/ next = state
    \/ state = "undocked" /\ next = "docking"
    \/ state = "docking" /\ next = "docked"
    \/ state = "docked" /\ next = "undocking"
    \/ state = "undocking" /\ next = "undocked"

(* What a step does to the ends that m and n, which stand, hold of a       *)
(* docking: m goes through the handshake in order, and the confirmation of *)
(* a server comes from a client whose port is ready.                       *)
InOrder(m) == Follows(prog'[m].dock_state, prog[m].dock_state)

Holds(s, c) == prog[s].received_confirm /\ prog[s].tag_target = c
StillHolds(s, c) == Holds(s, c) /\ ~ Changed(c)

(* A server that holds a confirmation is in the state of the client it     *)
(* names.                                                                  *)
LEMMA HolderAgrees ==
    ASSUME IInv, NEW s \in online, NEW c \in online, Holds(s, c)
    PROVE  /\ s \in Controllers /\ c \in Controllers /\ s # c
           /\ Bound(prog[c]) /\ prog[c].tag_target = s
           /\ prog[c].dock_state = prog[s].dock_state
           /\ prog[c].dock_state \in {"docking", "undocking"}
           /\ prog[s].control_mode = "server" /\ prog[c].control_mode # "server"
<1>1. s \in Controllers /\ c \in Controllers /\ InTable(prog[s])
  BY DEF IInv, TypeOK, StateTable
<1>2. prog[s].control_mode = "server" /\ prog[s].dock_state \in {"docking", "undocking"}
  BY <1>1 DEF InTable, Holds
<1> QED BY <1>1, <1>2 DEF IInv, PartnersAgree, Bound, Holds

(* initiate_docking() starts a docking of two ends that were free. *)
LEMMA InitiateOrder ==
    ASSUME IInv, NEW c \in Controllers, NEW t \in Controllers, InitiateDocking(c, t)
    PROVE  /\ \A m \in Controllers : InOrder(m) /\ ~ Completes(m)
           /\ \A s, d \in online : Holds(s, d)' => StillHolds(s, d)
<1>1. /\ prog \in [Controllers -> Program]
      /\ prog[c].dock_state = "undocked" /\ prog[c] \in Program /\ prog[t] \in Program
      /\ InTable(prog[c]) /\ InTable(prog[t])
      /\ online' = online /\ online \subseteq Controllers
  BY DEF IInv, TypeOK, StateTable, InitiateDocking
<1>2. ~ prog[c].received_confirm
  BY <1>1 DEF InTable
<1> DEFINE A == Ask(prog[c], t)
           B == [Ask(prog[c], t) EXCEPT !.dock_state = "docking"]
           Q == Accept(prog[t], c)
<1>3. /\ A.dock_state = "undocked" /\ ~ A.received_confirm
      /\ B.dock_state = "docking" /\ ~ B.received_confirm
  BY <1>1, <1>2 DEF Ask, Program
<1>4. CASE prog' = [prog EXCEPT ![c] = A]
  <2> HIDE DEF A
  <2>1. \A m \in Controllers : prog'[m] = IF m = c THEN A ELSE prog[m]
    BY <1>1, <1>4
  <2>2. \A m \in Controllers : ~ Changed(m)
    BY <1>1, <1>3, <2>1 DEF Changed
  <2>3. ASSUME NEW s \in online, NEW d \in online, Holds(s, d)' PROVE Holds(s, d)
    BY <1>1, <1>3, <2>1, <2>3 DEF Holds
  <2> QED BY <1>1, <2>2, <2>3 DEF InOrder, Follows, Completes, StillHolds, Changed
<1>5. CASE /\ Hears(t, c) /\ Accepts(prog[t])
           /\ prog' = [prog EXCEPT ![c] = B, ![t] = Q]
  <2>1. /\ t # c /\ prog[t].dock_state = "undocked" /\ ~ prog[t].received_confirm
        /\ Q.dock_state = "docking" /\ ~ Q.received_confirm
    BY <1>1, <1>5 DEF Hears, Accepts, Is, Accept, InTable, Program
  <2> HIDE DEF B, Q
  <2>2. \A m \in Controllers : prog'[m] = IF m = t THEN Q ELSE IF m = c THEN B ELSE prog[m]
    BY <1>1, <1>5
  <2>3. \A m \in Controllers : InOrder(m) /\ ~ Completes(m)
    BY <1>1, <1>3, <2>1, <2>2 DEF InOrder, Follows, Completes
  <2>4. ASSUME NEW s \in online, NEW d \in online, Holds(s, d)'
        PROVE  Holds(s, d) /\ ~ Changed(d)
    <3>1. Holds(s, d)
      BY <1>1, <1>3, <2>1, <2>2, <2>4 DEF Holds
    <3>2. d # c /\ d # t
      BY <1>1, <2>1, <3>1, HolderAgrees DEF Bound
    <3> QED BY <1>1, <2>2, <3>1, <3>2 DEF Changed
  <2> QED BY <2>3, <2>4 DEF StillHolds
<1> QED BY <1>4, <1>5, InitiateShape

(* initiate_undocking() leaves a docking that both ends had completed. *)
LEMMA UndockOrder ==
    ASSUME IInv, NEW c \in Controllers, InitiateUndocking(c)
    PROVE  /\ \A m \in Controllers : InOrder(m) /\ ~ Completes(m)
           /\ \A s, d \in online : Holds(s, d)' => StillHolds(s, d)
<1> DEFINE t == prog[c].tag_target
           P == [prog[c] EXCEPT !.dock_state = "undocking"]
           Q == [prog[t] EXCEPT !.dock_state = "undocking"]
<1>1. /\ prog \in [Controllers -> Program] /\ t \in Controllers
      /\ Is(prog[c], "client", "docked") /\ prog[c] \in Program /\ prog[t] \in Program
      /\ online' = online /\ online \subseteq Controllers
  BY UndockShape DEF IInv, TypeOK, InitiateUndocking
<1>2. Hears(t, c) => t # c /\ prog[t].dock_state = "docked"
  BY <1>1, PartnerOf DEF Bound, Is
<1>3. /\ P.dock_state = "undocking" /\ P.received_confirm = prog[c].received_confirm
      /\ P.tag_target = prog[c].tag_target
      /\ Q.dock_state = "undocking" /\ Q.received_confirm = prog[t].received_confirm
      /\ Q.tag_target = prog[t].tag_target
  BY <1>1 DEF Program
<1>4. \A m \in Controllers :
         prog'[m] = IF m = t /\ Hears(t, c) THEN Q ELSE IF m = c THEN P ELSE prog[m]
  <2> HIDE DEF P, Q
  <2>1. /\ ~ Hears(t, c) => prog' = [prog EXCEPT ![c] = P]
        /\ Hears(t, c) => prog' = [prog EXCEPT ![c] = P, ![t] = Q]
    BY UndockShape DEF P, Q
  <2> QED BY <1>1, <2>1
<1> HIDE DEF P, Q
<1>5. \A m \in Controllers : InOrder(m) /\ ~ Completes(m)
  BY <1>1, <1>2, <1>3, <1>4 DEF InOrder, Follows, Completes, Is
<1>6. ASSUME NEW s \in online, NEW d \in online, Holds(s, d)'
      PROVE  Holds(s, d) /\ ~ Changed(d)
  <2>1. Holds(s, d)
    BY <1>1, <1>3, <1>4, <1>6 DEF Holds
  <2>2. d # c /\ (Hears(t, c) => d # t)
    BY <1>1, <1>2, <2>1, HolderAgrees DEF Is
  <2> QED BY <1>1, <1>4, <2>1, <2>2 DEF Changed
<1> QED BY <1>5, <1>6 DEF StillHolds

(* force_undock() frees both ends: what others hold stays as it is, and no *)
(* controller is brought into a state of the handshake.                    *)
LEMMA ForceOrder ==
    ASSUME IInv, NEW c \in Controllers, ForceUndock(c)
    PROVE  /\ \A m \in Controllers : Changed(m) => ~ Bound(prog'[m])
           /\ \A s, d \in online : Holds(s, d)' => StillHolds(s, d)
<1> DEFINE t == prog[c].tag_target
<1>1. /\ prog \in [Controllers -> Program] /\ t \in Controllers
      /\ Bound(prog[c]) /\ prog[c] \in Program /\ prog[t] \in Program
      /\ online' = online /\ online \subseteq Controllers
  BY ForceShape DEF IInv, TypeOK, ForceUndock, Bound
<1>2. Hears(t, c) => t # c /\ prog[t].tag_target = c
  BY <1>1, PartnerOf
<1>3. \A m \in Controllers :
         prog'[m] = IF m = c \/ (m = t /\ Hears(t, c)) THEN Reset(prog[m]) ELSE prog[m]
  BY <1>1, <1>2, ForceShape
<1>4. \A p \in Program : Reset(p).dock_state = "undocked" /\ ~ Reset(p).received_confirm
  BY DEF Reset, Program
<1>5. \A m \in Controllers : Changed(m) => ~ Bound(prog'[m])
  BY <1>1, <1>3, <1>4 DEF Changed, Bound
<1>6. ASSUME NEW s \in online, NEW d \in online, Holds(s, d)'
      PROVE  Holds(s, d) /\ ~ Changed(d)
  <2>1. Holds(s, d) /\ s # c /\ (Hears(t, c) => s # t)
    BY <1>1, <1>3, <1>4, <1>6 DEF Holds
  <2>2. d # c
    <3>1. d = c => s = t /\ Hears(t, c)
      BY <1>1, <2>1, HolderAgrees DEF Hears
    <3> QED BY <2>1, <3>1
  <2>3. Hears(t, c) => d # t
    BY <1>2, <2>1, HolderAgrees
  <2> QED BY <1>1, <1>3, <2>1, <2>2, <2>3 DEF Changed
<1> QED BY <1>5, <1>6 DEF StillHolds

(* process() completes what a client has confirmed, or carries the         *)
(* confirmation of a client whose port is ready.                           *)
LEMMA ProcessOrder ==
    ASSUME IInv, NEW c \in Controllers, NEW ready \in BOOLEAN, Process(c, ready)
    PROVE  /\ \A m \in Controllers : InOrder(m)
           /\ \A m \in online : Completes(m) =>
                 \/ m = c /\ ready
                 \/ Holds(c, m) /\ c \in online
           /\ \A s, d \in online : Holds(s, d)' =>
                 \/ StillHolds(s, d)
                 \/ d = c /\ ready /\ Bound(prog[c]) /\ ~ Changed(d)
<1> DEFINE p == prog[c]
           t == prog[c].tag_target
<1>1. /\ prog \in [Controllers -> Program] /\ p \in Program /\ InTable(p)
      /\ online' = online /\ online \subseteq Controllers /\ c \in online
  BY DEF IInv, TypeOK, StateTable, Process
<1>2. CASE \E R \in Program : Like(R, p) /\ prog' = [prog EXCEPT ![c] = R]
  <2>1. \A m \in Controllers : /\ prog'[m].dock_state = prog[m].dock_state
                              /\ prog'[m].received_confirm = prog[m].received_confirm
                              /\ prog'[m].tag_target = prog[m].tag_target
    BY <1>1, <1>2 DEF Like, SameEnd
  <2> QED BY <1>1, <2>1 DEF InOrder, Follows, Completes, Holds, StillHolds, Changed
<1>3. CASE /\ ready /\ Bound(p)
           /\ p.control_mode = "client" /\ p.dock_state \in {"docking", "undocking"}
           /\ ProcessOutcome(c, p, Confirmed(prog[t]))
  <2>1. /\ t \in Controllers /\ prog[t] \in Program
        /\ Hears(t, c) => t # c /\ prog[t].tag_target = c
    BY <1>1, <1>3, PartnerOf
  <2> DEFINE Q == Confirmed(prog[t])
  <2>2. Q.dock_state = prog[t].dock_state /\ Q.tag_target = prog[t].tag_target
    BY <2>1 DEF Confirmed, Program
  <2> HIDE DEF Q
  <2>3. PICK R \in Program : Like(R, p) /\ BothEnds(prog', c, t, R, Q)
    BY <1>3 DEF ProcessOutcome, Q
  <2>4. \A m \in Controllers :
           prog'[m] = IF m = t /\ Hears(t, c) THEN Q ELSE IF m = c THEN R ELSE prog[m]
    BY <1>1, <2>1, <2>3 DEF BothEnds
  <2>5. \A m \in Controllers : /\ prog'[m].dock_state = prog[m].dock_state
                              /\ prog'[m].tag_target = prog[m].tag_target
    BY <1>1, <2>2, <2>3, <2>4 DEF Like, SameEnd
  <2>6. ASSUME NEW s \in online, NEW d \in online, Holds(s, d)'
        PROVE  Holds(s, d) \/ d = c
    <3>1. CASE s = t /\ Hears(t, c)
      BY <1>1, <2>1, <2>5, <2>6, <3>1 DEF Holds
    <3>2. CASE ~ (s = t /\ Hears(t, c))
      BY <1>1, <2>3, <2>4, <2>6, <3>2 DEF Holds, Like, SameEnd
    <3> QED BY <3>1, <3>2
  <2> QED BY <1>1, <1>3, <2>5, <2>6 DEF InOrder, Follows, Completes, StillHolds, Changed
<1>4. ASSUME NEW P \in Program, NEW Q \in Program, ready, Bound(p), p.received_confirm,
             p.control_mode = "server",
             \/ p.dock_state = "docking" /\ P.dock_state = "docked"
             \/ p.dock_state = "undocking" /\ P.dock_state = "undocked",
             ~ P.received_confirm, Q.dock_state = P.dock_state,
             Q.received_confirm = prog[t].received_confirm \/ ~ Q.received_confirm,
             ProcessOutcome(c, P, Q)
      PROVE  /\ \A m \in Controllers : InOrder(m)
             /\ \A m \in online : Completes(m) => m = c \/ Holds(c, m)
             /\ \A s, d \in online : Holds(s, d)' => StillHolds(s, d)
  <2>1. /\ t \in Controllers /\ prog[t] \in Program
        /\ Hears(t, c) => /\ t # c /\ prog[t].tag_target = c
                          /\ prog[t].dock_state = p.dock_state
                          /\ prog[t].control_mode = "client"
    BY <1>1, <1>4, PartnerOf
  <2>2. PICK R \in Program : Like(R, P) /\ BothEnds(prog', c, t, R, Q)
    BY <1>4 DEF ProcessOutcome
  <2>3. \A m \in Controllers :
           prog'[m] = IF m = t /\ Hears(t, c) THEN Q ELSE IF m = c THEN R ELSE prog[m]
    BY <1>1, <2>1, <2>2 DEF BothEnds
  <2>4. R.dock_state = P.dock_state /\ ~ R.received_confirm
    BY <1>4, <2>2 DEF Like, SameEnd
  <2>5. Hears(t, c) => ~ Q.received_confirm
    <3>1. Hears(t, c) => ~ prog[t].received_confirm
      BY <2>1 DEF IInv, StateTable, InTable
    <3> QED BY <1>4, <3>1
  <2>6. \A m \in Controllers : InOrder(m)
    BY <1>1, <1>4, <2>1, <2>3, <2>4 DEF InOrder, Follows
  <2>7. \A m \in online : Completes(m) => m = c \/ Holds(c, m)
    BY <1>1, <1>4, <2>3 DEF Completes, Holds
  <2>8. ASSUME NEW s \in online, NEW d \in online, Holds(s, d)'
        PROVE  Holds(s, d) /\ ~ Changed(d)
    <3>1. Holds(s, d) /\ s # c /\ (Hears(t, c) => s # t)
      BY <1>1, <2>3, <2>4, <2>5, <2>8 DEF Holds
    <3>2. d # c
      BY <1>1, <1>4, <3>1, HolderAgrees
    <3>3. Hears(t, c) => d # t
      BY <2>1, <3>1, HolderAgrees
    <3> QED BY <1>1, <2>3, <3>1, <3>2, <3>3 DEF Changed
  <2> QED BY <2>6, <2>7, <2>8 DEF StillHolds
<1>5. CASE ready /\ Is(p, "server", "docking") /\ p.received_confirm
              /\ ProcessOutcome(c, Docked(p), Joined(prog[t]))
  <2>1. t \in Controllers /\ Bound(p)
    BY <1>5, PartnerOf DEF Bound, Is
  <2>2. prog[t] \in Program
    BY <1>1, <2>1
  <2> DEFINE P == Docked(p)
             Q == Joined(prog[t])
  <2>3. /\ P \in Program /\ P.dock_state = "docked" /\ ~ P.received_confirm
        /\ Q \in Program /\ Q.dock_state = "docked"
        /\ Q.received_confirm = prog[t].received_confirm
    BY <1>1, <2>2 DEF Docked, Joined, Program, DockStates
  <2>4. p.control_mode = "server" /\ p.dock_state = "docking"
    BY <1>5 DEF Is
  <2> HIDE DEF P, Q
  <2>5. ProcessOutcome(c, P, Q)
    BY <1>5 DEF P, Q
  <2>6. /\ ready /\ Bound(p) /\ p.received_confirm
        /\ \/ p.dock_state = "docking" /\ P.dock_state = "docked"
           \/ p.dock_state = "undocking" /\ P.dock_state = "undocked"
        /\ Q.dock_state = P.dock_state
    BY <1>5, <2>1, <2>3, <2>4
  <2> QED BY <1>1, <1>4, <2>3, <2>4, <2>5, <2>6
<1>6. CASE ready /\ Is(p, "server", "undocking") /\ p.received_confirm
              /\ ProcessOutcome(c, Reset(p), Reset(prog[t]))
  <2>1. t \in Controllers /\ Bound(p)
    BY <1>6, PartnerOf DEF Bound, Is
  <2>2. prog[t] \in Program
    BY <1>1, <2>1
  <2>3. /\ Reset(p) \in Program /\ Reset(prog[t]) \in Program
        /\ Reset(p).dock_state = "undocked" /\ ~ Reset(p).received_confirm
        /\ Reset(prog[t]).dock_state = "undocked" /\ ~ Reset(prog[t]).received_confirm
    BY <1>1, <2>2 DEF Reset, Program, DockStates, Modes
  <2>4. p.control_mode = "server" /\ p.dock_state = "undocking"
    BY <1>6 DEF Is
  <2> QED BY <1>1, <1>4, <1>6, <2>1, <2>3, <2>4
<1>7. CASE ready
  <2>1. p.dock_state \in {"docking", "undocking"} => Bound(p)
    BY DEF Bound
  <2> QED BY <1>2, <1>3, <1>5, <1>6, <1>7, <2>1, ProcessShape
<1>8. CASE ~ ready
  <2>1. ready = FALSE
    BY <1>8
  <2> QED BY <1>2, <2>1, UnreadyShape
<1> QED BY <1>7, <1>8

-----------------------------------------------------------------------------

(* What an end of a docking is bound to, it is bound to by a request.      *)
EndKept(m) ==
    /\ Bound(prog'[m]) =>
          Bound(prog[m]) /\ prog'[m].tag_target = prog[m].tag_target
    /\ prog'[m].control_mode = "server" => prog[m].control_mode = "server"

(* A request makes a client of the controller that posts it, and touches   *)
(* no third one.                                                           *)
LEMMA RequestBinds ==
    ASSUME IInv, NEW c \in Controllers, NEW t \in Controllers, InitiateDocking(c, t)
    PROVE  /\ prog'[c].tag_target = t /\ prog'[c].control_mode = "client"
           /\ \A m \in Controllers \ {c, t} : prog'[m] = prog[m]
<1> DEFINE A == Ask(prog[c], t)
           B == [Ask(prog[c], t) EXCEPT !.dock_state = "docking"]
<1>1. prog \in [Controllers -> Program] /\ prog[c] \in Program
  BY DEF IInv, TypeOK
<1>2. /\ A.tag_target = t /\ A.control_mode = "client"
      /\ B.tag_target = t /\ B.control_mode = "client"
  BY <1>1 DEF Ask, Program
<1>3. \/ prog' = [prog EXCEPT ![c] = A]
      \/ t # c /\ prog' = [prog EXCEPT ![c] = B, ![t] = Accept(prog[t], c)]
  BY InitiateShape DEF Hears
<1> HIDE DEF A, B
<1> QED BY <1>1, <1>2, <1>3

(* initiate_undocking(), force_undock() and process() keep the ends.       *)
LEMMA CallsKeepEnds ==
    ASSUME IInv, NEW c \in Controllers,
           \/ InitiateUndocking(c) \/ ForceUndock(c)
           \/ \E ready \in BOOLEAN : Process(c, ready),
           NEW m \in Controllers
    PROVE  EndKept(m)
<1> DEFINE t == prog[c].tag_target
<1>1. prog \in [Controllers -> Program]
  BY DEF IInv, TypeOK
<1>2. ASSUME NEW p \in Program
      PROVE  ~ Bound(Reset(p)) /\ Reset(p).control_mode = "none"
  BY DEF Reset, Bound, Program
<1>3. ASSUME NEW P, NEW Q, BothEnds(prog', c, t, P, Q), t \in Controllers,
             \/ ~ Bound(P) /\ P.control_mode = "none"
             \/ /\ Bound(prog[c]) /\ P.tag_target = t
                /\ P.control_mode = prog[c].control_mode,
             Hears(t, c) =>
                \/ ~ Bound(Q) /\ Q.control_mode = "none"
                \/ /\ Bound(prog[t]) /\ Q.tag_target = prog[t].tag_target
                   /\ Q.control_mode = prog[t].control_mode
      PROVE  EndKept(m)
  <2>1. prog'[m] = IF m = t /\ Hears(t, c) THEN Q ELSE IF m = c THEN P ELSE prog[m]
    BY <1>1, <1>3 DEF BothEnds, Hears
  <2> QED BY <1>3, <2>1 DEF EndKept
<1>4. CASE InitiateUndocking(c)
  <2> DEFINE P == [prog[c] EXCEPT !.dock_state = "undocking"]
             Q == [prog[t] EXCEPT !.dock_state = "undocking"]
  <2>1. t \in Controllers /\ BothEnds(prog', c, t, P, Q)
    BY <1>4, UndockShape DEF BothEnds
  <2>2. Bound(prog[c]) /\ (Hears(t, c) => Bound(prog[t]))
    BY <1>4, PartnerOf DEF InitiateUndocking, Is, Bound
  <2>3. /\ P.tag_target = t /\ P.control_mode = prog[c].control_mode
        /\ Q.tag_target = prog[t].tag_target /\ Q.control_mode = prog[t].control_mode
    BY <1>1, <2>1 DEF Program
  <2> HIDE DEF P, Q
  <2> QED BY <1>3, <2>1, <2>2, <2>3
<1>5. CASE ForceUndock(c)
  <2>1. t \in Controllers /\ BothEnds(prog', c, t, Reset(prog[c]), Reset(prog[t]))
    BY <1>5, <1>1, ForceShape DEF BothEnds, Hears
  <2> QED BY <1>1, <1>2, <1>3, <2>1
<1>6. ASSUME NEW ready \in BOOLEAN, Process(c, ready)
      PROVE  EndKept(m)
  <2>1. CASE \E R \in Program : Like(R, prog[c]) /\ prog' = [prog EXCEPT ![c] = R]
    BY <1>1, <2>1 DEF Like, SameEnd, EndKept, Bound
  <2>2. ASSUME NEW P \in Program, NEW Q \in Program, t \in Controllers,
               ProcessOutcome(c, P, Q),
               \/ ~ Bound(P) /\ P.control_mode = "none"
               \/ /\ Bound(prog[c]) /\ P.tag_target = t
                  /\ P.control_mode = prog[c].control_mode,
               Hears(t, c) =>
                  \/ ~ Bound(Q) /\ Q.control_mode = "none"
                  \/ /\ Bound(prog[t]) /\ Q.tag_target = prog[t].tag_target
                     /\ Q.control_mode = prog[t].control_mode
        PROVE  EndKept(m)
    <3>1. PICK R \in Program : Like(R, P) /\ BothEnds(prog', c, t, R, Q)
      BY <2>2 DEF ProcessOutcome
    <3>2. \/ ~ Bound(R) /\ R.control_mode = "none"
          \/ /\ Bound(prog[c]) /\ R.tag_target = t
             /\ R.control_mode = prog[c].control_mode
      BY <2>2, <3>1 DEF Like, SameEnd, Bound
    <3> QED BY <1>3, <2>2, <3>1, <3>2
  <2>3. ASSUME Bound(prog[c])
        PROVE  /\ t \in Controllers /\ prog[t] \in Program /\ prog[c] \in Program
               /\ Hears(t, c) => Bound(prog[t])
    BY <1>1, <2>3, PartnerOf DEF Bound
  <2>4. CASE /\ prog[c].control_mode = "client"
             /\ prog[c].dock_state \in {"docking", "undocking"}
             /\ ProcessOutcome(c, prog[c], Confirmed(prog[t]))
    <3>1. Bound(prog[c])
      BY <2>4 DEF Bound
    <3> DEFINE Q == Confirmed(prog[t])
    <3>2. /\ Q \in Program /\ Q.tag_target = prog[t].tag_target
          /\ Q.control_mode = prog[t].control_mode
      BY <2>3, <3>1 DEF Confirmed, Program
    <3> HIDE DEF Q
    <3> QED BY <2>2, <2>3, <2>4, <3>1, <3>2 DEF Q
  <2>5. CASE Is(prog[c], "server", "docking") /\ ProcessOutcome(c, Docked(prog[c]), Joined(prog[t]))
    <3>1. Bound(prog[c])
      BY <2>5 DEF Bound, Is
    <3> DEFINE P == Docked(prog[c])
               Q == Joined(prog[t])
    <3>2. /\ P \in Program /\ P.tag_target = t /\ P.control_mode = prog[c].control_mode
          /\ Q \in Program /\ Q.tag_target = prog[t].tag_target
          /\ Q.control_mode = prog[t].control_mode
      BY <2>3, <3>1 DEF Joined, Docked, Program, DockStates
    <3>3. ProcessOutcome(c, P, Q)
      BY <2>5
    <3> HIDE DEF P, Q
    <3> QED BY <2>2, <2>3, <3>1, <3>2, <3>3
  <2>6. CASE Is(prog[c], "server", "undocking") /\ ProcessOutcome(c, Reset(prog[c]), Reset(prog[t]))
    <3>1. Bound(prog[c])
      BY <2>6 DEF Bound, Is
    <3>2. Reset(prog[c]) \in Program /\ Reset(prog[t]) \in Program
      BY <2>3, <3>1, HandlerTypes
    <3> QED BY <1>2, <2>2, <2>3, <2>6, <3>1, <3>2
  <2> QED BY <1>6, <2>1, <2>4, <2>5, <2>6, ProcessShape
<1> QED BY <1>4, <1>5, <1>6
=============================================================================
