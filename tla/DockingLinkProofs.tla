-------------------------- MODULE DockingLinkProofs --------------------------
(***************************************************************************)
(* The docking program implements the link of DockingLink as long as no    *)
(* machine is lost.                                                        *)
(***************************************************************************)
EXTENDS DockingProgramProofs

FreeEnd == [peer |-> NoTag, role |-> "none", phase |-> "undocked", heard |-> "nothing"]

AllStand == online = Controllers

(* The end of the link that a program holds: none while it is unbound. *)
LEMMA EndOf ==
    ASSUME NEW p \in Program
    PROVE  /\ Unbound(p) => LinkEnd(p) = FreeEnd
           /\ Bound(p) =>
                /\ LinkEnd(p) # FreeEnd
                /\ LinkEnd(p) = [peer |-> p.tag_target,
                                 role |-> p.control_mode,
                                 phase |-> p.dock_state,
                                 heard |-> Heard(p)]
<1>1. Unbound(p) => LinkEnd(p) = FreeEnd
  BY DEF Unbound, Bound, LinkEnd, FreeEnd
<1>2. ASSUME Bound(p)
      PROVE  LinkEnd(p) = [peer |-> p.tag_target,
                           role |-> p.control_mode,
                           phase |-> p.dock_state,
                           heard |-> Heard(p)]
  BY <1>2 DEF Bound, LinkEnd, Heard
<1>3. ASSUME Bound(p) PROVE LinkEnd(p) # FreeEnd
  <2>1. LinkEnd(p).phase = p.dock_state /\ FreeEnd.phase = "undocked"
    BY <1>2, <1>3 DEF FreeEnd
  <2> QED BY <1>3, <2>1 DEF Bound
<1> QED BY <1>1, <1>2, <1>3

(* A step that changes one program, but not its end, changes no link. *)
LEMMA SoloEnd ==
    ASSUME prog \in [Controllers -> Program], NEW c \in Controllers, NEW P,
           prog' = [prog EXCEPT ![c] = P], LinkEnd(P) = LinkEnd(prog[c])
    PROVE  LinkEnds' = LinkEnds
BY DEF LinkEnds

(* Programs that are alike hold the same end. *)
LEMMA LikeEnd ==
    ASSUME NEW p, NEW q, Like(p, q)
    PROVE  LinkEnd(p) = LinkEnd(q)
BY DEF Like, SameEnd, LinkEnd, Heard

(* initiate_docking() makes a link, or changes none. *)
LEMMA InitiateLink ==
    ASSUME IInv, NEW c \in Controllers, NEW t \in Controllers,
           <<c, t>> \in Routes, InitiateDocking(c, t)
    PROVE  Link!Accept(t, c) \/ LinkEnds' = LinkEnds
<1> DEFINE p == prog[c]
           B == [Ask(p, t) EXCEPT !.dock_state = "docking"]
           Q == Accept(prog[t], c)
<1>1. /\ prog \in [Controllers -> Program]
      /\ p \in Program /\ prog[t] \in Program
      /\ InTable(p) /\ InTable(prog[t])
      /\ Unbound(p) /\ p.control_mode # "server"
  BY DEF InitiateDocking, IInv, TypeOK, StateTable, Unbound, Bound
<1>2. CASE prog' = [prog EXCEPT ![c] = Ask(p, t)]
  <2>1. Ask(p, t).dock_state = "undocked"
    BY <1>1 DEF Ask, Program, Unbound, Bound
  <2>2. LinkEnd(Ask(p, t)) = LinkEnd(p)
    BY <1>1, <2>1 DEF LinkEnd, Heard, Unbound, Bound
  <2> QED BY <1>1, <1>2, <2>2, SoloEnd
<1>3. CASE /\ Hears(t, c) /\ Accepts(prog[t])
           /\ prog' = [prog EXCEPT ![c] = B, ![t] = Q]
  <2>1. t # c /\ Unbound(prog[t])
    BY <1>3 DEF Hears, Accepts, Is, Unbound, Bound
  <2>2. LinkEnd(B) = [peer |-> t, role |-> "client", phase |-> "docking", heard |-> "nothing"]
    <3>1. /\ B.tag_target = t /\ B.control_mode = "client" /\ B.dock_state = "docking"
          /\ B.received_confirm = FALSE
      BY <1>1 DEF Ask, Program, InTable
    <3> HIDE DEF B
    <3> QED BY <3>1 DEF LinkEnd, Heard
  <2>3. LinkEnd(Q) = [peer |-> c, role |-> "server", phase |-> "docking", heard |-> "nothing"]
    <3>1. /\ Q.tag_target = c /\ Q.control_mode = "server" /\ Q.dock_state = "docking"
          /\ Q.received_confirm = FALSE
      BY <1>1, <2>1 DEF Accept, Program, InTable, Unbound, Bound
    <3> HIDE DEF Q
    <3> QED BY <3>1 DEF LinkEnd, Heard
  <2>4. LinkEnds[c] = FreeEnd /\ LinkEnds[t] = FreeEnd
    BY <1>1, <2>1, EndOf DEF LinkEnds
  <2>5. LinkEnds' = [LinkEnds EXCEPT ![c] = LinkEnd(B), ![t] = LinkEnd(Q)]
    <3>1. prog' = [prog EXCEPT ![c] = B, ![t] = Q]
      BY <1>3
    <3> HIDE DEF B, Q
    <3> QED BY <1>1, <3>1 DEF LinkEnds
  <2>6. LinkEnds' = [LinkEnds EXCEPT ![t] = LinkEnd(Q), ![c] = LinkEnd(B)]
    BY <2>1, <2>5 DEF LinkEnds
  <2> QED BY <2>1, <2>2, <2>3, <2>4, <2>6
      DEF Link!HostEnd, Link!GuestEnd, Link!Accept, Link!Held, Link!Free, LinkEnds, FreeEnd
<1> QED BY <1>2, <1>3, InitiateShape

(* initiate_undocking() parts a link. *)
LEMMA UndockLink ==
    ASSUME IInv, AllStand, NEW c \in Controllers, InitiateUndocking(c)
    PROVE  LET t == prog[c].tag_target IN t \in Controllers /\ Link!Part(t, c)
<1> DEFINE t == prog[c].tag_target
           P == [prog[c] EXCEPT !.dock_state = "undocking"]
           Q == [prog[t] EXCEPT !.dock_state = "undocking"]
<1>1. /\ prog \in [Controllers -> Program]
      /\ prog[c] \in Program /\ Is(prog[c], "client", "docked")
      /\ t \in Controllers /\ prog[t] \in Program
  BY UndockShape DEF IInv, TypeOK, InitiateUndocking
<1>2. /\ t # c /\ Hears(t, c)
      /\ prog[t].tag_target = c /\ Is(prog[t], "server", "docked")
  <2>1. Bound(prog[c])
    BY <1>1 DEF Is, Bound
  <2>2. t # c
    BY <1>1, <2>1 DEF IInv, PartnersAgree, AllStand
  <2>3. Hears(t, c)
    BY <1>1, <2>2 DEF Hears, AllStand
  <2> QED BY <1>1, <2>1, <2>2, <2>3, PartnerOf DEF Is
<1>3. prog' = [prog EXCEPT ![c] = P, ![t] = Q]
  BY <1>2, UndockShape
<1>4. /\ P.tag_target = t /\ P.control_mode = "client" /\ P.dock_state = "undocking"
      /\ P.received_confirm = prog[c].received_confirm
      /\ Q.tag_target = c /\ Q.control_mode = "server" /\ Q.dock_state = "undocking"
      /\ Q.received_confirm = prog[t].received_confirm
  BY <1>1, <1>2 DEF Program, Is
<1>5. /\ LinkEnd(P) = [LinkEnd(prog[c]) EXCEPT !.phase = "undocking"]
      /\ LinkEnd(Q) = [LinkEnd(prog[t]) EXCEPT !.phase = "undocking"]
  <2> HIDE DEF P, Q
  <2> QED BY <1>1, <1>2, <1>4 DEF LinkEnd, Heard, Is
<1>6. LinkEnds' = [LinkEnds EXCEPT ![t] = LinkEnd(Q), ![c] = LinkEnd(P)]
  <2> HIDE DEF P, Q
  <2> QED BY <1>1, <1>2, <1>3 DEF LinkEnds
<1>7. LinkEnds[c] = LinkEnd(prog[c]) /\ LinkEnds[t] = LinkEnd(prog[t])
  BY <1>1 DEF LinkEnds
<1>8. /\ LinkEnds[t] # FreeEnd /\ LinkEnds[t].role = "server"
      /\ LinkEnds[t].peer = c /\ LinkEnds[t].phase = "docked"
  <2>1. Bound(prog[t])
    BY <1>2 DEF Bound, Is
  <2> QED BY <1>1, <1>2, <1>7, <2>1, EndOf DEF Is
<1>9. LinkEnds' = [LinkEnds EXCEPT ![t].phase = "undocking", ![c].phase = "undocking"]
  <2> HIDE DEF P, Q
  <2> QED BY <1>1, <1>2, <1>5, <1>6, <1>7 DEF LinkEnds
<1> QED BY <1>1, <1>8, <1>9 DEF Link!Part, Link!Linked, Link!Held, Link!Free, FreeEnd

(* When all machines stand, a bound controller's partner hears it. *)
LEMMA PartnerHears ==
    ASSUME IInv, AllStand, NEW c \in Controllers, Bound(prog[c])
    PROVE  Hears(prog[c].tag_target, c)
<1>1. prog[c].tag_target \in Controllers
  BY PartnerOf
<1>2. prog[c].tag_target # c
  BY <1>1 DEF IInv, PartnersAgree, AllStand
<1> QED BY <1>1, <1>2 DEF Hears, AllStand

(* The linked pair around a bound controller. *)
LEMMA LinkedPair ==
    ASSUME IInv, AllStand, NEW c \in Controllers, Bound(prog[c])
    PROVE  LET t == prog[c].tag_target
           IN  /\ t \in Controllers /\ t # c
               /\ LinkEnds[c] = LinkEnd(prog[c]) /\ LinkEnds[t] = LinkEnd(prog[t])
               /\ Bound(prog[t])
               /\ LinkEnds[t].phase = prog[c].dock_state /\ LinkEnds[c].phase = prog[c].dock_state
               /\ LinkEnds[c].heard = Heard(prog[c])
               /\ LinkEnds[t].heard = Heard(prog[t])
               /\ prog[c].control_mode = "client" => Link!Linked(t, c)
               /\ prog[c].control_mode = "server" => Link!Linked(c, t)
<1> DEFINE t == prog[c].tag_target
<1>1. /\ t \in Controllers /\ t # c
      /\ prog[t].tag_target = c /\ prog[t].dock_state = prog[c].dock_state
      /\ prog[c].control_mode = "client" => prog[t].control_mode = "server"
  BY PartnerOf, PartnerHears
<1>2. prog[c] \in Program /\ prog[t] \in Program /\ Bound(prog[t])
  BY <1>1 DEF IInv, TypeOK, Bound
<1>3. LinkEnds[c] = LinkEnd(prog[c]) /\ LinkEnds[t] = LinkEnd(prog[t])
  BY <1>1 DEF LinkEnds
<1>4. /\ LinkEnd(prog[c]) # FreeEnd
      /\ LinkEnd(prog[c]) = [peer |-> t, role |-> prog[c].control_mode,
                             phase |-> prog[c].dock_state,
                             heard |-> Heard(prog[c])]
  BY <1>2, EndOf
<1>5. /\ LinkEnd(prog[t]) # FreeEnd
      /\ LinkEnd(prog[t]) = [peer |-> c, role |-> prog[t].control_mode,
                             phase |-> prog[c].dock_state,
                             heard |-> Heard(prog[t])]
  BY <1>1, <1>2, EndOf
<1>6. prog[c].control_mode = "client" => Link!Linked(t, c)
  BY <1>1, <1>3, <1>5 DEF Link!Linked, Link!Held, Link!Free, FreeEnd
<1>7. prog[c].control_mode = "server" => Link!Linked(c, t)
  BY <1>1, <1>3, <1>4 DEF Link!Linked, Link!Held, Link!Free, FreeEnd
<1> QED BY <1>1, <1>2, <1>3, <1>4, <1>5, <1>6, <1>7

(* A step that changes both ends of a docking changes the two ends of its  *)
(* link.                                                                   *)
LEMMA PairEnds ==
    ASSUME IInv, AllStand, NEW c \in Controllers, Bound(prog[c]),
           NEW R \in Program, NEW Q \in Program,
           BothEnds(prog', c, prog[c].tag_target, R, Q)
    PROVE  LinkEnds' = [LinkEnds EXCEPT ![c] = LinkEnd(R), ![prog[c].tag_target] = LinkEnd(Q)]
<1>1. /\ prog \in [Controllers -> Program]
      /\ prog' = [prog EXCEPT ![c] = R, ![prog[c].tag_target] = Q]
  BY PartnerHears DEF IInv, TypeOK, BothEnds
<1> QED BY <1>1 DEF LinkEnds

(* A step that resets both ends frees both ends of the link. *)
LEMMA ResetLink ==
    ASSUME IInv, AllStand, NEW c \in Controllers, Bound(prog[c]),
           NEW R \in Program, Like(R, Reset(prog[c])),
           BothEnds(prog', c, prog[c].tag_target, R, Reset(prog[prog[c].tag_target]))
    PROVE  LET t == prog[c].tag_target
           IN  /\ LinkEnds' = [LinkEnds EXCEPT ![c] = FreeEnd, ![t] = FreeEnd]
               /\ LinkEnds' = [LinkEnds EXCEPT ![t] = FreeEnd, ![c] = FreeEnd]
<1> DEFINE t == prog[c].tag_target
           Q == Reset(prog[t])
<1>1. t \in Controllers /\ t # c /\ prog[c] \in Program /\ prog[t] \in Program
  BY LinkedPair DEF IInv, TypeOK
<1>2. ASSUME NEW p \in Program PROVE Reset(p) \in Program /\ Unbound(Reset(p))
  <2>1. Reset(p).dock_state = "undocked"
    BY DEF Reset, Program
  <2> QED BY <2>1, HandlerTypes, <1>1 DEF Unbound, Bound
<1>3. LinkEnd(R) = FreeEnd /\ LinkEnd(Q) = FreeEnd /\ Q \in Program
  BY <1>1, <1>2, EndOf, LikeEnd
<1>4. LinkEnds' = [LinkEnds EXCEPT ![c] = LinkEnd(R), ![t] = LinkEnd(Q)]
  <2>1. BothEnds(prog', c, t, R, Q)
    OBVIOUS
  <2> HIDE DEF Q
  <2> QED BY <1>3, <2>1, PairEnds
<1>5. LinkEnds' = [LinkEnds EXCEPT ![c] = FreeEnd, ![t] = FreeEnd]
  BY <1>3, <1>4
<1>6. LinkEnds' = [LinkEnds EXCEPT ![t] = FreeEnd, ![c] = FreeEnd]
  BY <1>1, <1>5 DEF LinkEnds
<1> QED BY <1>5, <1>6

(* force_undock() breaks a link. *)
LEMMA ForceLink ==
    ASSUME IInv, AllStand, NEW c \in Controllers, ForceUndock(c)
    PROVE  \E h, g \in Controllers : Link!Break(h, g)
<1> DEFINE t == prog[c].tag_target
<1>1. /\ prog \in [Controllers -> Program] /\ Bound(prog[c])
      /\ Reset(prog[c]) \in Program /\ Like(Reset(prog[c]), Reset(prog[c]))
      /\ prog[c].control_mode \in {"client", "server"}
  BY HandlerTypes, PartnerOf DEF IInv, TypeOK, ForceUndock, Bound, Like, SameEnd
<1>2. t \in Controllers /\ t # c /\ Hears(t, c)
  BY <1>1, LinkedPair, PartnerHears
<1>3. BothEnds(prog', c, t, Reset(prog[c]), Reset(prog[t]))
  BY <1>1, <1>2, ForceShape DEF BothEnds
<1>4. /\ LinkEnds' = [LinkEnds EXCEPT ![c] = FreeEnd, ![t] = FreeEnd]
      /\ LinkEnds' = [LinkEnds EXCEPT ![t] = FreeEnd, ![c] = FreeEnd]
  BY <1>1, <1>3, ResetLink
<1>5. CASE prog[c].control_mode = "client"
  <2>1. Link!Break(t, c)
    BY <1>1, <1>4, <1>5, LinkedPair DEF Link!Break, Link!Free, FreeEnd
  <2> QED BY <1>2, <2>1
<1>6. CASE prog[c].control_mode = "server"
  <2>1. Link!Break(c, t)
    BY <1>1, <1>4, <1>6, LinkedPair DEF Link!Break, Link!Free, FreeEnd
  <2> QED BY <1>2, <2>1
<1> QED BY <1>1, <1>5, <1>6

(* process() confirms, joins or releases a link, or changes none. *)
LEMMA ProcessLink ==
    ASSUME IInv, AllStand, NEW c \in Controllers, NEW ready \in BOOLEAN,
           Process(c, ready)
    PROVE  \/ LinkEnds' = LinkEnds
           \/ \E h, g \in Controllers :
                 Link!Confirm(h, g) \/ Link!Join(h, g) \/ Link!Release(h, g)
<1> DEFINE p == prog[c]
           t == prog[c].tag_target
<1>1. prog \in [Controllers -> Program] /\ p \in Program
  BY DEF IInv, TypeOK
<1>2. CASE \E R \in Program : Like(R, p) /\ prog' = [prog EXCEPT ![c] = R]
  BY <1>1, <1>2, LikeEnd, SoloEnd
<1>3. CASE /\ p.control_mode = "client" /\ p.dock_state \in {"docking", "undocking"}
           /\ ProcessOutcome(c, p, Confirmed(prog[t]))
  <2> DEFINE Q == Confirmed(prog[t])
  <2>1. PICK R \in Program : Like(R, p) /\ BothEnds(prog', c, t, R, Q)
    BY <1>3 DEF ProcessOutcome
  <2>2. /\ Bound(p) /\ t \in Controllers /\ t # c
        /\ prog[t] \in Program /\ Bound(prog[t])
        /\ LinkEnds[c] = LinkEnd(p) /\ LinkEnds[t] = LinkEnd(prog[t])
        /\ LinkEnds[t].phase = p.dock_state
        /\ Link!Linked(t, c)
    BY <1>1, <1>3, LinkedPair DEF Bound
  <2>3. /\ Q \in Program /\ Q.tag_target = prog[t].tag_target
        /\ Q.control_mode = prog[t].control_mode /\ Q.dock_state = prog[t].dock_state
        /\ Q.received_confirm = TRUE
    BY <2>2 DEF Confirmed, Program
  <2>4. LinkEnds' = [LinkEnds EXCEPT ![c] = LinkEnd(R), ![t] = LinkEnd(Q)]
    <3> HIDE DEF Q
    <3> QED BY <2>1, <2>2, <2>3, PairEnds
  <2>5. LinkEnd(Q) = [LinkEnd(prog[t]) EXCEPT !.heard = "confirm"]
    <3> HIDE DEF Q
    <3>1. Bound(Q)
      BY <2>2, <2>3 DEF Bound
    <3>2. LinkEnd(Q) = [peer |-> prog[t].tag_target, role |-> prog[t].control_mode,
                        phase |-> prog[t].dock_state, heard |-> "confirm"]
      BY <2>3, <3>1, EndOf DEF Heard
    <3>3. LinkEnd(prog[t]) = [peer |-> prog[t].tag_target,
                              role |-> prog[t].control_mode,
                              phase |-> prog[t].dock_state,
                              heard |-> Heard(prog[t])]
      BY <2>2, EndOf
    <3> QED BY <3>2, <3>3
  <2>6. LinkEnd(R) = LinkEnds[c]
    BY <2>1, <2>2, LikeEnd
  <2>7. LinkEnds' = [LinkEnds EXCEPT ![t].heard = "confirm"]
    <3> HIDE DEF Q
    <3> QED BY <2>2, <2>4, <2>5, <2>6 DEF LinkEnds
  <2>8. Link!Confirm(t, c)
    BY <1>3, <2>2, <2>7 DEF Link!Confirm, LinkEnds
  <2> QED BY <2>2, <2>8
<1>4. CASE /\ Is(p, "server", "docking") /\ p.received_confirm
           /\ ProcessOutcome(c, Docked(p), Joined(prog[t]))
  <2> DEFINE Q == Joined(prog[t])
  <2>1. PICK R \in Program : Like(R, Docked(p)) /\ BothEnds(prog', c, t, R, Q)
    BY <1>4 DEF ProcessOutcome
  <2>2. /\ Bound(p) /\ t \in Controllers /\ t # c
        /\ prog[t] \in Program /\ InTable(prog[t])
        /\ LinkEnds[c].phase = "docking" /\ LinkEnds[c].heard = "confirm"
        /\ Link!Linked(c, t)
    BY <1>1, <1>4, LinkedPair DEF Bound, Is, Heard, IInv, StateTable
  <2>3. prog[t].tag_target = c /\ prog[t].control_mode = "client"
    BY <1>4, <2>2, PartnerOf, PartnerHears DEF Is
  <2>4. /\ Q \in Program /\ Q.tag_target = c /\ Q.control_mode = "client"
        /\ Q.dock_state = "docked" /\ ~ Q.received_confirm
    BY <2>2, <2>3 DEF Joined, Program, DockStates, InTable
  <2>5. /\ R.tag_target = t /\ R.control_mode = "server"
        /\ R.dock_state = "docked" /\ ~ R.received_confirm
    BY <1>1, <1>4, <2>1 DEF Like, SameEnd, Docked, Program, Is
  <2>6. LinkEnds' = [LinkEnds EXCEPT ![c] = LinkEnd(R), ![t] = LinkEnd(Q)]
    <3> HIDE DEF Q
    <3> QED BY <2>1, <2>2, <2>4, PairEnds
  <2>7. LinkEnd(R) = Link!HostEnd(t, "docked")
    BY <2>5 DEF LinkEnd, Heard, Link!HostEnd
  <2>8. LinkEnd(Q) = Link!GuestEnd(c, "docked")
    <3> HIDE DEF Q
    <3> QED BY <2>4 DEF LinkEnd, Heard, Link!GuestEnd
  <2>9. Link!Join(c, t)
    BY <2>2, <2>6, <2>7, <2>8 DEF Link!Join, LinkEnds
  <2> QED BY <2>2, <2>9
<1>5. CASE /\ Is(p, "server", "undocking") /\ p.received_confirm
           /\ ProcessOutcome(c, Reset(p), Reset(prog[t]))
  <2>1. /\ Bound(p) /\ t \in Controllers
        /\ LinkEnds[c].phase = "undocking" /\ LinkEnds[c].heard = "confirm"
        /\ Link!Linked(c, t)
    BY <1>5, LinkedPair DEF Bound, Is, Heard
  <2>2. LinkEnds' = [LinkEnds EXCEPT ![c] = FreeEnd, ![t] = FreeEnd]
    BY <1>5, <2>1, ResetLink DEF ProcessOutcome
  <2>3. Link!Release(c, t)
    BY <2>1, <2>2 DEF Link!Release, Link!Free, FreeEnd
  <2> QED BY <2>1, <2>3
<1> QED BY <1>2, <1>3, <1>4, <1>5, ProcessShape

-----------------------------------------------------------------------------

(* Initially there is no link. *)
LEMMA InitLink == Init => Link!Init
BY DEF Init, NewProgram, LinkEnd, LinkEnds, Link!Init, Link!Free

(* Every step of shuttles that undock before they leave is one of the      *)
(* abstract link's or changes no link.                                     *)
LEMMA OrderlyLink ==
    IInv /\ AllStand /\ [Orderly]_vars => [Link!Next]_LinkEnds
<1> SUFFICES ASSUME IInv, AllStand, [Orderly]_vars
             PROVE  Link!Next \/ LinkEnds' = LinkEnds
  OBVIOUS
<1>1. ASSUME NEW r \in Routes, InitiateDocking(r[1], r[2])
      PROVE  Link!Next \/ LinkEnds' = LinkEnds
  <2>1. r[1] \in Controllers /\ r[2] \in Controllers /\ r = <<r[1], r[2]>>
    BY RoutesAssumption
  <2>2. Link!Accept(r[2], r[1]) \/ LinkEnds' = LinkEnds
    BY <1>1, <2>1, InitiateLink
  <2> QED BY <2>1, <2>2 DEF Link!Next, LinkEnds
<1>2. ASSUME NEW c \in Shuttles, InitiateUndocking(c)
      PROVE  Link!Next \/ LinkEnds' = LinkEnds
  <2>1. c \in Controllers
    BY RoutesAssumption DEF Shuttles
  <2> QED BY <1>2, <2>1, UndockLink DEF Link!Next
<1>3. ASSUME NEW c \in Controllers, NEW ready \in BOOLEAN, Process(c, ready)
      PROVE  Link!Next \/ LinkEnds' = LinkEnds
  BY <1>3, ProcessLink DEF Link!Next
<1>4. CASE UNCHANGED vars
  BY <1>4 DEF vars, LinkEnds
<1> QED BY <1>1, <1>2, <1>3, <1>4 DEF Orderly

(* So is every step of shuttles that may leave by force, with links that   *)
(* break.                                                                  *)
LEMMA AbruptLink ==
    IInv /\ AllStand /\ [Abrupt]_vars
        => [Link!Next \/ \E h, g \in Controllers : Link!Break(h, g)]_LinkEnds
<1> SUFFICES ASSUME IInv, AllStand, [Abrupt]_vars
             PROVE  [Link!Next \/ \E h, g \in Controllers : Link!Break(h, g)]_LinkEnds
  OBVIOUS
<1>1. ASSUME NEW c \in Shuttles, ForceUndock(c)
      PROVE  \E h, g \in Controllers : Link!Break(h, g)
  <2>1. c \in Controllers
    BY RoutesAssumption DEF Shuttles
  <2> QED BY <1>1, <2>1, ForceLink
<1>2. CASE [Orderly]_vars
  BY <1>2, OrderlyLink
<1> QED BY <1>1, <1>2 DEF Abrupt

(* The invariant of DockingProgramProofs holds of both specifications, and *)
(* no machine is lost.                                                     *)
LEMMA Standing ==
    /\ OrderlySpec => AbruptSpec
    /\ AbruptSpec => [](IInv /\ AllStand)
<1>1. [Orderly]_vars => [Abrupt]_vars
  BY DEF Abrupt
<1>2. [Abrupt]_vars => [Next]_vars
  BY DEF Next
<1>3. Init => AllStand
  BY DEF Init, AllStand
<1>4. AllStand /\ [Abrupt]_vars => AllStand'
  BY DEF AllStand, Abrupt, Orderly, InitiateDocking, InitiateUndocking, ForceUndock,
     Process, vars
<1>5. AbruptSpec => [](IInv /\ AllStand)
  BY <1>2, <1>3, <1>4, Invariant, PTL DEF AbruptSpec, Spec
<1>6. OrderlySpec => AbruptSpec
  BY <1>1, PTL DEF OrderlySpec, AbruptSpec
<1> QED BY <1>5, <1>6

(* While no machine is lost, however shuttles leave, the program           *)
(* implements the link: what befalls one end of a docking befalls the      *)
(* other in the same step.                                                 *)
THEOREM LinkImplemented == AbruptSpec => ImplementsLink
BY Standing, InitLink, AbruptLink, PTL
   DEF AbruptSpec, ImplementsLink, Link!AbruptSpec, LinkEnds

(* A step in which no shuttle leaves by force breaks no link, and the      *)
(* server completes a docking or an undocking only once its client has     *)
(* confirmed.                                                              *)
THEOREM LinkKept == AbruptSpec => OrderlyKeepsLink
<1>1. IInv /\ AllStand => [Orderly => Link!Next \/ UNCHANGED LinkEnds]_vars
  BY OrderlyLink DEF LinkEnds
<1> QED BY <1>1, Standing, PTL DEF OrderlyKeepsLink

(* So shuttles that only ever leave in good order implement the link that  *)
(* never breaks.                                                           *)
THEOREM OrderlyLinkImplemented == OrderlySpec => Link!Spec
<1>1. OrderlySpec => [](IInv /\ AllStand)
  BY Standing, PTL
<1> QED BY <1>1, InitLink, OrderlyLink, PTL DEF OrderlySpec, Link!Spec, LinkEnds
=============================================================================
