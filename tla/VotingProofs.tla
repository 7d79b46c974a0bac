---------------------------- MODULE VotingProofs ----------------------------
(***************************************************************************)
(* Theorems about the controllers and the failsafe, for any number of      *)
(* explosions, and for restarts by administrators at any time; and the     *)
(* same of the round as a whole, with its votes and its lobby.             *)
(***************************************************************************)
EXTENDS Voting, TLAPS

(* The inductive invariant of NotLeftDark: an explosion under way that     *)
(* found the lighting on is what keeps it off, also when it ends.          *)
LightInv == TypeOK /\ NotLeftDark

(* That of WorkingSpared: what the failsafe remembers is never ahead of    *)
(* the master controller; and while it remembers the current iteration,    *)
(* it has not raised the alert more often than it has poked since.         *)
SpareInv ==
    /\ TypeOK
    /\ lead["master"] >= 0
    /\ lead["master"] = 0 => failsafe.defcon["master"] <= silent

LEMMA KindsDistinct == "master" # "lighting" /\ "master" \in Kinds /\ "lighting" \in Kinds
BY DEF Kinds

LEMMA LeastType ==
    ASSUME NEW a \in Int, NEW b \in Int
    PROVE  Least(a, b) \in Int /\ Least(a, b) <= a /\ Least(a, b) <= b
           /\ (Least(a, b) = a \/ Least(a, b) = b)
BY DEF Least

(* The alert level stays within its bounds. *)
LEMMA AlertType ==
    ASSUME TypeOK, NEW k \in Kinds
    PROVE  Alert(k) \in Defcons
BY DEF TypeOK, Alert, Defcons, Replaced

(* The values of a new world. *)
LEMMA IdleType ==
    /\ Idle \in [Kinds -> [processing : BOOLEAN, loops : Nat]]
    /\ NoLead \in [Kinds -> Leads]
    /\ NewFailsafe \in [exists : BOOLEAN, defcon : [Kinds -> Defcons]]
    /\ NoFailsafe \in [exists : BOOLEAN, defcon : [Kinds -> Defcons]]
    /\ NoExplosions \in [BOOLEAN -> Nat]
    /\ 0 \in 0 .. 5
<1>1. Idle \in [Kinds -> [processing : BOOLEAN, loops : Nat]]
  BY DEF Idle
<1>2. NoLead \in [Kinds -> Leads]
  BY LeadAssumption DEF NoLead, Leads
<1>3. NewFailsafe \in [exists : BOOLEAN, defcon : [Kinds -> Defcons]]
  BY DEF NewFailsafe, Defcons
<1>4. NoFailsafe \in [exists : BOOLEAN, defcon : [Kinds -> Defcons]]
  BY <1>3 DEF NoFailsafe
<1>5. NoExplosions \in [BOOLEAN -> Nat]
  BY DEF NoExplosions
<1> QED
  BY <1>1, <1>2, <1>3, <1>4, <1>5

LEMMA InitTyped == Init => TypeOK
BY IdleType DEF Init, TypeOK

LEMMA RebootTyped == Reboot => TypeOK'
BY IdleType DEF Reboot, TypeOK

LEMMA PokeTyped == TypeOK /\ Poke => TypeOK'
<1> SUFFICES ASSUME TypeOK, Poke PROVE TypeOK'
  OBVIOUS
<1>1. controller' \in [Kinds -> [processing : BOOLEAN, loops : Nat]]
  <2>1. Running \in [processing : BOOLEAN, loops : Nat]
    BY DEF Running
  <2> QED
    BY <2>1 DEF TypeOK, Poke
<1>2. failsafe' \in [exists : BOOLEAN, defcon : [Kinds -> Defcons]]
  BY AlertType DEF TypeOK, Poke
<1>3. silent' \in 0 .. 5
  BY DEF TypeOK, Poke, Least
<1> QED
  BY <1>1, <1>2, <1>3 DEF TypeOK, Poke

(* What a pass may do to the variables it changes. *)
LEMMA PassTyped ==
    ASSUME TypeOK, NEW k \in Kinds, PassBegins(k)
    PROVE  /\ lead' \in [Kinds -> Leads]
           /\ failsafe' \in [exists : BOOLEAN, defcon : [Kinds -> Defcons]]
           /\ silent' \in 0 .. 5
           /\ UNCHANGED <<explosions, started>>
<1>1. NewFailsafe \in [exists : BOOLEAN, defcon : [Kinds -> Defcons]]
  BY IdleType
<1>2. Least(lead[k] + 1, MaxLead) \in Leads
  BY LeadAssumption DEF TypeOK, Leads, Least
<1> QED
  BY <1>1, <1>2 DEF TypeOK, PassBegins

LEMMA NextTyped == TypeOK /\ [Next]_vars => TypeOK'
<1> SUFFICES ASSUME TypeOK, [Next]_vars PROVE TypeOK'
  OBVIOUS
<1>1. CASE Poke
  BY <1>1, PokeTyped
<1>2. ASSUME NEW k \in Kinds, Pass(k) PROVE TypeOK'
  BY <1>2, PassTyped DEF Pass, TypeOK
<1>3. ASSUME NEW k \in Kinds, BreakingPass(k) PROVE TypeOK'
  <2>1. controller[k].loops - 1 \in Nat
    BY <1>3 DEF BreakingPass, PassBegins, TypeOK
  <2>2. controller' \in [Kinds -> [processing : BOOLEAN, loops : Nat]]
    BY <1>3, <2>1 DEF BreakingPass, TypeOK
  <2> QED
    BY <1>3, <2>2, PassTyped DEF BreakingPass, TypeOK
<1>4. CASE StartRound
  BY <1>4 DEF StartRound, TypeOK
<1>5. CASE Explode
  <2>1. explosions' \in [BOOLEAN -> Nat]
    BY <1>5, KindsDistinct DEF Explode, TypeOK
  <2>2. controller' \in [Kinds -> [processing : BOOLEAN, loops : Nat]]
    BY <1>5, KindsDistinct DEF Explode, TypeOK
  <2> QED
    BY <1>5, <2>1, <2>2 DEF Explode, TypeOK
<1>6. ASSUME NEW found \in BOOLEAN, ExplosionEnds(found) PROVE TypeOK'
  <2>1. explosions' \in [BOOLEAN -> Nat]
    BY <1>6 DEF ExplosionEnds, TypeOK
  <2>2. PutBack(found) \in BOOLEAN
    BY DEF PutBack
  <2>3. controller' \in [Kinds -> [processing : BOOLEAN, loops : Nat]]
    BY <1>6, <2>2, KindsDistinct DEF ExplosionEnds, TypeOK
  <2> QED
    BY <1>6, <2>1, <2>3 DEF ExplosionEnds, TypeOK
<1>7. CASE RestartFailsafe
  BY <1>7, LeadAssumption DEF RestartFailsafe, NewFailsafe, TypeOK, Leads, Defcons
<1>8. ASSUME NEW k \in Kinds, RestartController(k) PROVE TypeOK'
  <2>1. LeadsOfNew(k) \subseteq Leads
    BY LeadAssumption DEF LeadsOfNew, Leads, TypeOK
  <2>2. lead' \in [Kinds -> Leads]
    BY <1>8, <2>1 DEF RestartController, TypeOK
  <2>3. controller' \in [Kinds -> [processing : BOOLEAN, loops : Nat]]
    BY <1>8 DEF RestartController, Running, TypeOK
  <2> QED
    BY <1>8, <2>2, <2>3 DEF RestartController, TypeOK
<1>9. CASE Reboot
  BY <1>9, RebootTyped
<1>10. CASE UNCHANGED vars
  BY <1>10 DEF vars, TypeOK
<1> QED
  BY <1>1, <1>2, <1>3, <1>4, <1>5, <1>6, <1>7, <1>8, <1>9, <1>10
  DEF Next, Loops, ExplosionOver, Admins

(* The controllers hold values of their kinds, for any bounds. *)
THEOREM ControllersTyped == Spec => []TypeOK
BY InitTyped, NextTyped, PTL DEF Spec

-----------------------------------------------------------------------------
LEMMA LightStep == LightInv /\ [Next]_vars => LightInv'
<1> SUFFICES ASSUME LightInv, [Next]_vars PROVE NotLeftDark'
  BY NextTyped DEF LightInv
<1> USE KindsDistinct DEF LightInv
<1>1. CASE Poke
  BY <1>1 DEF Poke, Running, NotLeftDark, TypeOK
<1>2. ASSUME NEW k \in Kinds, Pass(k) PROVE NotLeftDark'
  BY <1>2, PassTyped DEF Pass, NotLeftDark
<1>3. ASSUME NEW k \in Kinds, BreakingPass(k) PROVE NotLeftDark'
  <2>1. controller'["lighting"].processing = controller["lighting"].processing
    BY <1>3 DEF BreakingPass, TypeOK
  <2> QED
    BY <1>3, <2>1, PassTyped DEF BreakingPass, NotLeftDark
<1>4. CASE StartRound
  BY <1>4 DEF StartRound, NotLeftDark
<1>5. CASE Explode
  (* An explosion that finds the lighting on is counted as one that did. *)
  <2>1. explosions'[TRUE] = IF controller["lighting"].processing
                            THEN explosions[TRUE] + 1 ELSE explosions[TRUE]
    BY <1>5 DEF Explode, TypeOK
  <2>2. explosions[TRUE] \in Nat /\ started' = started
    BY <1>5 DEF Explode, TypeOK
  <2>3. CASE controller["lighting"].processing
    <3>1. explosions'[TRUE] = explosions[TRUE] + 1
      BY <2>1, <2>3
    <3>2. \A n \in Nat : n + 1 > 0
      OBVIOUS
    <3>3. explosions'[TRUE] > 0
      BY <2>2, <3>1, <3>2, Zenon
    <3> QED
      BY <3>3 DEF NotLeftDark
  <2>4. CASE ~ controller["lighting"].processing
    BY <2>1, <2>2, <2>4 DEF NotLeftDark
  <2> QED
    BY <2>3, <2>4
<1>6. ASSUME NEW found \in BOOLEAN, ExplosionEnds(found) PROVE NotLeftDark'
  <2>1. controller'["lighting"].processing = (controller["lighting"].processing \/ found)
    BY <1>6 DEF ExplosionEnds, PutBack, TypeOK
  <2>2. found = FALSE => explosions'[TRUE] = explosions[TRUE]
    BY <1>6 DEF ExplosionEnds, TypeOK
  <2> QED
    BY <1>6, <2>1, <2>2 DEF ExplosionEnds, NotLeftDark
<1>7. CASE RestartFailsafe
  BY <1>7 DEF RestartFailsafe, NotLeftDark
<1>8. ASSUME NEW k \in Kinds, RestartController(k) PROVE NotLeftDark'
  BY <1>8 DEF RestartController, Running, NotLeftDark, TypeOK
<1>9. CASE Reboot
  BY <1>9 DEF Reboot, NotLeftDark
<1>10. CASE UNCHANGED vars
  BY <1>10 DEF vars, NotLeftDark
<1> QED
  BY <1>1, <1>2, <1>3, <1>4, <1>5, <1>6, <1>7, <1>8, <1>9, <1>10
  DEF Next, Loops, ExplosionOver, Admins

(* However many explosions overlap, whatever controllers break and are     *)
(* replaced and whenever the round starts, the lighting is off only during *)
(* an explosion that puts it on again (explosion.dm:65-66, 110).           *)
THEOREM NeverLeftDark == Spec => []NotLeftDark
<1>1. Init => LightInv
  BY InitTyped DEF Init, LightInv, NotLeftDark
<1> QED
  BY <1>1, LightStep, PTL DEF Spec, LightInv

-----------------------------------------------------------------------------
LEMMA SpareStep == SpareInv /\ [Next]_vars => SpareInv'
<1> SUFFICES ASSUME SpareInv, [Next]_vars
             PROVE  /\ lead'["master"] >= 0
                    /\ lead'["master"] = 0 => failsafe'.defcon["master"] <= silent'
  BY NextTyped DEF SpareInv
<1> DEFINE Goal == /\ lead'["master"] >= 0
                   /\ lead'["master"] = 0 => failsafe'.defcon["master"] <= silent'
<1> USE KindsDistinct DEF SpareInv
<1>0. /\ lead["master"] \in Int /\ silent \in 0 .. 5
      /\ failsafe.defcon["master"] \in 0 .. 5
  BY DEF TypeOK, Leads, Defcons
<1>1. CASE Poke
  (* The alert is raised by one when the master controller has not fired,  *)
  (* up to 5, and what is remembered becomes the current iteration.        *)
  <2>1. failsafe'.defcon["master"] = Alert("master")
    BY <1>1 DEF Poke, TypeOK
  <2>2. lead'["master"] \in LeadsAfterPoke("master")
    BY <1>1 DEF Poke
  <2>3. silent' = Least(silent + 1, 5)
    BY <1>1 DEF Poke
  <2>4. CASE ~ Watched("master")
    <3>1. lead'["master"] = lead["master"]
      BY <2>2, <2>4 DEF LeadsAfterPoke, Replaced
    <3>2. failsafe'.defcon["master"] = failsafe.defcon["master"]
      BY <2>1, <2>4 DEF Alert
    <3> QED
      BY <1>0, <2>3, <3>1, <3>2 DEF Least
  <2>5. CASE Watched("master")
    <3>1. lead'["master"] = 0
      BY <2>2, <2>5 DEF LeadsAfterPoke, Replaced, LeadsOfNew
    <3>2. failsafe'.defcon["master"] <= silent'
      BY <1>0, <2>1, <2>3, <2>5 DEF Alert, Replaced, Least
    <3> QED
      BY <3>1, <3>2
  <2> QED
    BY <2>4, <2>5
<1>2. ASSUME NEW k \in Kinds, PassBegins(k) PROVE Goal
  <2>1. CASE controller[k].processing /\ k = "master"
    <3>1. lead'["master"] = Least(lead["master"] + 1, MaxLead)
      BY <1>2, <2>1 DEF PassBegins, TypeOK
    <3>2. lead'["master"] > 0
      BY <1>0, <3>1, LeadAssumption DEF Least
    <3> QED
      BY <3>2, LeadAssumption, <3>1, <1>0 DEF Least
  <2>2. CASE ~ (controller[k].processing /\ k = "master")
    <3>1. lead'["master"] = lead["master"] /\ silent' = silent
      BY <1>2, <2>2 DEF PassBegins, TypeOK
    <3>2. failsafe'.defcon["master"] \in {0, failsafe.defcon["master"]}
      BY <1>2 DEF PassBegins, NewFailsafe
    <3> QED
      BY <1>0, <3>1, <3>2
  <2> QED
    BY <2>1, <2>2
<1>3. CASE StartRound
  BY <1>3 DEF StartRound
<1>4. CASE Explode
  BY <1>4 DEF Explode
<1>5. ASSUME NEW found \in BOOLEAN, ExplosionEnds(found) PROVE Goal
  BY <1>5 DEF ExplosionEnds
<1>6. CASE RestartFailsafe
  <2>1. failsafe'.defcon["master"] = 0 /\ lead'["master"] \in 0 .. 1 /\ silent' = silent
    BY <1>6 DEF RestartFailsafe, NewFailsafe
  <2> QED
    BY <1>0, <2>1
<1>7. ASSUME NEW k \in Kinds, RestartController(k) PROVE Goal
  <2>1. lead'["master"] = lead["master"]
    BY <1>7 DEF RestartController, LeadsOfNew, TypeOK
  <2> QED
    BY <1>7, <2>1 DEF RestartController
<1>8. CASE Reboot
  BY <1>8 DEF Reboot, NoLead, NoFailsafe, NewFailsafe
<1>9. CASE UNCHANGED vars
  BY <1>9 DEF vars
<1> QED
  BY <1>1, <1>2, <1>3, <1>4, <1>5, <1>6, <1>7, <1>8, <1>9
  DEF Next, Loops, Pass, BreakingPass, ExplosionOver, Admins

(* The failsafe never kills a master controller that has begun a pass in   *)
(* the last five intervals, whoever restarts either of them.               *)
THEOREM NeverKilled == Spec => WorkingSpared
<1>1. Init => SpareInv
  BY InitTyped, KindsDistinct DEF Init, SpareInv, NoLead, NoFailsafe, NewFailsafe
<1>2. SpareInv /\ [Next]_vars => [Poke /\ Replaced("master") => silent = 5]_vars
  BY KindsDistinct DEF SpareInv, Replaced, TypeOK
<1> QED
  BY <1>1, <1>2, SpareStep, PTL DEF Spec, WorkingSpared

-----------------------------------------------------------------------------
(* Every step of the round is a step of the controllers, or leaves them    *)
(* alone.                                                                  *)
LEMMA RoundStep == [RoundNext]_allVars => [Next]_vars
<1> SUFFICES ASSUME [RoundNext]_allVars PROVE [Next]_vars
  OBVIOUS
<1> USE KindsDistinct DEF Alone
<1>1. CASE Lobby
  BY <1>1 DEF Lobby, LobbyTick, LobbyWaits, LobbyEnds, SetupFails, SetupSucceeds, Next
<1>2. CASE TimePasses
  BY <1>2 DEF TimePasses
<1>3. CASE MasterPass
  BY <1>3 DEF MasterPass, Next, Loops
<1>4. CASE LightingPass
  BY <1>4 DEF LightingPass, Next, Loops
<1>5. CASE Alone(Poke) \/ Alone(Explode) \/ Alone(ExplosionOver)
  BY <1>5 DEF Next, Loops
<1>6. CASE RestartWorld
  BY <1>6 DEF RestartWorld, Next
<1>7. CASE People
  BY <1>7 DEF People, Initiate, Custom, Cancel, Delay, StartNow, RoundAdmins, Admins, Next
<1>8. CASE UNCHANGED allVars
  BY <1>8 DEF allVars
<1> QED
  BY <1>1, <1>2, <1>3, <1>4, <1>5, <1>6, <1>7, <1>8 DEF RoundNext, World

LEMMA RoundRunsControllers == RoundSpec => Spec
BY RoundStep, PTL DEF RoundSpec, RoundInit, Spec

(* The station is not left dark and a working master controller is not     *)
(* killed in any round, with any lobby and however many explosions.        *)
THEOREM RoundNotLeftDark == RoundSpec => []NotLeftDark
BY RoundRunsControllers, NeverLeftDark, PTL

THEOREM RoundWorkingSpared == RoundSpec => WorkingSpared
BY RoundRunsControllers, NeverKilled, PTL

-----------------------------------------------------------------------------
Votes == [mode : Modes \cup {"none"}, time : Times, remaining : BOOLEAN]

LEMMA VoteTypes ==
    ASSUME vote \in Votes
    PROVE  /\ NoVote \in Votes
           /\ Processed \in Votes
           /\ \A m \in Modes : VoteOn(m) \in Votes
<1>1. NoVote \in Votes /\ \A m \in Modes : VoteOn(m) \in Votes
  BY DEF NoVote, VoteOn, Votes, Modes, Times
<1>2. [vote EXCEPT !.remaining = vote.time = "running"] \in Votes
  BY DEF Votes
<1> QED
  BY <1>1, <1>2 DEF Processed

LEMMA LobbyTyped ==
    ASSUME RoundTypeOK, [RoundNext]_allVars
    PROVE  /\ vote' \in Votes
           /\ going' \in BOOLEAN /\ timeleft' \in 0 .. LobbyTime
           /\ waiting' \in BOOLEAN /\ hurried' \in BOOLEAN /\ held' \in BOOLEAN
<1> DEFINE Goal == /\ vote' \in Votes
                   /\ going' \in BOOLEAN /\ timeleft' \in 0 .. LobbyTime
                   /\ waiting' \in BOOLEAN /\ hurried' \in BOOLEAN /\ held' \in BOOLEAN
<1>a. /\ vote \in Votes /\ going \in BOOLEAN /\ timeleft \in 0 .. LobbyTime
      /\ waiting \in BOOLEAN /\ hurried \in BOOLEAN /\ held \in BOOLEAN
  BY DEF RoundTypeOK, Votes
<1>b. /\ NoVote \in Votes /\ Processed \in Votes
      /\ \A m \in Modes : VoteOn(m) \in Votes
  BY <1>a, VoteTypes
<1>c. "gamemode" \in Modes /\ "custom" \in Modes /\ "crew_transfer" \in Modes
  BY DEF Modes
<1>1. CASE LobbyTick
  <2>1. vote' \in Votes
    BY <1>1, <1>b, <1>c DEF LobbyTick
  <2>2. timeleft' \in 0 .. LobbyTime
    BY <1>1, <1>a, LobbyAssumption DEF LobbyTick, Preparing
  <2>3. /\ going' \in BOOLEAN /\ waiting' \in BOOLEAN
        /\ hurried' \in BOOLEAN /\ held' \in BOOLEAN
    BY <1>1, <1>a, Zenon DEF LobbyTick, GoesOn
  <2> QED
    BY <2>1, <2>2, <2>3
<1>2. CASE LobbyWaits
  <2>1. vote' \in Votes /\ timeleft' = timeleft
    BY <1>2, <1>b DEF LobbyWaits
  <2>2. going' \in BOOLEAN /\ hurried' \in BOOLEAN /\ held' \in BOOLEAN
    BY <1>2, <1>a, Zenon DEF LobbyWaits, GoesOn
  <2>3. waiting' \in BOOLEAN
    BY <1>2, <2>1 DEF LobbyWaits, Votes
  <2> QED
    BY <1>a, <2>1, <2>2, <2>3
<1>3. CASE LobbyEnds
  <2>1. vote' \in Votes /\ going' = going /\ held' = held
    BY <1>3, <1>b DEF LobbyEnds
  <2>2. waiting' \in BOOLEAN
    BY <1>3, Zenon DEF LobbyEnds
  <2>3. timeleft' \in 0 .. LobbyTime /\ hurried' \in BOOLEAN
    <3>1. CASE waiting'
      BY <1>3, <1>a, <3>1, Zenon DEF LobbyEnds
    <3>2. CASE ~ waiting'
      <4>1. timeleft' = 0 /\ hurried' = FALSE
        BY <1>3, <3>2, Zenon DEF LobbyEnds
      <4>2. timeleft' \in 0 .. LobbyTime
        BY <4>1, LobbyAssumption
      <4>3. hurried' \in BOOLEAN
        BY <4>1, Zenon
      <4> QED
        BY <4>2, <4>3
    <3> QED
      BY <3>1, <3>2
  <2> QED
    BY <1>a, <2>1, <2>2, <2>3
<1>4. CASE SetupFails
  BY <1>4, <1>a, LobbyAssumption DEF SetupFails
<1>5. CASE SetupSucceeds
  BY <1>5, <1>a DEF SetupSucceeds
<1>6. CASE TimePasses
  <2>1. vote' \in Votes
    BY <1>6, <1>a DEF TimePasses, Votes, Times
  <2> QED
    BY <1>6, <1>a, <2>1 DEF TimePasses, lobby
<1>7. CASE MasterPass
  <2>1. vote' \in Votes
    BY <1>7, <1>b, <1>c DEF MasterPass
  <2> QED
    BY <1>7, <1>a, <2>1 DEF MasterPass, lobby
<1>8. CASE UNCHANGED <<vote, lobby, held>>
  BY <1>8, <1>a DEF lobby
<1>9. CASE RestartWorld
  <2>1. LobbyTime \in 0 .. LobbyTime
    BY LobbyAssumption
  <2> QED
    BY <1>9, <1>b, <2>1, Zenon DEF RestartWorld
<1>10. CASE \E m \in Modes \ {"custom"} : Initiate(m)
  <2>1. vote' \in Votes
    BY <1>10, <1>b DEF Initiate
  <2>2. going' \in BOOLEAN
    BY <1>10, <1>a, Zenon DEF Initiate
  <2> QED
    BY <1>10, <1>a, <2>1, <2>2 DEF Initiate
<1>11. CASE Custom \/ Cancel
  <2>1. vote' \in Votes
    BY <1>11, <1>b, <1>c DEF Custom, Cancel
  <2>2. held' \in BOOLEAN
    BY <1>11, <1>a, Zenon DEF Custom, Cancel
  <2> QED
    BY <1>11, <1>a, <2>1, <2>2 DEF Custom, Cancel, lobby
<1>12. CASE Delay
  <2>1. going' \in BOOLEAN /\ held' \in BOOLEAN
    BY <1>12, <1>a, Zenon DEF Delay
  <2> QED
    BY <1>12, <1>a, <2>1 DEF Delay
<1>13. CASE StartNow
  <2>1. held' \in BOOLEAN
    BY <1>13, <1>a, Zenon DEF StartNow
  <2> QED
    BY <1>13, <1>a, <2>1 DEF StartNow
<1>14. CASE UNCHANGED allVars
  BY <1>14, <1>a DEF allVars, lobby
<1> QED
  BY <1>1, <1>2, <1>3, <1>4, <1>5, <1>6, <1>7, <1>8, <1>9, <1>10, <1>11, <1>12,
     <1>13, <1>14
  DEF RoundNext, World, People, Lobby, LightingPass, Alone

(* The variables of a round hold values of their kinds, for any lobby. *)
THEOREM RoundTyped == RoundSpec => []RoundTypeOK
<1>1. RoundInit => RoundTypeOK
  <2>1. NoVote \in Votes
    BY DEF NoVote, Votes, Times
  <2>2. LobbyTime \in 0 .. LobbyTime
    BY LobbyAssumption
  <2> QED
    BY <2>1, <2>2, InitTyped, Zenon DEF RoundInit, VoteInit, RoundTypeOK, Votes
<1>2. RoundTypeOK /\ [RoundNext]_allVars => RoundTypeOK'
  <2> SUFFICES ASSUME RoundTypeOK, [RoundNext]_allVars PROVE RoundTypeOK'
    OBVIOUS
  <2>1. TypeOK'
    BY RoundStep, NextTyped DEF RoundTypeOK
  <2> QED
    BY <2>1, LobbyTyped DEF RoundTypeOK, Votes
<1> QED
  BY <1>1, <1>2, PTL DEF RoundSpec
=============================================================================
