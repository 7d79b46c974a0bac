---------------------------- MODULE Controllers -----------------------------
(***************************************************************************)
(* The controllers that run in loops, and the failsafe that watches them:  *)
(*   code/controllers/master_controller.dm (New, process),                 *)
(*   code/controllers/lighting_controller.dm (New, process),               *)
(*   code/controllers/failsafe.dm,                                         *)
(* with what starts and stops them: the start of the round (gameticker.dm),*)
(* the administrators' Restart Controller verb (verbs.dm) and explosions,  *)
(* which pause the lighting (explosion.dm).                                *)
(*                                                                         *)
(* process() of a controller starts a loop, which belongs to the object    *)
(* and ends with it.  A loop may break: an error in it, or a call that     *)
(* does not come back, ends it silently, while processing stays set.  What *)
(* a pass of a loop does to the game is left out.                          *)
(***************************************************************************)
EXTENDS Integers

CONSTANTS
    MaxLead,        \* bound: iterations counted from the one the failsafe remembers
    MaxExplosions   \* bound: explosions at once

ASSUME LeadAssumption == MaxLead \in Nat \ {0}
ASSUME ExplosionsAssumption == MaxExplosions \in Nat

VARIABLES
    controller,  \* of each controller: processing, and the loops of the object
    lead,        \* how far its iteration is past the one the failsafe remembers
    failsafe,    \* the failsafe, and its alert level for each controller
    explosions,  \* explosions under way that found the lighting on and off
    started,     \* the round has started
    silent       \* history: pokes since the master controller's last iteration

vars == <<controller, lead, failsafe, explosions, started, silent>>

Kinds == {"master", "lighting"}
Leads == -MaxLead .. MaxLead
Defcons == 0 .. 5

(* A controller after new and process(): New() has deleted the old object, *)
(* and with it its loops.                                                  *)
Running == [processing |-> TRUE, loops |-> 1]
Least(a, b) == IF a < b THEN a ELSE b

-----------------------------------------------------------------------------
(* The failsafe. *)

(* A controller that is paused is not watched.  (Nothing pauses the        *)
(* failsafe.)                                                              *)
Watched(k) == controller[k].processing

(* The controller has still not fired after the last warning. *)
Replaced(k) == Watched(k) /\ lead[k] = 0 /\ failsafe.defcon[k] = 5

(* Mutant: a controller that fires leaves the alert level alone. *)
AlertKept(k) ==
    IF ~ Watched(k) \/ lead[k] # 0 THEN failsafe.defcon[k]
    ELSE IF Replaced(k) THEN 0
    ELSE failsafe.defcon[k] + 1

(* Mutant: the last warning does not raise the level. *)
AlertStuck(k) ==
    IF ~ Watched(k) THEN failsafe.defcon[k]
    ELSE IF Replaced(k) \/ lead[k] # 0 THEN 0
    ELSE Least(failsafe.defcon[k] + 1, 4)

(* The alert level after a poke.  A paused controller keeps its level.     *)
Alert(k) ==
    IF ~ Watched(k) THEN failsafe.defcon[k]
    ELSE IF Replaced(k) \/ lead[k] # 0 THEN 0
    ELSE failsafe.defcon[k] + 1

(* The number of iterations is the world's for the master controller, but  *)
(* the lighting controller's own: a new one starts from 0.                 *)
LeadsOfNew(k) == IF k = "master" THEN {lead[k]} ELSE -MaxLead .. 0

LeadsAfterPoke(k) ==
    IF Replaced(k) THEN LeadsOfNew(k) ELSE IF Watched(k) THEN {0} ELSE {lead[k]}

(* Every 10 seconds.  (The master controller and the lighting controller   *)
(* are never missing: nothing but a new one deletes them.)                 *)
Poke ==
    /\ failsafe.exists
    /\ failsafe' = [failsafe EXCEPT !.defcon = [k \in Kinds |-> Alert(k)]]
    /\ controller' = [k \in Kinds |-> IF Replaced(k) THEN Running
                                      ELSE controller[k]]
    /\ lead' \in [Kinds -> Leads] /\ \A k \in Kinds : lead'[k] \in LeadsAfterPoke(k)
    /\ silent' = Least(silent + 1, 5)
    /\ UNCHANGED <<explosions, started>>

(* A new failsafe remembers iteration 0. *)
NewFailsafe == [exists |-> TRUE, defcon |-> [k \in Kinds |-> 0]]

-----------------------------------------------------------------------------
(* The loops. *)

(* A pass of a loop.  The master controller's first one creates the        *)
(* failsafe.                                                               *)
PassBegins(k) ==
    /\ controller[k].loops > 0
    /\ failsafe' = IF k = "master" /\ ~ failsafe.exists THEN NewFailsafe ELSE failsafe
    /\ IF controller[k].processing
       THEN /\ lead' = [lead EXCEPT ![k] = Least(@ + 1, MaxLead)]
            /\ silent' = IF k = "master" THEN 0 ELSE silent
       ELSE UNCHANGED <<lead, silent>>
    /\ UNCHANGED <<explosions, started>>

Pass(k) ==
    /\ PassBegins(k)
    /\ UNCHANGED controller

(* The loop breaks during its pass. *)
BreakingPass(k) ==
    /\ controller[k].processing
    /\ PassBegins(k)
    /\ controller' = [controller EXCEPT ![k].loops = @ - 1]

(* The end of gameticker's setup(): process() of both controllers.  One    *)
(* that an administrator has started before gets a second loop.            *)
StartRound ==
    /\ ~ started /\ started' = TRUE
    /\ controller' = [k \in Kinds |-> [processing |-> TRUE, loops |-> controller[k].loops + 1]]
    /\ UNCHANGED <<lead, failsafe, explosions, silent>>

-----------------------------------------------------------------------------
(* Administrators. *)

RestartController(k) ==
    /\ controller' = [controller EXCEPT ![k] = Running]
    /\ \E n \in LeadsOfNew(k) : lead' = [lead EXCEPT ![k] = n]
    /\ UNCHANGED <<failsafe, explosions, started, silent>>

(* The failsafe forgets the iterations it remembered: a controller that    *)
(* has fired is ahead, one that never has is not.                          *)
RestartFailsafe ==
    /\ failsafe' = NewFailsafe
    /\ lead' \in [Kinds -> 0 .. 1]
    /\ UNCHANGED <<controller, explosions, started, silent>>

-----------------------------------------------------------------------------
(* Explosions. *)

Exploding == explosions[TRUE] + explosions[FALSE]

Explode ==
    /\ Exploding < MaxExplosions
    /\ explosions' = [explosions EXCEPT ![controller["lighting"].processing] = @ + 1]
    /\ controller' = [controller EXCEPT !["lighting"].processing = FALSE]
    /\ UNCHANGED <<lead, failsafe, started, silent>>

(* Mutant: what was found is put back, whatever has happened since. *)
PutBackAlways(found) == found

(* What the lighting is set to by an explosion that found it so. *)
PutBack(found) == controller["lighting"].processing \/ found

ExplosionEnds(found) ==
    /\ explosions[found] > 0
    /\ explosions' = [explosions EXCEPT ![found] = @ - 1]
    /\ controller' = [controller EXCEPT !["lighting"].processing = PutBack(found)]
    /\ UNCHANGED <<lead, failsafe, started, silent>>

-----------------------------------------------------------------------------
Idle == [k \in Kinds |-> [processing |-> FALSE, loops |-> 0]]
NoLead == [k \in Kinds |-> 0]
NoFailsafe == [NewFailsafe EXCEPT !.exists = FALSE]
NoExplosions == [found \in BOOLEAN |-> 0]

Init ==
    /\ controller = Idle /\ lead = NoLead /\ failsafe = NoFailsafe
    /\ explosions = NoExplosions /\ started = FALSE /\ silent = 0

(* A new world. *)
Reboot ==
    /\ controller' = Idle /\ lead' = NoLead /\ failsafe' = NoFailsafe
    /\ explosions' = NoExplosions /\ started' = FALSE /\ silent' = 0

Loops == Poke \/ \E k \in Kinds : Pass(k) \/ BreakingPass(k)
ExplosionOver == \E found \in BOOLEAN : ExplosionEnds(found)

Admins == RestartFailsafe \/ \E k \in Kinds : RestartController(k)

Next == Loops \/ StartRound \/ Explode \/ ExplosionOver \/ Admins \/ Reboot
Spec == Init /\ [][Next]_vars

-----------------------------------------------------------------------------
(* Every variable holds values of its kind. *)
TypeOK ==
    /\ controller \in [Kinds -> [processing : BOOLEAN, loops : Nat]]
    /\ lead \in [Kinds -> Leads]
    /\ failsafe \in [exists : BOOLEAN, defcon : [Kinds -> Defcons]]
    /\ explosions \in [BOOLEAN -> Nat]
    /\ started \in BOOLEAN
    /\ silent \in 0 .. 5

(* The lighting is off only during an explosion that will put it on again: *)
(* explosions that overlap, rounds that start and controllers that are     *)
(* replaced meanwhile never leave the station's lighting dead              *)
(* (explosion.dm:65-66, 110).                                              *)
NotLeftDark ==
    started => controller["lighting"].processing \/ explosions[TRUE] > 0

(* A master controller that works is never killed: the failsafe replaces   *)
(* it only when it has not begun a pass for five whole intervals, whoever  *)
(* restarts the failsafe or overrides either of them meanwhile.            *)
WorkingSpared == [][Poke /\ Replaced("master") => silent = 5]_vars

(* A controller in use whose loop has ended. *)
Broken(k) == started /\ controller[k].loops = 0
=============================================================================
