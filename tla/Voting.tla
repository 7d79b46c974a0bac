------------------------------- MODULE Voting -------------------------------
(***************************************************************************)
(* Votes and the lobby, run by the master controller:                      *)
(*   code/controllers/voting.dm, code/controllers/autotransfer.dm and      *)
(*   pregame() of code/game/gamemodes/gameticker.dm.                       *)
(*                                                                         *)
(* Before the round the lobby's loop calls vote.process(), afterwards the  *)
(* master controller does, whose loop may break (module Controllers).      *)
(* A vote on the game mode stops the lobby's countdown until it has ended. *)
(* Choices and voters are left out: a vote may end anyhow.                 *)
(***************************************************************************)
EXTENDS Controllers

CONSTANTS
    LobbyTime,  \* the countdown of a lobby
    VoteAt      \* where the lobby calls a vote: vote_autogamemode_timeleft

ASSUME LobbyAssumption == LobbyTime \in Nat /\ VoteAt \in 1 .. LobbyTime - 1

VARIABLES
    vote,      \* the vote: its mode, its time, and time_remaining is not 0
    going,     \* the countdown of the lobby is not delayed
    timeleft,  \* that countdown; 0 while the round is set up, and in the round
    waiting,   \* the lobby's loop waits for the vote it called
    hurried,   \* an administrator has ended the countdown ("Start Now")
    held       \* history: an administrator stopped the countdown of this lobby

lobby == <<going, timeleft, waiting, hurried>>
allVars == <<vars, vote, lobby, held>>

Modes == {"restart", "gamemode", "crew_transfer", "custom"}
Times == {"running", "last", "over"}
NoVote == [mode |-> "none", time |-> "over", remaining |-> FALSE]
VoteOn(m) == [mode |-> m, time |-> "running", remaining |-> TRUE]
OnVote == vote.mode # "none"

-----------------------------------------------------------------------------
(* Votes. *)

(* The countdown is over: current_state is 2 or more. *)
Preparing == started \/ timeleft = 0 \/ hurried

(* Mutant: the time that remains is not computed again. *)
ProcessedStale == vote

(* What process() leaves of the vote. *)
Processed ==
    IF vote.time = "over" \/ (vote.mode = "gamemode" /\ Preparing) THEN NoVote
    ELSE [vote EXCEPT !.remaining = vote.time = "running"]

(* Mutant: the countdown goes on only if the vote decided something. *)
GoesOnDecided == going

(* "fire this even if the vote fails" *)
GoesOn == going \/ (vote.mode = "gamemode" /\ vote.time = "over" /\ ~ Preparing)

(* initiate_vote() by a player, an administrator or the server. *)
Initiate(m) ==
    /\ ~ OnVote
    /\ m = "gamemode" => ~ Preparing
    /\ vote' = VoteOn(m)
    /\ going' = (going /\ m # "gamemode")
    /\ UNCHANGED <<vars, timeleft, waiting, hurried, held>>

(* initiate_vote("custom") sleeps while the administrator is asked for the *)
(* question and the options, and then puts the vote in the place of one    *)
(* that has begun meanwhile.  There is always one who was asked before.    *)
Custom ==
    /\ vote' = VoteOn("custom")
    /\ held' = (held \/ (vote.mode = "gamemode" /\ ~ going))
    /\ UNCHANGED <<vars, lobby>>

Cancel ==
    /\ OnVote /\ vote' = NoVote
    /\ held' = (held \/ (vote.mode = "gamemode" /\ ~ going))
    /\ UNCHANGED <<vars, lobby>>

TimePasses ==
    /\ OnVote /\ vote.time # "over"
    /\ vote' = [vote EXCEPT !.time = IF @ = "running" THEN "last" ELSE "over"]
    /\ UNCHANGED <<vars, lobby, held>>

-----------------------------------------------------------------------------
(* The lobby. *)

(* A second in the lobby's loop: the vote is processed, the countdown goes *)
(* on, and in its time the lobby calls a vote on the game mode.            *)
LobbyTick ==
    /\ ~ Preparing /\ ~ waiting
    /\ timeleft' = IF GoesOn THEN timeleft - 1 ELSE timeleft
    /\ IF timeleft' = VoteAt /\ Processed.mode = "none"
       THEN /\ vote' = VoteOn("gamemode") /\ going' = FALSE
       ELSE /\ vote' = Processed /\ going' = GoesOn
    /\ waiting' = (timeleft' = VoteAt /\ Processed.mode = "none")
    /\ held' = (held /\ ~ going')
    /\ UNCHANGED <<vars, hurried>>

(* It waits until no time remains. *)
LobbyWaits ==
    /\ ~ Preparing /\ waiting
    /\ vote' = Processed /\ going' = GoesOn
    /\ waiting' = vote'.remaining
    /\ held' = (held /\ ~ going')
    /\ UNCHANGED <<vars, timeleft, hurried>>

(* Hurried, the loop ends once it no longer waits; the lobby's own vote is *)
(* refused, and one on the game mode aborted, which leaves going as it is. *)
LobbyEnds ==
    /\ hurried
    /\ vote' = Processed /\ UNCHANGED going
    /\ waiting' = (waiting /\ vote'.remaining)
    /\ IF waiting' THEN UNCHANGED <<timeleft, hurried>>
       ELSE timeleft' = 0 /\ hurried' = FALSE
    /\ UNCHANGED <<vars, held>>

(* setup() *)
SetupFails ==
    /\ ~ started /\ timeleft = 0 /\ timeleft' = LobbyTime
    /\ UNCHANGED <<vars, vote, going, waiting, hurried, held>>

(* Nobody reads going during the round; the model forgets it.              *)
SetupSucceeds ==
    /\ timeleft = 0
    /\ StartRound
    /\ going' = TRUE /\ held' = FALSE
    /\ UNCHANGED <<vote, timeleft, waiting, hurried>>

(* The delay verb; once the round has started it delays its end.           *)
Delay ==
    /\ ~ Preparing
    /\ going' = ~ going /\ held' = going
    /\ UNCHANGED <<vars, vote, timeleft, waiting, hurried>>

(* The "Start Now" verb.  If the set-up then fails, the lobby comes back   *)
(* with the countdown that a vote on the game mode had stopped.            *)
StartNow ==
    /\ ~ Preparing
    /\ hurried' = TRUE
    /\ held' = (held \/ (vote.mode = "gamemode" /\ ~ going))
    /\ UNCHANGED <<vars, vote, going, timeleft, waiting>>

-----------------------------------------------------------------------------
(* A pass of the master controller processes the vote, and then calls one  *)
(* on a crew transfer when it is time.                                     *)
MasterPass ==
    /\ Pass("master") \/ BreakingPass("master")
    /\ vote' \in {Processed}
                 \cup IF Processed = NoVote THEN {VoteOn("crew_transfer")} ELSE {}
    /\ UNCHANGED <<lobby, held>>

VoteInit ==
    /\ vote = NoVote /\ going = TRUE
    /\ timeleft = LobbyTime /\ waiting = FALSE /\ hurried = FALSE
    /\ held = FALSE

(* A vote to restart is passed: the world starts anew. *)
RestartWorld ==
    /\ vote.mode = "restart" /\ vote.time = "over"
    /\ IF started THEN controller["master"].loops > 0 ELSE timeleft > 0
    /\ Reboot
    /\ vote' = NoVote /\ going' = TRUE
    /\ timeleft' = LobbyTime /\ waiting' = FALSE /\ hurried' = FALSE
    /\ held' = FALSE

Alone(A) == A /\ UNCHANGED <<vote, lobby, held>>

Lobby == LobbyTick \/ LobbyWaits \/ LobbyEnds \/ SetupFails \/ SetupSucceeds
LightingPass == Alone(Pass("lighting") \/ BreakingPass("lighting"))
World ==
    \/ Lobby \/ TimePasses \/ MasterPass \/ LightingPass
    \/ Alone(Poke) \/ Alone(Explode) \/ Alone(ExplosionOver) \/ RestartWorld

(* Bound: controllers are restarted only during the round.                 *)
RoundAdmins == RestartFailsafe \/ (started /\ \E k \in Kinds : RestartController(k))

People ==
    \/ \E m \in Modes \ {"custom"} : Initiate(m)
    \/ Custom \/ Cancel \/ Delay \/ StartNow \/ Alone(RoundAdmins)

RoundInit == Init /\ VoteInit
RoundNext == World \/ People
RoundSpec == RoundInit /\ [][RoundNext]_allVars

(* Time passes and every loop goes round, while it is there. *)
RoundFairness ==
    /\ WF_allVars(TimePasses) /\ WF_allVars(Lobby)
    /\ WF_allVars(MasterPass) /\ WF_allVars(LightingPass)
    /\ WF_allVars(Alone(Poke)) /\ WF_allVars(Alone(ExplosionOver))
FairRoundSpec == RoundSpec /\ RoundFairness

-----------------------------------------------------------------------------
(* Every variable holds values of its kind. *)
RoundTypeOK ==
    /\ TypeOK
    /\ vote \in [mode : Modes \cup {"none"}, time : Times, remaining : BOOLEAN]
    /\ timeleft \in 0 .. LobbyTime
    /\ {going, waiting, hurried, held} \subseteq BOOLEAN

PeopleLeave == <>[][~ People]_allVars

(* A vote whose time is over is closed, though the master controller that  *)
(* processes it may break and be replaced just then (process()).           *)
VoteEnds ==
    PeopleLeave => ((OnVote /\ vote.time = "over") ~> (~ OnVote \/ vote.time = "running"))

(* The lobby does not wait for ever: votes that overlap the countdown, the *)
(* vote it calls itself and set-ups that fail let it go on, unless an      *)
(* administrator stopped it.                                               *)
RoundStarts ==
    PeopleLeave => []<>(started \/ timeleft = 0) \/ <>[]held

(* A controller that broke, be it the one that would have restarted the    *)
(* failsafe, is started again (failsafe.dm:30-63), across votes, rounds    *)
(* and explosions, unless the explosions never stop.                       *)
BrokenRestarts ==
    PeopleLeave => \A k \in Kinds : <>[]Watched(k) => (Broken(k) ~> ~ Broken(k))
=============================================================================
