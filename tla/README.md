# The moving parts of a space station server, in TLA+

The repository is a Space Station 13 server (BYOND, DM language): one process that
simulates a station, its machines and its crew. Almost all of its code is a large
number of small object behaviours. This project models the parts in which independent
actors follow a protocol over time:

- **shuttles, the docking controllers they and the stations run, and the doors of the
  docking ports**, where a mistake leaves a shuttle docked to nothing, a hatch open to
  space, or a ferry that never leaves;
- **NanoUI windows**, whose other half is JavaScript in the players' browsers, where one
  leaves a dead window on a screen or shows what is no longer so;
- **the controllers that keep the game going**, the failsafe that restarts them, the votes
  they process and the lobby before the round, where one stops the station for everybody.

All paths below are relative to `src/`.

## 1. How DM runs this code

The model rests on four facts about the execution of the code.

- There is one thread of execution. A procedure runs to its end without interruption
  unless it calls `sleep()`, and what `spawn(n)` encloses runs `n` ticks later. A model
  action is therefore everything between two sleeps.
- `radio_frequency.post_signal()` (`code/controllers/communications.dm` l.246-276) calls
  `receive_signal()` of every listener but the sender before it returns. A message and
  all that it sets off belong to the step of the sender. No message is lost or reordered,
  except that a machine that was destroyed neither sends nor receives.
- The master controller (`code/controllers/master_controller.dm` l.131-302) goes round
  for ever: it calls `process()` of every machine, then of every shuttle in use, and so
  on. Calls of players (consoles, buttons) and ends of sleeps fall between any two of
  them.
- A reference to a deleted object becomes null, and the loops of its procedures end: that
  a new master controller deletes the old one (`master_controller.dm` l.38-46) is what ends
  the loop of the old.
- An error ends the procedure it happens in and those that wait for it, and what they have
  set stays set. A loop started with `spawn()` is then gone without a trace.

## 2. Inventory

| component | code | state | operations | interacts with |
|---|---|---|---|---|
| docking handshake | `code/game/machinery/embedded_controller/docking_program.dm`, `embedded_program_base.dm` | dock_state, control_mode, tag_target, response_sent, resend_counter, received_confirm, override_enabled | five signals, `process()`, initiate_docking/undocking, force_undock, reset | shuttles (calls), other controllers (signals), the docking port (virtual procs) |
| ferry shuttles | `code/modules/shuttles/shuttle.dm`, `shuttle_ferry.dm` | location, moving_status, process_state, in_use, arrive_time, last_dock_attempt_time, sleeping jumps | launch, force_launch, cancel_launch, process, short/long_jump, move, dock, undock, arrived | consoles, shuttle controller, docking program |
| shuttle controller, consoles | `code/controllers/shuttle_controller.dm`, `code/modules/shuttles/shuttle_console.dm` | list of shuttles | setup_shuttle_docks, process, Topic | ferries, docking programs |
| single-door ports | `simple_docking_controller.dm`, `code/game/machinery/doors/airlock_control.dm`, `airlock.dm`, `door.dm` | memory["door_status"]; density, locked, operating, cur_command | open_door, close_door, receive_user_command; execute_current_command, open, close, lock, unlock, send_status | docking program; door and controller by signals |
| radio | `code/controllers/communications.dm` | listeners by frequency and filter | post_signal, add/remove_object | all controllers and doors |
| airlock program, airlock ports | `airlock_program.dm`, `airlock_docking_controller.dm` | state, target_state, memory of doors, pump, sensors | cycle, abort, purge, secure, process | doors, pumps, sensors, docking program |
| multi-airlock ports | `docking_program_multi.dm` | children_ready, children_override; master_status, docking_enabled, docking_mode | prepare/finish signals, ready reports | master and children by signals |
| emergency shuttle | `code/controllers/emergency_shuttle_controller.dm`, `shuttle_emergency.dm` | launch_time, wait_for_launch, auto_recall, autopilot, evac, departed, authorized | call, recall, process, shuttle_arrived, launch/force/cancel with authorization | ferry, escape pods, votes |
| escape pods | `escape_pods.dm` | armed, eject_time, closing | arm, launch, force | emergency shuttle, simple ports |
| special operations, supply, roaming ships | `shuttle_specops.dm`, `shuttle_supply.dm`, `shuttles_multi.dm` | launch_prep, cancel_countdown, reset_time; at_origin, last_departed | launches with sleeps of their own | ferries, consoles |
| controllers, failsafe | `code/controllers/master_controller.dm`, `lighting_controller.dm`, `failsafe.dm`, `verbs.dm`, `code/game/objects/explosion.dm` | processing, iteration; the iteration remembered and the alert level (defcon) of each | process, New, restart, explosions | everything they process |
| votes, automatic transfer | `code/controllers/voting.dm`, `autotransfer.dm` | mode, time_remaining, choices, voters | initiate_vote, process, result, cancel | lobby, world, emergency shuttle |
| lobby, game ticker | `code/game/gamemodes/gameticker.dm` | pregame_timeleft, going, current_state | pregame, setup, delay | votes, controllers |
| NanoUI windows | `code/modules/nano/nanoui.dm`, `nanomanager.dm`, `nanoexternal.dm`, `nanointeraction.dm`; `nano/js/*.js` | the lists of open uis; status, auto update; in the browser: state, data, templates loaded, canClick | open, close, push_data, update_status, process, Topic, nanoclose; receiveUpdateData, loadNextTemplate, doUpdate, click | objects' ui_interact and Topic, master controller, the player's browser |
| atmospherics, mobs, items, game modes, data | the rest | | | |

What is hard here:

- **Sleeping halves.** A jump sleeps for its warmup and its travel, a cancelled launch
  leaves a delayed `dock()`, a door sleeps while it moves. Anything may happen meanwhile,
  and what wakes up judges by state that others have changed twice.
- **Two ends that must agree.** Client and server run the same program and change state
  on each other's signals; a shuttle may leave in the middle by force, and either
  machine may be blown up.
- **Remembered state.** Programs decide from what a door reported last.
- **Two programs.** Commands to a browser are under way while its page is still being made;
  what it sends back names a server object that may be gone.
- **Failure.** The loop that drives everything can break at any point, and who repairs it
  is told apart from a loop that is merely slow by a counter.
- **Waiting.** Handshakes, launches and arrivals wait for another party, and messages are
  sent once (or repeated after five rounds).

What makes each component correct:

- handshake: no program leaves the table of states documented at `docking_program.dm`
  l.13-27; the two ends always agree; the server completes only what its client has
  confirmed; a handshake under way ends.
- ferries: one jump at a time; `location` agrees with where the shuttle is; it leaves
  undocked unless forced; nobody is stranded in transit; launches and arrivals end.
- ports: memory and door agree when the door is at rest; one thread moves a door; no
  command is forgotten; an undocking ends, and ends with closed doors.
- emergency shuttle: a recalled shuttle stays; the autopilot waits for the whole of its
  countdowns; the round ends with the shuttle really back; authorizations end with the
  flight; a pod does not return.
- windows: one on the screen is served or about to be closed; data shown never gets older;
  nothing about the object is sent to a player who must not see it; when all is quiet the
  window shows how things are.
- controllers: a broken one is started again, a working one is not killed, an explosion
  does not leave the lighting off; votes end; the lobby ends in a start unless an
  administrator stopped it.
- airlock (not modelled, see section 7): never both doors open during a cycle; a cycle ends.

## 3. Modules

```
DockingLink            what a docking promises (abstract)
   ^ refined by
DockingProgram         the handshake            <- DockingProgramProofs <- DockingLinkProofs
   ^ steps composed with
MultiDocking           EXTENDS it: ports with several airlocks  <- MultiDockingProofs
FerryShuttle           INSTANCE of it: ferries and consoles     <- FerryShuttleProofs
   ^ INSTANCE, steps composed with
EmergencyShuttle       emergency shuttle, pods  <- EmergencyShuttleProofs
SimpleDocking          single-door ports, doors <- SimpleDockingProofs
NanoUi                 windows, server and browser  <- NanoUiProofs
Controllers            controllers, failsafe
   ^ EXTENDS, steps composed with
Voting                 votes and the lobby      <- VotingProofs (also of Controllers)
MCMultiDocking, MCFerryShuttle, MCEmergencyShuttle, MCSimpleDocking, MCNanoUi, MCVoting
                       instances for TLC
```

**DockingProgram.** `prog[c]` is the record of the program's variables, `online` the
controllers whose machine stands. Each handler of `receive_signal()` is an operator from
the receiving program and the sender to its next state (`OnConfirmDock`, ...), `Deliver`
is a signal that is heard, and each call is one action: `InitiateDocking`,
`InitiateUndocking`, `ForceUndock`, `Process` (its switch in `Step`, the counter in
`Resend`, the final checks in `Repair`), and `Destroy`. `InitiateDocking` includes the
answer, because `request_dock` is answered inside the call. Whether the port is ready is
an arbitrary Boolean of `Process`, and the override, which only decides about the port, is
left to the modules that have one. `tag_target` never changes while bound, so it stands
for the partner. The counter keeps its width by the bound `ResendTime` (5 in the code).

**DockingLink.** A host and its guest hold the two ends of a link; both move together:
accept, confirm, join, part, confirm, release (and break, by force). `DockingProgram` maps
a program to its end of the link (`LinkEnd`) and implements it.

**MultiDocking.** A master is a docking controller of DockingProgram whose port is a set of
airlocks; `airlock[a]` is what the child program of each keeps of the handshake,
`children_ready` the airlocks whose report the master has, `intact` the airlock controllers
that stand. The program calls `prepare_for_docking()` and its three sisters where it enters
the next dock_state, so the command of a step is read off the change of the master's
dock_state: `TellChildren` carries it to the airlocks that hear (`OnCommand`) and forgets the
reports (`ClearReports`), and is composed with every action of DockingProgram but the forced
undocking and the loss of a machine, where `reset()` calls nothing. `MultiProcess` is Process
with the readiness of a master no longer arbitrary: all its airlocks have reported.
`AirlockReports` is the child's `process()`, which may happen whatever the master's state is; when
the airlock under it is ready is left open. The override of a master is never switched on, as
nothing calls `enable_override()` of one.

**FerryShuttle.** The variables of `datum/shuttle/ferry`, plus `area`, where the shuttle
really is, and `jumps`, the sleeping halves of `short_jump()` and `long_jump()`, oldest
first. `redocks` counts the delayed `dock()` calls of cancelled launches. Time is abstract:
`arriving` says that arrive_time has come, `timed_out` that DOCK_ATTEMPT_TIMEOUT is over,
and warmups, being of equal length for one ferry, end in the order they began. `process()`
is `Depart`, `Arrive` or `Finish`; a jump is `CallOff` or `Leave` when its warmup ends, and
`Land` when a long one ends. `move()` is `Move`, with the forced undocking inside. `Launch`,
`ForceLaunch`, `CancelLaunch` and `LoseConsole` are the consoles'. The docking programs are
those of `DockingProgram`, instantiated: every dock or undock call is one of its actions.
`setup` are the ferries that `setup_shuttle_docks()` has still to dock.
`TravelEnds` and `TimeOut` happen only where somebody may look at the time they stand for,
since before that nobody can tell.

**EmergencyShuttle.** The ferries of FerryShuttle, of which one, `Escape`, is the emergency
shuttle and the others are escape pods, under the emergency shuttle controller. `countdown`
is wait_for_launch together with whether launch_time has come: "off", "running" or "due";
`auto_recall` is the flag of that name together with whether auto_recall_time has come.
`Call` and `Recall` are the controller's calls. Its process() is three actions: `TimeToLaunch` and
`LaunchNext` when the countdown is due, which call launch() of the armed pods and the shuttle one
after the other, and `AutoRecall`, the automatic recall, after which the same call of process()
goes on to ask for launch_time, without looking at wait_for_launch again, and may launch what it
has just recalled. `Free` keeps everybody else out in between, because process() does not sleep.
`Recall` and `AutoRecall` share the body of recall(), `RecallShuttle`. `ConsoleLaunch`, `ConsoleForce` and
`ConsoleCancel` are the shuttle's console, with the authorizations it asks for; `PodPanel`
and `ArmPod` are the pods'. What the emergency shuttle overrides, `long_jump()`, `move()` and
`arrived()`, is conjoined to the ferry's `Depart`, `Leave` and `Finish`. `console_lock` is the
part of in_use that `arrived()` asks for: whether it is the shuttle's console. Two relations
between durations are kept. The controller's process() is called every two seconds, while a
jump sleeps for 10 s or more before it does anything, so that no jump leaves or lands while
a countdown is due (`Prompt`); a pod's warmup is 0 s, so for pods this is an abstraction, which
matters little as a due countdown does nothing to a pod in flight. And auto_recall_time comes 30 s
or more after the call and before the launch_time that was set with it (`RecallComes`,
`LaunchComes`), while `long_jump()` sets launch_time to now whenever the shuttle leaves (`Depart`):
that is how one call of process() may find both come. `set_at` and `recalled` are history
variables, for LeavesOnTime and RecalledStays; "relaunched" is a recall of that kind. Left out:
deny_shuttle, the admins' edits of the countdown and their asking for an automatic recall while
it runs, and docking machines lost, which FerryShuttle has.

**SimpleDocking.** The docking programs again, each with a door. `memory` is what the
program remembers, `door` the door's density, bolts, `operating` and `cur_command`,
`threads` what each thread of the door sleeps for. A step of a docking program sends its
door at most one command, from what it remembers (`PortCommand`). `Execute` begins
`execute_current_command()`; `Open`, `FinishOpening`, `FinishClosing`, `FinishLocking` go on
after each sleep; `LateClose` is the retry 6 s after somebody stood in the way; `PollDoor` is
the door's own `process()`. `patient` is a history variable: the programs that began their
undocking when all doors were at rest. `UndocksShut` and `UndockingEnds` are about these, and
`AnyUndockingEnds`, which fails, about all; the first also needs that nobody uses the
override, with which a hatch may be opened after its port was checked. The initial states
are those after the doors have answered the `update` that the controller sends a second
after it is made. `autoclose()`, which closes a door some time after it was opened, is left
out: it spares locked doors, and a hatch that is open is locked or about to move (with an
action for it added, TLC never finds it enabled).

**NanoUi.** One player, one object and one ui_key, which makes one window. `ui` is the nanoui
in nanomanager's lists, `win` the window with the variables of its scripts, `toClient` and
`toServer` what is under way. A version number stands for the object's data, so that older
and newer can be told apart. The server's procedures call each other; each is an operator
from the nanoui and the commands sent so far to their next values (`UpdateStatus`,
`PushData`, `UpdateStatusAndPush` for `update_status(1)`, `ProcessUi`, `CloseUi`, `OpenUi`), and the
actions are where they are called from: the master controller (`Process`), the player who
uses the object (`Use`), a link (`Topic`) and the window's end (`NanoClose`). `Receive` is a
command that reaches the browser: the page (browse), its on-close command (winset), a push
(output, `receiveUpdateData()`) or the end. `LoadScripts`, `LoadTemplate` and `FailTemplate` are
the page's own progress, `Click` and `EnableClick` the click handler with its pause.
When the status check of a link closes the window, the code goes on to the object's own `Topic()`,
which checks again and refuses; the model stops at the closing. A
reference is given to a new nanoui once the old one is gone, as BYOND does, which is how a late
message may find the wrong one. Three things are assumed of BYOND: commands arrive in the
order they were sent, both ways; `browse(null)` does not run the window's on-close command;
and what is under way is lost when a player logs out. `NoOrphan`, `NeverGoesBack`,
`NothingInTheRed` and `CatchesUp` are explained in the module. The last is about windows that
update themselves and whose player may see the object: a status that became disabled is
pushed once, and a window that loses it while loading keeps its colour (with the data its page
was made from).

**Controllers.** Of the master and the lighting controller: `processing`, and how many loops
the object has. `lead` is how far the iteration is past the one the failsafe remembers; only
whether they are equal is ever asked, so that it is capped at MaxLead, and where the
code sets one of them to 0 `lead` may become anything a count of iterations could leave.
`Pass` is a pass of a loop, `BreakingPass` one that breaks in it: an error, or a call that never
comes back. `Poke` is the failsafe's round with its alert levels (`Alert`), `Replaced` the
controllers it starts anew. Explosions are counted by whether they found the lighting on. `silent` is
a history variable, the pokes since the master controller last fired. Left out: what an
administrator may do by editing the variables of a controller; nothing else pauses the
master controller or the failsafe. New objects of the lighting controller count their
iterations from 0, those of the master controller share one count.

**Voting** extends Controllers with the vote and the lobby. The master controller's pass is
composed with `vote.process()` (`MasterPass`); before the round the lobby's loop processes the
vote. `vote.time` is what remains: "running", "last" (time_remaining is 0 though the vote is still open) or
"over". Choices and voters are left out, so a vote may end with any result: one to restart
may be passed (`RestartWorld`), one on the mode only lets the countdown go on (`GoesOn`). `Custom`
is the second half of an administrator's `initiate_vote("custom")`, which has slept while
questions were asked, and is always possible, because somebody may have been asked before.
`Delay` and `StartNow` are administrators' verbs; the second sets current_state, so that the lobby's
loop ends where it next looks at it (`hurried`, `LobbyEnds`), and if the set-up then fails the lobby
begins again with `going` as it was. `held`
is a history variable: an administrator stopped the countdown, by the delay verb, or by
cancelling, replacing or overtaking the vote it waits for. A pass of the master controller that breaks
does so after it has processed the vote: `vote.process()` is among the first things a pass does. The shuttle that a vote on a crew transfer
calls is EmergencyShuttle's `Call`.

Definitions marked "Mutant" are altered copies of the definition that follows: replacing it
by its mutant must make the property named in PROJECT.json fail.

## 4. Runs

| run | question | bounds and why they are enough |
|---|---|---|
| docking_live | types, table, agreement; implements the link; only force breaks it and the server waits for its client and for fresh reports of all its airlocks, which are held meanwhile; handshakes end | two shuttles sharing a berth and one of them with a second berth: the smallest world with contention and a choice of partner; the shared berth has two airlocks, the fewest that can disagree, and the number of the map's one port of this kind; resend time as in the code; no machine lost, for which the theorems on types, TableHolds, Agreement, AirlocksAreHeld and AllHaveReported stand in |
| ferry_cancelled | protocol kept and nobody stranded whatever is cancelled | one ferry with a berth at one end and none at the other (so that docking checks are also skipped), two jumps and two delayed docks at a time: the third would only repeat the second |
| ferry_contended | one jump, location; launches, arrivals and docking attempts end | two ferries, one of them long-jumping, that share a berth |
| emergency | the autopilot keeps its countdowns and forgets no shuttle at the station; a recalled shuttle stays, unless its recall goes on to launch it; the round ends with the shuttle back; pods do not return | the shuttle with a berth at the station and a pod with its own, one authorization, one jump and one delayed dock per ferry |
| port | memory and movers, everything allowed | a shuttle and a berth; two threads per door besides a late one: the command's and the poll's, or those of two commands |
| port_fair | an undocking that begins with the doors at rest ends, with doors shut; no command is forgotten | the same without force and override; undocking also while doors move |
| nano | a window is served or about to be closed; never goes back; nothing to a player in the red; catches up at rest | two references, so that one is reused while messages to its last owner are under way; one template after the page; the data changes once; four commands to the client (what an opening while another window is open sends) and one request at a time |
| round | lighting not left off, working controllers spared, broken ones restarted; votes and the lobby end | two explosions at once, the fewest that overlap; a lobby of three steps that calls its vote after the first; a lead of one iteration, since only equality is asked; controllers are restarted by administrators only during the round |

Deadlock is checked in every run.

With one jump per ferry, emergency leaves parallel jumps to FerryShuttle, and with them the
flaw that ferry_cancelled_jump shows. With two, TLC finds ReturnedHome and RecalledStays
violated: a jump that was cancelled goes on, and in both counterexamples two landings that wait
for the same arrive_time are a whole flight apart, which the model's abstract time allows and
the code's `while (world.time < arrive_time) sleep(5)` does not. Neither, nor StillLeaves, is claimed of two jumps. The berths at Central Command are left out of this run (they behave as the others)
and are there in emergency_auth.

Violation runs, each a disagreement of the code with what it says of itself:

- **ferry_cancelled_jump**: a launch is cancelled and asked for again within the warmup. The
  sleeping half of the first jump finds moving_status at SHUTTLE_WARMUP and carries out the
  jump that was cancelled, earlier than the new warmup allows (`shuttle.dm` l.21). The jump in
  this run is a short one and is over at once, so that the sleeping half of the second launch finds the
  shuttle idle and gives up. A revived long jump is still in transit then, and the second jump
  goes on beside it, which the comment at `shuttle_ferry.dm` l.67 rules out.
- **ferry_redock**: the delayed `dock()` of a cancelled launch docks a shuttle that is about
  to leave again, and it leaves docked, although nobody forced it.
- **port_missed**: a shuttle that undocks while its hatch is still opening sends no command
  to close it, because it remembers the hatch closed, and then waits for ever.

- **emergency_auth**: a shuttle that its console launched arrives with all authorizations
  still given. `arrived()` looks for the console in in_use, which process() has cleared three
  lines before the state in which it calls `arrived()`; `reset_authorization()` is never called.

One more behaviour TLC reaches in emergency, and RecalledStays excepts: an automatic recall that
launches. The console launches the shuttle, which waits to undock at Central Command; somebody
calls it meanwhile, which turns the autopilot on; auto_recall_time comes, and before the next
process() the shuttle leaves, so that launch_time is now. process() recalls it and, as launch_time has come,
launches it again. Where `auto_recall` is set, a call is meant to be for show only
(`code/game/machinery/computer/communications.dm` l.491-492), but this shuttle comes.

## 5. Fairness

Only weak fairness is assumed, and only of what the code's scheduling repeats or ends by
itself: `process()` of every standing machine and of every ferry in use (the master
controller's loop), the end of sleeps (per kind of sleep for a door), arrival times and
time-outs. Nothing is assumed of players: no launch is asked for, forced or cancelled, and
nobody steps out of a door; `UndockingEnds` and `CommandsDone` except the cases where
somebody stands in a door. docking_live and ferry_contended also assume of ports without airlocks that they become
ready, which is what the base program's `ready_for_docking()` returns. Nothing is assumed of the
airlocks of docking_live, whose cycles do not end by themselves (section 7): `HandshakeEnds`
says that a handshake which does not end waits for one airlock of its own two ends that never
becomes ready, and for nothing else; port_fair does without,
since there the port is modelled. nano assumes that commands arrive, that files are fetched
or fail, that the page's timer runs out and that the master controller goes round; `CatchesUp` is
about the time after which neither the player nor the object does anything (`AtRest`). round
assumes that time passes, that loops go round as long as they exist (the lobby's, the master
controller's, the lighting's, the failsafe's), and that explosions end; its liveness is about the
time after which players and administrators leave things alone (`PeopleLeave`). A loop may
break in any pass: nothing is assumed of that. No machine is lost in the liveness runs: a partner
of a lost machine does wait for ever, as the code has no time-out for it.

## 6. Proofs

TLAPS proves, for any sets of controllers, ferries and routes and any resend time:

| theorem | states |
|---|---|
| DockingProgramProofs!TypeCorrect, MultiDockingProofs!MultiTypeCorrect | types of the docking programs and their airlocks |
| DockingProgramProofs!TableHolds | the state table (so the repairs in `process()` are never needed) |
| DockingProgramProofs!Agreement | the two ends of a docking, both standing, agree |
| DockingLinkProofs!LinkImplemented | the programs implement DockingLink while no machine is lost, however shuttles leave |
| DockingLinkProofs!LinkKept | only a forced departure breaks a link; the server completes only what its client has confirmed |
| DockingLinkProofs!OrderlyLinkImplemented | without force the programs implement the link that never breaks |
| MultiDockingProofs!AirlocksAreHeld | airlocks are held while their master is bound |
| MultiDockingProofs!AllHaveReported | a docking or undocking is completed only when all airlocks of either end have reported anew |
| FerryShuttleProofs!DockingImplemented | ferries keep to the docking protocol, however launched, forced, cancelled |
| FerryShuttleProofs!FerriesAgree | hence a ferry and its berth agree |
| FerryShuttleProofs!FerryTypes | types of the ferries |
| FerryShuttleProofs!NobodyStranded | a ferry in transit has a jump that will land it, whatever is cancelled |
| FerryShuttleProofs!OneJumpHolds | one jump at a time while nobody cancels |
| FerryShuttleProofs!LocatedHolds | while nobody cancels, a ferry is where location says and deals with the berth there |
| FerryShuttleProofs!LeavesUndockedHolds | while nobody cancels, it leaves undocked unless forced |
| SimpleDockingProofs!PortTypes | types of programs, doors and threads |
| SimpleDockingProofs!OneMoverHolds | one thread moves a door, and operating says when |
| SimpleDockingProofs!MemoryRightHolds | a program remembers its door rightly when no thread is left |
| SimpleDockingProofs!UndocksShutHolds | an undocking that began with the doors at rest is complete only with both doors shut |
| EmergencyShuttleProofs!EmergencyTypes | types of the emergency shuttle, its controller and console, and the pods |
| EmergencyShuttleProofs!LeavesOnTimeHolds | the autopilot leaves only on a countdown set where it is, if no ferry has two jumps at a time |
| EmergencyShuttleProofs!ReturnedHomeHolds | the round ends with the shuttle back, if no ferry has two jumps at a time |
| EmergencyShuttleProofs!RecalledStaysHolds | a recalled shuttle stays, unless the recall itself goes on to launch it, if no ferry has two jumps at a time |
| EmergencyShuttleProofs!StillLeavesHolds | a shuttle on autopilot that rests at the station has a countdown, if no ferry has two jumps at a time |
| EmergencyShuttleProofs!OneWayHolds | a pod does not return, if no ferry has two jumps at a time |
| NanoUiProofs!WindowTyped | types of a window's two halves |
| NanoUiProofs!NoWindowOrphaned | a window on the screen is served or about to be closed |
| NanoUiProofs!NothingGoesBack | a ready window never goes back to older data |
| NanoUiProofs!QuietInTheRed | nothing about the object is pushed to a player who must not see it |
| VotingProofs!NeverLeftDark | explosions never leave the lighting off |
| VotingProofs!NeverKilled | the failsafe never replaces a master controller that gets on |
| VotingProofs!RoundTyped | types of the lobby, the vote and the controllers |

NeverLeftDark and NeverKilled are about Controllers alone, with no bound on who restarts what
and when. RoundNotLeftDark and RoundWorkingSpared say the same of the round. They follow from a lemma,
RoundRunsControllers, which holds by the way Voting is built: each of its actions conjoins one
of Controllers or leaves its variables alone. The lemmas PortsDock and FerryImplemented are of the
same kind and carry what is proved of docking programs to ports with several airlocks, and what is
proved of ferries to the emergency shuttle and its pods. They are means, not results.

Assumptions: NoTag is no controller, routes join controllers, the resend time is positive,
every airlock has a master, every ferry has a berth somewhere, its berths are routes and no ferry
is one (`shuttle_controller.dm` l.29-190 names the berths by docking controllers of the stations), doors have threads, NoRef is no reference, and the
bounds are numbers. All are ASSUMEs of the modules
and evaluated by TLC in the runs. A module that instantiates DockingProgram or FerryShuttle
states their assumptions again (DockingAssumption, FerryAssumption), because facts proved of an
instance hold under them.

*Agreement.* The inductive invariant is types, table and agreement together. The table
alone is not inductive: what a signal does to its receiver depends on the state its sender
believes it to be in. The proof first reduces every call to what it does to the caller and
its partner (the lemmas named Shape): one end alone changes in what only it looks at, or both
go on together, or both are reset. Two lemmas then say that updates of one end (SoloUpdate)
and of a pair (PairUpdate) keep the invariant. A lost machine only makes the claim smaller.

*AirlocksAreHeld, AllHaveReported.* A report that a bound master has is fresh (`FreshReports`),
because every change of its state forgets what it had; that it can be no other needs
AirlocksHeld, since an airlock reports for the mode it was put in. But a client completes
on the word of its server, maybe long after it reported itself, so the invariant also says that the
airlocks of a client whose confirmation is held have all reported (`ClientsReported`). That these are
kept rests on what a call does to the order of states and to the confirmations (the lemmas
named Order, from the Shape lemmas and the agreement).

*LinkImplemented, LinkKept.* The same Shape lemmas, read through LinkEnd, give one step of the link
or none. *DockingImplemented* shows that each action of a ferry is a step of DockingProgram
or leaves its variables alone, from the invariant that location is a place. *OneJumpHolds*
needs more than the property: a jump under way implies that process_state waits for the
arrival, so that no other jump can be started.

*FerryTypes, NobodyStranded* hold with cancellations, where a ferry may have several jumps. The
invariant (`SInv`) knows of every ferry the sequence of its jumps, and that one of them has left if
it is in the transit area, together with the types of all that moves it there and back; what beginning, cancelling, leaving and taking out one jump does to a sequence of them are lemmas of
their own (BeginJump, CancelJumps, LeaveJump, DropJump, from RemoveAtProps). *LocatedHolds,
LeavesUndockedHolds* are about ferries that nobody cancels, but machines may be lost. Their
invariant (`LInv`) adds to all of the above where the one jump goes (`JumpFits`): from the location
to the other place, and with the ferry undocked all through its warmup unless it was forced. That
it stays undocked is where the docking program comes in: nothing but a request of its own shuttle
binds an end that is free and no server (`RequestBinds`, `CallsKeepEnds` of DockingProgramProofs),
and a ferry is nobody's berth.

*OneMoverHolds, MemoryRightHolds* are one invariant of a door, its threads and what its program
remembers (`DoorInv`): the moving thread is the only one, and whenever the program is wrong a thread is
left that will report. Every step of a door is brought to one form, "a thread is taken out of the
sequence, the door is changed, others are put at its end" (`GoFits`, the lemmas named Fits), and what
that form keeps is proved once (AfterMoves, AfterReports). *UndocksShutHolds* adds what is known of
a program that began to undock with the doors at rest (`Leaving`): nothing under way opens its
door, what it takes for shut is shut, and while its server has its confirmation the door stays
shut. The first needs MemoryRight at the beginning; the last rests on the lemmas named Order of
DockingProgramProofs, as AllHaveReported does. The fairness of FairSpec is not used, but that nobody
forces, overrides or loses a machine is.

*EmergencyTypes* takes the types of the ferries from FerryTypes, with no bound on jumps. The other five
are about behaviours in which no ferry has two jumps at a time (`[]OneAtATime`, which MaxJumps = 1
makes true in the run): a second launch within the warmup of a cancelled one lets both jumps go on
(the finding of ferry_cancelled_jump), and then one may land the shuttle while the countdown of a call
runs, or move a shuttle that was recalled. The invariant of *LeavesOnTimeHolds* has
two parts. CountdownInv says that while the countdown is on, it was set where the shuttle
is, and that while it runs the shuttle is idle; a jump then makes it due, and process()
switches it off before the jump goes on. That needs FlightInv, of ferries: a jump that has
left is the only one and its ferry is in transit, and a ferry that waits to leave or to
finish is idle. *ReturnedHomeHolds, RecalledStaysHolds, OneWayHolds* share another (`HomeInv`), on
top of FlightInv: a ferry with no jump that has left stands where its location says, and a warm jump
starts there (`StandInv`); a recalled shuttle rests at Central Command, with no launch under way and
no countdown on (`RecallInv`), which is not claimed of one that its own recall launches again; and a
pod waits to launch, and its jumps start, only at the station (`FromStation`). *StillLeavesHolds*
adds why the launch process() asks for at the station is not refused (`RestInv`): the shuttle's lock is free
and it is idle whenever its process_state is, so that after stopping the countdown process() does
launch it.

*NoWindowOrphaned, NothingGoesBack.* Neither is inductive. What makes them so is the order of what is
under way (`Good` in NanoUiProofs): between two pages there is a command that closes the first,
and one before a page that comes to a window still open; the last page is that of the nanoui
there is, or is followed by its end; and data is sent in the order of its age, never older than
what the window has. The lemmas Send... say what sending a command keeps, ReceiveCommand what its
arrival keeps, Change... the rest; the server's procedures are then taken one by one. That
`Grows` holds of each of them, only adding to what is sent and nothing about the object while
access is disabled, is QuietInTheRed.

*NeverLeftDark* is inductive with the types: an explosion that found the lighting on is
counted until it puts it on again. *NeverKilled* needs that the alert level of the master
controller is at most the pokes since it last fired, as long as the iteration is still the
one remembered, and that what is remembered is never ahead of it.

Every invariant and action property that a passing run checks is thereby proved as well, those of
the emergency shuttle for one jump per ferry. Model-checked only is liveness, since fairness and
ENABLED are out of this prover's reach: HandshakeEnds, Arrives, Finishes, LaunchLeaves,
UndockingEnds, CommandsDone, CatchesUp, VoteEnds, RoundStarts and BrokenRestarts.

## 7. Not modelled

Opening doors by hand, power, welding, wires and emagging; the plain door commands of
airlock programs; access checks and interfaces; what a move does to turfs and people;
frequencies and ranges of signals; administrators who edit variables. The components without a
module, and why, are listed in PROJECT.json: atmospherics, mobs, items, game modes, maps, SQL
and the bot have no protocol to speak of.

The **airlock program** has no module because a model of it could say only one thing: as written
it never ends a cycle. `signalPump()` (`airlock_program.dm` l.271-280) sends the numbers 0 and 1,
and the vent pump (`dp_vent_pump.dm` l.213) ignores a parameter that is false, although its
comment at l.205 promises otherwise; the pump is never switched off, and the program waits for that.
The airlock docking port rests on it. That its docking program behaves as any other is
DockingProgram, in which the readiness of the port is arbitrary. The airlocks of MultiDocking rest
on it as well: they report for a docking when somebody enables the override and aborts the
cycle, or opens a door by hand, which the program takes for an abort.

Of NanoUI, one window of one player is modelled. Master and child windows, the map view and
what single templates compute (`nano_base_helpers.js`) are left out. jQuery, jQuery UI and doT
under `nano/js/libraries/` are third-party code and the larger part of the JavaScript in the
repository (some 12,500 of 13,600 lines); what the window uses of them is that a file is fetched or not,
that a timer runs out and that a template is a function of the data.

One thing the models leave out on purpose: durations. A hatch takes 1.2 s to open and a round
of the master controller 2 s or more, so some interleavings of SimpleDocking's passing
runs do not occur on an idle server; the violation does (a launch is asked for within 1.2 s
of docking).

Three consequences of the code that no property states. A controller that an administrator restarts
before the round has a second loop once it starts (`verbs.dm` l.43, `gameticker.dm` l.161): that
goes against `master_controller.dm` l.2, which claims that process() is never doubled up because
the old controller is killed; the model has it, but for the bound of the run. Of the other two nothing in the
repository says that they should not be: the airlocks of a berth that a shuttle left by force
stay held, and cannot be used as airlocks without the override, until another shuttle has docked
and undocked (`docking_program_multi.dm` l.178); and a window that does not update
itself keeps the old colour when a click looked at the status before the master controller did.

## 8. Plan

1. Done: DockingLink, DockingProgram, MultiDocking, FerryShuttle, SimpleDocking, EmergencyShuttle, NanoUi,
   Controllers and Voting, with their proofs as above.
2. Components left, in this order:
   - SpecopsShuttle: the countdown that sleeps inside `launch()` against cancel and force,
     and the docking controller that changes with the location.
   - EscapePods: the berth program, whose hatch follows arming and the ejection countdown.
   The runs are kept to a dozen: properties of a new component join the run of an instance
   it can share, or replace a smaller question.
3. Proofs left: that the new shuttles implement FerryShuttle or DockingProgram.
