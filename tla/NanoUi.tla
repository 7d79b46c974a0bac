------------------------------- MODULE NanoUi -------------------------------
(***************************************************************************)
(* A NanoUI window: the server's half in                                   *)
(*   code/modules/nano/nanoui.dm, nanomanager.dm and nanoexternal.dm       *)
(* and the half that runs in the player's browser window,                  *)
(*   nano/js/nano_state_manager.js, nano_state.js, nano_template.js,       *)
(*   nano_base_callbacks.js and nano_utility.js.                           *)
(*                                                                         *)
(* One player, one object and one ui_key, which is one window: its         *)
(* window_id is made of the object and the key.  The object's data is a    *)
(* version number.  Commands travel in order in both directions, while     *)
(* everything else, the loading of the page above all, interleaves.  The   *)
(* server reuses the reference of a nanoui that is gone, in which case a   *)
(* late message meant for the old one finds the new one.                   *)
(***************************************************************************)
EXTENDS Integers, Sequences

CONSTANTS
    Refs,        \* the references a nanoui can get
    NoRef,       \* no reference
    Templates,   \* the number of template files a window loads
    AutoUpdate,  \* the object's ui_interact() calls set_auto_update(1)
    MaxContent,  \* bound: how often the object's data changes
    MaxFlight,   \* bound: commands under way to the client
    MaxRequests  \* bound: requests under way to the server

ASSUME NoRefAssumption == NoRef \notin Refs
ASSUME TemplatesAssumption == Templates \in Nat \ {0}
ASSUME AutoAssumption == AutoUpdate \in BOOLEAN
ASSUME ContentAssumption == MaxContent \in Nat

VARIABLES
    content,     \* the version of the object's data
    access,      \* what CanUseTopic() answers for the player now
    exists,      \* FALSE once the object was deleted
    ui,          \* the nanoui in nanomanager's lists, NoUi if there is none
    win,         \* the browser window and the scripts' variables in it
    toClient,    \* browse, winset and output commands on their way
    toServer     \* clicked links and nanoclose verbs on their way

object == <<content, access, exists>>
vars == <<content, access, exists, ui, win, toClient, toServer>>

(* Green, orange and red visibility, and STATUS_CLOSE. *)
Interactive == 2
UpdateOnly == 1
Disabled == 0
Close == -1
Statuses == {Interactive, UpdateOnly, Disabled}

NoContent == -1
Contents == 0 .. MaxContent
View == [content : Contents \cup {NoContent}, status : Statuses]
Blank == [content |-> NoContent, status |-> Interactive]

Ui == [ref : Refs \cup {NoRef}, status : Statuses, auto : BOOLEAN]
NewUi(r) == [ref |-> r, status |-> Interactive, auto |-> FALSE]
NoUi == NewUi(NoRef)
Open == ui.ref # NoRef

(* page: the scripts are not loaded.  templates: they are, and fetch the   *)
(* templates, of which so many are left.  broken: one could not be fetched.*)
Phases == {"closed", "page", "templates", "broken", "ready"}
Window == [phase : Phases, ref : Refs \cup {NoRef}, onclose : Refs \cup {NoRef},
           left : 0 .. Templates, data : View, shown : View, canClick : BOOLEAN]
NoWindow == [phase |-> "closed", ref |-> NoRef, onclose |-> NoRef, left |-> 0,
             data |-> Blank, shown |-> Blank, canClick |-> TRUE]

Command == [kind : {"html", "onclose", "push", "close"}, ref : Refs \cup {NoRef},
            view : View]
Html(r, v) == [kind |-> "html", ref |-> r, view |-> v]
OnClose(r) == [kind |-> "onclose", ref |-> r, view |-> Blank]
Push(c, s) == [kind |-> "push", ref |-> NoRef, view |-> [content |-> c, status |-> s]]
Shut == [kind |-> "close", ref |-> NoRef, view |-> Blank]

Request == [kind : {"topic", "nanoclose"}, ref : Refs]

-----------------------------------------------------------------------------
(* The server.  Its procedures call each other: each maps the nanoui and   *)
(* the commands sent so far to their next values.                          *)

Send(S, command) == [S EXCEPT !.sent = Append(@, command)]

(* Mutant: the window is left on the screen. *)
CloseUiQuiet(S) ==
    [S EXCEPT !.ui = IF exists THEN NoUi ELSE [@ EXCEPT !.auto = FALSE]]

(* ui_closed() finds no list to remove the ui from once the object is gone.*)
CloseUi(S) ==
    Send([S EXCEPT !.ui = IF exists THEN NoUi ELSE [@ EXCEPT !.auto = FALSE]], Shut)

SetStatus(S) == [S EXCEPT !.ui.status = access]

(* Mutant: STATUS_CLOSE is a status like the others. *)
UpdateStatusOpen(S) ==
    IF access = Disabled /\ S.ui.status # Disabled
    THEN Send(SetStatus(S), Push(NoContent, Disabled))
    ELSE SetStatus(S)

(* update_status(0): a status is pushed only if it has become disabled.    *)
UpdateStatus(S) ==
    IF access = Close THEN CloseUi(S)
    ELSE IF access = Disabled /\ S.ui.status # Disabled
         THEN Send(SetStatus(S), Push(NoContent, Disabled))
    ELSE SetStatus(S)

(* Mutant: the status is not looked at again. *)
PushDataUnseen(S, c) ==
    IF S.ui.status = Disabled THEN S ELSE Send(S, Push(c, S.ui.status))

(* push_data(data): what is pushed after the ui was closed finds no window.*)
PushData(S, c) ==
    LET status == IF access = Close THEN S.ui.status ELSE access
    IN  IF status = Disabled THEN UpdateStatus(S)
        ELSE Send(UpdateStatus(S), Push(c, status))

(* update_status(1): a visible status is pushed with the data the window   *)
(* has, a window that was disabled gets new data.                          *)
UpdateStatusAndPush(S, c) ==
    IF access \in {Close, Disabled, S.ui.status} THEN UpdateStatus(S)
    ELSE IF S.ui.status = Disabled THEN PushData(SetStatus(S), c)
    ELSE Send(SetStatus(S), Push(NoContent, access))

(* process(update) *)
ProcessUi(S, update, c) ==
    IF ~ exists THEN CloseUi(S)
    ELSE IF S.ui.status # Disabled /\ (update \/ S.ui.auto) THEN PushData(S, c)
    ELSE UpdateStatusAndPush(S, c)

Server == [ui |-> ui, sent |-> toClient]
Becomes(S) ==
    /\ ui' = S.ui
    /\ toClient' = S.sent
    /\ Len(toClient') <= MaxFlight

(* The master controller processes the ui. *)
Process ==
    /\ Open
    /\ Becomes(ProcessUi(Server, FALSE, content))
    /\ UNCHANGED <<object, win, toServer>>

(* open() of a new nanoui: what update_status(0) pushes finds no window    *)
(* yet, and a ui that it closes is opened all the same.                    *)
OpenUi(S, r) ==
    LET status == IF access = Close THEN Interactive ELSE access
    IN  [ui |-> [ref |-> r, status |-> status, auto |-> AutoUpdate],
         sent |-> UpdateStatus([S EXCEPT !.ui = NewUi(r)]).sent
                      \o <<Html(r, [content |-> content, status |-> status]), OnClose(r)>>]

(* The player uses the object: its ui_interact() closes the ui that is     *)
(* open and opens a new one.                                               *)
Use ==
    /\ exists
    /\ \E r \in Refs : Becomes(OpenUi(IF Open THEN CloseUi(Server) ELSE Server, r))
    /\ UNCHANGED <<object, win, toServer>>

Arrives(kind) == toServer # << >> /\ Head(toServer).kind = kind /\ toServer' = Tail(toServer)
Found == Head(toServer).ref = ui.ref

(* A link was clicked.  The object's own Topic() may change its data, and  *)
(* says whether its windows are to be updated.                             *)
Topic ==
    /\ Arrives("topic")
    /\ IF ~ (Found /\ exists)
       THEN UNCHANGED <<ui, toClient, content>>
       ELSE IF access # Interactive
       THEN Becomes(UpdateStatus(Server)) /\ UNCHANGED content
       ELSE \E c \in {content, content + 1} \cap Contents, update \in BOOLEAN :
               /\ content' = c
               /\ LET S == UpdateStatus(Server)
                  IN  Becomes(IF update THEN ProcessUi(S, TRUE, c) ELSE S)
    /\ UNCHANGED <<access, exists, win>>

(* nanoclose: the window was closed. *)
NanoClose ==
    /\ Arrives("nanoclose")
    /\ IF Found THEN Becomes(CloseUi(Server)) ELSE UNCHANGED <<ui, toClient>>
    /\ UNCHANGED <<object, win>>

-----------------------------------------------------------------------------
(* The window. *)

(* Mutant: an update that brings no data finds none. *)
MergedNothing(w, v) == IF v.content # NoContent THEN v ELSE [v EXCEPT !.content = 0]

(* An update that brings no data is completed with the data there is. *)
Merged(w, v) == IF v.content # NoContent THEN v ELSE [v EXCEPT !.content = w.data.content]

(* Mutant: the content is rendered once, like the layout. *)
RenderedOnce(w, v) ==
    [w EXCEPT !.data = v,
              !.shown = IF @.content = NoContent THEN v ELSE [@ EXCEPT !.status = v.status]]

(* doUpdate(): the content is rendered, then the status shown. *)
Rendered(w, v) == [w EXCEPT !.data = v, !.shown = v]

(* receiveUpdateData(): lost before the scripts are loaded, kept until the *)
(* templates are.  What a broken window keeps is never shown.              *)
Updated(w, v) ==
    CASE w.phase \in {"closed", "page", "broken"} -> w
      [] w.phase = "templates" -> [w EXCEPT !.data = Merged(w, v)]
      [] w.phase = "ready" -> Rendered(w, Merged(w, v))

Page(w, r, v) ==
    [phase |-> "page", ref |-> r, onclose |-> w.onclose, left |-> Templates,
     data |-> v, shown |-> Blank, canClick |-> TRUE]

(* A command reaches the window. *)
Receive ==
    /\ toClient # << >>
    /\ LET m == Head(toClient)
       IN  win' = CASE m.kind = "html" -> Page(win, m.ref, m.view)
                    [] m.kind = "onclose" -> IF win.phase = "closed" THEN win
                                             ELSE [win EXCEPT !.onclose = m.ref]
                    [] m.kind = "push" -> Updated(win, m.view)
                    [] m.kind = "close" -> NoWindow
    /\ toClient' = Tail(toClient)
    /\ UNCHANGED <<object, ui, toServer>>

(* The page and its scripts are loaded: init() of the scripts. *)
LoadScripts ==
    /\ win.phase = "page"
    /\ win' = [win EXCEPT !.phase = "templates"]
    /\ UNCHANGED <<object, ui, toClient, toServer>>

(* A template has been fetched.  After the last one, templatesLoaded.      *)
LoadTemplate ==
    /\ win.phase = "templates"
    /\ win' = IF win.left > 1 THEN [win EXCEPT !.left = @ - 1]
              ELSE [Rendered(win, win.data) EXCEPT !.left = 0, !.phase = "ready"]
    /\ UNCHANGED <<object, ui, toClient, toServer>>

FailTemplate ==
    /\ win.phase = "templates"
    /\ win' = [win EXCEPT !.phase = "broken", !.data = Blank]
    /\ UNCHANGED <<object, ui, toClient, toServer>>

(* The click handler of a link, also of one that looks inactive. *)
Click ==
    /\ win.phase = "ready" /\ win.canClick
    /\ win' = [win EXCEPT !.canClick = FALSE]
    /\ toServer' = Append(toServer, [kind |-> "topic", ref |-> win.ref])
    /\ Len(toServer') <= MaxRequests
    /\ UNCHANGED <<object, ui, toClient>>

EnableClick ==
    /\ ~ win.canClick
    /\ win' = [win EXCEPT !.canClick = TRUE]
    /\ UNCHANGED <<object, ui, toClient, toServer>>

(* The player closes the window, which runs the command set by winset.     *)
CloseWindow ==
    /\ win.phase # "closed"
    /\ win' = NoWindow
    /\ toServer' = IF win.onclose = NoRef THEN toServer
                   ELSE Append(toServer, [kind |-> "nanoclose", ref |-> win.onclose])
    /\ Len(toServer') <= MaxRequests
    /\ UNCHANGED <<object, ui, toClient>>

-----------------------------------------------------------------------------
(* The rest of the game. *)

(* The object's data changes. *)
Change ==
    /\ exists /\ content < MaxContent
    /\ content' = content + 1
    /\ UNCHANGED <<access, exists, ui, win, toClient, toServer>>

(* The player moves, falls, is tied up, gets another body... *)
Move ==
    /\ access' \in Statuses \cup {Close} /\ access' # access
    /\ UNCHANGED <<content, exists, ui, win, toClient, toServer>>

Delete ==
    /\ exists /\ exists' = FALSE
    /\ UNCHANGED <<content, access, ui, win, toClient, toServer>>

(* The player logs out, which closes the ui, and may come back. *)
Logout ==
    /\ ui' = IF Open THEN CloseUi(Server).ui ELSE ui
    /\ win' = NoWindow
    /\ toClient' = << >> /\ toServer' = << >>
    /\ UNCHANGED object

-----------------------------------------------------------------------------
Init ==
    /\ content = 0 /\ access \in Statuses \cup {Close} /\ exists = TRUE
    /\ ui = NoUi /\ win = NoWindow
    /\ toClient = << >> /\ toServer = << >>

Handlers == Process \/ Topic \/ NanoClose
Scripts == Receive \/ LoadScripts \/ LoadTemplate \/ FailTemplate \/ EnableClick
Player == Use \/ Click \/ CloseWindow \/ Logout
World == Change \/ Move \/ Delete

Next == Handlers \/ Scripts \/ Player \/ World

Spec == Init /\ [][Next]_vars

(* Commands arrive, files are loaded (or not), timers run out and the      *)
(* master controller goes round.  Nobody has to do anything.               *)
Fairness ==
    /\ WF_vars(Process) /\ WF_vars(Topic) /\ WF_vars(NanoClose)
    /\ WF_vars(Receive) /\ WF_vars(LoadScripts)
    /\ WF_vars(LoadTemplate \/ FailTemplate) /\ WF_vars(EnableClick)
FairSpec == Spec /\ Fairness

-----------------------------------------------------------------------------
(* Every variable holds values of its kind. *)
TypeOK ==
    /\ content \in Contents /\ access \in Statuses \cup {Close} /\ exists \in BOOLEAN
    /\ ui \in Ui /\ win \in Window
    /\ toClient \in Seq(Command) /\ toServer \in Seq(Request)

Coming(kind) == \E i \in DOMAIN toClient : toClient[i].kind = kind

(* A window never outlives its nanoui: one on the screen is served, or the *)
(* command that closes it is on its way, however the player opens, closes  *)
(* and reopens it, and whatever references are reused (close(), open()).   *)
NoOrphan == win.phase # "closed" => ui.ref = win.ref \/ Coming("close")

(* What a window shows never goes back to older data, though updates with  *)
(* and without data, and the loading of the templates, come in any order   *)
(* (receiveUpdateData()).                                                  *)
NeverGoesBack ==
    [][win.phase = "ready" /\ win'.phase = "ready" =>
          win'.shown.content >= win.shown.content]_vars

(* Nothing about the object is pushed to a player who must not see it: "no *)
(* updates, completely disabled (red visibility)" (nanointeraction.dm).    *)
NothingInTheRed ==
    [][access = Disabled =>
          \A i \in Len(toClient) + 1 .. Len(toClient') :
              toClient'[i].kind = "push" => toClient'[i].view.content = NoContent]_vars

(* Once the world and the player come to rest, a window that updates       *)
(* itself and may be seen shows how things are, whatever updates were lost *)
(* while it was loading and whatever change of status a click swallowed.   *)
AtRest == [][UNCHANGED object /\ ~ Player]_vars
UpToDate ==
    win.phase \notin {"closed", "broken"} /\ exists /\ access # Disabled =>
        win.phase = "ready" /\ win.shown = [content |-> content, status |-> access]
CatchesUp == <>AtRest => <>[]UpToDate
=============================================================================
