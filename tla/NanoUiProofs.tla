---------------------------- MODULE NanoUiProofs ----------------------------
(* Theorems about NanoUI windows, for any references, templates and bounds *)
(* and for any behaviour of the player and the object.                     *)
EXTENDS NanoUi, TLAPS

(* What the server is at some point of its procedures: the nanoui and the  *)
(* commands sent so far.                                                   *)
Servers == [ui : Ui, sent : Seq(Command)]

(* Two windows opened one after the other: the first is closed in between. *)
ClosedBetween(q) ==
    \A i, j \in 1 .. Len(q) :
        i < j /\ q[i].kind = "html" /\ q[j].kind = "html" =>
            \E k \in 1 .. Len(q) : i < k /\ k < j /\ q[k].kind = "close"

(* A window on its way is closed before it, or none is on the screen. *)
ClosedBefore(q, w) ==
    \A i \in 1 .. Len(q) :
        q[i].kind = "html" =>
            w.phase = "closed" \/ \E k \in 1 .. Len(q) : k < i /\ q[k].kind = "close"

(* The last window opened is that of the nanoui, unless it will be closed. *)
LastServed(u, q) ==
    \A i \in 1 .. Len(q) :
        q[i].kind = "html" =>
            q[i].ref = u.ref \/ \E k \in 1 .. Len(q) : i < k /\ q[k].kind = "close"

(* So is that on the screen, unless another one or its end is on the way.  *)
ScreenServed(u, q, w) ==
    w.phase # "closed" =>
        \/ u.ref = w.ref
        \/ \E k \in 1 .. Len(q) : q[k].kind \in {"html", "close"}

(* Data is sent in the order of its age, and what the window has is older  *)
(* than all that is on the way.                                            *)
InOrder(q, w, c) ==
    /\ w.data.content <= c
    /\ \A i \in 1 .. Len(q) : q[i].view.content <= c
    /\ \A i \in 1 .. Len(q) :
          q[i].view.content = NoContent \/ w.data.content <= q[i].view.content
    /\ \A i, j \in 1 .. Len(q) :
          i < j => \/ q[j].view.content = NoContent
                   \/ q[i].view.content <= q[j].view.content

(* A window shows what its scripts have, and has a nanoui's reference.     *)
Faithful(w) ==
    /\ w.phase = "ready" => w.shown.content = w.data.content
    /\ w.phase # "closed" => w.ref \in Refs

Windows(q) == \A i \in 1 .. Len(q) : q[i].kind = "html" => q[i].ref \in Refs

(* The inductive invariant, at any point of the server's procedures. *)
Good(S, w, c) ==
    /\ S \in Servers /\ w \in Window /\ c \in Contents
    /\ Faithful(w) /\ Windows(S.sent)
    /\ ClosedBetween(S.sent) /\ ClosedBefore(S.sent, w)
    /\ LastServed(S.ui, S.sent) /\ ScreenServed(S.ui, S.sent, w)
    /\ InOrder(S.sent, w, c)

WindowInv ==
    /\ Good(Server, win, content)
    /\ access \in Statuses \cup {Close} /\ exists \in BOOLEAN
    /\ toServer \in Seq(Request)

-----------------------------------------------------------------------------
(* Types of the values that are sent. *)
LEMMA Numbers ==
    /\ Statuses \subseteq Int /\ NoContent \in Int /\ Contents \subseteq Nat
    /\ \A c \in Contents : c \in Int /\ NoContent < c
    /\ \A v \in View : v.content \in Int /\ NoContent <= v.content
BY ContentAssumption DEF Statuses, Interactive, UpdateOnly, Disabled, NoContent, Contents, View

LEMMA BlankType == Blank \in View /\ Blank.content = NoContent
BY DEF Blank, View, Statuses, Interactive, UpdateOnly, Disabled

LEMMA CommandTypes ==
    /\ Shut \in Command /\ Shut.kind = "close" /\ Shut.view.content = NoContent
    /\ \A r \in Refs : OnClose(r) \in Command /\ OnClose(r).kind = "onclose"
                       /\ OnClose(r).view.content = NoContent
    /\ \A r \in Refs, v \in View :
          /\ Html(r, v) \in Command /\ Html(r, v).kind = "html"
          /\ Html(r, v).view = v /\ Html(r, v).ref = r
    /\ \A c \in Contents \cup {NoContent}, s \in Statuses :
          /\ Push(c, s) \in Command /\ Push(c, s).kind = "push"
          /\ Push(c, s).view.content = c
BY BlankType DEF Command, Shut, OnClose, Html, Push, View

LEMMA UiTypes ==
    /\ NoUi \in Ui /\ NoUi.ref = NoRef
    /\ \A r \in Refs : NewUi(r) \in Ui /\ NewUi(r).ref = r
BY DEF NoUi, NewUi, Ui, Statuses, Interactive, UpdateOnly, Disabled

LEMMA NoWindowType == NoWindow \in Window /\ NoWindow.phase = "closed"
                      /\ NoWindow.data.content = NoContent
<1>1. 0 \in 0 .. Templates
  BY TemplatesAssumption
<1> QED
  BY <1>1, BlankType DEF NoWindow, Window, Phases

-----------------------------------------------------------------------------
(* The server sends: what each command keeps. *)

(* A push or an on-close command, with data as new as the object's or none.*)
LEMMA SendQuietly ==
    ASSUME NEW S, NEW w, NEW c, Good(S, w, c),
           NEW u \in Ui, u.ref = S.ui.ref,
           NEW m \in Command, m.kind \in {"push", "onclose"},
           m.view.content \in {NoContent, c}
    PROVE  Good([ui |-> u, sent |-> Append(S.sent, m)], w, c)
<1> DEFINE q == S.sent
           r == Append(q, m)
           T == [ui |-> u, sent |-> r]
<1>1. /\ q \in Seq(Command) /\ Len(q) \in Nat
      /\ r \in Seq(Command) /\ Len(r) = Len(q) + 1
      /\ r[Len(q) + 1] = m
      /\ \A i \in 1 .. Len(q) : r[i] = q[i]
  BY DEF Good, Servers
<1>2. T \in Servers /\ T.ui = u /\ T.sent = r
  BY <1>1 DEF Servers
<1>3. \A i \in 1 .. Len(r) : i \in 1 .. Len(q) \/ i = Len(q) + 1
  BY <1>1
<1>4. \A i \in 1 .. Len(q) : i \in 1 .. Len(r)
  BY <1>1
<1>a. w.data.content \in Int /\ c \in Int /\ NoContent \in Int /\ NoContent < c
      /\ NoContent <= w.data.content
  BY Numbers DEF Good, Window
<1>c. \A i \in 1 .. Len(q) : q[i] \in Command
  BY <1>1
<1>d. \A i \in 1 .. Len(q) : q[i].view.content \in Int
  BY <1>c, Numbers DEF Command
<1> HIDE DEF q, r, T
<1>b. /\ Windows(q) /\ ClosedBetween(q) /\ ClosedBefore(q, w) /\ LastServed(S.ui, q)
      /\ ScreenServed(S.ui, q, w) /\ InOrder(q, w, c)
  BY DEF Good, q
<1>5. Windows(r)
  BY <1>1, <1>3, <1>b DEF Windows
<1>6. ClosedBetween(r)
  BY <1>1, <1>3, <1>4, <1>b DEF ClosedBetween
<1>7. ClosedBefore(r, w)
  BY <1>1, <1>3, <1>4, <1>b DEF ClosedBefore
<1>8. LastServed(u, r)
  BY <1>1, <1>3, <1>4, <1>b DEF LastServed
<1>9. ScreenServed(u, r, w)
  BY <1>1, <1>4, <1>b DEF ScreenServed
<1>10. InOrder(r, w, c)
  <2>1. w.data.content <= c /\ m.view.content <= c
    BY <1>a, <1>b DEF InOrder
  <2>2. \A i \in 1 .. Len(q) : q[i].view.content <= c
    BY <1>b DEF InOrder
  <2>3. m.view.content = NoContent \/ m.view.content = c
    OBVIOUS
  <2>4. \A i \in 1 .. Len(r) : r[i].view.content <= c
    BY <1>1, <1>3, <2>1, <2>2
  <2>5. \A i \in 1 .. Len(r) :
           r[i].view.content = NoContent \/ w.data.content <= r[i].view.content
    BY <1>1, <1>3, <1>b, <2>1, <2>3 DEF InOrder
  <2>6. \A i, j \in 1 .. Len(r) :
           i < j => \/ r[j].view.content = NoContent
                    \/ r[i].view.content <= r[j].view.content
    BY <1>1, <1>3, <1>b, <2>2, <2>3 DEF InOrder
  <2> QED
    BY <2>1, <2>4, <2>5, <2>6 DEF InOrder
<1> QED
  BY <1>2, <1>5, <1>6, <1>7, <1>8, <1>9, <1>10 DEF Good, T, r, q

(* The window is closed, whatever becomes of the nanoui. *)
LEMMA SendShut ==
    ASSUME NEW S, NEW w, NEW c, Good(S, w, c), NEW u \in Ui
    PROVE  Good([ui |-> u, sent |-> Append(S.sent, Shut)], w, c)
<1> DEFINE q == S.sent
           r == Append(q, Shut)
           T == [ui |-> u, sent |-> r]
<1>0. Shut \in Command /\ Shut.kind = "close" /\ Shut.view.content = NoContent
  BY CommandTypes
<1>1. /\ q \in Seq(Command) /\ Len(q) \in Nat
      /\ r \in Seq(Command) /\ Len(r) = Len(q) + 1
      /\ r[Len(q) + 1] = Shut
      /\ \A i \in 1 .. Len(q) : r[i] = q[i]
  BY <1>0 DEF Good, Servers
<1>2. T \in Servers /\ T.ui = u /\ T.sent = r
  BY <1>1 DEF Servers
<1>3. \A i \in 1 .. Len(r) : i \in 1 .. Len(q) \/ i = Len(q) + 1
  BY <1>1
<1>4. \A i \in 1 .. Len(q) : i \in 1 .. Len(r) /\ i < Len(q) + 1
  BY <1>1
<1>4a. Len(q) + 1 \in 1 .. Len(r)
  BY <1>1
<1>a. w.data.content \in Int /\ c \in Int /\ NoContent \in Int /\ NoContent < c
  BY Numbers DEF Good, Window
<1> HIDE DEF q, r, T
<1>b. /\ Windows(q) /\ ClosedBetween(q) /\ ClosedBefore(q, w) /\ LastServed(S.ui, q)
      /\ ScreenServed(S.ui, q, w) /\ InOrder(q, w, c)
  BY DEF Good, q
<1>5. Windows(r)
  BY <1>0, <1>1, <1>3, <1>b DEF Windows
<1>6. ClosedBetween(r)
  BY <1>0, <1>1, <1>3, <1>4, <1>b DEF ClosedBetween
<1>7. ClosedBefore(r, w)
  BY <1>0, <1>1, <1>3, <1>4, <1>b DEF ClosedBefore
<1>8. LastServed(u, r)
  BY <1>0, <1>1, <1>3, <1>4, <1>4a DEF LastServed
<1>9. ScreenServed(u, r, w)
  BY <1>0, <1>1, <1>4a DEF ScreenServed
<1>10. InOrder(r, w, c)
  <2>1. \A i \in 1 .. Len(r) : r[i].view.content <= c
    BY <1>0, <1>1, <1>3, <1>a, <1>b DEF InOrder
  <2>2. \A i \in 1 .. Len(r) :
           r[i].view.content = NoContent \/ w.data.content <= r[i].view.content
    BY <1>0, <1>1, <1>3, <1>b DEF InOrder
  <2>3. \A i, j \in 1 .. Len(r) :
           i < j => \/ r[j].view.content = NoContent
                    \/ r[i].view.content <= r[j].view.content
    BY <1>0, <1>1, <1>3, <1>b DEF InOrder
  <2> QED
    BY <1>b, <2>1, <2>2, <2>3 DEF InOrder
<1> QED
  BY <1>2, <1>5, <1>6, <1>7, <1>8, <1>9, <1>10 DEF Good, T, r, q

(* A window is opened where there is none, or while its end is on the way. *)
LEMMA SendHtml ==
    ASSUME NEW S, NEW w, NEW c, Good(S, w, c), S.ui.ref = NoRef,
           NEW u \in Ui, u.ref \in Refs, NEW v \in View, v.content = c
    PROVE  Good([ui |-> u, sent |-> Append(S.sent, Html(u.ref, v))], w, c)
<1> DEFINE q == S.sent
           m == Html(u.ref, v)
           r == Append(q, m)
           T == [ui |-> u, sent |-> r]
<1>0. m \in Command /\ m.kind = "html" /\ m.view.content = c /\ m.ref = u.ref
  BY CommandTypes
<1> HIDE DEF m
<1>1. /\ q \in Seq(Command) /\ Len(q) \in Nat
      /\ r \in Seq(Command) /\ Len(r) = Len(q) + 1
      /\ r[Len(q) + 1] = m
      /\ \A i \in 1 .. Len(q) : r[i] = q[i]
  BY <1>0 DEF Good, Servers
<1>2. T \in Servers /\ T.ui = u /\ T.sent = r
  BY <1>1 DEF Servers
<1>3. \A i \in 1 .. Len(r) : i \in 1 .. Len(q) \/ i = Len(q) + 1
  BY <1>1
<1>4. \A i \in 1 .. Len(q) : i \in 1 .. Len(r) /\ i < Len(q) + 1
  BY <1>1
<1>4a. Len(q) + 1 \in 1 .. Len(r)
  BY <1>1
<1>a. w.data.content \in Int /\ c \in Int /\ NoContent \in Int /\ NoContent < c
  BY Numbers DEF Good, Window
<1> HIDE DEF q, r, T
<1>b. /\ Windows(q) /\ ClosedBetween(q) /\ ClosedBefore(q, w) /\ LastServed(S.ui, q)
      /\ ScreenServed(S.ui, q, w) /\ InOrder(q, w, c) /\ Faithful(w)
  BY DEF Good, q
<1>c. \A i \in 1 .. Len(q) :
         q[i].kind = "html" => \E k \in 1 .. Len(q) : i < k /\ q[k].kind = "close"
  BY <1>b, NoRefAssumption DEF LastServed, Windows
<1>d. w.phase = "closed" \/ \E k \in 1 .. Len(q) : q[k].kind = "close"
  BY <1>b, <1>c, NoRefAssumption DEF ScreenServed, Faithful
<1>5. Windows(r)
  BY <1>0, <1>1, <1>3, <1>b DEF Windows
<1>6. ClosedBetween(r)
  <2>1. ASSUME NEW i \in 1 .. Len(r), NEW j \in 1 .. Len(r),
               i < j, r[i].kind = "html", r[j].kind = "html"
        PROVE  \E k \in 1 .. Len(r) : i < k /\ k < j /\ r[k].kind = "close"
    <3>1. i \in 1 .. Len(q)
      BY <1>1, <1>3, <2>1
    <3>2. CASE j \in 1 .. Len(q)
      BY <1>1, <1>4, <1>b, <2>1, <3>1, <3>2 DEF ClosedBetween
    <3>3. CASE j = Len(q) + 1
      BY <1>1, <1>4, <1>c, <2>1, <3>1, <3>3
    <3> QED
      BY <1>3, <3>2, <3>3
  <2> QED
    BY <2>1 DEF ClosedBetween
<1>7. ClosedBefore(r, w)
  BY <1>1, <1>3, <1>4, <1>b, <1>d DEF ClosedBefore
<1>8. LastServed(u, r)
  BY <1>0, <1>1, <1>3, <1>4, <1>c DEF LastServed
<1>9. ScreenServed(u, r, w)
  BY <1>0, <1>1, <1>4a DEF ScreenServed
<1>10. InOrder(r, w, c)
  <2>1. w.data.content <= c /\ \A i \in 1 .. Len(q) : q[i].view.content <= c
    BY <1>b DEF InOrder
  <2>2. \A i \in 1 .. Len(r) : r[i].view.content <= c
    BY <1>0, <1>1, <1>3, <1>a, <2>1
  <2>3. \A i \in 1 .. Len(r) :
           r[i].view.content = NoContent \/ w.data.content <= r[i].view.content
    BY <1>0, <1>1, <1>3, <1>b, <2>1 DEF InOrder
  <2>4. \A i, j \in 1 .. Len(r) :
           i < j => \/ r[j].view.content = NoContent
                    \/ r[i].view.content <= r[j].view.content
    BY <1>0, <1>1, <1>3, <1>b, <2>1 DEF InOrder
  <2> QED
    BY <2>1, <2>2, <2>3, <2>4 DEF InOrder
<1> QED
  BY <1>2, <1>5, <1>6, <1>7, <1>8, <1>9, <1>10 DEF Good, T, r, q, m

(* The nanoui changes, but for its reference. *)
LEMMA ChangeUi ==
    ASSUME NEW S, NEW w, NEW c, Good(S, w, c),
           NEW u \in Ui, u.ref = S.ui.ref
    PROVE  Good([S EXCEPT !.ui = u], w, c)
<1>1. /\ [S EXCEPT !.ui = u] \in Servers
      /\ [S EXCEPT !.ui = u].ui = u /\ [S EXCEPT !.ui = u].sent = S.sent
  BY DEF Good, Servers
<1>2. LastServed(u, S.sent) /\ ScreenServed(u, S.sent, w)
  BY DEF Good, LastServed, ScreenServed
<1> QED
  BY <1>1, <1>2 DEF Good

(* The object's data changes. *)
LEMMA ChangeContent ==
    ASSUME NEW S, NEW w, NEW c, Good(S, w, c), NEW d \in Contents, c <= d
    PROVE  Good(S, w, d)
<1>1. c \in Int /\ d \in Int /\ w.data.content \in Int
  BY Numbers DEF Good, Window
<1>2. \A i \in 1 .. Len(S.sent) : S.sent[i] \in Command
  BY DEF Good, Servers
<1>3. \A i \in 1 .. Len(S.sent) : S.sent[i].view.content \in Int
  BY <1>2, Numbers DEF Command
<1>4. InOrder(S.sent, w, d)
  BY <1>1, <1>3 DEF Good, InOrder
<1> QED
  BY <1>4 DEF Good

-----------------------------------------------------------------------------
(* The window: what its changes keep. *)

(* A window that is not closed goes on as the same one, with its data.     *)
LEMMA ChangeWindow ==
    ASSUME NEW S, NEW w, NEW c, Good(S, w, c), NEW x \in Window, Faithful(x),
           x.data.content \in {NoContent, w.data.content},
           x.phase # "closed" => w.phase # "closed" /\ x.ref = w.ref
    PROVE  Good(S, x, c)
<1>1. ClosedBefore(S.sent, x) /\ ScreenServed(S.ui, S.sent, x)
  BY DEF Good, ClosedBefore, ScreenServed
<1>2. /\ c \in Int /\ NoContent < c
      /\ \A i \in 1 .. Len(S.sent) :
            S.sent[i].view.content \in Int /\ NoContent <= S.sent[i].view.content
  <2>1. \A i \in 1 .. Len(S.sent) : S.sent[i] \in Command
    BY DEF Good, Servers
  <2> QED
    BY <2>1, Numbers DEF Good, Command
<1>3. InOrder(S.sent, x, c)
  <2>1. InOrder(S.sent, w, c) /\ NoContent \in Int
    BY Numbers DEF Good
  <2>2. CASE x.data.content = w.data.content
    BY <2>1, <2>2 DEF InOrder
  <2>3. CASE x.data.content = NoContent
    <3>1. NoContent <= c
      BY <1>2, <2>1
    <3> QED
      BY <1>2, <2>1, <2>3, <3>1 DEF InOrder
  <2> QED
    BY <2>2, <2>3
<1> QED
  BY <1>1, <1>3 DEF Good

(* A command reaches the window, which becomes x. *)
LEMMA ReceiveCommand ==
    ASSUME NEW S, NEW w, NEW c, Good(S, w, c), S.sent # << >>,
           NEW x \in Window, Faithful(x),
           NEW m, m = Head(S.sent),
           m.kind = "html" => x.phase # "closed" /\ x.ref = m.ref,
           m.kind = "close" => x.phase = "closed",
           m.kind \in {"push", "onclose"} /\ x.phase # "closed" =>
               w.phase # "closed" /\ x.ref = w.ref,
           \/ x.data.content \in {NoContent, w.data.content}
           \/ x.data.content = m.view.content
    PROVE  Good([ui |-> S.ui, sent |-> Tail(S.sent)], x, c)
<1> DEFINE q == S.sent
           r == Tail(q)
           T == [ui |-> S.ui, sent |-> r]
<1>1. /\ q \in Seq(Command) /\ Len(q) \in Nat /\ Len(q) > 0
      /\ r \in Seq(Command) /\ Len(r) = Len(q) - 1
      /\ m = q[1] /\ m \in Command
      /\ \A i \in 1 .. Len(r) : r[i] = q[i + 1]
  BY DEF Good, Servers
<1>2. T \in Servers /\ T.ui = S.ui /\ T.sent = r
  BY <1>1 DEF Servers, Good
<1>3. \A i \in 1 .. Len(r) : i + 1 \in 1 .. Len(q) /\ 1 < i + 1
  BY <1>1
<1>4. \A i \in 1 .. Len(q) : i = 1 \/ (i - 1 \in 1 .. Len(r) /\ r[i - 1] = q[i])
  BY <1>1
<1>5. 1 \in 1 .. Len(q)
  BY <1>1
<1>6. m.kind \in {"html", "onclose", "push", "close"}
  BY <1>1 DEF Command
<1>a. c \in Int /\ NoContent \in Int /\ NoContent < c /\ x.data.content \in Int
      /\ w.data.content \in Int /\ m.view.content \in Int /\ NoContent <= w.data.content
  BY <1>1, Numbers DEF Good, Window, Command
<1>b. \A i \in 1 .. Len(q) :
         q[i].view.content \in Int /\ NoContent <= q[i].view.content
  <2>1. \A i \in 1 .. Len(q) : q[i] \in Command
    BY <1>1
  <2> QED
    BY <2>1, Numbers DEF Command
<1>c. /\ Windows(q) /\ ClosedBetween(q) /\ ClosedBefore(q, w) /\ LastServed(S.ui, q)
      /\ ScreenServed(S.ui, q, w) /\ InOrder(q, w, c)
  BY DEF Good
<1> HIDE DEF q, r, T
<1>7. Windows(r)
  BY <1>1, <1>3, <1>c DEF Windows
<1>8. ClosedBetween(r)
  <2>1. ASSUME NEW i \in 1 .. Len(r), NEW j \in 1 .. Len(r),
               i < j, r[i].kind = "html", r[j].kind = "html"
        PROVE  \E k \in 1 .. Len(r) : i < k /\ k < j /\ r[k].kind = "close"
    <3>1. q[i + 1].kind = "html" /\ q[j + 1].kind = "html" /\ i + 1 < j + 1
      BY <1>1, <2>1
    <3>2. PICK k \in 1 .. Len(q) : i + 1 < k /\ k < j + 1 /\ q[k].kind = "close"
      BY <1>3, <1>c, <3>1 DEF ClosedBetween
    <3>3. k - 1 \in 1 .. Len(r) /\ r[k - 1] = q[k] /\ i < k - 1 /\ k - 1 < j
      BY <1>4, <3>2
    <3> QED
      BY <3>2, <3>3
  <2> QED
    BY <2>1 DEF ClosedBetween
<1>9. ClosedBefore(r, x)
  <2>1. ASSUME NEW i \in 1 .. Len(r), r[i].kind = "html", x.phase # "closed"
        PROVE  \E k \in 1 .. Len(r) : k < i /\ r[k].kind = "close"
    <3>1. q[i + 1].kind = "html" /\ i + 1 \in 1 .. Len(q)
      BY <1>1, <1>3, <2>1
    <3>2. PICK k \in 1 .. Len(q) : k < i + 1 /\ q[k].kind = "close" /\ k # 1
      <4>1. CASE m.kind = "html"
        BY <1>1, <1>3, <1>5, <1>c, <3>1, <4>1 DEF ClosedBetween
      <4>2. CASE m.kind \in {"push", "onclose"}
        BY <1>1, <1>c, <2>1, <3>1, <4>2 DEF ClosedBefore
      <4> QED
        BY <1>6, <2>1, <4>1, <4>2
    <3>3. k - 1 \in 1 .. Len(r) /\ r[k - 1] = q[k] /\ k - 1 < i
      BY <1>4, <3>2
    <3> QED
      BY <3>2, <3>3
  <2> QED
    BY <2>1 DEF ClosedBefore
<1>10. LastServed(S.ui, r)
  <2>1. ASSUME NEW i \in 1 .. Len(r), r[i].kind = "html", r[i].ref # S.ui.ref
        PROVE  \E k \in 1 .. Len(r) : i < k /\ r[k].kind = "close"
    <3>1. PICK k \in 1 .. Len(q) : i + 1 < k /\ q[k].kind = "close"
      BY <1>1, <1>3, <1>c, <2>1 DEF LastServed
    <3>2. k - 1 \in 1 .. Len(r) /\ r[k - 1] = q[k] /\ i < k - 1
      BY <1>4, <3>1
    <3> QED
      BY <3>1, <3>2
  <2> QED
    BY <2>1 DEF LastServed
<1>11. ScreenServed(S.ui, r, x)
  <2>1. ASSUME x.phase # "closed", S.ui.ref # x.ref
        PROVE  \E k \in 1 .. Len(r) : r[k].kind \in {"html", "close"}
    <3>1. PICK k \in 1 .. Len(q) : q[k].kind \in {"html", "close"} /\ k # 1
      <4>1. CASE m.kind = "html"
        BY <1>1, <1>5, <1>c, <2>1, <4>1 DEF LastServed
      <4>2. CASE m.kind \in {"push", "onclose"}
        BY <1>1, <1>c, <2>1, <4>2 DEF ScreenServed
      <4> QED
        BY <1>6, <2>1, <4>1, <4>2
    <3>2. k - 1 \in 1 .. Len(r) /\ r[k - 1] = q[k]
      BY <1>4, <3>1
    <3> QED
      BY <3>1, <3>2
  <2> QED
    BY <2>1 DEF ScreenServed
<1>12. InOrder(r, x, c)
  <2>1. x.data.content <= c
    BY <1>1, <1>5, <1>a, <1>c DEF InOrder
  <2>2. \A i \in 1 .. Len(r) : r[i].view.content <= c
    BY <1>1, <1>3, <1>c DEF InOrder
  <2>3. ASSUME NEW i \in 1 .. Len(r), r[i].view.content # NoContent
        PROVE  x.data.content <= r[i].view.content
    <3>1. /\ r[i] = q[i + 1] /\ i + 1 \in 1 .. Len(q) /\ 1 < i + 1
          /\ q[i + 1].view.content \in Int /\ NoContent <= q[i + 1].view.content
      BY <1>1, <1>3, <1>b
    <3>2. w.data.content <= q[i + 1].view.content /\ m.view.content <= q[i + 1].view.content
      BY <1>1, <1>5, <1>c, <2>3, <3>1 DEF InOrder
    <3> QED
      BY <1>a, <3>1, <3>2
  <2>4. ASSUME NEW i \in 1 .. Len(r), NEW j \in 1 .. Len(r), i < j,
               r[j].view.content # NoContent
        PROVE  r[i].view.content <= r[j].view.content
    <3>1. /\ r[i] = q[i + 1] /\ r[j] = q[j + 1] /\ i + 1 < j + 1
          /\ i + 1 \in 1 .. Len(q) /\ j + 1 \in 1 .. Len(q)
      BY <1>1, <1>3, <2>4
    <3> QED
      BY <1>c, <2>4, <3>1 DEF InOrder
  <2> QED
    BY <2>1, <2>2, <2>3, <2>4 DEF InOrder
<1>13. S.ui \in Ui /\ c \in Contents
  BY DEF Good, Servers
<1>14. Good(T, x, c)
  BY <1>2, <1>7, <1>8, <1>9, <1>10, <1>11, <1>12, <1>13 DEF Good
<1> QED
  BY <1>14 DEF T, r, q
-----------------------------------------------------------------------------
(* The server's procedures keep the invariant, and only add to what is     *)
(* sent: nothing about the object while the player must not see it.        *)
Grows(S, T) ==
    /\ Len(S.sent) <= Len(T.sent)
    /\ \A i \in 1 .. Len(S.sent) : T.sent[i] = S.sent[i]
    /\ access = Disabled =>
          \A i \in Len(S.sent) + 1 .. Len(T.sent) :
              T.sent[i].kind = "push" => T.sent[i].view.content = NoContent

Access == access \in Statuses \cup {Close}

LEMMA GrowsOn ==
    ASSUME NEW S \in Servers, NEW T \in Servers, NEW U \in Servers,
           Grows(S, T), Grows(T, U)
    PROVE  Grows(S, U)
<1>1. Len(S.sent) \in Nat /\ Len(T.sent) \in Nat /\ Len(U.sent) \in Nat
  BY DEF Servers
<1>2. /\ Len(S.sent) <= Len(U.sent)
      /\ \A i \in 1 .. Len(S.sent) : i \in 1 .. Len(T.sent)
  BY <1>1 DEF Grows
<1>3. \A i \in Len(S.sent) + 1 .. Len(U.sent) :
         \/ i \in Len(S.sent) + 1 .. Len(T.sent) /\ i \in 1 .. Len(T.sent)
         \/ i \in Len(T.sent) + 1 .. Len(U.sent)
  BY <1>1
<1>4. \A i \in 1 .. Len(S.sent) : U.sent[i] = S.sent[i]
  BY <1>2 DEF Grows
<1>5. ASSUME access = Disabled, NEW i \in Len(S.sent) + 1 .. Len(U.sent),
             U.sent[i].kind = "push"
      PROVE  U.sent[i].view.content = NoContent
  BY <1>3, <1>5 DEF Grows
<1> QED
  BY <1>2, <1>4, <1>5 DEF Grows

LEMMA GrowsByOne ==
    ASSUME NEW S \in Servers, NEW u \in Ui, NEW m \in Command,
           access = Disabled /\ m.kind = "push" => m.view.content = NoContent
    PROVE  Grows(S, [ui |-> u, sent |-> Append(S.sent, m)])
<1> DEFINE q == S.sent
           r == Append(q, m)
           T == [ui |-> u, sent |-> r]
<1>1. /\ Len(q) \in Nat /\ Len(r) = Len(q) + 1 /\ r[Len(q) + 1] = m
      /\ \A i \in 1 .. Len(q) : r[i] = q[i]
      /\ T.sent = r
  BY DEF Servers
<1>2. Len(q) <= Len(r) /\ \A i \in Len(q) + 1 .. Len(r) : i = Len(q) + 1
  BY <1>1
<1> HIDE DEF r, T
<1>3. Grows(S, T)
  BY <1>1, <1>2 DEF Grows
<1> QED
  BY <1>3 DEF T, r

LEMMA GrowsNot ==
    ASSUME NEW S \in Servers, NEW T, T.sent = S.sent
    PROVE  Grows(S, T)
<1>1. Len(S.sent) \in Nat
  BY DEF Servers
<1>2. Len(S.sent) <= Len(S.sent) /\ \A i \in Len(S.sent) + 1 .. Len(S.sent) : FALSE
  BY <1>1
<1> QED
  BY <1>2 DEF Grows

LEMMA Parts ==
    ASSUME NEW S, NEW w, NEW c, Good(S, w, c)
    PROVE  /\ S \in Servers /\ S.ui \in Ui /\ S.sent \in Seq(Command)
           /\ S.ui.status \in Statuses /\ S.ui.ref \in Refs \cup {NoRef}
           /\ c \in Contents /\ w \in Window
           /\ S = [ui |-> S.ui, sent |-> S.sent]
BY DEF Good, Servers, Ui

(* What EXCEPT leaves of a server. *)
LEMMA Sent ==
    ASSUME NEW S \in Servers, NEW u \in Ui, NEW m \in Command
    PROVE  /\ Send([S EXCEPT !.ui = u], m) = [ui |-> u, sent |-> Append(S.sent, m)]
           /\ Send(S, m) = [ui |-> S.ui, sent |-> Append(S.sent, m)]
           /\ [S EXCEPT !.ui = u] = [ui |-> u, sent |-> S.sent]
<1>1. S = [ui |-> S.ui, sent |-> S.sent]
  BY DEF Servers
<1>2. [S EXCEPT !.ui = u] = [ui |-> u, sent |-> S.sent]
  BY <1>1
<1>3. \A v \in Ui : Send([ui |-> v, sent |-> S.sent], m)
                        = [ui |-> v, sent |-> Append(S.sent, m)]
  BY DEF Send
<1>4. S.ui \in Ui
  BY DEF Servers
<1> QED
  BY <1>1, <1>2, <1>3, <1>4

LEMMA Pushed ==
    ASSUME NEW S, NEW w, NEW c, Good(S, w, c),
           NEW u \in Ui, u.ref = S.ui.ref,
           NEW d \in {NoContent, c}, NEW s \in Statuses,
           access = Disabled => d = NoContent
    PROVE  LET T == [ui |-> u, sent |-> Append(S.sent, Push(d, s))]
           IN  Good(T, w, c) /\ Grows(S, T)
<1>1. /\ Push(d, s) \in Command /\ Push(d, s).kind = "push"
      /\ Push(d, s).view.content = d
  <2>1. d \in Contents \cup {NoContent}
    BY Parts
  <2> QED
    BY <2>1, CommandTypes
<1>2. Good([ui |-> u, sent |-> Append(S.sent, Push(d, s))], w, c)
  BY <1>1, SendQuietly
<1>3. Grows(S, [ui |-> u, sent |-> Append(S.sent, Push(d, s))])
  BY <1>1, GrowsByOne, Parts
<1> QED
  BY <1>2, <1>3

LEMMA CloseUiGood ==
    ASSUME NEW S, NEW w, NEW c, Good(S, w, c)
    PROVE  /\ Good(CloseUi(S), w, c) /\ Grows(S, CloseUi(S))
           /\ CloseUi(S).sent = Append(S.sent, Shut)
           /\ exists => CloseUi(S).ui.ref = NoRef
<1> DEFINE u == IF exists THEN NoUi ELSE [S.ui EXCEPT !.auto = FALSE]
<1>1. u \in Ui /\ (exists => u.ref = NoRef)
  BY UiTypes, Parts DEF Ui
<1>3. Shut \in Command /\ Shut.kind = "close"
  BY CommandTypes
<1>2a. CloseUi(S) = Send([S EXCEPT !.ui = u], Shut)
  BY DEF CloseUi
<1> HIDE DEF u
<1>2. CloseUi(S) = [ui |-> u, sent |-> Append(S.sent, Shut)]
  BY <1>1, <1>2a, <1>3, Sent, Parts
<1>4. Good([ui |-> u, sent |-> Append(S.sent, Shut)], w, c)
  BY <1>1, SendShut
<1>5. Grows(S, [ui |-> u, sent |-> Append(S.sent, Shut)])
  BY <1>1, <1>3, GrowsByOne, Parts
<1> QED
  BY <1>1, <1>2, <1>4, <1>5

LEMMA SetStatusGood ==
    ASSUME NEW S, NEW w, NEW c, Good(S, w, c), Access, access # Close
    PROVE  /\ Good(SetStatus(S), w, c) /\ Grows(S, SetStatus(S))
           /\ SetStatus(S).ui \in Ui /\ SetStatus(S).ui.ref = S.ui.ref
           /\ SetStatus(S).sent = S.sent
           /\ access \in Statuses
<1> DEFINE u == [S.ui EXCEPT !.status = access]
<1>1. u \in Ui /\ u.ref = S.ui.ref /\ access \in Statuses
  BY Parts DEF Ui, Access
<1>2. SetStatus(S) = [S EXCEPT !.ui = u]
  BY Parts DEF SetStatus, Servers
<1>3. [S EXCEPT !.ui = u].ui = u /\ [S EXCEPT !.ui = u].sent = S.sent
  BY Parts DEF Servers
<1> HIDE DEF u
<1>4. Good([S EXCEPT !.ui = u], w, c) /\ Grows(S, [S EXCEPT !.ui = u])
  BY <1>1, <1>3, ChangeUi, GrowsNot, Parts
<1> QED
  BY <1>1, <1>2, <1>3, <1>4

(* A status is sent with or without data. *)
LEMMA StatusPushed ==
    ASSUME NEW S, NEW w, NEW c, Good(S, w, c), Access, access # Close,
           NEW d \in {NoContent, c}, NEW s \in Statuses,
           access = Disabled => d = NoContent
    PROVE  LET T == Send(SetStatus(S), Push(d, s))
           IN  Good(T, w, c) /\ Grows(S, T)
<1>1. /\ SetStatus(S).ui \in Ui /\ SetStatus(S).ui.ref = S.ui.ref
      /\ SetStatus(S).sent = S.sent /\ SetStatus(S) \in Servers
  BY SetStatusGood, Parts
<1>2. d \in Contents \cup {NoContent}
  BY Parts
<1>3. Push(d, s) \in Command
  BY <1>2, CommandTypes
<1>4. Send(SetStatus(S), Push(d, s)) =
          [ui |-> SetStatus(S).ui, sent |-> Append(S.sent, Push(d, s))]
  BY <1>1, <1>3, Sent
<1> QED
  BY <1>1, <1>4, Pushed

LEMMA UpdateStatusGood ==
    ASSUME NEW S, NEW w, NEW c, Good(S, w, c), Access
    PROVE  /\ Good(UpdateStatus(S), w, c) /\ Grows(S, UpdateStatus(S))
           /\ \/ UpdateStatus(S).sent = S.sent
              \/ UpdateStatus(S).sent = Append(S.sent, Shut)
              \/ UpdateStatus(S).sent = Append(S.sent, Push(NoContent, Disabled))
<1>1. CASE access = Close
  BY <1>1, CloseUiGood DEF UpdateStatus
<1>2. CASE access # Close /\ access = Disabled /\ S.ui.status # Disabled
  <2>1. Disabled \in Statuses
    BY DEF Statuses
  <2>2. UpdateStatus(S) = Send(SetStatus(S), Push(NoContent, Disabled))
    BY <1>2 DEF UpdateStatus
  <2>3. SetStatus(S) \in Servers /\ SetStatus(S).sent = S.sent
    BY <1>2, SetStatusGood, Parts
  <2>4. Push(NoContent, Disabled) \in Command
    BY <2>1, CommandTypes
  <2>4a. Send(SetStatus(S), Push(NoContent, Disabled))
            = [ui |-> SetStatus(S).ui, sent |-> Append(SetStatus(S).sent, Push(NoContent, Disabled))]
    BY <2>3, <2>4, Sent, UiTypes
  <2>5. UpdateStatus(S).sent = Append(S.sent, Push(NoContent, Disabled))
    BY <2>2, <2>3, <2>4a
  <2> QED
    BY <1>2, <2>1, <2>2, <2>5, StatusPushed
<1>3. CASE access # Close /\ ~ (access = Disabled /\ S.ui.status # Disabled)
  <2>1. UpdateStatus(S) = SetStatus(S)
    BY <1>3 DEF UpdateStatus
  <2> QED
    BY <1>3, <2>1, SetStatusGood
<1> QED
  BY <1>1, <1>2, <1>3

LEMMA PushDataGood ==
    ASSUME NEW S, NEW w, NEW c, Good(S, w, c), Access
    PROVE  Good(PushData(S, c), w, c) /\ Grows(S, PushData(S, c))
<1> DEFINE status == IF access = Close THEN S.ui.status ELSE access
           T == UpdateStatus(S)
<1>1. status \in Statuses /\ (access = Disabled => status = Disabled)
  <2>1. Close # Disabled
    BY DEF Close, Disabled
  <2> QED
    BY <2>1, Parts DEF Access
<1>2. Good(T, w, c) /\ Grows(S, T)
  BY UpdateStatusGood
<1>3. PushData(S, c) = IF status = Disabled THEN T ELSE Send(T, Push(c, status))
  BY DEF PushData
<1> HIDE DEF status, T
<1>4. CASE status = Disabled
  BY <1>2, <1>3, <1>4
<1>5. CASE status # Disabled
  <2>1. T \in Servers /\ T.ui \in Ui /\ S \in Servers /\ c \in Contents
    BY <1>2, Parts
  <2>2. Push(c, status) \in Command
    BY <1>1, <2>1, CommandTypes
  <2>3. PushData(S, c) = [ui |-> T.ui, sent |-> Append(T.sent, Push(c, status))]
    BY <1>3, <1>5, <2>1, <2>2, Sent
  <2>4. Good(PushData(S, c), w, c) /\ Grows(T, PushData(S, c))
    BY <1>1, <1>2, <1>5, <2>1, <2>3, Pushed
  <2>5. PushData(S, c) \in Servers
    BY <2>4, Parts
  <2> QED
    BY <1>2, <2>1, <2>4, <2>5, GrowsOn
<1> QED
  BY <1>4, <1>5

LEMMA UpdateStatusAndPushGood ==
    ASSUME NEW S, NEW w, NEW c, Good(S, w, c), Access
    PROVE  Good(UpdateStatusAndPush(S, c), w, c) /\ Grows(S, UpdateStatusAndPush(S, c))
<1>1. CASE access \in {Close, Disabled, S.ui.status}
  BY <1>1, UpdateStatusGood DEF UpdateStatusAndPush
<1>2. CASE access \notin {Close, Disabled, S.ui.status} /\ S.ui.status = Disabled
  <2>1. UpdateStatusAndPush(S, c) = PushData(SetStatus(S), c)
    BY <1>2 DEF UpdateStatusAndPush
  <2>2. Good(SetStatus(S), w, c) /\ Grows(S, SetStatus(S))
    BY <1>2, SetStatusGood
  <2>3. Good(PushData(SetStatus(S), c), w, c) /\ Grows(SetStatus(S), PushData(SetStatus(S), c))
    BY <2>2, PushDataGood
  <2> QED
    BY <2>1, <2>2, <2>3, GrowsOn, Parts
<1>3. CASE access \notin {Close, Disabled, S.ui.status} /\ S.ui.status # Disabled
  <2>1. UpdateStatusAndPush(S, c) = Send(SetStatus(S), Push(NoContent, access))
    BY <1>3 DEF UpdateStatusAndPush
  <2>2. access \in Statuses
    BY <1>3 DEF Access
  <2> QED
    BY <1>3, <2>1, <2>2, StatusPushed
<1> QED
  BY <1>1, <1>2, <1>3

LEMMA ProcessUiGood ==
    ASSUME NEW S, NEW w, NEW c, Good(S, w, c), Access, NEW update \in BOOLEAN
    PROVE  Good(ProcessUi(S, update, c), w, c) /\ Grows(S, ProcessUi(S, update, c))
<1>1. CASE ~ exists
  BY <1>1, CloseUiGood DEF ProcessUi
<1>2. CASE exists /\ S.ui.status # Disabled /\ (update \/ S.ui.auto)
  BY <1>2, PushDataGood DEF ProcessUi
<1>3. CASE exists /\ ~ (S.ui.status # Disabled /\ (update \/ S.ui.auto))
  BY <1>3, UpdateStatusAndPushGood DEF ProcessUi
<1> QED
  BY <1>1, <1>2, <1>3

(* A window that no nanoui serves may be given any. *)
LEMMA FreshUi ==
    ASSUME NEW S, NEW w, NEW c, Good(S, w, c), S.ui.ref = NoRef, NEW r \in Refs
    PROVE  /\ Good([S EXCEPT !.ui = NewUi(r)], w, c)
           /\ [S EXCEPT !.ui = NewUi(r)].sent = S.sent
<1> DEFINE u == NewUi(r)
<1>1. u \in Ui
  BY UiTypes
<1> HIDE DEF u
<1>2. /\ [S EXCEPT !.ui = u] \in Servers
      /\ [S EXCEPT !.ui = u].ui = u /\ [S EXCEPT !.ui = u].sent = S.sent
  BY <1>1 DEF Good, Servers
<1>3. LastServed(u, S.sent)
  BY NoRefAssumption DEF Good, LastServed, Windows
<1>4. ScreenServed(u, S.sent, w)
  BY NoRefAssumption DEF Good, ScreenServed, Faithful
<1>5. Good([S EXCEPT !.ui = u], w, c)
  BY <1>2, <1>3, <1>4 DEF Good
<1> QED
  BY <1>2, <1>5 DEF u

(* The new nanoui's status is pushed to the window there was, if any.      *)
LEMMA OpenUiGood ==
    ASSUME NEW S, NEW w, Good(S, w, content), Access, S.ui.ref = NoRef, NEW r \in Refs
    PROVE  Good(OpenUi(S, r), w, content) /\ Grows(S, OpenUi(S, r))
<1> DEFINE status == IF access = Close THEN Interactive ELSE access
           u == [ref |-> r, status |-> status, auto |-> AutoUpdate]
           v == [content |-> content, status |-> status]
           N == [S EXCEPT !.ui = NewUi(r)]
           q == UpdateStatus(N).sent
           P == [ui |-> S.ui, sent |-> q]
           H == [ui |-> u, sent |-> Append(q, Html(r, v))]
           O == [ui |-> u, sent |-> Append(Append(q, Html(r, v)), OnClose(r))]
<1>0. S \in Servers /\ S.ui \in Ui /\ content \in Contents /\ w \in Window
  BY Parts
<1>1. u \in Ui /\ u.ref = r /\ v \in View /\ v.content = content
  <2>1. status \in Statuses
    BY DEF Access, Statuses, Interactive
  <2> QED
    BY <1>0, <2>1, AutoAssumption DEF Ui, View
<1>2. OpenUi(S, r) = [ui |-> u, sent |-> q \o <<Html(r, v), OnClose(r)>>]
  BY DEF OpenUi
<1>3. Good(N, w, content) /\ N.sent = S.sent
  BY FreshUi
<1> HIDE DEF u, v, N
<1>4. \/ q = S.sent
      \/ q = Append(S.sent, Shut)
      \/ q = Append(S.sent, Push(NoContent, Disabled))
  BY <1>3, UpdateStatusGood
<1>5. Good(P, w, content) /\ Grows(S, P)
  <2>1. CASE q = S.sent
    <3>1. P = S
      BY <1>0, <2>1 DEF Servers
    <3> QED
      BY <1>0, <3>1, GrowsNot
  <2>2. CASE q = Append(S.sent, Shut)
    <3>1. Shut \in Command /\ Shut.kind = "close"
      BY CommandTypes
    <3> QED
      BY <1>0, <2>2, <3>1, SendShut, GrowsByOne
  <2>3. CASE q = Append(S.sent, Push(NoContent, Disabled))
    <3>1. Disabled \in Statuses
      BY DEF Statuses
    <3> QED
      BY <1>0, <2>3, <3>1, Pushed
  <2> QED
    BY <1>4, <2>1, <2>2, <2>3
<1>6. P.ui.ref = NoRef /\ P.sent = q /\ P \in Servers /\ q \in Seq(Command)
  BY <1>5, Parts
<1> HIDE DEF q, P
<1>7. /\ Html(r, v) \in Command /\ Html(r, v).kind = "html"
      /\ OnClose(r) \in Command /\ OnClose(r).kind = "onclose"
      /\ OnClose(r).view.content = NoContent
  BY <1>1, CommandTypes
<1>8. Good(H, w, content) /\ Grows(P, H) /\ H.ui = u /\ H.sent = Append(q, Html(r, v))
  BY <1>1, <1>5, <1>6, <1>7, SendHtml, GrowsByOne
<1>9. H \in Servers
  BY <1>8, Parts
<1> HIDE DEF H
<1>10. Good(O, w, content) /\ Grows(H, O)
  BY <1>1, <1>7, <1>8, <1>9, SendQuietly, GrowsByOne
<1>11. O \in Servers
  BY <1>10, Parts
<1>12. OpenUi(S, r) = O
  <2>1. q \o <<Html(r, v), OnClose(r)>> = Append(Append(q, Html(r, v)), OnClose(r))
    BY <1>6, <1>7
  <2> QED
    BY <1>2, <2>1
<1> HIDE DEF O
<1>13. Grows(S, H)
  BY <1>0, <1>5, <1>6, <1>8, <1>9, GrowsOn
<1> QED
  BY <1>0, <1>9, <1>10, <1>11, <1>12, <1>13, GrowsOn
-----------------------------------------------------------------------------
(* The steps of the server. *)
LEMMA BecomesGood ==
    ASSUME NEW S, NEW w, NEW c, Good(S, w, c), Grows(Server, S), Becomes(S)
    PROVE  Good(Server', w, c) /\ Grows(Server, Server')
<1>1. S = [ui |-> S.ui, sent |-> S.sent]
  BY Parts
<1>2. Server' = S
  BY <1>1 DEF Server, Becomes
<1> QED
  BY <1>2

LEMMA UnchangedGood ==
    ASSUME NEW w, NEW c, Good(Server, w, c), UNCHANGED <<ui, toClient>>
    PROVE  Good(Server', w, c) /\ Grows(Server, Server')
<1>1. Server' = Server
  BY DEF Server
<1>2. Grows(Server, Server)
  BY GrowsNot, Parts
<1> QED
  BY <1>1, <1>2

(* What arrives leaves requests behind. *)
LEMMA RequestsLeft ==
    ASSUME toServer \in Seq(Request), NEW kind, Arrives(kind)
    PROVE  toServer' \in Seq(Request)
BY DEF Arrives

LEMMA ProcessStep ==
    ASSUME WindowInv, Process
    PROVE  WindowInv' /\ win' = win /\ Grows(Server, Server')
<1>1. Good(Server, win, content) /\ Access
  BY DEF WindowInv, Access
<1>2. Becomes(ProcessUi(Server, FALSE, content))
  BY DEF Process
<1>3. Good(Server', win, content) /\ Grows(Server, Server')
  BY <1>1, <1>2, ProcessUiGood, BecomesGood
<1>4. UNCHANGED <<content, access, exists, win, toServer>>
  BY DEF Process, object
<1> QED
  BY <1>3, <1>4 DEF WindowInv

LEMMA UseStep ==
    ASSUME WindowInv, Use
    PROVE  WindowInv' /\ win' = win /\ Grows(Server, Server')
<1> DEFINE S == IF Open THEN CloseUi(Server) ELSE Server
<1>1. Good(Server, win, content) /\ Access /\ exists
  BY DEF WindowInv, Access, Use
<1>2. PICK r \in Refs : Becomes(OpenUi(S, r))
  BY DEF Use
<1>3. Good(S, win, content) /\ Grows(Server, S) /\ S.ui.ref = NoRef
  <2>1. CASE Open
    BY <1>1, <2>1, CloseUiGood
  <2>2. CASE ~ Open
    <3>1. Server.ui.ref = NoRef
      BY <2>2 DEF Open, Server
    <3> QED
      BY <1>1, <2>2, <3>1, GrowsNot, Parts
  <2> QED
    BY <2>1, <2>2
<1> HIDE DEF S
<1>4. Good(OpenUi(S, r), win, content) /\ Grows(S, OpenUi(S, r))
  BY <1>1, <1>3, OpenUiGood
<1>5. Grows(Server, OpenUi(S, r))
  BY <1>1, <1>3, <1>4, GrowsOn, Parts
<1>6. Good(Server', win, content) /\ Grows(Server, Server')
  BY <1>2, <1>4, <1>5, BecomesGood
<1>7. UNCHANGED <<content, access, exists, win, toServer>>
  BY DEF Use, object
<1> QED
  BY <1>6, <1>7 DEF WindowInv

LEMMA TopicStep ==
    ASSUME WindowInv, Topic
    PROVE  WindowInv' /\ win' = win /\ Grows(Server, Server')
<1>1. /\ Good(Server, win, content) /\ Access /\ content \in Contents
      /\ exists \in BOOLEAN
  BY Parts DEF WindowInv, Access
<1>2. /\ UNCHANGED <<access, exists, win>> /\ toServer' \in Seq(Request)
  BY RequestsLeft DEF Topic, WindowInv
<1>3. Good(Server', win, content') /\ Grows(Server, Server')
  <2>1. CASE ~ (Found /\ exists)
    <3>1. UNCHANGED <<ui, toClient, content>>
      BY <2>1 DEF Topic
    <3> QED
      BY <1>1, <3>1, UnchangedGood
  <2>2. CASE Found /\ exists /\ access # Interactive
    <3>1. Becomes(UpdateStatus(Server)) /\ UNCHANGED content
      BY <2>2 DEF Topic
    <3> QED
      BY <1>1, <3>1, UpdateStatusGood, BecomesGood
  <2>3. CASE Found /\ exists /\ access = Interactive
    <3> DEFINE S == UpdateStatus(Server)
    <3>1. PICK c \in {content, content + 1} \cap Contents, update \in BOOLEAN :
             content' = c /\ Becomes(IF update THEN ProcessUi(S, TRUE, c) ELSE S)
      BY <2>3 DEF Topic
    <3>2. c \in Contents /\ content <= c
      BY <1>1, <3>1, Numbers
    <3>3. Good(Server, win, c)
      BY <1>1, <3>2, ChangeContent
    <3>4. Good(S, win, c) /\ Grows(Server, S)
      BY <1>1, <3>3, UpdateStatusGood
    <3> HIDE DEF S
    <3>5. Good(ProcessUi(S, TRUE, c), win, c) /\ Grows(S, ProcessUi(S, TRUE, c))
      BY <1>1, <3>4, ProcessUiGood
    <3>6. Grows(Server, ProcessUi(S, TRUE, c))
      BY <3>3, <3>4, <3>5, GrowsOn, Parts
    <3>7. CASE update
      BY <3>1, <3>5, <3>6, <3>7, BecomesGood
    <3>8. CASE ~ update
      BY <3>1, <3>4, <3>8, BecomesGood
    <3> QED
      BY <3>7, <3>8
  <2> QED
    BY <2>1, <2>2, <2>3
<1> QED
  BY <1>1, <1>2, <1>3 DEF WindowInv, Access

LEMMA NanoCloseStep ==
    ASSUME WindowInv, NanoClose
    PROVE  WindowInv' /\ win' = win /\ Grows(Server, Server')
<1>1. Good(Server, win, content)
  BY DEF WindowInv
<1>2. /\ UNCHANGED <<content, access, exists, win>> /\ toServer' \in Seq(Request)
  BY RequestsLeft DEF NanoClose, WindowInv, object
<1>3. Good(Server', win, content) /\ Grows(Server, Server')
  <2>1. CASE Found
    BY <1>1, <2>1, CloseUiGood, BecomesGood DEF NanoClose
  <2>2. CASE ~ Found
    BY <1>1, <2>2, UnchangedGood DEF NanoClose
  <2> QED
    BY <2>1, <2>2
<1> QED
  BY <1>2, <1>3 DEF WindowInv
-----------------------------------------------------------------------------
(* The steps of the window. *)

(* A window ready before and after a step shows data no older. *)
Forward ==
    win.phase = "ready" /\ win'.phase = "ready" =>
        win'.shown.content >= win.shown.content

LEMMA UpdatedWindow ==
    ASSUME NEW w \in Window, Faithful(w), NEW v \in View
    PROVE  /\ Updated(w, v) \in Window /\ Faithful(Updated(w, v))
           /\ Updated(w, v).phase = w.phase /\ Updated(w, v).ref = w.ref
           /\ \/ Updated(w, v).data.content = w.data.content
              \/ v.content # NoContent /\ Updated(w, v).data.content = v.content
<1> DEFINE d == Merged(w, v)
<1>1. /\ d \in View
      /\ d.content = w.data.content \/ (v.content # NoContent /\ d.content = v.content)
  <2>1. CASE v.content # NoContent
    BY <2>1 DEF Merged
  <2>2. CASE v.content = NoContent
    <3>1. d = [v EXCEPT !.content = w.data.content]
      BY <2>2 DEF Merged
    <3>2. w.data.content \in Contents \cup {NoContent}
      BY DEF Window, View
    <3> QED
      BY <3>1, <3>2 DEF View
  <2> QED
    BY <2>1, <2>2
<1> HIDE DEF d
<1>2. CASE w.phase \in {"closed", "page", "broken"}
  <2>1. Updated(w, v) = w
    BY <1>2 DEF Updated
  <2> QED
    BY <2>1
<1>3. CASE w.phase = "templates"
  <2>1. Updated(w, v) = [w EXCEPT !.data = d]
    BY <1>3 DEF Updated, d
  <2> QED
    BY <1>1, <1>3, <2>1 DEF Window, Faithful
<1>4. CASE w.phase = "ready"
  <2>1. Updated(w, v) = [w EXCEPT !.data = d, !.shown = d]
    BY <1>4 DEF Updated, Rendered, d
  <2> QED
    BY <1>1, <1>4, <2>1 DEF Window, Faithful
<1> QED
  BY <1>2, <1>3, <1>4 DEF Window, Phases

LEMMA PageWindow ==
    ASSUME NEW w \in Window, NEW r \in Refs, NEW v \in View
    PROVE  /\ Page(w, r, v) \in Window /\ Faithful(Page(w, r, v))
           /\ Page(w, r, v).phase = "page" /\ Page(w, r, v).ref = r
           /\ Page(w, r, v).data = v
<1>1. Templates \in 0 .. Templates
  BY TemplatesAssumption
<1> QED
  BY <1>1, BlankType DEF Page, Window, Phases, Faithful

LEMMA ReceiveStep ==
    ASSUME WindowInv, Receive
    PROVE  WindowInv' /\ Len(toClient') < Len(toClient) /\ Forward
<1> DEFINE m == Head(toClient)
           x == win'
<1>1. /\ Good(Server, win, content) /\ toClient # << >> /\ Server.sent = toClient
      /\ Server.ui = ui
  BY DEF WindowInv, Receive, Server
<1>2. /\ toClient \in Seq(Command) /\ m \in Command /\ m = toClient[1]
      /\ 1 \in 1 .. Len(toClient) /\ Len(toClient') < Len(toClient)
      /\ win \in Window /\ Faithful(win)
      /\ toClient' = Tail(toClient)
  <2>1. toClient \in Seq(Command) /\ win \in Window /\ Faithful(win)
    BY <1>1, Parts DEF Good
  <2>2. toClient' = Tail(toClient)
    BY DEF Receive
  <2> QED
    BY <1>1, <2>1, <2>2
<1>3. m.view \in View /\ m.kind \in {"html", "onclose", "push", "close"}
  BY <1>2 DEF Command
<1>4. UNCHANGED <<content, access, exists, ui, toServer>>
  BY DEF Receive, object
<1>5. /\ x \in Window /\ Faithful(x)
      /\ m.kind = "html" => x.phase = "page" /\ x.ref = m.ref
      /\ m.kind = "close" => x.phase = "closed"
      /\ m.kind \in {"push", "onclose"} => x.phase = win.phase /\ x.ref = win.ref
      /\ \/ x.data.content \in {NoContent, win.data.content}
         \/ x.data.content = m.view.content
      /\ m.kind \in {"push", "onclose"} =>
            \/ x.data.content = win.data.content
            \/ m.view.content # NoContent /\ x.data.content = m.view.content
  <2>1. CASE m.kind = "html"
    <3>1. m.ref \in Refs
      BY <1>1, <1>2, <2>1 DEF Good, Windows
    <3>2. x = Page(win, m.ref, m.view)
      BY <2>1 DEF Receive
    <3> QED
      BY <1>2, <1>3, <2>1, <3>1, <3>2, PageWindow
  <2>2. CASE m.kind = "onclose"
    <3>1. x = IF win.phase = "closed" THEN win ELSE [win EXCEPT !.onclose = m.ref]
      BY <2>2 DEF Receive
    <3>2. m.ref \in Refs \cup {NoRef}
      BY <1>2 DEF Command
    <3> QED
      BY <1>2, <2>2, <3>1, <3>2 DEF Window, Faithful
  <2>3. CASE m.kind = "push"
    <3>1. x = Updated(win, m.view)
      BY <2>3 DEF Receive
    <3> QED
      BY <1>2, <1>3, <2>3, <3>1, UpdatedWindow
  <2>4. CASE m.kind = "close"
    <3>1. x = NoWindow
      BY <2>4 DEF Receive
    <3> QED
      BY <2>4, <3>1, NoWindowType DEF Faithful
  <2> QED
    BY <1>3, <2>1, <2>2, <2>3, <2>4
<1> HIDE DEF m, x
<1>6. Good([ui |-> ui, sent |-> Tail(toClient)], x, content)
  BY <1>1, <1>2, <1>5, ReceiveCommand DEF m
<1>7. WindowInv'
  BY <1>2, <1>4, <1>6 DEF WindowInv, Server, x
<1>8. Forward
  <2>1. SUFFICES ASSUME win.phase = "ready", x.phase = "ready"
                 PROVE  x.shown.content >= win.shown.content
    BY DEF Forward, x
  <2>2. win.shown.content = win.data.content /\ x.shown.content = x.data.content
    BY <1>2, <1>5, <2>1 DEF Faithful
  <2>3. m.kind \in {"push", "onclose"}
    BY <1>3, <1>5, <2>1
  <2>4. win.data.content \in Int /\ (m.view.content = NoContent \/ win.data.content <= m.view.content)
    BY <1>1, <1>2, Numbers DEF Good, InOrder, Window
  <2> QED
    BY <1>5, <2>2, <2>3, <2>4
<1> QED
  BY <1>2, <1>7, <1>8

(* The server and the commands stay as they are, and so does the object. *)
LEMMA WindowChanges ==
    ASSUME WindowInv, UNCHANGED <<content, access, exists, ui, toClient>>,
           toServer' \in Seq(Request), Good(Server, win', content)
    PROVE  WindowInv' /\ toClient' = toClient
<1>1. Server' = Server
  BY DEF Server
<1> QED
  BY <1>1 DEF WindowInv

LEMMA LoadStep ==
    ASSUME WindowInv, LoadScripts \/ LoadTemplate \/ FailTemplate
    PROVE  WindowInv' /\ toClient' = toClient /\ Forward
<1> DEFINE x == win'
<1>1. Good(Server, win, content) /\ win \in Window /\ Faithful(win)
  BY DEF WindowInv, Good
<1>2. /\ UNCHANGED <<content, access, exists, ui, toClient>> /\ toServer' \in Seq(Request)
  BY DEF LoadScripts, LoadTemplate, FailTemplate, WindowInv, object
<1>3. /\ x \in Window /\ Faithful(x) /\ x.ref = win.ref
      /\ win.phase \in {"page", "templates"}
      /\ x.data.content \in {NoContent, win.data.content}
  <2>1. CASE LoadScripts
    BY <1>1, <2>1 DEF LoadScripts, Window, Phases, Faithful
  <2>2. CASE LoadTemplate
    <3>1. CASE win.left > 1
      <4>1. x = [win EXCEPT !.left = win.left - 1] /\ win.phase = "templates"
        BY <2>2, <3>1 DEF LoadTemplate
      <4>2. win.left - 1 \in 0 .. Templates
        BY <1>1, <3>1, TemplatesAssumption DEF Window
      <4> QED
        BY <1>1, <4>1, <4>2 DEF Window, Faithful
    <3>2. CASE ~ (win.left > 1)
      <4>1. /\ x = [win EXCEPT !.data = win.data, !.shown = win.data,
                               !.left = 0, !.phase = "ready"]
            /\ win.phase = "templates"
        BY <1>1, <2>2, <3>2 DEF LoadTemplate, Rendered, Window
      <4>2. 0 \in 0 .. Templates
        BY TemplatesAssumption
      <4> QED
        BY <1>1, <4>1, <4>2 DEF Window, Phases, Faithful
    <3> QED
      BY <3>1, <3>2
  <2>3. CASE FailTemplate
    BY <1>1, <2>3, BlankType DEF FailTemplate, Window, Phases, Faithful
  <2> QED
    BY <2>1, <2>2, <2>3
<1> HIDE DEF x
<1>4. Good(Server, x, content)
  BY <1>1, <1>3, ChangeWindow
<1>5. WindowInv' /\ toClient' = toClient
  BY <1>2, <1>4, WindowChanges DEF x
<1>6. Forward
  BY <1>3 DEF Forward
<1> QED
  BY <1>5, <1>6

LEMMA ClickStep ==
    ASSUME WindowInv, Click \/ EnableClick
    PROVE  WindowInv' /\ toClient' = toClient /\ Forward
<1> DEFINE x == win'
<1>1. Good(Server, win, content) /\ win \in Window /\ Faithful(win)
  BY DEF WindowInv, Good
<1>2. PICK b \in BOOLEAN : x = [win EXCEPT !.canClick = b]
  BY DEF Click, EnableClick
<1>3. /\ x \in Window /\ x.phase = win.phase /\ x.ref = win.ref
      /\ x.data = win.data /\ x.shown = win.shown
  BY <1>1, <1>2 DEF Window
<1>4. /\ UNCHANGED <<content, access, exists, ui, toClient>> /\ toServer' \in Seq(Request)
  <2>1. CASE Click
    <3>1. win.ref \in Refs
      BY <1>1, <2>1 DEF Click, Faithful
    <3> QED
      BY <2>1, <3>1 DEF Click, WindowInv, object, Request
  <2>2. CASE EnableClick
    BY <2>2 DEF EnableClick, WindowInv, object
  <2> QED
    BY <2>1, <2>2
<1> HIDE DEF x
<1>5. Faithful(x)
  BY <1>1, <1>3 DEF Faithful
<1>6. Good(Server, x, content)
  BY <1>1, <1>3, <1>5, ChangeWindow
<1>7. WindowInv' /\ toClient' = toClient
  BY <1>4, <1>6, WindowChanges DEF x
<1>8. Forward
  BY <1>1, <1>3, Numbers DEF Forward, x, Window
<1> QED
  BY <1>7, <1>8

LEMMA CloseWindowStep ==
    ASSUME WindowInv, CloseWindow
    PROVE  WindowInv' /\ toClient' = toClient /\ Forward
<1>1. Good(Server, win, content) /\ win \in Window
  BY DEF WindowInv, Good
<1>2. win' = NoWindow /\ NoWindow \in Window /\ Faithful(NoWindow)
  BY NoWindowType DEF CloseWindow, Faithful
<1>3. Good(Server, win', content)
  BY <1>1, <1>2, NoWindowType, ChangeWindow
<1>4. toServer' \in Seq(Request)
  <2>1. CASE win.onclose = NoRef
    BY <2>1 DEF CloseWindow, WindowInv
  <2>2. CASE win.onclose # NoRef
    BY <1>1, <2>2 DEF CloseWindow, WindowInv, Window, Request
  <2> QED
    BY <2>1, <2>2
<1>5. UNCHANGED <<content, access, exists, ui, toClient>>
  BY DEF CloseWindow, object
<1>6. WindowInv' /\ toClient' = toClient
  BY <1>3, <1>4, <1>5, WindowChanges
<1> QED
  BY <1>2, <1>6, NoWindowType DEF Forward

-----------------------------------------------------------------------------
(* The steps of the rest of the game. *)
LEMMA WorldStep ==
    ASSUME WindowInv, World
    PROVE  WindowInv' /\ win' = win /\ toClient' = toClient
<1>1. Good(Server, win, content) /\ content \in Contents
  BY Parts DEF WindowInv
<1>2. UNCHANGED <<ui, win, toClient, toServer>> /\ Server' = Server
  BY DEF World, Change, Move, Delete, Server
<1>3. content' \in Contents /\ content <= content'
  BY <1>1, ContentAssumption DEF World, Change, Move, Delete, Contents
<1>4. Good(Server, win, content')
  BY <1>1, <1>3, ChangeContent
<1>5. access' \in Statuses \cup {Close} /\ exists' \in BOOLEAN
  BY DEF World, Change, Move, Delete, WindowInv
<1> QED
  BY <1>2, <1>4, <1>5 DEF WindowInv

LEMMA EmptyGood ==
    ASSUME NEW u \in Ui, NEW c \in Contents
    PROVE  Good([ui |-> u, sent |-> << >>], NoWindow, c)
<1>1. /\ << >> \in Seq(Command) /\ Len(<< >>) = 0
      /\ \A i \in 1 .. 0 : FALSE
  OBVIOUS
<1>2. NoContent <= c
  BY Numbers
<1>3. [ui |-> u, sent |-> << >>] \in Servers
  BY <1>1 DEF Servers
<1> QED
  BY <1>1, <1>2, <1>3, NoWindowType
     DEF Good, Faithful, Windows, ClosedBetween, ClosedBefore, LastServed,
         ScreenServed, InOrder

LEMMA LogoutStep ==
    ASSUME WindowInv, Logout
    PROVE  WindowInv' /\ Len(toClient') = 0 /\ Forward
<1>1. Good(Server, win, content) /\ content \in Contents /\ ui \in Ui
  BY Parts DEF WindowInv, Server
<1>2. ui' \in Ui
  <2>1. CASE Open
    <3>1. Good(CloseUi(Server), win, content)
      BY <1>1, CloseUiGood
    <3>2. CloseUi(Server).ui \in Ui
      BY <3>1, Parts
    <3> QED
      BY <2>1, <3>2 DEF Logout
  <2>2. CASE ~ Open
    BY <1>1, <2>2 DEF Logout
  <2> QED
    BY <2>1, <2>2
<1>3. /\ toClient' = << >> /\ toServer' = << >> /\ win' = NoWindow
      /\ UNCHANGED <<content, access, exists>>
  BY DEF Logout, object
<1>4. Good(Server', win', content')
  BY <1>1, <1>2, <1>3, EmptyGood DEF Server
<1> QED
  BY <1>3, <1>4, NoWindowType DEF WindowInv, Forward

-----------------------------------------------------------------------------
(* Nothing about the object is added to what is sent. *)
Red ==
    access = Disabled =>
        \A i \in Len(toClient) + 1 .. Len(toClient') :
            toClient'[i].kind = "push" => toClient'[i].view.content = NoContent

LEMMA WindowStart == Init => WindowInv
<1> SUFFICES ASSUME Init PROVE WindowInv
  OBVIOUS
<1>1. Server = [ui |-> NoUi, sent |-> << >>] /\ win = NoWindow /\ content = 0
  BY DEF Init, Server
<1>2. NoUi \in Ui /\ 0 \in Contents
  BY UiTypes, ContentAssumption DEF Contents
<1>3. Good(Server, win, content)
  BY <1>1, <1>2, EmptyGood
<1> QED
  BY <1>3 DEF Init, WindowInv

(* What each step keeps, and what it never does. *)
LEMMA WindowStep == WindowInv /\ [Next]_vars => WindowInv' /\ Forward /\ Red
<1> SUFFICES ASSUME WindowInv, [Next]_vars PROVE WindowInv' /\ Forward /\ Red
  OBVIOUS
<1>1. /\ Good(Server, win, content) /\ Server.sent = toClient
      /\ Len(toClient) \in Nat /\ win \in Window
  <2>1. Server.sent = toClient
    BY DEF Server
  <2> QED
    BY <2>1, Parts DEF WindowInv
<1>2. win' = win => Forward
  BY <1>1, Numbers DEF Forward, Window
<1>3. Grows(Server, Server') => Red
  BY DEF Grows, Red, Server
<1>4. toClient' = toClient => Red
  BY <1>1 DEF Red
<1>5. Len(toClient') < Len(toClient) \/ Len(toClient') = 0 => Red
  BY <1>1 DEF Red
<1>6. CASE Process
  BY <1>2, <1>3, <1>6, ProcessStep
<1>7. CASE Topic
  BY <1>2, <1>3, <1>7, TopicStep
<1>8. CASE NanoClose
  BY <1>2, <1>3, <1>8, NanoCloseStep
<1>9. CASE Use
  BY <1>2, <1>3, <1>9, UseStep
<1>10. CASE Receive
  BY <1>5, <1>10, ReceiveStep
<1>11. CASE LoadScripts \/ LoadTemplate \/ FailTemplate
  BY <1>4, <1>11, LoadStep
<1>12. CASE Click \/ EnableClick
  BY <1>4, <1>12, ClickStep
<1>13. CASE CloseWindow
  BY <1>4, <1>13, CloseWindowStep
<1>14. CASE Logout
  BY <1>5, <1>14, LogoutStep
<1>15. CASE World
  BY <1>2, <1>4, <1>15, WorldStep
<1>16. CASE UNCHANGED vars
  <2>1. WindowInv' /\ win' = win /\ toClient' = toClient
    BY <1>16 DEF WindowInv, Good, Servers, Server, vars
  <2> QED
    BY <1>2, <1>4, <2>1
<1> QED
  BY <1>6, <1>7, <1>8, <1>9, <1>10, <1>11, <1>12, <1>13, <1>14, <1>15, <1>16
     DEF Next, Handlers, Scripts, Player

LEMMA WindowAlways == Spec => []WindowInv
<1>1. Init => WindowInv
  BY WindowStart
<1>2. WindowInv /\ [Next]_vars => WindowInv'
  BY WindowStep
<1> QED
  BY <1>1, <1>2, PTL DEF Spec

(* Every variable holds values of its kind (TypeOK). *)
THEOREM WindowTyped == Spec => []TypeOK
<1>1. WindowInv => TypeOK
  BY Parts DEF WindowInv, TypeOK, Good, Servers, Server
<1> QED
  BY <1>1, WindowAlways, PTL

(* A window never outlives its nanoui: one on the screen is served, or the *)
(* command that closes it is on its way (close(), open()).                 *)
THEOREM NoWindowOrphaned == Spec => []NoOrphan
<1>1. WindowInv => NoOrphan
  <2> SUFFICES ASSUME WindowInv, win.phase # "closed", ui.ref # win.ref
               PROVE  Coming("close")
    BY DEF NoOrphan
  <2>1. /\ ClosedBefore(toClient, win) /\ ScreenServed(ui, toClient, win)
        /\ DOMAIN toClient = 1 .. Len(toClient)
    BY DEF WindowInv, Good, Server, Servers
  <2>2. \E k \in 1 .. Len(toClient) : toClient[k].kind = "close"
    BY <2>1 DEF ClosedBefore, ScreenServed
  <2> QED
    BY <2>1, <2>2 DEF Coming
<1> QED
  BY <1>1, WindowAlways, PTL

(* What a window shows never goes back to older data (receiveUpdateData()).*)
THEOREM NothingGoesBack == Spec => NeverGoesBack
<1>1. WindowInv /\ [Next]_vars => [Forward]_vars
  BY WindowStep
<1> QED
  BY <1>1, WindowAlways, PTL DEF Spec, NeverGoesBack, Forward

(* Nothing about the object is pushed to a player who must not see it      *)
(* (push_data(), update_status()).                                         *)
THEOREM QuietInTheRed == Spec => NothingInTheRed
<1>1. WindowInv /\ [Next]_vars => [Red]_vars
  BY WindowStep
<1> QED
  BY <1>1, WindowAlways, PTL DEF Spec, NothingInTheRed, Red
=============================================================================
