------------------------- MODULE SimpleDockingProofs -------------------------
(***************************************************************************)
(* Docking ports that are a single door keep to the docking protocol; one  *)
(* thread at a time moves a door, and a program remembers its door rightly *)
(* when none is left; and an undocking that begins with the doors at rest  *)
(* is not complete before they are shut.                                   *)
(***************************************************************************)
EXTENDS SimpleDocking, TLAPS

DP == INSTANCE DockingProgramProofs

-----------------------------------------------------------------------------
(* The doors.  The invariant of a door d, whose threads wait as q says and *)
(* whose program remembers the status m: the thread that moves the door is *)
(* the only one that does, and where the program is wrong a thread is left *)
(* that reports.                                                           *)

Moving == {"opening", "closing", "late_closing"}
Unsure == Moving \cup {"unlocked", "locked"}

Moves(q, i) == q[i].at \in Moving
Reports(q) == \E i \in DOMAIN q : q[i].at \in Unsure

DoorKnown(m, d, q) == m \in Status /\ d \in Door /\ q \in Seq(Thread)
MovesOnce(d, q) ==
    /\ d.operating <=> \E i \in DOMAIN q : Moves(q, i)
    /\ \A i, k \in DOMAIN q : Moves(q, i) /\ Moves(q, k) => i = k

DoorInv(m, d, q) ==
    /\ DoorKnown(m, d, q) /\ Len(q) <= MaxThreads + 1
    /\ MovesOnce(d, q)
    /\ m = StatusOf(d) \/ Reports(q)

DInv ==
    /\ DOMAIN door = Controllers /\ DOMAIN memory = Controllers
    /\ DOMAIN threads = Controllers
    /\ \A c \in Controllers : DoorInv(memory[c], door[c], threads[c])

(* The elements that are left when one is taken out of a sequence.         *)
LEMMA RemoveAtProps ==
    ASSUME NEW T, NEW q \in Seq(T), NEW i \in DOMAIN q
    PROVE  /\ RemoveAt(q, i) \in Seq(T)
           /\ Len(RemoveAt(q, i)) = Len(q) - 1
           /\ \A k \in 1 .. Len(q) - 1 :
                 RemoveAt(q, i)[k] = IF k < i THEN q[k] ELSE q[k + 1]
<1> DEFINE a == SubSeq(q, 1, i - 1)
           b == SubSeq(q, i + 1, Len(q))
<1>1. Len(q) \in Nat /\ i \in 1 .. Len(q)
  OBVIOUS
<1>2. a \in Seq(T) /\ Len(a) = i - 1 /\ \A k \in 1 .. i - 1 : a[k] = q[k]
  BY <1>1
<1>3. b \in Seq(T) /\ Len(b) = Len(q) - i /\ \A k \in 1 .. Len(q) - i : b[k] = q[i + k]
  BY <1>1
<1>4. RemoveAt(q, i) = a \o b
  BY DEF RemoveAt
<1> HIDE DEF a, b
<1>5. /\ a \o b \in Seq(T) /\ Len(a \o b) = Len(a) + Len(b)
      /\ \A k \in 1 .. Len(a) + Len(b) :
            (a \o b)[k] = IF k <= Len(a) THEN a[k] ELSE b[k - Len(a)]
  BY <1>2, <1>3
<1>6. ASSUME NEW k \in 1 .. Len(q) - 1
      PROVE  (a \o b)[k] = IF k < i THEN q[k] ELSE q[k + 1]
  <2>1. /\ k \in 1 .. Len(a) + Len(b) /\ k \in Nat /\ i \in Nat
        /\ k < i => k <= Len(a) /\ k \in 1 .. i - 1
        /\ ~ (k < i) => /\ ~ (k <= Len(a)) /\ k - Len(a) \in 1 .. Len(q) - i
                       /\ i + (k - Len(a)) = k + 1
    BY <1>1, <1>2, <1>3
  <2>2. CASE k < i
    BY <1>2, <1>5, <2>1, <2>2
  <2>3. CASE ~ (k < i)
    <3>1. (a \o b)[k] = b[k - Len(a)]
      BY <1>5, <2>1, <2>3
    <3>2. b[k - Len(a)] = q[i + (k - Len(a))]
      BY <1>3, <2>1, <2>3
    <3> QED
      BY <2>1, <2>3, <3>1, <3>2
  <2> QED
    BY <2>2, <2>3
<1> QED
  BY <1>1, <1>2, <1>3, <1>4, <1>5, <1>6

(* What the threads of a door wait for after one of them, i, has run. *)
After(q, i, next) ==
    RemoveAt(q, i) \o [k \in DOMAIN next |->
                          [at |-> next[k], polling |-> q[i].polling /\ next[k] # "late"]]

LEMMA AfterProps ==
    ASSUME NEW q \in Seq(Thread), NEW i \in DOMAIN q, NEW next \in Seq(Waits)
    PROVE  /\ After(q, i, next) \in Seq(Thread)
           /\ Len(After(q, i, next)) = Len(q) - 1 + Len(next)
           /\ \A k \in 1 .. Len(q) - 1 :
                 After(q, i, next)[k] = IF k < i THEN q[k] ELSE q[k + 1]
           /\ \A k \in 1 .. Len(next) : After(q, i, next)[Len(q) - 1 + k].at = next[k]
<1> DEFINE a == RemoveAt(q, i)
           b == [k \in DOMAIN next |->
                   [at |-> next[k], polling |-> q[i].polling /\ next[k] # "late"]]
<1>1. /\ a \in Seq(Thread) /\ Len(a) = Len(q) - 1
      /\ \A k \in 1 .. Len(q) - 1 : a[k] = IF k < i THEN q[k] ELSE q[k + 1]
  BY RemoveAtProps
<1>2. Len(q) \in Nat /\ i \in 1 .. Len(q) /\ Len(next) \in Nat /\ DOMAIN next = 1 .. Len(next)
  OBVIOUS
<1>3. /\ b \in [1 .. Len(next) -> Thread]
      /\ \A k \in 1 .. Len(next) : b[k].at = next[k]
  <2>1. ASSUME NEW k \in 1 .. Len(next)
        PROVE  [at |-> next[k], polling |-> q[i].polling /\ next[k] # "late"] \in Thread
    BY DEF Thread
  <2> QED
    BY <1>2, <2>1
<1> HIDE DEF a, b
<1>4. b \in Seq(Thread) /\ Len(b) = Len(next)
  BY <1>2, <1>3
<1>5. /\ a \o b \in Seq(Thread) /\ Len(a \o b) = Len(a) + Len(b)
      /\ \A k \in 1 .. Len(a) + Len(b) :
            (a \o b)[k] = IF k <= Len(a) THEN a[k] ELSE b[k - Len(a)]
  <2>1. a \in Seq(Thread) /\ b \in Seq(Thread)
    BY <1>1, <1>4
  <2> QED
    BY <2>1
<1>6. \A k \in 1 .. Len(q) - 1 : (a \o b)[k] = a[k]
  BY <1>1, <1>2, <1>4, <1>5
<1>7. ASSUME NEW k \in 1 .. Len(next)
      PROVE  (a \o b)[Len(q) - 1 + k].at = next[k]
  <2>1. /\ Len(q) - 1 + k \in 1 .. Len(a) + Len(b) /\ ~ (Len(q) - 1 + k <= Len(a))
        /\ Len(q) - 1 + k - Len(a) = k
    BY <1>1, <1>2, <1>4
  <2>2. (a \o b)[Len(q) - 1 + k] = b[k]
    BY <1>5, <2>1
  <2> QED
    BY <1>3, <2>2
<1> QED
  BY <1>1, <1>4, <1>5, <1>6, <1>7 DEF After, a, b

(* Each thread that waits is one that waited before, or was put there by   *)
(* the one that has run; and every other one still waits.                  *)
Older(i, k) == IF k < i THEN k ELSE k + 1

LEMMA AfterOrigin ==
    ASSUME NEW q \in Seq(Thread), NEW i \in DOMAIN q, NEW next \in Seq(Waits),
           NEW Q, Q = After(q, i, next)
    PROVE  /\ \A k \in DOMAIN Q :
                 \/ /\ k \in Nat /\ Older(i, k) \in DOMAIN q /\ Older(i, k) # i
                    /\ Q[k] = q[Older(i, k)]
                 \/ \E n \in DOMAIN next : k = Len(q) - 1 + n /\ Q[k].at = next[n]
           /\ \A n \in DOMAIN next :
                 Len(q) - 1 + n \in DOMAIN Q /\ Q[Len(q) - 1 + n].at = next[n]
           /\ \A o \in DOMAIN q \ {i} : \E k \in DOMAIN Q : Q[k] = q[o]
<1>1. /\ Q \in Seq(Thread) /\ Len(Q) = Len(q) - 1 + Len(next)
      /\ \A k \in 1 .. Len(q) - 1 : Q[k] = IF k < i THEN q[k] ELSE q[k + 1]
      /\ \A k \in 1 .. Len(next) : Q[Len(q) - 1 + k].at = next[k]
  BY AfterProps
<1>2. /\ Len(q) \in Nat /\ DOMAIN q = 1 .. Len(q) /\ i \in 1 .. Len(q)
      /\ Len(next) \in Nat /\ DOMAIN next = 1 .. Len(next)
      /\ DOMAIN Q = 1 .. Len(q) - 1 + Len(next)
  BY <1>1
<1>3. ASSUME NEW k \in DOMAIN Q
      PROVE  \/ /\ k \in Nat /\ Older(i, k) \in DOMAIN q /\ Older(i, k) # i
                /\ Q[k] = q[Older(i, k)]
             \/ \E n \in DOMAIN next : k = Len(q) - 1 + n /\ Q[k].at = next[n]
  <2>1. CASE k \in 1 .. Len(q) - 1
    <3>1. Q[k] = q[Older(i, k)]
      BY <1>1, <2>1 DEF Older
    <3>2. k \in Nat /\ Older(i, k) \in 1 .. Len(q) /\ Older(i, k) # i
      BY <1>2, <2>1 DEF Older
    <3> QED
      BY <1>2, <3>1, <3>2
  <2>2. CASE k \notin 1 .. Len(q) - 1
    <3>1. k - (Len(q) - 1) \in 1 .. Len(next) /\ k = Len(q) - 1 + (k - (Len(q) - 1))
      BY <1>2, <2>2
    <3> QED
      BY <1>1, <1>2, <3>1
  <2> QED
    BY <2>1, <2>2
<1>4. ASSUME NEW n \in DOMAIN next
      PROVE  Len(q) - 1 + n \in DOMAIN Q /\ Q[Len(q) - 1 + n].at = next[n]
  <2>1. Len(q) - 1 + n \in 1 .. Len(q) - 1 + Len(next)
    BY <1>2
  <2> QED
    BY <1>1, <1>2, <2>1
<1>5. ASSUME NEW o \in DOMAIN q \ {i}
      PROVE  \E k \in DOMAIN Q : Q[k] = q[o]
  <2> DEFINE k == IF o < i THEN o ELSE o - 1
  <2>1. k \in 1 .. Len(q) - 1 /\ k \in DOMAIN Q /\ (IF k < i THEN k ELSE k + 1) = o
    BY <1>2
  <2> HIDE DEF k
  <2>2. Q[k] = q[o]
    BY <1>1, <2>1
  <2> QED
    BY <2>1, <2>2
<1> QED
  BY <1>3, <1>4, <1>5

(* What a thread may do that wakes in door d, with the status m remembered *)
(* and the threads q.                                                      *)
GoMoves(d, q, i, new, next) ==
    \/ /\ \A n \in DOMAIN next : next[n] \notin Moving
       /\ new.operating <=> d.operating /\ ~ Moves(q, i)
    \/ /\ ~ d.operating /\ new.operating
       /\ DOMAIN next = {1} /\ next[1] \in Moving

GoReports(m, d, q, i, new, status, next) ==
    \/ status = StatusOf(new)
    \/ \E n \in DOMAIN next : next[n] \in Unsure
    \/ status = m /\ StatusOf(new) = StatusOf(d) /\ q[i].at \notin Unsure

(* A thread that moved the door has stopped it, or one begins to move a    *)
(* door that stood.                                                        *)
LEMMA AfterMoves ==
    ASSUME NEW d \in Door, NEW q \in Seq(Thread), NEW i \in DOMAIN q,
           NEW next \in Seq(Waits), NEW new \in Door, MovesOnce(d, q),
           GoMoves(d, q, i, new, next)
    PROVE  MovesOnce(new, After(q, i, next))
<1> PICK Q : Q = After(q, i, next)
  OBVIOUS
<1>1. /\ \A k \in DOMAIN Q :
            \/ /\ k \in Nat /\ Older(i, k) \in DOMAIN q /\ Older(i, k) # i
               /\ Q[k] = q[Older(i, k)]
            \/ \E n \in DOMAIN next : k = Len(q) - 1 + n /\ Q[k].at = next[n]
      /\ \A n \in DOMAIN next :
            Len(q) - 1 + n \in DOMAIN Q /\ Q[Len(q) - 1 + n].at = next[n]
      /\ \A o \in DOMAIN q \ {i} : \E k \in DOMAIN Q : Q[k] = q[o]
  BY AfterOrigin
<1>2. CASE /\ \A n \in DOMAIN next : next[n] \notin Moving
           /\ new.operating <=> d.operating /\ ~ Moves(q, i)
  <2>1. ASSUME NEW k \in DOMAIN Q, Moves(Q, k)
        PROVE  /\ k \in Nat /\ Older(i, k) \in DOMAIN q /\ Older(i, k) # i
               /\ Moves(q, Older(i, k))
    BY <1>1, <1>2, <2>1 DEF Moves
  <2>2. ASSUME NEW k \in DOMAIN Q, NEW l \in DOMAIN Q, Moves(Q, k), Moves(Q, l)
        PROVE  k = l
    <3>1. Older(i, k) = Older(i, l) /\ k \in Nat /\ l \in Nat /\ i \in Nat
      BY <2>1, <2>2 DEF MovesOnce
    <3> QED
      BY <3>1 DEF Older
  <2>3. (\E k \in DOMAIN Q : Moves(Q, k)) => new.operating
    BY <1>2, <2>1 DEF MovesOnce
  <2>4. new.operating => \E k \in DOMAIN Q : Moves(Q, k)
    BY <1>1, <1>2 DEF MovesOnce, Moves
  <2> QED
    BY <2>2, <2>3, <2>4 DEF MovesOnce
<1>3. CASE /\ ~ d.operating /\ new.operating
           /\ DOMAIN next = {1} /\ next[1] \in Moving
  <2>1. ASSUME NEW k \in DOMAIN Q, Moves(Q, k) PROVE k = Len(q) - 1 + 1
    BY <1>1, <1>3, <2>1 DEF Moves, MovesOnce
  <2>2. Len(q) - 1 + 1 \in DOMAIN Q /\ Moves(Q, Len(q) - 1 + 1)
    BY <1>1, <1>3 DEF Moves
  <2> QED
    BY <1>3, <2>1, <2>2 DEF MovesOnce
<1> QED
  BY <1>2, <1>3 DEF GoMoves

(* Where the program is wrong afterwards, a thread that reports is left.   *)
LEMMA AfterReports ==
    ASSUME NEW m, NEW d, NEW q \in Seq(Thread), NEW i \in DOMAIN q,
           NEW next \in Seq(Waits), NEW new, NEW status,
           m = StatusOf(d) \/ Reports(q), GoReports(m, d, q, i, new, status, next)
    PROVE  status = StatusOf(new) \/ Reports(After(q, i, next))
<1> PICK Q : Q = After(q, i, next)
  OBVIOUS
<1>1. /\ \A n \in DOMAIN next :
            Len(q) - 1 + n \in DOMAIN Q /\ Q[Len(q) - 1 + n].at = next[n]
      /\ \A o \in DOMAIN q \ {i} : \E k \in DOMAIN Q : Q[k] = q[o]
  BY AfterOrigin
<1>2. CASE \E n \in DOMAIN next : next[n] \in Unsure
  BY <1>1, <1>2 DEF Reports
<1>3. CASE status = m /\ StatusOf(new) = StatusOf(d) /\ q[i].at \notin Unsure
  BY <1>1, <1>3 DEF Reports
<1> QED
  BY <1>2, <1>3 DEF GoReports

(* GentleAt is about a door that is not being opened.                      *)
OpensAt == {"unlocked", "opening"}
GentleAt(d, q, i) == d.cur_command # "secure_open" /\ q[i].at \notin OpensAt

GoGently(m, d, q, i, new, status, next) ==
    /\ new.cur_command \in {d.cur_command, "none"}
    /\ GentleAt(d, q, i) =>
          /\ \A n \in DOMAIN next : next[n] \notin OpensAt
          /\ Shut(d) => Shut(new)
          /\ (Shut(m) => Shut(d)) => (Shut(status) => Shut(new))

GoFits(m, d, q, i, new, status, next) ==
    /\ new \in Door /\ status \in Status /\ next \in Seq(Waits)
    /\ Len(next) <= 1 \/ (Len(next) = 2 /\ Len(q) <= MaxThreads)
    /\ GoMoves(d, q, i, new, next)
    /\ GoReports(m, d, q, i, new, status, next)
    /\ GoGently(m, d, q, i, new, status, next)

(* The end of a command changes nothing but cur_command. *)
LEMMA DoneProps ==
    ASSUME NEW d \in Door
    PROVE  /\ Done(d) \in Door /\ Done(d).state = d.state /\ Done(d).lock = d.lock
           /\ Done(d).operating = d.operating
           /\ Done(d).cur_command \in {d.cur_command, "none"}
BY DEF Done, Door, Commands

(* What the parts of a door's movement do to its variables. *)
Alters(d, new, state, lock, operating) ==
    /\ new \in Door /\ new.state = state /\ new.lock = lock
    /\ new.operating = operating /\ new.cur_command = d.cur_command

LEMMA LockProps ==
    ASSUME NEW d \in Door
    PROVE  /\ Alters(d, Unlocked(d), d.state, "unlocked", d.operating)
           /\ d.operating => Alters(d, Locked(d), d.state, d.lock, TRUE)
           /\ ~ d.operating => Alters(d, Locked(d), d.state, "locked", FALSE)
BY DEF Alters, Unlocked, Locked, Door, Commands

LEMMA MoveProps ==
    ASSUME NEW d \in Door
    PROVE  /\ Alters(d, Opening(d), d.state, d.lock, TRUE)
           /\ Alters(d, Opened(d), "open", d.lock, FALSE)
           /\ Alters(d, Closing(d), "closed", d.lock, TRUE)
           /\ Alters(d, Closed(d), d.state, d.lock, FALSE)
BY DEF Alters, Opening, Opened, Closing, Closed, Door, Commands

(* A status has nothing but the state and the lock of the door.            *)
LEMMA StatusProps ==
    ASSUME NEW d \in Door, NEW e \in Door
    PROVE  /\ StatusOf(d) \in Status
           /\ StatusOf(d).state = d.state /\ StatusOf(d).lock = d.lock
           /\ d.state = e.state /\ d.lock = e.lock => StatusOf(d) = StatusOf(e)
           /\ Shut(StatusOf(d)) <=> Shut(d)
BY DEF StatusOf, Shut, Status, Door

WakeFits(c, i, new, status, next) ==
    /\ i \in DOMAIN threads[c] /\ Go(c, i, new, status, next)
    /\ GoFits(memory[c], door[c], threads[c], i, new, status, next)

(* What is known of a door when one of its threads wakes. *)
LEMMA WakesKnown ==
    ASSUME DInv, NEW c \in Controllers, NEW i, NEW at, Wakes(c, i, at)
    PROVE  /\ i \in DOMAIN threads[c] /\ threads[c][i].at = at
           /\ memory[c] \in Status /\ door[c] \in Door /\ threads[c] \in Seq(Thread)
           /\ door[c].operating <=> \E k \in DOMAIN threads[c] : Moves(threads[c], k)
BY DEF Wakes, DInv, DoorInv, DoorKnown, MovesOnce

(* The sequences that threads leave behind. *)
LEMMA NextProps ==
    /\ << >> \in Seq(Waits) /\ Len(<< >>) = 0 /\ DOMAIN << >> = {}
    /\ \A w \in Waits : /\ <<w>> \in Seq(Waits) /\ Len(<<w>>) = 1
                         /\ DOMAIN <<w>> = {1} /\ <<w>>[1] = w
    /\ LET both == <<"locked", "late">>
       IN  /\ both \in Seq(Waits) /\ Len(both) = 2 /\ DOMAIN both = {1, 2}
           /\ both[1] = "locked" /\ both[2] = "late"
BY DEF Waits

(* execute_current_command() fits. *)
LEMMA ExecuteFits ==
    ASSUME DInv, NEW c \in Controllers, NEW i, Execute(c, i)
    PROVE  \E new, status, next : WakeFits(c, i, new, status, next)
<1> DEFINE d == door[c]
           m == memory[c]
           q == threads[c]
           u == Unlocked(d)
<1>1. /\ i \in DOMAIN q /\ q[i].at = "start"
      /\ m \in Status /\ d \in Door /\ q \in Seq(Thread)
      /\ d.operating <=> \E k \in DOMAIN q : Moves(q, k)
  BY WakesKnown DEF Execute
<1>2. ~ Moves(q, i) /\ q[i].at \notin Unsure /\ q[i].at \notin OpensAt
  BY <1>1 DEF Moves, Moving, Unsure, OpensAt
<1>3. d.operating \in BOOLEAN /\ d.cur_command \in Commands
  BY <1>1 DEF Door
<1>4. CASE d.operating \/ d.cur_command = "none"
  <2>1. Go(c, i, d, m, << >>)
    BY <1>4 DEF Execute, Silently
  <2>2. GoFits(m, d, q, i, d, m, << >>)
    BY <1>1, <1>2, NextProps DEF GoFits, GoMoves, GoReports, GoGently
  <2> QED
    BY <1>1, <2>1, <2>2 DEF WakeFits
<1>5. CASE ~ d.operating /\ d.cur_command = "lock"
  <2> DEFINE new == Done(Locked(d))
  <2>1. Go(c, i, new, StatusOf(new), << >>)
    BY <1>5 DEF Execute, Reporting
  <2>2. Alters(d, Locked(d), d.state, "locked", FALSE)
    BY <1>1, <1>5, LockProps
  <2>3. /\ new \in Door /\ new.state = d.state /\ new.lock = "locked"
        /\ ~ new.operating /\ new.cur_command \in {d.cur_command, "none"}
    BY <2>2, DoneProps DEF Alters
  <2> HIDE DEF new
  <2>4. GoFits(m, d, q, i, new, StatusOf(new), << >>)
    BY <1>1, <1>2, <1>5, <2>3, NextProps, StatusProps
       DEF GoFits, GoMoves, GoReports, GoGently, Shut
  <2> QED
    BY <1>1, <2>1, <2>4 DEF WakeFits
<1>6. CASE ~ d.operating /\ d.cur_command = "secure_open"
  <2>1. Go(c, i, u, m, <<"unlocked">>)
    BY <1>6 DEF Execute, Silently
  <2>2. GoFits(m, d, q, i, u, m, <<"unlocked">>)
    <3>1. "unlocked" \in Waits /\ "unlocked" \notin Moving /\ "unlocked" \in Unsure
      BY DEF Waits, Moving, Unsure
    <3>2. Alters(d, u, d.state, "unlocked", d.operating)
      BY <1>1, LockProps
    <3> QED
      BY <1>1, <1>2, <1>6, <3>1, <3>2, NextProps
         DEF GoFits, GoMoves, GoReports, GoGently, GentleAt, Alters
  <2> QED
    BY <1>1, <2>1, <2>2 DEF WakeFits
<1>7. CASE ~ d.operating /\ d.cur_command = "secure_close"
  <2>1. /\ u \in Door /\ u.state = d.state /\ u.lock = "unlocked" /\ ~ u.operating
        /\ u.cur_command = d.cur_command
    BY <1>1, <1>7, LockProps DEF Alters
  <2> HIDE DEF u
  <2>2. /\ Alters(d, Locked(u), d.state, "locked", FALSE)
        /\ StatusOf(u) \in Status /\ ~ Shut(StatusOf(u))
    BY <2>1, LockProps, StatusProps DEF Alters, Shut
  <2>3. "locked" \in Waits \ (Moving \cup OpensAt) /\ "locked" \in Unsure
    BY DEF Waits, Moving, Unsure, OpensAt
  <2>4. "late" \in Waits \ (Moving \cup OpensAt)
    BY DEF Waits, Moving, OpensAt
  <2>5. CASE c \in blocked
    <3>1. /\ Len(q) <= MaxThreads
          /\ Go(c, i, Locked(u), StatusOf(u), <<"locked", "late">>)
      BY <1>7, <2>5 DEF Execute, u
    <3>2. GoFits(m, d, q, i, Locked(u), StatusOf(u), <<"locked", "late">>)
      <4> DEFINE next == <<"locked", "late">>
      <4>1. /\ next \in Seq(Waits) /\ Len(next) = 2 /\ DOMAIN next = {1, 2}
            /\ next[1] = "locked" /\ next[2] = "late"
        BY NextProps
      <4> HIDE DEF next
      <4>2. GoFits(m, d, q, i, Locked(u), StatusOf(u), next)
        BY <1>1, <1>2, <1>7, <2>1, <2>2, <2>3, <2>4, <3>1, <4>1
           DEF GoFits, GoMoves, GoReports, GoGently, Shut, Alters
      <4> QED
        BY <4>2 DEF next
    <3> QED
      BY <1>1, <3>1, <3>2 DEF WakeFits
  <2>6. CASE c \notin blocked /\ d.state = "closed"
    <3>1. Go(c, i, Locked(u), StatusOf(u), <<"locked">>)
      BY <1>7, <2>6 DEF Execute, u
    <3>2. GoFits(m, d, q, i, Locked(u), StatusOf(u), <<"locked">>)
      BY <1>1, <1>2, <1>7, <2>1, <2>2, <2>3, <2>6, NextProps
         DEF GoFits, GoMoves, GoReports, GoGently, Shut, Alters
    <3> QED
      BY <1>1, <3>1, <3>2 DEF WakeFits
  <2>7. CASE c \notin blocked /\ d.state # "closed"
    <3>1. Go(c, i, Closing(u), m, <<"closing">>)
      BY <1>7, <2>7 DEF Execute, Silently, u
    <3>2. "closing" \in Waits \ OpensAt /\ "closing" \in Moving /\ "closing" \in Unsure
      BY DEF Waits, Moving, Unsure, OpensAt
    <3>3. Alters(d, Closing(u), "closed", "unlocked", TRUE)
      BY <2>1, MoveProps DEF Alters
    <3>4. GoFits(m, d, q, i, Closing(u), m, <<"closing">>)
      BY <1>1, <1>2, <1>7, <2>7, <3>2, <3>3, NextProps
         DEF GoFits, GoMoves, GoReports, GoGently, Shut, Alters
    <3> QED
      BY <1>1, <3>1, <3>4 DEF WakeFits
  <2> QED
    BY <2>5, <2>6, <2>7
<1> QED
  BY <1>3, <1>4, <1>5, <1>6, <1>7 DEF Commands

(* open() fits, which only a door that is not closing tries. *)
LEMMA OpenFits ==
    ASSUME DInv, NEW c \in Controllers, NEW i, Open(c, i)
    PROVE  \E new, status, next : WakeFits(c, i, new, status, next)
<1> DEFINE d == door[c]
           m == memory[c]
           q == threads[c]
<1>1. /\ i \in DOMAIN q /\ q[i].at = "unlocked"
      /\ m \in Status /\ d \in Door /\ q \in Seq(Thread)
      /\ d.operating <=> \E k \in DOMAIN q : Moves(q, k)
  BY WakesKnown DEF Open
<1>2. ~ Moves(q, i) /\ q[i].at \in OpensAt
  BY <1>1 DEF Moves, Moving, OpensAt
<1>3. CASE Stuck(d) \/ d.state = "open"
  <2> DEFINE new == Done(Locked(d))
  <2>1. Go(c, i, new, StatusOf(new), << >>)
    BY <1>3 DEF Open, Reporting
  <2>2. \E lock : Alters(d, Locked(d), d.state, lock, d.operating)
    BY <1>1, LockProps DEF Door
  <2>3. /\ new \in Door /\ new.operating = d.operating
        /\ new.cur_command \in {d.cur_command, "none"}
    BY <2>2, DoneProps DEF Alters
  <2> HIDE DEF new
  <2>4. GoFits(m, d, q, i, new, StatusOf(new), << >>)
    BY <1>1, <1>2, <2>3, NextProps, StatusProps
       DEF GoFits, GoMoves, GoReports, GoGently, GentleAt
  <2> QED
    BY <1>1, <2>1, <2>4 DEF WakeFits
<1>4. CASE ~ (Stuck(d) \/ d.state = "open")
  <2>1. Go(c, i, Opening(d), m, <<"opening">>)
    BY <1>4 DEF Open, Silently
  <2>2. ~ d.operating /\ Alters(d, Opening(d), d.state, d.lock, TRUE)
    BY <1>1, <1>4, MoveProps DEF Stuck
  <2>3. "opening" \in Waits /\ "opening" \in Moving /\ "opening" \in Unsure
    BY DEF Waits, Moving, Unsure
  <2>4. GoFits(m, d, q, i, Opening(d), m, <<"opening">>)
    BY <1>1, <1>2, <2>2, <2>3, NextProps
       DEF GoFits, GoMoves, GoReports, GoGently, GentleAt, Alters
  <2> QED
    BY <1>1, <2>1, <2>4 DEF WakeFits
<1> QED
  BY <1>3, <1>4

(* So does the end of open(). *)
LEMMA FinishOpeningFits ==
    ASSUME DInv, NEW c \in Controllers, NEW i, FinishOpening(c, i)
    PROVE  \E new, status, next : WakeFits(c, i, new, status, next)
<1> DEFINE d == door[c]
           m == memory[c]
           q == threads[c]
           new == Done(Locked(Opened(d)))
<1>1. /\ i \in DOMAIN q /\ q[i].at = "opening"
      /\ m \in Status /\ d \in Door /\ q \in Seq(Thread)
  BY WakesKnown DEF FinishOpening
<1>2. Moves(q, i) /\ q[i].at \in OpensAt
  BY <1>1 DEF Moves, Moving, OpensAt
<1>3. Go(c, i, new, StatusOf(new), << >>)
  BY DEF FinishOpening, Reporting
<1>4. Alters(d, Opened(d), "open", d.lock, FALSE)
  BY <1>1, MoveProps
<1>5. Alters(Opened(d), Locked(Opened(d)), "open", "locked", FALSE)
  BY <1>4, LockProps DEF Alters
<1>6. new \in Door /\ ~ new.operating /\ new.cur_command \in {d.cur_command, "none"}
  BY <1>4, <1>5, DoneProps DEF Alters
<1> HIDE DEF new
<1>7. GoFits(m, d, q, i, new, StatusOf(new), << >>)
  BY <1>1, <1>2, <1>6, NextProps, StatusProps
     DEF GoFits, GoMoves, GoReports, GoGently, GentleAt
<1> QED
  BY <1>1, <1>3, <1>7 DEF WakeFits

(* So does the end of close(). *)
LEMMA FinishClosingFits ==
    ASSUME DInv, NEW c \in Controllers, NEW i, FinishClosing(c, i)
    PROVE  \E new, status, next : WakeFits(c, i, new, status, next)
<1> DEFINE d == door[c]
           m == memory[c]
           q == threads[c]
           e == Closed(d)
<1>1. /\ i \in DOMAIN q /\ q[i].at = "closing"
      /\ m \in Status /\ d \in Door /\ q \in Seq(Thread)
  BY WakesKnown DEF FinishClosing
<1>2. Moves(q, i)
  BY <1>1 DEF Moves, Moving
<1>3. Go(c, i, Locked(e), StatusOf(e), <<"locked">>)
  BY DEF FinishClosing
<1>4. Alters(d, e, d.state, d.lock, FALSE)
  BY <1>1, MoveProps
<1> HIDE DEF e
<1>5. Alters(e, Locked(e), d.state, "locked", FALSE)
  BY <1>4, LockProps DEF Alters
<1>6. "locked" \in Waits \ (Moving \cup OpensAt) /\ "locked" \in Unsure
  BY DEF Waits, Moving, Unsure, OpensAt
<1>7. StatusOf(e) \in Status /\ (Shut(StatusOf(e)) <=> Shut(e))
  BY <1>4, StatusProps DEF Alters
<1>8. GoFits(m, d, q, i, Locked(e), StatusOf(e), <<"locked">>)
  BY <1>1, <1>2, <1>4, <1>5, <1>6, <1>7, NextProps
     DEF GoFits, GoMoves, GoReports, GoGently, Alters, Shut
<1> QED
  BY <1>1, <1>3, <1>8 DEF WakeFits, e

(* So does the end of secure_close, or of a lock. *)
LEMMA FinishLockingFits ==
    ASSUME DInv, NEW c \in Controllers, NEW i, FinishLocking(c, i)
    PROVE  \E new, status, next : WakeFits(c, i, new, status, next)
<1> DEFINE d == door[c]
           m == memory[c]
           q == threads[c]
           new == Done(d)
<1>1. /\ i \in DOMAIN q /\ q[i].at = "locked"
      /\ m \in Status /\ d \in Door /\ q \in Seq(Thread)
      /\ d.operating <=> \E k \in DOMAIN q : Moves(q, k)
  BY WakesKnown DEF FinishLocking
<1>2. ~ Moves(q, i)
  BY <1>1 DEF Moves, Moving
<1>3. Go(c, i, new, StatusOf(new), << >>)
  BY DEF FinishLocking, Reporting
<1>4. /\ new \in Door /\ new.state = d.state /\ new.lock = d.lock
      /\ new.operating = d.operating /\ new.cur_command \in {d.cur_command, "none"}
  BY <1>1, DoneProps
<1> HIDE DEF new
<1>5. StatusOf(new) \in Status /\ (Shut(StatusOf(new)) <=> Shut(new))
  BY <1>4, StatusProps
<1>6. GoFits(m, d, q, i, new, StatusOf(new), << >>)
  BY <1>1, <1>2, <1>4, <1>5, NextProps
     DEF GoFits, GoMoves, GoReports, GoGently, Shut
<1> QED
  BY <1>1, <1>3, <1>6 DEF WakeFits

(* So does the close() that is tried again. *)
LEMMA LateCloseFits ==
    ASSUME DInv, NEW c \in Controllers, NEW i, LateClose(c, i)
    PROVE  \E new, status, next : WakeFits(c, i, new, status, next)
<1> DEFINE d == door[c]
           m == memory[c]
           q == threads[c]
<1>1. /\ i \in DOMAIN q /\ q[i].at = "late"
      /\ m \in Status /\ d \in Door /\ q \in Seq(Thread)
      /\ d.operating <=> \E k \in DOMAIN q : Moves(q, k)
  BY WakesKnown DEF LateClose
<1>2. ~ Moves(q, i) /\ StatusOf(d) \in Status /\ (Shut(StatusOf(d)) <=> Shut(d))
  BY <1>1, StatusProps DEF Moves, Moving
<1>3. CASE Go(c, i, d, StatusOf(d), << >>)
  <2>1. GoFits(m, d, q, i, d, StatusOf(d), << >>)
    BY <1>1, <1>2, NextProps DEF GoFits, GoMoves, GoReports, GoGently
  <2> QED
    BY <1>1, <1>3, <2>1 DEF WakeFits
<1>4. CASE Go(c, i, d, StatusOf(d), <<"late">>)
  <2>1. "late" \in Waits \ (Moving \cup OpensAt)
    BY DEF Waits, Moving, OpensAt
  <2>2. GoFits(m, d, q, i, d, StatusOf(d), <<"late">>)
    BY <1>1, <1>2, <2>1, NextProps DEF GoFits, GoMoves, GoReports, GoGently
  <2> QED
    BY <1>1, <1>4, <2>2 DEF WakeFits
<1>5. CASE /\ ~ Stuck(d) /\ d.state # "closed"
           /\ Go(c, i, Closing(d), m, <<"late_closing">>)
  <2>1. "late_closing" \in Waits \ OpensAt /\ "late_closing" \in Moving \cap Unsure
    BY DEF Waits, Moving, Unsure, OpensAt
  <2>2. ~ d.operating /\ Alters(d, Closing(d), "closed", d.lock, TRUE)
    BY <1>1, <1>5, MoveProps DEF Stuck
  <2>3. GoFits(m, d, q, i, Closing(d), m, <<"late_closing">>)
    BY <1>1, <1>2, <1>5, <2>1, <2>2, NextProps
       DEF GoFits, GoMoves, GoReports, GoGently, Alters, Shut
  <2> QED
    BY <1>1, <1>5, <2>3 DEF WakeFits
<1> QED
  BY <1>3, <1>4, <1>5 DEF LateClose, Reporting, Silently

(* So does its end. *)
LEMMA FinishLateFits ==
    ASSUME DInv, NEW c \in Controllers, NEW i, FinishLateClosing(c, i)
    PROVE  \E new, status, next : WakeFits(c, i, new, status, next)
<1> DEFINE d == door[c]
           m == memory[c]
           q == threads[c]
           new == Closed(d)
<1>1. /\ i \in DOMAIN q /\ q[i].at = "late_closing"
      /\ m \in Status /\ d \in Door /\ q \in Seq(Thread)
  BY WakesKnown DEF FinishLateClosing
<1>2. Moves(q, i)
  BY <1>1 DEF Moves, Moving
<1>3. Go(c, i, new, StatusOf(new), << >>)
  BY DEF FinishLateClosing, Reporting
<1>4. Alters(d, new, d.state, d.lock, FALSE)
  BY <1>1, MoveProps
<1> HIDE DEF new
<1>5. StatusOf(new) \in Status /\ (Shut(StatusOf(new)) <=> Shut(new))
  BY <1>4, StatusProps DEF Alters
<1>6. GoFits(m, d, q, i, new, StatusOf(new), << >>)
  BY <1>1, <1>2, <1>4, <1>5, NextProps
     DEF GoFits, GoMoves, GoReports, GoGently, Alters, Shut
<1> QED
  BY <1>1, <1>3, <1>6 DEF WakeFits

(* So whatever wakes in a door fits, and leaves the programs alone.        *)
LEMMA WakesFit ==
    ASSUME DInv, NEW c \in Controllers, NEW i, Wake(c, i)
    PROVE  /\ \E new, status, next : WakeFits(c, i, new, status, next)
           /\ UNCHANGED <<prog, online, override, blocked, patient>>
<1>1. \E new, status, next : WakeFits(c, i, new, status, next)
  BY ExecuteFits, OpenFits, FinishOpeningFits, FinishClosingFits, FinishLockingFits,
     LateCloseFits, FinishLateFits DEF Wake
<1> QED
  BY <1>1 DEF WakeFits, Go

(* Other doors than c stay as they are. *)
OthersStay(c) ==
    /\ DOMAIN door' = Controllers /\ DOMAIN memory' = Controllers
    /\ DOMAIN threads' = Controllers
    /\ \A d \in Controllers \ {c} :
          door'[d] = door[d] /\ memory'[d] = memory[d] /\ threads'[d] = threads[d]

LEMMA GoResult ==
    ASSUME DInv, NEW c \in Controllers, NEW i, NEW new, NEW status, NEW next,
           Go(c, i, new, status, next)
    PROVE  /\ door'[c] = new /\ memory'[c] = status
           /\ threads'[c] = After(threads[c], i, next)
           /\ OthersStay(c)
BY Zenon DEF DInv, Go, After, OthersStay

LEMMA WakesInv ==
    ASSUME DInv, NEW c \in Controllers, NEW i, Wake(c, i)
    PROVE  DInv'
<1>1. PICK new, status, next : WakeFits(c, i, new, status, next)
  BY WakesFit
<1>2. /\ door'[c] = new /\ memory'[c] = status
      /\ threads'[c] = After(threads[c], i, next)
      /\ OthersStay(c)
  BY <1>1, GoResult DEF WakeFits
<1> DEFINE q == threads[c]
<1> HIDE DEF q
<1>3. /\ DoorInv(memory[c], door[c], q) /\ i \in DOMAIN q
      /\ GoFits(memory[c], door[c], q, i, new, status, next)
  BY <1>1 DEF DInv, WakeFits, q
<1>4. q \in Seq(Thread) /\ next \in Seq(Waits)
  BY <1>3 DEF DoorInv, DoorKnown, GoFits
<1>5. MovesOnce(new, After(q, i, next))
  BY <1>3, <1>4, AfterMoves DEF DoorInv, DoorKnown, GoFits
<1>6. status = StatusOf(new) \/ Reports(After(q, i, next))
  BY <1>3, <1>4, AfterReports DEF DoorInv, GoFits
<1>7. After(q, i, next) \in Seq(Thread) /\ Len(After(q, i, next)) <= MaxThreads + 1
  <2>1. /\ After(q, i, next) \in Seq(Thread)
        /\ Len(After(q, i, next)) = Len(q) - 1 + Len(next)
    BY <1>3, <1>4, AfterProps
  <2>2. /\ Len(q) \in Nat /\ Len(q) <= MaxThreads + 1 /\ Len(next) \in Nat
        /\ Len(next) <= 1 \/ (Len(next) = 2 /\ Len(q) <= MaxThreads)
    BY <1>3, <1>4 DEF DoorInv, GoFits
  <2>3. MaxThreads \in Nat
    BY ThreadsAssumption
  <2>4. \A a, b, n \in Nat : a <= n + 1 /\ (b <= 1 \/ (b = 2 /\ a <= n)) => a - 1 + b <= n + 1
    OBVIOUS
  <2>5. Len(q) - 1 + Len(next) <= MaxThreads + 1
    BY <2>2, <2>3, <2>4, Zenon
  <2> QED
    BY <2>1, <2>5
<1>8. DoorInv(status, new, After(q, i, next))
  BY <1>3, <1>5, <1>6, <1>7 DEF DoorInv, DoorKnown, GoFits
<1> QED
  BY <1>2, <1>8 DEF DInv, OthersStay, q

(* A door that is told something has one more thread. *)
LEMMA ToldInv ==
    ASSUME NEW m, NEW d, NEW q, DoorInv(m, d, q), Len(q) < MaxThreads,
           NEW t \in Thread, t.at = "start",
           NEW e \in Door, e.state = d.state, e.lock = d.lock, e.operating = d.operating
    PROVE  DoorInv(m, e, Append(q, t))
<1> PICK Q : Q = Append(q, t)
  OBVIOUS
<1>1. q \in Seq(Thread) /\ m \in Status /\ d \in Door
  BY DEF DoorInv, DoorKnown
<1>2. /\ Q \in Seq(Thread) /\ Len(Q) = Len(q) + 1 /\ Len(q) \in Nat
      /\ \A k \in DOMAIN q : k \in DOMAIN Q /\ Q[k] = q[k]
      /\ \A k \in DOMAIN Q : k \in DOMAIN q \/ Q[k] = t
  BY <1>1
<1>3. Len(Q) <= MaxThreads + 1
  BY <1>2, ThreadsAssumption
<1>4. /\ \A k \in DOMAIN Q : Moves(Q, k) => k \in DOMAIN q /\ Moves(q, k)
      /\ \A k \in DOMAIN q : Moves(q, k) => k \in DOMAIN Q /\ Moves(Q, k)
  BY <1>2 DEF Moves, Moving
<1>5. MovesOnce(e, Q)
  BY <1>4 DEF DoorInv, MovesOnce
<1>6. m = StatusOf(e) \/ Reports(Q)
  BY <1>2, StatusProps DEF DoorInv, DoorKnown, Reports
<1> QED
  BY <1>1, <1>2, <1>3, <1>5, <1>6 DEF DoorInv, DoorKnown

(* What signals to the doors do. *)
Told(d, command) == [d EXCEPT !.cur_command = command]

LEMMA ToldProps ==
    ASSUME NEW d \in Door, NEW command \in Commands
    PROVE  /\ Told(d, command) \in Door /\ Told(d, command).state = d.state
           /\ Told(d, command).lock = d.lock /\ Told(d, command).operating = d.operating
           /\ Told(d, command).cur_command = command
BY DEF Told, Door

LEMMA SignalResult ==
    ASSUME DInv, NEW command, Signal(command)
    PROVE  /\ DOMAIN door' = Controllers /\ DOMAIN threads' = Controllers
           /\ \A c \in Controllers :
                 \/ /\ command[c] = "none"
                    /\ door'[c] = door[c] /\ threads'[c] = threads[c]
                 \/ /\ command[c] # "none" /\ Len(threads[c]) < MaxThreads
                    /\ door'[c] = Told(door[c], command[c])
                    /\ threads'[c] = Append(threads[c], Start)
BY Zenon DEF Signal, Told

LEMMA SignalInv ==
    ASSUME DInv, NEW command, \A c \in Controllers : command[c] \in Commands,
           Signal(command), memory' = memory
    PROVE  DInv'
<1>1. Start \in Thread /\ Start.at = "start"
  BY DEF Start, Thread, Waits
<1>2. ASSUME NEW c \in Controllers
      PROVE  DoorInv(memory[c], door'[c], threads'[c])
  <2>1. DoorInv(memory[c], door[c], threads[c]) /\ door[c] \in Door /\ command[c] \in Commands
    BY DEF DInv, DoorInv, DoorKnown
  <2>2. CASE door'[c] = door[c] /\ threads'[c] = threads[c]
    BY <2>1, <2>2
  <2>3. CASE /\ Len(threads[c]) < MaxThreads
             /\ door'[c] = Told(door[c], command[c])
             /\ threads'[c] = Append(threads[c], Start)
    BY <1>1, <2>1, <2>3, ToldProps, ToldInv
  <2> QED
    BY <2>2, <2>3, SignalResult
<1> QED
  BY <1>2, SignalResult DEF DInv

(* What open_door() and close_door() may send. *)
LEMMA CommandTypes ==
    ASSUME NEW c \in Controllers
    PROVE  /\ PortCommand(c) \in Commands
           /\ OpenDoor(memory[c]) \in Commands /\ CloseDoor(memory[c]) \in Commands
BY DEF PortCommand, OpenDoor, CloseDoor, Lock, Commands

(* The programs' steps keep the invariant of the doors. *)
LEMMA PortsInv ==
    ASSUME DInv, SignalPorts
    PROVE  DInv'
<1> DEFINE command == [c \in Controllers |-> PortCommand(c)]
<1>1. Signal(command) /\ memory' = memory
  BY DEF SignalPorts
<1>2. \A c \in Controllers : command[c] \in Commands
  BY CommandTypes
<1> HIDE DEF command
<1> QED
  BY <1>1, <1>2, SignalInv

(* So does the override. *)
LEMMA ForceInv ==
    ASSUME DInv, NEW c \in Controllers, ForceDoor(c)
    PROVE  DInv'
<1> DEFINE command == [d \in Controllers |->
                         IF d # c THEN "none"
                         ELSE IF memory[c].state = "open" THEN CloseDoor(memory[c])
                         ELSE OpenDoor(memory[c])]
<1>1. Signal(command) /\ memory' = memory
  BY DEF ForceDoor
<1>2. \A d \in Controllers : command[d] \in Commands
  BY CommandTypes DEF Commands
<1> HIDE DEF command
<1> QED
  BY <1>1, <1>2, SignalInv

(* So does process() of a door. *)
LEMMA PollInv ==
    ASSUME DInv, NEW c \in Controllers, PollDoor(c)
    PROVE  DInv'
<1> DEFINE t == [at |-> "start", polling |-> TRUE]
<1>1. t \in Thread /\ t.at = "start"
  BY DEF Thread, Waits
<1>2. /\ Len(threads[c]) < MaxThreads /\ memory' = memory /\ door' = door
      /\ threads' = [threads EXCEPT ![c] = Append(@, t)]
  BY DEF PollDoor
<1> HIDE DEF t
<1>3. DoorInv(memory[c], door[c], Append(threads[c], t))
  BY <1>1, <1>2, ToldInv DEF DInv, DoorInv, DoorKnown
<1> QED
  BY <1>2, <1>3 DEF DInv

(* Every step keeps the invariant of the doors. *)
LEMMA StepDoors ==
    ASSUME DInv, [Next]_vars
    PROVE  DInv'
<1>1. CASE UNCHANGED <<memory, door, threads>>
  BY <1>1 DEF DInv
<1>2. Doors => DInv'
  BY <1>1, WakesInv, PollInv DEF Doors, Block, Unblock
<1>3. CASE SignalPorts
  BY <1>3, PortsInv
<1> QED
  BY <1>1, <1>2, <1>3, ForceInv
     DEF Next, Orderly, InitiateDocking, InitiateUndocking, ForceUndock, Process,
         ToggleOverride, vars

LEMMA InitDoors == Init => DInv
<1> SUFFICES ASSUME Init PROVE DInv
  OBVIOUS
<1>1. /\ DOMAIN memory = Controllers /\ DOMAIN door = Controllers
      /\ DOMAIN threads = Controllers
  BY DEF Init
<1>2. ASSUME NEW c \in Controllers
      PROVE  DoorInv(memory[c], door[c], threads[c])
  <2>1. /\ memory[c].state = "closed" /\ memory[c].lock \in {"locked", "unlocked"}
        /\ memory[c] = [state |-> "closed", lock |-> memory[c].lock]
        /\ door[c] = [state |-> "closed", lock |-> memory[c].lock, operating |-> FALSE,
                      cur_command |-> "none"]
        /\ threads[c] = << >>
    BY DEF Init
  <2>2. memory[c] \in Status /\ door[c] \in Door /\ memory[c] = StatusOf(door[c])
    BY <2>1 DEF Status, Door, Commands, StatusOf
  <2>3. << >> \in Seq(Thread) /\ Len(<< >>) = 0 /\ DOMAIN << >> = {}
    OBVIOUS
  <2> QED
    BY <2>1, <2>2, <2>3, ThreadsAssumption DEF DoorInv, DoorKnown, MovesOnce
<1> QED
  BY <1>1, <1>2 DEF DInv

LEMMA DoorsKnown == Spec => []DInv
BY InitDoors, StepDoors, PTL DEF Spec

(* However threads and commands interleave, a door moves only while one    *)
(* thread moves it, and its operating flag is up exactly then.             *)
THEOREM OneMoverHolds == Spec => []OneMover
<1>1. DInv => OneMover
  BY DEF DInv, DoorInv, MovesOnce, Moves, Moving, OneMover
<1> QED
  BY <1>1, DoorsKnown, PTL

(* When no thread of a door is left, its program remembers the door        *)
(* rightly.                                                                *)
THEOREM MemoryRightHolds == Spec => []MemoryRight
<1>1. DInv => MemoryRight
  BY DEF DInv, DoorInv, Reports, MemoryRight
<1> QED
  BY <1>1, DoorsKnown, PTL

-----------------------------------------------------------------------------
(* The ports' programs are docking programs, and what is proved of those   *)
(* holds of them.                                                          *)

(* The two instances of DockingProgram have the same steps.                *)
LEMMA SameRequest ==
    ASSUME NEW c, NEW t, Docking!InitiateDocking(c, t)
    PROVE  DP!InitiateDocking(c, t)
<1>1. ASSUME NEW S, NEW to, NEW from
      PROVE  Docking!DeliverRequest(S, to, from) = DP!DeliverRequest(S, to, from)
  BY DEF Docking!DeliverRequest, DP!DeliverRequest, Docking!Deliver, DP!Deliver,
         Docking!Hears, DP!Hears, Docking!Accepts, DP!Accepts, Docking!Accept,
         DP!Accept, Docking!Is, DP!Is, Docking!OnConfirmDock, DP!OnConfirmDock
<1> QED
  BY <1>1 DEF Docking!InitiateDocking, DP!InitiateDocking

(* The two instances of DockingProgram have the same steps.                *)
LEMMA SameUndock ==
    ASSUME NEW c
    PROVE  /\ Docking!InitiateUndocking(c) => DP!InitiateUndocking(c)
           /\ Docking!ForceUndock(c) => DP!ForceUndock(c)
BY DEF Docking!InitiateUndocking, DP!InitiateUndocking, Docking!ForceUndock,
       DP!ForceUndock, Docking!Deliver, DP!Deliver, Docking!Hears, DP!Hears,
       Docking!Is, DP!Is, Docking!Reset, DP!Reset, Docking!OnDockError,
       DP!OnDockError, Docking!OnRequestUndock, DP!OnRequestUndock

(* The two instances of DockingProgram have the same steps.                *)
LEMMA SameProcess ==
    ASSUME NEW c, NEW ready, Docking!Process(c, ready)
    PROVE  DP!Process(c, ready)
<1>1. \A S : Docking!Repair(S, c) = DP!Repair(S, c)
  BY Zenon DEF Docking!Repair, DP!Repair, Docking!Deliver, DP!Deliver, Docking!Hears,
               DP!Hears, Docking!Is, DP!Is, Docking!Reset, DP!Reset,
               Docking!OnDockError, DP!OnDockError
<1>2. \A S : Docking!Step(S, c, ready) = DP!Step(S, c, ready)
  BY Zenon DEF Docking!Step, DP!Step, Docking!Deliver, DP!Deliver, Docking!Hears,
               DP!Hears, Docking!Is, DP!Is, Docking!Reset, DP!Reset,
               Docking!OnConfirmDock, DP!OnConfirmDock, Docking!OnConfirmUndock,
               DP!OnConfirmUndock, Docking!Report, DP!Report, Docking!FinishDocking,
               DP!FinishDocking, Docking!FinishUndocking, DP!FinishUndocking,
               Docking!Docked, DP!Docked, Docking!Reported, DP!Reported
<1>3. \A p : Docking!Resend(p) = DP!Resend(p)
  BY Zenon DEF Docking!Resend, DP!Resend
<1> QED
  BY <1>1, <1>2, <1>3 DEF Docking!Process, DP!Process

(* Every step of the ports is a step of their docking programs, or leaves  *)
(* them alone; one in good order is a step in good order.                  *)
LEMMA StepDocks ==
    /\ Init => DP!Init
    /\ DInv /\ [Orderly]_vars => [DP!Orderly]_(DP!vars)
    /\ DInv /\ [Next]_vars => [DP!Abrupt]_(DP!vars)
<1>1. Init => DP!Init
  BY DEF Init, Docking!Init, DP!Init, Docking!NewProgram, DP!NewProgram
<1>2. DInv /\ Doors => UNCHANGED DP!vars
  BY WakesFit DEF Doors, PollDoor, Block, Unblock, DP!vars
<1>3. ASSUME NEW c \in Controllers, Process(c)
      PROVE  \E ready \in BOOLEAN : DP!Process(c, ready)
  <2> DEFINE ready == prog[c].dock_state = "docking" \/ Shut(memory[c])
  <2>1. ready \in BOOLEAN /\ DP!Process(c, ready)
    BY <1>3, SameProcess DEF Process, Shut
  <2> QED
    BY <2>1
<1>4. Docking!Shuttles = DP!Shuttles
  BY DEF Docking!Shuttles, DP!Shuttles
<1>5. DInv /\ Orderly => DP!Orderly \/ UNCHANGED DP!vars
  BY <1>2, <1>3, <1>4, SameRequest, SameUndock
     DEF Orderly, DP!Orderly, InitiateDocking, InitiateUndocking
<1>6. DInv /\ Next => DP!Abrupt \/ UNCHANGED DP!vars
  BY <1>4, <1>5, SameUndock
     DEF Next, DP!Abrupt, ForceUndock, ToggleOverride, ForceDoor, DP!vars
<1> QED
  BY <1>1, <1>5, <1>6 DEF vars, DP!vars

(* Ports with a door dock like any other, as long as no machine is lost.   *)
LEMMA PortsDock == Spec => DP!AbruptSpec
BY StepDocks, DoorsKnown, PTL DEF Spec, DP!AbruptSpec

(* So what is proved of the docking programs holds of them.                *)
LEMMA ProgramsKnown == Spec => []DP!IInv
<1>1. DP!AbruptSpec => DP!Spec
  <2>1. [DP!Abrupt]_(DP!vars) => [DP!Next]_(DP!vars)
    BY DEF DP!Next
  <2> QED
    BY <2>1, PTL DEF DP!AbruptSpec, DP!Spec
<1>2. DP!Spec => []DP!IInv
  BY DP!Invariant, DockingAssumption DEF DP!Invariant
<1> QED
  BY <1>1, <1>2, PortsDock, PTL

(* Every variable holds values of its kind. *)
THEOREM PortTypes == Spec => []TypeOK
<1> DEFINE SetsKnown == /\ override \subseteq Controllers /\ blocked \subseteq Controllers
                        /\ patient \subseteq Controllers
                        /\ memory \in [Controllers -> Status]
                        /\ door \in [Controllers -> Door]
<1>1. Init => SetsKnown
  BY DEF Init, Status, Door, Commands
<1>2. SetsKnown /\ DInv /\ DInv' /\ [Next]_vars => SetsKnown'
  <2> SUFFICES ASSUME SetsKnown, DInv, DInv', [Next]_vars PROVE SetsKnown'
    OBVIOUS
  <2>1. \A c \in Controllers : door'[c] \in Door
    BY DEF DInv, DoorInv, DoorKnown
  <2>2. ASSUME NEW command, Signal(command) PROVE door' \in [Controllers -> Door]
    BY <2>1, <2>2, Zenon DEF Signal
  <2>3. ASSUME NEW c \in Controllers, NEW i, Wake(c, i)
        PROVE  /\ memory' \in [Controllers -> Status] /\ door' \in [Controllers -> Door]
               /\ UNCHANGED <<override, blocked, patient>>
    <3>1. PICK new, status, next : WakeFits(c, i, new, status, next)
      BY <2>3, WakesFit
    <3> QED
      BY <3>1 DEF WakeFits, GoFits, Go
  <2>4. CASE Doors
    BY <2>3, <2>4 DEF Doors, PollDoor, Block, Unblock
  <2>5. CASE SignalPorts
    BY <2>2, <2>5 DEF SignalPorts
  <2>6. ASSUME NEW c \in Controllers, ToggleOverride(c) \/ ForceDoor(c)
        PROVE  SetsKnown'
    BY <2>2, <2>6 DEF ToggleOverride, ForceDoor
  <2> QED
    BY <2>4, <2>5, <2>6
       DEF Next, Orderly, InitiateDocking, InitiateUndocking, ForceUndock, Process, vars
<1>3. SetsKnown /\ DInv /\ DP!IInv => TypeOK
  <2> SUFFICES ASSUME SetsKnown, DInv, DP!IInv PROVE TypeOK
    OBVIOUS
  <2>1. Docking!TypeOK
    BY DEF DP!IInv, DP!TypeOK, Docking!TypeOK, DP!Program, Docking!Program,
           DP!DockStates, Docking!DockStates, DP!Modes, Docking!Modes
  <2>2. \A c \in Controllers : /\ Len(threads[c]) <= MaxThreads + 1
                              /\ \A i \in DOMAIN threads[c] : threads[c][i] \in Thread
    BY DEF DInv, DoorInv, DoorKnown
  <2> QED
    BY <2>1, <2>2 DEF TypeOK
<1> QED
  BY <1>1, <1>2, <1>3, DoorsKnown, ProgramsKnown, PTL DEF Spec

-----------------------------------------------------------------------------
(* Undocking in good order.  While a program that began to undock with the *)
(* doors at rest is at it nothing opens its door; what the program takes   *)
(* for shut is shut; and so is the door of a client whose server has its   *)
(* confirmation.                                                           *)

Leaving(c) ==
    /\ prog[c].dock_state = "undocking"
    /\ door[c].cur_command # "secure_open"
    /\ \A i \in DOMAIN threads[c] : threads[c][i].at \notin OpensAt
    /\ Shut(memory[c]) => Shut(door[c])
    /\ \A s \in Controllers : DP!Holds(s, c) => Shut(door[c])

OInv ==
    /\ DInv /\ DP!IInv
    /\ online = Controllers /\ override = {}
    /\ patient \subseteq Controllers
    /\ \A c \in patient : Leaving(c)

(* What the programs do in good order: states follow each other, and an    *)
(* undocking end confirms, or is done, when it takes its door for shut or  *)
(* its server has its confirmation.                                        *)
InGoodOrder(m) ==
    /\ prog'[m].dock_state = "undocking" /\ prog[m].dock_state # "undocking" =>
          prog[m].dock_state = "docked"
    /\ prog[m].dock_state = "undocking" /\ prog'[m].dock_state = "undocked" =>
          Shut(memory[m]) \/ \E s \in Controllers : DP!Holds(s, m)
    /\ \A s \in Controllers : DP!Holds(s, m)' /\ prog'[m].dock_state = "undocking" =>
          /\ prog[m].dock_state = "undocking"
          /\ Shut(memory[m]) \/ DP!Holds(s, m)

(* A step that changes the states in order and completes nothing.          *)
LEMMA StartsInOrder ==
    ASSUME online = Controllers,
           \A m \in Controllers : DP!InOrder(m) /\ ~ DP!Completes(m),
           \A s, d \in online : DP!Holds(s, d)' => DP!StillHolds(s, d),
           NEW m \in Controllers
    PROVE  InGoodOrder(m)
BY DEF InGoodOrder, DP!InOrder, DP!Follows, DP!Completes, DP!StillHolds, DP!Changed

(* The programs' steps in good order are. *)
LEMMA ProgramsInOrder ==
    ASSUME OInv,
           \/ \E r \in Routes : InitiateDocking(r[1], r[2])
           \/ \E c \in Docking!Shuttles : InitiateUndocking(c)
           \/ \E c \in Controllers : Process(c),
           NEW m \in Controllers
    PROVE  InGoodOrder(m)
<1>1. DP!IInv /\ online = Controllers
  BY DEF OInv
<1>2. ASSUME NEW r \in Routes, InitiateDocking(r[1], r[2])
      PROVE  InGoodOrder(m)
  <2>1. r[1] \in Controllers /\ r[2] \in Controllers
    BY DockingAssumption
  <2>2. DP!InitiateDocking(r[1], r[2])
    BY <1>2, SameRequest DEF InitiateDocking
  <2>3. /\ \A n \in Controllers : DP!InOrder(n) /\ ~ DP!Completes(n)
        /\ \A s, d \in online : DP!Holds(s, d)' => DP!StillHolds(s, d)
    BY <1>1, <2>1, <2>2, DP!InitiateOrder, DockingAssumption DEF DP!InitiateOrder
  <2> QED
    BY <1>1, <2>3, StartsInOrder
<1>3. ASSUME NEW c \in Docking!Shuttles, InitiateUndocking(c)
      PROVE  InGoodOrder(m)
  <2>1. c \in Controllers
    BY DockingAssumption DEF Docking!Shuttles
  <2>2. DP!InitiateUndocking(c)
    BY <1>3, SameUndock DEF InitiateUndocking
  <2>3. /\ \A n \in Controllers : DP!InOrder(n) /\ ~ DP!Completes(n)
        /\ \A s, d \in online : DP!Holds(s, d)' => DP!StillHolds(s, d)
    BY <1>1, <2>1, <2>2, DP!UndockOrder, DockingAssumption DEF DP!UndockOrder
  <2> QED
    BY <1>1, <2>3, StartsInOrder
<1>4. ASSUME NEW c \in Controllers, Process(c)
      PROVE  InGoodOrder(m)
  <2> DEFINE ready == prog[c].dock_state = "docking" \/ Shut(memory[c])
  <2>1. ready \in BOOLEAN /\ DP!Process(c, ready)
    BY <1>4, SameProcess DEF Process, Shut
  <2>2. prog[c].dock_state = "undocking" /\ ready => Shut(memory[c])
    OBVIOUS
  <2> HIDE DEF ready
  <2>3. /\ \A n \in Controllers : DP!InOrder(n)
        /\ \A n \in online : DP!Completes(n) =>
              \/ n = c /\ ready
              \/ DP!Holds(c, n) /\ c \in online
        /\ \A s, d \in online : DP!Holds(s, d)' =>
              \/ DP!StillHolds(s, d)
              \/ d = c /\ ready /\ DP!Bound(prog[c]) /\ ~ DP!Changed(d)
    BY <1>1, <2>1, DP!ProcessOrder, DockingAssumption DEF DP!ProcessOrder
  <2>4. prog'[m].dock_state = "undocking" /\ prog[m].dock_state # "undocking" =>
           prog[m].dock_state = "docked"
    BY <2>3 DEF DP!InOrder, DP!Follows
  <2>5. prog[m].dock_state = "undocking" /\ prog'[m].dock_state = "undocked" =>
           Shut(memory[m]) \/ \E s \in Controllers : DP!Holds(s, m)
    BY <1>1, <2>2, <2>3 DEF DP!Completes
  <2>6. ASSUME NEW s \in Controllers, DP!Holds(s, m)', prog'[m].dock_state = "undocking"
        PROVE  /\ prog[m].dock_state = "undocking"
               /\ Shut(memory[m]) \/ DP!Holds(s, m)
    BY <1>1, <2>2, <2>3, <2>6 DEF DP!StillHolds, DP!Changed
  <2> QED
    BY <2>4, <2>5, <2>6 DEF InGoodOrder
<1> QED
  BY <1>2, <1>3, <1>4

(* What the program tells its door when it begins to undock, and that it   *)
(* tells it nothing more until it is done.                                 *)
LEMMA UndockCommands ==
    ASSUME override = {}, NEW c \in Controllers, prog'[c].dock_state = "undocking"
    PROVE  /\ prog[c].dock_state = "undocking" => PortCommand(c) = "none"
           /\ PortCommand(c) # "secure_open"
BY DEF PortCommand, CloseDoor, Lock

(* The programs' steps keep the invariant. *)
LEMMA PortsLeave ==
    ASSUME OInv, SignalPorts, \A c \in Controllers : InGoodOrder(c),
           NEW c \in patient'
    PROVE  Leaving(c)'
<1>1. DInv /\ override = {}
  BY DEF OInv
<1>2. /\ c \in Controllers /\ prog'[c].dock_state = "undocking"
      /\ \/ prog[c].dock_state = "undocking" /\ c \in patient
         \/ prog[c].dock_state # "undocking" /\ \A d \in Controllers : AtRest(d)
  BY DEF SignalPorts
<1>3. /\ memory' = memory
      /\ \/ door'[c] = door[c] /\ threads'[c] = threads[c]
         \/ /\ PortCommand(c) # "none"
            /\ door'[c] = Told(door[c], PortCommand(c))
            /\ threads'[c] = Append(threads[c], Start)
  <2> DEFINE command == [d \in Controllers |-> PortCommand(d)]
  <2>1. Signal(command) /\ memory' = memory
    BY DEF SignalPorts
  <2>2. command[c] = PortCommand(c)
    BY <1>2
  <2> HIDE DEF command
  <2> QED
    BY <1>1, <1>2, <2>1, <2>2, SignalResult
<1>4. DoorInv(memory[c], door[c], threads[c]) /\ door[c] \in Door
  BY <1>1, <1>2 DEF DInv, DoorInv, DoorKnown
<1>5. CASE prog[c].dock_state = "undocking" /\ c \in patient
  <2>1. Leaving(c) /\ door'[c] = door[c] /\ threads'[c] = threads[c]
    BY <1>1, <1>2, <1>3, <1>5, UndockCommands DEF OInv
  <2>2. ASSUME NEW s \in Controllers, DP!Holds(s, c)' PROVE Shut(door[c])
    BY <1>2, <2>1, <2>2 DEF InGoodOrder, Leaving
  <2> QED
    BY <1>2, <1>3, <2>1, <2>2 DEF Leaving
<1>6. CASE prog[c].dock_state # "undocking" /\ \A d \in Controllers : AtRest(d)
  <2>1. threads[c] = << >> /\ door[c].cur_command = "none"
    BY <1>2, <1>6 DEF AtRest
  <2>2. memory[c] = StatusOf(door[c])
    BY <1>4, <2>1 DEF DoorInv, Reports
  <2>3. /\ door'[c].cur_command # "secure_open"
        /\ Shut(memory[c]) => Shut(door'[c])
    <3>1. PortCommand(c) \in Commands /\ PortCommand(c) # "secure_open"
      BY <1>1, <1>2, UndockCommands, CommandTypes
    <3>2. Shut(memory[c]) => Shut(door[c])
      BY <1>4, <2>2, StatusProps
    <3> QED
      BY <1>3, <1>4, <2>1, <3>1, <3>2, ToldProps DEF Shut
  <2>4. \A i \in DOMAIN threads'[c] : threads'[c][i].at \notin OpensAt
    BY <1>3, <2>1 DEF Start, OpensAt
  <2>5. \A s \in Controllers : ~ DP!Holds(s, c)'
    BY <1>2, <1>6 DEF InGoodOrder
  <2> QED
    BY <1>2, <1>3, <2>3, <2>4, <2>5 DEF Leaving
<1> QED
  BY <1>2, <1>5, <1>6

(* So do the doors'. *)
LEMMA DoorsLeave ==
    ASSUME OInv, NEW c \in Controllers, NEW i, Wake(c, i), NEW d \in patient
    PROVE  Leaving(d)'
<1>1. DInv /\ Leaving(d) /\ d \in Controllers
  BY DEF OInv
<1>2. PICK new, status, next : WakeFits(c, i, new, status, next)
  BY <1>1, WakesFit
<1>3. prog' = prog
  BY <1>1, WakesFit
<1>4. /\ door'[c] = new /\ memory'[c] = status
      /\ threads'[c] = After(threads[c], i, next)
      /\ OthersStay(c)
  BY <1>1, <1>2, GoResult DEF WakeFits
<1>5. \A s : DP!Holds(s, d)' <=> DP!Holds(s, d)
  BY <1>3 DEF DP!Holds
<1>6. CASE d # c
  <2>1. door'[d] = door[d] /\ memory'[d] = memory[d] /\ threads'[d] = threads[d]
    BY <1>1, <1>4, <1>6 DEF OthersStay
  <2> QED
    BY <1>1, <1>3, <1>5, <2>1 DEF Leaving
<1>7. CASE d = c
  <2> PICK q : q = threads[c]
    OBVIOUS
  <2>1. /\ i \in DOMAIN q /\ next \in Seq(Waits) /\ q \in Seq(Thread)
        /\ GoGently(memory[c], door[c], q, i, new, status, next)
    BY <1>1, <1>2, <1>7 DEF WakeFits, GoFits, DInv, DoorInv, DoorKnown
  <2>2. GentleAt(door[c], q, i)
    BY <1>1, <1>7, <2>1 DEF GentleAt, Leaving
  <2>3. /\ new.cur_command # "secure_open"
        /\ Shut(door[c]) => Shut(new)
        /\ Shut(status) => Shut(new)
        /\ \A n \in DOMAIN next : next[n] \notin OpensAt
    BY <1>1, <1>7, <2>1, <2>2 DEF GoGently, Leaving
  <2>4. ASSUME NEW Q, Q = After(q, i, next), NEW k \in DOMAIN Q
        PROVE  Q[k].at \notin OpensAt
    <3>1. \/ Older(i, k) \in DOMAIN q /\ Q[k] = q[Older(i, k)]
          \/ \E n \in DOMAIN next : Q[k].at = next[n]
      BY <2>1, <2>4, AfterOrigin
    <3> QED
      BY <1>1, <1>7, <2>3, <3>1 DEF Leaving
  <2> QED
    BY <1>1, <1>3, <1>4, <1>5, <1>7, <2>3, <2>4 DEF Leaving
<1> QED
  BY <1>6, <1>7

(* So does process() of a door. *)
LEMMA PollLeaves ==
    ASSUME OInv, NEW c \in Controllers, PollDoor(c), NEW d \in patient
    PROVE  Leaving(d)'
<1> DEFINE t == [at |-> "start", polling |-> TRUE]
<1>1. DInv /\ Leaving(d) /\ d \in Controllers
  BY DEF OInv
<1>2. /\ prog' = prog /\ memory' = memory /\ door' = door
      /\ threads'[d] = IF d = c THEN Append(threads[d], t) ELSE threads[d]
  BY <1>1 DEF PollDoor, DInv
<1>3. t.at \notin OpensAt
  BY DEF OpensAt
<1>4. threads[d] \in Seq(Thread)
  BY <1>1 DEF DInv, DoorInv, DoorKnown
<1> HIDE DEF t
<1>5. ASSUME NEW q \in Seq(Thread), NEW i \in DOMAIN Append(q, t)
      PROVE  (i \in DOMAIN q /\ Append(q, t)[i] = q[i]) \/ Append(q, t)[i] = t
  OBVIOUS
<1>6. \A i \in DOMAIN threads'[d] : threads'[d][i].at \notin OpensAt
  BY <1>1, <1>2, <1>3, <1>4, <1>5 DEF Leaving
<1> QED
  BY <1>1, <1>2, <1>6 DEF Leaving, DP!Holds

(* Every step in good order keeps the invariant. *)
LEMMA StepLeaves ==
    ASSUME OInv, DP!IInv', [Orderly]_vars
    PROVE  OInv'
<1>1. DInv /\ DP!IInv /\ online = Controllers /\ override = {}
  BY DEF OInv
<1>2. DInv'
  BY <1>1, StepDoors DEF Next
<1>3. CASE UNCHANGED <<prog, online, override, memory, door, threads, patient>>
  <2>1. ASSUME NEW c \in patient PROVE Leaving(c)'
    BY <1>3 DEF OInv, Leaving, DP!Holds
  <2> QED
    BY <1>2, <1>3, <2>1 DEF OInv
<1>4. CASE Doors
  <2>1. UNCHANGED <<prog, online, override, patient>>
    BY <1>1, <1>4, WakesFit DEF Doors, PollDoor, Block, Unblock
  <2>2. ASSUME NEW c \in Controllers, Block(c) \/ Unblock(c) PROVE OInv'
    BY <1>3, <2>2 DEF Block, Unblock
  <2>3. ASSUME NEW c \in Controllers, PollDoor(c) \/ \E i : Wake(c, i),
               NEW d \in patient
        PROVE  Leaving(d)'
    BY <2>3, DoorsLeave, PollLeaves
  <2> QED
    BY <1>1, <1>2, <1>4, <2>1, <2>2, <2>3 DEF Doors, OInv
<1>5. CASE \/ \E r \in Routes : InitiateDocking(r[1], r[2])
           \/ \E c \in Docking!Shuttles : InitiateUndocking(c)
           \/ \E c \in Controllers : Process(c)
  <2>1. SignalPorts /\ online' = online
    BY <1>5 DEF InitiateDocking, InitiateUndocking, Process, Docking!InitiateDocking,
                Docking!InitiateUndocking, Docking!Process
  <2>2. \A c \in patient' : Leaving(c)'
    BY <1>5, <2>1, ProgramsInOrder, PortsLeave
  <2>3. override' = override /\ patient' \subseteq Controllers
    BY <2>1 DEF SignalPorts
  <2> QED
    BY <1>1, <1>2, <2>1, <2>2, <2>3 DEF OInv
<1> QED
  BY <1>3, <1>4, <1>5 DEF Orderly, vars

(* An undocking that began with the doors at rest is complete only when    *)
(* the doors at both ends are closed and locked.                           *)
THEOREM UndocksShutHolds == FairSpec => UndocksShut
<1>1. FairSpec => []DP!IInv
  <2>1. [Orderly]_vars => [Next]_vars
    BY DEF Next
  <2> QED
    BY <2>1, ProgramsKnown, PTL DEF FairSpec, Spec
<1>2. Init /\ DP!IInv => OInv
  BY InitDoors DEF OInv, Init, Docking!Init
<1>3. OInv /\ DP!IInv' /\ [Orderly]_vars => OInv'
  BY StepLeaves
<1>4. OInv /\ [Orderly]_vars =>
         [\A c \in patient : prog'[c].dock_state = "undocked" => Shut(door[c])]_vars
  <2> SUFFICES ASSUME OInv, Orderly, NEW c \in patient, prog'[c].dock_state = "undocked"
               PROVE  Shut(door[c])
    BY DEF Orderly
  <2>1. Leaving(c) /\ c \in Controllers /\ DInv
    BY DEF OInv
  <2>2. ~ Doors
    BY <2>1, WakesFit DEF Doors, PollDoor, Block, Unblock, Leaving
  <2>3. InGoodOrder(c)
    BY <2>1, <2>2, ProgramsInOrder DEF Orderly
  <2> QED
    BY <2>1, <2>3 DEF InGoodOrder, Leaving
<1> QED
  BY <1>1, <1>2, <1>3, <1>4, PTL DEF FairSpec, UndocksShut
=============================================================================
