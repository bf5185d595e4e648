---------------------------- MODULE SlaClockProofs ----------------------------
(***************************************************************************)
(* Proofs about SlaClock for every workflow, calendar, length of pauses    *)
(* and number of requests.                                                 *)
(***************************************************************************)
EXTENDS SlaClock, TLAPS

LEMMA DueInType ==
  ASSUME now \in Nat, NEW h \in Nat, NEW d \in DueIn(h)
  PROVE  /\ d \in Deadline
         /\ h = 0 => d = None
         /\ h # 0 => d # None /\ \E g \in Gaps : g \in Nat /\ d = now + h + g
  BY ClockAssumption DEF DueIn, Deadline

LEMMA PutType ==
  /\ \A c, l, v \in Deadline : PutDate(c, l, v) \in Deadline
  /\ \A c, l, v \in Stages : Put(c, l, v) \in Stages
  /\ \A c, l, v \in 0..2 : Put(c, l, v) \in 0..2
  /\ \A c, l, v \in BOOLEAN : Put(c, l, v) \in BOOLEAN
  BY DEF PutDate, Put

LEMMA InitType == Init => TypeOK
<1> SUFFICES ASSUME Init PROVE TypeOK
  OBVIOUS
<1>1. now = 0 /\ now \in Nat
  BY DEF Init
<1>2. PICK d \in DueIn(Hours[Initial]), o \in DueIn(Total) :
         /\ row = [stage |-> Initial, closed |-> FALSE, started |-> 0, due |-> d,
                   overall |-> o, paused |-> None, level |-> 0, warned |-> FALSE]
         /\ given = d
  BY DEF Init
<1>3. d \in Deadline /\ o \in Deadline
  BY <1>1, DueInType, ClockAssumption
<1>4. row \in Row
  BY <1>2, <1>3, ClockAssumption DEF Row, Deadline
<1>5. given \in Deadline /\ stopped \in Nat
  BY <1>2, <1>3 DEF Init
<1>6. QED
  BY <1>1, <1>4, <1>5 DEF Init, TypeOK

LEMMA NewLevelType ==
  ASSUME TypeOK PROVE NewLevel \in 0..2
  BY DEF TypeOK, Row, NewLevel

LEMMA NextType == TypeOK /\ [Next]_vars => TypeOK'
<1> SUFFICES ASSUME TypeOK, [Next]_vars PROVE TypeOK'
  OBVIOUS
<1> USE ClockAssumption DEF TypeOK
<1>1. CASE Pass
  BY <1>1 DEF Pass
<1>2. ASSUME NEW s \in Sessions, Load(s) PROVE TypeOK'
  BY <1>2 DEF Load, history
<1>3. ASSUME NEW s \in Sessions, NEW t \in Stages, Transition(s, t) PROVE TypeOK'
  <2>1. view[s] \in Row
    BY <1>3 DEF Transition
  <2>2. PICK d \in IF t \in Terminal THEN {None} ELSE DueIn(Hours[t]) :
          /\ row' = [row EXCEPT !.stage   = Put(@, view[s].stage, t),
                                !.closed  = @ \/ t \in Terminal,
                                !.started = now,
                                !.due     = PutDate(@, view[s].due, d),
                                !.paused  = PutDate(@, view[s].paused, None),
                                !.level   = Put(@, view[s].level, 0),
                                !.warned  = Put(@, view[s].warned, FALSE)]
          /\ given' = d
    BY <1>3 DEF Transition
  <2>3. d \in Deadline
    BY DueInType DEF Deadline
  <2>4. /\ Put(row.stage, view[s].stage, t) \in Stages
        /\ PutDate(row.due, view[s].due, d) \in Deadline
        /\ PutDate(row.paused, view[s].paused, None) \in Deadline
        /\ Put(row.level, view[s].level, 0) \in 0..2
        /\ Put(row.warned, view[s].warned, FALSE) \in BOOLEAN
    <3>1. /\ row.stage \in Stages /\ view[s].stage \in Stages
          /\ row.due \in Deadline /\ view[s].due \in Deadline
          /\ row.paused \in Deadline /\ view[s].paused \in Deadline
          /\ row.level \in 0..2 /\ view[s].level \in 0..2
          /\ row.warned \in BOOLEAN /\ view[s].warned \in BOOLEAN
      BY <2>1 DEF Row
    <3>2. None \in Deadline /\ 0 \in 0..2 /\ FALSE \in BOOLEAN
      BY DEF Deadline
    <3>3. QED
      BY <3>1, <3>2, <2>3, PutType
  <2>5. row' \in Row
    <3> DEFINE c1 == Put(row.stage, view[s].stage, t)
               c2 == row.closed \/ t \in Terminal
               c3 == PutDate(row.due, view[s].due, d)
               c4 == PutDate(row.paused, view[s].paused, None)
               c5 == Put(row.level, view[s].level, 0)
               c6 == Put(row.warned, view[s].warned, FALSE)
    <3>1. row' = [row EXCEPT !.stage = c1, !.closed = c2, !.started = now, !.due = c3,
                             !.paused = c4, !.level = c5, !.warned = c6]
      BY <2>2
    <3>2. c1 \in Stages /\ c3 \in Deadline /\ c4 \in Deadline /\ c5 \in 0..2 /\ c6 \in BOOLEAN
      BY <2>4
    <3>3. c2 \in BOOLEAN
      BY Zenon
    <3> HIDE DEF c1, c2, c3, c4, c5, c6
    <3>4. row' = [stage |-> c1, closed |-> c2, started |-> now, due |-> c3, overall |-> row.overall,
                  paused |-> c4, level |-> c5, warned |-> c6]
      BY <3>1 DEF Row
    <3>5. row.overall \in Deadline /\ now \in Int
      BY DEF Row
    <3>6. QED
      BY <3>2, <3>3, <3>4, <3>5 DEF Row
  <2>6. QED
    BY <1>3, <2>2, <2>3, <2>5 DEF Transition, Done
<1>4. ASSUME NEW s \in Sessions, Pause(s) PROVE TypeOK'
  BY <1>4 DEF Pause, Done, Row, Deadline, history
<1>5. ASSUME NEW s \in Sessions, Resume(s) PROVE TypeOK'
  <2>1. view[s] \in Row /\ view[s].paused \in Int
    BY <1>5 DEF Resume, Row, Deadline
  <2>2. row' \in Row
    <3> DEFINE delta == now - view[s].paused
               c1 == PutDate(row.due, view[s].due, Shifted(view[s].due, delta))
               c2 == PutDate(row.overall, view[s].overall, Shifted(view[s].overall, delta))
    <3>1. row' = [row EXCEPT !.due = c1, !.overall = c2, !.paused = None]
      BY <1>5 DEF Resume
    <3>2. c1 \in Deadline /\ c2 \in Deadline /\ None \in Deadline
      BY <2>1 DEF Row, PutDate, Shifted, Deadline
    <3> HIDE DEF c1, c2
    <3>3. QED
      BY <3>1, <3>2 DEF Row
  <2>3. QED
    BY <1>5, <2>2 DEF Resume, Done, history
<1>6. ASSUME NEW s \in Sessions, Refuse(s) PROVE TypeOK'
  BY <1>6 DEF Refuse, Done, history
<1>7. CASE Scan
  BY <1>7, NewLevelType DEF Scan, Row, history
<1>8. CASE UNCHANGED vars
  BY <1>8 DEF vars
<1>9. QED
  BY <1>1, <1>2, <1>3, <1>4, <1>5, <1>6, <1>7, <1>8 DEF Next, Handle

(* Every variable keeps its type, however requests overlap.                *)
THEOREM TypeCorrect == Spec => []TypeOK
  BY InitType, NextType, PTL DEF Spec

(***************************************************************************)
(* The overall deadline, however requests overlap.  A request may add a    *)
(* pause to the deadline it has loaded, so the bound is kept for what is   *)
(* loaded too; it is relative to the start of the pause while one runs.    *)
(***************************************************************************)
InTime(date, hours, at) ==
    IF hours = 0 THEN date = None
    ELSE date \in Int /\ hours <= date /\ \E g \in Gaps : date <= at + hours + g

At(r, t) == IF r.paused = None THEN t ELSE r.paused

OverallOK(r, t) ==
    /\ InTime(r.overall, Total, At(r, t))
    /\ r.paused \in Int => r.paused <= t

LEMMA InTimeLater ==
  ASSUME NEW date, NEW h \in Nat, NEW a \in Int, NEW b \in Int, a <= b, InTime(date, h, a)
  PROVE  InTime(date, h, b)
  BY ClockAssumption DEF InTime

LEMMA InTimeShifted ==
  ASSUME NEW date, NEW h \in Nat, NEW a \in Int, NEW b \in Int, a <= b, InTime(date, h, a)
  PROVE  InTime(Shifted(date, b - a), h, b)
  BY ClockAssumption DEF InTime, Shifted

OInv == OverallOK(row, now) /\ \A s \in Sessions : view[s] # None => OverallOK(view[s], now)

LEMMA InitOInv == Init => OInv
<1> SUFFICES ASSUME Init PROVE OInv
  OBVIOUS
<1>1. now \in Nat /\ now = 0
  BY DEF Init
<1>2. PICK d \in DueIn(Hours[Initial]), o \in DueIn(Total) :
         /\ row = [stage |-> Initial, closed |-> FALSE, started |-> 0, due |-> d,
                   overall |-> o, paused |-> None, level |-> 0, warned |-> FALSE]
         /\ given = d
  BY DEF Init
<1>3. row.paused = None /\ row.overall \in DueIn(Total)
  BY <1>2
<1>4. OverallOK(row, now)
  BY <1>1, <1>3, DueInType, ClockAssumption DEF OverallOK, InTime, At
<1>5. QED
  BY <1>4 DEF Init, OInv

\* Later, and with a pause that is dropped or starts now, the bound is kept.
LEMMA OverallLater ==
  ASSUME NEW r \in Row, NEW q \in Row, NEW t \in Nat, NEW u \in Nat, t <= u, OverallOK(r, t),
         q.overall = r.overall, q.paused \in {r.paused, None, u}
  PROVE  OverallOK(q, u)
<1>1. r.paused \in Int \cup {None}
  BY DEF Row, Deadline
<1>2. InTime(r.overall, Total, At(r, t)) /\ (r.paused \in Int => r.paused <= t)
  BY DEF OverallOK
<1>3. At(r, t) \in Int /\ At(q, u) \in Int /\ At(r, t) <= At(q, u)
  BY <1>1, <1>2, ClockAssumption DEF At
<1>4. InTime(q.overall, Total, At(q, u))
  BY <1>2, <1>3, InTimeLater, ClockAssumption
<1>5. q.paused \in Int => q.paused <= u
  BY <1>1, <1>2, ClockAssumption
<1>6. QED
  BY <1>4, <1>5 DEF OverallOK

LEMMA NextOInv == TypeOK /\ TypeOK' /\ OInv /\ [Next]_vars => OInv'
<1> SUFFICES ASSUME TypeOK, TypeOK', OInv, [Next]_vars PROVE OInv'
  OBVIOUS
<1> USE DEF TypeOK
<1>0. OverallOK(row, now) /\ now \in Nat /\ now' \in Nat /\ row \in Row /\ row' \in Row
  BY DEF OInv
<1>1. ASSUME now <= now', OverallOK(row', now'), 
             \A s \in Sessions : view'[s] \in {None, view[s], row}
      PROVE  OInv'
  <2>1. ASSUME NEW s \in Sessions, view'[s] # None PROVE OverallOK(view'[s], now')
    <3>1. view'[s] \in Row /\ OverallOK(view'[s], now)
      BY <1>0, <1>1, <2>1 DEF OInv
    <3>2. QED
      BY <1>0, <1>1, <3>1, OverallLater
  <2>2. QED
    BY <1>1, <2>1 DEF OInv
<1>2. CASE Pass
  BY <1>0, <1>1, <1>2, OverallLater DEF Pass
<1>3. ASSUME NEW s \in Sessions, Load(s) PROVE OInv'
  BY <1>0, <1>1, <1>3, OverallLater DEF Load
<1>4. ASSUME NEW s \in Sessions, NEW t \in Stages, Transition(s, t) PROVE OInv'
  <2>1. row'.overall = row.overall /\ row'.paused \in {row.paused, None}
    BY <1>0, <1>4 DEF Transition, Row, PutDate
  <2>2. now' = now /\ now <= now'
    BY <1>0, <1>4 DEF Transition
  <2>3. OverallOK(row', now')
    BY <1>0, <2>1, <2>2, OverallLater
  <2>4. QED
    BY <1>0, <1>1, <1>4, <2>2, <2>3 DEF Transition, Done
<1>5. ASSUME NEW s \in Sessions, Pause(s) PROVE OInv'
  <2>1. row'.overall = row.overall /\ row'.paused = now'
    BY <1>0, <1>5 DEF Pause, Row
  <2>2. now' = now /\ now <= now'
    BY <1>0, <1>5 DEF Pause
  <2>3. OverallOK(row', now')
    BY <1>0, <2>1, <2>2, OverallLater
  <2>4. QED
    BY <1>0, <1>1, <1>5, <2>2, <2>3 DEF Pause, Done
<1>6. ASSUME NEW s \in Sessions, Resume(s) PROVE OInv'
  <2> DEFINE v == view[s]
  <2>1. v \in Row /\ v.paused \in Int /\ OverallOK(v, now)
    BY <1>6 DEF Resume, OInv, Row, Deadline
  <2>2. InTime(Shifted(v.overall, now - v.paused), Total, now)
    BY <1>0, <2>1, InTimeShifted, ClockAssumption DEF OverallOK, At
  <2>3. row'.paused = None /\ row'.overall = PutDate(row.overall, v.overall,
                                                     Shifted(v.overall, now - v.paused))
    BY <1>0, <1>6 DEF Resume, Row
  <2>4. row'.overall = Shifted(v.overall, now - v.paused)
    BY <1>0, <2>1, <2>2, <2>3, ClockAssumption DEF OverallOK, InTime, PutDate, Shifted
  <2>5. now' = now
    BY <1>6 DEF Resume
  <2>6. OverallOK(row', now')
    BY <2>2, <2>3, <2>4, <2>5, ClockAssumption DEF OverallOK, InTime, At
  <2>7. QED
    BY <1>0, <1>1, <1>6, <2>5, <2>6 DEF Resume, Done
<1>7. ASSUME NEW s \in Sessions, Refuse(s) PROVE OInv'
  BY <1>0, <1>1, <1>7, OverallLater DEF Refuse, Done
<1>8. CASE Scan
  <2>1. row'.overall = row.overall /\ row'.paused = row.paused
    BY <1>0, <1>8 DEF Scan, Row
  <2>2. now' = now /\ now <= now' /\ view' = view
    BY <1>0, <1>8 DEF Scan
  <2>3. OverallOK(row', now')
    BY <1>0, <2>1, <2>2, OverallLater
  <2>4. QED
    BY <1>0, <1>1, <2>2, <2>3
<1>9. CASE UNCHANGED vars
  BY <1>0, <1>1, <1>9, OverallLater DEF vars
<1>10. QED
  BY <1>2, <1>3, <1>4, <1>5, <1>6, <1>7, <1>8, <1>9 DEF Next, Handle

(* However requests overlap, the overall deadline is never taken back, and *)
(* never further away than that of a case created now.                     *)
THEOREM OverallDeadline == Spec => []OverallKept
<1>1. TypeOK /\ OInv => OverallKept
  <2> SUFFICES ASSUME TypeOK, OInv PROVE OverallKept
    OBVIOUS
  <2>1. now \in Int /\ At(row, now) \in Int /\ At(row, now) <= now
    BY DEF TypeOK, Row, Deadline, OInv, OverallOK, At
  <2>2. InTime(row.overall, Total, now)
    BY <2>1, InTimeLater, ClockAssumption DEF OInv, OverallOK
  <2>3. QED
    BY <2>2, ClockAssumption DEF InTime, OverallKept
<1>2. QED
  BY <1>1, InitType, InitOInv, NextType, NextOInv, PTL DEF Spec

(***************************************************************************)
(* Requests one at a time.  While a pause runs, every deadline and every   *)
(* escalation is judged at the start of the pause: that is what resume     *)
(* makes up for.                                                           *)
(***************************************************************************)
Serial == ~Overlap

Fresh ==
    \A s \in Sessions : view[s] # None =>
        view[s] = row /\ \A r \in Sessions : view[r] # None => r = s

Ordered(r, t) ==
    /\ r.started <= t
    /\ r.paused \in Int => r.started <= r.paused /\ r.paused <= t

Justified(r, t) ==
    /\ r.level = 1 => r.due \in Int /\ r.due < At(r, t)
    /\ r.level = 2 => r.overall \in Int /\ r.overall < At(r, t)

Stopped(r) == r.closed => r.due = None /\ r.paused = None /\ r.level = 0

\* The stage was given the deadline g and has been paused for n hours.
Served(r, t, g, n) ==
    ~r.closed =>
        IF Hours[r.stage] = 0 THEN r.due = None
        ELSE /\ r.due \in Int /\ g \in Int
             /\ \E x \in Gaps : g = r.started + Hours[r.stage] + x
             /\ r.due + (t - At(r, t)) = g + n

RowOK(r, t, g, n) ==
    Ordered(r, t) /\ Served(r, t, g, n) /\ Justified(r, t) /\ Stopped(r)

IInv == Fresh /\ RowOK(row, now, given, stopped)

LEMMA InitIInv == Init => IInv
<1> SUFFICES ASSUME Init PROVE IInv
  OBVIOUS
<1>1. now \in Nat /\ now = 0 /\ stopped = 0
  BY DEF Init
<1>2. PICK d \in DueIn(Hours[Initial]), o \in DueIn(Total) :
         /\ row = [stage |-> Initial, closed |-> FALSE, started |-> 0, due |-> d,
                   overall |-> o, paused |-> None, level |-> 0, warned |-> FALSE]
         /\ given = d
  BY DEF Init
<1>3. /\ Hours[Initial] \in Nat
      /\ d \in Deadline
      /\ Hours[Initial] = 0 => d = None
      /\ Hours[Initial] # 0 => d # None /\ \E g \in Gaps : g \in Nat /\ d = now + Hours[Initial] + g
  BY <1>1, DueInType, ClockAssumption
<1>4. RowOK(row, now, given, stopped)
  BY <1>1, <1>2, <1>3, ClockAssumption
  DEF RowOK, Ordered, Served, Justified, Stopped, At, Deadline
<1>5. QED
  BY <1>4 DEF Init, IInv, Fresh

\* An hour passes, and counts as paused if it is.
LEMMA RowLater ==
  ASSUME TypeOK, Pass, RowOK(row, now, given, stopped)
  PROVE  RowOK(row', now', given', stopped')
<1> USE DEF TypeOK
<1>1. /\ row \in Row /\ now \in Nat /\ stopped \in Nat
      /\ row' = row /\ now' = now + 1 /\ given' = given
      /\ stopped' = IF row.paused = None THEN stopped ELSE stopped + 1
  BY DEF Pass
<1>2. row.started \in Int /\ row.paused \in Int \cup {None} /\ Hours[row.stage] \in Nat
  BY <1>1, ClockAssumption DEF Row, Deadline
<1>3. At(row, now) \in Int /\ At(row, now + 1) \in Int /\ At(row, now) <= At(row, now + 1)
  BY <1>1, <1>2, ClockAssumption DEF At
<1>4. Ordered(row, now + 1)
  BY <1>1, <1>2 DEF RowOK, Ordered
<1>5. Served(row, now + 1, given, stopped')
  <2>1. stopped' = stopped + ((now + 1 - At(row, now + 1)) - (now - At(row, now)))
    BY <1>1, <1>2, ClockAssumption DEF At
  <2>2. QED
    BY <1>1, <1>2, <1>3, <2>1, ClockAssumption DEF RowOK, Served
<1>6. row.overall \in Int \cup {None} /\ row.due \in Int \cup {None}
  BY <1>1 DEF Row, Deadline
<1>7. Justified(row, now + 1)
  BY <1>1, <1>3, <1>6 DEF RowOK, Justified
<1>8. QED
  BY <1>1, <1>4, <1>5, <1>7 DEF RowOK

\* A transition of the row as it is.
LEMMA RowMoved ==
  ASSUME TypeOK, NEW s \in Sessions, NEW t \in Stages, view[s] = row, Transition(s, t), row' \in Row
  PROVE  RowOK(row', now, given', stopped')
<1> USE DEF TypeOK
<1>1. row \in Row /\ now \in Nat /\ Hours[t] \in Nat
  BY ClockAssumption
<1>2. PICK d \in IF t \in Terminal THEN {None} ELSE DueIn(Hours[t]) :
        /\ ~row.closed
        /\ row' = [row EXCEPT !.stage   = Put(@, row.stage, t),
                              !.closed  = @ \/ t \in Terminal,
                              !.started = now,
                              !.due     = PutDate(@, row.due, d),
                              !.paused  = PutDate(@, row.paused, None),
                              !.level   = Put(@, row.level, 0),
                              !.warned  = Put(@, row.warned, FALSE)]
        /\ given' = d /\ stopped' = 0
  BY DEF Transition
<1>3. /\ row'.stage = t /\ row'.started = now /\ row'.due = d
      /\ row'.paused = None /\ row'.level = 0
  BY <1>1, <1>2 DEF Row, Put, PutDate
<1>4. row'.closed <=> t \in Terminal
  BY <1>1, <1>2 DEF Row
<1>5. t \notin Terminal => /\ Hours[t] = 0 => d = None
                           /\ Hours[t] # 0 => d \in Int /\ \E g \in Gaps : g \in Nat /\ d = now + Hours[t] + g
  BY <1>1, DueInType, ClockAssumption DEF Deadline
<1>6. t \in Terminal => d = None
  BY <1>2
<1>7. Ordered(row', now) /\ Justified(row', now) /\ Stopped(row')
  BY <1>1, <1>3, <1>4, <1>6, ClockAssumption DEF Ordered, Justified, Stopped
<1>8. Served(row', now, given', stopped')
  BY <1>1, <1>2, <1>3, <1>4, <1>5, ClockAssumption DEF Served, At
<1>9. QED
  BY <1>7, <1>8 DEF RowOK

LEMMA RowPaused ==
  ASSUME TypeOK, NEW s \in Sessions, view[s] = row, Pause(s), RowOK(row, now, given, stopped)
  PROVE  RowOK(row', now, given', stopped')
<1>1. /\ ~row.closed /\ row.paused = None
      /\ row' = [row EXCEPT !.paused = now]
      /\ row \in Row /\ now \in Nat
  BY DEF Pause, TypeOK
<1>0. given' = given /\ stopped' = stopped
  BY DEF Pause, history
<1>2. /\ row'.closed = row.closed /\ row'.stage = row.stage /\ row'.started = row.started
      /\ row'.due = row.due /\ row'.overall = row.overall /\ row'.level = row.level
      /\ row'.paused = now
  BY <1>1 DEF Row
<1>3. At(row, now) = now /\ At(row', now) = now
  BY <1>1, <1>2 DEF At
<1>4. QED
  BY <1>0, <1>1, <1>2, <1>3 DEF RowOK, Ordered, Served, Justified, Stopped

\* A resume shifts deadlines and the moment they are judged at alike.
LEMMA RowResumed ==
  ASSUME TypeOK, NEW s \in Sessions, view[s] = row, Resume(s), RowOK(row, now, given, stopped)
  PROVE  RowOK(row', now, given', stopped')
<1> DEFINE delta == now - row.paused
<1>1. /\ row \in Row /\ now \in Nat /\ row.paused \in Int
      /\ row' = [row EXCEPT !.due     = PutDate(@, row.due, Shifted(row.due, delta)),
                            !.overall = PutDate(@, row.overall, Shifted(row.overall, delta)),
                            !.paused  = None]
  BY DEF Resume, TypeOK, Row, Deadline
<1>2. /\ row'.closed = row.closed /\ row'.stage = row.stage /\ row'.started = row.started
      /\ row'.level = row.level /\ row'.paused = None
      /\ row'.due = PutDate(row.due, row.due, Shifted(row.due, delta))
      /\ row'.overall = PutDate(row.overall, row.overall, Shifted(row.overall, delta))
  BY <1>1 DEF Row
<1>3. /\ row'.due = Shifted(row.due, delta)
      /\ row'.overall = Shifted(row.overall, delta)
  BY <1>2 DEF PutDate, Shifted
<1>4. row.due \in Int \cup {None} /\ row.overall \in Int \cup {None} /\ row.started \in Int
  BY <1>1 DEF Row, Deadline
<1>5. At(row, now) = row.paused /\ At(row', now) = now /\ delta \in Int /\ delta >= 0
  BY <1>1, <1>2, ClockAssumption DEF At, RowOK, Ordered
<1>6. ~row.closed /\ Stopped(row') /\ Ordered(row', now)
  BY <1>1, <1>2, ClockAssumption DEF RowOK, Stopped, Ordered
<1>7. Served(row', now, given', stopped')
  <2>1. Hours[row.stage] \in Nat /\ stopped \in Nat /\ given' = given /\ stopped' = stopped
    BY <1>1, ClockAssumption DEF Row, TypeOK, Resume, history
  <2>2. QED
    BY <1>1, <1>2, <1>3, <1>4, <1>5, <2>1, ClockAssumption DEF RowOK, Served, Shifted
<1>8. Justified(row', now)
  BY <1>1, <1>2, <1>3, <1>4, <1>5, ClockAssumption DEF RowOK, Justified, Shifted
<1>9. QED
  BY <1>6, <1>7, <1>8 DEF RowOK

\* A scan escalates what is late now, and touches no paused case.
LEMMA RowScanned ==
  ASSUME TypeOK, Scan, RowOK(row, now, given, stopped)
  PROVE  RowOK(row', now, given', stopped')
<1>1. /\ ~row.closed /\ row.paused = None /\ row \in Row /\ now \in Nat
      /\ row' = [row EXCEPT !.warned = @ \/ Approaching, !.level = NewLevel]
  BY DEF Scan, Reportable, TypeOK
<1>2. /\ row'.closed = row.closed /\ row'.stage = row.stage /\ row'.started = row.started
      /\ row'.due = row.due /\ row'.overall = row.overall /\ row'.paused = None
      /\ row'.level = NewLevel
  BY <1>1 DEF Row
<1>3. At(row, now) = now /\ At(row', now) = now
  BY <1>1, <1>2 DEF At
<1>4. row.due \in Int \cup {None} /\ row.overall \in Int \cup {None}
  BY <1>1 DEF Row, Deadline
<1>5. Justified(row', now)
  BY <1>1, <1>2, <1>3, <1>4 DEF RowOK, Justified, NewLevel, Late
<1>6. given' = given /\ stopped' = stopped
  BY DEF Scan, history
<1>7. QED
  BY <1>1, <1>2, <1>3, <1>5, <1>6 DEF RowOK, Ordered, Served, Stopped

LEMMA NextIInv ==
  ASSUME Serial
  PROVE  TypeOK /\ TypeOK' /\ IInv /\ [Next]_vars => IInv'
<1> SUFFICES ASSUME TypeOK, TypeOK', IInv, [Next]_vars PROVE IInv'
  OBVIOUS
<1> USE DEF TypeOK
<1>0. now \in Nat /\ now' \in Nat /\ row \in Row /\ row' \in Row /\ RowOK(row, now, given, stopped) /\ Fresh
  BY DEF IInv
<1>1. ASSUME NEW s \in Sessions, Fresh, view[s] # None, Done(s), now' = now,
             RowOK(row', now, given', stopped')
      PROVE  IInv'
  BY <1>1 DEF Done, IInv, Fresh
<1>2. CASE Pass
  <2>1. row' = row /\ view' = view
    BY <1>2 DEF Pass
  <2>2. RowOK(row', now', given', stopped')
    BY <1>0, <1>2, RowLater
  <2>3. QED
    BY <1>0, <2>1, <2>2 DEF IInv, Fresh
<1>3. ASSUME NEW s \in Sessions, Load(s) PROVE IInv'
  <2>1. /\ now' = now /\ row' = row /\ given' = given /\ stopped' = stopped
        /\ view' = [view EXCEPT ![s] = row]
        /\ \A r \in Sessions : view[r] = None
    BY <1>3 DEF Load, Quiet, Serial, history
  <2>2. QED
    BY <1>0, <2>1 DEF IInv, Fresh
<1>4. ASSUME NEW s \in Sessions, NEW t \in Stages, Transition(s, t) PROVE IInv'
  <2>1. view[s] # None /\ view[s] = row /\ Done(s) /\ now' = now
    BY <1>0, <1>4 DEF Transition, Fresh
  <2>2. RowOK(row', now, given', stopped')
    BY <1>0, <1>4, <2>1, RowMoved
  <2>3. QED
    BY <1>0, <1>1, <2>1, <2>2
<1>5. ASSUME NEW s \in Sessions, Pause(s) PROVE IInv'
  <2>1. view[s] # None /\ view[s] = row /\ Done(s) /\ now' = now
    BY <1>0, <1>5 DEF Pause, Fresh
  <2>2. RowOK(row', now, given', stopped')
    BY <1>0, <1>5, <2>1, RowPaused
  <2>3. QED
    BY <1>0, <1>1, <2>1, <2>2
<1>6. ASSUME NEW s \in Sessions, Resume(s) PROVE IInv'
  <2>1. view[s] # None /\ view[s] = row /\ Done(s) /\ now' = now
    BY <1>0, <1>6 DEF Resume, Fresh
  <2>2. RowOK(row', now, given', stopped')
    BY <1>0, <1>6, <2>1, RowResumed
  <2>3. QED
    BY <1>0, <1>1, <2>1, <2>2
<1>7. ASSUME NEW s \in Sessions, Refuse(s) PROVE IInv'
  BY <1>0, <1>1, <1>7 DEF Refuse, history
<1>8. CASE Scan
  <2>1. now' = now /\ view' = view /\ \A r \in Sessions : view[r] = None
    BY <1>8 DEF Scan, Quiet, Serial
  <2>2. QED
    BY <1>0, <1>8, <2>1, RowScanned DEF IInv, Fresh
<1>9. CASE UNCHANGED vars
  BY <1>0, <1>9 DEF vars, IInv, Fresh
<1>10. QED
  BY <1>2, <1>3, <1>4, <1>5, <1>6, <1>7, <1>8, <1>9 DEF Next, Handle

LEMMA AlwaysIInv == ASSUME Serial PROVE Spec => [](TypeOK /\ IInv)
  BY InitType, InitIInv, NextType, NextIInv, PTL DEF Spec

(* Without overlapping requests, the deadline of an open case is the one   *)
(* its stage was given, moved by exactly the hours spent paused in it.     *)
THEOREM StageDeadline == ASSUME Serial PROVE Spec => []FullService
<1>1. TypeOK /\ IInv => FullService
  <2> SUFFICES ASSUME TypeOK, IInv PROVE FullService
    OBVIOUS
  <2>1. now \in Int /\ now - At(row, now) = IF row.paused = None THEN 0 ELSE now - row.paused
    BY ClockAssumption DEF TypeOK, At
  <2>2. QED
    BY <2>1, ClockAssumption DEF IInv, RowOK, Served, FullService
<1>2. QED
  BY <1>1, AlwaysIInv, PTL

(* Without overlapping requests, an escalation level is that of a deadline *)
(* the case has missed, pauses and rework included.                        *)
THEOREM LevelsJustified == ASSUME Serial PROVE Spec => []EscalationsAreDue
<1>1. TypeOK /\ IInv => EscalationsAreDue
  <2> SUFFICES ASSUME TypeOK, IInv PROVE EscalationsAreDue
    OBVIOUS
  <2>1. now \in Int /\ At(row, now) \in Int /\ At(row, now) <= now
    BY DEF TypeOK, Row, Deadline, IInv, RowOK, Ordered, At
  <2>2. QED
    BY <2>1, ClockAssumption DEF IInv, RowOK, Justified, EscalationsAreDue, Late
<1>2. QED
  BY <1>1, AlwaysIInv, PTL

(* Without overlapping requests, completing a case stops its clock.        *)
THEOREM CompletionStops == ASSUME Serial PROVE Spec => []CompletedIsStopped
<1>1. IInv => CompletedIsStopped
  BY DEF IInv, RowOK, Stopped, CompletedIsStopped
<1>2. QED
  BY <1>1, AlwaysIInv, PTL

(* However requests overlap, a scan leaves nothing to report.              *)
THEOREM ScanIsIdempotent == Spec => ReportedOnce
<1>1. TypeOK /\ [Next]_vars => [Scan => ~Reportable']_vars
  <2> SUFFICES ASSUME TypeOK, Scan PROVE ~Reportable'
    OBVIOUS
  <2>1. /\ row \in Row /\ now' = now
        /\ row' = [row EXCEPT !.warned = @ \/ Approaching, !.level = NewLevel]
    BY DEF Scan, TypeOK
  <2>2. /\ row'.due = row.due /\ row'.overall = row.overall /\ row'.level = NewLevel
        /\ row'.warned <=> row.warned \/ Approaching
    BY <2>1 DEF Row
  <2>3. Approaching' <=> Approaching
    BY <2>1, <2>2 DEF Approaching
  <2>4. NewLevel' = row'.level
    BY <2>1, <2>2 DEF NewLevel, Late, Row
  <2>5. QED
    BY <2>2, <2>3, <2>4 DEF Reportable
<1>2. QED
  BY <1>1, TypeCorrect, PTL DEF Spec, ReportedOnce
===============================================================================
