------------------------------- MODULE SlaClock -------------------------------
(***************************************************************************)
(* The service-level clock of one case: the deadlines that a transition    *)
(* sets, pause and resume (src/app/services/workflow_engine.py) and the    *)
(* scan that warns and escalates, which the outbox runs.                   *)
(*                                                                         *)
(* As in CaseLifecycle, a handler loads the case before it takes           *)
(* database_write_lock() and works on what it loaded: view[s].  The scan   *)
(* queries under the lock.  A deadline in business time is a deadline in   *)
(* hours plus the closed hours on the way, any of Gaps.                    *)
(*                                                                         *)
(* given and stopped are history variables: no guard reads them.  Pass     *)
(* counts the paused hours one by one, without the subtraction of resume.  *)
(***************************************************************************)
EXTENDS Integers

CONSTANTS
    Stages, Initial, Terminal, Edges,
    Hours,          \* sla_hours of a stage, 0 for none
    Total,          \* total_sla_hours of the workflow, 0 for none
    Gaps,           \* closed hours a business calendar may add
    Window,         \* warning_window_hours
    Sessions,       \* requests that can be in progress at a time
    Pages,          \* those of web.py and work_management.py: one event loop
    Overlap,        \* may anything commit between load and lock?
    MaxTime,        \* bound on the clock
    None

ASSUME ClockAssumption ==
    /\ Terminal \subseteq Stages /\ Initial \in Stages \ Terminal
    /\ Edges \subseteq (Stages \ Terminal) \X Stages
    /\ Hours \in [Stages -> Nat] /\ Total \in Nat
    /\ Gaps \subseteq Nat /\ Gaps # {}
    /\ Window \in Nat /\ MaxTime \in Nat
    /\ Pages \subseteq Sessions
    /\ Overlap \in BOOLEAN
    /\ None \notin Int

VARIABLES
    now,
    row,        \* the row of the case
    view,       \* the case as each request has loaded it, or None
    given,      \* history: the deadline computed on entering the stage
    stopped     \* history: hours the case has spent paused in the stage

vars == <<now, row, view, given, stopped>>
history == <<given, stopped>>

Deadline == Int \cup {None}
Row == [stage : Stages, closed : BOOLEAN, started : Int, due : Deadline,
        overall : Deadline, paused : Deadline, level : 0..2, warned : BOOLEAN]

-----------------------------------------------------------------------------
(* add_service_hours from now on.                                          *)
DueIn(hours) == IF hours = 0 THEN {None} ELSE {now + hours + g : g \in Gaps}

(* A column is written only if it differs from what was loaded.            *)
Put(column, loaded, value) == IF value = loaded THEN column ELSE value

(* A date that is set never equals the one loaded.                         *)
PutDate(column, loaded, value) ==
    IF value = None /\ loaded = None THEN column ELSE value

Shifted(date, by) == IF date = None THEN None ELSE date + by

-----------------------------------------------------------------------------
(* create_case at time 0.                                                  *)
Init ==
    /\ now = 0
    /\ \E d \in DueIn(Hours[Initial]), o \in DueIn(Total) :
         /\ row = [stage |-> Initial, closed |-> FALSE, started |-> 0, due |-> d,
                   overall |-> o, paused |-> None, level |-> 0, warned |-> FALSE]
         /\ given = d
    /\ stopped = 0
    /\ view = [s \in Sessions |-> None]

Quiet == Overlap \/ \A s \in Sessions : view[s] = None

Done(s) == view' = [view EXCEPT ![s] = None]

Pass ==
    /\ now < MaxTime
    /\ now' = now + 1
    /\ stopped' = IF row.paused = None THEN stopped ELSE stopped + 1
    /\ UNCHANGED <<row, view, given>>

(* A bulk action loads the case under the lock: a Load with nothing        *)
(* between it and the action.                                              *)
Load(s) ==
    /\ Quiet
    /\ view[s] = None
    /\ s \in Pages => \A p \in Pages : view[p] = None
    /\ view' = [view EXCEPT ![s] = row]
    /\ UNCHANGED <<now, row, history>>

\* Variant: the escalation of the stage that is left is kept.
TransitionKeepingLevel(s, t) ==
    /\ view[s] # None
    /\ LET v == view[s] IN
        /\ ~v.closed
        /\ <<v.stage, t>> \in Edges
        /\ \E d \in IF t \in Terminal THEN {None} ELSE DueIn(Hours[t]) :
             /\ row' = [row EXCEPT !.stage   = Put(@, v.stage, t),
                                   !.closed  = @ \/ t \in Terminal,
                                   !.started = now,
                                   !.due     = PutDate(@, v.due, d),
                                   !.paused  = PutDate(@, v.paused, None),
                                   !.warned  = Put(@, v.warned, FALSE)]
             /\ given' = d
    /\ stopped' = 0
    /\ Done(s)
    /\ UNCHANGED now

(* The clock's part of transition_case.                                    *)
Transition(s, t) ==
    /\ view[s] # None
    /\ LET v == view[s] IN
        /\ ~v.closed
        /\ <<v.stage, t>> \in Edges
        /\ \E d \in IF t \in Terminal THEN {None} ELSE DueIn(Hours[t]) :
             /\ row' = [row EXCEPT !.stage   = Put(@, v.stage, t),
                                   !.closed  = @ \/ t \in Terminal,
                                   !.started = now,
                                   !.due     = PutDate(@, v.due, d),
                                   !.paused  = PutDate(@, v.paused, None),
                                   !.level   = Put(@, v.level, 0),
                                   !.warned  = Put(@, v.warned, FALSE)]
             /\ given' = d
    /\ stopped' = 0
    /\ Done(s)
    /\ UNCHANGED now

Pause(s) ==
    /\ s \in Pages /\ view[s] # None
    /\ ~view[s].closed
    /\ view[s].paused = None
    /\ row' = [row EXCEPT !.paused = now]
    /\ Done(s)
    /\ UNCHANGED <<now, history>>

\* Variant: the pause is not cleared.
ResumeKeepingPause(s) ==
    /\ s \in Pages /\ view[s] # None
    /\ view[s].paused # None
    /\ LET v == view[s]  delta == now - v.paused IN
         row' = [row EXCEPT
                    !.due     = PutDate(@, v.due, Shifted(v.due, delta)),
                    !.overall = PutDate(@, v.overall, Shifted(v.overall, delta))]
    /\ Done(s)
    /\ UNCHANGED <<now, history>>

(* resume_sla shifts the deadlines it has loaded, and does not look at     *)
(* completed_at.                                                           *)
Resume(s) ==
    /\ s \in Pages /\ view[s] # None
    /\ view[s].paused # None
    /\ LET v == view[s]  delta == now - v.paused IN
         row' = [row EXCEPT
                    !.due     = PutDate(@, v.due, Shifted(v.due, delta)),
                    !.overall = PutDate(@, v.overall, Shifted(v.overall, delta)),
                    !.paused  = None]
    /\ Done(s)
    /\ UNCHANGED <<now, history>>

(* A request that is refused, or one that does something else.             *)
Refuse(s) ==
    /\ view[s] # None
    /\ Done(s)
    /\ UNCHANGED <<now, row, history>>

-----------------------------------------------------------------------------
(* process_sla_escalations.                                                *)
Late(date) == date # None /\ date < now

Approaching ==
    \E d \in {row.due, row.overall} \ {None} :
        /\ \A e \in {row.due, row.overall} \ {None} : d <= e
        /\ now <= d /\ d <= now + Window

\* Variant: the stage deadline is looked at first.
NewLevelStageFirst ==
    IF Late(row.due) /\ row.level < 1 THEN 1
    ELSE IF Late(row.overall) /\ row.level < 2 THEN 2 ELSE row.level

NewLevel ==
    IF Late(row.overall) /\ row.level < 2 THEN 2
    ELSE IF Late(row.due) /\ row.level < 1 THEN 1 ELSE row.level

\* Variant: a case that has been warned is skipped.
ReportableUnwarned ==
    /\ ~row.closed /\ row.paused = None
    /\ ~row.warned
    /\ Approaching \/ NewLevel # row.level

Reportable ==
    /\ ~row.closed /\ row.paused = None
    /\ (~row.warned /\ Approaching) \/ NewLevel # row.level

Scan ==
    /\ Quiet
    /\ Reportable
    /\ row' = [row EXCEPT !.warned = @ \/ Approaching, !.level = NewLevel]
    /\ UNCHANGED <<now, view, history>>

-----------------------------------------------------------------------------
Handle(s) ==
    \/ Load(s)
    \/ \E t \in Stages : Transition(s, t)
    \/ Pause(s)
    \/ Resume(s)
    \/ Refuse(s)

Next ==
    \/ Pass
    \/ \E s \in Sessions : Handle(s)
    \/ Scan

(* A request that has loaded the case comes to its end.  A scan is         *)
(* enqueued in every interval and each job settles (Outbox); if requests   *)
(* do not overlap, it runs between two of them: strong fairness.           *)
Fairness ==
    /\ \A s \in Sessions : WF_vars(view[s] # None /\ Handle(s))
    /\ SF_vars(Scan)

Spec == Init /\ [][Next]_vars /\ Fairness

-----------------------------------------------------------------------------
TypeOK ==
    /\ now \in Nat
    /\ row \in Row
    /\ view \in [Sessions -> Row \cup {None}]
    /\ given \in Deadline /\ stopped \in Nat

(* The deadline of an open case is the one its stage was given on entry,   *)
(* the configured hours and the closed ones from then, moved by exactly    *)
(* the hours the case has been paused in this stage: resume credits each   *)
(* pause once, in full, and to no other stage; the pause that runs is      *)
(* still to be credited.                                                   *)
FullService ==
    LET h == Hours[row.stage]
        running == IF row.paused = None THEN 0 ELSE now - row.paused IN
    ~row.closed =>
        IF h = 0 THEN row.due = None
        ELSE /\ row.due # None
             /\ \E g \in Gaps : given = row.started + h + g
             /\ row.due + running = given + stopped

(* The overall deadline, also when requests overlap: no sequence of pauses *)
(* and resumes takes it back or moves it beyond a fresh one.               *)
OverallKept ==
    IF Total = 0 THEN row.overall = None
    ELSE /\ row.overall # None
         /\ Total <= row.overall
         /\ \E g \in Gaps : row.overall <= now + Total + g

(* "Record due-soon warnings and overdue escalation levels"                *)
(* (workflow_engine.py:840): the level on the case, which pages show and   *)
(* further scans trust, is that of a deadline the case has missed.         *)
EscalationsAreDue ==
    /\ row.level = 1 => Late(row.due)
    /\ row.level = 2 => Late(row.overall)

(* "Completed cases cannot pause an SLA." (workflow_engine.py:806): a      *)
(* completed case has no stage deadline and no running pause.              *)
CompletedIsStopped == row.closed => row.due = None /\ row.paused = None

(* A scan that changes the case leaves nothing to report at that moment:   *)
(* the next scan, a retry or the one of another process changes nothing    *)
(* (tests/test_workflow_engine.py:217), whatever is late at the same time. *)
ReportedOnce == [][Scan => ~Reportable']_vars

(* An overdue stage is escalated unless it is paused, left or closed.      *)
OverdueReported ==
    ~row.closed /\ row.paused = None /\ Late(row.due)
        ~> row.level > 0 \/ row.closed \/ row.paused # None \/ ~Late(row.due)
=============================================================================
