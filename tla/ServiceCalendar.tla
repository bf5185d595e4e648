---------------------------- MODULE ServiceCalendar ----------------------------
(***************************************************************************)
(* The deadline of a case under the business calendar of a definition that *)
(* validation has accepted: add_service_hours                              *)
(* (src/app/services/calendar_sla.py), which SlaClock takes as a number of *)
(* hours and a gap.                                                        *)
(*                                                                         *)
(* Time is counted in steps of one second of the code, from midnight of    *)
(* day 0, which is weekday 0, in the time of the calendar's zone; a change *)
(* of that zone's offset within the hours of service is left out.          *)
(***************************************************************************)
EXTENDS WorkflowGraph, FiniteSetsExt

CONSTANTS
    Day,                        \* steps of a day
    DefaultStart, DefaultEnd,   \* 08:00 and 17:00
    Horizon,                    \* days that _next_open looks at: 370
    Starts, Hours               \* when a deadline is asked for, and its hours

ASSUME CalendarAssumption ==
    /\ Day \in Nat \ {0} /\ Horizon \in Nat \ {0, 1} /\ None \notin Nat
    /\ {DefaultStart, DefaultEnd} \subseteq 0..Day - 1
    /\ Starts \subseteq Nat /\ Hours \subseteq Nat \ {0}
    /\ \A d \in Definitions :
         d.calendar # None => {d.calendar.start, d.calendar.end} \subseteq 0..Day - 1 \cup {None}

VARIABLE deadline   \* the calculation [from, hours, local, remaining, due], or None

allVars == <<vars, deadline>>

-----------------------------------------------------------------------------
(* calendar_config: an hour that cannot be read is the default one, and so *)
(* is an end that does not come after the start.                           *)
Opens == IF config.calendar.start = None THEN DefaultStart ELSE config.calendar.start

Closes ==
    IF config.calendar.end # None /\ config.calendar.end > Opens
    THEN config.calendar.end ELSE DefaultEnd

OpenDay(d) == d % Week \in config.calendar.days /\ d \notin config.calendar.holidays

OpeningOf(d) == d * Day + Opens
ClosingOf(d) == d * Day + Closes
DayOf(t)     == t \div Day

\* Variant: a moment within the hours of service counts as their beginning.
NextOpenAtStart(t) ==
    LET ahead == {d \in DayOf(t)..DayOf(t) + Horizon - 1 :
                    OpenDay(d) /\ (d = DayOf(t) => t < ClosingOf(d))}
    IN  IF ahead = {} THEN t ELSE OpeningOf(Min(ahead))

(* _next_open: the first opening, t itself within hours or if there is no  *)
(* open day ahead.                                                         *)
NextOpen(t) ==
    LET ahead == {d \in DayOf(t)..DayOf(t) + Horizon - 1 :
                    OpenDay(d) /\ (d = DayOf(t) => t < OpeningOf(d) \/ t < ClosingOf(d))}
    IN  IF ahead = {} THEN t ELSE Max({t, OpeningOf(Min(ahead))})

-----------------------------------------------------------------------------
Calculating == deadline # None /\ deadline.due = None

BeginDeadline(from, hours) ==
    /\ phase = "accepted" /\ deadline = None
    /\ deadline' = [from |-> from, hours |-> hours, remaining |-> hours,
                    local |-> IF config.calendar = None THEN from ELSE NextOpen(from),
                    due |-> IF config.calendar = None THEN from + hours ELSE None]
    /\ UNCHANGED vars

SkipDay ==
    /\ Calculating
    /\ ~OpenDay(DayOf(deadline.local))
    /\ deadline' = [deadline EXCEPT !.local = NextOpen(@ + Day)]
    /\ UNCHANGED vars

(* What is left of the day; a negative rest counts as none.                *)
Available == ClosingOf(DayOf(deadline.local)) - deadline.local

FinishDeadline ==
    /\ Calculating
    /\ OpenDay(DayOf(deadline.local))
    /\ deadline.remaining <= Available
    /\ deadline' = [deadline EXCEPT !.due = deadline.local + deadline.remaining]
    /\ UNCHANGED vars

\* Variant: the search for the next day begins where the day began.
SpendDayStanding ==
    /\ Calculating
    /\ OpenDay(DayOf(deadline.local))
    /\ deadline.remaining > Available
    /\ deadline' = [deadline EXCEPT !.local = NextOpen(@)]
    /\ UNCHANGED vars

SpendDay ==
    /\ Calculating
    /\ OpenDay(DayOf(deadline.local))
    /\ deadline.remaining > Available
    /\ deadline' = [deadline EXCEPT
           !.remaining = @ - Max({Available, 0}),
           !.local     = NextOpen(ClosingOf(DayOf(@)) + 1)]
    /\ UNCHANGED vars

-----------------------------------------------------------------------------
DefinitionInit == Init /\ deadline = None

DefinitionNext ==
    \/ Next /\ UNCHANGED deadline
    \/ \E from \in Starts, hours \in Hours : BeginDeadline(from, hours)
    \/ SkipDay \/ SpendDay \/ FinishDeadline

(* Both are calls: they run until they return or raise.                    *)
DefinitionSpec ==
    DefinitionInit /\ [][DefinitionNext]_allVars /\ WF_allVars(DefinitionNext)

-----------------------------------------------------------------------------
(* Reference: the steps of service, one by one.                            *)
InService(t) ==
    config.calendar = None \/ (OpenDay(DayOf(t)) /\ t % Day \in Opens..Closes - 1)

(* "Stage/overall deadlines use business time rather than raw wall-clock   *)
(* addition" (README.md:91): between the start and the deadline there are  *)
(* exactly the hours of service that were asked for, and the deadline is   *)
(* not put off to a moment after the last of them.                         *)
DueIsExact ==
    deadline # None /\ deadline.due # None =>
        /\ Cardinality({t \in deadline.from..deadline.due - 1 : InService(t)}) = deadline.hours
        /\ InService(deadline.due - 1)

(* "Due dates are calculated in business time"                             *)
(* (docs/WORKFLOW_CONFIGURATION.md:37): for a definition that validation   *)
(* has accepted the calculation, which holds the write lock, ends.         *)
DeadlineEnds == (deadline # None) ~> (deadline # None /\ deadline.due # None)
=============================================================================
