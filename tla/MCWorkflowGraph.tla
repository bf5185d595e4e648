--------------------------- MODULE MCWorkflowGraph ---------------------------
(***************************************************************************)
(* Every graph over three stages, with any terminal stages and any initial *)
(* one, one sound workflow with each kind of fault in its lists, and the   *)
(* same workflow with business calendars.                                  *)
(***************************************************************************)
EXTENDS ServiceCalendar

MCKeys == {"a", "b", "c"}

Node(k, terminal) ==
    [key |-> k, terminal |-> terminal, hours |-> 0, approvals |-> << >>, on |-> {}]

AllPairs == <<<<"a", "a">>, <<"a", "b">>, <<"a", "c">>, <<"b", "a">>, <<"b", "b">>,
              <<"b", "c">>, <<"c", "a">>, <<"c", "b">>, <<"c", "c">>>>

Graph(stages, terminal, edges, start) ==
    [version |-> 1, total |-> 0, rollout |-> 100, baseline |-> None, fields |-> <<"a">>,
     calendar |-> None,
     stages |-> [i \in 1..Len(stages) |-> Node(stages[i], stages[i] \in terminal)],
     transitions |-> SelectSeq(AllPairs, LAMBDA e : e \in edges), initial |-> start]

Graphs ==
    {Graph(stages, T, E, start) :
        stages \in {<<"a", "b", "c">>, <<"a", "b">>}, T \in SUBSET MCKeys,
        E \in SUBSET (MCKeys \X MCKeys), start \in {"a"}}

Sample == Graph(<<"a", "b">>, {"b"}, {<<"a", "b">>}, "a")

Faulty ==
    {[Sample EXCEPT !.version = v] : v \in {0, 2}} \cup
    {[Sample EXCEPT !.total = h] : h \in {-1, 8}} \cup
    {[Sample EXCEPT !.rollout = r] : r \in {-1, 0, 101}} \cup
    {[Sample EXCEPT !.baseline = b] : b \in {0, 1}} \cup
    {[Sample EXCEPT !.fields = <<"a", "a">>],
     [Sample EXCEPT !.initial = "c"],
     [Sample EXCEPT !.stages = SubSeq(@, 1, 1)],
     [Sample EXCEPT !.stages = @ \o @],
     [Sample EXCEPT !.stages[1].hours = -1],
     [Sample EXCEPT !.stages[1].approvals = <<"a", "b", "a">>],
     [Sample EXCEPT !.stages[1].on = {"b"}],
     [Sample EXCEPT !.transitions = @ \o @],
     [Sample EXCEPT !.transitions = << >>]} \cup
    {[Sample EXCEPT !.calendar = [days |-> d, start |-> 1, end |-> 3, holidays |-> {}]] :
        d \in {{}, {3}, {-1, 1}}}

\* Days of six hours with service from 1 to 3 unless configured otherwise, weeks of
\* three days; the last holidays are more days than the search for an open one sees.
Calendars(starts) ==
    [days : {{0}, {1, 2}, {0, 1, 2}}, start : starts, end : {2, 4, 5, None},
     holidays : {{}, {1}, {3, 4}, 0..8}]

WithCalendar(starts) == {[Sample EXCEPT !.calendar = c] : c \in Calendars(starts)}

MCDefinitions == Graphs \cup Faulty \cup WithCalendar({0, 2, None})

\* Service that begins after the default end, such as a night shift.
NightDefinitions == WithCalendar({5})
=============================================================================
