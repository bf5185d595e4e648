--------------------------- MODULE MCCaseLifecycle ---------------------------
(***************************************************************************)
(* Small workflows in the shape of src/examples: a stage to work in, a     *)
(* stage with approvals that can send the case back, and terminal stages.  *)
(***************************************************************************)
EXTENDS CaseLifecycle

Step(s, t)   == [from |-> s, to |-> t, gated |-> FALSE, family |-> FALSE]
Gate(s, t)   == [from |-> s, to |-> t, gated |-> TRUE, family |-> TRUE]

Workflow(extra, asks) ==
    [stages   |-> {"work", "review", "done", "dropped"},
     initial  |-> "work",
     terminal |-> {"done", "dropped"},
     edges    |-> {Step("work", "review"), Step("review", "work"),
                   Gate("review", "done")} \cup extra,
     asks     |-> asks]

MCStages  == {"work", "review", "done", "dropped"}
MCAskedAt == [a \in Approvals |-> "review"]

Drop == {Step("work", "dropped")}

\* Revision 2 asks for fewer approvals, for more, or adds a way out.
Relaxed   == <<Workflow(Drop, {"legal", "risk"}), Workflow(Drop, {"risk"})>>
Tightened == <<Workflow(Drop, {"risk"}), Workflow(Drop, {"legal", "risk"})>>
Rerouted  == <<Workflow({}, {"risk"}), Workflow(Drop, {"risk"})>>
NoDrop    == <<Workflow({}, {"risk"})>>

\* Revision 2 ends with the review.
Shortened ==
    <<Workflow(Drop, {"risk"}),
      [stages   |-> {"work", "review", "dropped"},
       initial  |-> "work",
       terminal |-> {"review", "dropped"},
       edges    |-> Drop \cup {Step("work", "review")},
       asks     |-> {"risk"}]>>

Upgrade == {<<1, 2>>}
NoUpgrade == {}
=============================================================================
