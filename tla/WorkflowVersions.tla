--------------------------- MODULE WorkflowVersions ---------------------------
(***************************************************************************)
(* The revisions of one workflow and the requests opened under them:       *)
(* import (src/app/services/workflow_engine.py), draft, publication,       *)
(* rollout and migration (src/app/services/workflow_versions.py), and the  *)
(* business rules that are evaluated at intake (src/app/services/rules.py).*)
(*                                                                         *)
(* A configuration is what these parts look at: its rollout policy, its    *)
(* approvals and the rule sets it names.  Its version number is kept next  *)
(* to it.  The pages load the workflow and the draft and then take the     *)
(* write lock; Overlap says whether another page may act in between, as    *)
(* it may between two processes on PostgreSQL.                             *)
(***************************************************************************)
EXTENDS Integers, FiniteSets, Sequences, SequencesExt

CONSTANTS
    Configs,        \* [partial: BOOLEAN, baseline: version or 0, approvals, rules]
    RuleLists,      \* sequences of rules [when, actions, stop] that are saved
    Facts,          \* what a condition can ask of a request
    Admins,         \* pages in flight
    Cases,          \* requests that are opened
    Overlap,        \* may pages of two processes overlap?
    MaxVersion,     \* bound on version numbers
    None

Approvals == [stage : STRING, key : STRING, role : STRING]
Rules     == [when : SUBSET Facts, actions : Seq(Approvals), stop : BOOLEAN]

ASSUME VersionsAssumption ==
    /\ \A c \in Configs : c \in [partial : BOOLEAN, baseline : Nat,
                                approvals : SUBSET Approvals, rules : BOOLEAN]
    /\ \A c \in Configs : IsFiniteSet(c.approvals)
    /\ \A c \in Configs : \A x, y \in c.approvals : x.stage = y.stage /\ x.key = y.key => x = y
    /\ \A list \in RuleLists : list \in Seq(Rules)
    /\ Overlap \in BOOLEAN /\ MaxVersion \in Nat \ {0}
    /\ IsFiniteSet(Cases)

VARIABLES
    wf,         \* the active definition: [version, config]
    revs,       \* the rows of workflow_revisions, by id
    page,       \* page[a]: what a's page has loaded, or None
    rules,      \* the rules of the rule set that configurations name, or None
    cases,      \* the snapshot of each request, or None
    active,     \* history: every [version, config] that has been active
    overDraft   \* history: versions that were imported while a draft had them

vars == <<wf, revs, page, rules, cases, active, overDraft>>

Versions == 1..MaxVersion
Row(v, status, c) == [version |-> v, status |-> status, config |-> c]
Content(row) == [version |-> row.version, config |-> row.config]

Ids == DOMAIN revs
AtVersion(R, v) == {i \in DOMAIN R : R[i].version = v}
Drafts == {i \in Ids : revs[i].status = "Draft"}

\* The greatest version of a revision, as func.max.
Greatest(R) == LET V == {R[i].version : i \in DOMAIN R} IN CHOOSE v \in V : \A w \in V : w <= v

-----------------------------------------------------------------------------
(* A database older than the revisions has a workflow without any.         *)
Init ==
    /\ wf \in [version : {1}, config : Configs]
    /\ revs \in {<< >>, <<Row(1, "Published", wf.config)>>}
    /\ page = [a \in Admins |-> None]
    /\ rules = None
    /\ cases = [c \in Cases |-> None]
    /\ active = {wf}
    /\ overDraft = {}

(* ensure_published_revision: a row of that version, whatever its status.  *)
Ensured(R, w) ==
    IF AtVersion(R, w.version) = {} THEN Append(R, Row(w.version, "Published", w.config))
    ELSE R

\* No other page is between its loads and its commit.
Alone == Overlap \/ \A a \in Admins : page[a] = None

Open(a) ==
    /\ page[a] = None
    /\ Alone
    /\ page' = [page EXCEPT ![a] =
           [wf |-> wf,
            draft |-> IF Drafts = {} THEN None ELSE CHOOSE i \in Drafts : TRUE,
            row |-> IF Drafts = {} THEN None ELSE revs[CHOOSE i \in Drafts : TRUE]]]
    /\ UNCHANGED <<wf, revs, rules, cases, active, overDraft>>

Close(a) == page' = [page EXCEPT ![a] = None]

(* The page of the workflow; or a form that is refused and rolled back.    *)
Show(a) ==
    /\ page[a] # None
    /\ revs' \in {revs, Ensured(revs, page[a].wf)}
    /\ Close(a)
    /\ UNCHANGED <<wf, rules, cases, active, overDraft>>

-----------------------------------------------------------------------------
\* Variant: the draft keeps the number of the form.
SaveDraftUnder(a, c, asked) ==
    /\ page[a] # None
    /\ LET R == Ensured(revs, page[a].wf)
           v == asked
           row == Row(v, "Draft", c)
       IN  /\ v <= MaxVersion
           /\ revs' = IF Drafts = {} THEN Append(R, row)
                      ELSE [R EXCEPT ![CHOOSE i \in Drafts : TRUE] = row]
    /\ Close(a)
    /\ UNCHANGED <<wf, rules, cases, active, overDraft>>

(* save_draft: asked is the version number in the text of the form.  The   *)
(* one draft is overwritten.                                               *)
SaveDraft(a, c, asked) ==
    /\ page[a] # None
    /\ LET R == Ensured(revs, page[a].wf)
           desired == IF asked > page[a].wf.version + 1 THEN asked ELSE page[a].wf.version + 1
           v == IF AtVersion(R, desired) \subseteq Drafts THEN desired ELSE Greatest(R) + 1
           row == Row(v, "Draft", c)
       IN  /\ v <= MaxVersion
           /\ revs' = IF Drafts = {} THEN Append(R, row)
                      ELSE [R EXCEPT ![CHOOSE i \in Drafts : TRUE] = row]
    /\ Close(a)
    /\ UNCHANGED <<wf, rules, cases, active, overDraft>>

\* Every row that is Published becomes Archived.
Archived(R) ==
    [i \in DOMAIN R |-> IF R[i].status = "Published" THEN [R[i] EXCEPT !.status = "Archived"]
                        ELSE R[i]]

PublishedVersion(a) ==
    LET next == IF page[a].row.version > page[a].wf.version
                THEN page[a].row.version ELSE page[a].wf.version + 1
    IN  IF AtVersion(revs, next) \subseteq {page[a].draft} THEN next ELSE Greatest(revs) + 1

Activate(w) ==
    /\ w.version <= MaxVersion
    /\ wf' = w
    /\ active' = active \cup {w}

\* Variant: the draft keeps its number.
PublishAsNumbered(a) ==
    /\ page[a] # None /\ page[a].draft # None
    /\ LET w == Content(page[a].row) IN
        /\ Activate(w)
        /\ revs' = [Archived(revs) EXCEPT ![page[a].draft] = Row(w.version, "Published", w.config)]
    /\ Close(a)
    /\ UNCHANGED <<rules, cases, overDraft>>

\* Variant: the revision before stays Published.
PublishBeside(a) ==
    /\ page[a] # None /\ page[a].draft # None
    /\ LET w == [version |-> PublishedVersion(a), config |-> page[a].row.config] IN
        /\ Activate(w)
        /\ revs' = [revs EXCEPT ![page[a].draft] = Row(w.version, "Published", w.config)]
    /\ Close(a)
    /\ UNCHANGED <<rules, cases, overDraft>>

(* publish_draft: the draft as it was loaded.                              *)
Publish(a) ==
    /\ page[a] # None /\ page[a].draft # None
    /\ LET w == [version |-> PublishedVersion(a), config |-> page[a].row.config] IN
        /\ Activate(w)
        /\ revs' = [Archived(revs) EXCEPT ![page[a].draft] = Row(w.version, "Published", w.config)]
    /\ Close(a)
    /\ UNCHANGED <<rules, cases, overDraft>>

\* Variant: the revision that is replaced is overwritten.
ImportOver(c, v) ==
    /\ Alone
    /\ v > wf.version
    /\ Activate([version |-> v, config |-> c])
    /\ LET R == Ensured(revs, wf)
           prior == CHOOSE i \in AtVersion(R, wf.version) : TRUE
       IN  revs' = [R EXCEPT ![prior] = Row(v, "Published", c)]
    /\ overDraft' = overDraft \cup {revs[i].version : i \in Drafts \cap AtVersion(revs, v)}
    /\ UNCHANGED <<page, rules, cases>>

(* import_workflow_definition under the lock: an older version is refused, *)
(* and so is another text of the same version.                             *)
Import(c, v) ==
    /\ Alone
    /\ v > wf.version
    /\ Activate([version |-> v, config |-> c])
    /\ LET R == Ensured(revs, wf)
           prior == CHOOSE i \in AtVersion(R, wf.version) : TRUE
       IN  revs' = Ensured([R EXCEPT ![prior].status = "Archived"], wf')
    /\ overDraft' = overDraft \cup {revs[i].version : i \in Drafts \cap AtVersion(revs, v)}
    /\ UNCHANGED <<page, rules, cases>>

-----------------------------------------------------------------------------
(* select_deployed_config; current says on which side of the percentage    *)
(* the requester's hash falls.                                             *)
Before(v) == {i \in Ids : revs[i].version < v}

Baseline ==
    IF AtVersion(revs, wf.config.baseline) # {} THEN AtVersion(revs, wf.config.baseline)
    ELSE {i \in Before(wf.version) :
            \A j \in Before(wf.version) : revs[j].version <= revs[i].version}

Deployed(current) ==
    IF ~wf.config.partial \/ Baseline = {} \/ current THEN wf
    ELSE Content(revs[CHOOSE i \in Baseline : TRUE])

(* evaluate_rule_sets: the rules in order, until one that matches stops.   *)
RuleMatches(rule, request) == rule.when \subseteq request

\* Variant: a rule that stops does so whether or not it matches.
FiredUntilStop(list, request) ==
    FoldLeft(LAMBDA acc, rule :
                 IF acc.stopped THEN acc
                 ELSE [fired |-> IF RuleMatches(rule, request) THEN Append(acc.fired, rule)
                                 ELSE acc.fired,
                       stopped |-> rule.stop],
             [fired |-> << >>, stopped |-> FALSE], list).fired

\* The rules of the list that fire, in order.
Fired(list, request) ==
    FoldLeft(LAMBDA acc, rule :
                 IF acc.stopped \/ ~RuleMatches(rule, request) THEN acc
                 ELSE [fired |-> Append(acc.fired, rule), stopped |-> rule.stop],
             [fired |-> << >>, stopped |-> FALSE], list).fired

\* An action that requires an approval adds it unless the stage has its key.
Required(approvals, action) ==
    IF \E x \in approvals : x.stage = action.stage /\ x.key = action.key THEN approvals
    ELSE approvals \cup {action}

RequireAll(approvals, rule) == FoldLeft(Required, approvals, rule.actions)

Evaluate(config, request) ==
    IF ~config.rules \/ rules = None THEN config.approvals
    ELSE FoldLeft(RequireAll, config.approvals, Fired(rules, request))

(* preview_rules: the rules that the playground explains, which are those  *)
(* that match up to the first one of them that stops.                      *)
Preview(list, request) ==
    LET matched == {i \in DOMAIN list : RuleMatches(list[i], request)}
    IN  {list[i] : i \in {j \in matched : \A k \in matched : list[k].stop => j <= k}}

(* create_case, as far as the snapshot is concerned.                       *)
CreateCase(c, request, current) ==
    /\ cases[c] = None
    /\ LET from == Deployed(current) IN
        cases' = [cases EXCEPT ![c] =
            [from |-> from, approvals |-> Evaluate(from.config, request),
             request |-> request, rules |-> rules, migrated |-> FALSE]]
    /\ UNCHANGED <<wf, revs, page, rules, active, overDraft>>

(* migrate_case_snapshot: the active definition, without the rules.        *)
Migrate(c) ==
    /\ cases[c] # None
    /\ cases' = [cases EXCEPT ![c].from = wf, ![c].approvals = wf.config.approvals,
                              ![c].migrated = TRUE]
    /\ UNCHANGED <<wf, revs, page, rules, active, overDraft>>

(* save_rule_set                                                           *)
SaveRules(list) ==
    /\ rules' = list
    /\ UNCHANGED <<wf, revs, page, cases, active, overDraft>>

Next ==
    \/ \E a \in Admins :
          \/ Open(a) \/ Show(a) \/ Publish(a)
          \/ \E c \in Configs, asked \in Versions : SaveDraft(a, c, asked)
    \/ \E c \in Configs, v \in Versions : Import(c, v)
    \/ \E c \in Cases : \/ \E request \in SUBSET Facts, current \in BOOLEAN :
                              CreateCase(c, request, current)
                        \/ Migrate(c)
    \/ \E list \in RuleLists : SaveRules(list)

Spec == Init /\ [][Next]_vars

-----------------------------------------------------------------------------
Content0 == [version : Versions, config : Configs]

TypeOK ==
    /\ wf \in Content0
    /\ \A i \in Ids : /\ Content(revs[i]) \in Content0
                      /\ revs[i].status \in {"Draft", "Published", "Archived"}
    /\ rules \in RuleLists \cup {None}
    /\ active \subseteq Content0
    /\ \A c \in Cases : cases[c] # None => cases[c].from \in Content0

(* No save, publication or import can fail because its number is taken     *)
(* (uq_workflow_revision_version, models.py:60).                           *)
RevisionsUnique == \A i, j \in Ids : revs[i].version = revs[j].version => i = j

(* "WorkflowDefinition is the current published definition;                *)
(* WorkflowRevision holds draft/published history" (ARCHITECTURE.md:64):   *)
(* the revision that is marked as published is the active definition.      *)
PublishedIsActive ==
    \A i \in Ids : revs[i].status = "Published" => Content(revs[i]) = wf

(* Whatever was active stays on record as it was, except where an import   *)
(* took the number of a draft.                                             *)
HistoryIsComplete ==
    \A w \in active \ {wf} :
        w.version \in overDraft \/ \E i \in Ids : Content(revs[i]) = w

(* The active version only ever grows, and a revision that is no draft any *)
(* more is frozen: "increment version before changing it"                  *)
(* (workflow_engine.py:283).                                               *)
VersionsOnlyGrow ==
    [][/\ wf' # wf => wf'.version > wf.version
       /\ \A i \in Ids : revs[i].status # "Draft" =>
              Content(revs'[i]) = Content(revs[i]) /\ revs'[i].status # "Draft"]_vars

(* "Explain which declarative rules would fire" (rules.py:143): a case has *)
(* the approvals of its revision and, once each, those that the playground *)
(* explains for the same rules and the same request.                       *)
Explained(case) ==
    IF ~case.from.config.rules \/ case.rules = None THEN {}
    ELSE UNION {Range(r.actions) : r \in Preview(case.rules, case.request)}

Keys(approvals) == {<<x.stage, x.key>> : x \in approvals}

RulesAsExplained ==
    \A c \in Cases : cases[c] # None /\ ~cases[c].migrated =>
        /\ cases[c].from.config.approvals \subseteq cases[c].approvals
        /\ Keys(cases[c].approvals)
               = Keys(cases[c].from.config.approvals) \cup Keys(Explained(cases[c]))
        /\ Cardinality(cases[c].approvals) = Cardinality(Keys(cases[c].approvals))

(* "Select the active or baseline published revision"                      *)
(* (workflow_versions.py:150).                                             *)
BaselineWasPublished ==
    \A c \in Cases : cases[c] # None => cases[c].from \in active
=============================================================================
