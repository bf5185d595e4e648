-------------------------- MODULE MCWorkflowVersions --------------------------
EXTENDS WorkflowVersions

Approval(key, role) == [stage |-> "review", key |-> key, role |-> role]
Rule(when, actions, stop) == [when |-> when, actions |-> actions, stop |-> stop]

\* One configuration for everybody, one that starts with a part of the
\* requests; the latter names a baseline that may or may not exist.
MCConfigs ==
    {[partial |-> FALSE, baseline |-> 0, approvals |-> {Approval("lead", "Lead")},
      rules |-> TRUE],
     [partial |-> TRUE, baseline |-> 2, approvals |-> {}, rules |-> TRUE]}

\* The second list asks again for what the workflow or an earlier rule asks.
MCRuleLists ==
    {<<Rule({"large"}, <<Approval("risk", "Risk")>>, TRUE),
       Rule({}, <<Approval("lead", "Manager")>>, FALSE)>>,
     <<Rule({"large"}, <<Approval("risk", "Risk"), Approval("lead", "Risk")>>, FALSE),
       Rule({"large"}, <<Approval("risk", "Lead")>>, FALSE)>>}
=============================================================================
