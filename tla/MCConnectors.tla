---------------------------- MODULE MCConnectors ----------------------------
(* One webhook execution and one local (log or email) execution.           *)
EXTENDS Connectors, TLC

CONSTANTS hook, note

MCJobs   == {hook, note}
MCRank   == (hook :> 40) @@ (note :> 40)
MCSpawns == (hook :> {}) @@ (note :> {})
=============================================================================
