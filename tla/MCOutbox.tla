------------------------------ MODULE MCOutbox ------------------------------
(* Values of the constants of Outbox: an SLA scan that goes first and may  *)
(* enqueue a notification, and one connector job.                          *)
EXTENDS Outbox, TLC

CONSTANTS scan, notice, hook

MCJobs   == {scan, notice, hook}
MCRank   == (scan :> 10) @@ (notice :> 50) @@ (hook :> 40)
MCSpawns == (scan :> {notice}) @@ (notice :> {}) @@ (hook :> {})
=============================================================================
