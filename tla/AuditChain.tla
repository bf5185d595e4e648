------------------------------ MODULE AuditChain ------------------------------
(***************************************************************************)
(* The activity history of one case (src/app/services/audit.py): entries   *)
(* that carry the hash of the entry before them, appended by request       *)
(* handlers, the scan and connectors, each inside its own transaction, and *)
(* the verification that walks the chain.                                  *)
(*                                                                         *)
(* SHA-256 is taken to be free of collisions: the hash of a payload after  *)
(* previous_hash is the sequence of all payloads up to it.  A payload      *)
(* holds what happened and when; no two are written at the same time.      *)
(* On SQLite a transaction has database_write_lock() (Serialized); on      *)
(* PostgreSQL nothing keeps two of them apart, except that a handler in    *)
(* Updaters has flushed the case row before it appends.                    *)
(***************************************************************************)
EXTENDS Integers, Sequences

CONSTANTS
    Sessions,       \* handlers that may append at the same time
    Updaters,       \* those that update the case row first
    Events,         \* what an entry can be about
    Serialized,     \* is the write lock in use?
    MaxEntries,     \* bound on the entries ever written
    MaxTampers,     \* bound on the changes made behind the application
    None

ASSUME TrailAssumption ==
    /\ Updaters \subseteq Sessions
    /\ Serialized \in BOOLEAN
    /\ MaxEntries \in Nat /\ MaxTampers \in Nat

VARIABLES
    rows,       \* committed entries
    txn,        \* txn[s]: entries flushed but not committed, None outside
    last,       \* the id given last
    written,    \* written[i]: payload and previous hash that entry i was given
    tampers     \* changes made behind the application

trail == <<rows, txn, last, written, tampers>>

Body  == [what : Events, at : Nat]
Hash  == Seq(Body)
Entry == [id : Nat, body : Body, prev : Hash, hash : Hash]

-----------------------------------------------------------------------------
HashEntry(previous, body) == Append(previous, body)

\* The entry_hash of the newest of some entries, "" if there is none.
LatestHash(E) ==
    IF E = {} THEN << >>
    ELSE (CHOOSE e \in E : \A f \in E : f.id <= e.id).hash

Earlier(E, e) == {f \in E : f.id < e.id}

\* Variant: each entry is checked against the previous hash it carries.
VerifiesEach(E) == \A e \in E : e.hash = HashEntry(e.prev, e.body)

(* verify_case_audit_chain finds no problem: it goes through the entries   *)
(* by id and carries the entry_hash of each to the next.                   *)
Verifies(E) ==
    \A e \in E :
        /\ e.prev = LatestHash(Earlier(E, e))
        /\ e.hash = HashEntry(LatestHash(Earlier(E, e)), e.body)

-----------------------------------------------------------------------------
TrailInit ==
    /\ rows = {} /\ last = 0 /\ written = << >> /\ tampers = 0
    /\ txn = [s \in Sessions |-> None]

InTxn(s) == txn[s] # None

Begin(s) ==
    /\ txn[s] = None
    /\ \A r \in Sessions : InTxn(r) =>
         ~Serialized /\ ~({r, s} \subseteq Updaters)
    /\ txn' = [txn EXCEPT ![s] = {}]
    /\ UNCHANGED <<rows, last, written, tampers>>

(* append_activity: the query sees committed entries and, since append     *)
(* flushes, those of its own transaction.                                  *)
Appended(s, what, seen) ==
    LET body     == [what |-> what, at |-> last + 1]
        previous == LatestHash(seen)
    IN  /\ last < MaxEntries
        /\ last' = last + 1
        /\ written' = Append(written, [body |-> body, prev |-> previous])
        /\ txn' = [txn EXCEPT ![s] = @ \cup
              {[id |-> last + 1, body |-> body, prev |-> previous,
                hash |-> HashEntry(previous, body)]}]
        /\ UNCHANGED <<rows, tampers>>

\* Variant: the flush is missing, the query sees committed entries only.
AppendUnflushed(s, what) == InTxn(s) /\ Appended(s, what, rows)

AppendActivity(s, what) == InTxn(s) /\ Appended(s, what, rows \cup txn[s])

Commit(s) ==
    /\ InTxn(s)
    /\ rows' = rows \cup txn[s]
    /\ txn' = [txn EXCEPT ![s] = None]
    /\ UNCHANGED <<last, written, tampers>>

Rollback(s) ==
    /\ InTxn(s)
    /\ txn' = [txn EXCEPT ![s] = None]
    /\ UNCHANGED <<rows, last, written, tampers>>

(* An edit or deletion behind the application ("unexpected edits",         *)
(* audit.py:3), which leaves the stored hash as it is.                     *)
Edit(e, what, prev) ==
    /\ tampers < MaxTampers
    /\ tampers' = tampers + 1
    /\ rows' = (rows \ {e}) \cup {[e EXCEPT !.body.what = what, !.prev = prev]}
    /\ UNCHANGED <<txn, last, written>>

Delete(e) ==
    /\ tampers < MaxTampers
    /\ tampers' = tampers + 1
    /\ rows' = rows \ {e}
    /\ UNCHANGED <<txn, last, written>>

Tamper ==
    \E e \in rows :
        \/ \E what \in Events, f \in rows : Edit(e, what, f.hash)
        \/ \E what \in Events : Edit(e, what, e.prev)
        \/ Delete(e)

TrailNext ==
    \/ \E s \in Sessions :
         \/ Begin(s)
         \/ \E what \in Events : AppendActivity(s, what)
         \/ Commit(s)
         \/ Rollback(s)
    \/ Tamper

(* Processes die and roll back: every open transaction at once is several  *)
(* Rollback steps.                                                         *)
TrailSpec == TrailInit /\ [][TrailNext]_trail

-----------------------------------------------------------------------------
TrailTypeOK ==
    /\ rows \in SUBSET Entry
    /\ txn \in [Sessions -> (SUBSET Entry) \cup {None}]
    /\ last \in 0..MaxEntries
    /\ written \in Seq([body : Body, prev : Hash])
    /\ Len(written) = last
    /\ \A e \in rows : e.id \in 1..last
    /\ tampers \in 0..MaxTampers

(* "Application events are append-only and linked by SHA-256 hashes."      *)
(* (templates/case_detail.html:14): as long as nobody changes the history  *)
(* behind the application, its verification finds no problem, whoever      *)
(* appends, commits or rolls back in whatever order.                       *)
ChainVerifies == tampers = 0 => Verifies(rows)

(* "Activity hashes make unexpected application-level history edits        *)
(* detectable" (docs/SECURITY.md:97): in a history that verifies, every    *)
(* entry has the payload it was written with, and follows the same history *)
(* it was written after.  Entries missing at the end are not noticed.      *)
TamperEvident ==
    Verifies(rows) => \A e \in rows :
        /\ e.body = written[e.id].body
        /\ LatestHash(Earlier(rows, e)) = written[e.id].prev
=============================================================================
