--------------------------- MODULE EvidenceProofs ---------------------------
(***************************************************************************)
(* Proofs about AuditChain and Evidence for any number of handlers,        *)
(* uploads, entries and changes behind the application.                    *)
(***************************************************************************)
EXTENDS Evidence, WellFoundedInduction, SequenceTheorems, TLAPS

(***************************************************************************)
(* The newest entry.  LatestHash chooses it, so it has to exist.           *)
(***************************************************************************)
LEMMA LeastNat ==
  ASSUME NEW T \in SUBSET Nat, T # {}
  PROVE  \E m \in T : \A k \in T : m <= k
<1>1. PICK m \in T : \A k \in T : ~ (<<k, m>> \in OpToRel(<, Nat))
  BY NatLessThanWellFounded, WFMin, Zenon
<1>2. \A k \in T : ~(k < m)
  BY <1>1 DEF OpToRel
<1>3. QED
  BY <1>2

IdsUpTo(E, n) == \A e \in E : e.id \in 1..n

LEMMA NewestExists ==
  ASSUME NEW E, NEW n \in Nat, IdsUpTo(E, n), E # {}
  PROVE  \E e \in E : \A f \in E : f.id <= e.id
<1> DEFINE T == {n - e.id : e \in E}
<1>1. T \in SUBSET Nat /\ T # {}
  BY DEF IdsUpTo
<1>2. PICK m \in T : \A k \in T : m <= k
  <2> HIDE DEF T
  <2>1. QED
    BY <1>1, LeastNat
<1>3. PICK e \in E : m = n - e.id
  BY <1>2
<1>4. \A f \in E : n - e.id <= n - f.id
  BY <1>2, <1>3
<1>5. QED
  BY <1>4 DEF IdsUpTo

(* The hash that the next entry continues from is a hash.                  *)
LEMMA LatestHashType ==
  ASSUME NEW E \in SUBSET Entry, NEW n \in Nat, IdsUpTo(E, n)
  PROVE  LatestHash(E) \in Hash
<1>1. CASE E = {}
  BY <1>1 DEF LatestHash, Hash
<1>2. CASE E # {}
  <2>1. \E e \in E : \A f \in E : f.id <= e.id
    BY <1>2, NewestExists
  <2>2. (CHOOSE e \in E : \A f \in E : f.id <= e.id) \in E
    BY <2>1
  <2>3. QED
    BY <1>2, <2>2 DEF LatestHash, Entry
<1>3. QED
  BY <1>1, <1>2

(***************************************************************************)
(* One step of the trail: an action of TrailNext, or a kill, which rolls   *)
(* every open transaction back at once.                                    *)
(***************************************************************************)
Killed == txn' = [s \in Sessions |-> None] /\ UNCHANGED <<rows, last, written, tampers>>

TrailStep == TrailNext \/ Killed \/ UNCHANGED trail

LEMMA EvidenceStepsTrail == [EvidenceNext]_vars => TrailStep
<1> USE EvidenceAssumption DEF TrailStep, TrailNext
<1>1. ASSUME NEW u \in Uploads, HandleUpload(u) PROVE TrailStep
  BY <1>1 DEF HandleUpload, StartUpload, StoreUpload, RefuseUpload, BeginRecord,
     RecordUpload, CommitUpload, FailRecord, Damage
<1>2. ASSUME NEW s \in Sessions \ Uploads, OtherHandler(s) PROVE TrailStep
  BY <1>2 DEF OtherHandler
<1>3. CASE Crash
  BY <1>3 DEF Crash, Killed
<1>4. CASE DoctorCopies \/ DoctorChecks \/ ExportAttachments \/ ExportActivity
            \/ ExportVerification
  BY <1>4 DEF DoctorCopies, DoctorChecks, ExportAttachments, ExportActivity,
     ExportVerification
<1>5. CASE Tamper
  BY <1>5
<1>6. CASE UNCHANGED vars
  BY <1>6 DEF vars
<1>7. QED
  BY <1>1, <1>2, <1>3, <1>4, <1>5, <1>6 DEF EvidenceNext

(***************************************************************************)
(* Types.  Entries that are not committed have ids that were given, too.   *)
(***************************************************************************)
PendingIds == \A s \in Sessions : InTxn(s) => IdsUpTo(txn[s], last)

TrailShape == TrailTypeOK /\ PendingIds

LEMMA InitTrailShape == TrailInit => TrailShape
  BY TrailAssumption, EmptySeq
  DEF TrailInit, TrailShape, TrailTypeOK, PendingIds, InTxn

\* What append_activity adds.
NewEntry(s, what) ==
    LET previous == LatestHash(rows \cup txn[s])
        body     == [what |-> what, at |-> last + 1]
    IN  [id |-> last + 1, body |-> body, prev |-> previous,
         hash |-> HashEntry(previous, body)]

LEMMA AppendFacts ==
  ASSUME TrailShape, NEW s \in Sessions, NEW what \in Events, AppendActivity(s, what)
  PROVE  /\ last' = last + 1 /\ last \in Nat /\ last + 1 <= MaxEntries
         /\ rows \cup txn[s] \in SUBSET Entry /\ IdsUpTo(rows \cup txn[s], last)
         /\ NewEntry(s, what) \in Entry
         /\ txn' = [txn EXCEPT ![s] = @ \cup {NewEntry(s, what)}]
         /\ written' = Append(written, [body |-> NewEntry(s, what).body,
                                        prev |-> NewEntry(s, what).prev])
         /\ UNCHANGED <<rows, tampers>>
<1> USE TrailAssumption DEF TrailShape, TrailTypeOK
<1> DEFINE previous == LatestHash(rows \cup txn[s])
           body     == [what |-> what, at |-> last + 1]
<1>1. last \in Nat /\ last' = last + 1 /\ last + 1 <= MaxEntries
  BY DEF AppendActivity, Appended
<1>2. rows \cup txn[s] \in SUBSET Entry /\ IdsUpTo(rows \cup txn[s], last)
  BY DEF AppendActivity, InTxn, PendingIds, IdsUpTo
<1>3. previous \in Hash
  BY <1>1, <1>2, LatestHashType
<1>4. body \in Body
  BY <1>1 DEF Body
<1>5. HashEntry(previous, body) \in Hash
  BY <1>3, <1>4, AppendProperties DEF Hash, HashEntry
<1>6. NewEntry(s, what) \in Entry
  BY <1>1, <1>3, <1>4, <1>5 DEF NewEntry, Entry
<1>7. QED
  BY <1>1, <1>2, <1>6 DEF AppendActivity, Appended, NewEntry

LEMMA EditedEntry ==
  ASSUME NEW e \in Entry, NEW what \in Events, NEW prev \in Hash
  PROVE  LET x == [e EXCEPT !.body.what = what, !.prev = prev]
         IN  x \in Entry /\ x.id = e.id /\ x.hash = e.hash
  BY DEF Entry, Body

LEMMA TamperFacts ==
  ASSUME TrailShape, Tamper
  PROVE  /\ tampers' = tampers + 1 /\ tampers' \in 0..MaxTampers
         /\ UNCHANGED <<txn, last, written>>
         /\ \A x \in rows' : x \in Entry /\ \E e \in rows : x.id = e.id /\ x.hash = e.hash
<1> USE TrailAssumption DEF TrailShape, TrailTypeOK
<1>1. ASSUME NEW e \in rows, NEW what \in Events, NEW prev \in Hash, Edit(e, what, prev)
      PROVE  \A x \in rows' : x \in Entry /\ \E f \in rows : x.id = f.id /\ x.hash = f.hash
  <2> DEFINE x == [e EXCEPT !.body.what = what, !.prev = prev]
  <2>1. x \in Entry /\ x.id = e.id /\ x.hash = e.hash
    BY EditedEntry
  <2>2. rows' = (rows \ {e}) \cup {x}
    BY <1>1 DEF Edit
  <2> HIDE DEF x
  <2>3. QED
    BY <2>1, <2>2
<1>2. ASSUME NEW e \in rows, Delete(e)
      PROVE  \A x \in rows' : x \in Entry /\ \E f \in rows : x.id = f.id /\ x.hash = f.hash
  BY <1>2 DEF Delete
<1>3. \A e \in rows : e.hash \in Hash /\ e.prev \in Hash
  BY DEF Entry
<1>4. \A x \in rows' : x \in Entry /\ \E e \in rows : x.id = e.id /\ x.hash = e.hash
  BY <1>1, <1>2, <1>3 DEF Tamper
<1>5. tampers < MaxTampers /\ tampers' = tampers + 1 /\ UNCHANGED <<txn, last, written>>
  BY DEF Tamper, Edit, Delete
<1>6. QED
  BY <1>4, <1>5

LEMMA NextTrailShape == TrailShape /\ TrailStep => TrailShape'
<1> SUFFICES ASSUME TrailShape, TrailStep PROVE TrailShape'
  OBVIOUS
<1> USE TrailAssumption DEF TrailShape, TrailTypeOK, PendingIds, InTxn
<1>1. ASSUME NEW s \in Sessions, Begin(s) PROVE TrailShape'
  BY <1>1 DEF Begin, IdsUpTo
<1>2. ASSUME NEW s \in Sessions, NEW what \in Events, AppendActivity(s, what)
      PROVE  TrailShape'
  <2> DEFINE x == NewEntry(s, what)
             w == [body |-> x.body, prev |-> x.prev]
  <2>1. /\ last' = last + 1 /\ last \in Nat /\ last + 1 <= MaxEntries
        /\ rows \cup txn[s] \in SUBSET Entry /\ IdsUpTo(rows \cup txn[s], last)
        /\ x \in Entry /\ x.id = last + 1
        /\ txn' = [txn EXCEPT ![s] = @ \cup {x}]
        /\ written' = Append(written, w)
        /\ UNCHANGED <<rows, tampers>>
    BY <1>2, AppendFacts DEF NewEntry
  <2>2. w \in [body : Body, prev : Hash]
    BY <2>1 DEF Entry
  <2> HIDE DEF x, w
  <2>3. written' \in Seq([body : Body, prev : Hash]) /\ Len(written') = last'
    BY <2>1, <2>2, AppendProperties
  <2>4. txn' \in [Sessions -> (SUBSET Entry) \cup {None}]
    BY <2>1
  <2>5. \A e \in rows' : e.id \in 1..last'
    BY <2>1
  <2>6. PendingIds'
    BY <2>1 DEF IdsUpTo
  <2>7. rows' \in SUBSET Entry /\ last' \in 0..MaxEntries /\ tampers' \in 0..MaxTampers
    BY <2>1
  <2>8. QED
    BY <2>3, <2>4, <2>5, <2>6, <2>7 DEF PendingIds
<1>3. ASSUME NEW s \in Sessions, Commit(s) PROVE TrailShape'
  BY <1>3 DEF Commit, IdsUpTo
<1>4. ASSUME NEW s \in Sessions, Rollback(s) PROVE TrailShape'
  BY <1>4 DEF Rollback
<1>5. CASE Tamper
  <2>1. \A x \in rows' : x \in Entry /\ x.id \in 1..last
    BY <1>5, TamperFacts
  <2>2. QED
    BY <1>5, <2>1, TamperFacts
<1>6. CASE Killed
  BY <1>6 DEF Killed
<1>7. CASE UNCHANGED trail
  BY <1>7 DEF trail
<1>8. QED
  BY <1>1, <1>2, <1>3, <1>4, <1>5, <1>6, <1>7 DEF TrailStep, TrailNext

(***************************************************************************)
(* The chain, when no two transactions of the trail are open at once: the  *)
(* write lock sees to that, or each handler updates the case row first.    *)
(* Whoever has a transaction open continues the committed chain.           *)
(***************************************************************************)
OneAtATime == Serialized \/ Updaters = Sessions

SoleWriter == \A r, s \in Sessions : InTxn(r) /\ InTxn(s) => r = s

Continues ==
    tampers = 0 =>
        /\ Verifies(rows)
        /\ \A s \in Sessions : InTxn(s) => Verifies(rows \cup txn[s])

ChainInv == SoleWriter /\ Continues

LEMMA InitChain == TrailInit => ChainInv
  BY DEF TrailInit, ChainInv, SoleWriter, Continues, InTxn, Verifies

(* An entry with a new greatest id leaves what is before the others as it  *)
(* was, and has all of them before it.                                     *)
LEMMA VerifiesExtends ==
  ASSUME NEW E, NEW n \in Nat, IdsUpTo(E, n), Verifies(E), NEW x,
         x.id = n + 1, x.prev = LatestHash(E),
         x.hash = HashEntry(LatestHash(E), x.body)
  PROVE  Verifies(E \cup {x})
<1>1. ASSUME NEW e \in E PROVE Earlier(E \cup {x}, e) = Earlier(E, e)
  BY DEF Earlier, IdsUpTo
<1>2. Earlier(E \cup {x}, x) = E
  BY DEF Earlier, IdsUpTo
<1>3. QED
  BY <1>1, <1>2 DEF Verifies

LEMMA NextChain ==
  ASSUME OneAtATime, TrailShape, ChainInv, TrailStep
  PROVE  ChainInv'
<1> USE DEF ChainInv, SoleWriter, Continues, InTxn
<1>0. txn \in [Sessions -> (SUBSET Entry) \cup {None}] /\ tampers \in Nat
  BY TrailAssumption DEF TrailShape, TrailTypeOK
<1>1. ASSUME NEW s \in Sessions, Begin(s) PROVE ChainInv'
  <2>1. \A r \in Sessions : ~InTxn(r)
    BY <1>1, TrailAssumption DEF Begin, OneAtATime
  <2>2. rows \cup txn'[s] = rows
    BY <1>0, <1>1 DEF Begin
  <2>3. QED
    BY <1>0, <1>1, <2>1, <2>2 DEF Begin
<1>2. ASSUME NEW s \in Sessions, NEW what \in Events, AppendActivity(s, what)
      PROVE  ChainInv'
  <2> DEFINE x == NewEntry(s, what)
             E == rows \cup txn[s]
  <2>1. /\ last \in Nat /\ IdsUpTo(E, last)
        /\ x.id = last + 1 /\ x.prev = LatestHash(E)
        /\ x.hash = HashEntry(LatestHash(E), x.body)
        /\ txn' = [txn EXCEPT ![s] = @ \cup {x}]
        /\ UNCHANGED <<rows, tampers>>
    BY <1>2, AppendFacts DEF NewEntry
  <2>2. InTxn(s)
    BY <1>2 DEF AppendActivity
  <2> HIDE DEF x
  <2>3. rows \cup txn'[s] = E \cup {x}
    BY <1>0, <2>1
  <2>4. tampers = 0 => Verifies(E)
    BY <2>2
  <2> HIDE DEF E
  <2>5. tampers = 0 => Verifies(rows \cup txn'[s])
    BY <2>1, <2>3, <2>4, VerifiesExtends
  <2>6. \A r \in Sessions : r # s => ~InTxn(r)'
    BY <1>0, <2>1, <2>2
  <2>7. QED
    BY <2>1, <2>5, <2>6
<1>3. ASSUME NEW s \in Sessions, Commit(s) PROVE ChainInv'
  <2>1. \A r \in Sessions : ~InTxn(r)'
    BY <1>0, <1>3 DEF Commit
  <2>2. tampers = 0 => Verifies(rows')
    BY <1>3 DEF Commit
  <2>3. QED
    BY <1>3, <2>1, <2>2 DEF Commit
<1>4. ASSUME NEW s \in Sessions, Rollback(s) PROVE ChainInv'
  BY <1>0, <1>4 DEF Rollback
<1>5. CASE Tamper
  BY <1>0, <1>5, TamperFacts
<1>6. CASE Killed
  BY <1>6 DEF Killed
<1>7. CASE UNCHANGED trail
  BY <1>7 DEF trail
<1>8. QED
  BY <1>1, <1>2, <1>3, <1>4, <1>5, <1>6, <1>7 DEF TrailStep, TrailNext

(***************************************************************************)
(* Tampering.  An entry keeps the id and the hash it was written with,     *)
(* whatever else is changed, and a hash determines what it was made of.    *)
(***************************************************************************)
HashOfWritten(W, e) == e.hash = HashEntry(W[e.id].prev, W[e.id].body)

AsWritten ==
    /\ \A e \in rows : HashOfWritten(written, e)
    /\ \A s \in Sessions : InTxn(s) => \A e \in txn[s] : HashOfWritten(written, e)

LEMMA InitAsWritten == TrailInit => AsWritten
  BY DEF TrailInit, AsWritten, InTxn

LEMMA NextAsWritten ==
  ASSUME TrailShape, AsWritten, TrailStep
  PROVE  AsWritten'
<1> USE DEF AsWritten, InTxn
<1>0. /\ txn \in [Sessions -> (SUBSET Entry) \cup {None}]
      /\ written \in Seq([body : Body, prev : Hash]) /\ Len(written) = last
      /\ \A e \in rows : e.id \in 1..last
      /\ \A s \in Sessions : txn[s] # None => \A e \in txn[s] : e.id \in 1..last
  BY DEF TrailShape, TrailTypeOK, PendingIds, IdsUpTo
<1>1. ASSUME NEW s \in Sessions, Begin(s) PROVE AsWritten'
  BY <1>0, <1>1 DEF Begin, HashOfWritten
<1>2. ASSUME NEW s \in Sessions, NEW what \in Events, AppendActivity(s, what)
      PROVE  AsWritten'
  <2> DEFINE x == NewEntry(s, what)
             w == [body |-> x.body, prev |-> x.prev]
  <2>1. /\ x.id = last + 1 /\ x.hash = HashEntry(x.prev, x.body)
        /\ w.body = x.body /\ w.prev = x.prev
        /\ x \in Entry
        /\ txn' = [txn EXCEPT ![s] = @ \cup {x}]
        /\ written' = Append(written, w)
        /\ UNCHANGED rows
    BY <1>2, AppendFacts DEF NewEntry
  <2>2. w \in [body : Body, prev : Hash]
    BY <2>1 DEF Entry
  <2>3. InTxn(s)
    BY <1>2 DEF AppendActivity
  <2> HIDE DEF x, w
  <2>4. written'[last + 1] = w /\ \A i \in 1..last : written'[i] = written[i]
    BY <1>0, <2>1, <2>2, AppendProperties
  <2>5. HashOfWritten(written', x)
    BY <2>1, <2>4 DEF HashOfWritten
  <2>6. \A e : e.id \in 1..last /\ HashOfWritten(written, e) => HashOfWritten(written', e)
    BY <2>4 DEF HashOfWritten
  <2>7. \A e \in rows' : HashOfWritten(written', e)
    BY <1>0, <2>1, <2>6
  <2>8. ASSUME NEW r \in Sessions, InTxn(r)', NEW e \in txn'[r] PROVE HashOfWritten(written', e)
    BY <1>0, <2>1, <2>3, <2>5, <2>6, <2>8
  <2>9. QED
    BY <2>7, <2>8
<1>3. ASSUME NEW s \in Sessions, Commit(s) PROVE AsWritten'
  BY <1>0, <1>3 DEF Commit, HashOfWritten
<1>4. ASSUME NEW s \in Sessions, Rollback(s) PROVE AsWritten'
  BY <1>0, <1>4 DEF Rollback, HashOfWritten
<1>5. CASE Tamper
  BY <1>5, TamperFacts DEF HashOfWritten
<1>6. CASE Killed
  BY <1>6 DEF Killed, HashOfWritten
<1>7. CASE UNCHANGED trail
  BY <1>7 DEF trail, HashOfWritten
<1>8. QED
  BY <1>1, <1>2, <1>3, <1>4, <1>5, <1>6, <1>7 DEF TrailStep, TrailNext

LEMMA AsWrittenIsEvident == TrailShape /\ AsWritten => TamperEvident
<1> SUFFICES ASSUME TrailShape, AsWritten, Verifies(rows), NEW e \in rows
             PROVE  /\ e.body = written[e.id].body
                    /\ LatestHash(Earlier(rows, e)) = written[e.id].prev
  BY DEF TamperEvident
<1>1. e \in Entry /\ e.id \in 1..last /\ e.body \in Body
  BY DEF TrailShape, TrailTypeOK, Entry
<1>2. written[e.id].body \in Body /\ written[e.id].prev \in Hash
  <2>1. written \in Seq([body : Body, prev : Hash]) /\ Len(written) = last
    BY DEF TrailShape, TrailTypeOK
  <2>2. written[e.id] \in [body : Body, prev : Hash]
    BY <1>1, <2>1, ElementOfSeq
  <2>3. QED
    BY <2>2
<1>3. Earlier(rows, e) \in SUBSET Entry /\ IdsUpTo(Earlier(rows, e), last)
  BY DEF TrailShape, TrailTypeOK, Earlier, IdsUpTo
<1>4. LatestHash(Earlier(rows, e)) \in Hash
  BY <1>3, LatestHashType, TrailAssumption DEF TrailShape, TrailTypeOK
<1>5. /\ e.hash = HashEntry(LatestHash(Earlier(rows, e)), e.body)
      /\ e.hash = HashEntry(written[e.id].prev, written[e.id].body)
  BY DEF Verifies, AsWritten, HashOfWritten
<1>6. QED
  <2> DEFINE p == LatestHash(Earlier(rows, e))
             q == written[e.id].prev
             c == written[e.id].body
  <2>1. Append(p, e.body) = Append(q, c)
    BY <1>5 DEF HashEntry
  <2>2. p \in Seq(Body) /\ q \in Seq(Body) /\ e.body \in Body /\ c \in Body
    BY <1>1, <1>2, <1>4 DEF Hash
  <2> HIDE DEF p, q, c
  <2>3. p = q /\ e.body = c
    BY <2>1, <2>2, AppendInjective
  <2>4. QED
    BY <2>3 DEF p, q, c

(***************************************************************************)
(* The theorems about the trail by itself, however many handlers append.   *)
(***************************************************************************)
LEMMA AlwaysTrailShape == TrailSpec => []TrailShape
<1>1. TrailShape /\ [TrailNext]_trail => TrailShape'
  BY NextTrailShape DEF TrailStep
<1>2. QED
  BY InitTrailShape, <1>1, PTL DEF TrailSpec

(* "linked by SHA-256 hashes" (templates/case_detail.html:14): if no two   *)
(* transactions of the trail are open at once, verification finds no       *)
(* problem in a history that nobody has changed.                           *)
THEOREM ChainStaysWhole == ASSUME OneAtATime PROVE TrailSpec => []ChainVerifies
<1>1. ChainInv => ChainVerifies
  BY DEF ChainInv, Continues, ChainVerifies
<1>2. TrailShape /\ ChainInv /\ [TrailNext]_trail => ChainInv'
  BY NextChain DEF TrailStep
<1>3. QED
  BY InitChain, <1>1, <1>2, AlwaysTrailShape, PTL DEF TrailSpec

(* Whatever handlers and intruders do, and with any number of forks, an    *)
(* entry that verifies is what was written, after what it was written.     *)
THEOREM TamperingShows == TrailSpec => []TamperEvident
<1>1. TrailShape /\ AsWritten /\ [TrailNext]_trail => AsWritten'
  BY NextAsWritten DEF TrailStep
<1>2. QED
  BY InitAsWritten, <1>1, AsWrittenIsEvident, AlwaysTrailShape, PTL DEF TrailSpec

(***************************************************************************)
(* Evidence.  The states of an upload, its file, its attachment row and    *)
(* what the history tells of it move together.                             *)
(***************************************************************************)
Told(E) == {e.body.what : e \in E}

FilesOK ==
    /\ \A u \in Uploads : upload[u] \in {"stored", "recorded", "done"} =>
                              file[u] \in {"final", "damaged"}
    /\ attached = {u \in Uploads : upload[u] = "done"}

TellsOK ==
    /\ \A u \in Uploads : InTxn(u) =>
         /\ upload[u] \in {"stored", "recorded"}
         /\ Told(txn[u]) = IF upload[u] = "recorded" THEN {u} ELSE {}
    /\ \A s \in Sessions \ Uploads : InTxn(s) => Told(txn[s]) \subseteq {Note}
    /\ tampers = 0 => Told(rows) \cap Uploads = attached

\* The doctor and the export have read what was, and still is, on record.
DoctorOK ==
    /\ doctor.copy # None => doctor.copy \subseteq attached
    /\ doctor.verdict = "FAIL" => attached \cap Damaged # {}

ExportOK ==
    export # None =>
        /\ export.attachments \subseteq attached
        /\ export.activity # None /\ tampers = 0 =>
             export.attachments \subseteq export.activity /\ export.activity \subseteq Told(rows)

EvidenceInv == EvidenceTypeOK /\ PendingIds /\ FilesOK /\ TellsOK /\ DoctorOK /\ ExportOK

LEMMA InitEvidence == EvidenceInit => EvidenceInv
  BY InitTrailShape, EvidenceAssumption
  DEF EvidenceInit, TrailInit, EvidenceInv, EvidenceTypeOK, UploadState, TrailShape,
      FilesOK, TellsOK, InTxn, Told, DoctorOK, ExportOK

LEMMA NextEvidenceType ==
  ASSUME EvidenceTypeOK, PendingIds, [EvidenceNext]_vars
  PROVE  EvidenceTypeOK' /\ PendingIds'
<1>1. TrailShape' /\ TrailShape
  BY EvidenceStepsTrail, NextTrailShape DEF TrailShape, EvidenceTypeOK
<1> SUFFICES EvidenceTypeOK'
  BY <1>1 DEF TrailShape
<1> USE EvidenceAssumption DEF EvidenceTypeOK, UploadState
<1>2. ASSUME NEW u \in Uploads, HandleUpload(u) PROVE EvidenceTypeOK'
  <2> USE DEF Readers
  <2>1. CASE StartUpload(u) \/ StoreUpload(u) \/ RefuseUpload(u) \/ Damage(u)
    BY <1>1, <2>1 DEF StartUpload, StoreUpload, RefuseUpload, Damage, TrailShape
  <2>2. CASE BeginRecord(u) \/ RecordUpload(u) \/ CommitUpload(u) \/ FailRecord(u)
    BY <1>1, <2>2 DEF BeginRecord, RecordUpload, CommitUpload, FailRecord, TrailShape
  <2>3. QED
    BY <1>2, <2>1, <2>2 DEF HandleUpload
<1>3. ASSUME NEW s \in Sessions \ Uploads, OtherHandler(s) PROVE EvidenceTypeOK'
  BY <1>1, <1>3 DEF OtherHandler, TrailShape, Readers
<1>4. CASE Crash
  BY <1>1, <1>4 DEF Crash, TrailShape
<1>5. CASE DoctorCopies \/ DoctorChecks
  BY <1>1, <1>5 DEF DoctorCopies, DoctorChecks, Verdict, TrailShape
<1>6. CASE ExportAttachments \/ ExportVerification
  BY <1>1, <1>6 DEF ExportAttachments, ExportVerification, TrailShape
<1>7. CASE ExportActivity
  <2>1. {e.body.what : e \in rows} \subseteq Events
    BY DEF TrailTypeOK, Entry, Body
  <2>2. export \in [attachments : SUBSET Uploads, activity : (SUBSET Events) \cup {None}]
    BY <1>7 DEF ExportActivity
  <2>3. export' \in [attachments : SUBSET Uploads, activity : (SUBSET Events) \cup {None}]
    BY <1>7, <2>1, <2>2 DEF ExportActivity
  <2>4. QED
    BY <1>1, <1>7, <2>3 DEF ExportActivity, TrailShape
<1>8. CASE Tamper /\ UNCHANGED <<upload, file, attached, Readers, crashes>>
  BY <1>1, <1>8 DEF TrailShape, Readers
<1>9. CASE UNCHANGED vars
  BY <1>1, <1>9 DEF vars, TrailShape
<1>10. QED
  BY <1>2, <1>3, <1>4, <1>5, <1>6, <1>7, <1>8, <1>9 DEF EvidenceNext

LEMMA NextFiles ==
  ASSUME EvidenceTypeOK, FilesOK, [EvidenceNext]_vars
  PROVE  FilesOK'
<1> USE EvidenceAssumption DEF FilesOK
<1>0. /\ upload \in [Uploads -> UploadState]
      /\ file \in [Uploads -> {"none", "temp", "final", "damaged"}]
  BY DEF EvidenceTypeOK
<1>1. ASSUME NEW u \in Uploads, HandleUpload(u) PROVE FilesOK'
  <2>1. CASE StartUpload(u) \/ StoreUpload(u) \/ RefuseUpload(u) \/ Damage(u)
    BY <1>0, <2>1 DEF StartUpload, StoreUpload, RefuseUpload, Damage
  <2>2. CASE BeginRecord(u) \/ RecordUpload(u)
    BY <1>0, <2>2 DEF BeginRecord, RecordUpload
  <2>3. CASE CommitUpload(u)
    BY <1>0, <2>3 DEF CommitUpload
  <2>4. CASE FailRecord(u)
    BY <1>0, <2>4 DEF FailRecord
  <2>5. QED
    BY <1>1, <2>1, <2>2, <2>3, <2>4 DEF HandleUpload
<1>2. CASE Crash
  BY <1>0, <1>2 DEF Crash, Ended, UploadState
<1>3. CASE UNCHANGED <<upload, file, attached>>
  BY <1>3
<1>4. QED
  BY <1>1, <1>2, <1>3 DEF EvidenceNext, OtherHandler, DoctorCopies, DoctorChecks,
     ExportAttachments, ExportActivity, ExportVerification, vars

LEMMA NextTells ==
  ASSUME EvidenceTypeOK, PendingIds, FilesOK, TellsOK, [EvidenceNext]_vars
  PROVE  TellsOK'
<1> USE EvidenceAssumption DEF TellsOK, InTxn
<1>0. /\ upload \in [Uploads -> UploadState]
      /\ txn \in [Sessions -> (SUBSET Entry) \cup {None}]
      /\ tampers \in Nat
      /\ TrailShape
  BY DEF EvidenceTypeOK, TrailTypeOK, TrailShape
<1>1. ASSUME NEW u \in Uploads, HandleUpload(u) PROVE TellsOK'
  <2>1. CASE StartUpload(u) \/ StoreUpload(u) \/ RefuseUpload(u)
    BY <1>0, <2>1 DEF StartUpload, StoreUpload, RefuseUpload, trail
  <2>2. CASE Damage(u)
    BY <1>0, <2>2 DEF Damage, trail
  <2>3. CASE BeginRecord(u)
    BY <1>0, <2>3 DEF BeginRecord, Begin, Told
  <2>4. CASE RecordUpload(u)
    <3> DEFINE x == NewEntry(u, u)
    <3>1. /\ txn' = [txn EXCEPT ![u] = @ \cup {x}] /\ x.body.what = u
          /\ UNCHANGED <<rows, tampers>>
      BY <1>0, <2>4, AppendFacts DEF RecordUpload, NewEntry
    <3>2. txn[u] # None /\ Told(txn[u]) = {}
      BY <2>4 DEF RecordUpload, AppendActivity
    <3> HIDE DEF x
    <3>3. txn'[u] = txn[u] \cup {x}
      BY <1>0, <3>1
    <3>4. Told(txn'[u]) = Told(txn[u]) \cup {u}
      BY <3>1, <3>3 DEF Told
    <3>5. QED
      BY <1>0, <2>4, <3>1, <3>2, <3>4 DEF RecordUpload
  <2>5. CASE CommitUpload(u)
    <3>1. Told(rows') = Told(rows) \cup {u}
      BY <2>5 DEF CommitUpload, Commit, Told
    <3>2. /\ txn' = [txn EXCEPT ![u] = None] /\ upload' = [upload EXCEPT ![u] = "done"]
          /\ tampers' = tampers /\ attached' = attached \cup {u}
      BY <2>5 DEF CommitUpload, Commit
    <3>3. \A v \in Uploads : txn'[v] # None => v # u /\ txn'[v] = txn[v]
      BY <1>0, <3>2
    <3>4. \A v \in Uploads : txn'[v] # None =>
            /\ upload'[v] \in {"stored", "recorded"}
            /\ Told(txn'[v]) = IF upload'[v] = "recorded" THEN {v} ELSE {}
      BY <1>0, <3>2, <3>3
    <3>5. \A s \in Sessions \ Uploads : txn'[s] # None => Told(txn'[s]) \subseteq {Note}
      BY <1>0, <3>2
    <3>6. tampers' = 0 => Told(rows') \cap Uploads = attached'
      BY <3>1, <3>2
    <3>7. QED
      BY <3>4, <3>5, <3>6 DEF Told
  <2>6. CASE FailRecord(u)
    BY <1>0, <2>6 DEF FailRecord, Rollback
  <2>7. QED
    BY <1>1, <2>1, <2>2, <2>3, <2>4, <2>5, <2>6 DEF HandleUpload
<1>2. ASSUME NEW s \in Sessions \ Uploads, OtherHandler(s) PROVE TellsOK'
  <2>1. CASE Begin(s)
    BY <1>0, <1>2, <2>1 DEF OtherHandler, Begin, Told
  <2>2. CASE AppendActivity(s, Note)
    <3> DEFINE x == NewEntry(s, Note)
    <3>1. /\ txn' = [txn EXCEPT ![s] = @ \cup {x}] /\ x.body.what = Note
          /\ UNCHANGED <<rows, tampers>>
      BY <1>0, <2>2, AppendFacts DEF NewEntry
    <3>2. txn[s] # None /\ Told(txn[s]) \subseteq {Note}
      BY <2>2 DEF AppendActivity
    <3> HIDE DEF x
    <3>3. txn'[s] = txn[s] \cup {x}
      BY <1>0, <3>1
    <3>4. Told(txn'[s]) \subseteq {Note}
      BY <3>1, <3>2, <3>3 DEF Told
    <3>5. QED
      BY <1>0, <1>2, <3>1, <3>4 DEF OtherHandler
  <2>3. CASE Commit(s)
    <3>1. Told(rows') \cap Uploads = Told(rows) \cap Uploads
      BY <2>3 DEF Commit, Told
    <3>2. QED
      BY <1>0, <1>2, <2>3, <3>1 DEF OtherHandler, Commit
  <2>4. CASE Rollback(s)
    BY <1>0, <1>2, <2>4 DEF OtherHandler, Rollback
  <2>5. QED
    BY <1>2, <2>1, <2>2, <2>3, <2>4 DEF OtherHandler
<1>3. CASE Crash
  BY <1>0, <1>3 DEF Crash
<1>4. CASE Tamper /\ UNCHANGED <<upload, file, attached, Readers, crashes>>
  BY <1>0, <1>4, TamperFacts
<1>5. CASE UNCHANGED <<trail, upload, attached>>
  BY <1>5 DEF trail
<1>6. QED
  BY <1>1, <1>2, <1>3, <1>4, <1>5 DEF EvidenceNext, DoctorCopies, DoctorChecks,
     ExportAttachments, ExportActivity, ExportVerification, vars

\* What is on record stays on record, and what is damaged on it stays damaged.
LEMMA RecordGrows ==
  ASSUME EvidenceTypeOK, FilesOK, [EvidenceNext]_vars
  PROVE  attached \subseteq attached' /\ attached \cap Damaged \subseteq Damaged'
<1> USE DEF FilesOK, Damaged
<1>0. /\ upload \in [Uploads -> UploadState]
      /\ file \in [Uploads -> {"none", "temp", "final", "damaged"}]
  BY DEF EvidenceTypeOK
<1>1. ASSUME NEW u \in Uploads, HandleUpload(u)
      PROVE  attached \subseteq attached' /\ attached \cap Damaged \subseteq Damaged'
  BY <1>0, <1>1 DEF HandleUpload, StartUpload, StoreUpload, RefuseUpload, BeginRecord,
     RecordUpload, CommitUpload, FailRecord, Damage
<1>2. CASE UNCHANGED <<file, attached>>
  BY <1>2
<1>3. QED
  BY <1>1, <1>2 DEF EvidenceNext, OtherHandler, Crash, DoctorCopies, DoctorChecks,
     ExportAttachments, ExportActivity, ExportVerification, vars

LEMMA CopyProblems ==
  ASSUME EvidenceTypeOK, FilesOK, DoctorOK, doctor.copy # None
  PROVE  Problems(doctor.copy) = doctor.copy \cap Damaged
<1>1. doctor.copy \subseteq Uploads
  BY DEF EvidenceTypeOK
<1>2. \A u \in doctor.copy : file[u] \in {"final", "damaged"}
  BY DEF DoctorOK, FilesOK
<1>3. QED
  BY <1>1, <1>2 DEF Problems, Damaged

LEMMA NextDoctor ==
  ASSUME EvidenceTypeOK, FilesOK, DoctorOK, [EvidenceNext]_vars
  PROVE  DoctorOK'
<1> USE DEF DoctorOK
<1>0. doctor \in [copy : (SUBSET Uploads) \cup {None}, verdict : {"none", "PASS", "FAIL"}]
  BY DEF EvidenceTypeOK
<1>1. CASE DoctorCopies
  BY <1>0, <1>1 DEF DoctorCopies
<1>2. CASE DoctorChecks
  <2>1. doctor' = [copy |-> None, verdict |-> IF Problems(doctor.copy) = {} THEN "PASS" ELSE "FAIL"]
    BY <1>2 DEF DoctorChecks, Verdict
  <2>2. doctor.copy # None /\ UNCHANGED <<file, attached>>
    BY <1>2 DEF DoctorChecks
  <2>3. Problems(doctor.copy) \subseteq attached \cap Damaged
    BY <2>2, CopyProblems
  <2>4. QED
    BY <2>1, <2>2, <2>3 DEF Damaged
<1>3. CASE UNCHANGED doctor
  BY <1>3, RecordGrows
<1>4. QED
  BY <1>1, <1>2, <1>3 DEF EvidenceNext, HandleUpload, StartUpload, StoreUpload, RefuseUpload,
     BeginRecord, RecordUpload, CommitUpload, FailRecord, Damage, OtherHandler, Crash,
     ExportAttachments, ExportActivity, ExportVerification, Readers, vars

LEMMA HistoryGrows ==
  ASSUME TrailShape, TrailStep, tampers' = 0
  PROVE  tampers = 0 /\ rows \subseteq rows'
<1>1. CASE Tamper
  BY <1>1, TamperFacts DEF TrailShape, TrailTypeOK
<1>2. CASE UNCHANGED <<rows, tampers>> \/ \E s \in Sessions : Commit(s)
  BY <1>2 DEF Commit
<1>3. QED
  BY <1>1, <1>2 DEF TrailStep, TrailNext, Begin, AppendActivity, Appended, Rollback,
     Killed, trail

LEMMA NextExport ==
  ASSUME EvidenceTypeOK, PendingIds, FilesOK, TellsOK, ExportOK, [EvidenceNext]_vars
  PROVE  ExportOK'
<1> USE DEF ExportOK
<1>0. attached \subseteq attached'
  BY RecordGrows
<1>1. tampers' = 0 => tampers = 0 /\ Told(rows) \subseteq Told(rows')
  BY HistoryGrows, EvidenceStepsTrail DEF EvidenceTypeOK, TrailShape, Told
<1>2. CASE ExportAttachments
  BY <1>2, <1>0 DEF ExportAttachments
<1>3. CASE ExportActivity
  <2>1. export' = [export EXCEPT !.activity = Told(rows)] /\ export # None
        /\ UNCHANGED <<rows, tampers, attached>>
    BY <1>3 DEF ExportActivity, trail, Told
  <2>2. export \in [attachments : SUBSET Uploads, activity : (SUBSET Events) \cup {None}]
    BY <2>1 DEF EvidenceTypeOK
  <2>3. export'.attachments = export.attachments /\ export'.activity = Told(rows)
    BY <2>1, <2>2
  <2>4. tampers = 0 => export.attachments \subseteq Told(rows)
    BY <2>1 DEF TellsOK
  <2>5. QED
    BY <2>1, <2>3, <2>4 DEF Told
<1>4. CASE ExportVerification \/ Crash
  BY <1>4 DEF ExportVerification, Crash
<1>5. CASE UNCHANGED export
  BY <1>0, <1>1, <1>5
<1>6. QED
  BY <1>2, <1>3, <1>4, <1>5 DEF EvidenceNext, HandleUpload, StartUpload, StoreUpload,
     RefuseUpload, BeginRecord, RecordUpload, CommitUpload, FailRecord, Damage, OtherHandler,
     DoctorCopies, DoctorChecks, Readers, vars

LEMMA AlwaysEvidence == EvidenceSpec => []EvidenceInv
<1>1. EvidenceInv /\ [EvidenceNext]_vars => EvidenceInv'
  BY NextEvidenceType, NextFiles, NextTells, NextDoctor, NextExport DEF EvidenceInv
<1>2. QED
  BY InitEvidence, <1>1, PTL DEF EvidenceSpec

(* Every variable of uploads, readers and trail keeps its type.            *)
THEOREM EvidenceTyped == EvidenceSpec => []EvidenceTypeOK
<1>1. EvidenceInv => EvidenceTypeOK
  BY DEF EvidenceInv
<1>2. QED
  BY <1>1, AlwaysEvidence, PTL

(* Kills, failures and refusals at any point leave no attachment without   *)
(* its file and no difference between attachments and history.             *)
THEOREM EvidenceRecorded == EvidenceSpec => []EvidenceOnRecord
<1>1. EvidenceInv => EvidenceOnRecord
  BY DEF EvidenceInv, FilesOK, TellsOK, Told, EvidenceOnRecord
<1>2. QED
  BY <1>1, AlwaysEvidence, PTL

(* The doctor's verdict is right however many uploads run beside it.       *)
THEOREM DoctorTellsTruth == EvidenceSpec => []DoctorIsRight
<1>1. EvidenceInv => DoctorIsRight
  BY CopyProblems DEF EvidenceInv, DoctorOK, DoctorIsRight
<1>2. QED
  BY <1>1, AlwaysEvidence, PTL

(* An export is complete although its queries are made one by one.         *)
THEOREM ExportComplete == EvidenceSpec => []ExportIsComplete
<1>1. EvidenceInv => ExportIsComplete
  BY DEF EvidenceInv, ExportOK, Told, ExportIsComplete
<1>2. QED
  BY <1>1, AlwaysEvidence, PTL

(* The theorems about the trail hold for uploads, kills and all.           *)
THEOREM EvidenceChain == ASSUME OneAtATime PROVE EvidenceSpec => []ChainVerifies
<1>1. EvidenceInit => ChainInv
  BY InitChain DEF EvidenceInit
<1>2. EvidenceInv /\ ChainInv /\ [EvidenceNext]_vars => ChainInv'
  BY NextChain, EvidenceStepsTrail DEF EvidenceInv, EvidenceTypeOK, TrailShape
<1>3. ChainInv => ChainVerifies
  BY DEF ChainInv, Continues, ChainVerifies
<1>4. QED
  BY <1>1, <1>2, <1>3, AlwaysEvidence, PTL DEF EvidenceSpec

(* Whoever edits the log shows, also where uploads were cut off between    *)
(* the file and its entry.                                                 *)
THEOREM EvidenceTampering == EvidenceSpec => []TamperEvident
<1>1. EvidenceInit => AsWritten
  BY InitAsWritten DEF EvidenceInit
<1>2. EvidenceInv /\ AsWritten /\ [EvidenceNext]_vars => AsWritten'
  BY NextAsWritten, EvidenceStepsTrail DEF EvidenceInv, EvidenceTypeOK, TrailShape
<1>3. EvidenceInv /\ AsWritten => TamperEvident
  BY AsWrittenIsEvident DEF EvidenceInv, EvidenceTypeOK, TrailShape
<1>4. QED
  BY <1>1, <1>2, <1>3, AlwaysEvidence, PTL DEF EvidenceSpec
=============================================================================
