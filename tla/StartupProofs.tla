----------------------------- MODULE StartupProofs -----------------------------
(***************************************************************************)
(* Proofs about InstanceLock and Startup, for any number of launches, any  *)
(* schema and any number of faults.                                        *)
(*                                                                         *)
(* What needs the lock assumes that launches do not overlap in acquire:    *)
(* with Overlap it excludes nobody, as the README shows.                   *)
(***************************************************************************)
EXTENDS Startup, SequenceTheorems, TLAPS

-----------------------------------------------------------------------------
(* The lock.  A launch that acquires is alone in it, the file is nobody's  *)
(* who has left, and what a launch has read of it holds for as long as it  *)
(* decides: whoever holds the lock is the one it has read.                 *)
Alone == \A p, q \in Procs : pc[p] \in Acquiring /\ pc[q] \in Acquiring => p = q

FileOK == lock # None => pc[lock] \in {"write", "dead"} \cup Holding

WriterOK(p)  == At(p, "write") => lock = p

HolderOK(p)  == pc[p] \in Holding => ReadLock = p

ReaderOK(p)  ==
    /\ At(p, "judge") =>
          /\ owner[p] # p
          /\ \A q \in Procs : pc[q] \in Holding => owner[p] = q
    /\ At(p, "replace") => \A q \in Procs : pc[q] \notin Holding

(* A launch that has replaced a stale file finds none on its second round. *)
TriesOK(p) ==
    /\ pc[p] \in {"idle", "read", "judge", "replace"} => tries[p] = 0
    /\ At(p, "create") => tries[p] = 0 \/ (tries[p] = 1 /\ lock = None)

(* An id that can be read is that of a launch that has held the lock.      *)
IdsOK ==
    /\ \A q \in filled : pc[q] \in Holding \cup {"left", "dead"}
    /\ \A p \in Procs : owner[p] \in filled \cup {None}

LockInv ==
    /\ LockTypeOK
    /\ Alone
    /\ FileOK
    /\ IdsOK
    /\ \A p \in Procs : WriterOK(p) /\ HolderOK(p) /\ ReaderOK(p) /\ TriesOK(p)

-----------------------------------------------------------------------------
LEMMA LockStarts == LockInit => LockInv
  BY LockAssumption DEF LockInit, LockInv, LockTypeOK, Alone, FileOK, IdsOK, WriterOK, HolderOK,
     ReaderOK, TriesOK, At, Acquiring, Holding, Gone

(* One holder at a time: two would both be named by the file.              *)
LEMMA OneHolder ==
    ASSUME LockInv
    PROVE  SoleInstance
  BY DEF LockInv, HolderOK, SoleInstance

(* Every access to the file system keeps the invariant.                    *)
LEMMA LockSteps ==
    ASSUME ~Overlap, LockInv, [LockNext]_lockVars
    PROVE  LockInv'
<1> USE LockAssumption
<1>0. CASE UNCHANGED lockVars
  BY <1>0 DEF lockVars, LockInv, LockTypeOK, Alone, FileOK, IdsOK, WriterOK, HolderOK, ReaderOK,
     TriesOK, At, ReadLock
<1>1. ASSUME NEW p \in Procs,
             \/ Enter(p) \/ AcquireStep(p) \/ BeginRelease(p) \/ Unlink(p) \/ Die(p)
             \/ NumberChangesHands(p)
      PROVE  LockInv'
  <2> USE DEF LockInv, LockTypeOK, At, GoTo, Acquiring, Holding, Gone
  <2>0. \A q \in Procs : q # p => pc'[q] = pc[q] /\ tries'[q] = tries[q] /\ owner'[q] = owner[q]
    BY <1>1 DEF Enter, AcquireStep, Create, GiveUp, WriteId, ReadOwner, Judge, ReplaceStale,
       BeginRelease, Unlink, Die, NumberChangesHands
  <2>1. CASE Enter(p)
    BY <2>0, <2>1 DEF Enter, Alone, FileOK, IdsOK, WriterOK, HolderOK, ReaderOK, TriesOK, ReadLock
  <2>2. CASE Create(p)
    <3>1. LockTypeOK' /\ Alone' /\ FileOK' /\ IdsOK'
      BY <2>0, <2>2 DEF Create, Alone, FileOK, IdsOK
    <3>2. ASSUME NEW q \in Procs
          PROVE  (WriterOK(q) /\ HolderOK(q) /\ ReaderOK(q) /\ TriesOK(q))'
      BY <2>0, <2>2 DEF Create, Alone, FileOK, WriterOK, HolderOK, ReaderOK, TriesOK, ReadLock
    <3> QED BY <3>1, <3>2
  <2>3. CASE GiveUp(p)
    BY <2>0, <2>3 DEF GiveUp, Alone, FileOK, IdsOK, WriterOK, HolderOK, ReaderOK, TriesOK, ReadLock
  <2>4. CASE WriteId(p)
    <3>1. LockTypeOK' /\ Alone' /\ FileOK' /\ IdsOK'
      BY <2>0, <2>4 DEF WriteId, Alone, FileOK, IdsOK
    <3>2. ASSUME NEW q \in Procs
          PROVE  (WriterOK(q) /\ HolderOK(q) /\ ReaderOK(q) /\ TriesOK(q))'
      BY <2>0, <2>4 DEF WriteId, Alone, FileOK, WriterOK, HolderOK, ReaderOK, TriesOK, ReadLock
    <3> QED BY <3>1, <3>2
  <2>5. CASE ReadOwner(p)
    <3>1. LockTypeOK' /\ Alone' /\ FileOK' /\ IdsOK'
      BY <2>0, <2>5 DEF ReadOwner, ReadLock, Alone, FileOK, IdsOK
    <3>2. ASSUME NEW q \in Procs
          PROVE  (WriterOK(q) /\ HolderOK(q) /\ ReaderOK(q) /\ TriesOK(q))'
      BY <2>0, <2>5 DEF ReadOwner, Alone, FileOK, WriterOK, HolderOK, ReaderOK, TriesOK, ReadLock
    <3> QED BY <3>1, <3>2
  <2>6. CASE Judge(p)
    <3>1. LockTypeOK' /\ Alone' /\ FileOK' /\ IdsOK'
      BY <2>0, <2>6 DEF Judge, Alone, FileOK, IdsOK, WriterOK
    <3>2. ASSUME NEW q \in Procs
          PROVE  (WriterOK(q) /\ HolderOK(q) /\ ReaderOK(q) /\ TriesOK(q))'
      BY <2>0, <2>6 DEF Judge, PidAlive, Alive, Alone, WriterOK, HolderOK, ReaderOK, TriesOK, ReadLock
    <3> QED BY <3>1, <3>2
  <2>7. CASE ReplaceStale(p)
    <3>1. LockTypeOK' /\ Alone' /\ FileOK' /\ IdsOK'
      BY <2>0, <2>7 DEF ReplaceStale, Alone, FileOK, IdsOK, TriesOK
    <3>2. ASSUME NEW q \in Procs
          PROVE  (WriterOK(q) /\ HolderOK(q) /\ ReaderOK(q) /\ TriesOK(q))'
      BY <2>0, <2>7 DEF ReplaceStale, Alone, WriterOK, HolderOK, ReaderOK, TriesOK, ReadLock
    <3> QED BY <3>1, <3>2
  <2>8. CASE BeginRelease(p)
    <3>1. LockTypeOK' /\ Alone' /\ FileOK' /\ IdsOK'
      BY <2>0, <2>8 DEF BeginRelease, Alone, FileOK, IdsOK, HolderOK
    <3>2. ASSUME NEW q \in Procs
          PROVE  (WriterOK(q) /\ HolderOK(q) /\ ReaderOK(q) /\ TriesOK(q))'
      BY <2>0, <2>8 DEF BeginRelease, WriterOK, HolderOK, ReaderOK, TriesOK, ReadLock
    <3> QED BY <3>1, <3>2
  <2>9. CASE Unlink(p)
    <3>1. LockTypeOK' /\ Alone' /\ FileOK' /\ IdsOK'
      BY <2>0, <2>9 DEF Unlink, Alone, FileOK, IdsOK
    <3>2. ASSUME NEW q \in Procs
          PROVE  (WriterOK(q) /\ HolderOK(q) /\ ReaderOK(q) /\ TriesOK(q))'
      BY <2>0, <2>9 DEF Unlink, WriterOK, HolderOK, ReaderOK, TriesOK, ReadLock
    <3> QED BY <3>1, <3>2
  <2>10. CASE Die(p)
    <3>1. LockTypeOK' /\ Alone' /\ FileOK' /\ IdsOK'
      BY <2>0, <2>10 DEF Die, Alive, Alone, FileOK, IdsOK
    <3>2. ASSUME NEW q \in Procs
          PROVE  (WriterOK(q) /\ HolderOK(q) /\ ReaderOK(q) /\ TriesOK(q))'
      BY <2>0, <2>10 DEF Die, Alive, WriterOK, HolderOK, ReaderOK, TriesOK, ReadLock
    <3> QED BY <3>1, <3>2
  <2>11. CASE NumberChangesHands(p)
    <3>1. pc' = pc /\ UNCHANGED <<lock, filled, tries, owner>>
          /\ reused' \subseteq {q \in Procs : pc[q] \in {"left", "dead"}}
      BY <2>11 DEF NumberChangesHands
    <3> QED
      BY <3>1 DEF Alone, FileOK, IdsOK, WriterOK, HolderOK, ReaderOK, TriesOK, ReadLock
  <2> QED
    BY <1>1, <2>1, <2>2, <2>3, <2>4, <2>5, <2>6, <2>7, <2>8, <2>9, <2>10, <2>11 DEF AcquireStep
<1> QED BY <1>0, <1>1 DEF LockNext

(* A launch is refused over an id that it has read.  Whoever wrote it has  *)
(* held the lock, so it holds it still or has ended.                       *)
Cause(p) == (\E q \in Procs \ {p} : pc[q] \in Holding) \/ owner[p] \in reused

LEMMA Refusals ==
    ASSUME LockInv, [LockNext]_lockVars
    PROVE  \A p \in Procs : pc[p] # "refused" /\ pc'[p] = "refused" => Cause(p)
<1> SUFFICES ASSUME NEW p \in Procs, pc[p] # "refused", pc'[p] = "refused"
             PROVE  Cause(p)
  OBVIOUS
<1> USE DEF LockInv, LockTypeOK, At, GoTo
<1>1. PICK r \in Procs : \/ Enter(r) \/ AcquireStep(r) \/ BeginRelease(r) \/ Unlink(r) \/ Die(r)
                         \/ NumberChangesHands(r)
  BY DEF LockNext, lockVars
<1>2. r = p
  BY <1>1 DEF Enter, AcquireStep, Create, GiveUp, WriteId, ReadOwner, Judge, ReplaceStale,
     BeginRelease, Unlink, Die, NumberChangesHands
<1>3. GiveUp(p) \/ Judge(p)
  BY <1>1, <1>2 DEF Enter, AcquireStep, Create, WriteId, ReadOwner, ReplaceStale,
     BeginRelease, Unlink, Die, NumberChangesHands
<1>4. ~GiveUp(p)
  BY DEF GiveUp, TriesOK
<1>5. CASE Judge(p)
  <2>1. owner[p] # None /\ PidAlive(owner[p]) /\ owner[p] # p
    BY <1>5 DEF Judge, ReaderOK
  <2>2. owner[p] \in Procs /\ pc[owner[p]] \in Holding \cup {"left", "dead"}
    BY <2>1 DEF IdsOK
  <2>3. pc[owner[p]] \in Holding \/ owner[p] \in reused
    BY <2>1, <2>2 DEF PidAlive, Alive, Gone
  <2> QED BY <2>1, <2>2, <2>3 DEF Cause
<1> QED BY <1>3, <1>4, <1>5

(* A file that is replaced names a process that is dead.                   *)
LEMMA StaleIsDead ==
    ASSUME LockInv
    PROVE  StaleOwnerIsDead
  BY LockAssumption DEF LockInv, LockTypeOK, StaleOwnerIsDead, FileOK, Alone, ReaderOK, At,
     Alive, Acquiring, Gone

(* The lock file alone, whoever takes part and whichever numbers come back *)
(* into use: one holds the lock ("Project-local single-instance lock",     *)
(* runtime_lock.py:1), no file is replaced whose owner lives, and a launch *)
(* is refused for a holder or for a number that is in use again, for       *)
(* nothing else.                                                           *)
THEOREM LockExcludes ==
    ASSUME ~Overlap
    PROVE  LockSpec => [](SoleInstance /\ StaleOwnerIsDead) /\ RefusedForCause
<1>1. LockInv /\ [LockNext]_lockVars => LockInv'
  BY LockSteps
<1>2. LockInv => SoleInstance /\ StaleOwnerIsDead
  BY OneHolder, StaleIsDead
<1>3. LockInv /\ [LockNext]_lockVars =>
        [\A p \in Procs : pc[p] # "refused" /\ pc'[p] = "refused" =>
             \/ \E q \in Procs \ {p} : pc[q] \in Holding
             \/ owner[p] \in reused]_lockVars
  BY Refusals DEF Cause
<1> QED BY LockStarts, <1>1, <1>2, <1>3, PTL DEF LockSpec, RefusedForCause

-----------------------------------------------------------------------------
(* Launches.  What a launch does beyond the lock is no step of the lock.   *)
LEMMA LaunchesUseTheLock == Next => [LockNext]_lockVars
<1> SUFFICES ASSUME NEW p \in Procs, LaunchStep(p) \/ Reuse(p)
             PROVE  [LockNext]_lockVars
  BY DEF Next
<1>1. CASE RunBackend(p) \/ Acquire(p) \/ Release(p) \/ Kill(p) \/ Reuse(p)
  BY <1>1 DEF RunBackend, Acquire, Release, Kill, Reuse, LockNext
<1>2. CASE ~(RunBackend(p) \/ Acquire(p) \/ Release(p) \/ Kill(p) \/ Reuse(p))
  BY <1>2 DEF LaunchStep, Proceed, Prepare, Inspect, Backup, Publish, Prune, CreateTables, RefuseNewer,
     Alter, RecordVersion, SyncLedger, CheckHealth, Seed, Finish, PrepareFails, Decline, Stop, Fail
<1> QED BY <1>1, <1>2

(* Every run of the application, whatever fails in it, is a run of the     *)
(* lock file.                                                              *)
THEOREM StartupImplementsLock == Spec => LockSpec
<1>1. Init => LockInit
  BY DEF Init
<1>2. [Next]_vars => [LockNext]_lockVars
  BY LaunchesUseTheLock DEF vars, lockVars
<1> QED BY <1>1, <1>2, PTL DEF Spec, LockSpec

(* The database.  Versions say which steps are complete; steps beyond the  *)
(* version may be there, but none of a later build unless the version says *)
(* so, and the two markers never contradict each other.                    *)
DatabaseOK ==
    /\ db \in Database
    /\ 1..db.version \subseteq db.shape
    /\ db.version <= Schema => db.shape \subseteq 1..Schema
    /\ db.ledger \in {None, db.version}
    /\ db.tables /\ db.version = 0 =>
          Declared \subseteq db.shape \/ db.shape \subseteq NewTables \cup {1}

(* What p found is among the backups for good, as the latest of them; or   *)
(* nothing is left to migrate.                                             *)
Saved(p) == Len(backups) > 0 /\ backups[Len(backups)] = found[p]

Complete(p) == db.version >= Schema /\ db.shape = found[p].shape

Changing == {"tables", "migrate", "mark", "sync", "health", "seed", "serve"}

LaunchOK(p) ==
    /\ pc[p] \in Acquiring => step[p] = "inspect"
    /\ step[p] \in Preparing \cup {"inspect"} => found[p] = None
    /\ At(p, "hold") =>
        /\ step[p] \in {"backup", "publish", "prune", "tables"} => found[p] = db
        /\ step[p] = "publish" => copied[p] = db
        /\ step[p] = "prune" => Saved(p)
        /\ step[p] \in Changing => found[p] \in Database
        /\ step[p] \in Changing /\ Sqlite /\ found[p].tables => Saved(p) \/ Complete(p)
        /\ step[p] = "mark" => db.version < Schema /\ db.version + 1 \in db.shape
        /\ step[p] \in {"seed", "serve"} => db.version = Schema

(* One more backup than Keep is left by each launch that ends while it     *)
(* prunes.                                                                 *)
BackupsOK == Len(backups) > Keep + faults => \E p \in Procs : Doing(p, "prune")

StartupInv ==
    /\ TypeOK /\ LockInv /\ DatabaseOK /\ BackupsOK
    /\ \A p \in Procs : LaunchOK(p)

-----------------------------------------------------------------------------
LEMMA OldIsOK ==
    ASSUME NEW v \in Version, NEW l, l = v \/ l = None
    PROVE  /\ Old(v, l) \in Database
           /\ Old(v, l).tables /\ Old(v, l).version = v /\ Old(v, l).ledger = l
           /\ Old(v, l).shape = 1..v
  BY StartupAssumption DEF Old, Database, Version

LEMMA StartupStarts == Init => StartupInv
<1> SUFFICES ASSUME Init PROVE StartupInv
  OBVIOUS
<1>1. LockInv
  BY LockStarts DEF Init
<1>2. DatabaseOK
  <2>1. CASE db = Fresh
    BY <2>1, StartupAssumption DEF DatabaseOK, Fresh, Database, Version
  <2>2. CASE db # Fresh
    <3>1. PICK v \in Version : db = Old(v, v) \/ db = Old(v, None)
      BY <2>2 DEF Init
    <3> QED BY <3>1, OldIsOK, StartupAssumption DEF DatabaseOK, Version
  <2> QED BY <2>1, <2>2
<1>3. TypeOK
  <2>1. backups = << >> /\ faults = 0
    BY DEF Init
  <2>2. backups \in Seq(Database) /\ Len(backups) <= Keep + 1 + faults /\ faults \in 0..MaxFaults
    BY <2>1, StartupAssumption
  <2> QED BY <1>1, <1>2, <2>2 DEF Init, TypeOK, LockInv, DatabaseOK, Preparing
<1>4. BackupsOK
  BY StartupAssumption DEF Init, BackupsOK
<1>5. \A p \in Procs : LaunchOK(p)
  BY DEF Init, LockInit, LaunchOK, Acquiring, At
<1> QED BY <1>1, <1>2, <1>3, <1>4, <1>5 DEF StartupInv

(* A launch is not disturbed by others: only the holder touches the        *)
(* database and its backups, and there is one.                             *)
LEMMA OthersKept ==
    ASSUME StartupInv, NEW p \in Procs, NEW q \in Procs, q # p,
           pc'[q] = pc[q], step'[q] = step[q], found'[q] = found[q], copied'[q] = copied[q],
           backend' = backend,
           (db' = db /\ backups' = backups) \/ At(p, "hold")
    PROVE  LaunchOK(q)'
<1>1. LaunchOK(q)
  BY DEF StartupInv
<1>2. CASE db' = db /\ backups' = backups
  BY <1>1, <1>2 DEF LaunchOK, At, Saved, Complete, Sqlite
<1>3. CASE At(p, "hold")
  <2>1. ~At(q, "hold")
    BY <1>3, OneHolder DEF StartupInv, SoleInstance, At, Holding
  <2> QED BY <1>1, <2>1 DEF LaunchOK, At
<1> QED BY <1>2, <1>3

(* The number of backups is disturbed only by who publishes, prunes or     *)
(* stops in between.                                                       *)
LEMMA BackupsKept ==
    ASSUME StartupInv, NEW p \in Procs, backups' = backups, faults' \in Nat, faults' >= faults,
           \A q \in Procs : q # p => pc'[q] = pc[q] /\ step'[q] = step[q],
           \/ pc'[p] = pc[p] /\ step'[p] = step[p]
           \/ ~Doing(p, "prune")
           \/ faults' = faults + 1
    PROVE  BackupsOK' /\ Len(backups') <= Keep + 1 + faults'
<1> USE StartupAssumption
<1>0. Len(backups) \in Nat /\ faults \in Nat /\ Len(backups) <= Keep + 1 + faults
  BY DEF StartupInv, TypeOK
<1>1. CASE faults' = faults + 1
  BY <1>0, <1>1 DEF BackupsOK
<1>2. CASE ~(faults' = faults + 1) /\ ~(Len(backups) > Keep + faults)
  BY <1>0, <1>2 DEF BackupsOK
<1>3. CASE ~(faults' = faults + 1) /\ Len(backups) > Keep + faults
  <2>1. PICK q \in Procs : Doing(q, "prune")
    BY <1>3 DEF StartupInv, BackupsOK
  <2>2. Doing(q, "prune")'
    BY <1>3, <2>1 DEF Doing, At
  <2> QED BY <1>0, <1>3, <2>2 DEF BackupsOK
<1> QED BY <1>1, <1>2, <1>3

(* A launch changes its own entries only.                                  *)
LEMMA OwnEntries ==
    ASSUME TypeOK, NEW p \in Procs, LaunchStep(p)
    PROVE  /\ backend' = backend /\ kind' = kind
           /\ faults' = faults \/ (faults' = faults + 1 /\ faults' <= MaxFaults)
           /\ \A q \in Procs : q # p => /\ pc'[q] = pc[q] /\ step'[q] = step[q]
                                        /\ found'[q] = found[q] /\ copied'[q] = copied[q]
<1> USE StartupAssumption DEF TypeOK, LockTypeOK
<1>1. CASE RunBackend(p)
  BY <1>1 DEF RunBackend, Enter, GoTo, To, Files
<1>2. CASE Acquire(p)
  BY <1>2 DEF Acquire, AcquireStep, Create, GiveUp, WriteId, ReadOwner, Judge, ReplaceStale,
     GoTo, Files
<1>3. CASE Release(p)
  BY <1>3 DEF Release, BeginRelease, Unlink, GoTo, Files
<1>4. CASE Kill(p)
  BY <1>4 DEF Kill, Die, GoTo, Files
<1>5. CASE Prepare(p) \/ PrepareFails(p) \/ Decline(p) \/ Inspect(p) \/ Backup(p) \/ Publish(p)
  BY <1>5 DEF Prepare, PrepareFails, Decline, Inspect, Backup, Publish, To, Files, lockVars
<1>6. CASE Prune(p) \/ CreateTables(p) \/ RefuseNewer(p) \/ Alter(p) \/ RecordVersion(p)
  <2>1. /\ \/ \E l \in {"tables", "migrate", "failed", "mark"} : To(p, l)
           \/ UNCHANGED step
        /\ UNCHANGED <<lockVars, backend, kind, found, copied, faults>>
    BY <1>6, Zenon DEF Prune, CreateTables, RefuseNewer, Alter, RecordVersion, Files
  <2> QED BY <2>1 DEF To, lockVars
<1>7. CASE SyncLedger(p) \/ CheckHealth(p) \/ Seed(p) \/ Stop(p)
  BY <1>7 DEF SyncLedger, CheckHealth, Seed, Stop, To, Files, lockVars
<1>8. CASE Fail(p)
  BY <1>8 DEF Fail, To, Files, lockVars
<1>9. CASE Finish(p)
  BY <1>9 DEF Finish, Files, lockVars
<1> QED BY <1>1, <1>2, <1>3, <1>4, <1>5, <1>6, <1>7, <1>8, <1>9 DEF LaunchStep, Proceed

(* Steps that change the database.                                         *)
LEMMA CreatedIsOK ==
    ASSUME StartupInv, NEW p \in Procs, CreateTables(p)
    PROVE  /\ DatabaseOK'
           /\ db'.version = db.version
           /\ db.version >= Schema => db'.shape = db.shape
<1> USE StartupAssumption
<1>0. DatabaseOK
  BY DEF StartupInv
<1>1. PICK D \in SUBSET (1..Schema) :
         /\ db' = [db EXCEPT !.tables = TRUE, !.shape = @ \cup D]
         /\ IF db.tables THEN D \subseteq NewTables ELSE D = Declared
  BY DEF CreateTables
<1>2. db \in Database /\ db' \in Database /\ db.version \in 0..Schema + 1
  <2>1. /\ db.tables \in BOOLEAN /\ db.shape \in SUBSET (1..Schema + 1)
        /\ db.version \in Version /\ db.ledger \in Version \cup {None}
        /\ db = [tables |-> db.tables, version |-> db.version,
                 ledger |-> db.ledger, shape |-> db.shape]
    BY <1>0 DEF DatabaseOK, Database
  <2>2. db' = [tables |-> TRUE, version |-> db.version,
               ledger |-> db.ledger, shape |-> db.shape \cup D]
    <3>1. PICK m : m = [db EXCEPT !.tables = TRUE]
      OBVIOUS
    <3>2. db' = [m EXCEPT !.shape = db.shape \cup D]
      BY <1>1, <3>1, Zenon
    <3>3. m = [tables |-> TRUE, version |-> db.version, ledger |-> db.ledger,
               shape |-> db.shape]
      BY <2>1, <3>1
    <3> QED BY <3>2, <3>3
  <2>3. db.shape \cup D \in SUBSET (1..Schema + 1)
    BY <2>1
  <2> QED BY <1>0, <2>1, <2>2, <2>3 DEF DatabaseOK, Database, Version
<1>3. db'.version = db.version /\ db'.ledger = db.ledger /\ db'.tables
      /\ db'.shape = db.shape \cup D
  BY <1>1, <1>2 DEF Database
<1>4. db.version >= Schema => 1..Schema \subseteq db.shape
  BY <1>0, <1>2 DEF DatabaseOK
<1>5. 1..db'.version \subseteq db'.shape
      /\ (db'.version <= Schema => db'.shape \subseteq 1..Schema)
      /\ db'.ledger \in {None, db'.version}
  BY <1>0, <1>1, <1>3 DEF DatabaseOK
<1>6. db'.version = 0 => Declared \subseteq db'.shape \/ db'.shape \subseteq NewTables \cup {1}
  <2>1. CASE db.tables
    BY <1>0, <1>1, <1>3, <2>1 DEF DatabaseOK
  <2>2. CASE ~db.tables
    BY <1>1, <1>3, <2>2
  <2> QED BY <2>1, <2>2
<1> QED BY <1>2, <1>3, <1>4, <1>5, <1>6 DEF DatabaseOK

LEMMA RecordedFields ==
    ASSUME db \in Database, NEW v \in Version
    PROVE  /\ Recorded(v) \in Database
           /\ Recorded(v).version = v /\ Recorded(v).ledger = v
           /\ Recorded(v).shape = db.shape /\ Recorded(v).tables = db.tables
  BY DEF Database, Recorded

LEMMA AlteredIsOK ==
    ASSUME StartupInv, NEW p \in Procs, Alter(p)
    PROVE  /\ DatabaseOK'
           /\ Sqlite => db'.version = db.version /\ db.version + 1 \in db'.shape
<1> USE StartupAssumption
<1> DEFINE v == db.version + 1
<1>0. DatabaseOK
  BY DEF StartupInv
<1>1. db \in Database /\ db.version \in 0..Schema + 1 /\ db.version < Schema /\ v \in 1..Schema
  BY <1>0 DEF DatabaseOK, Database, Version, Alter
<1>2. db.shape \subseteq 1..Schema /\ 1..v \subseteq db.shape \cup {v}
  BY <1>0, <1>1 DEF DatabaseOK
<1>3. CASE Sqlite
  <2>1. db' = [db EXCEPT !.shape = @ \cup {v}]
    BY <1>3 DEF Alter
  <2>2. /\ db' \in Database /\ db'.version = db.version /\ db'.ledger = db.ledger
        /\ db'.tables = db.tables /\ db'.shape = db.shape \cup {v}
    BY <1>1, <2>1 DEF Database
  <2>3. 1..db'.version \subseteq db'.shape /\ db'.shape \subseteq 1..Schema
    BY <1>0, <1>1, <1>2, <2>2 DEF DatabaseOK
  <2>4. db'.ledger \in {None, db'.version}
    BY <1>0, <2>2 DEF DatabaseOK
  <2>5. db'.tables /\ db'.version = 0 =>
            Declared \subseteq db'.shape \/ db'.shape \subseteq NewTables \cup {1}
    BY <1>0, <2>2 DEF DatabaseOK
  <2> QED BY <2>2, <2>3, <2>4, <2>5 DEF DatabaseOK
<1>4. CASE ~Sqlite
  <2>1. db' = [Recorded(v) EXCEPT !.shape = @ \cup {v}]
    BY <1>4, Zenon DEF Alter
  <2>2. /\ db' \in Database /\ db'.version = v /\ db'.ledger = v /\ db'.shape = db.shape \cup {v}
    <3>0. v \in Version
      BY <1>1 DEF Version
    <3>1. PICK m : m = Recorded(v)
      OBVIOUS
    <3>2. m \in Database /\ m.version = v /\ m.ledger = v /\ m.shape = db.shape
      BY <1>1, <3>0, <3>1, RecordedFields
    <3>3. db' = [m EXCEPT !.shape = @ \cup {v}]
      BY <2>1, <3>1, Zenon
    <3> QED BY <1>1, <3>2, <3>3 DEF Database, Version
  <2>3. db'.version > 0 /\ 1..db'.version \subseteq db'.shape /\ db'.shape \subseteq 1..Schema
    BY <1>1, <1>2, <2>2
  <2> QED BY <1>4, <2>2, <2>3 DEF DatabaseOK
<1> QED BY <1>3, <1>4

LEMMA RecordedIsOK ==
    ASSUME StartupInv, NEW v \in {db.version, db.version + 1}, v <= Schema, v > 0,
           v \in db.shape, db' = Recorded(v)
    PROVE  DatabaseOK' /\ db'.version = v /\ db'.shape = db.shape
<1> USE StartupAssumption
<1>0. DatabaseOK
  BY DEF StartupInv
<1>1. db \in Database /\ db.version \in 0..Schema + 1 /\ v \in Version
  BY <1>0 DEF DatabaseOK, Database, Version
<1>2. /\ db' \in Database /\ db'.version = v /\ db'.ledger = v /\ db'.shape = db.shape
  BY <1>1 DEF Database, Recorded
<1>3. 1..v \subseteq db.shape /\ db.shape \subseteq 1..Schema
  BY <1>0, <1>1 DEF DatabaseOK
<1> QED BY <1>1, <1>2, <1>3 DEF DatabaseOK

(* Steps that touch neither the database nor its backups.                  *)
QuietStep(p) ==
    \/ Prepare(p) \/ PrepareFails(p) \/ Decline(p) \/ RunBackend(p) \/ Acquire(p)
    \/ Inspect(p) \/ Backup(p) \/ RefuseNewer(p) \/ CheckHealth(p) \/ Seed(p) \/ Stop(p)
    \/ Fail(p) \/ Release(p) \/ Kill(p) \/ Finish(p)

LEMMA QuietSteps ==
    ASSUME StartupInv, NEW p \in Procs, QuietStep(p)
    PROVE  UNCHANGED <<db, backups>> /\ LaunchOK(p)'
<1> USE StartupAssumption DEF TypeOK, LockTypeOK
<1>0. TypeOK /\ DatabaseOK /\ LaunchOK(p)
  BY DEF StartupInv
<1>1. CASE Prepare(p) \/ PrepareFails(p) \/ Decline(p)
  <2>1. step[p] \in Preparing /\ pc[p] \notin Acquiring
    BY <1>0, <1>1 DEF Prepare, PrepareFails, Decline, LaunchOK, Preparing
  <2> QED
    BY <1>0, <1>1, <2>1 DEF Prepare, PrepareFails, Decline, LaunchOK, To, At, Files, lockVars,
       Preparing, Changing
<1>2. CASE RunBackend(p)
  BY <1>0, <1>2 DEF RunBackend, Enter, GoTo, LaunchOK, To, At, Files, Preparing
<1>3. CASE Acquire(p)
  <2>1. UNCHANGED <<backend, step, db, found, backups, copied>> /\ pc[p] \in Acquiring
    BY <1>3 DEF Acquire, AcquireStep, Create, GiveUp, WriteId, ReadOwner, Judge, ReplaceStale,
       At, Acquiring, Files
  <2>2. step[p] = "inspect"
    BY <1>0, <2>1 DEF LaunchOK
  <2> QED BY <1>0, <2>1, <2>2 DEF LaunchOK, At, Changing
<1>4. CASE Inspect(p)
  BY <1>0, <1>4 DEF Inspect, Doing, LaunchOK, DatabaseOK, MayGoOn, To, At, Files, lockVars,
     Preparing, Changing, Acquiring, Sqlite, Complete
<1>5. CASE Backup(p)
  <2>1. /\ At(p, "hold") /\ found[p] = db /\ UNCHANGED <<lockVars, backend, db, found, backups>>
        /\ db \in Database /\ db.version \in 0..Schema + 1
    BY <1>0, <1>5 DEF Backup, Doing, LaunchOK, DatabaseOK, Database, Version
  <2>2. CASE db.tables /\ found[p].version < Schema
    BY <1>0, <1>5, <2>1, <2>2 DEF Backup, LaunchOK, To, At, lockVars, Preparing, Changing, Acquiring
  <2>3. CASE ~(db.tables /\ found[p].version < Schema)
    BY <1>0, <1>5, <2>1, <2>3 DEF Backup, LaunchOK, To, At, lockVars, Preparing, Changing,
       Acquiring, Complete
  <2> QED BY <2>2, <2>3
<1>6. CASE RefuseNewer(p) \/ CheckHealth(p)
  BY <1>0, <1>6 DEF RefuseNewer, CheckHealth, Doing, LaunchOK, To, At, Files, lockVars,
     Preparing, Changing, Acquiring, Sqlite, Saved, Complete
<1>7. CASE Seed(p) \/ Stop(p)
  BY <1>0, <1>7 DEF Seed, Stop, Doing, LaunchOK, To, At, Files, lockVars,
     Preparing, Changing, Acquiring, Sqlite, Saved, Complete
<1>8. CASE Fail(p)
  BY <1>0, <1>8 DEF Fail, LaunchOK, To, At, Files, lockVars, Preparing, Changing, Acquiring
<1>9. CASE Release(p) \/ Kill(p)
  <2>1. /\ UNCHANGED <<backend, step, db, found, backups, copied>>
        /\ pc'[p] \in {"unlink", "left", "dead"}
    BY <1>0, <1>9 DEF Release, Kill, BeginRelease, Unlink, Die, GoTo, Files
  <2> QED BY <1>0, <2>1 DEF LaunchOK, At, Acquiring
<1>10. CASE Finish(p)
  BY <1>0, <1>10 DEF Finish, LaunchOK, At, Files, lockVars, Sqlite, Saved, Complete
<1> QED
  BY <1>1, <1>2, <1>3, <1>4, <1>5, <1>6, <1>7, <1>8, <1>9, <1>10 DEF QuietStep

LEMMA WritingSteps ==
    ASSUME StartupInv, NEW p \in Procs,
           CreateTables(p) \/ Alter(p) \/ RecordVersion(p) \/ SyncLedger(p)
    PROVE  /\ DatabaseOK' /\ LaunchOK(p)' /\ At(p, "hold") /\ ~Doing(p, "prune")
           /\ UNCHANGED <<lockVars, backups, faults>>
<1> USE StartupAssumption
<1>0. /\ TypeOK /\ DatabaseOK /\ LaunchOK(p)
      /\ step \in [Procs -> Preparing \cup Working \cup Ended]
      /\ db \in Database /\ db.version \in 0..Schema + 1
  BY DEF StartupInv, TypeOK, Database, Version
<1>1. /\ At(p, "hold") /\ step[p] \in {"tables", "migrate", "mark"}
      /\ UNCHANGED <<lockVars, backend, Files, faults>>
  BY Zenon DEF CreateTables, Alter, RecordVersion, SyncLedger, Doing
<1>2. ~Doing(p, "prune") /\ UNCHANGED <<lockVars, backups, faults>>
  BY <1>1 DEF Doing, Files
<1>3. found'[p] = found[p] /\ backups' = backups /\ pc' = pc /\ backend' = backend
      /\ pc[p] \notin Acquiring /\ At(p, "hold")'
  BY <1>1 DEF Files, lockVars, At, Acquiring
<1>4. found[p] \in Database
      /\ (Sqlite /\ found[p].tables => Saved(p) \/ Complete(p))
  BY <1>0, <1>1 DEF LaunchOK, Changing
<1>5. Saved(p) => Saved(p)'
  BY <1>3 DEF Saved
<1>6. CASE CreateTables(p)
  <2>1. step' = [step EXCEPT ![p] = "migrate"]
    BY <1>6, Zenon DEF CreateTables, To
  <2>2. step'[p] = "migrate"
    BY <1>0, <2>1
  <2>3. DatabaseOK' /\ (Complete(p) => Complete(p)')
    BY <1>3, <1>6, CreatedIsOK DEF Complete
  <2> QED BY <1>1, <1>2, <1>3, <1>4, <1>5, <2>2, <2>3 DEF LaunchOK, Sqlite, Preparing
<1>7. CASE Alter(p)
  <2>1. DatabaseOK' /\ (Sqlite => db'.version = db.version /\ db.version + 1 \in db'.shape)
    BY <1>7, AlteredIsOK
  <2>2. /\ db.version < Schema /\ step[p] = "migrate"
        /\ IF Sqlite THEN step' = [step EXCEPT ![p] = "mark"] ELSE step' = step
    BY <1>7, Zenon DEF Alter, To, Doing
  <2>3. step'[p] = IF Sqlite THEN "mark" ELSE "migrate"
    BY <1>0, <2>2
  <2>4. ~Complete(p)
    BY <1>0, <2>2 DEF Complete
  <2> QED
    BY <1>1, <1>2, <1>3, <1>4, <1>5, <2>1, <2>2, <2>3, <2>4
    DEF LaunchOK, Sqlite, Preparing
<1>8. CASE RecordVersion(p)
  <2>1. db.version < Schema /\ db.version + 1 \in db.shape
    BY <1>0, <1>8 DEF RecordVersion, Doing, LaunchOK
  <2>2. DatabaseOK'
    BY <1>0, <1>8, <2>1, RecordedIsOK DEF RecordVersion
  <2>3. step'[p] = "migrate" /\ ~Complete(p)
    BY <1>0, <1>8, <2>1 DEF RecordVersion, To, Complete
  <2> QED BY <1>1, <1>2, <1>3, <1>4, <1>5, <2>2, <2>3 DEF LaunchOK, Sqlite, Preparing
<1>9. CASE SyncLedger(p)
  <2>1. db.version = Schema /\ Schema \in db.shape
    BY <1>0, <1>9 DEF SyncLedger, DatabaseOK
  <2>2. DatabaseOK' /\ db'.version = db.version /\ db'.shape = db.shape
    BY <1>9, <2>1, RecordedIsOK DEF SyncLedger
  <2>3. step'[p] = "health"
    BY <1>0, <1>9 DEF SyncLedger, To
  <2> QED BY <1>1, <1>2, <1>3, <1>4, <1>5, <2>2, <2>3 DEF LaunchOK, Sqlite, Preparing, Complete
<1> QED BY <1>6, <1>7, <1>8, <1>9

LEMMA BackupSteps ==
    ASSUME StartupInv, NEW p \in Procs, Publish(p) \/ Prune(p)
    PROVE  /\ At(p, "hold") /\ LaunchOK(p)' /\ BackupsOK' /\ UNCHANGED <<lockVars, db, faults>>
           /\ backups' \in Seq(Database) /\ Len(backups') <= Keep + 1 + faults
<1> USE StartupAssumption
<1>0. /\ TypeOK /\ DatabaseOK /\ LaunchOK(p) /\ BackupsOK
      /\ backups \in Seq(Database) /\ Len(backups) \in Nat /\ faults \in Nat
      /\ step \in [Procs -> Preparing \cup Working \cup Ended]
      /\ Keep \in Nat \ {0} /\ db \in Database
  BY DEF StartupInv, TypeOK
<1>1. CASE Publish(p)
  <2>1. /\ At(p, "hold") /\ step[p] = "publish" /\ UNCHANGED <<lockVars, backend, db, found, faults>>
        /\ backups' = Append(backups, db) /\ step' = [step EXCEPT ![p] = "prune"] /\ found[p] = db
    BY <1>0, <1>1 DEF Publish, Doing, LaunchOK, To
  <2>2. backups' \in Seq(Database) /\ Len(backups') = Len(backups) + 1
        /\ backups'[Len(backups')] = db
    BY <1>0, <2>1
  <2>3. Len(backups) <= Keep + faults
    <3>1. ASSUME NEW q \in Procs, Doing(q, "prune") PROVE FALSE
      BY <2>1, <3>1, OneHolder DEF StartupInv, SoleInstance, Doing, At, Holding
    <3> QED BY <1>0, <3>1 DEF BackupsOK
  <2>4. step'[p] = "prune" /\ Doing(p, "prune")'
    BY <1>0, <2>1 DEF Doing, At, lockVars
  <2>5. BackupsOK'
    BY <2>4 DEF BackupsOK
  <2>6. LaunchOK(p)'
    BY <1>0, <2>1, <2>2, <2>4
    DEF LaunchOK, Saved, At, lockVars, Preparing, Changing, Acquiring
  <2> QED BY <1>0, <2>1, <2>2, <2>3, <2>5, <2>6
<1>2. CASE Prune(p)
  <2>1. /\ At(p, "hold") /\ step[p] = "prune"
        /\ UNCHANGED <<lockVars, backend, db, found, copied, faults>>
        /\ step' = [step EXCEPT ![p] = "tables"]
        /\ found[p] = db /\ Saved(p)
    BY <1>0, <1>2 DEF Prune, Doing, LaunchOK, To
  <2>2. backups' \in Seq(Database) /\ Len(backups') <= Keep /\ Len(backups') > 0
        /\ backups'[Len(backups')] = backups[Len(backups)]
    <3>1. CASE Len(backups) > Keep
      <4> DEFINE first == Len(backups) - Keep + 1
      <4>1. backups' = SubSeq(backups, first, Len(backups)) /\ first \in 1..Len(backups)
        BY <1>0, <1>2, <3>1 DEF Prune
      <4>2. /\ backups' \in Seq(Database) /\ Len(backups') = Len(backups) - first + 1
            /\ \A i \in 1..Len(backups) - first + 1 : backups'[i] = backups[first + i - 1]
        BY <1>0, <4>1, SubSeqProperties
      <4> QED BY <1>0, <3>1, <4>2
    <3>2. CASE ~(Len(backups) > Keep)
      BY <1>0, <1>2, <2>1, <3>2 DEF Prune, Saved
    <3> QED BY <3>1, <3>2
  <2>3. BackupsOK' /\ Len(backups') <= Keep + 1 + faults
    BY <1>0, <2>1, <2>2, LenProperties DEF BackupsOK
  <2>4. step'[p] = "tables" /\ Saved(p)'
    BY <1>0, <2>1, <2>2 DEF Saved
  <2>5. LaunchOK(p)'
    BY <1>0, <2>1, <2>4 DEF LaunchOK, At, lockVars, Preparing, Changing, Acquiring
  <2> QED BY <2>1, <2>2, <2>3, <2>5
<1> QED BY <1>1, <1>2

LEMMA StartupTypes ==
    ASSUME TypeOK, NEW p \in Procs, LaunchStep(p)
    PROVE  /\ step' \in [Procs -> Preparing \cup Working \cup Ended]
           /\ found' \in [Procs -> Database \cup {None}]
           /\ copied' \in [Procs -> Database \cup {None}]
           /\ result' \in [Procs -> {"none", "PASS", "FAIL", "CANCELLED"}]
<1> USE DEF TypeOK
<1>1. /\ step' = step \/ \E l \in Preparing \cup Working \cup Ended : To(p, l)
      /\ found' = found \/ found' = [found EXCEPT ![p] = db]
      /\ copied' = copied \/ \E c \in {db, None} : copied' = [copied EXCEPT ![p] = c]
      /\ result' = result \/ \E r \in {"PASS", "FAIL", "CANCELLED"} : Report(p, r)
  <2>1. CASE RunBackend(p) \/ Acquire(p) \/ Release(p) \/ Kill(p) \/ Finish(p) \/ Fail(p)
    BY <2>1 DEF RunBackend, Acquire, Release, Kill, Finish, Fail, Files, Working, Ended
  <2>2. CASE Prepare(p) \/ PrepareFails(p) \/ Decline(p) \/ Inspect(p) \/ Backup(p)
    BY <2>2 DEF Prepare, PrepareFails, Decline, Inspect, Backup, Files, Preparing, Working, Ended
  <2>3. CASE Publish(p) \/ Prune(p) \/ RefuseNewer(p) \/ CheckHealth(p) \/ Seed(p) \/ Stop(p)
    BY <2>3 DEF Publish, Prune, RefuseNewer, CheckHealth, Seed, Stop, Files, Working, Ended
  <2>4. CASE CreateTables(p) \/ Alter(p) \/ RecordVersion(p) \/ SyncLedger(p)
    <3>1. (To(p, "migrate") \/ To(p, "mark") \/ To(p, "health") \/ step' = step)
          /\ UNCHANGED <<Files, result>>
      BY <2>4, Zenon DEF CreateTables, Alter, RecordVersion, SyncLedger
    <3> QED BY <3>1 DEF Files, Working
  <2> QED BY <2>1, <2>2, <2>3, <2>4 DEF LaunchStep, Proceed
<1> QED BY <1>1 DEF To, Report

(* Every step keeps the invariant.                                         *)
LEMMA StartupSteps ==
    ASSUME ~Overlap, StartupInv, [Next]_vars
    PROVE  StartupInv'
<1> USE StartupAssumption
<1>1. LockInv'
  <2>1. [LockNext]_lockVars
    BY LaunchesUseTheLock DEF vars, lockVars
  <2> QED BY <2>1, LockSteps DEF StartupInv
<1>2. CASE UNCHANGED vars \/ \E p \in Procs : Reuse(p)
  <2>0. UNCHANGED <<pc, backend, kind, step, db, found, backups, copied, result, faults>>
    BY <1>2 DEF vars, lockVars, Reuse, NumberChangesHands, Files
  <2>1. TypeOK' /\ DatabaseOK'
    BY <1>1, <2>0 DEF StartupInv, TypeOK, LockInv, DatabaseOK
  <2>2. BackupsOK'
    BY <2>0 DEF StartupInv, BackupsOK, Doing, At
  <2>3. ASSUME NEW q \in Procs PROVE LaunchOK(q)'
    BY <2>0 DEF StartupInv, LaunchOK, At, Saved, Complete, Sqlite
  <2> QED BY <1>1, <2>1, <2>2, <2>3 DEF StartupInv
<1>3. ASSUME NEW p \in Procs, LaunchStep(p)
      PROVE  StartupInv'
  <2>0. TypeOK /\ DatabaseOK /\ faults \in Nat
    BY DEF StartupInv, TypeOK
  <2>1. /\ backend' = backend /\ kind' = kind
        /\ faults' = faults \/ faults' = faults + 1
        /\ faults' \in 0..MaxFaults
        /\ \A q \in Procs : q # p => /\ pc'[q] = pc[q] /\ step'[q] = step[q]
                                     /\ found'[q] = found[q] /\ copied'[q] = copied[q]
    BY <1>3, <2>0, OwnEntries DEF TypeOK
  <2>2. QuietStep(p)
        \/ (CreateTables(p) \/ Alter(p) \/ RecordVersion(p) \/ SyncLedger(p))
        \/ (Publish(p) \/ Prune(p))
    BY <1>3, Zenon DEF LaunchStep, Proceed, QuietStep
  <2>3. DatabaseOK' /\ LaunchOK(p)' /\ ((db' = db /\ backups' = backups) \/ At(p, "hold"))
    <3>1. CASE QuietStep(p)
      BY <2>0, <3>1, QuietSteps DEF DatabaseOK
    <3>2. CASE CreateTables(p) \/ Alter(p) \/ RecordVersion(p) \/ SyncLedger(p)
      BY <3>2, WritingSteps
    <3>3. CASE Publish(p) \/ Prune(p)
      BY <2>0, <3>3, BackupSteps DEF DatabaseOK
    <3> QED BY <2>2, <3>1, <3>2, <3>3
  <2>4. BackupsOK' /\ Len(backups') <= Keep + 1 + faults' /\ backups' \in Seq(Database)
    <3>1. CASE QuietStep(p)
      <4>1. backups' = backups
        BY <3>1, QuietSteps
      <4>2. \/ pc'[p] = pc[p] /\ step'[p] = step[p]
            \/ ~Doing(p, "prune")
            \/ faults' = faults + 1
        <5>1. CASE Prepare(p) \/ PrepareFails(p) \/ Decline(p) \/ RunBackend(p)
          BY <5>1 DEF Prepare, PrepareFails, Decline, RunBackend, Doing
        <5>2. CASE Acquire(p) \/ Release(p)
          BY <5>2 DEF Acquire, AcquireStep, Create, GiveUp, WriteId, ReadOwner, Judge,
             ReplaceStale, Release, BeginRelease, Unlink, Ended, At, Doing
        <5>3. CASE Inspect(p) \/ Backup(p) \/ RefuseNewer(p) \/ CheckHealth(p) \/ Seed(p) \/ Stop(p)
          BY <5>3 DEF Inspect, Backup, RefuseNewer, CheckHealth, Seed, Stop, Doing
        <5>4. CASE Fail(p) \/ Kill(p)
          BY <5>4 DEF Fail, Kill
        <5>5. CASE Finish(p)
          BY <5>5 DEF Finish, lockVars
        <5> QED BY <3>1, <5>1, <5>2, <5>3, <5>4, <5>5 DEF QuietStep
      <4>3. faults' \in Nat /\ faults' >= faults
        BY <2>0, <2>1
      <4>4. BackupsOK' /\ Len(backups') <= Keep + 1 + faults'
        BY <2>1, <4>1, <4>2, <4>3, BackupsKept
      <4> QED BY <2>0, <4>1, <4>4 DEF TypeOK
    <3>2. CASE CreateTables(p) \/ Alter(p) \/ RecordVersion(p) \/ SyncLedger(p)
      <4>1. UNCHANGED <<backups, faults>> /\ ~Doing(p, "prune")
        BY <3>2, WritingSteps
      <4>2. BackupsOK' /\ Len(backups') <= Keep + 1 + faults'
        BY <2>0, <2>1, <4>1, BackupsKept
      <4> QED BY <2>0, <4>1, <4>2 DEF TypeOK
    <3>3. CASE Publish(p) \/ Prune(p)
      BY <3>3, BackupSteps
    <3> QED BY <2>2, <3>1, <3>2, <3>3
  <2>5. \A q \in Procs : LaunchOK(q)'
    <3>1. ASSUME NEW q \in Procs, q # p PROVE LaunchOK(q)'
      BY <2>1, <2>3, <3>1, OthersKept
    <3> QED BY <2>3, <3>1
  <2>6. TypeOK'
    <3>1. /\ step' \in [Procs -> Preparing \cup Working \cup Ended]
          /\ found' \in [Procs -> Database \cup {None}]
          /\ copied' \in [Procs -> Database \cup {None}]
          /\ result' \in [Procs -> {"none", "PASS", "FAIL", "CANCELLED"}]
      BY <1>3, <2>0, StartupTypes
    <3>2. LockTypeOK' /\ db' \in Database
      BY <1>1, <2>3 DEF LockInv, DatabaseOK
    <3> QED BY <2>0, <2>1, <2>4, <3>1, <3>2 DEF TypeOK
  <2> QED BY <1>1, <2>3, <2>4, <2>5, <2>6 DEF StartupInv
<1> QED
  BY <1>2, <1>3 DEF Next, LaunchStep

-----------------------------------------------------------------------------
LEMMA StartupInvariant ==
    ASSUME ~Overlap
    PROVE  Spec => []StartupInv
<1>1. StartupInv /\ [Next]_vars => StartupInv'
  BY StartupSteps
<1> QED BY StartupStarts, <1>1, PTL DEF Spec

(* A version that is current means that every step is there, and no other. *)
LEMMA CurrentIsComplete ==
    ASSUME DatabaseOK, db.version = Schema
    PROVE  db.shape = 1..Schema
<1>1. 1..Schema \subseteq db.shape /\ db.shape \subseteq 1..Schema
  BY StartupAssumption DEF DatabaseOK
<1> QED BY <1>1

(* Every variable keeps its type; in particular a launch that dies between *)
(* publishing and pruning leaves one backup more than Keep, and no more.   *)
THEOREM StartupTyped ==
    ASSUME ~Overlap
    PROVE  Spec => []TypeOK
<1>1. StartupInv => TypeOK
  BY DEF StartupInv
<1> QED BY StartupInvariant, <1>1, PTL

(* The lock excludes in the whole start-up, whatever is killed: what it    *)
(* protects has one owner.                                                 *)
THEOREM LaunchesExclude ==
    ASSUME ~Overlap
    PROVE  Spec => []SoleInstance
<1>1. StartupInv => SoleInstance
  BY OneHolder DEF StartupInv
<1> QED BY StartupInvariant, <1>1, PTL

(* A launch is refused while another holds the lock, or over a number that *)
(* an owner that has ended has left and somebody has again: the check of   *)
(* "Another local instance is already running" (runtime_lock.py:75-77)     *)
(* sees numbers only.  There is no other cause.                            *)
THEOREM LaunchRefusedForCause ==
    ASSUME ~Overlap
    PROVE  Spec => RefusedForCause
<1>1. StartupInv /\ [Next]_vars =>
        [\A p \in Procs : pc[p] # "refused" /\ pc'[p] = "refused" =>
             \/ \E q \in Procs \ {p} : pc[q] \in Holding
             \/ owner[p] \in reused]_lockVars
  BY LaunchesUseTheLock, Refusals DEF StartupInv, vars, lockVars, Cause
<1> QED BY StartupInvariant, <1>1, PTL DEF Spec, RefusedForCause

(* What is served has the whole schema of this build, and one server is    *)
(* at work (create_app's lifespan, main.py).                               *)
THEOREM CurrentWhenServed ==
    ASSUME ~Overlap
    PROVE  Spec => []ServedIsCurrent
<1>1. ASSUME StartupInv PROVE ServedIsCurrent
  <2> SUFFICES ASSUME NEW p \in Procs, Doing(p, "serve")
               PROVE  /\ db.version = Schema /\ db.shape = 1..Schema
                      /\ \A q \in Procs \ {p} : ~At(q, "hold")
    BY DEF ServedIsCurrent
  <2>1. db.version = Schema
    BY <1>1 DEF StartupInv, LaunchOK, Doing
  <2>2. db.shape = 1..Schema
    BY <1>1, <2>1, CurrentIsComplete DEF StartupInv
  <2>3. \A q \in Procs \ {p} : ~At(q, "hold")
    BY <1>1, OneHolder DEF StartupInv, SoleInstance, Doing, At, Holding
  <2> QED BY <2>1, <2>2, <2>3
<1> QED BY StartupInvariant, <1>1, PTL

(* No schema change without a backup of what was there                     *)
(* (backup_before_migration, and apply_schema_migrations after it).        *)
THEOREM BackupBeforeChange ==
    ASSUME ~Overlap
    PROVE  Spec => []EveryChangeHasBackup
<1>1. ASSUME StartupInv PROVE EveryChangeHasBackup
  <2> SUFFICES ASSUME NEW p \in Procs, At(p, "hold"), step[p] \in Working, Sqlite,
                      found[p] # None, found[p].tables, db.shape # found[p].shape
               PROVE  \E i \in DOMAIN backups : backups[i] = found[p]
    BY DEF EveryChangeHasBackup
  <2>1. LaunchOK(p) /\ backups \in Seq(Database)
    BY <1>1 DEF StartupInv, TypeOK
  <2>2. step[p] \in Changing
    BY <2>1 DEF LaunchOK, Working, Changing, Preparing
  <2>3. Saved(p)
    BY <2>1, <2>2 DEF LaunchOK, Complete
  <2> QED BY <2>1, <2>3 DEF Saved
<1> QED BY StartupInvariant, <1>1, PTL

(* What the doctor looks for tells a database that create_all has made     *)
(* from the remains of an old one: it includes something that neither      *)
(* create_all adds to an old database nor the first step.  In the code     *)
(* that is notifications.delivery_status, a column of the second step in a *)
(* table every old database has (backup_restore.py:117).                   *)
TellingStructure ==
    Declared \subseteq Structure \/ ~(Structure \subseteq NewTables \cup {1})

(* The recovery doctor and the start agree about every database that       *)
(* launches, kills and failures can leave behind.                          *)
THEOREM DoctorAndStartAgree ==
    ASSUME ~Overlap, TellingStructure
    PROVE  Spec => []DoctorAgrees
<1>1. ASSUME StartupInv PROVE DoctorAgrees
  <2> USE StartupAssumption
  <2> SUFFICES ASSUME db.tables
               PROVE  /\ SchemaVerdict = "future_schema" <=> db.version > Schema
                      /\ SchemaVerdict = "current" => db.shape = 1..Schema
                      /\ SchemaVerdict = "marker_unsynchronized" => Declared \subseteq db.shape
                      /\ SchemaVerdict \notin {"marker_drift", "marker_mismatch"}
    BY DEF DoctorAgrees
  <2>1. /\ DatabaseOK /\ db.version \in 0..Schema + 1 /\ db.ledger \in {None, db.version}
        /\ db.ledger \in Version \cup {None}
    BY <1>1 DEF StartupInv, DatabaseOK, Database, Version
  <2>2. CASE db.version > Schema
    <3>1. db.version \in Observed
      BY <2>1 DEF Observed
    <3>2. SchemaVerdict = "future_schema"
      BY <2>2, <3>1 DEF SchemaVerdict
    <3> QED BY <2>1, <2>2, <3>2
  <2>3. CASE db.version = Schema
    <3>1. db.shape = 1..Schema
      BY <2>1, <2>3, CurrentIsComplete
    <3>2. \A v \in Observed : v = Schema
      BY <2>1, <2>3 DEF Observed
    <3>3. SchemaVerdict = "current"
      BY <2>1, <2>3, <3>2 DEF SchemaVerdict
    <3> QED BY <2>3, <3>1, <3>3
  <2>4. CASE db.version < Schema
    <3>1. \A v \in Observed : v = db.version
      BY <2>1 DEF Observed
    <3>2. HasStructure /\ db.version = 0 => Declared \subseteq db.shape
      BY <2>1 DEF DatabaseOK, HasStructure, TellingStructure
    <3>3. SchemaVerdict \in {"marker_unsynchronized", "migration_required"}
          /\ (SchemaVerdict = "marker_unsynchronized" => HasStructure /\ db.version = 0)
      BY <2>1, <2>4, <3>1 DEF SchemaVerdict
    <3> QED BY <2>1, <2>4, <3>2, <3>3
  <2> QED BY <2>1, <2>2, <2>3, <2>4
<1> QED BY StartupInvariant, <1>1, PTL

-----------------------------------------------------------------------------
(* How long a launch takes.  The steps it has left: those of the schema    *)
(* are counted from the version of the database, the rounds for the lock   *)
(* from its tries.                                                         *)
ToMigrate == IF db.version <= Schema THEN 2 * (Schema - db.version) ELSE 0

HeldLeft(l) ==
    CASE l = "inspect"            -> 2 * Schema + 12
      [] l = "backup"             -> 2 * Schema + 11
      [] l = "publish"            -> 2 * Schema + 10
      [] l = "prune"              -> 2 * Schema + 9
      [] l = "tables"             -> 2 * Schema + 8
      [] l = "migrate"            -> ToMigrate + 7
      [] l = "mark"               -> ToMigrate + 6
      [] l \in {"sync", "health"} -> 6
      [] l = "seed"               -> 5
      [] l = "serve"              -> 4
      [] OTHER                    -> 3

AcquiringLeft(l, t) ==
    IF l = "write" THEN 2 * Schema + 13
    ELSE 2 * Schema + 12 + 4 * (2 - t) + CASE l = "create" -> 3
                                           [] l = "read"   -> 2
                                           [] l = "judge"  -> 1
                                           [] OTHER        -> 0

StepsLeft(p) ==
    CASE step[p] = "new"       -> 2 * Schema + 25
      [] step[p] = "prepared"  -> 2 * Schema + 24
      [] pc[p] \in Acquiring /\ step[p] \notin Preparing -> AcquiringLeft(pc[p], tries[p])
      [] pc[p] = "hold" /\ step[p] \notin Preparing      -> HeldLeft(step[p])
      [] pc[p] = "unlink" /\ step[p] \notin Preparing    -> 2
      [] OTHER -> IF pc[p] # "idle" /\ result[p] = "none" THEN 1 ELSE 0

(* A launch that prepares has not asked for the lock.                      *)
PreparingOK == \A p \in Procs : step[p] \in Preparing => pc[p] = "idle"

LEMMA LeftIsCounted ==
    ASSUME TypeOK, NEW p \in Procs
    PROVE  StepsLeft(p) \in 0..2 * Schema + 25
<1>1. /\ Schema \in Nat /\ tries[p] \in 0..2
      /\ pc[p] \in Acquiring \cup Holding \cup Gone /\ step[p] \in Preparing \cup Working \cup Ended
  BY StartupAssumption DEF TypeOK, LockTypeOK
<1>2. ToMigrate \in 0..2 * Schema
  BY StartupAssumption DEF TypeOK, Database, Version, ToMigrate
<1>3. HeldLeft(step[p]) \in 0..2 * Schema + 12
  BY <1>1, <1>2 DEF HeldLeft
<1>4. AcquiringLeft(pc[p], tries[p]) \in 0..2 * Schema + 23
  BY <1>1 DEF AcquiringLeft
<1> QED BY <1>1, <1>3, <1>4 DEF StepsLeft

LEMMA PreparingSteps ==
    ASSUME TypeOK, PreparingOK, NEW p \in Procs, LaunchStep(p)
    PROVE  PreparingOK'
<1> USE DEF TypeOK, LockTypeOK, Preparing
<1> SUFFICES ASSUME step'[p] \in Preparing PROVE pc'[p] = "idle"
  BY OwnEntries DEF PreparingOK
<1>1. CASE Prepare(p)
  BY <1>1 DEF Prepare, PreparingOK, lockVars
<1>2. CASE RunBackend(p) \/ PrepareFails(p) \/ Decline(p) \/ Inspect(p) \/ CheckHealth(p)
  BY <1>2 DEF RunBackend, PrepareFails, Decline, Inspect, CheckHealth, To
<1>3. CASE Acquire(p)
  BY <1>3 DEF Acquire, AcquireStep, Create, GiveUp, WriteId, ReadOwner, Judge, ReplaceStale,
     At, PreparingOK
<1>4. CASE Release(p) \/ Kill(p)
  BY <1>4 DEF Release, BeginRelease, Unlink, Kill, Die, Alive, Gone, At, PreparingOK
<1>5. CASE Backup(p) \/ Publish(p) \/ Prune(p) \/ CreateTables(p) \/ RefuseNewer(p) \/ Alter(p)
           \/ RecordVersion(p) \/ SyncLedger(p) \/ Seed(p) \/ Stop(p) \/ Fail(p)
  <2>1. \/ \E l \in Working \cup Ended : To(p, l)
        \/ At(p, "hold") /\ UNCHANGED step
    BY <1>5, Zenon DEF Backup, Publish, Prune, CreateTables, RefuseNewer, Alter, RecordVersion,
       SyncLedger, Seed, Stop, Fail, Doing, Working, Ended
  <2> QED BY <2>1 DEF To, Working, Ended, At, PreparingOK
<1>6. CASE Finish(p)
  BY <1>6 DEF Finish, lockVars, PreparingOK
<1> QED BY <1>1, <1>2, <1>3, <1>4, <1>5, <1>6 DEF LaunchStep, Proceed

(* What is left to others is not touched: only the holder changes the      *)
(* database, and no other launch holds the lock with it.                   *)
LEMMA OthersLeft ==
    ASSUME StartupInv, NEW p \in Procs, LaunchStep(p), NEW q \in Procs, q # p
    PROVE  StepsLeft(q)' = StepsLeft(q)
<1> USE DEF TypeOK, LockTypeOK
<1>0. TypeOK
  BY DEF StartupInv
<1>1. pc'[q] = pc[q] /\ step'[q] = step[q]
  BY <1>0, OwnEntries
<1>2. tries'[q] = tries[q] /\ result'[q] = result[q] /\ (db' = db \/ At(p, "hold"))
  <2>1. CASE Acquire(p)
    BY <1>0, <2>1 DEF Acquire, AcquireStep, Create, GiveUp, WriteId, ReadOwner, Judge, ReplaceStale
  <2>2. CASE RunBackend(p) \/ Release(p) \/ Kill(p)
    BY <2>2 DEF RunBackend, Enter, Release, BeginRelease, Unlink, Kill, Die
  <2>3. CASE PrepareFails(p) \/ Decline(p) \/ Finish(p)
    BY <1>0, <2>3 DEF PrepareFails, Decline, Finish, Report, lockVars
  <2>4. CASE Prepare(p) \/ Inspect(p) \/ Backup(p) \/ Publish(p) \/ Prune(p) \/ RefuseNewer(p)
             \/ CheckHealth(p) \/ Seed(p) \/ Stop(p) \/ Fail(p)
    <3>1. UNCHANGED <<lockVars, db, result>>
      BY <2>4, Zenon DEF Prepare, Inspect, Backup, Publish, Prune, RefuseNewer, CheckHealth,
         Seed, Stop, Fail
    <3> QED BY <3>1 DEF lockVars
  <2>5. CASE CreateTables(p) \/ Alter(p) \/ RecordVersion(p) \/ SyncLedger(p)
    <3>1. At(p, "hold") /\ UNCHANGED <<lockVars, result>>
      BY <2>5, Zenon DEF CreateTables, Alter, RecordVersion, SyncLedger, Doing
    <3> QED BY <3>1 DEF lockVars
  <2> QED BY <2>1, <2>2, <2>3, <2>4, <2>5 DEF LaunchStep, Proceed
<1>3. pc[q] = "hold" => db' = db
  BY <1>2, OneHolder DEF StartupInv, SoleInstance, At, Holding
<1>4. pc[q] = "hold" => HeldLeft(step[q])' = HeldLeft(step[q])
  BY <1>1, <1>3 DEF HeldLeft, ToMigrate
<1>5. AcquiringLeft(pc[q], tries[q])' = AcquiringLeft(pc[q], tries[q])
  BY <1>1, <1>2 DEF AcquiringLeft
<1> QED BY <1>1, <1>2, <1>4, <1>5 DEF StepsLeft

(* Every step of a launch, a failure too, leaves it fewer.                 *)
LEMMA AcquiringSteps ==
    ASSUME StartupInv, PreparingOK, NEW p \in Procs, Acquire(p)
    PROVE  StepsLeft(p)' < StepsLeft(p)
<1> USE StartupAssumption DEF Acquiring, Gone, At, GoTo
<1>0. /\ Schema \in Nat /\ tries \in [Procs -> 0..2]
      /\ pc \in [Procs -> Acquiring \cup Holding \cup Gone]
      /\ TriesOK(p)
  BY DEF StartupInv, TypeOK, LockInv, LockTypeOK
<1>1. pc[p] \in Acquiring /\ step' = step /\ result' = result
  BY DEF Acquire, AcquireStep, Create, GiveUp, WriteId, ReadOwner, Judge, ReplaceStale
<1>2. step[p] = "inspect"
  BY <1>1 DEF StartupInv, LaunchOK
<1>3. StepsLeft(p) = AcquiringLeft(pc[p], tries[p])
  BY <1>1, <1>2 DEF StepsLeft, Preparing
<1>4. pc'[p] \in Acquiring => StepsLeft(p)' = AcquiringLeft(pc'[p], tries'[p])
  BY <1>1, <1>2 DEF StepsLeft, Preparing
<1>5. CASE Create(p)
  BY <1>0, <1>3, <1>4, <1>5 DEF Create, AcquiringLeft
<1>6. CASE GiveUp(p) \/ Judge(p)
  <2>1. tries' = tries /\ pc'[p] \in {"refused", "replace"}
        /\ (GiveUp(p) => pc'[p] = "refused") /\ (Judge(p) => pc[p] = "judge")
    BY <1>0, <1>6 DEF GiveUp, Judge
  <2>2. CASE pc'[p] = "replace"
    BY <1>0, <1>3, <1>4, <1>6, <2>1, <2>2 DEF AcquiringLeft
  <2>3. CASE pc'[p] = "refused"
    <3>1. StepsLeft(p)' \in 0..1
      BY <1>1, <1>2, <2>3 DEF StepsLeft, Preparing
    <3>2. StepsLeft(p) \in Nat /\ StepsLeft(p) > 1
      BY <1>0, <1>1, <1>3 DEF AcquiringLeft
    <3> QED BY <3>1, <3>2
  <2> QED BY <2>1, <2>2, <2>3
<1>7. CASE WriteId(p)
  <2>1. StepsLeft(p)' = 2 * Schema + 12
    BY <1>0, <1>1, <1>2, <1>7 DEF WriteId, StepsLeft, HeldLeft, Preparing
  <2> QED BY <1>0, <1>3, <1>7, <2>1 DEF WriteId, AcquiringLeft
<1>8. CASE ReadOwner(p)
  BY <1>0, <1>3, <1>4, <1>8 DEF ReadOwner, AcquiringLeft
<1>9. CASE ReplaceStale(p)
  BY <1>0, <1>3, <1>4, <1>9 DEF ReplaceStale, AcquiringLeft, TriesOK
<1> QED BY <1>5, <1>6, <1>7, <1>8, <1>9 DEF Acquire, AcquireStep

LEMMA HeldSteps ==
    ASSUME StartupInv, NEW p \in Procs,
           \/ Inspect(p) \/ Backup(p) \/ Publish(p) \/ Prune(p) \/ CreateTables(p)
           \/ RefuseNewer(p) \/ Alter(p) \/ RecordVersion(p) \/ SyncLedger(p)
           \/ CheckHealth(p) \/ Seed(p) \/ Stop(p) \/ Fail(p)
    PROVE  StepsLeft(p)' < StepsLeft(p)
<1> USE StartupAssumption
<1>0. /\ Schema \in Nat /\ db.version \in 0..Schema + 1 /\ db \in Database
      /\ step \in [Procs -> Preparing \cup Working \cup Ended]
  BY DEF StartupInv, TypeOK, Database, Version
<1>1. pc[p] = "hold" /\ pc'[p] = "hold" /\ step[p] \in Working
  <2>1. At(p, "hold") /\ UNCHANGED lockVars
        /\ (step[p] \in {"inspect", "backup", "publish", "prune", "tables", "migrate", "mark",
                         "health", "seed", "serve"} \/ step[p] \in Working \ {"serve"})
    BY Zenon DEF Inspect, Backup, Publish, Prune, CreateTables, RefuseNewer, Alter,
       RecordVersion, SyncLedger, CheckHealth, Seed, Stop, Fail, Doing
  <2> QED BY <2>1 DEF At, lockVars, Working
<1>2. StepsLeft(p) = HeldLeft(step[p])
  BY <1>1 DEF StepsLeft, Preparing, Working, Acquiring
<1>3. step'[p] \notin Preparing => StepsLeft(p)' = HeldLeft(step[p])'
  BY <1>1 DEF StepsLeft, Acquiring
<1>4. ToMigrate \in 0..2 * Schema
  BY <1>0 DEF ToMigrate
<1> USE <1>0, <1>2, <1>3, <1>4 DEF Preparing, Working, Ended, To, Doing
<1>5. CASE Inspect(p) \/ Backup(p) \/ Publish(p) \/ Prune(p)
  <2>1. CASE Inspect(p)
    BY <2>1 DEF Inspect, HeldLeft
  <2>2. CASE Backup(p)
    BY <2>2 DEF Backup, HeldLeft
  <2>3. CASE Publish(p)
    BY <2>3 DEF Publish, HeldLeft
  <2>4. CASE Prune(p)
    BY <2>4 DEF Prune, HeldLeft
  <2> QED BY <1>5, <2>1, <2>2, <2>3, <2>4
<1>6. CASE CreateTables(p)
  <2>1. ToMigrate' = ToMigrate
    BY <1>6, CreatedIsOK DEF ToMigrate
  <2>2. step[p] = "tables" /\ step'[p] = "migrate"
    BY <1>6 DEF CreateTables
  <2>3. StepsLeft(p) = 2 * Schema + 8 /\ StepsLeft(p)' = ToMigrate + 7
    BY <2>1, <2>2 DEF HeldLeft
  <2> QED BY <2>3
<1>7. CASE RefuseNewer(p) \/ CheckHealth(p) \/ Seed(p) \/ Stop(p)
  <2>1. CASE RefuseNewer(p)
    BY <2>1 DEF RefuseNewer, HeldLeft
  <2>2. CASE CheckHealth(p) \/ Seed(p) \/ Stop(p)
    BY <2>2 DEF CheckHealth, Seed, Stop, HeldLeft
  <2> QED BY <1>7, <2>1, <2>2
<1>8. CASE Alter(p)
  <2>1. step[p] = "migrate" /\ db.version < Schema
    BY <1>8 DEF Alter
  <2>2. CASE Sqlite
    <3>1. db'.version = db.version /\ step'[p] = "mark"
      BY <1>8, <2>2, AlteredIsOK DEF Alter
    <3> QED BY <2>1, <3>1 DEF HeldLeft, ToMigrate
  <2>3. CASE ~Sqlite
    <3>1. db' = [Recorded(db.version + 1) EXCEPT !.shape = @ \cup {db.version + 1}]
          /\ step' = step
      BY <1>8, <2>3 DEF Alter
    <3>2. db.version + 1 \in Version
      BY <2>1 DEF Version
    <3>3. Recorded(db.version + 1) \in Database /\ Recorded(db.version + 1).version = db.version + 1
      BY <3>2, RecordedFields
    <3>4. db'.version = db.version + 1
      BY <3>1, <3>3 DEF Database
    <3> QED BY <2>1, <3>1, <3>4 DEF HeldLeft, ToMigrate
  <2> QED BY <2>2, <2>3
<1>9. CASE RecordVersion(p)
  <2>1. step[p] = "mark" /\ step'[p] = "migrate" /\ db.version < Schema
    BY <1>1, <1>9 DEF RecordVersion, StartupInv, LaunchOK, At
  <2>2. db'.version = db.version + 1
    BY <1>9, <2>1, RecordedFields DEF RecordVersion, Version
  <2> QED BY <2>1, <2>2 DEF HeldLeft, ToMigrate
<1>10. CASE SyncLedger(p)
  BY <1>10 DEF SyncLedger, HeldLeft
<1>11. CASE Fail(p)
  BY <1>1, <1>11 DEF Fail, HeldLeft
<1> QED BY <1>5, <1>6, <1>7, <1>8, <1>9, <1>10, <1>11

LEMMA OwnLeft ==
    ASSUME StartupInv, PreparingOK, NEW p \in Procs, LaunchStep(p)
    PROVE  StepsLeft(p)' < StepsLeft(p)
<1> USE StartupAssumption
<1>0. /\ Schema \in Nat /\ tries \in [Procs -> 0..2]
      /\ pc \in [Procs -> Acquiring \cup Holding \cup Gone]
      /\ step \in [Procs -> Preparing \cup Working \cup Ended]
      /\ result \in [Procs -> {"none", "PASS", "FAIL", "CANCELLED"}]
      /\ TriesOK(p) /\ (step[p] \in Preparing => pc[p] = "idle")
  BY DEF StartupInv, TypeOK, LockInv, LockTypeOK, PreparingOK
<1> USE <1>0 DEF Preparing, Acquiring, Holding, Gone, To, GoTo, At
<1>1. CASE Prepare(p) \/ PrepareFails(p) \/ Decline(p)
  <2>1. pc'[p] = "idle"
    BY <1>1 DEF Prepare, PrepareFails, Decline, lockVars
  <2>2. CASE Prepare(p)
    BY <2>2 DEF Prepare, StepsLeft
  <2>3. CASE PrepareFails(p) \/ Decline(p)
    <3>1. step'[p] = "done"
      BY <2>3 DEF PrepareFails, Decline
    <3>2. StepsLeft(p)' = 0
      BY <2>1, <3>1 DEF StepsLeft
    <3> QED BY <2>3, <3>2 DEF PrepareFails, Decline, StepsLeft
  <2> QED BY <1>1, <2>2, <2>3
<1>2. CASE RunBackend(p)
  <2>1. step[p] = "prepared" /\ pc[p] = "idle" /\ pc'[p] = "create" /\ step'[p] = "inspect"
        /\ tries' = tries /\ tries[p] = 0
    BY <1>2 DEF RunBackend, Enter, TriesOK
  <2>2. StepsLeft(p)' = AcquiringLeft("create", 0)
    BY <2>1 DEF StepsLeft, AcquiringLeft
  <2> QED BY <2>1, <2>2 DEF StepsLeft, AcquiringLeft
<1>3. CASE Acquire(p)
  BY <1>3, AcquiringSteps
<1>4. CASE Inspect(p) \/ Backup(p) \/ Publish(p) \/ Prune(p) \/ CreateTables(p)
           \/ RefuseNewer(p) \/ Alter(p) \/ RecordVersion(p) \/ SyncLedger(p)
           \/ CheckHealth(p) \/ Seed(p) \/ Stop(p) \/ Fail(p)
  BY <1>4, HeldSteps
<1>5. CASE Release(p)
  <2>1. step' = step /\ result' = result /\ step[p] \notin Preparing
    BY <1>5 DEF Release, BeginRelease, Unlink
  <2>2. CASE pc[p] = "hold"
    <3>1. step[p] \in Ended /\ pc'[p] \in {"unlink", "left"}
      BY <1>5, <2>2 DEF Release, BeginRelease, Unlink
    <3>2. StepsLeft(p) = 3 /\ StepsLeft(p)' \in 0..2
      BY <2>1, <2>2, <3>1 DEF StepsLeft, HeldLeft, Ended
    <3> QED BY <3>2
  <2>3. CASE pc[p] = "unlink"
    <3>1. pc'[p] = "left"
      BY <1>5, <2>3 DEF Release, BeginRelease, Unlink
    <3>2. StepsLeft(p) = 2 /\ StepsLeft(p)' \in 0..1
      BY <2>1, <2>3, <3>1 DEF StepsLeft
    <3> QED BY <3>2
  <2> QED BY <1>5, <2>2, <2>3 DEF Release, BeginRelease, Unlink
<1>6. CASE Kill(p)
  <2>1. step' = step /\ result' = result /\ pc[p] \notin Gone /\ pc'[p] = "dead"
    BY <1>6 DEF Kill, Die, Alive
  <2>2. StepsLeft(p)' \in 0..1
    BY <2>1 DEF StepsLeft
  <2>3. ToMigrate \in 0..2 * Schema
    BY DEF ToMigrate, StartupInv, TypeOK, Database, Version
  <2>4. StepsLeft(p) \in Nat /\ StepsLeft(p) > 1
    <3>1. HeldLeft(step[p]) \in Nat /\ HeldLeft(step[p]) > 2
      BY <2>3 DEF HeldLeft
    <3>2. pc[p] \in Acquiring =>
              AcquiringLeft(pc[p], tries[p]) \in Nat /\ AcquiringLeft(pc[p], tries[p]) > 2
      BY DEF AcquiringLeft
    <3>3. pc[p] \in Acquiring \cup Holding /\ step[p] \notin Preparing
      BY <2>1
    <3> QED BY <3>1, <3>2, <3>3 DEF StepsLeft
  <2> QED BY <2>2, <2>4
<1>7. CASE Finish(p)
  <2>1. pc[p] \in {"refused", "left", "dead"} /\ pc' = pc /\ step' = step
        /\ result[p] = "none" /\ result'[p] # "none"
    BY <1>7 DEF Finish, Report, lockVars
  <2>2. StepsLeft(p) = 1 /\ StepsLeft(p)' = 0
    BY <2>1 DEF StepsLeft
  <2> QED BY <2>2
<1> QED BY <1>1, <1>2, <1>3, <1>4, <1>5, <1>6, <1>7 DEF LaunchStep, Proceed

(* No launch goes round in circles, in the loop of acquire, in that of the *)
(* schema steps or between them: whatever fails or is killed, and whatever *)
(* others leave behind, a step of a launch brings it nearer to its end and *)
(* none of the others away from theirs; a number that changes hands moves  *)
(* none.  So a launch ends within the steps it has left at first, 25 and   *)
(* two for each schema step.                                               *)
LeavesLess(p) ==
    /\ StepsLeft(p)' < StepsLeft(p)
    /\ \A q \in Procs \ {p} : StepsLeft(q)' = StepsLeft(q)

LeavesAll == \A p \in Procs : StepsLeft(p)' = StepsLeft(p)

THEOREM LaunchesAreBounded ==
    ASSUME ~Overlap
    PROVE  Spec => /\ []\A p \in Procs : StepsLeft(p) \in 0..2 * Schema + 25
                   /\ [][\E p \in Procs : LeavesLess(p) \/ (Reuse(p) /\ LeavesAll)]_vars
<1>1. Init => PreparingOK
  BY DEF Init, LockInit, PreparingOK
<1>0. UNCHANGED vars \/ (\E p \in Procs : Reuse(p)) =>
        UNCHANGED <<pc, tries, step, db, result>>
  BY DEF vars, lockVars, Reuse, NumberChangesHands, Files
<1>2. StartupInv /\ PreparingOK /\ [Next]_vars => PreparingOK'
  <2>1. UNCHANGED <<pc, tries, step, db, result>> /\ PreparingOK => PreparingOK'
    BY DEF PreparingOK
  <2> QED BY <1>0, <2>1, PreparingSteps DEF StartupInv, Next
<1>3. StartupInv => \A p \in Procs : StepsLeft(p) \in 0..2 * Schema + 25
  BY LeftIsCounted DEF StartupInv
<1>4. UNCHANGED <<pc, tries, step, db, result>> => LeavesAll
  BY DEF LeavesAll, StepsLeft, HeldLeft, ToMigrate, AcquiringLeft
<1>5. StartupInv /\ PreparingOK /\ [Next]_vars =>
        [\E p \in Procs : LeavesLess(p) \/ (Reuse(p) /\ LeavesAll)]_vars
  BY <1>0, <1>4, OwnLeft, OthersLeft DEF Next, LeavesLess
<1> QED BY StartupInvariant, <1>1, <1>2, <1>3, <1>5, PTL DEF Spec
=============================================================================
