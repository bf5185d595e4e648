----------------------------- MODULE InstanceLock -----------------------------
(***************************************************************************)
(* The lock file that keeps a second server or a schema migration away     *)
(* from a running one: ProjectInstanceLock (src/app/runtime_lock.py).      *)
(*                                                                         *)
(* Each action is one access to the file system.  Creating the file and    *)
(* writing the process id into it are two, and the file may be moved in    *)
(* between.  A process may be killed at any point.                         *)
(*                                                                         *)
(* The id in the file is a number.  Once its process has ended, the        *)
(* operating system may give it to another program, or to a later launch:  *)
(* reused has the processes that have ended and whose number is in use,    *)
(* which is all that pid_alive can see.                                    *)
(***************************************************************************)
EXTENDS Integers, FiniteSets

CONSTANTS
    Procs,          \* processes that are launched, one after the other or not
    Overlap,        \* may two of them be in acquire at the same time?
    None

ASSUME LockAssumption == None \notin Procs /\ Overlap \in BOOLEAN

VARIABLES
    lock,       \* the process that created the file at the lock's path, or None
    filled,     \* processes that have written their id into their file
    pc,         \* where each process is
    tries,      \* rounds of the loop in acquire
    owner,      \* the id a process has read from the file, or None
    reused      \* processes that have ended and whose number is in use

lockVars == <<lock, filled, pc, tries, owner, reused>>

Acquiring == {"create", "write", "read", "judge", "replace"}
Holding   == {"hold", "unlink"}
Gone      == {"idle", "refused", "left", "dead"}

Alive(p) == pc[p] \notin Gone
At(p, l) == pc[p] = l
GoTo(p, l) == pc' = [pc EXCEPT ![p] = l]

-----------------------------------------------------------------------------
LockInit ==
    /\ lock = None
    /\ filled = {}
    /\ pc = [p \in Procs |-> "idle"]
    /\ tries = [p \in Procs |-> 0]
    /\ owner = [p \in Procs |-> None]
    /\ reused = {}

Enter(p) ==
    /\ At(p, "idle")
    /\ Overlap \/ \A q \in Procs : pc[q] \notin Acquiring
    /\ GoTo(p, "create")
    /\ UNCHANGED <<lock, filled, tries, owner, reused>>

(* os.open with O_CREAT | O_EXCL, at most twice.                           *)
Create(p) ==
    /\ At(p, "create")
    /\ tries[p] < 2
    /\ \/ /\ lock = None
          /\ lock' = p
          /\ GoTo(p, "write")
       \/ /\ lock # None
          /\ GoTo(p, "read")
          /\ UNCHANGED lock
    /\ UNCHANGED <<filled, tries, owner, reused>>

GiveUp(p) ==
    /\ At(p, "create")
    /\ tries[p] = 2
    /\ GoTo(p, "refused")
    /\ UNCHANGED <<lock, filled, tries, owner, reused>>

WriteId(p) ==
    /\ At(p, "write")
    /\ filled' = filled \cup {p}
    /\ GoTo(p, "hold")
    /\ UNCHANGED <<lock, tries, owner, reused>>

(* _read_lock: no id in a file that is missing or still empty.             *)
ReadLock == IF lock \in filled THEN lock ELSE None

ReadOwner(p) ==
    /\ At(p, "read")
    /\ owner' = [owner EXCEPT ![p] = ReadLock]
    /\ GoTo(p, "judge")
    /\ UNCHANGED <<lock, filled, tries, reused>>

\* Variant: any lock file counts as stale.
JudgeStale(p) ==
    /\ At(p, "judge")
    /\ GoTo(p, "replace")
    /\ UNCHANGED <<lock, filled, tries, owner, reused>>

(* pid_alive: some process has the number, the launch itself included.     *)
PidAlive(q) == Alive(q) \/ q \in reused

Judge(p) ==
    /\ At(p, "judge")
    /\ IF owner[p] # None /\ PidAlive(owner[p])
       THEN GoTo(p, "refused") ELSE GoTo(p, "replace")
    /\ UNCHANGED <<lock, filled, tries, owner, reused>>

\* Variant: the stale file is left where it is.
ReplaceNothing(p) ==
    /\ At(p, "replace")
    /\ tries' = [tries EXCEPT ![p] = @ + 1]
    /\ GoTo(p, "create")
    /\ UNCHANGED <<lock, filled, owner, reused>>

(* os.replace and unlink remove whatever file is at the path by now.       *)
ReplaceStale(p) ==
    /\ At(p, "replace")
    /\ lock' = None
    /\ tries' = [tries EXCEPT ![p] = @ + 1]
    /\ GoTo(p, "create")
    /\ UNCHANGED <<filled, owner, reused>>

(* release: the file is read again, and unlinked if it names this process. *)
(* The holder's number is nobody else's, and the file is the holder's.     *)
BeginRelease(p) ==
    /\ At(p, "hold")
    /\ GoTo(p, IF ReadLock = p THEN "unlink" ELSE "left")
    /\ UNCHANGED <<lock, filled, tries, owner, reused>>

Unlink(p) ==
    /\ At(p, "unlink")
    /\ lock' = None
    /\ GoTo(p, "left")
    /\ UNCHANGED <<filled, tries, owner, reused>>

Die(p) ==
    /\ Alive(p)
    /\ GoTo(p, "dead")
    /\ UNCHANGED <<lock, filled, tries, owner, reused>>

(* The number of a process that has ended, or is on its way out, is taken  *)
(* or becomes free.  It may at any time; only while a launch is looking at *)
(* the number does it make a difference, so only then is it a step.        *)
NumberChangesHands(q) ==
    /\ pc[q] \in {"left", "dead"}
    /\ \E p \in Procs : At(p, "judge") /\ owner[p] = q
    /\ \/ q \notin reused /\ reused' = reused \cup {q}
       \/ q \in reused /\ reused' = reused \ {q}
    /\ UNCHANGED <<lock, filled, pc, tries, owner>>

AcquireStep(p) ==
    \/ Create(p) \/ GiveUp(p) \/ WriteId(p)
    \/ ReadOwner(p) \/ Judge(p) \/ ReplaceStale(p)

LockNext ==
    \E p \in Procs :
        \/ Enter(p) \/ AcquireStep(p) \/ BeginRelease(p) \/ Unlink(p) \/ Die(p)
        \/ NumberChangesHands(p)

LockSpec == LockInit /\ [][LockNext]_lockVars

-----------------------------------------------------------------------------
LockTypeOK ==
    /\ lock \in Procs \cup {None}
    /\ filled \subseteq Procs
    /\ pc \in [Procs -> Acquiring \cup Holding \cup Gone]
    /\ tries \in [Procs -> 0..2]
    /\ owner \in [Procs -> Procs \cup {None}]
    /\ reused \subseteq {p \in Procs : pc[p] \in {"left", "dead"}}

(* "Project-local single-instance lock" (runtime_lock.py:1): whatever      *)
(* processes were killed, and wherever, at most one holds the lock, and    *)
(* the file names it.                                                      *)
SoleInstance ==
    \A p \in Procs : pc[p] \in Holding =>
        /\ ReadLock = p
        /\ \A q \in Procs \ {p} : pc[q] \notin Holding

(* "its owner is no longer alive" (runtime_lock.py:79): a lock file that   *)
(* is replaced is nobody's who is alive, nobody's who has just created it. *)
StaleOwnerIsDead == \A p \in Procs : At(p, "replace") /\ lock # None => ~Alive(lock)

(* "Another local instance is already running" (runtime_lock.py:77): a     *)
(* launch is refused while another holds the lock, or over the number of   *)
(* an owner that has ended, if it is in use again: the check takes whoever *)
(* has it for the owner.  It is not refused over a file without a number,  *)
(* over one whose number is free, or for want of a third round.            *)
RefusedForCause ==
    [][\A p \in Procs : pc[p] # "refused" /\ pc'[p] = "refused" =>
          \/ \E q \in Procs \ {p} : pc[q] \in Holding
          \/ owner[p] \in reused]_lockVars
=============================================================================
