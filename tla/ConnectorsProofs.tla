--------------------------- MODULE ConnectorsProofs ---------------------------
(***************************************************************************)
(* Proofs about Connectors.  What the outbox guarantees is taken from      *)
(* OutboxProofs: every step of a connector job is a step of the outbox, so *)
(* its invariants hold here, and the execution rows, the history of the    *)
(* case and the requests sent are tied to them.                            *)
(***************************************************************************)
EXTENDS Connectors, SequenceTheorems, FiniteSets, FiniteSetTheorems, TLAPS

P == INSTANCE OutboxProofs

Exclusive == Serialized \/ ~SlowDispatch

LEMMA OutboxConstants == P!ConstantsAssumption
  BY JobsAssumption DEF O!ConstantsAssumption, P!ConstantsAssumption

-----------------------------------------------------------------------------
(* Steps of the outbox below a step of the connectors.                     *)
LEMMA SameInit == O!Init => P!Init
  BY DEF O!Init, P!Init

LEMMA SameEnqueue == ASSUME NEW j, O!Enqueue(j) PROVE P!Enqueue(j)
  BY Zenon DEF O!Enqueue, P!Enqueue, O!Spawned, P!Spawned, O!Insert, P!Insert,
     O!workerVars, P!workerVars

LEMMA SameTick == ASSUME NEW j, O!Tick(j) PROVE P!Tick(j)
  BY Zenon DEF O!Tick, P!Tick, O!BackoffElapses, P!BackoffElapses, O!LeaseLapses, P!LeaseLapses,
     O!Held, P!Held, O!workerVars, P!workerVars

LEMMA SamePoll ==
    ASSUME NEW w
    PROVE  /\ O!BatchStart(w) => P!BatchStart(w)
           /\ O!Claim(w) => P!Claim(w)
           /\ O!Load(w) => P!Load(w)
           /\ O!BatchEnd(w) => P!BatchEnd(w)
           /\ O!Interrupt(w) => P!Interrupt(w)
<1> USE DEF O!rowVars, P!rowVars, O!Release, P!Release, O!Due, P!Due
<1>1. O!BatchStart(w) => P!BatchStart(w)
  BY Zenon DEF O!BatchStart, P!BatchStart
<1>2. O!Claim(w) => P!Claim(w)
  BY Zenon DEF O!Claim, P!Claim, O!NextDue, P!NextDue
<1>3. O!Load(w) => P!Load(w)
  BY Zenon DEF O!Load, P!Load
<1>4. O!BatchEnd(w) => P!BatchEnd(w)
  BY Zenon DEF O!BatchEnd, P!BatchEnd
<1>5. O!Interrupt(w) => P!Interrupt(w)
  BY Zenon DEF O!Interrupt, P!Interrupt
<1> QED BY <1>1, <1>2, <1>3, <1>4, <1>5

LEMMA SameDispatch ==
    ASSUME NEW w
    PROVE  /\ O!Complete(w) => P!Complete(w)
           /\ O!Fail(w) => P!Fail(w)
  BY Zenon DEF O!Complete, P!Complete, O!Fail, P!Fail, O!NextJob, P!NextJob

LEMMA SameVars == UNCHANGED outboxVars => UNCHANGED P!vars
  BY DEF outboxVars, P!vars, P!rowVars, P!workerVars

LEMMA ConnectorsUseOutbox == [Next]_vars => [P!Next]_(P!vars)
<1>1. ASSUME NEW j \in Jobs, EnqueueTransitionConnector(j) \/ SwitchConnector(j) \/ Tick(j)
      PROVE  [P!Next]_(P!vars)
  BY <1>1, SameEnqueue, SameTick, SameVars, Zenon
  DEF EnqueueTransitionConnector, SwitchConnector, Tick, P!Next
<1>2. ASSUME NEW w \in Workers, Work(w) \/ Interrupt(w)
      PROVE  [P!Next]_(P!vars)
  <2>1. CASE SendRequest(w)
    BY <2>1, SameVars DEF SendRequest
  <2>2. CASE ExecutionCompletes(w) \/ ExecutionSkipped(w) \/ ExecutionFails(w)
    BY <2>2, SameDispatch, Zenon
    DEF ExecutionCompletes, ExecutionSkipped, ExecutionFails, P!Next, P!Run
  <2>3. CASE O!BatchStart(w) \/ O!Claim(w) \/ O!Load(w) \/ O!BatchEnd(w) \/ Interrupt(w)
    BY <2>3, SamePoll, Zenon DEF Interrupt, P!Next, P!Run
  <2> QED BY <1>2, <2>1, <2>2, <2>3 DEF Work
<1>3. CASE UNCHANGED vars
  BY <1>3, SameVars DEF vars, outboxVars
<1> QED BY <1>1, <1>2, <1>3 DEF Next

-----------------------------------------------------------------------------
(* A request is under way, or its answer is there, only while its worker   *)
(* dispatches the job; an answer of success was sent by the receiver.      *)
AnswersOK ==
    \A w \in Workers :
        /\ answer[w] # "none" => pc[w] = "dispatching" /\ cur[w] \in Remote
        /\ answer[w] = "success" => received[cur[w]] >= 1

(* Every attempt in progress has its request to spare until it is sent; so *)
(* has, for good, an execution that was skipped.  Without the lock any     *)
(* number of workers may run one job, so the attempts are counted.         *)
Unsent(j) == {w \in Workers : cur[w] = j /\ answer[w] = "none"}
Skips(j)  == IF exec[j] = "Skipped" THEN 1 ELSE 0

Spares(j) ==
    \A S \in SUBSET Unsent(j) : IsFiniteSet(S) =>
        received[j] + Cardinality(S) + Skips(j) <= attempts[j]

ConnectorTypes ==
    /\ exec \in [Jobs -> {"Absent", "Queued", "Completed", "Skipped"}]
    /\ trail \in [Jobs -> Seq({"integration_queued", "integration_completed"})]
    /\ enabled \in [Jobs -> BOOLEAN]
    /\ received \in [Jobs -> Nat]
    /\ answer \in [Workers -> {"none", "success", "error"}]

(* What holds whether or not two workers can run one job.                  *)
RequestsInv ==
    ConnectorTypes /\ AnswersOK /\ CompletedWasReceived /\ \A j \in Jobs : Spares(j)

LEMMA AppendedTo ==
    ASSUME NEW D, NEW S, NEW t \in [D -> Seq(S)], NEW d \in D, NEW e \in S, NEW u,
           u = [t EXCEPT ![d] = Append(@, e)]
    PROVE  u \in [D -> Seq(S)]
<1>1. Append(t[d], e) \in Seq(S)
  OBVIOUS
<1> QED BY <1>1

LEMMA AppendToOne ==
    ASSUME NEW S, NEW a \in S, NEW b \in S
    PROVE  Append(<<a>>, b) = <<a, b>>
<1>1. PICK f : f = <<a>>
  OBVIOUS
<1>2. PICK g : g = <<a, b>>
  OBVIOUS
<1>3. f \in Seq(S) /\ Len(f) = 1 /\ f[1] = a
  BY <1>1
<1>4. g \in Seq(S) /\ Len(g) = 2 /\ g[1] = a /\ g[2] = b
  BY <1>2
<1>5. PICK h : h = Append(f, b)
  OBVIOUS
<1>6. h \in Seq(S) /\ Len(h) = 2 /\ h[1] = a /\ h[2] = b
  <2>1. /\ h \in Seq(S) /\ Len(h) = Len(f) + 1
        /\ \A i \in 1..Len(f) : h[i] = f[i]
        /\ h[Len(f) + 1] = b
    BY <1>3, <1>5, AppendProperties
  <2>2. h[1] = f[1]
    BY <1>3, <2>1
  <2> QED BY <1>3, <2>1, <2>2
<1>7. h = g
  <2>1. Len(h) = Len(g) /\ \A i \in 1..Len(h) : h[i] = g[i]
    BY <1>4, <1>6
  <2> QED BY <1>4, <1>6, <2>1, SeqEqual
<1> QED BY <1>1, <1>2, <1>5, <1>7, Zenon

(* What the types of the outbox say of the job that a worker holds.        *)
LEMMA Rows ==
    ASSUME P!Shape
    PROVE  /\ status \in [Jobs -> {"Absent", "Pending", "Processing", "Completed", "Failed"}]
           /\ attempts \in [Jobs -> Nat]
           /\ pc \in [Workers -> {"idle", "polling", "claimed", "dispatching"}]
           /\ cur \in [Workers -> Jobs \cup {None}] /\ None \notin Jobs
           /\ \A w \in Workers : pc[w] \in {"claimed", "dispatching"} <=> cur[w] \in Jobs
  BY OutboxConstants
  DEF P!Shape, P!TypeOK, P!PlaceOK, P!RowStatus, P!Step, P!ConstantsAssumption

LEMMA OneMore ==
    ASSUME NEW S, IsFiniteSet(S), NEW w, w \notin S
    PROVE  IsFiniteSet(S \cup {w}) /\ Cardinality(S \cup {w}) = Cardinality(S) + 1
  BY FS_AddElement

LEMMA OneLess ==
    ASSUME NEW S, IsFiniteSet(S), NEW w
    PROVE  /\ IsFiniteSet(S \ {w}) /\ Cardinality(S) \in Nat /\ Cardinality(S \ {w}) \in Nat
           /\ Cardinality(S) <= Cardinality(S \ {w}) + 1
           /\ w \in S => Cardinality(S) = Cardinality(S \ {w}) + 1
  BY FS_RemoveElement, FS_CardinalityType

(* A job keeps its attempts to spare when nothing is sent for it, no       *)
(* attempt is added and it is not skipped.                                 *)
LEMMA SparesKept ==
    ASSUME NEW j, Spares(j), received'[j] = received[j], attempts'[j] = attempts[j],
           Unsent(j)' \subseteq Unsent(j), exec'[j] = "Skipped" => exec[j] = "Skipped",
           received[j] \in Nat, attempts[j] \in Nat
    PROVE  Spares(j)'
<1> SUFFICES ASSUME NEW S \in SUBSET Unsent(j)', IsFiniteSet(S)
             PROVE  received'[j] + Cardinality(S) + Skips(j)' <= attempts'[j]
  BY DEF Spares
<1>1. received[j] + Cardinality(S) + Skips(j) <= attempts[j]
  BY DEF Spares
<1>2. Cardinality(S) \in Nat /\ Skips(j) \in Nat /\ Skips(j)' \in Nat /\ Skips(j)' <= Skips(j)
  BY FS_CardinalityType DEF Skips
<1> QED BY <1>1, <1>2

LEMMA RequestsStart == Init => RequestsInv
<1> SUFFICES ASSUME Init PROVE RequestsInv
  OBVIOUS
<1>1. attempts = [j \in Jobs |-> 0] /\ cur = [w \in Workers |-> None]
  BY DEF Init, O!Init
<1>2. None \notin Jobs
  BY OutboxConstants DEF P!ConstantsAssumption
<1>3. ConnectorTypes
  BY DEF Init, ConnectorTypes
<1>4. AnswersOK /\ CompletedWasReceived
  BY RemoteAssumption DEF Init, AnswersOK, CompletedWasReceived
<1>5. ASSUME NEW j \in Jobs PROVE Spares(j)
  <2>1. Unsent(j) = {}
    BY <1>1, <1>2 DEF Unsent
  <2>2. received[j] = 0 /\ Skips(j) = 0 /\ attempts[j] = 0
    BY <1>1 DEF Init, Skips
  <2>3. \A S \in SUBSET Unsent(j) : Cardinality(S) = 0
    BY <2>1, FS_EmptySet
  <2> QED BY <2>2, <2>3 DEF Spares
<1> QED BY <1>3, <1>4, <1>5 DEF RequestsInv

(* Steps of executions.                                                    *)
LEMMA QueueStep ==
    ASSUME P!Shape, RequestsInv, NEW j \in Jobs, EnqueueTransitionConnector(j)
    PROVE  RequestsInv'
<1> USE RemoteAssumption DEF RequestsInv, ConnectorTypes
<1>0. /\ UNCHANGED <<attempts, pc, cur, enabled, received, answer>>
      /\ exec' = [exec EXCEPT ![j] = "Queued"]
      /\ trail' = [trail EXCEPT ![j] = Append(@, "integration_queued")]
  BY DEF EnqueueTransitionConnector, O!Enqueue, O!Insert, O!workerVars
<1>1. ConnectorTypes'
  <2>1. trail' \in [Jobs -> Seq({"integration_queued", "integration_completed"})]
    BY <1>0, AppendedTo
  <2> QED BY <1>0, <2>1
<1>2. AnswersOK' /\ CompletedWasReceived'
  BY <1>0 DEF AnswersOK, CompletedWasReceived
<1>3. ASSUME NEW k \in Jobs PROVE Spares(k)'
  <2>1. Unsent(k)' \subseteq Unsent(k) /\ (exec'[k] = "Skipped" => exec[k] = "Skipped")
    BY <1>0 DEF Unsent
  <2> QED BY <1>0, <2>1, SparesKept, Rows
<1> QED BY <1>1, <1>2, <1>3

LEMMA SendStep ==
    ASSUME P!Shape, RequestsInv, NEW w \in Workers, SendRequest(w)
    PROVE  RequestsInv'
<1> USE RemoteAssumption DEF RequestsInv, ConnectorTypes
<1>0. PICK j \in Remote :
        /\ pc[w] = "dispatching" /\ cur[w] = j /\ answer[w] = "none"
        /\ UNCHANGED <<status, attempts, pc, cur, exec, trail, enabled>>
        /\ \/ /\ answer' = [answer EXCEPT ![w] = "success"]
              /\ received' = [received EXCEPT ![j] = @ + 1]
           \/ /\ answer' = [answer EXCEPT ![w] = "error"]
              /\ received' = received \/ received' = [received EXCEPT ![j] = @ + 1]
  BY DEF SendRequest, Executing, outboxVars
<1>1. received \in [Jobs -> Nat] /\ j \in Jobs
      /\ (received' = received \/ received' = [received EXCEPT ![j] = @ + 1])
  BY <1>0
<1>2. ConnectorTypes'
  <2>1. answer' \in [Workers -> {"none", "success", "error"}]
    BY <1>0
  <2>2. received' \in [Jobs -> Nat]
    BY ONLY <1>1
  <2> QED BY <1>0, <2>1, <2>2
<1>3. \A k \in Jobs : /\ received'[k] \in Nat /\ received[k] \in Nat
                      /\ received'[k] >= received[k] /\ received'[k] <= received[k] + 1
                      /\ k # j => received'[k] = received[k]
  BY ONLY <1>1
<1>4. ASSUME NEW k \in Jobs PROVE Spares(k)'
  <2>1. CASE k = j
    <3> SUFFICES ASSUME NEW S \in SUBSET Unsent(j)', IsFiniteSet(S)
                 PROVE  received'[j] + Cardinality(S) + Skips(j)' <= attempts'[j]
      BY <2>1 DEF Spares
    <3>1. w \notin S /\ S \cup {w} \in SUBSET Unsent(j)
      BY <1>0 DEF Unsent
    <3>2. IsFiniteSet(S \cup {w}) /\ Cardinality(S \cup {w}) = Cardinality(S) + 1
      BY <3>1, OneMore
    <3>3. Cardinality(S) \in Nat
      BY FS_CardinalityType
    <3>4. Skips(j)' = Skips(j) /\ Skips(j) \in Nat /\ attempts'[j] = attempts[j]
      BY <1>0 DEF Skips
    <3>5. received[j] + Cardinality(S \cup {w}) + Skips(j) <= attempts[j]
      BY <2>1, <3>1, <3>2 DEF Spares
    <3>6. attempts[j] \in Nat
      BY <1>1, Rows
    <3> QED BY <1>1, <1>3, <3>2, <3>3, <3>4, <3>5, <3>6
  <2>2. CASE k # j
    <3>1. Unsent(k)' \subseteq Unsent(k)
      BY <1>0, <2>2 DEF Unsent
    <3> QED BY <1>0, <1>3, <2>2, <3>1, SparesKept, Rows
  <2> QED BY <2>1, <2>2
<1>5. AnswersOK'
  <2> SUFFICES ASSUME NEW v \in Workers
               PROVE  /\ answer'[v] # "none" => pc'[v] = "dispatching" /\ cur'[v] \in Remote
                      /\ answer'[v] = "success" => received'[cur'[v]] >= 1
    BY DEF AnswersOK
  <2>1. CASE v = w
    <3>1. received'[j] >= 1 \/ answer'[w] # "success"
      BY <1>0, <1>1
    <3> QED BY <1>0, <2>1, <3>1
  <2>2. CASE v # w
    BY <1>0, <1>3, <2>2 DEF AnswersOK
  <2> QED BY <2>1, <2>2
<1>6. CompletedWasReceived'
  BY <1>0, <1>3 DEF CompletedWasReceived
<1> QED BY <1>2, <1>4, <1>5, <1>6

(* A dispatch that ends.  The attempt it spares becomes that of the skip.  *)
LEMMA EndStep ==
    ASSUME P!Shape, RequestsInv, NEW w \in Workers,
           ExecutionCompletes(w) \/ ExecutionSkipped(w)
    PROVE  RequestsInv'
<1> USE RemoteAssumption DEF RequestsInv, ConnectorTypes
<1>job. PICK j : j = cur[w]
  OBVIOUS
<1>0. /\ j \in Jobs /\ attempts' = attempts
      /\ pc' = [pc EXCEPT ![w] = "polling"] /\ cur' = [cur EXCEPT ![w] = None]
      /\ UNCHANGED <<enabled, received>>
  BY <1>job, Rows DEF ExecutionCompletes, ExecutionSkipped, O!Complete, O!NextJob
<1>1. \/ /\ exec' = [exec EXCEPT ![j] = "Completed"]
         /\ trail' = [trail EXCEPT ![j] = Append(@, "integration_completed")]
         /\ answer' = [answer EXCEPT ![w] = "none"]
         /\ j \in Remote => answer[w] = "success"
      \/ /\ exec' = [exec EXCEPT ![j] = "Skipped"]
         /\ UNCHANGED <<trail, answer>>
         /\ answer[w] = "none"
  BY <1>job DEF ExecutionCompletes, ExecutionSkipped, Succeeded, Executing
<1>2. ConnectorTypes'
  <2>1. trail' \in [Jobs -> Seq({"integration_queued", "integration_completed"})]
    <3>1. CASE trail' = trail
      BY <3>1
    <3>2. CASE trail' = [trail EXCEPT ![j] = Append(@, "integration_completed")]
      BY <1>0, <3>2, AppendedTo
    <3> QED BY <1>1, <3>1, <3>2
  <2>2. exec' \in [Jobs -> {"Absent", "Queued", "Completed", "Skipped"}]
        /\ answer' \in [Workers -> {"none", "success", "error"}]
    BY <1>0, <1>1
  <2> QED BY <1>0, <2>1, <2>2
<1>3. AnswersOK'
  BY <1>0, <1>1, Rows DEF AnswersOK
<1>4. CompletedWasReceived'
  <2>1. j \in Remote /\ exec'[j] = "Completed" => received[j] >= 1
    BY <1>job, <1>0, <1>1 DEF AnswersOK
  <2> QED BY <1>0, <1>1, <2>1 DEF CompletedWasReceived
<1>5. ASSUME NEW k \in Jobs PROVE Spares(k)'
  <2>1. Unsent(k)' \subseteq Unsent(k) \ {w}
    BY <1>0, <1>1, Rows DEF Unsent
  <2>2. CASE exec'[k] = "Skipped" => exec[k] = "Skipped"
    BY <1>0, <2>1, <2>2, SparesKept, Rows
  <2>3. CASE exec'[k] = "Skipped" /\ exec[k] # "Skipped"
    <3>1. k = j /\ w \in Unsent(k)
      BY <1>job, <1>0, <1>1, <2>3 DEF Unsent
    <3> SUFFICES ASSUME NEW S \in SUBSET Unsent(k)', IsFiniteSet(S)
                 PROVE  received[k] + Cardinality(S) + Skips(k)' <= attempts[k]
      BY <1>0 DEF Spares
    <3>2. w \notin S /\ S \cup {w} \in SUBSET Unsent(k)
      BY <2>1, <3>1
    <3>3. IsFiniteSet(S \cup {w}) /\ Cardinality(S \cup {w}) = Cardinality(S) + 1
      BY <3>2, OneMore
    <3>4. received[k] + Cardinality(S \cup {w}) + Skips(k) <= attempts[k]
      BY <3>2, <3>3 DEF Spares
    <3>5. Skips(k) = 0 /\ Skips(k)' = 1
      BY <2>3 DEF Skips
    <3>6. Cardinality(S) \in Nat /\ received[k] \in Nat /\ attempts[k] \in Nat
      BY FS_CardinalityType, Rows
    <3> QED BY <3>3, <3>4, <3>5, <3>6
  <2> QED BY <2>2, <2>3
<1> QED BY <1>2, <1>3, <1>4, <1>5

(* Steps that leave executions, histories and requests as they are, and    *)
(* whose worker ends without an answer.                                    *)
LEMMA StoppingStep ==
    ASSUME P!Shape, RequestsInv, NEW w \in Workers,
           ExecutionFails(w) \/ Interrupt(w)
    PROVE  RequestsInv'
<1> USE RemoteAssumption DEF RequestsInv, ConnectorTypes
<1>1. /\ answer' = [answer EXCEPT ![w] = "none"] /\ UNCHANGED <<exec, trail, enabled, received, attempts>>
      /\ cur' = [cur EXCEPT ![w] = None]
      /\ \A v \in Workers : v # w => pc'[v] = pc[v]
  BY Rows DEF ExecutionFails, Interrupt, O!Interrupt, O!rowVars, O!Fail, O!NextJob
<1>2. ConnectorTypes'
  BY <1>1
<1>3. AnswersOK' /\ CompletedWasReceived'
  BY <1>1, Rows DEF AnswersOK, CompletedWasReceived
<1>4. ASSUME NEW k \in Jobs PROVE Spares(k)'
  <2>1. Unsent(k)' \subseteq Unsent(k)
    BY <1>1, Rows DEF Unsent
  <2> QED BY <1>1, <2>1, SparesKept, Rows
<1> QED BY <1>2, <1>3, <1>4

(* Claiming starts a new attempt, with a request of its own.               *)
LEMMA ClaimStep ==
    ASSUME P!Shape, RequestsInv, NEW w \in Workers, O!Claim(w), UNCHANGED connectorVars
    PROVE  RequestsInv'
<1> USE RemoteAssumption DEF RequestsInv, ConnectorTypes, connectorVars
<1>1. PICK j \in Jobs :
        /\ attempts' = [attempts EXCEPT ![j] = @ + 1]
        /\ cur' = [cur EXCEPT ![w] = j]
        /\ pc[w] = "polling" /\ pc' = [pc EXCEPT ![w] = "claimed"]
  BY DEF O!Claim, O!NextDue, O!Due
<1>2. AnswersOK' /\ CompletedWasReceived'
  BY <1>1, Rows DEF AnswersOK, CompletedWasReceived
<1>3. ASSUME NEW k \in Jobs PROVE Spares(k)'
  <2>1. CASE k = j
    <3> SUFFICES ASSUME NEW S \in SUBSET Unsent(j)', IsFiniteSet(S)
                 PROVE  received[j] + Cardinality(S) + Skips(j)' <= attempts'[j]
      BY <2>1 DEF Spares
    <3>1. S \ {w} \in SUBSET Unsent(j)
      BY <1>1, Rows DEF Unsent
    <3>2. received[j] + Cardinality(S \ {w}) + Skips(j) <= attempts[j]
      BY <2>1, <3>1, OneLess DEF Spares
    <3>3. /\ Cardinality(S) \in Nat /\ Cardinality(S \ {w}) \in Nat
          /\ Cardinality(S) <= Cardinality(S \ {w}) + 1
      BY OneLess
    <3>4. received[j] \in Nat /\ attempts[j] \in Nat /\ attempts'[j] = attempts[j] + 1
      BY <1>1, Rows
    <3>5. Skips(j)' = Skips(j) /\ Skips(j) \in Nat
      BY DEF Skips
    <3> QED BY <3>2, <3>3, <3>4, <3>5
  <2>2. CASE k # j
    <3>1. Unsent(k)' \subseteq Unsent(k)
      BY <1>1, <2>2, Rows DEF Unsent
    <3>2. attempts'[k] = attempts[k]
      BY <1>1, <2>2, Rows
    <3> QED BY <3>1, <3>2, SparesKept, Rows
  <2> QED BY <2>1, <2>2
<1> QED BY <1>2, <1>3

LEMMA IdleStep ==
    ASSUME RequestsInv, UNCHANGED <<attempts, cur, exec, trail, received, answer>>,
           enabled' \in [Jobs -> BOOLEAN],
           \A w \in Workers : pc[w] = "dispatching" => pc'[w] = "dispatching"
    PROVE  RequestsInv'
<1>1. ConnectorTypes' /\ AnswersOK' /\ CompletedWasReceived'
  BY DEF RequestsInv, ConnectorTypes, AnswersOK, CompletedWasReceived
<1>2. \A j \in Jobs : Spares(j)'
  BY DEF RequestsInv, Spares, Unsent, Skips
<1> QED BY <1>1, <1>2 DEF RequestsInv

LEMMA RequestSteps ==
    ASSUME P!Shape, RequestsInv, [Next]_vars
    PROVE  RequestsInv'
<1> USE DEF outboxVars, connectorVars
<1>1. ASSUME NEW j \in Jobs, EnqueueTransitionConnector(j) PROVE RequestsInv'
  BY <1>1, QueueStep
<1>2. ASSUME NEW j \in Jobs, SwitchConnector(j) PROVE RequestsInv'
  <2>1. enabled' \in [Jobs -> BOOLEAN]
    BY <1>2 DEF SwitchConnector, RequestsInv, ConnectorTypes
  <2> QED BY <1>2, <2>1, IdleStep DEF SwitchConnector
<1>3. ASSUME NEW j \in Jobs, Tick(j) PROVE RequestsInv'
  <2>1. /\ UNCHANGED <<attempts, cur, pc, exec, trail, received, answer>>
        /\ enabled' = enabled
    BY <1>3, Zenon DEF Tick, O!Tick, O!BackoffElapses, O!LeaseLapses, O!workerVars
  <2>2. enabled \in [Jobs -> BOOLEAN]
    BY DEF RequestsInv, ConnectorTypes
  <2> QED BY <2>1, <2>2, IdleStep
<1>4. ASSUME NEW w \in Workers, Work(w) PROVE RequestsInv'
  <2>1. CASE SendRequest(w)
    BY <2>1, SendStep
  <2>2. CASE ExecutionCompletes(w) \/ ExecutionSkipped(w)
    BY <2>2, EndStep
  <2>3. CASE ExecutionFails(w)
    BY <2>3, StoppingStep
  <2>4. CASE O!Claim(w) /\ UNCHANGED connectorVars
    BY <2>4, ClaimStep
  <2>5. CASE (O!BatchStart(w) \/ O!Load(w) \/ O!BatchEnd(w)) /\ UNCHANGED connectorVars
    <3>1. UNCHANGED <<attempts, cur, exec, trail, received, answer>>
          /\ enabled' \in [Jobs -> BOOLEAN]
      BY <2>5 DEF O!BatchStart, O!Load, O!BatchEnd, O!rowVars, RequestsInv, ConnectorTypes
    <3>2. \A v \in Workers : pc[v] = "dispatching" => pc'[v] = "dispatching"
      BY <2>5, Rows DEF O!BatchStart, O!Load, O!BatchEnd
    <3> QED BY <3>1, <3>2, IdleStep
  <2> QED BY <1>4, <2>1, <2>2, <2>3, <2>4, <2>5 DEF Work
<1>5. ASSUME NEW w \in Workers, Interrupt(w) PROVE RequestsInv'
  BY <1>5, StoppingStep
<1>6. CASE UNCHANGED vars
  <2>1. UNCHANGED <<attempts, cur, pc, exec, trail, received, answer>> /\ enabled' = enabled
    BY <1>6 DEF vars
  <2>2. enabled \in [Jobs -> BOOLEAN]
    BY DEF RequestsInv, ConnectorTypes
  <2> QED BY <2>1, <2>2, IdleStep
<1> QED BY <1>1, <1>2, <1>3, <1>4, <1>5, <1>6 DEF Next

LEMMA AlwaysRequests == Spec => [](P!Shape /\ RequestsInv)
<1>1. Init => P!Shape
  BY SameInit, OutboxConstants, P!InitShape DEF Init
<1>2. P!Shape /\ RequestsInv /\ [Next]_vars => (P!Shape /\ RequestsInv)'
  BY ConnectorsUseOutbox, OutboxConstants, P!NextShape, RequestSteps
<1> QED BY <1>1, <1>2, RequestsStart, PTL DEF Spec

(* Every variable keeps its type; the row of an execution never says       *)
(* Failed, although the handler writes it (see FailureIsVisible).          *)
THEOREM ConnectorsTyped == Spec => [](TypeOK /\ \A j \in Jobs : exec[j] # "Failed")
<1>1. ASSUME P!Shape, RequestsInv
      PROVE  TypeOK /\ \A j \in Jobs : exec[j] # "Failed"
  <2>1. O!TypeOK
    BY <1>1 DEF P!Shape, P!TypeOK, O!TypeOK, P!RowStatus, O!RowStatus, P!Step, O!Step
  <2>2. \A j \in Jobs : trail[j] \in Seq({"integration_queued", "integration_completed",
                                         "integration_failed"})
    <3>1. ASSUME NEW s \in Seq({"integration_queued", "integration_completed"})
          PROVE  s \in Seq({"integration_queued", "integration_completed", "integration_failed"})
      OBVIOUS
    <3> QED BY <1>1, <3>1 DEF RequestsInv, ConnectorTypes
  <2> QED BY <1>1, <2>1, <2>2 DEF TypeOK, RequestsInv, ConnectorTypes
<1> QED BY <1>1, AlwaysRequests, PTL

(* A webhook that is reported as Completed has reached its receiver, also  *)
(* when several workers execute it at a time.                              *)
THEOREM CompletedMeansReceived == Spec => []CompletedWasReceived
<1>1. RequestsInv => CompletedWasReceived
  BY DEF RequestsInv
<1> QED BY <1>1, AlwaysRequests, PTL

(* At most one request for each attempt, and none for the one that finds   *)
(* the connector disabled, whoever else executes the job meanwhile.        *)
THEOREM AttemptsCoverRequests == Spec => []OneRequestPerAttempt
<1>1. ASSUME P!Shape, RequestsInv PROVE OneRequestPerAttempt
  <2> SUFFICES ASSUME NEW j \in Jobs
               PROVE  received[j] <= attempts[j] - Skips(j)
    BY DEF OneRequestPerAttempt, Skips
  <2>1. received[j] \in Nat /\ attempts[j] \in Nat /\ Skips(j) \in Nat
    BY <1>1, Rows DEF RequestsInv, ConnectorTypes, Skips
  <2>2. received[j] + Cardinality({}) + Skips(j) <= attempts[j]
    BY <1>1, FS_EmptySet DEF RequestsInv, Spares
  <2> QED BY <2>1, <2>2, FS_EmptySet
<1> QED BY <1>1, AlwaysRequests, PTL

-----------------------------------------------------------------------------
(* The records of an execution, where one worker at a time runs a job.     *)
(* Whatever the job has come to, its execution and its history are those   *)
(* of a job that has been queued, completed or skipped.                    *)
RecordOK(j) ==
    /\ exec[j] = "Absent" <=> status[j] = "Absent"
    /\ exec[j] \in {"Completed", "Skipped"} <=> status[j] = "Completed"
    /\ exec[j] = "Absent" => trail[j] = << >>
    /\ exec[j] \in {"Queued", "Skipped"} => trail[j] = <<"integration_queued">>
    /\ exec[j] = "Completed" => trail[j] = <<"integration_queued", "integration_completed">>

RecordsOK == \A j \in Jobs : RecordOK(j)

OutboxInv == P!Shape /\ P!IInv

LEMMA HeldJobs ==
    ASSUME OutboxInv
    PROVE  \A w \in Workers :
              /\ cur[w] \in Jobs => status[cur[w]] = "Processing"
              /\ pc[w] = "dispatching" => cur[w] \in Jobs /\ seen[w] = "Processing"
  BY Rows DEF OutboxInv, P!IInv, P!LeaseOK, P!SeenOK

LEMMA Completing ==
    ASSUME OutboxInv, NEW w \in Workers, O!Complete(w)
    PROVE  /\ cur[w] \in Jobs /\ status[cur[w]] = "Processing"
           /\ status' = [status EXCEPT ![cur[w]] = "Completed"]
<1>1. /\ cur[w] \in Jobs /\ status[cur[w]] = "Processing" /\ seen[w] = "Processing"
      /\ status \in [Jobs -> {"Absent", "Pending", "Processing", "Completed", "Failed"}]
  BY HeldJobs, Rows DEF O!Complete, OutboxInv
<1>2. PICK S \in SUBSET {k \in Spawns[cur[w]] : status[k] = "Absent"} :
        status' = [k \in Jobs |-> IF k \in S THEN "Pending"
                                  ELSE IF k = cur[w] /\ seen[w] # "Completed"
                                  THEN "Completed" ELSE status[k]]
  BY DEF O!Complete
<1>3. S = {}
  BY <1>1, <1>2, JobsAssumption
<1>4. status' = [status EXCEPT ![cur[w]] = "Completed"]
  BY <1>1, <1>2, <1>3
<1> QED BY <1>1, <1>4

LEMMA Failing ==
    ASSUME OutboxInv, NEW w \in Workers, O!Fail(w)
    PROVE  /\ cur[w] \in Jobs /\ status[cur[w]] = "Processing"
           /\ \E s \in {"Pending", "Failed"} : status' = [status EXCEPT ![cur[w]] = s]
  BY HeldJobs, Rows DEF O!Fail, O!NextJob, OutboxInv

LEMMA RecordsStart == Init => RecordsOK
<1>1. Init => status = [j \in Jobs |-> "Absent"]
  BY DEF Init, O!Init
<1> QED BY <1>1 DEF Init, RecordsOK, RecordOK

LEMMA QueueRecords ==
    ASSUME OutboxInv, RequestsInv, RecordsOK, NEW j \in Jobs, EnqueueTransitionConnector(j)
    PROVE  RecordsOK'
<1> USE DEF RequestsInv, ConnectorTypes, RecordsOK
<1>0. /\ status[j] = "Absent" /\ status' = [status EXCEPT ![j] = "Pending"]
      /\ exec' = [exec EXCEPT ![j] = "Queued"]
      /\ trail' = [trail EXCEPT ![j] = Append(@, "integration_queued")]
  BY Rows DEF OutboxInv, EnqueueTransitionConnector, O!Enqueue, O!Insert
<1>1. exec[j] = "Absent" /\ trail[j] = << >>
  BY <1>0 DEF RecordOK
<1>2. Append(<< >>, "integration_queued") = <<"integration_queued">>
  OBVIOUS
<1>3. trail'[j] = <<"integration_queued">> /\ exec'[j] = "Queued"
  BY <1>0, <1>1, <1>2
<1>4. status'[j] = "Pending"
  BY <1>0, Rows DEF OutboxInv
<1>5. ASSUME NEW k \in Jobs, k # j
      PROVE  status'[k] = status[k] /\ exec'[k] = exec[k] /\ trail'[k] = trail[k]
  BY <1>0, <1>5, Rows DEF OutboxInv
<1> QED BY <1>3, <1>4, <1>5 DEF RecordOK

(* A dispatch that returns: the execution and the history of its job       *)
(* change with the status of the job.                                      *)
LEMMA EndRecords ==
    ASSUME OutboxInv, RequestsInv, RecordsOK, NEW w \in Workers,
           ExecutionCompletes(w) \/ ExecutionSkipped(w)
    PROVE  RecordsOK'
<1> USE DEF RequestsInv, ConnectorTypes, RecordsOK
<1>job. PICK j : j = cur[w]
  OBVIOUS
<1>0. /\ j \in Jobs /\ status[j] = "Processing"
      /\ status' = [status EXCEPT ![j] = "Completed"]
  BY <1>job, Completing DEF ExecutionCompletes, ExecutionSkipped
<1>1. \/ /\ exec' = [exec EXCEPT ![j] = "Completed"]
         /\ trail' = [trail EXCEPT ![j] = Append(@, "integration_completed")]
      \/ /\ exec' = [exec EXCEPT ![j] = "Skipped"]
         /\ UNCHANGED trail
  BY <1>job DEF ExecutionCompletes, ExecutionSkipped
<1>2. exec[j] = "Queued" /\ trail[j] = <<"integration_queued">>
  BY <1>0 DEF RecordOK
<1>3. Append(<<"integration_queued">>, "integration_completed")
        = <<"integration_queued", "integration_completed">>
  <2>1. /\ "integration_queued" \in {"integration_queued", "integration_completed"}
        /\ "integration_completed" \in {"integration_queued", "integration_completed"}
    OBVIOUS
  <2> QED BY ONLY <2>1, AppendToOne
<1>4. status'[j] = "Completed"
  BY <1>0, Rows DEF OutboxInv
<1>5. \/ exec'[j] = "Completed" /\ trail'[j] = <<"integration_queued", "integration_completed">>
      \/ exec'[j] = "Skipped" /\ trail'[j] = <<"integration_queued">>
  BY <1>0, <1>1, <1>2, <1>3
<1>6. ASSUME NEW k \in Jobs, k # j
      PROVE  status'[k] = status[k] /\ exec'[k] = exec[k] /\ trail'[k] = trail[k]
  BY <1>0, <1>1, <1>6, Rows DEF OutboxInv
<1> QED BY <1>4, <1>5, <1>6 DEF RecordOK

(* Every other step leaves the execution and its history alone, and moves  *)
(* the job between Pending, Processing and Failed.                         *)
LEMMA OtherRecords ==
    ASSUME RecordsOK, UNCHANGED <<exec, trail>>,
           \A k \in Jobs : \/ status'[k] = status[k]
                           \/ /\ status[k] \in {"Pending", "Processing"}
                              /\ status'[k] \in {"Pending", "Processing", "Failed"}
    PROVE  RecordsOK'
  BY DEF RecordsOK, RecordOK

LEMMA RecordSteps ==
    ASSUME OutboxInv, RequestsInv, RecordsOK, [Next]_vars
    PROVE  RecordsOK'
<1> USE DEF outboxVars, connectorVars
<1>1. ASSUME NEW j \in Jobs, EnqueueTransitionConnector(j) PROVE RecordsOK'
  BY <1>1, QueueRecords
<1>2. ASSUME NEW j \in Jobs, SwitchConnector(j) PROVE RecordsOK'
  BY <1>2, OtherRecords DEF SwitchConnector
<1>3. ASSUME NEW j \in Jobs, Tick(j) PROVE RecordsOK'
  <2>1. UNCHANGED <<status, exec, trail>>
    BY <1>3, Zenon DEF Tick, O!Tick, O!BackoffElapses, O!LeaseLapses
  <2> QED BY <2>1, OtherRecords
<1>4. ASSUME NEW w \in Workers, Work(w) PROVE RecordsOK'
  <2>1. CASE SendRequest(w)
    BY <2>1, OtherRecords DEF SendRequest
  <2>2. CASE ExecutionCompletes(w) \/ ExecutionSkipped(w)
    BY <2>2, EndRecords
  <2>3. CASE ExecutionFails(w)
    <3>1. \A k \in Jobs : \/ status'[k] = status[k]
                          \/ status[k] = "Processing" /\ status'[k] \in {"Pending", "Failed"}
      BY <2>3, Failing, Rows DEF ExecutionFails, OutboxInv
    <3> QED BY <2>3, <3>1, OtherRecords DEF ExecutionFails
  <2>4. CASE O!Claim(w) /\ UNCHANGED connectorVars
    <3>1. \A k \in Jobs : \/ status'[k] = status[k]
                          \/ status[k] \in {"Pending", "Processing"} /\ status'[k] = "Processing"
      BY <2>4, Rows DEF O!Claim, O!NextDue, O!Due, OutboxInv
    <3> QED BY <2>4, <3>1, OtherRecords
  <2>5. CASE (O!BatchStart(w) \/ O!Load(w) \/ O!BatchEnd(w)) /\ UNCHANGED connectorVars
    <3>1. UNCHANGED <<status, exec, trail>>
      BY <2>5 DEF O!BatchStart, O!Load, O!BatchEnd, O!rowVars
    <3> QED BY <3>1, OtherRecords
  <2> QED BY <1>4, <2>1, <2>2, <2>3, <2>4, <2>5 DEF Work
<1>5. ASSUME NEW w \in Workers, Interrupt(w) PROVE RecordsOK'
  BY <1>5, OtherRecords DEF Interrupt, O!Interrupt, O!rowVars
<1>6. CASE UNCHANGED vars
  BY <1>6, OtherRecords DEF vars
<1> QED BY <1>1, <1>2, <1>3, <1>4, <1>5, <1>6 DEF Next

LEMMA OutboxKept ==
    ASSUME Exclusive, OutboxInv, [Next]_vars
    PROVE  OutboxInv'
<1>1. [P!Next]_(P!vars)
  BY ConnectorsUseOutbox
<1>2. P!Shape'
  BY <1>1, OutboxConstants, P!NextShape DEF OutboxInv
<1>3. P!Exclusive
  BY DEF Exclusive, P!Exclusive
<1>4. P!IInv'
  BY <1>1, <1>3, OutboxConstants, P!NextIInv DEF OutboxInv
<1> QED BY <1>2, <1>4 DEF OutboxInv

LEMMA ConnectorInvariant ==
    ASSUME Exclusive
    PROVE  Spec => [](OutboxInv /\ RequestsInv /\ RecordsOK)
<1>1. Init => OutboxInv
  BY SameInit, OutboxConstants, P!InitShape, P!InitIInv DEF Init, OutboxInv
<1>2. (OutboxInv /\ RequestsInv /\ RecordsOK) /\ [Next]_vars
        => (OutboxInv /\ RequestsInv /\ RecordsOK)'
  BY OutboxKept, RequestSteps, RecordSteps DEF OutboxInv
<1> QED BY <1>1, <1>2, RequestsStart, RecordsStart, PTL DEF Spec

(* For any number of jobs, workers, retries and interruptions, execution,  *)
(* history of the case and job agree until the job completes or fails, and *)
(* for good if it completes.                                               *)
THEOREM OneDecision ==
    ASSUME Exclusive
    PROVE  Spec => []RecordsAgree
<1>1. ASSUME RequestsInv, RecordsOK PROVE RecordsAgree
  BY <1>1 DEF RequestsInv, ConnectorTypes, RecordsOK, RecordOK, RecordsAgree
<1> QED BY <1>1, ConnectorInvariant, PTL

(* A job that has failed leaves its execution queued and no entry of the   *)
(* failure in the history of the case, always: what the handler writes of  *)
(* it (connectors.py:119-124) is never committed, and the documentation    *)
(* (docs/OPERATIONS_AND_RECOVERY.md:44) says otherwise.                    *)
FailureIsLost ==
    \A j \in Jobs : status[j] = "Failed" =>
        exec[j] = "Queued" /\ trail[j] = <<"integration_queued">>

THEOREM FailureLeavesNoTrace ==
    ASSUME Exclusive
    PROVE  Spec => []FailureIsLost
<1>1. ASSUME RequestsInv, RecordsOK PROVE FailureIsLost
  BY <1>1 DEF RequestsInv, ConnectorTypes, RecordsOK, RecordOK, FailureIsLost
<1> QED BY <1>1, ConnectorInvariant, PTL

(* The connectors implement the outbox: below every step of theirs is one  *)
(* of the outbox, or none of its rows and workers changes.                 *)
THEOREM ConnectorsImplementOutbox == Spec => P!Init /\ [][P!Next]_(P!vars)
<1>1. Init => P!Init
  BY SameInit DEF Init
<1> QED BY <1>1, ConnectorsUseOutbox, PTL DEF Spec

(* So the completion of a connector's job is committed once, and no two    *)
(* workers execute one job at a time.                                      *)
THEOREM ConnectorJobsOnce ==
    ASSUME Exclusive
    PROVE  Spec => [](P!AppliedOnce /\ P!SoleDispatcher /\ P!AttemptsExplained)
<1>1. OutboxInv => P!AppliedOnce /\ P!SoleDispatcher /\ P!AttemptsExplained
  BY DEF OutboxInv, P!IInv, P!AttemptsOK, P!AttemptsExplained
<1> QED BY <1>1, ConnectorInvariant, PTL
=============================================================================
