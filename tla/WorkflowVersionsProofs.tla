------------------------ MODULE WorkflowVersionsProofs ------------------------
(***************************************************************************)
(* Proofs about WorkflowVersions, for every number of versions, pages and  *)
(* requests and every list of rules.  RowsInv and RecordOK are kept by     *)
(* pages that overlap; VersionsInv, which says where each revision has     *)
(* gone, only by pages that do not.                                        *)
(***************************************************************************)
EXTENDS WorkflowVersions, WellFoundedInduction, SequenceTheorems, FiniteSetTheorems, TLAPS

Rowset == [version : Versions, status : {"Draft", "Published", "Archived"}, config : Configs]

(* Rows R that go with the active definition w: one row for a version, one *)
(* draft at most; what is published is active, and what is no draft is of  *)
(* the active version or older.                                            *)
Sound(R, w) ==
    /\ R \in Seq(Rowset)
    /\ \A i, j \in DOMAIN R : R[i].version = R[j].version => i = j
    /\ \A i, j \in DOMAIN R : R[i].status = "Draft" /\ R[j].status = "Draft" => i = j
    /\ \A i \in DOMAIN R : R[i].status = "Published" => Content(R[i]) = w
    /\ \A i \in DOMAIN R : R[i].status # "Draft" => R[i].version <= w.version

(* Rows that are no drafts stay as they are, archived or not.              *)
Frozen(R, E) ==
    /\ DOMAIN R \subseteq DOMAIN E
    /\ \A i \in DOMAIN R : R[i].status # "Draft" =>
          Content(E[i]) = Content(R[i]) /\ E[i].status # "Draft"

OnRecord(R, w) == \E i \in DOMAIN R : R[i].status # "Draft" /\ Content(R[i]) = w

(* What a page has loaded is there until it commits.                       *)
PagesOK ==
    /\ \A a, b \in Admins : page[a] # None /\ page[b] # None => a = b
    /\ \A a \in Admins : page[a] # None =>
          /\ page[a].wf = wf
          /\ page[a].draft # None =>
                /\ page[a].draft \in Drafts
                /\ page[a].row = revs[page[a].draft]

(* What was active is on record, unless its import took the number of a    *)
(* draft, or nothing has been recorded yet.                                *)
HistoryOK ==
    /\ wf \in active
    /\ \A w \in active :
          /\ w \in Content0 /\ w.version <= wf.version
          /\ w.version \in overDraft \/ OnRecord(revs, w) \/ (w = wf /\ revs = << >>)

VersionsInv ==
    /\ wf \in Content0
    /\ page \in [Admins -> {page[a] : a \in Admins}]
    /\ Sound(revs, wf) /\ PagesOK /\ HistoryOK

DraftsOf(R) == {i \in DOMAIN R : R[i].status = "Draft"}

-----------------------------------------------------------------------------
(* The greatest version of the rows, and a number that no other row has.   *)
LEMMA GreatestVersion ==
  ASSUME NEW V \in SUBSET Versions, V # {}
  PROVE  \E v \in V : \A w \in V : w <= v
<1> DEFINE T == {MaxVersion - v : v \in V}
<1>0. MaxVersion \in Nat
  BY VersionsAssumption
<1>1. T \in SUBSET Nat /\ T # {}
  <2>1. \A v \in V : v \in Nat /\ v <= MaxVersion
    BY <1>0 DEF Versions
  <2>2. \A v \in V : MaxVersion - v \in Nat
    BY <1>0, <2>1
  <2>3. QED
    BY <2>2
<1>2. PICK m \in T : \A k \in T : ~ (<<k, m>> \in OpToRel(<, Nat))
  <2> HIDE DEF T
  <2>1. QED
    BY <1>1, NatLessThanWellFounded, WFMin, Zenon
<1>3. \A k \in T : ~(k < m)
  BY <1>1, <1>2 DEF OpToRel
<1>4. PICK v \in V : m = MaxVersion - v
  BY <1>2
<1>5. \A w \in V : ~(MaxVersion - w < MaxVersion - v)
  BY <1>3, <1>4
<1>6. QED
  BY <1>0, <1>5 DEF Versions

LEMMA RowType ==
  ASSUME NEW R \in Seq(Rowset)
  PROVE  \A i \in DOMAIN R : R[i] \in Rowset
OBVIOUS

LEMMA GreatestBounds ==
  ASSUME NEW R \in Seq(Rowset), NEW k \in DOMAIN R
  PROVE  /\ Greatest(R) \in Versions
         /\ \A i \in DOMAIN R : R[i].version <= Greatest(R)
<1> DEFINE V == {R[i].version : i \in DOMAIN R}
<1>0. \A i \in DOMAIN R : R[i].version \in Versions
  BY RowType DEF Rowset
<1>1. V \in SUBSET Versions /\ V # {}
  BY <1>0
<1>2. \E v \in V : \A w \in V : w <= v
  <2> HIDE DEF V
  <2>1. QED
    BY <1>1, GreatestVersion
<1>3. Greatest(R) \in V /\ \A w \in V : w <= Greatest(R)
  BY <1>2 DEF Greatest
<1>4. QED
  BY <1>1, <1>3

(* The number that a draft or a publication takes: the one that is asked   *)
(* for, unless a row outside D has it.                                     *)
LEMMA FreshNumber ==
  ASSUME NEW R \in Seq(Rowset), NEW D, NEW n \in Nat,
         NEW v, v = IF AtVersion(R, n) \subseteq D THEN n ELSE Greatest(R) + 1
  PROVE  v \in Nat /\ v >= n /\ AtVersion(R, v) \subseteq D
<1>1. CASE AtVersion(R, n) \subseteq D
  BY <1>1
<1>2. CASE ~(AtVersion(R, n) \subseteq D)
  <2>1. PICK k \in DOMAIN R : R[k].version = n
    BY <1>2 DEF AtVersion
  <2>2. /\ Greatest(R) \in Versions
        /\ \A i \in DOMAIN R : R[i].version <= Greatest(R)
    BY <2>1, GreatestBounds
  <2>3. v = Greatest(R) + 1
    BY <1>2
  <2>4. v \in Nat /\ v >= n
    BY <2>1, <2>2, <2>3 DEF Versions
  <2>5. \A i \in DOMAIN R : R[i].version \in Versions
    BY RowType DEF Rowset
  <2>6. \A i \in DOMAIN R : R[i].version # v
    BY <2>2, <2>3, <2>5 DEF Versions
  <2>7. QED
    BY <2>4, <2>6 DEF AtVersion
<1>3. QED
  BY <1>1, <1>2

-----------------------------------------------------------------------------
(* What each change of the rows keeps.                                     *)
LEMMA FrozenOnRecord ==
  ASSUME NEW R, NEW E, Frozen(R, E), NEW w, OnRecord(R, w)
  PROVE  OnRecord(E, w)
BY DEF Frozen, OnRecord

LEMMA FrozenTwice ==
  ASSUME NEW R, NEW E, NEW F, Frozen(R, E), Frozen(E, F)
  PROVE  Frozen(R, F)
BY DEF Frozen

LEMMA EnsuredIsSound ==
  ASSUME NEW w \in Content0, NEW R, Sound(R, w),
         NEW E, E = Ensured(R, w)
  PROVE  /\ Sound(E, w)
         /\ Frozen(R, E)
         /\ AtVersion(E, w.version) # {}
         /\ DraftsOf(E) = DraftsOf(R)
         /\ \A i \in DOMAIN R : E[i] = R[i]
         /\ AtVersion(R, w.version) = {} => OnRecord(E, w)
<1> DEFINE row == Row(w.version, "Published", w.config)
<1>0. R \in Seq(Rowset) /\ row \in Rowset
  BY DEF Sound, Row, Rowset, Content0
<1>1. CASE AtVersion(R, w.version) # {}
  <2>1. E = R
    BY <1>1 DEF Ensured
  <2>2. QED
    BY <1>1, <2>1 DEF Frozen
<1>2. CASE AtVersion(R, w.version) = {}
  <2>1. E = Append(R, row)
    BY <1>2 DEF Ensured
  <2>2. /\ E \in Seq(Rowset) /\ Len(E) = Len(R) + 1
        /\ DOMAIN E = 1..Len(R) + 1 /\ DOMAIN R = 1..Len(R) /\ Len(R) \in Nat
        /\ \A i \in DOMAIN R : E[i] = R[i]
        /\ E[Len(R) + 1] = row
    <3> HIDE DEF row
    <3>1. QED
      BY <1>0, <2>1
  <2>3. /\ row.version = w.version /\ row.status = "Published" /\ Content(row) = w
    BY DEF Row, Content, Content0
  <2>4. \A i \in DOMAIN R : R[i].version # w.version
    BY <1>2 DEF AtVersion
  <2>5. w.version \in Nat
    BY VersionsAssumption DEF Content0, Versions
  <2> HIDE DEF row
  <2>6. \A i, j \in DOMAIN E : E[i].version = E[j].version => i = j
    BY <2>2, <2>3, <2>4 DEF Sound
  <2>7. \A i, j \in DOMAIN E : E[i].status = "Draft" /\ E[j].status = "Draft" => i = j
    BY <2>2, <2>3 DEF Sound
  <2>8. \A i \in DOMAIN E : E[i].status = "Published" => Content(E[i]) = w
    BY <2>2, <2>3 DEF Sound
  <2>9. \A i \in DOMAIN E : E[i].status # "Draft" => E[i].version <= w.version
    BY <2>2, <2>3, <2>5 DEF Sound
  <2>10. Sound(E, w)
    BY <2>2, <2>6, <2>7, <2>8, <2>9 DEF Sound
  <2>11. Frozen(R, E)
    BY <2>2 DEF Frozen
  <2>12. AtVersion(E, w.version) # {} /\ OnRecord(E, w)
    BY <2>2, <2>3 DEF AtVersion, OnRecord
  <2>13. DraftsOf(E) = DraftsOf(R)
    BY <2>2, <2>3 DEF DraftsOf
  <2>14. QED
    BY <2>2, <2>10, <2>11, <2>12, <2>13
<1>3. QED
  BY <1>1, <1>2

(* A draft is added, or the one draft is overwritten.                      *)
LEMMA DraftAdded ==
  ASSUME NEW w, NEW R, Sound(R, w), DraftsOf(R) = {},
         NEW row \in Rowset, row.status = "Draft", AtVersion(R, row.version) = {},
         NEW E, E = Append(R, row)
  PROVE  Sound(E, w) /\ Frozen(R, E)
<1>1. R \in Seq(Rowset)
  BY DEF Sound
<1>2. /\ E \in Seq(Rowset)
      /\ DOMAIN E = 1..Len(R) + 1 /\ DOMAIN R = 1..Len(R) /\ Len(R) \in Nat
      /\ \A i \in DOMAIN R : E[i] = R[i]
      /\ E[Len(R) + 1] = row
  BY <1>1
<1>3. \A i \in DOMAIN R : R[i].version # row.version /\ R[i].status # "Draft"
  BY DEF AtVersion, DraftsOf
<1>4. \A i, j \in DOMAIN E : E[i].version = E[j].version => i = j
  BY <1>2, <1>3 DEF Sound
<1>5. \A i, j \in DOMAIN E : E[i].status = "Draft" /\ E[j].status = "Draft" => i = j
  BY <1>2, <1>3
<1>6. \A i \in DOMAIN E : E[i].status = "Published" => Content(E[i]) = w
  BY <1>2 DEF Sound
<1>7. \A i \in DOMAIN E : E[i].status # "Draft" => E[i].version <= w.version
  BY <1>2 DEF Sound
<1>8. Frozen(R, E)
  BY <1>2 DEF Frozen
<1>9. QED
  BY <1>2, <1>4, <1>5, <1>6, <1>7, <1>8 DEF Sound

LEMMA DraftOverwritten ==
  ASSUME NEW w, NEW R, Sound(R, w), NEW d \in DraftsOf(R),
         NEW row \in Rowset, row.status = "Draft",
         AtVersion(R, row.version) \subseteq DraftsOf(R),
         NEW E, E = [R EXCEPT ![d] = row]
  PROVE  Sound(E, w) /\ Frozen(R, E)
<1>1. R \in Seq(Rowset) /\ d \in DOMAIN R /\ R[d].status = "Draft"
  BY DEF Sound, DraftsOf
<1>2. /\ E \in Seq(Rowset) /\ DOMAIN E = DOMAIN R
      /\ E[d] = row /\ \A i \in DOMAIN R : i # d => E[i] = R[i]
  BY <1>1
<1>3. \A i \in DOMAIN R : i # d => R[i].version # row.version /\ R[i].status # "Draft"
  BY <1>1 DEF AtVersion, DraftsOf, Sound
<1>4. \A i, j \in DOMAIN E : E[i].version = E[j].version => i = j
  BY <1>2, <1>3 DEF Sound
<1>5. \A i, j \in DOMAIN E : E[i].status = "Draft" /\ E[j].status = "Draft" => i = j
  BY <1>2, <1>3
<1>6. \A i \in DOMAIN E : E[i].status = "Published" => Content(E[i]) = w
  BY <1>2 DEF Sound
<1>7. \A i \in DOMAIN E : E[i].status # "Draft" => E[i].version <= w.version
  BY <1>2 DEF Sound
<1>8. Frozen(R, E)
  BY <1>1, <1>2 DEF Frozen
<1>9. QED
  BY <1>2, <1>4, <1>5, <1>6, <1>7, <1>8 DEF Sound

(* The draft is published under a number beyond that of the active         *)
(* definition w, which becomes x.                                          *)
LEMMA DraftPublished ==
  ASSUME NEW w \in Content0, NEW R, Sound(R, w), NEW d \in DraftsOf(R),
         NEW x \in Content0, x.version > w.version, AtVersion(R, x.version) \subseteq {d},
         NEW E, E = [Archived(R) EXCEPT ![d] = Row(x.version, "Published", x.config)]
  PROVE  Sound(E, x) /\ Frozen(R, E) /\ OnRecord(E, x)
<1> DEFINE row == Row(x.version, "Published", x.config)
           A == Archived(R)
<1>1. R \in Seq(Rowset) /\ d \in DOMAIN R /\ R[d].status = "Draft"
  BY DEF Sound, DraftsOf
<1>2. row \in Rowset /\ Content(row) = x /\ row.version = x.version /\ row.status = "Published"
  BY DEF Row, Rowset, Content0, Content
<1>3. \A i \in DOMAIN R : R[i] \in Rowset
  BY <1>1, RowType
<1>4. /\ DOMAIN A = DOMAIN R
      /\ \A i \in DOMAIN R : A[i] \in Rowset
      /\ \A i \in DOMAIN R : Content(A[i]) = Content(R[i]) /\ A[i].version = R[i].version
      /\ \A i \in DOMAIN R : A[i].status # "Published"
      /\ \A i \in DOMAIN R : A[i].status = "Draft" <=> R[i].status = "Draft"
  BY <1>3 DEF Archived, Rowset, Content
<1> HIDE DEF row, A
<1>5. A \in Seq(Rowset)
  <2>1. PICK n \in Nat : DOMAIN R = 1..n
    BY <1>1
  <2>2. A = [i \in 1..n |-> A[i]]
    BY <2>1 DEF A, Archived
  <2>3. QED
    BY <1>4, <2>1, <2>2
<1>6. E = [A EXCEPT ![d] = row]
  BY DEF A, row
<1>7. /\ E \in Seq(Rowset) /\ DOMAIN E = DOMAIN R
      /\ E[d] = row /\ \A i \in DOMAIN R : i # d => E[i] = A[i]
  <2>1. d \in DOMAIN A /\ DOMAIN A = DOMAIN R
    BY <1>1, <1>4
  <2>2. row \in Rowset
    BY <1>2
  <2>3. E \in Seq(Rowset) /\ DOMAIN E = DOMAIN A
    <3>1. d \in 1..Len(A)
      BY <1>5, <2>1
    <3>2. [A EXCEPT ![d] = row] \in Seq(Rowset)
      BY <1>5, <2>2, <3>1, ExceptSeq, Zenon
    <3>3. QED
      BY <1>6, <3>2
  <2>4. E[d] = row /\ \A i \in DOMAIN A : i # d => E[i] = A[i]
    BY <1>6, <2>1
  <2>5. QED
    BY <2>1, <2>3, <2>4
<1>8. w.version \in Nat /\ x.version \in Nat /\ \A i \in DOMAIN R : R[i].version \in Nat
  BY <1>3, VersionsAssumption DEF Content0, Versions, Rowset
<1>9. \A i \in DOMAIN R : i # d => R[i].version # x.version /\ R[i].status # "Draft"
  BY <1>1 DEF AtVersion, Sound
<1>10. \A i, j \in DOMAIN E : E[i].version = E[j].version => i = j
  BY <1>2, <1>4, <1>7, <1>9 DEF Sound
<1>11. \A i, j \in DOMAIN E : E[i].status = "Draft" /\ E[j].status = "Draft" => i = j
  BY <1>2, <1>4, <1>7, <1>9
<1>12. \A i \in DOMAIN E : E[i].status = "Published" => Content(E[i]) = x
  BY <1>2, <1>4, <1>7
<1>13. \A i \in DOMAIN E : E[i].status # "Draft" => E[i].version <= x.version
  BY <1>2, <1>4, <1>7, <1>8 DEF Sound
<1>14. Frozen(R, E)
  BY <1>1, <1>4, <1>7 DEF Frozen
<1>15. OnRecord(E, x)
  BY <1>1, <1>2, <1>7 DEF OnRecord
<1>16. QED
  BY <1>7, <1>10, <1>11, <1>12, <1>13, <1>14, <1>15 DEF Sound

(* The row p of the active definition is archived for an import of x.      *)
LEMMA PriorArchived ==
  ASSUME NEW w \in Content0, NEW R, Sound(R, w), NEW p \in AtVersion(R, w.version),
         NEW x \in Content0, x.version > w.version,
         NEW row \in Rowset, row.status = "Archived", Content(row) = Content(R[p]),
         NEW A, A = [R EXCEPT ![p] = row]
  PROVE  /\ Sound(A, x) /\ Frozen(R, A)
         /\ \A v \in Versions : AtVersion(R, v) = {} => AtVersion(A, v) = {}
<1>1. R \in Seq(Rowset) /\ p \in DOMAIN R /\ R[p].version = w.version
  BY DEF Sound, AtVersion
<1>2. \A i \in DOMAIN R : R[i] \in Rowset
  BY <1>1, RowType
<1>4. row.version = R[p].version
  BY DEF Content
<1>6. /\ A \in Seq(Rowset) /\ DOMAIN A = DOMAIN R
      /\ A[p] = row /\ \A i \in DOMAIN R : i # p => A[i] = R[i]
  BY <1>1, <1>4
<1>7. w.version \in Nat /\ x.version \in Nat /\ \A i \in DOMAIN R : R[i].version \in Nat
  BY <1>2, VersionsAssumption DEF Content0, Versions, Rowset
<1>8. \A i \in DOMAIN R : A[i].version = R[i].version
  BY <1>4, <1>6
<1>9. \A i, j \in DOMAIN A : A[i].version = A[j].version => i = j
  BY <1>6, <1>8 DEF Sound
<1>10. \A i, j \in DOMAIN A : A[i].status = "Draft" /\ A[j].status = "Draft" => i = j
  BY <1>4, <1>6 DEF Sound
<1>11. \A i \in DOMAIN A : A[i].status # "Published"
  BY <1>1, <1>4, <1>6 DEF Sound, Content
<1>12. \A i \in DOMAIN A : A[i].status # "Draft" => A[i].version <= x.version
  BY <1>1, <1>6, <1>7, <1>8 DEF Sound
<1>13. Frozen(R, A)
  BY <1>4, <1>6 DEF Frozen
<1>14. \A v \in Versions : AtVersion(R, v) = {} => AtVersion(A, v) = {}
  BY <1>6, <1>8 DEF AtVersion
<1>15. QED
  BY <1>6, <1>9, <1>10, <1>11, <1>12, <1>13, <1>14 DEF Sound

-----------------------------------------------------------------------------
(* What the steps have in common: what is on record stays on record, and a *)
(* page that commits is the only one that is open.                         *)
LEMMA HistoryKeptByStep ==
  ASSUME wf \in Content0, wf' \in Content0, HistoryOK,
         wf' = wf \/ wf'.version > wf.version,
         active' = active \cup {wf'},
         overDraft \subseteq overDraft',
         Frozen(revs, revs'),
         revs = << >> => OnRecord(revs', wf) \/ (wf' = wf /\ revs' = << >>),
         wf' # wf => OnRecord(revs', wf') \/ wf'.version \in overDraft'
  PROVE  HistoryOK'
<1>1. wf.version \in Nat /\ wf'.version \in Nat /\ wf.version <= wf'.version
  BY VersionsAssumption DEF Content0, Versions
<1>2. ASSUME NEW w \in active
      PROVE  /\ w \in Content0 /\ w.version <= wf'.version
             /\ \/ w.version \in overDraft' \/ OnRecord(revs', w)
                \/ w = wf' /\ revs' = << >>
  <2>1. w \in Content0 /\ w.version <= wf.version /\ w.version \in Nat
    BY <1>2, VersionsAssumption DEF HistoryOK, Content0, Versions
  <2>2. w.version \in overDraft \/ OnRecord(revs, w) \/ (w = wf /\ revs = << >>)
    BY <1>2 DEF HistoryOK
  <2>3. OnRecord(revs, w) => OnRecord(revs', w)
    BY FrozenOnRecord
  <2>4. w.version <= wf'.version
    BY <1>1, <2>1
  <2>5. QED
    BY <2>1, <2>2, <2>3, <2>4
<1>3. CASE wf' = wf
  BY <1>2, <1>3 DEF HistoryOK, Content0
<1>4. CASE wf' # wf
  <2>1. wf' \in active' /\ wf'.version <= wf'.version
    BY <1>1
  <2>2. \A w \in active' : w \in active \/ w = wf'
    OBVIOUS
  <2>3. \A w \in active' :
          /\ w \in Content0 /\ w.version <= wf'.version
          /\ w.version \in overDraft' \/ OnRecord(revs', w) \/ (w = wf' /\ revs' = << >>)
    BY <1>2, <1>4, <2>1, <2>2
  <2>4. QED
    BY <2>1, <2>3 DEF HistoryOK, Content0
<1>5. QED
  BY <1>3, <1>4

LEMMA PageCommits ==
  ASSUME VersionsInv, NEW a \in Admins, page[a] # None, Close(a)
  PROVE  /\ page' \in [Admins -> {page'[b] : b \in Admins}]
         /\ PagesOK'
         /\ page[a].wf = wf
         /\ page[a].draft # None =>
               page[a].draft \in Drafts /\ page[a].row = revs[page[a].draft]
<1>1. DOMAIN page = Admins /\ page = [b \in Admins |-> page[b]]
  BY DEF VersionsInv
<1>2. page' = [page EXCEPT ![a] = None]
  BY DEF Close
<1>3. page' = [b \in Admins |-> page'[b]]
  BY <1>1, <1>2
<1>4. \A b \in Admins : b = a \/ page[b] = None
  BY DEF VersionsInv, PagesOK
<1>5. \A b \in Admins : page'[b] = None
  BY <1>1, <1>2, <1>4
<1>6. PagesOK'
  BY <1>5 DEF PagesOK
<1>7. page' \in [Admins -> {page'[b] : b \in Admins}]
  BY <1>3
<1>8. QED
  BY <1>6, <1>7 DEF VersionsInv, PagesOK

(* revs and wf as they are after the definition has been given its row.    *)
LEMMA EnsuredNow ==
  ASSUME VersionsInv, NEW E, E = Ensured(revs, wf)
  PROVE  /\ Sound(E, wf) /\ Frozen(revs, E)
         /\ AtVersion(E, wf.version) # {}
         /\ DraftsOf(E) = Drafts
         /\ \A i \in Ids : E[i] = revs[i]
         /\ revs = << >> => OnRecord(E, wf)
<1>1. Sound(revs, wf) /\ wf \in Content0
  BY DEF VersionsInv
<1>2. Drafts = DraftsOf(revs)
  BY DEF Drafts, DraftsOf, Ids
<1>3. revs = << >> => AtVersion(revs, wf.version) = {}
  BY DEF AtVersion
<1>4. QED
  BY <1>1, <1>2, <1>3, EnsuredIsSound DEF Ids

LEMMA FrozenSame ==
  ASSUME NEW R
  PROVE  Frozen(R, R)
BY DEF Frozen

-----------------------------------------------------------------------------
(* The steps.                                                              *)
LEMMA InitVersions ==
  ASSUME Init
  PROVE  VersionsInv
<1>0. MaxVersion \in Nat \ {0}
  BY VersionsAssumption
<1>1. wf \in Content0 /\ wf.version = 1
  BY <1>0 DEF Init, Content0, Versions
<1>2. PICK row : row = Row(1, "Published", wf.config)
  OBVIOUS
<1>3. row \in Rowset /\ Content(row) = wf /\ row.status = "Published" /\ row.version = 1
  BY <1>1, <1>2 DEF Row, Rowset, Content0, Content
<1>4. revs = << >> \/ revs = <<row>>
  BY <1>2 DEF Init
<1>5. ASSUME revs = << >>
      PROVE  Sound(revs, wf)
  <2>1. revs \in Seq(Rowset) /\ DOMAIN revs = {}
    BY <1>5
  <2>2. QED
    BY <2>1 DEF Sound
<1>6. ASSUME revs = <<row>>
      PROVE  Sound(revs, wf)
  <2>1. revs \in Seq(Rowset) /\ DOMAIN revs = {1} /\ revs[1] = row
    BY <1>3, <1>6
  <2>2. QED
    BY <1>1, <1>3, <2>1 DEF Sound
<1>7. Sound(revs, wf)
  BY <1>4, <1>5, <1>6
<1>8. revs = << >> \/ OnRecord(revs, wf)
  BY <1>3, <1>4 DEF OnRecord
<1>9. HistoryOK
  BY <1>1, <1>8 DEF Init, HistoryOK
<1>10. PagesOK
  BY DEF Init, PagesOK
<1>11. page \in [Admins -> {page[a] : a \in Admins}]
  BY DEF Init
<1>12. QED
  BY <1>1, <1>7, <1>9, <1>10, <1>11 DEF VersionsInv

LEMMA OpenStep ==
  ASSUME ~Overlap, VersionsInv, NEW a \in Admins, Open(a)
  PROVE  VersionsInv' /\ Frozen(revs, revs') /\ wf' = wf
<1>1. UNCHANGED <<wf, revs, rules, cases, active, overDraft>>
  BY DEF Open
<1>2. \A b \in Admins : page[b] = None
  BY DEF Open, Alone
<1>3. PICK d : d = IF Drafts = {} THEN None ELSE CHOOSE i \in Drafts : TRUE
  OBVIOUS
<1>4. PICK row : row = IF Drafts = {} THEN None ELSE revs[CHOOSE i \in Drafts : TRUE]
  OBVIOUS
<1>5. page' = [page EXCEPT ![a] = [wf |-> wf, draft |-> d, row |-> row]]
  BY <1>3, <1>4, Zenon DEF Open
<1>6. d # None => d \in Drafts /\ row = revs[d]
  BY <1>3, <1>4
<1>7. page = [b \in Admins |-> page[b]]
  BY DEF VersionsInv
<1>8. /\ page'[a] = [wf |-> wf, draft |-> d, row |-> row]
      /\ \A b \in Admins : b # a => page'[b] = None
      /\ page' = [b \in Admins |-> page'[b]]
  BY <1>2, <1>5, <1>7
<1>9. page' \in [Admins -> {page'[b] : b \in Admins}]
  BY <1>8
<1>10. PagesOK'
  BY <1>1, <1>6, <1>8 DEF PagesOK, Drafts, Ids
<1>11. HistoryOK'
  BY <1>1 DEF VersionsInv, HistoryOK
<1>12. QED
  BY <1>1, <1>9, <1>10, <1>11, FrozenSame DEF VersionsInv

LEMMA ShowStep ==
  ASSUME VersionsInv, NEW a \in Admins, Show(a)
  PROVE  VersionsInv' /\ Frozen(revs, revs') /\ wf' = wf
<1>1. page[a] # None /\ Close(a) /\ UNCHANGED <<wf, rules, cases, active, overDraft>>
  BY DEF Show
<1>2. page[a].wf = wf /\ PagesOK' /\ page' \in [Admins -> {page'[b] : b \in Admins}]
  BY <1>1, PageCommits
<1>3. revs' = revs \/ revs' = Ensured(revs, wf)
  BY <1>2 DEF Show
<1>4. Sound(revs', wf) /\ Frozen(revs, revs')
  BY <1>3, EnsuredNow, FrozenSame DEF VersionsInv
<1>5. revs = << >> => OnRecord(revs', wf) \/ revs' = << >>
  BY <1>3, EnsuredNow
<1>6. active = active \cup {wf} /\ wf \in Content0 /\ HistoryOK
  BY DEF VersionsInv, HistoryOK
<1>7. HistoryOK'
  BY <1>1, <1>4, <1>5, <1>6, HistoryKeptByStep
<1>9. QED
  BY <1>1, <1>2, <1>4, <1>7 DEF VersionsInv

LEMMA SaveStep ==
  ASSUME VersionsInv, NEW a \in Admins, NEW c \in Configs, NEW asked \in Versions,
         SaveDraft(a, c, asked)
  PROVE  VersionsInv' /\ Frozen(revs, revs') /\ wf' = wf
<1>1. page[a] # None /\ Close(a) /\ UNCHANGED <<wf, rules, cases, active, overDraft>>
  BY DEF SaveDraft
<1>2. page[a].wf = wf /\ PagesOK' /\ page' \in [Admins -> {page'[b] : b \in Admins}]
  BY <1>1, PageCommits
<1>3. PICK R : R = Ensured(revs, wf)
  OBVIOUS
<1>4. PICK n : n = IF asked > wf.version + 1 THEN asked ELSE wf.version + 1
  OBVIOUS
<1>5. PICK v : v = IF AtVersion(R, n) \subseteq Drafts THEN n ELSE Greatest(R) + 1
  OBVIOUS
<1>6. PICK row : row = Row(v, "Draft", c)
  OBVIOUS
<1>7. /\ v <= MaxVersion
      /\ revs' = IF Drafts = {} THEN Append(R, row)
                 ELSE [R EXCEPT ![CHOOSE i \in Drafts : TRUE] = row]
  BY <1>2, <1>3, <1>4, <1>5, <1>6 DEF SaveDraft
<1>8. /\ Sound(R, wf) /\ Frozen(revs, R) /\ DraftsOf(R) = Drafts
      /\ revs = << >> => OnRecord(R, wf)
  BY <1>3, EnsuredNow
<1>9. R \in Seq(Rowset)
  BY <1>8 DEF Sound
<1>10. wf \in Content0 /\ wf.version \in Nat /\ wf.version >= 1
  BY VersionsAssumption DEF VersionsInv, Content0, Versions
<1>11. n \in Nat /\ n >= 1
  BY <1>4, <1>10 DEF Versions
<1>12. v \in Nat /\ v >= n /\ AtVersion(R, v) \subseteq Drafts
  BY <1>5, <1>9, <1>11, FreshNumber
<1>13. v \in Versions
  BY <1>7, <1>11, <1>12, VersionsAssumption DEF Versions
<1>14. row \in Rowset /\ row.version = v /\ row.status = "Draft"
  BY <1>6, <1>13 DEF Row, Rowset
<1>15. Sound(revs', wf) /\ Frozen(R, revs')
  <2>1. CASE Drafts = {}
    <3>1. AtVersion(R, row.version) = {} /\ DraftsOf(R) = {}
      BY <1>8, <1>12, <1>14, <2>1
    <3>2. revs' = Append(R, row)
      BY <1>7, <2>1
    <3>3. QED
      BY <1>8, <1>14, <3>1, <3>2, DraftAdded
  <2>2. CASE Drafts # {}
    <3>1. PICK d \in Drafts : d = CHOOSE i \in Drafts : TRUE
      BY <2>2
    <3>2. revs' = [R EXCEPT ![d] = row]
      BY <1>7, <2>2, <3>1
    <3>3. d \in DraftsOf(R) /\ AtVersion(R, row.version) \subseteq DraftsOf(R)
      BY <1>8, <1>12, <1>14, <3>1
    <3>4. QED
      BY <1>8, <1>14, <3>2, <3>3, DraftOverwritten
  <2>3. QED
    BY <2>1, <2>2
<1>16. Frozen(revs, revs') /\ (revs = << >> => OnRecord(revs', wf))
  BY <1>8, <1>15, FrozenTwice, FrozenOnRecord
<1>17. active = active \cup {wf} /\ HistoryOK
  BY DEF VersionsInv, HistoryOK
<1>18. HistoryOK'
  BY <1>1, <1>10, <1>16, <1>17, HistoryKeptByStep
<1>20. QED
  BY <1>1, <1>2, <1>10, <1>15, <1>16, <1>18 DEF VersionsInv

LEMMA PublishStep ==
  ASSUME VersionsInv, NEW a \in Admins, Publish(a)
  PROVE  VersionsInv' /\ Frozen(revs, revs') /\ wf'.version > wf.version
<1>1. /\ page[a] # None /\ page[a].draft # None /\ Close(a)
      /\ UNCHANGED <<rules, cases, overDraft>>
  BY DEF Publish
<1>2. /\ page[a].wf = wf /\ PagesOK' /\ page' \in [Admins -> {page'[b] : b \in Admins}]
      /\ page[a].draft \in Drafts /\ page[a].row = revs[page[a].draft]
  BY <1>1, PageCommits
<1>3. PICK d \in Drafts : d = page[a].draft
  BY <1>2
<1>4. /\ Sound(revs, wf) /\ revs \in Seq(Rowset) /\ wf \in Content0
      /\ d \in DraftsOf(revs) /\ d \in Ids /\ revs # << >>
  BY <1>3 DEF VersionsInv, Sound, Drafts, DraftsOf, Ids
<1>5. revs[d] \in Rowset
  BY <1>4, RowType DEF Ids
<1>6. PICK n : n = IF revs[d].version > wf.version THEN revs[d].version ELSE wf.version + 1
  OBVIOUS
<1>7. wf.version \in Nat /\ revs[d].version \in Nat /\ revs[d].config \in Configs
  BY <1>4, <1>5, VersionsAssumption DEF Content0, Versions, Rowset
<1>8. n \in Nat /\ n > wf.version
  BY <1>6, <1>7
<1>9. PICK v : v = IF AtVersion(revs, n) \subseteq {d} THEN n ELSE Greatest(revs) + 1
  OBVIOUS
<1>10. v \in Nat /\ v >= n /\ AtVersion(revs, v) \subseteq {d}
  BY <1>4, <1>8, <1>9, FreshNumber
<1>11. PublishedVersion(a) = v
  BY <1>2, <1>3, <1>6, <1>9 DEF PublishedVersion
<1>12. PICK w : w = [version |-> v, config |-> revs[d].config]
  OBVIOUS
<1>13. /\ Activate(w)
       /\ revs' = [Archived(revs) EXCEPT ![d] = Row(w.version, "Published", w.config)]
  BY <1>2, <1>3, <1>11, <1>12 DEF Publish
<1>14. /\ wf' = w /\ v <= MaxVersion /\ active' = active \cup {wf'}
  BY <1>12, <1>13 DEF Activate
<1>15. w \in Content0 /\ w.version = v /\ w.version > wf.version
  BY <1>7, <1>8, <1>10, <1>12, <1>14, VersionsAssumption DEF Content0, Versions
<1>16. Sound(revs', w) /\ Frozen(revs, revs') /\ OnRecord(revs', w)
  BY <1>4, <1>10, <1>13, <1>15, DraftPublished
<1>17. HistoryOK'
  BY <1>1, <1>4, <1>14, <1>15, <1>16, HistoryKeptByStep DEF VersionsInv
<1>20. QED
  BY <1>2, <1>14, <1>15, <1>16, <1>17 DEF VersionsInv

LEMMA ImportStep ==
  ASSUME ~Overlap, VersionsInv, NEW c \in Configs, NEW v \in Versions, Import(c, v)
  PROVE  VersionsInv' /\ Frozen(revs, revs') /\ wf'.version > wf.version
<1>1. /\ \A a \in Admins : page[a] = None
      /\ v > wf.version /\ UNCHANGED <<page, rules, cases>>
  BY DEF Import, Alone
<1>2. PICK w : w = [version |-> v, config |-> c]
  OBVIOUS
<1>3. w \in Content0 /\ w.version = v /\ wf' = w /\ active' = active \cup {wf'}
  BY <1>2 DEF Import, Activate, Content0
<1>4. PICK R : R = Ensured(revs, wf)
  OBVIOUS
<1>5. /\ Sound(R, wf) /\ Frozen(revs, R) /\ DraftsOf(R) = Drafts
      /\ AtVersion(R, wf.version) # {}
      /\ \A i \in Ids : R[i] = revs[i]
      /\ revs = << >> => OnRecord(R, wf)
  BY <1>4, EnsuredNow
<1>6. PICK p \in AtVersion(R, wf.version) : p = CHOOSE i \in AtVersion(R, wf.version) : TRUE
  BY <1>5
<1>7. PICK A : A = [R EXCEPT ![p].status = "Archived"]
  OBVIOUS
<1>8. revs' = Ensured(A, w)
  BY <1>3, <1>4, <1>6, <1>7, Zenon DEF Import
<1>9. wf \in Content0
  BY DEF VersionsInv
<1>10. /\ Sound(A, w) /\ Frozen(R, A)
       /\ AtVersion(R, v) = {} => AtVersion(A, v) = {}
  <2>1. w \in Content0 /\ w.version > wf.version
    BY <1>1, <1>3
  <2>2. PICK row : row = [R[p] EXCEPT !.status = "Archived"]
    OBVIOUS
  <2>3. A = [R EXCEPT ![p] = row]
    BY <1>7, <2>2, Zenon
  <2>4. QED
    <3>1. Sound(R, wf) /\ p \in AtVersion(R, wf.version)
      BY <1>5, <1>6
    <3>2. R[p] \in Rowset
      BY <3>1, RowType DEF Sound, AtVersion
    <3>3. row \in Rowset /\ row.status = "Archived" /\ Content(row) = Content(R[p])
      BY <2>2, <3>2 DEF Rowset, Content
    <3>4. QED
      BY <1>9, <2>1, <2>3, <3>1, <3>3, PriorArchived
<1>11. /\ Sound(revs', w) /\ Frozen(A, revs')
       /\ AtVersion(A, w.version) = {} => OnRecord(revs', w)
  BY <1>3, <1>8, <1>10, EnsuredIsSound
<1>12. Frozen(revs, revs') /\ (revs = << >> => OnRecord(revs', wf))
  BY <1>5, <1>10, <1>11, FrozenTwice, FrozenOnRecord
<1>13. overDraft' = overDraft \cup {revs[i].version : i \in Drafts \cap AtVersion(revs, v)}
  BY DEF Import
<1>14. OnRecord(revs', wf') \/ wf'.version \in overDraft'
  <2>1. CASE AtVersion(R, v) = {}
    BY <1>3, <1>10, <1>11, <2>1
  <2>2. CASE AtVersion(R, v) # {}
    <3>1. PICK i \in DOMAIN R : R[i].version = v
      BY <2>2 DEF AtVersion
    <3>2. ~(v <= wf.version)
      BY <1>1, <1>9, VersionsAssumption DEF Versions, Content0
    <3>3. R[i].status = "Draft"
      BY <1>5, <3>1, <3>2 DEF Sound
    <3>4. i \in Drafts /\ i \in Ids
      BY <1>5, <3>1, <3>3 DEF DraftsOf, Drafts
    <3>5. revs[i].version = v /\ i \in AtVersion(revs, v)
      BY <1>5, <3>1, <3>4 DEF AtVersion, Ids
    <3>6. v \in overDraft'
      BY <1>13, <3>4, <3>5
    <3>7. QED
      BY <1>3, <3>6
  <2>3. QED
    BY <2>1, <2>2
<1>15. HistoryOK'
  BY <1>1, <1>3, <1>9, <1>12, <1>13, <1>14, HistoryKeptByStep DEF VersionsInv
<1>16. PagesOK'
  BY <1>1 DEF VersionsInv, PagesOK, Drafts, Ids
<1>17. page' \in [Admins -> {page'[b] : b \in Admins}]
  BY <1>1 DEF VersionsInv
<1>18. QED
  BY <1>1, <1>3, <1>11, <1>12, <1>15, <1>16, <1>17 DEF VersionsInv

LEMMA RequestStep ==
  ASSUME VersionsInv, UNCHANGED <<wf, revs, page, active, overDraft>>
  PROVE  VersionsInv' /\ Frozen(revs, revs') /\ wf' = wf
<1>1. HistoryOK' /\ PagesOK' /\ Sound(revs', wf')
  BY DEF VersionsInv, HistoryOK, PagesOK, Drafts, Ids
<1>2. QED
  BY <1>1, FrozenSame DEF VersionsInv

LEMMA VersionsStep ==
  ASSUME ~Overlap, VersionsInv, [Next]_vars
  PROVE  /\ VersionsInv' /\ Frozen(revs, revs')
         /\ wf' = wf \/ wf'.version > wf.version
<1>1. CASE UNCHANGED vars
  BY <1>1, RequestStep DEF vars
<1>2. ASSUME NEW a \in Admins, Open(a) \/ Show(a) \/ Publish(a)
      PROVE  /\ VersionsInv' /\ Frozen(revs, revs')
             /\ wf' = wf \/ wf'.version > wf.version
  BY <1>2, OpenStep, ShowStep, PublishStep
<1>3. ASSUME NEW a \in Admins, NEW c \in Configs, NEW asked \in Versions,
             SaveDraft(a, c, asked)
      PROVE  /\ VersionsInv' /\ Frozen(revs, revs')
             /\ wf' = wf \/ wf'.version > wf.version
  BY <1>3, SaveStep
<1>4. ASSUME NEW c \in Configs, NEW v \in Versions, Import(c, v)
      PROVE  /\ VersionsInv' /\ Frozen(revs, revs')
             /\ wf' = wf \/ wf'.version > wf.version
  BY <1>4, ImportStep
<1>5. ASSUME NEW c \in Cases, NEW request \in SUBSET Facts, NEW current \in BOOLEAN,
             CreateCase(c, request, current) \/ Migrate(c)
      PROVE  /\ VersionsInv' /\ Frozen(revs, revs')
             /\ wf' = wf \/ wf'.version > wf.version
  BY <1>5, RequestStep DEF CreateCase, Migrate
<1>6. ASSUME NEW list \in RuleLists, SaveRules(list)
      PROVE  /\ VersionsInv' /\ Frozen(revs, revs')
             /\ wf' = wf \/ wf'.version > wf.version
  BY <1>6, RequestStep DEF SaveRules
<1>7. {} \in SUBSET Facts /\ TRUE \in BOOLEAN
  OBVIOUS
<1>8. QED
  BY <1>1, <1>2, <1>3, <1>4, <1>5, <1>6, <1>7 DEF Next

LEMMA VersionsInductive ==
  ASSUME ~Overlap
  PROVE  Spec => []VersionsInv
<1>1. Init => VersionsInv
  BY InitVersions
<1>2. VersionsInv /\ [Next]_vars => VersionsInv'
  BY VersionsStep
<1>3. QED
  BY <1>1, <1>2, PTL DEF Spec

-----------------------------------------------------------------------------
(* Induction: of the numbers that miss a set there is a least one.         *)
LEMMA Upward ==
  ASSUME NEW n \in Nat, NEW T, 0 \in T, \A k \in 1..n : k - 1 \in T => k \in T
  PROVE  \A k \in 0..n : k \in T
<1> DEFINE Missing == {k \in 0..n : k \notin T}
<1>1. SUFFICES ASSUME Missing # {} PROVE FALSE
  BY <1>1
<1>2. Missing \in SUBSET Nat
  OBVIOUS
<1>3. PICK m \in Missing : \A k \in Missing : ~ (<<k, m>> \in OpToRel(<, Nat))
  <2> HIDE DEF Missing
  <2>1. QED
    BY <1>1, <1>2, NatLessThanWellFounded, WFMin, Zenon
<1>4. \A k \in Missing : ~(k < m)
  BY <1>2, <1>3 DEF OpToRel
<1>5. m \in 0..n /\ m \notin T
  BY <1>3
<1>6. m \in 1..n /\ m - 1 \in 0..n /\ m - 1 < m
  BY <1>5
<1>7. m - 1 \in T
  <2> HIDE DEF Missing
  <2>1. m - 1 \notin Missing
    BY <1>4, <1>6
  <2>2. QED
    BY <1>6, <2>1 DEF Missing
<1>8. QED
  BY <1>5, <1>6, <1>7

LEMMA MaxIs ==
  ASSUME NEW n \in Nat, NEW s \in SUBSET (1..n), n \in s
  PROVE  Max(s) = n
<1>1. \A y \in s : n >= y
  OBVIOUS
<1>2. Max(s) \in s /\ \A y \in s : Max(s) >= y
  BY <1>1 DEF Max
<1>3. PICK m : m = Max(s)
  OBVIOUS
<1>4. m \in 1..n /\ n >= m /\ m >= n
  BY <1>1, <1>2, <1>3
<1>5. QED
  BY <1>3, <1>4

(* A step function folded over 1..n, from the greatest element down.       *)
IsFold(it, n, base, F) ==
    \A s \in SUBSET (1..n) :
        it[s] = IF s = {} THEN base ELSE F[<<it[s \ {Max(s)}], Max(s)>>]

LEMMA FoldsExist ==
  ASSUME NEW n \in Nat, NEW A, NEW base \in A, NEW F \in [A \X (1..n) -> A]
  PROVE  \E it \in [SUBSET (1..n) -> A] : IsFold(it, n, base, F)
<1> DEFINE T == {k \in 0..n : \E it \in [SUBSET (1..k) -> A] : IsFold(it, k, base, F)}
<1>1. 0 \in T
  <2>1. PICK it : it = [s \in SUBSET (1..0) |-> base]
    OBVIOUS
  <2>2. it \in [SUBSET (1..0) -> A] /\ IsFold(it, 0, base, F)
    BY <2>1 DEF IsFold
  <2>3. 0 \in 0..n
    OBVIOUS
  <2>4. QED
    BY <2>2, <2>3, Zenon
<1>2. ASSUME NEW k \in 1..n, k - 1 \in T
      PROVE  k \in T
  <2>1. PICK it \in [SUBSET (1..(k - 1)) -> A] : IsFold(it, k - 1, base, F)
    BY <1>2
  <2>2. \A s \in SUBSET (1..k) : /\ k \notin s => s \in SUBSET (1..(k - 1))
                                 /\ s \ {k} \in SUBSET (1..(k - 1))
    OBVIOUS
  <2>3. PICK jt : jt = [s \in SUBSET (1..k) |-> IF k \notin s THEN it[s] ELSE F[<<it[s \ {k}], k>>]]
    OBVIOUS
  <2>4. \A s \in SUBSET (1..k) : jt[s] \in A
    <3>1. TAKE s \in SUBSET (1..k)
    <3>2. CASE k \notin s
      <4>1. jt[s] = it[s] /\ s \in SUBSET (1..(k - 1))
        BY <2>2, <2>3, <3>2
      <4>2. QED
        BY <4>1
    <3>3. CASE k \in s
      <4>1. jt[s] = F[<<it[s \ {k}], k>>] /\ s \ {k} \in SUBSET (1..(k - 1))
        BY <2>2, <2>3, <3>3
      <4>2. it[s \ {k}] \in A
        BY <4>1
      <4>3. QED
        BY <4>1, <4>2
    <3>4. QED
      BY <3>2, <3>3
  <2>5. jt \in [SUBSET (1..k) -> A]
    BY <2>3, <2>4
  <2>6. IsFold(jt, k, base, F)
    <3>1. SUFFICES ASSUME NEW s \in SUBSET (1..k)
                   PROVE  jt[s] = IF s = {} THEN base ELSE F[<<jt[s \ {Max(s)}], Max(s)>>]
      BY DEF IsFold
    <3>2. CASE k \notin s
      <4>1. jt[s] = it[s] /\ s \in SUBSET (1..(k - 1))
        BY <2>2, <2>3, <3>2
      <4>2. PICK r : r = s \ {Max(s)}
        OBVIOUS
      <4>3. r \in SUBSET (1..k) /\ k \notin r
        BY <3>2, <4>2
      <4>4. jt[r] = it[r]
        BY <2>3, <4>3
      <4>5. it[s] = IF s = {} THEN base ELSE F[<<it[r], Max(s)>>]
        BY <2>1, <4>1, <4>2 DEF IsFold
      <4>6. QED
        BY <4>1, <4>2, <4>4, <4>5
    <3>3. CASE k \in s
      <4>1. Max(s) = k
        BY <3>3, MaxIs
      <4>2. PICK r : r = s \ {k}
        OBVIOUS
      <4>3. r \in SUBSET (1..k) /\ k \notin r
        BY <4>2
      <4>4. jt[r] = it[r] /\ jt[s] = F[<<it[r], k>>]
        BY <2>3, <3>3, <4>2, <4>3
      <4>5. QED
        BY <3>3, <4>1, <4>2, <4>4
    <3>4. QED
      BY <3>2, <3>3
  <2>7. k \in 0..n
    OBVIOUS
  <2>8. QED
    BY <2>5, <2>6, <2>7, Zenon
<1>3. \A k \in 0..n : k \in T
  <2> HIDE DEF T
  <2>1. QED
    BY <1>1, <1>2, Upward
<1>4. n \in T
  <2> HIDE DEF T
  <2>1. QED
    BY <1>3
<1>5. QED
  BY <1>4

Unfolds(it, n, A, base, F) ==
    /\ it[{}] = base
    /\ \A s \in SUBSET (1..n) : s # {} /\ it[s \ {Max(s)}] \in A =>
          it[s] = F[<<it[s \ {Max(s)}], Max(s)>>]

IsRun(acc, n, base, last, F) ==
    acc[0] = base /\ acc[n] = last /\ \A k \in 1..n : acc[k] = F[<<acc[k - 1], k>>]

(* A fold over 1..n is a run of n steps.                                   *)
LEMMA FoldRuns ==
  ASSUME NEW n \in Nat, NEW A, NEW base \in A, NEW F \in [A \X (1..n) -> A], NEW it,
         Unfolds(it, n, A, base, F)
  PROVE  \E acc \in [0..n -> A] : IsRun(acc, n, base, it[1..n], F)
<1> DEFINE T == {k \in 0..n : it[1..k] \in A}
<1>1. ASSUME NEW k \in 1..n, it[1..(k - 1)] \in A
      PROVE  it[1..k] = F[<<it[1..(k - 1)], k>>] /\ it[1..k] \in A
  <2>1. PICK s : s = 1..k
    OBVIOUS
  <2>2. s \in SUBSET (1..n) /\ s \in SUBSET (1..k) /\ k \in s /\ s # {}
    BY <2>1
  <2>3. Max(s) = k
    BY <2>2, MaxIs
  <2>4. s \ {Max(s)} = 1..(k - 1)
    BY <2>1, <2>3
  <2>5. it[s] = F[<<it[1..(k - 1)], k>>]
    BY <1>1, <2>2, <2>3, <2>4 DEF Unfolds
  <2>6. QED
    BY <1>1, <2>1, <2>5
<1>2. 1..0 = {}
  OBVIOUS
<1>3. 0 \in T
  BY <1>2 DEF Unfolds
<1>4. ASSUME NEW k \in 1..n, k - 1 \in T
      PROVE  k \in T
  <2>1. k \in 0..n /\ it[1..(k - 1)] \in A
    BY <1>4
  <2>2. QED
    BY <1>1, <2>1
<1>5. \A k \in 0..n : k \in T
  <2> HIDE DEF T
  <2>1. QED
    BY <1>3, <1>4, Upward
<1>6. PICK acc : acc = [k \in 0..n |-> it[1..k]]
  OBVIOUS
<1>7. acc \in [0..n -> A] /\ acc[0] = base /\ acc[n] = it[1..n]
  BY <1>2, <1>5, <1>6 DEF Unfolds
<1>8. ASSUME NEW k \in 1..n
      PROVE  acc[k] = F[<<acc[k - 1], k>>]
  <2>1. k - 1 \in 0..n /\ k \in 0..n
    OBVIOUS
  <2>2. it[1..(k - 1)] \in A
    BY <1>5, <2>1
  <2>3. QED
    BY <1>1, <1>6, <2>1, <2>2
<1>9. QED
  BY <1>7, <1>8 DEF IsRun

LEMMA MaxIn ==
  ASSUME NEW n \in Nat, NEW s \in SUBSET (1..n), s # {}
  PROVE  Max(s) \in s
<1> DEFINE T == {n - k : k \in s}
<1>0. \A k \in s : k \in Nat /\ n - k \in Nat
  OBVIOUS
<1>1. T \in SUBSET Nat /\ T # {}
  BY <1>0
<1>2. PICK m \in T : \A k \in T : ~ (<<k, m>> \in OpToRel(<, Nat))
  <2> HIDE DEF T
  <2>1. QED
    BY <1>1, NatLessThanWellFounded, WFMin, Zenon
<1>3. \A k \in T : ~(k < m)
  BY <1>1, <1>2 DEF OpToRel
<1>4. PICK x \in s : m = n - x
  BY <1>2
<1>5. \A y \in s : ~(n - y < n - x)
  BY <1>3, <1>4
<1>6. ASSUME NEW y \in s
      PROVE  x >= y
  <2>1. ~(n - y < n - x)
    BY <1>5
  <2>2. x \in Nat /\ y \in Nat
    BY <1>0
  <2>3. QED
    BY <2>1, <2>2
<1>7. QED
  BY <1>6 DEF Max

-----------------------------------------------------------------------------
(* The folds of the model, as runs over the actions or the rules.          *)
RequireRun(acc, approvals, actions, last) ==
    /\ acc[0] = approvals /\ acc[Len(actions)] = last
    /\ \A k \in 1..Len(actions) : acc[k] = Required(acc[k - 1], actions[k])

LEMMA RequireAllRuns ==
  ASSUME NEW approvals \in SUBSET Approvals, NEW rule, rule.actions \in Seq(Approvals)
  PROVE  \E acc \in [0..Len(rule.actions) -> SUBSET Approvals] :
             RequireRun(acc, approvals, rule.actions, RequireAll(approvals, rule))
<1> DEFINE A == SUBSET Approvals
<1>1. PICK n \in Nat : n = Len(rule.actions) /\ DOMAIN rule.actions = 1..n
  OBVIOUS
<1>2. PICK F : F = [p \in A \X (1..n) |-> Required(p[1], rule.actions[p[2]])]
  OBVIOUS
<1>3. \A k \in 1..n : rule.actions[k] \in Approvals
  BY <1>1
<1>4. F \in [A \X (1..n) -> A]
  BY <1>2, <1>3 DEF Required
<1>5. \A x \in A, k \in 1..n : F[<<x, k>>] = Required(x, rule.actions[k])
  BY <1>2
<1>6. PICK it \in [SUBSET (1..n) -> A] : IsFold(it, n, approvals, F)
  BY <1>4, FoldsExist
<1> HIDE DEF A
<1>7. it = [s \in SUBSET DOMAIN rule.actions |->
              IF s = {} THEN approvals ELSE Required(it[s \ {Max(s)}], rule.actions[Max(s)])]
  <2>1. ASSUME NEW s \in SUBSET (1..n), s # {}
        PROVE  it[s] = Required(it[s \ {Max(s)}], rule.actions[Max(s)])
    <3>1. it[s \ {Max(s)}] \in A
      BY <1>6
    <3>2. Max(s) \in 1..n
      BY <2>1, MaxIn
    <3>3. it[s] = F[<<it[s \ {Max(s)}], Max(s)>>]
      BY <1>6, <2>1 DEF IsFold
    <3>4. QED
      BY <1>5, <3>1, <3>2, <3>3
  <2>2. it[{}] = approvals
    BY <1>6 DEF IsFold
  <2>3. QED
    BY <1>1, <1>6, <2>1, <2>2
<1>8. PICK jt : /\ jt = [s \in SUBSET DOMAIN rule.actions |->
                    IF s = {} THEN approvals
                    ELSE Required(jt[s \ {Max(s)}], rule.actions[Max(s)])]
                /\ RequireAll(approvals, rule) = jt[DOMAIN rule.actions]
  <2> HIDE DEF Required, Max
  <2>1. QED
    BY <1>7 DEF RequireAll, FoldLeft, MapThenFoldSet
<1>9. jt[{}] = approvals
  BY <1>8
<1>10. ASSUME NEW s \in SUBSET (1..n), s # {}, jt[s \ {Max(s)}] \in A
       PROVE  jt[s] = F[<<jt[s \ {Max(s)}], Max(s)>>]
  <2>1. jt[s] = Required(jt[s \ {Max(s)}], rule.actions[Max(s)])
    BY <1>1, <1>8, <1>10
  <2>2. Max(s) \in 1..n
    BY <1>10, MaxIn
  <2>3. QED
    BY <1>5, <1>10, <2>1, <2>2
<1>11. approvals \in A
  BY DEF A
<1>12. Unfolds(jt, n, A, approvals, F)
  BY <1>9, <1>10 DEF Unfolds
<1>13. PICK acc \in [0..n -> A] : IsRun(acc, n, approvals, jt[1..n], F)
  BY <1>4, <1>11, <1>12, FoldRuns
<1>14. \A k \in 1..n : acc[k] = Required(acc[k - 1], rule.actions[k])
  <2>1. TAKE k \in 1..n
  <2>2. k - 1 \in 0..n
    OBVIOUS
  <2>3. acc[k - 1] \in A
    BY <1>13, <2>2
  <2>4. QED
    BY <1>5, <1>13, <2>3 DEF IsRun
<1>15. QED
  BY <1>1, <1>8, <1>13, <1>14 DEF A, IsRun, RequireRun

LEMMA EvaluateRuns ==
  ASSUME NEW base \in SUBSET Approvals, NEW list \in Seq(Rules)
  PROVE  \E acc \in [0..Len(list) -> SUBSET Approvals] :
             /\ acc[0] = base /\ acc[Len(list)] = FoldLeft(RequireAll, base, list)
             /\ \A k \in 1..Len(list) : acc[k] = RequireAll(acc[k - 1], list[k])
<1> DEFINE A == SUBSET Approvals
<1>1. PICK n \in Nat : n = Len(list) /\ DOMAIN list = 1..n
  OBVIOUS
<1>2. PICK F : F = [p \in A \X (1..n) |-> RequireAll(p[1], list[p[2]])]
  OBVIOUS
<1>3. \A k \in 1..n : list[k].actions \in Seq(Approvals)
  <2>1. \A k \in 1..n : list[k] \in Rules
    BY <1>1
  <2>2. QED
    BY <2>1 DEF Rules
<1>4. \A x \in A, k \in 1..n : RequireAll(x, list[k]) \in A
  <2>1. TAKE x \in A, k \in 1..n
  <2>2. PICK acc \in [0..Len(list[k].actions) -> SUBSET Approvals] :
            acc[Len(list[k].actions)] = RequireAll(x, list[k])
    BY <1>3, RequireAllRuns DEF RequireRun
  <2>3. Len(list[k].actions) \in 0..Len(list[k].actions)
    BY <1>3
  <2>4. QED
    BY <2>2, <2>3
<1>5. \A x \in A, k \in 1..n : F[<<x, k>>] = RequireAll(x, list[k])
  BY <1>2
<1>5a. F \in [A \X (1..n) -> A]
  BY <1>2, <1>4
<1>6. PICK it \in [SUBSET (1..n) -> A] : IsFold(it, n, base, F)
  BY <1>5a, FoldsExist
<1> HIDE DEF A
<1>7. it = [s \in SUBSET DOMAIN list |->
              IF s = {} THEN base ELSE RequireAll(it[s \ {Max(s)}], list[Max(s)])]
  <2>1. ASSUME NEW s \in SUBSET (1..n), s # {}
        PROVE  it[s] = RequireAll(it[s \ {Max(s)}], list[Max(s)])
    <3>1. it[s \ {Max(s)}] \in A
      BY <1>6
    <3>2. Max(s) \in 1..n
      BY <2>1, MaxIn
    <3>3. it[s] = F[<<it[s \ {Max(s)}], Max(s)>>]
      BY <1>6, <2>1 DEF IsFold
    <3>4. QED
      BY <1>5, <3>1, <3>2, <3>3
  <2>2. it[{}] = base
    BY <1>6 DEF IsFold
  <2>3. QED
    BY <1>1, <1>6, <2>1, <2>2
<1>8. PICK jt : /\ jt = [s \in SUBSET DOMAIN list |->
                    IF s = {} THEN base
                    ELSE RequireAll(jt[s \ {Max(s)}], list[Max(s)])]
                /\ FoldLeft(RequireAll, base, list) = jt[DOMAIN list]
  <2> HIDE DEF RequireAll, Max
  <2>1. QED
    BY <1>7 DEF FoldLeft, MapThenFoldSet
<1>9. jt[{}] = base
  BY <1>8
<1>10. ASSUME NEW s \in SUBSET (1..n), s # {}, jt[s \ {Max(s)}] \in A
       PROVE  jt[s] = F[<<jt[s \ {Max(s)}], Max(s)>>]
  <2>1. jt[s] = RequireAll(jt[s \ {Max(s)}], list[Max(s)])
    BY <1>1, <1>8, <1>10
  <2>2. Max(s) \in 1..n
    BY <1>10, MaxIn
  <2>3. QED
    BY <1>5, <1>10, <2>1, <2>2
<1>11. base \in A
  BY DEF A
<1>12. Unfolds(jt, n, A, base, F)
  BY <1>9, <1>10 DEF Unfolds
<1>13. PICK acc \in [0..n -> A] : IsRun(acc, n, base, jt[1..n], F)
  BY <1>5a, <1>11, <1>12, FoldRuns
<1>14. \A k \in 1..n : acc[k] = RequireAll(acc[k - 1], list[k])
  <2>1. TAKE k \in 1..n
  <2>2. k - 1 \in 0..n
    OBVIOUS
  <2>3. acc[k - 1] \in A
    BY <1>13, <2>2
  <2>4. QED
    BY <1>5, <1>13, <2>3 DEF IsRun
<1>15. QED
  BY <1>1, <1>8, <1>13, <1>14 DEF A, IsRun

(* One rule of a list: it fires unless an earlier one has stopped the list *)
(* or its condition does not hold.                                         *)
Fire(acc, rule, request) ==
    IF acc.stopped \/ ~RuleMatches(rule, request) THEN acc
    ELSE [fired |-> Append(acc.fired, rule), stopped |-> rule.stop]

LEMMA FiredRuns ==
  ASSUME NEW list \in Seq(Rules), NEW request
  PROVE  \E acc \in [0..Len(list) -> [fired : Seq(Rules), stopped : BOOLEAN]] :
             /\ acc[0] = [fired |-> << >>, stopped |-> FALSE]
             /\ acc[Len(list)].fired = Fired(list, request)
             /\ \A k \in 1..Len(list) : acc[k] = Fire(acc[k - 1], list[k], request)
<1> DEFINE A == [fired : Seq(Rules), stopped : BOOLEAN]
           base == [fired |-> << >>, stopped |-> FALSE]
<1>1. PICK n \in Nat : n = Len(list) /\ DOMAIN list = 1..n
  OBVIOUS
<1>2. PICK F : F = [p \in A \X (1..n) |-> Fire(p[1], list[p[2]], request)]
  OBVIOUS
<1>3. \A k \in 1..n : list[k] \in Rules /\ list[k].stop \in BOOLEAN
  <2>1. \A k \in 1..n : list[k] \in Rules
    BY <1>1
  <2>2. QED
    BY <2>1 DEF Rules
<1>4. \A x \in A, k \in 1..n : Fire(x, list[k], request) \in A
  <2>1. TAKE x \in A, k \in 1..n
  <2>2. PICK rule \in Rules : rule = list[k] /\ rule.stop \in BOOLEAN
    BY <1>3
  <2>3. Append(x.fired, rule) \in Seq(Rules)
    OBVIOUS
  <2>4. QED
    BY <2>2, <2>3 DEF Fire
<1>5. \A x \in A, k \in 1..n : F[<<x, k>>] = Fire(x, list[k], request)
  BY <1>2
<1>5a. F \in [A \X (1..n) -> A]
  BY <1>2, <1>4
<1>11. base \in A
  OBVIOUS
<1> HIDE DEF A, base
<1>6. PICK it \in [SUBSET (1..n) -> A] : IsFold(it, n, base, F)
  BY <1>5a, <1>11, FoldsExist
<1>7. it = [s \in SUBSET DOMAIN list |->
              IF s = {} THEN base ELSE Fire(it[s \ {Max(s)}], list[Max(s)], request)]
  <2>1. ASSUME NEW s \in SUBSET (1..n), s # {}
        PROVE  it[s] = Fire(it[s \ {Max(s)}], list[Max(s)], request)
    <3>1. it[s \ {Max(s)}] \in A
      BY <1>6
    <3>2. Max(s) \in 1..n
      BY <2>1, MaxIn
    <3>3. it[s] = F[<<it[s \ {Max(s)}], Max(s)>>]
      BY <1>6, <2>1 DEF IsFold
    <3>4. QED
      BY <1>5, <3>1, <3>2, <3>3
  <2>2. it[{}] = base
    BY <1>6 DEF IsFold
  <2>3. QED
    BY <1>1, <1>6, <2>1, <2>2
<1>8. PICK jt : /\ jt = [s \in SUBSET DOMAIN list |->
                    IF s = {} THEN base
                    ELSE Fire(jt[s \ {Max(s)}], list[Max(s)], request)]
                /\ Fired(list, request) = jt[DOMAIN list].fired
  <2> HIDE DEF Max, RuleMatches
  <2>1. QED
    BY <1>7 DEF Fired, Fire, FoldLeft, MapThenFoldSet, base
<1>9. jt[{}] = base
  BY <1>8
<1>10. ASSUME NEW s \in SUBSET (1..n), s # {}, jt[s \ {Max(s)}] \in A
       PROVE  jt[s] = F[<<jt[s \ {Max(s)}], Max(s)>>]
  <2>1. jt[s] = Fire(jt[s \ {Max(s)}], list[Max(s)], request)
    BY <1>1, <1>8, <1>10
  <2>2. Max(s) \in 1..n
    BY <1>10, MaxIn
  <2>3. QED
    BY <1>5, <1>10, <2>1, <2>2
<1>12. Unfolds(jt, n, A, base, F)
  BY <1>9, <1>10 DEF Unfolds
<1>13. PICK acc \in [0..n -> A] : IsRun(acc, n, base, jt[1..n], F)
  BY <1>5a, <1>11, <1>12, FoldRuns
<1>14. \A k \in 1..n : acc[k] = Fire(acc[k - 1], list[k], request)
  <2>1. TAKE k \in 1..n
  <2>2. k - 1 \in 0..n
    OBVIOUS
  <2>3. acc[k - 1] \in A
    BY <1>13, <2>2
  <2>4. QED
    BY <1>5, <1>13, <2>3 DEF IsRun
<1>15. acc[n].fired = Fired(list, request)
  BY <1>1, <1>8, <1>13 DEF IsRun
<1>16. QED
  BY <1>1, <1>13, <1>14, <1>15 DEF A, base, IsRun

LEMMA AppendRange ==
  ASSUME NEW S, NEW s \in Seq(S), NEW x \in S
  PROVE  Range(Append(s, x)) = Range(s) \cup {x}
<1>1. PICK n \in Nat : n = Len(s) /\ DOMAIN s = 1..n
  OBVIOUS
<1>2. PICK t : t = Append(s, x)
  OBVIOUS
<1>3. DOMAIN t = 1..(n + 1) /\ t[n + 1] = x /\ \A i \in 1..n : t[i] = s[i]
  BY <1>1, <1>2
<1>4. 1..(n + 1) = 1..n \cup {n + 1}
  OBVIOUS
<1>5. QED
  BY <1>1, <1>2, <1>3, <1>4 DEF Range

-----------------------------------------------------------------------------
(* What the folds compute: approvals that are collected on top of a base.  *)
Single(approvals) == \A x, y \in approvals : x.stage = y.stage /\ x.key = y.key => x = y

Collects(approvals, base, extra) ==
    /\ base \subseteq approvals
    /\ IsFiniteSet(approvals) /\ Single(approvals)
    /\ Keys(approvals) = Keys(base) \cup Keys(extra)

LEMMA RequiredCollects ==
  ASSUME NEW base \in SUBSET Approvals, NEW approvals \in SUBSET Approvals, NEW extra,
         Collects(approvals, base, extra), NEW action \in Approvals
  PROVE  Collects(Required(approvals, action), base, extra \cup {action})
<1>1. Keys(extra \cup {action}) = Keys(extra) \cup {<<action.stage, action.key>>}
  BY DEF Keys
<1>2. CASE \E x \in approvals : x.stage = action.stage /\ x.key = action.key
  <2>1. Required(approvals, action) = approvals
    BY <1>2 DEF Required
  <2>2. <<action.stage, action.key>> \in Keys(approvals)
    BY <1>2 DEF Keys
  <2>3. QED
    BY <1>1, <2>1, <2>2 DEF Collects
<1>3. CASE ~(\E x \in approvals : x.stage = action.stage /\ x.key = action.key)
  <2>1. PICK r : r = Required(approvals, action) /\ r = approvals \cup {action}
    BY <1>3 DEF Required
  <2>2. IsFiniteSet(r)
    BY <2>1, FS_AddElement DEF Collects
  <2>3. Single(r)
    BY <1>3, <2>1 DEF Single, Collects
  <2>4. Keys(r) = Keys(approvals) \cup {<<action.stage, action.key>>}
    BY <2>1 DEF Keys
  <2>5. QED
    BY <1>1, <2>1, <2>2, <2>3, <2>4 DEF Collects
<1>4. QED
  BY <1>2, <1>3

LEMMA RequireAllCollects ==
  ASSUME NEW base \in SUBSET Approvals, NEW approvals \in SUBSET Approvals, NEW extra,
         Collects(approvals, base, extra), NEW rule, rule.actions \in Seq(Approvals)
  PROVE  /\ RequireAll(approvals, rule) \in SUBSET Approvals
         /\ Collects(RequireAll(approvals, rule), base, extra \cup Range(rule.actions))
<1>1. PICK n \in Nat : n = Len(rule.actions) /\ DOMAIN rule.actions = 1..n
  OBVIOUS
<1>2. PICK acc \in [0..n -> SUBSET Approvals] :
          /\ acc[0] = approvals /\ acc[n] = RequireAll(approvals, rule)
          /\ \A k \in 1..n : acc[k] = Required(acc[k - 1], rule.actions[k])
  <2>1. PICK acc \in [0..Len(rule.actions) -> SUBSET Approvals] :
            RequireRun(acc, approvals, rule.actions, RequireAll(approvals, rule))
    BY RequireAllRuns
  <2>2. QED
    BY <1>1, <2>1 DEF RequireRun
<1> DEFINE Seen(k) == extra \cup {rule.actions[i] : i \in 1..k}
           T == {k \in 0..n : Collects(acc[k], base, Seen(k))}
<1>3. 0 \in T
  <2>1. Seen(0) = extra
    OBVIOUS
  <2>2. QED
    BY <1>2, <2>1
<1>4. ASSUME NEW k \in 1..n, k - 1 \in T
      PROVE  k \in T
  <2>1. k - 1 \in 0..n /\ k \in 0..n /\ rule.actions[k] \in Approvals
    BY <1>1
  <2>2. acc[k - 1] \in SUBSET Approvals /\ Collects(acc[k - 1], base, Seen(k - 1))
    BY <1>2, <1>4, <2>1
  <2>3. Seen(k) = Seen(k - 1) \cup {rule.actions[k]}
    <3>1. 1..k = 1..(k - 1) \cup {k}
      OBVIOUS
    <3>2. QED
      BY <3>1
  <2>4. Collects(acc[k], base, Seen(k))
    <3> HIDE DEF Seen
    <3>1. acc[k] = Required(acc[k - 1], rule.actions[k])
      BY <1>2
    <3>2. QED
      BY <2>1, <2>2, <2>3, <3>1, RequiredCollects
  <2>5. QED
    BY <2>1, <2>4
<1>5. \A k \in 0..n : k \in T
  <2> HIDE DEF T
  <2>1. QED
    BY <1>3, <1>4, Upward
<1>6. n \in 0..n
  OBVIOUS
<1>7. Collects(acc[n], base, Seen(n)) /\ acc[n] \in SUBSET Approvals
  BY <1>2, <1>5, <1>6
<1>8. Seen(n) = extra \cup Range(rule.actions)
  BY <1>1 DEF Range
<1>9. QED
  BY <1>2, <1>7, <1>8

(* The approvals of a fold over the rules that fire.                       *)
LEMMA EvaluateCollects ==
  ASSUME NEW base \in SUBSET Approvals, IsFiniteSet(base), Single(base), NEW list \in Seq(Rules)
  PROVE  Collects(FoldLeft(RequireAll, base, list), base,
                  UNION {Range(r.actions) : r \in Range(list)})
<1>1. PICK n \in Nat : n = Len(list) /\ DOMAIN list = 1..n
  OBVIOUS
<1>2. PICK acc \in [0..n -> SUBSET Approvals] :
          /\ acc[0] = base /\ acc[n] = FoldLeft(RequireAll, base, list)
          /\ \A k \in 1..n : acc[k] = RequireAll(acc[k - 1], list[k])
  BY <1>1, EvaluateRuns
<1> DEFINE Seen(k) == UNION {Range(list[i].actions) : i \in 1..k}
           T == {k \in 0..n : Collects(acc[k], base, Seen(k))}
<1>3. 0 \in T
  <2>1. Seen(0) = {}
    OBVIOUS
  <2>2. Collects(base, base, {})
    BY DEF Collects, Keys
  <2>3. Collects(acc[0], base, Seen(0))
    <3> HIDE DEF Seen
    <3>1. acc[0] = base
      BY <1>2
    <3>2. QED
      BY <2>1, <2>2, <3>1
  <2>4. 0 \in 0..n
    OBVIOUS
  <2>5. QED
    BY <2>3, <2>4
<1>4. ASSUME NEW k \in 1..n, k - 1 \in T
      PROVE  k \in T
  <2>1. k - 1 \in 0..n /\ k \in 0..n /\ list[k] \in Rules
    BY <1>1
  <2>2. acc[k - 1] \in SUBSET Approvals /\ Collects(acc[k - 1], base, Seen(k - 1))
    BY <1>2, <1>4, <2>1
  <2>3. Seen(k) = Seen(k - 1) \cup Range(list[k].actions)
    <3>1. 1..k = 1..(k - 1) \cup {k}
      OBVIOUS
    <3>2. QED
      BY <3>1
  <2>4. Collects(acc[k], base, Seen(k))
    <3> HIDE DEF Seen
    <3>1. acc[k] = RequireAll(acc[k - 1], list[k])
      BY <1>2
    <3>2. list[k].actions \in Seq(Approvals)
      BY <2>1 DEF Rules
    <3>3. PICK a : a = acc[k - 1] /\ a \in SUBSET Approvals
      BY <2>2
    <3>4. PICK extra : extra = Seen(k - 1)
      OBVIOUS
    <3>5. Collects(a, base, extra)
      BY <2>2, <3>3, <3>4
    <3>6. Collects(RequireAll(a, list[k]), base, extra \cup Range(list[k].actions))
      BY <3>2, <3>3, <3>5, RequireAllCollects
    <3>7. QED
      BY <2>3, <3>1, <3>3, <3>4, <3>6
  <2>5. QED
    BY <2>1, <2>4
<1>5. \A k \in 0..n : k \in T
  <2> HIDE DEF T
  <2>1. QED
    BY <1>3, <1>4, Upward
<1>6. n \in 0..n
  OBVIOUS
<1>7. Collects(acc[n], base, Seen(n))
  BY <1>5, <1>6
<1>8. Seen(n) = UNION {Range(r.actions) : r \in Range(list)}
  BY <1>1 DEF Range
<1>9. QED
  BY <1>2, <1>7, <1>8

(* The rules that fire are those that the playground explains.             *)
LEMMA FiredIsExplained ==
  ASSUME NEW list \in Seq(Rules), NEW request
  PROVE  Fired(list, request) \in Seq(Rules) /\ Range(Fired(list, request)) = Preview(list, request)
<1>1. PICK n \in Nat : n = Len(list) /\ DOMAIN list = 1..n
  OBVIOUS
<1>2. PICK acc \in [0..n -> [fired : Seq(Rules), stopped : BOOLEAN]] :
          /\ acc[0] = [fired |-> << >>, stopped |-> FALSE]
          /\ acc[n].fired = Fired(list, request)
          /\ \A k \in 1..n : acc[k] = Fire(acc[k - 1], list[k], request)
  BY <1>1, FiredRuns
<1> DEFINE M(k) == {i \in 1..k : RuleMatches(list[i], request)}
           P(k) == {j \in M(k) : \A m \in M(k) : list[m].stop => j <= m}
           Same(k) == /\ Range(acc[k].fired) = {list[i] : i \in P(k)}
                      /\ acc[k].stopped <=> \E m \in M(k) : list[m].stop
           T == {k \in 0..n : Same(k)}
<1>3. 0 \in T
  <2>1. M(0) = {} /\ P(0) = {}
    OBVIOUS
  <2>2. Range(<< >>) = {}
    BY DEF Range
  <2>3. acc[0].fired = << >> /\ acc[0].stopped = FALSE
    BY <1>2
  <2>4. QED
    BY <2>1, <2>2, <2>3
<1>4. ASSUME NEW k \in 1..n, k - 1 \in T
      PROVE  k \in T
  <2>1. k - 1 \in 0..n /\ k \in 0..n /\ list[k] \in Rules /\ list[k].stop \in BOOLEAN
    <3>1. list[k] \in Rules
      BY <1>1
    <3>2. QED
      BY <3>1 DEF Rules
  <2>2. /\ acc[k - 1].fired \in Seq(Rules) /\ acc[k - 1].stopped \in BOOLEAN
        /\ Same(k - 1) /\ acc[k] = Fire(acc[k - 1], list[k], request)
    BY <1>2, <1>4, <2>1
  <2>3. M(k) = M(k - 1) \cup (IF RuleMatches(list[k], request) THEN {k} ELSE {})
    <3>1. 1..k = 1..(k - 1) \cup {k}
      OBVIOUS
    <3>2. QED
      BY <3>1
  <2>4. \A i \in M(k - 1) : i \in Nat /\ i < k
    OBVIOUS
  <2> HIDE DEF M
  <2>5. CASE ~RuleMatches(list[k], request)
    <3>1. acc[k] = acc[k - 1] /\ M(k) = M(k - 1)
      BY <2>2, <2>3, <2>5 DEF Fire
    <3>2. QED
      BY <2>1, <2>2, <3>1
  <2>6. CASE RuleMatches(list[k], request) /\ acc[k - 1].stopped
    <3>1. acc[k] = acc[k - 1]
      BY <2>2, <2>6 DEF Fire
    <3>2. PICK m \in M(k - 1) : list[m].stop
      BY <2>2, <2>6
    <3>3. M(k) = M(k - 1) \cup {k} /\ ~(k <= m)
      BY <2>3, <2>4, <2>6, <3>2
    <3>4. P(k) = P(k - 1)
      BY <2>4, <3>2, <3>3
    <3>5. \E i \in M(k) : list[i].stop
      BY <3>2, <3>3
    <3>6. QED
      BY <2>1, <2>2, <2>6, <3>1, <3>4, <3>5
  <2>7. CASE RuleMatches(list[k], request) /\ ~acc[k - 1].stopped
    <3>1. acc[k].fired = Append(acc[k - 1].fired, list[k]) /\ acc[k].stopped = list[k].stop
      BY <2>2, <2>7 DEF Fire
    <3>2. M(k) = M(k - 1) \cup {k} /\ \A m \in M(k - 1) : ~list[m].stop
      BY <2>2, <2>3, <2>7
    <3>3. P(k - 1) = M(k - 1)
      BY <3>2
    <3>4. P(k) = M(k - 1) \cup {k}
      BY <2>4, <3>2
    <3>5. Range(acc[k].fired) = Range(acc[k - 1].fired) \cup {list[k]}
      <4>1. PICK s \in Seq(Rules) : s = acc[k - 1].fired
        BY <2>2
      <4>2. Range(Append(s, list[k])) = Range(s) \cup {list[k]}
        BY <2>1, AppendRange
      <4>3. QED
        BY <3>1, <4>1, <4>2
    <3>6. \E m \in M(k) : list[m].stop <=> list[k].stop
      BY <3>2
    <3>7. Range(acc[k].fired) = {list[i] : i \in P(k)}
      BY <2>2, <3>3, <3>4, <3>5
    <3>8. acc[k].stopped <=> \E m \in M(k) : list[m].stop
      BY <3>1, <3>2
    <3>9. QED
      BY <2>1, <3>7, <3>8
  <2>8. QED
    BY <2>2, <2>5, <2>6, <2>7
<1>5. \A k \in 0..n : k \in T
  <2> HIDE DEF T
  <2>1. QED
    BY <1>3, <1>4, Upward
<1>6. n \in 0..n
  OBVIOUS
<1>7. Same(n) /\ acc[n].fired \in Seq(Rules)
  BY <1>2, <1>5, <1>6
<1>8. {list[i] : i \in P(n)} = Preview(list, request)
  BY <1>1 DEF Preview
<1>9. QED
  BY <1>2, <1>7, <1>8

-----------------------------------------------------------------------------
(* What holds although pages overlap.  A page may then hold a definition   *)
(* or a draft that has been replaced; the number that it takes is checked  *)
(* against the rows as they are.                                           *)
Distinct(R) ==
    /\ R \in Seq(Rowset)
    /\ \A i, j \in DOMAIN R : R[i].version = R[j].version => i = j
    /\ \A i, j \in DOMAIN R : R[i].status = "Draft" /\ R[j].status = "Draft" => i = j

RowsOK ==
    /\ wf \in Content0 /\ active \subseteq Content0
    /\ Distinct(revs)
    /\ page \in [Admins -> {page[a] : a \in Admins}]
    /\ \A a \in Admins : page[a] # None =>
          /\ page[a].wf \in Content0
          /\ page[a].draft # None => page[a].draft \in Ids /\ page[a].row \in Rowset

Snapshots == [from : Content0, approvals : SUBSET Approvals, request : SUBSET Facts,
              rules : RuleLists \cup {None}, migrated : BOOLEAN]

AsExplained(case) ==
    ~case.migrated =>
        /\ case.from.config.approvals \subseteq case.approvals
        /\ Keys(case.approvals) = Keys(case.from.config.approvals) \cup Keys(Explained(case))
        /\ Cardinality(case.approvals) = Cardinality(Keys(case.approvals))

SnapshotsOK ==
    /\ rules \in RuleLists \cup {None}
    /\ cases \in [Cases -> {cases[c] : c \in Cases}]
    /\ \A c \in Cases : cases[c] # None => cases[c] \in Snapshots /\ AsExplained(cases[c])

RowsInv == RowsOK /\ SnapshotsOK

LEMMA EnsuredDistinct ==
  ASSUME NEW w \in Content0, NEW R, Distinct(R), NEW E, E = Ensured(R, w)
  PROVE  /\ Distinct(E) /\ DOMAIN R \subseteq DOMAIN E
         /\ AtVersion(E, w.version) # {} /\ DraftsOf(E) = DraftsOf(R)
<1> DEFINE row == Row(w.version, "Published", w.config)
<1>0. R \in Seq(Rowset) /\ row \in Rowset
  BY DEF Distinct, Row, Rowset, Content0
<1>1. CASE AtVersion(R, w.version) # {}
  BY <1>1 DEF Ensured
<1>2. CASE AtVersion(R, w.version) = {}
  <2>1. E = Append(R, row) /\ row.version = w.version /\ row.status = "Published"
    BY <1>2 DEF Ensured, Row
  <2> HIDE DEF row
  <2>2. /\ E \in Seq(Rowset)
        /\ DOMAIN E = 1..Len(R) + 1 /\ DOMAIN R = 1..Len(R) /\ Len(R) \in Nat
        /\ \A i \in DOMAIN R : E[i] = R[i]
        /\ E[Len(R) + 1] = row
    BY <1>0, <2>1
  <2>3. \A i \in DOMAIN R : R[i].version # row.version
    BY <1>2, <2>1 DEF AtVersion
  <2>4. \A i, j \in DOMAIN E : E[i].version = E[j].version => i = j
    BY <2>2, <2>3 DEF Distinct
  <2>5. \A i, j \in DOMAIN E : E[i].status = "Draft" /\ E[j].status = "Draft" => i = j
    BY <2>1, <2>2 DEF Distinct
  <2>6. AtVersion(E, w.version) # {}
    BY <2>1, <2>2 DEF AtVersion
  <2>7. DraftsOf(E) = DraftsOf(R)
    BY <2>1, <2>2 DEF DraftsOf
  <2>8. QED
    BY <2>2, <2>4, <2>5, <2>6, <2>7 DEF Distinct
<1>3. QED
  BY <1>1, <1>2

(* A row is added or replaced, under a number that no other row has.       *)
LEMMA AppendDistinct ==
  ASSUME NEW R, Distinct(R), NEW row \in Rowset, AtVersion(R, row.version) = {},
         DraftsOf(R) = {}
  PROVE  Distinct(Append(R, row)) /\ DOMAIN R \subseteq DOMAIN Append(R, row)
<1>1. PICK E : E = Append(R, row)
  OBVIOUS
<1>2. /\ E \in Seq(Rowset)
      /\ DOMAIN E = 1..Len(R) + 1 /\ DOMAIN R = 1..Len(R) /\ Len(R) \in Nat
      /\ \A i \in DOMAIN R : E[i] = R[i]
      /\ E[Len(R) + 1] = row
  BY <1>1 DEF Distinct
<1>3. \A i \in DOMAIN R : R[i].version # row.version /\ R[i].status # "Draft"
  BY DEF AtVersion, DraftsOf
<1>4. \A i, j \in DOMAIN E : E[i].version = E[j].version => i = j
  BY <1>2, <1>3 DEF Distinct
<1>5. \A i, j \in DOMAIN E : E[i].status = "Draft" /\ E[j].status = "Draft" => i = j
  BY <1>2, <1>3
<1>6. QED
  BY <1>1, <1>2, <1>4, <1>5 DEF Distinct

LEMMA ReplaceDistinct ==
  ASSUME NEW R, Distinct(R), NEW d \in DOMAIN R, NEW row \in Rowset,
         AtVersion(R, row.version) \subseteq {d},
         row.status = "Draft" => DraftsOf(R) \subseteq {d}
  PROVE  Distinct([R EXCEPT ![d] = row])
<1>1. PICK E : E = [R EXCEPT ![d] = row]
  OBVIOUS
<1>2. E \in Seq(Rowset) /\ DOMAIN E = DOMAIN R
  <2>1. R \in Seq(Rowset) /\ d \in 1..Len(R)
    BY DEF Distinct
  <2>2. [R EXCEPT ![d] = row] \in Seq(Rowset)
    BY <2>1, ExceptSeq, Zenon
  <2>3. QED
    BY <1>1, <2>2
<1>3. E[d] = row /\ \A i \in DOMAIN R : i # d => E[i] = R[i]
  BY <1>1
<1>4. \A i \in DOMAIN R : i # d => R[i].version # row.version
  BY DEF AtVersion
<1>5. \A i \in DOMAIN R : i # d /\ row.status = "Draft" => R[i].status # "Draft"
  BY DEF DraftsOf
<1>6. \A i, j \in DOMAIN E : E[i].version = E[j].version => i = j
  BY <1>2, <1>3, <1>4 DEF Distinct
<1>7. \A i, j \in DOMAIN E : E[i].status = "Draft" /\ E[j].status = "Draft" => i = j
  BY <1>2, <1>3, <1>5 DEF Distinct
<1>8. QED
  BY <1>1, <1>2, <1>6, <1>7 DEF Distinct

LEMMA ArchivedDistinct ==
  ASSUME NEW R, Distinct(R), NEW A, A = Archived(R)
  PROVE  /\ Distinct(A) /\ DOMAIN A = DOMAIN R
         /\ \A v : AtVersion(A, v) = AtVersion(R, v)
<1>1. R \in Seq(Rowset) /\ \A i \in DOMAIN R : R[i] \in Rowset
  BY RowType DEF Distinct
<1>2. /\ DOMAIN A = DOMAIN R
      /\ \A i \in DOMAIN R : A[i] \in Rowset /\ A[i].version = R[i].version
      /\ \A i \in DOMAIN R : A[i].status = "Draft" <=> R[i].status = "Draft"
  BY <1>1 DEF Archived, Rowset
<1>3. A \in Seq(Rowset)
  <2>1. PICK n \in Nat : DOMAIN R = 1..n
    BY <1>1
  <2>2. A = [i \in 1..n |-> A[i]]
    BY <2>1 DEF Archived
  <2>3. QED
    BY <1>2, <2>1, <2>2
<1>4. \A v : AtVersion(A, v) = AtVersion(R, v)
  BY <1>2 DEF AtVersion
<1>5. QED
  BY <1>2, <1>3, <1>4 DEF Distinct

(* What is left of a page step once the rows are known to be distinct.     *)
LEMMA PageStepKeeps ==
  ASSUME RowsOK, NEW a \in Admins, Close(a), Distinct(revs'), Ids \subseteq DOMAIN revs',
         wf' \in Content0, active' = active \cup {wf'} \/ active' = active
  PROVE  RowsOK'
<1>1. page = [b \in Admins |-> page[b]]
  BY DEF RowsOK
<1>2. /\ page' = [b \in Admins |-> page'[b]] /\ page'[a] = None
      /\ \A b \in Admins : b # a => page'[b] = page[b]
  BY <1>1 DEF Close
<1>3. page' \in [Admins -> {page'[b] : b \in Admins}]
  BY <1>2
<1>4. \A b \in Admins : page'[b] # None => page'[b] = page[b] /\ page[b] # None
  BY <1>2
<1>5. Content0' = Content0 /\ Rowset' = Rowset /\ Ids \subseteq Ids'
  BY DEF Content0, Rowset, Ids
<1>6. \A b \in Admins : page'[b] # None =>
          /\ page'[b].wf \in Content0
          /\ page'[b].draft # None => page'[b].draft \in Ids' /\ page'[b].row \in Rowset
  BY <1>4, <1>5 DEF RowsOK
<1>7. active' \subseteq Content0
  BY DEF RowsOK
<1>8. QED
  BY <1>3, <1>5, <1>6, <1>7 DEF RowsOK, Distinct

LEMMA SaveKeepsRows ==
  ASSUME RowsOK, NEW a \in Admins, NEW c \in Configs, NEW asked \in Versions,
         SaveDraft(a, c, asked)
  PROVE  RowsOK'
<1>1. page[a] # None /\ Close(a) /\ UNCHANGED <<wf, rules, cases, active, overDraft>>
  BY DEF SaveDraft
<1>2. PICK w \in Content0 : w = page[a].wf
  BY <1>1 DEF RowsOK
<1>3. PICK R : R = Ensured(revs, w)
  OBVIOUS
<1>4. PICK n : n = IF asked > w.version + 1 THEN asked ELSE w.version + 1
  OBVIOUS
<1>5. PICK v : v = IF AtVersion(R, n) \subseteq Drafts THEN n ELSE Greatest(R) + 1
  OBVIOUS
<1>6. PICK row : row = Row(v, "Draft", c)
  OBVIOUS
<1>7. /\ v <= MaxVersion
      /\ revs' = IF Drafts = {} THEN Append(R, row)
                 ELSE [R EXCEPT ![CHOOSE i \in Drafts : TRUE] = row]
  BY <1>2, <1>3, <1>4, <1>5, <1>6 DEF SaveDraft
<1>8. Distinct(R) /\ Ids \subseteq DOMAIN R /\ DraftsOf(R) = Drafts /\ R \in Seq(Rowset)
  <2>1. Distinct(revs)
    BY DEF RowsOK
  <2>2. DraftsOf(revs) = Drafts
    BY DEF Drafts, DraftsOf, Ids
  <2>3. QED
    BY <1>3, <2>1, <2>2, EnsuredDistinct DEF Ids, Distinct
<1>9. n \in Nat /\ n >= 1
  BY <1>2, <1>4, VersionsAssumption DEF Versions, Content0
<1>10. v \in Nat /\ v >= n /\ AtVersion(R, v) \subseteq Drafts
  BY <1>5, <1>8, <1>9, FreshNumber
<1>11. v \in Versions
  BY <1>7, <1>9, <1>10, VersionsAssumption DEF Versions
<1>12. row \in Rowset /\ row.version = v /\ row.status = "Draft"
  BY <1>6, <1>11 DEF Row, Rowset
<1>13. Distinct(revs') /\ DOMAIN R \subseteq DOMAIN revs'
  <2>1. CASE Drafts = {}
    BY <1>7, <1>8, <1>10, <1>12, <2>1, AppendDistinct
  <2>2. CASE Drafts # {}
    <3>1. PICK d \in Drafts : d = CHOOSE i \in Drafts : TRUE
      BY <2>2
    <3>2. d \in DOMAIN R /\ DraftsOf(R) \subseteq {d}
      BY <1>8, <3>1 DEF DraftsOf, Distinct
    <3>3. revs' = [R EXCEPT ![d] = row]
      BY <1>7, <2>2, <3>1
    <3>4. AtVersion(R, row.version) \subseteq {d}
      BY <1>8, <1>10, <1>12, <3>2
    <3>5. QED
      BY <1>8, <1>12, <3>2, <3>3, <3>4, ReplaceDistinct
  <2>3. QED
    BY <2>1, <2>2
<1>14. wf' \in Content0 /\ active' = active
  BY <1>1 DEF RowsOK
<1>15. QED
  BY <1>1, <1>8, <1>13, <1>14, PageStepKeeps

LEMMA PublishKeepsRows ==
  ASSUME RowsOK, NEW a \in Admins, Publish(a)
  PROVE  RowsOK'
<1>1. page[a] # None /\ page[a].draft # None /\ Close(a)
  BY DEF Publish
<1>2. PICK w \in Content0, row \in Rowset, d \in Ids :
          w = page[a].wf /\ row = page[a].row /\ d = page[a].draft
  BY <1>1 DEF RowsOK
<1>3. PICK n : n = IF row.version > w.version THEN row.version ELSE w.version + 1
  OBVIOUS
<1>4. n \in Nat /\ n >= 1
  BY <1>2, <1>3, VersionsAssumption DEF Content0, Versions, Rowset
<1>5. PICK v : v = IF AtVersion(revs, n) \subseteq {d} THEN n ELSE Greatest(revs) + 1
  OBVIOUS
<1>6. revs \in Seq(Rowset)
  BY DEF RowsOK, Distinct
<1>7. v \in Nat /\ v >= n /\ AtVersion(revs, v) \subseteq {d}
  BY <1>4, <1>5, <1>6, FreshNumber
<1>8. PublishedVersion(a) = v
  BY <1>2, <1>3, <1>5 DEF PublishedVersion
<1>9. PICK x : x = [version |-> v, config |-> row.config]
  OBVIOUS
<1>10. PICK new : new = Row(x.version, "Published", x.config)
  OBVIOUS
<1>11. /\ Activate(x)
       /\ revs' = [Archived(revs) EXCEPT ![d] = new]
  BY <1>2, <1>8, <1>9, <1>10 DEF Publish
<1>12. wf' = x /\ v <= MaxVersion /\ active' = active \cup {wf'}
  BY <1>9, <1>11 DEF Activate
<1>13. x \in Content0 /\ new \in Rowset /\ new.version = v /\ new.status = "Published"
  BY <1>2, <1>4, <1>7, <1>9, <1>10, <1>12, VersionsAssumption DEF Content0, Versions, Rowset, Row
<1>14. PICK A : A = Archived(revs)
  OBVIOUS
<1>15. /\ Distinct(A) /\ DOMAIN A = Ids /\ AtVersion(A, v) \subseteq {d}
  BY <1>7, <1>14, ArchivedDistinct DEF RowsOK, Ids
<1>16. Distinct([A EXCEPT ![d] = new])
  BY <1>13, <1>15, ReplaceDistinct
<1>17. Distinct(revs') /\ Ids \subseteq DOMAIN revs'
  BY <1>11, <1>14, <1>15, <1>16
<1>18. QED
  BY <1>1, <1>12, <1>13, <1>17, PageStepKeeps

LEMMA ImportKeepsRows ==
  ASSUME RowsOK, NEW c \in Configs, NEW v \in Versions, Import(c, v)
  PROVE  RowsOK'
<1>1. PICK x : x = [version |-> v, config |-> c]
  OBVIOUS
<1>2. x \in Content0 /\ wf' = x /\ active' = active \cup {wf'} /\ UNCHANGED page
  BY <1>1 DEF Import, Activate, Content0
<1>3. PICK R : R = Ensured(revs, wf)
  OBVIOUS
<1>4. /\ Distinct(R) /\ Ids \subseteq DOMAIN R /\ AtVersion(R, wf.version) # {}
  BY <1>3, EnsuredDistinct DEF RowsOK, Ids
<1>5. PICK p \in AtVersion(R, wf.version) : p = CHOOSE i \in AtVersion(R, wf.version) : TRUE
  BY <1>4
<1>6. PICK row : row = [R[p] EXCEPT !.status = "Archived"]
  OBVIOUS
<1>7. PICK A : A = [R EXCEPT ![p] = row]
  OBVIOUS
<1>8. revs' = Ensured(A, x)
  BY <1>2, <1>3, <1>5, <1>6, <1>7, Zenon DEF Import
<1>9. p \in DOMAIN R /\ R[p] \in Rowset
  BY <1>4, <1>5, RowType DEF AtVersion, Distinct
<1>10. row \in Rowset /\ row.version = R[p].version /\ row.status = "Archived"
  BY <1>6, <1>9 DEF Rowset
<1>11. AtVersion(R, row.version) \subseteq {p}
  BY <1>4, <1>9, <1>10 DEF AtVersion, Distinct
<1>12. Distinct(A) /\ DOMAIN A = DOMAIN R
  BY <1>4, <1>7, <1>9, <1>10, <1>11, ReplaceDistinct
<1>13. Distinct(revs') /\ Ids \subseteq DOMAIN revs'
  BY <1>2, <1>4, <1>8, <1>12, EnsuredDistinct
<1>14. Content0' = Content0 /\ Rowset' = Rowset /\ Ids \subseteq Ids'
  BY <1>13 DEF Content0, Rowset, Ids
<1>15. \A b \in Admins : page'[b] # None =>
          /\ page'[b].wf \in Content0
          /\ page'[b].draft # None => page'[b].draft \in Ids' /\ page'[b].row \in Rowset
  BY <1>2, <1>14 DEF RowsOK
<1>16. QED
  BY <1>2, <1>13, <1>14, <1>15 DEF RowsOK, Distinct

LEMMA OpenKeepsRows ==
  ASSUME RowsOK, NEW a \in Admins, Open(a)
  PROVE  RowsOK'
<1>1. UNCHANGED <<wf, revs, rules, cases, active, overDraft>>
  BY DEF Open
<1>2. PICK d : d = IF Drafts = {} THEN None ELSE CHOOSE i \in Drafts : TRUE
  OBVIOUS
<1>3. PICK row : row = IF Drafts = {} THEN None ELSE revs[CHOOSE i \in Drafts : TRUE]
  OBVIOUS
<1>4. page' = [page EXCEPT ![a] = [wf |-> wf, draft |-> d, row |-> row]]
  BY <1>2, <1>3, Zenon DEF Open
<1>5. d # None => d \in Ids /\ row \in Rowset
  <2>1. \A i \in Ids : revs[i] \in Rowset
    BY RowType DEF RowsOK, Distinct, Ids
  <2>2. QED
    BY <1>2, <1>3, <2>1 DEF Drafts
<1>6. page = [b \in Admins |-> page[b]]
  BY DEF RowsOK
<1>7. /\ page'[a] = [wf |-> wf, draft |-> d, row |-> row]
      /\ \A b \in Admins : b # a => page'[b] = page[b]
      /\ page' = [b \in Admins |-> page'[b]]
  BY <1>4, <1>6
<1>8. page' \in [Admins -> {page'[b] : b \in Admins}]
  BY <1>7
<1>9. \A b \in Admins : page'[b] # None =>
          /\ page'[b].wf \in Content0
          /\ page'[b].draft # None => page'[b].draft \in Ids /\ page'[b].row \in Rowset
  BY <1>5, <1>7 DEF RowsOK
<1>10. QED
  BY <1>1, <1>8, <1>9 DEF RowsOK, Distinct, Content0, Rowset, Ids

LEMMA ShowKeepsRows ==
  ASSUME RowsOK, NEW a \in Admins, Show(a)
  PROVE  RowsOK'
<1>1. page[a] # None /\ Close(a) /\ UNCHANGED <<wf, rules, cases, active, overDraft>>
  BY DEF Show
<1>2. page[a].wf \in Content0 /\ wf' \in Content0 /\ active' = active
  BY <1>1 DEF RowsOK
<1>3. Distinct(revs') /\ Ids \subseteq DOMAIN revs'
  <2>1. revs' = revs \/ revs' = Ensured(revs, page[a].wf)
    BY DEF Show
  <2>2. QED
    BY <1>2, <2>1, EnsuredDistinct DEF RowsOK, Ids
<1>4. QED
  BY <1>1, <1>2, <1>3, PageStepKeeps

(* The definition that a request is opened under.                          *)
LEMMA DeployedType ==
  ASSUME RowsOK, NEW current \in BOOLEAN
  PROVE  Deployed(current) \in Content0
<1>1. wf \in Content0 /\ \A i \in Ids : revs[i] \in Rowset
  BY RowType DEF RowsOK, Distinct, Ids
<1>2. Baseline \subseteq Ids
  BY DEF Baseline, AtVersion, Before, Ids
<1>3. ASSUME Baseline # {}
      PROVE  Content(revs[CHOOSE i \in Baseline : TRUE]) \in Content0
  <2>1. PICK i \in Baseline : i = CHOOSE k \in Baseline : TRUE
    BY <1>3
  <2>2. revs[i] \in Rowset
    BY <1>1, <1>2, <2>1
  <2>3. QED
    BY <2>1, <2>2 DEF Rowset, Content, Content0
<1>4. QED
  BY <1>1, <1>3 DEF Deployed

(* Approvals of which no two have the stage and the key in common are as   *)
(* many as their keys.                                                     *)
LEMMA OneForAKey ==
  ASSUME NEW approvals, IsFiniteSet(approvals), Single(approvals)
  PROVE  Cardinality(approvals) = Cardinality(Keys(approvals))
<1> DEFINE f == [x \in approvals |-> <<x.stage, x.key>>]
<1>1. f \in [approvals -> Keys(approvals)]
  BY DEF Keys
<1>2. \A x, y \in approvals : f[x] = f[y] => x = y
  BY DEF Single
<1>3. \A k \in Keys(approvals) : \E x \in approvals : f[x] = k
  BY DEF Keys
<1>4. f \in Bijection(approvals, Keys(approvals))
  <2> HIDE DEF f
  <2>1. QED
    BY <1>1, <1>2, <1>3 DEF Bijection, Injection, Surjection, IsInjective
<1>5. ExistsBijection(approvals, Keys(approvals))
  <2> HIDE DEF f
  <2>1. QED
    BY <1>4 DEF ExistsBijection
<1>6. QED
  BY <1>5, FS_Bijection

(* The snapshot of a request is the one that the playground explains.      *)
LEMMA EvaluateExplained ==
  ASSUME NEW config \in Configs, NEW request \in SUBSET Facts,
         rules \in RuleLists \cup {None},
         NEW from \in Content0, from.config = config,
         NEW m, m = [from |-> from, approvals |-> Evaluate(config, request),
                     request |-> request, rules |-> rules, migrated |-> FALSE]
  PROVE  m \in Snapshots /\ AsExplained(m)
<1> DEFINE base == config.approvals
<1>1. base \in SUBSET Approvals /\ IsFiniteSet(base) /\ Single(base)
  BY VersionsAssumption DEF Single
<1>2. PICK approvals : approvals = Evaluate(config, request)
  OBVIOUS
<1>3. PICK extra : extra = Explained(m)
  OBVIOUS
<1>4. approvals \in SUBSET Approvals /\ Collects(approvals, base, extra)
  <2>1. CASE ~config.rules \/ rules = None
    <3>1. approvals = base /\ extra = {}
      BY <1>2, <1>3, <2>1 DEF Evaluate, Explained
    <3>2. QED
      BY <1>1, <3>1 DEF Collects, Keys
  <2>2. CASE ~(~config.rules \/ rules = None)
    <3>1. rules \in Seq(Rules)
      BY <2>2, VersionsAssumption
    <3>2. PICK list \in Seq(Rules) :
              list = Fired(rules, request) /\ Range(list) = Preview(rules, request)
      BY <3>1, FiredIsExplained
    <3>3. approvals = FoldLeft(RequireAll, base, list)
      BY <1>2, <2>2, <3>2 DEF Evaluate
    <3>4. extra = UNION {Range(r.actions) : r \in Range(list)}
      BY <1>3, <2>2, <3>2 DEF Explained
    <3>5. Collects(approvals, base, extra)
      <4> HIDE DEF base
      <4>1. QED
        BY <1>1, <3>3, <3>4, EvaluateCollects
    <3>6. approvals \in SUBSET Approvals
      <4> HIDE DEF base
      <4>1. PICK acc \in [0..Len(list) -> SUBSET Approvals] :
                acc[Len(list)] = FoldLeft(RequireAll, base, list)
        BY <1>1, EvaluateRuns
      <4>2. Len(list) \in 0..Len(list)
        OBVIOUS
      <4>3. QED
        BY <3>3, <4>1, <4>2
    <3>7. QED
      BY <3>5, <3>6
  <2>3. QED
    BY <2>1, <2>2
<1>5. m \in Snapshots
  BY <1>2, <1>4 DEF Snapshots
<1>6. /\ base \subseteq approvals
      /\ Keys(approvals) = Keys(base) \cup Keys(extra)
      /\ Cardinality(approvals) = Cardinality(Keys(approvals))
  BY <1>4, OneForAKey DEF Collects
<1>7. m.approvals = approvals /\ m.from.config.approvals = base
  BY <1>2
<1>8. AsExplained(m)
  <2> HIDE DEF base
  <2>1. QED
    BY <1>3, <1>6, <1>7 DEF AsExplained
<1>9. QED
  BY <1>5, <1>8

LEMMA RequestKeepsSnapshots ==
  ASSUME RowsInv, NEW c \in Cases,
         NEW request \in SUBSET Facts, NEW current \in BOOLEAN,
         CreateCase(c, request, current) \/ Migrate(c)
  PROVE  SnapshotsOK'
<1>1. rules' = rules /\ cases = [k \in Cases |-> cases[k]] /\ wf \in Content0
  BY DEF CreateCase, Migrate, RowsInv, RowsOK, SnapshotsOK
<1>2. \E m : cases' = [cases EXCEPT ![c] = m] /\ m \in Snapshots /\ AsExplained(m)
  <2>1. CASE CreateCase(c, request, current)
    <3>1. PICK from \in Content0 : from = Deployed(current)
      BY DeployedType DEF RowsInv
    <3>2. from.config \in Configs
      BY <3>1 DEF Content0
    <3>3. PICK m : m = [from |-> from, approvals |-> Evaluate(from.config, request),
                        request |-> request, rules |-> rules, migrated |-> FALSE]
      OBVIOUS
    <3>4. cases' = [cases EXCEPT ![c] = m]
      BY <2>1, <3>1, <3>3 DEF CreateCase
    <3>5. QED
      BY <3>2, <3>3, <3>4, EvaluateExplained DEF RowsInv, SnapshotsOK
  <2>2. CASE Migrate(c)
    <3>1. PICK m : m = [cases[c] EXCEPT !.from = wf, !.approvals = wf.config.approvals,
                                        !.migrated = TRUE]
      OBVIOUS
    <3>2. cases' = [cases EXCEPT ![c] = m]
      BY <2>2, <3>1, Zenon DEF Migrate
    <3>3. cases[c] \in Snapshots
      BY <2>2 DEF Migrate, RowsInv, SnapshotsOK
    <3>4. wf.config.approvals \in SUBSET Approvals
      BY <1>1, VersionsAssumption DEF Content0
    <3>5. m \in Snapshots /\ m.migrated
      BY <1>1, <3>1, <3>3, <3>4 DEF Snapshots
    <3>6. QED
      BY <3>2, <3>5 DEF AsExplained
  <2>3. QED
    BY <2>1, <2>2
<1>3. PICK m : cases' = [cases EXCEPT ![c] = m] /\ m \in Snapshots /\ AsExplained(m)
  BY <1>2
<1>4. /\ cases' = [k \in Cases |-> cases'[k]] /\ cases'[c] = m
      /\ \A k \in Cases : k # c => cases'[k] = cases[k]
  BY <1>1, <1>3
<1>5. cases' \in [Cases -> {cases'[k] : k \in Cases}]
  BY <1>4
<1>6. \A k \in Cases : cases'[k] # None => cases'[k] \in Snapshots /\ AsExplained(cases'[k])
  BY <1>3, <1>4 DEF RowsInv, SnapshotsOK
<1>7. QED
  BY <1>1, <1>5, <1>6 DEF RowsInv, SnapshotsOK

LEMMA RowsStep ==
  ASSUME RowsInv, [Next]_vars
  PROVE  RowsInv'
<1>1. /\ UNCHANGED <<rules, cases>> => SnapshotsOK'
      /\ UNCHANGED <<wf, revs, page, active>> => RowsOK'
  BY DEF RowsInv, SnapshotsOK, RowsOK, Distinct, Ids
<1>2. CASE UNCHANGED vars
  BY <1>1, <1>2 DEF vars, RowsInv
<1>3. ASSUME NEW a \in Admins, Open(a) \/ Show(a) \/ Publish(a)
      PROVE  RowsInv'
  <2>1. UNCHANGED <<rules, cases>>
    BY <1>3 DEF Open, Show, Publish
  <2>2. QED
    BY <1>1, <1>3, <2>1, OpenKeepsRows, ShowKeepsRows, PublishKeepsRows DEF RowsInv
<1>4. ASSUME NEW a \in Admins, NEW c \in Configs, NEW asked \in Versions,
             SaveDraft(a, c, asked)
      PROVE  RowsInv'
  <2>1. UNCHANGED <<rules, cases>>
    BY <1>4 DEF SaveDraft
  <2>2. QED
    BY <1>1, <1>4, <2>1, SaveKeepsRows DEF RowsInv
<1>5. ASSUME NEW c \in Configs, NEW v \in Versions, Import(c, v)
      PROVE  RowsInv'
  <2>1. UNCHANGED <<rules, cases>>
    BY <1>5 DEF Import
  <2>2. QED
    BY <1>1, <1>5, <2>1, ImportKeepsRows DEF RowsInv
<1>6. ASSUME NEW c \in Cases, NEW request \in SUBSET Facts, NEW current \in BOOLEAN,
             CreateCase(c, request, current) \/ Migrate(c)
      PROVE  RowsInv'
  <2>1. UNCHANGED <<wf, revs, page, active>>
    BY <1>6 DEF CreateCase, Migrate
  <2>2. QED
    BY <1>1, <1>6, <2>1, RequestKeepsSnapshots DEF RowsInv
<1>7. ASSUME NEW list \in RuleLists, SaveRules(list)
      PROVE  RowsInv'
  <2>1. UNCHANGED <<wf, revs, page, cases, active>> /\ rules' = list
    BY <1>7 DEF SaveRules
  <2>2. SnapshotsOK'
    BY <2>1 DEF RowsInv, SnapshotsOK
  <2>3. QED
    BY <1>1, <2>1, <2>2 DEF RowsInv
<1>8. {} \in SUBSET Facts /\ TRUE \in BOOLEAN
  OBVIOUS
<1>9. QED
  BY <1>2, <1>3, <1>4, <1>5, <1>6, <1>7, <1>8 DEF Next

LEMMA InitRows ==
  ASSUME Init
  PROVE  RowsInv
<1>1. wf \in Content0 /\ active \subseteq Content0
  BY VersionsAssumption DEF Init, Content0, Versions
<1>2. PICK row : row = Row(1, "Published", wf.config)
  OBVIOUS
<1>3. row \in Rowset
  BY <1>1, <1>2, VersionsAssumption DEF Row, Rowset, Content0, Versions
<1>4. revs = << >> \/ revs = <<row>>
  BY <1>2 DEF Init
<1>5. ASSUME revs = << >>
      PROVE  Distinct(revs)
  <2>1. revs \in Seq(Rowset) /\ DOMAIN revs = {}
    BY <1>5
  <2>2. QED
    BY <2>1 DEF Distinct
<1>6. ASSUME revs = <<row>>
      PROVE  Distinct(revs)
  <2>1. revs \in Seq(Rowset) /\ DOMAIN revs = {1}
    BY <1>3, <1>6
  <2>2. QED
    BY <2>1 DEF Distinct
<1>7. RowsOK
  BY <1>1, <1>4, <1>5, <1>6 DEF Init, RowsOK
<1>8. SnapshotsOK
  BY DEF Init, SnapshotsOK
<1>9. QED
  BY <1>7, <1>8 DEF RowsInv

LEMMA RowsInductive == Spec => []RowsInv
<1>1. Init => RowsInv
  BY InitRows
<1>2. RowsInv /\ [Next]_vars => RowsInv'
  BY RowsStep
<1>3. QED
  BY <1>1, <1>2, PTL DEF Spec

-----------------------------------------------------------------------------
(* Where the contents of the rows come from, also when pages overlap: what *)
(* is no draft was active, or has the number of a draft that an import     *)
(* took (and the next import archives).                                    *)
WasActive(R, A, O) ==
    \A i \in DOMAIN R : R[i].status # "Draft" => Content(R[i]) \in A \/ R[i].version \in O

(* The row of version v is no draft; only the first version may have none. *)
HasRow(R, v) ==
    /\ AtVersion(R, v) \cap DraftsOf(R) = {}
    /\ v = 1 \/ AtVersion(R, v) # {}

RecordOK ==
    /\ wf \in active
    /\ \A a \in Admins : page[a] # None => page[a].wf \in active
    /\ WasActive(revs, active, overDraft)
    /\ wf.version \in overDraft \/ HasRow(revs, wf.version)

LEMMA EnsuredRows ==
  ASSUME NEW w \in Content0, NEW R \in Seq(Rowset), NEW E, E = Ensured(R, w)
  PROVE  /\ DOMAIN R \subseteq DOMAIN E
         /\ \A i \in DOMAIN R : E[i] = R[i]
         /\ \A i \in DOMAIN E : i \notin DOMAIN R =>
                Content(E[i]) = w /\ E[i].version = w.version /\ E[i].status = "Published"
<1>1. CASE AtVersion(R, w.version) # {}
  BY <1>1 DEF Ensured
<1>2. CASE AtVersion(R, w.version) = {}
  <2>1. PICK row : row = Row(w.version, "Published", w.config)
    OBVIOUS
  <2>2. /\ DOMAIN E = 1..Len(R) + 1 /\ DOMAIN R = 1..Len(R) /\ Len(R) \in Nat
        /\ \A i \in DOMAIN R : E[i] = R[i]
        /\ E[Len(R) + 1] = row
    BY <1>2, <2>1 DEF Ensured
  <2>3. row.version = w.version /\ row.status = "Published" /\ Content(row) = w
    BY <2>1 DEF Row, Content, Content0
  <2>4. QED
    BY <2>2, <2>3
<1>3. QED
  BY <1>1, <1>2

LEMMA EnsuredWasActive ==
  ASSUME NEW w \in Content0, NEW R \in Seq(Rowset), NEW E, E = Ensured(R, w),
         NEW A, w \in A, NEW O, WasActive(R, A, O)
  PROVE  WasActive(E, A, O) /\ \A v : HasRow(R, v) => HasRow(E, v)
<1>1. /\ DOMAIN R \subseteq DOMAIN E
      /\ \A i \in DOMAIN R : E[i] = R[i]
      /\ \A i \in DOMAIN E : i \notin DOMAIN R => Content(E[i]) = w /\ E[i].status = "Published"
  BY EnsuredRows
<1>2. WasActive(E, A, O)
  BY <1>1 DEF WasActive
<1>3. ASSUME NEW v, HasRow(R, v)
      PROVE  HasRow(E, v)
  <2>1. DraftsOf(E) = DraftsOf(R) /\ AtVersion(R, v) \subseteq AtVersion(E, v)
        /\ AtVersion(E, v) \cap DOMAIN R = AtVersion(R, v) /\ DraftsOf(R) \subseteq DOMAIN R
    BY <1>1 DEF DraftsOf, AtVersion
  <2>2. QED
    BY <1>3, <2>1 DEF HasRow
<1>4. QED
  BY <1>2, <1>3

LEMMA SaveRecords ==
  ASSUME RowsOK, RecordOK, NEW a \in Admins, NEW c \in Configs, NEW asked \in Versions,
         SaveDraft(a, c, asked)
  PROVE  WasActive(revs', active, overDraft)
         /\ (wf.version \in overDraft \/ HasRow(revs', wf.version))
<1>1. PICK w \in Content0 : w = page[a].wf /\ w \in active
  BY DEF SaveDraft, RowsOK, RecordOK
<1>2. PICK R : R = Ensured(revs, w)
  OBVIOUS
<1>3. PICK n : n = IF asked > w.version + 1 THEN asked ELSE w.version + 1
  OBVIOUS
<1>4. PICK v : v = IF AtVersion(R, n) \subseteq Drafts THEN n ELSE Greatest(R) + 1
  OBVIOUS
<1>5. PICK row : row = Row(v, "Draft", c)
  OBVIOUS
<1>6. revs' = IF Drafts = {} THEN Append(R, row) ELSE [R EXCEPT ![CHOOSE i \in Drafts : TRUE] = row]
  BY <1>1, <1>2, <1>3, <1>4, <1>5 DEF SaveDraft
<1>7. Distinct(R) /\ R \in Seq(Rowset) /\ DraftsOf(R) = Drafts
  <2>1. DraftsOf(revs) = Drafts /\ Distinct(revs)
    BY DEF Drafts, DraftsOf, Ids, RowsOK
  <2>2. QED
    BY <1>2, <2>1, EnsuredDistinct DEF Distinct
<1>8. WasActive(R, active, overDraft) /\ (HasRow(revs, wf.version) => HasRow(R, wf.version))
  BY <1>1, <1>2, EnsuredWasActive DEF RowsOK, Distinct, RecordOK
<1>9. v \in Nat /\ v >= 2 /\ AtVersion(R, v) \subseteq Drafts
  <2>1. n \in Nat /\ n >= 2
    BY <1>1, <1>3, VersionsAssumption DEF Versions, Content0
  <2>2. v \in Nat /\ v >= n /\ AtVersion(R, v) \subseteq Drafts
    BY <1>4, <1>7, <2>1, FreshNumber
  <2>3. QED
    BY <2>1, <2>2
<1>10. row.version = v /\ row.status = "Draft"
  BY <1>5 DEF Row
<1>11. PICK d : /\ d \in DOMAIN revs' /\ revs'[d] = row
                /\ d \in DOMAIN R => d \in DraftsOf(R)
                /\ DOMAIN R \subseteq DOMAIN revs'
                /\ \A i \in DOMAIN revs' : i # d => i \in DOMAIN R /\ revs'[i] = R[i]
  <2>1. CASE Drafts = {}
    <3>1. revs' = Append(R, row) /\ Len(R) \in Nat /\ DOMAIN R = 1..Len(R)
      BY <1>6, <1>7, <2>1
    <3>2. /\ DOMAIN revs' = 1..Len(R) + 1 /\ revs'[Len(R) + 1] = row
          /\ \A i \in 1..Len(R) : revs'[i] = R[i]
      BY <1>7, <3>1
    <3>3. QED
      BY <3>1, <3>2
  <2>2. CASE Drafts # {}
    <3>1. PICK d \in Drafts : revs' = [R EXCEPT ![d] = row]
      BY <1>6, <2>2
    <3>2. QED
      BY <1>7, <3>1 DEF DraftsOf
  <2>3. QED
    BY <2>1, <2>2
<1>12. WasActive(revs', active, overDraft)
  BY <1>8, <1>10, <1>11 DEF WasActive
<1>13. ASSUME HasRow(R, wf.version)
       PROVE  HasRow(revs', wf.version)
  <2>1. wf.version # v
    BY <1>7, <1>9, <1>13 DEF HasRow
  <2>2. AtVersion(revs', wf.version) = AtVersion(R, wf.version)
    BY <1>10, <1>11, <1>13, <2>1 DEF AtVersion, HasRow
  <2>3. AtVersion(R, wf.version) \cap DraftsOf(revs') = {}
    BY <1>10, <1>11, <1>13, <2>1 DEF AtVersion, HasRow, DraftsOf
  <2>4. QED
    BY <1>13, <2>2, <2>3 DEF HasRow
<1>14. QED
  BY <1>8, <1>12, <1>13 DEF RecordOK

LEMMA PublishRecords ==
  ASSUME RowsOK, RecordOK, NEW a \in Admins, Publish(a)
  PROVE  /\ WasActive(revs', active', overDraft) /\ HasRow(revs', wf'.version)
         /\ wf' \in active' /\ active \subseteq active'
<1>1. PICK w \in Content0, row \in Rowset, d \in Ids :
          w = page[a].wf /\ row = page[a].row /\ d = page[a].draft
  BY DEF RowsOK, Publish
<1>2. PICK n : n = IF row.version > w.version THEN row.version ELSE w.version + 1
  OBVIOUS
<1>3. PICK v : v = IF AtVersion(revs, n) \subseteq {d} THEN n ELSE Greatest(revs) + 1
  OBVIOUS
<1>4. revs \in Seq(Rowset) /\ Distinct(revs) /\ d \in DOMAIN revs
  BY <1>1 DEF RowsOK, Distinct, Ids
<1>5. v \in Nat /\ AtVersion(revs, v) \subseteq {d}
  <2>1. n \in Nat
    BY <1>1, <1>2, VersionsAssumption DEF Content0, Versions, Rowset
  <2>2. QED
    BY <1>3, <1>4, <2>1, FreshNumber
<1>6. PublishedVersion(a) = v
  BY <1>1, <1>2, <1>3 DEF PublishedVersion
<1>7. PICK x : x = [version |-> v, config |-> row.config]
  OBVIOUS
<1>8. PICK new : new = Row(x.version, "Published", x.config)
  OBVIOUS
<1>9. Activate(x) /\ revs' = [Archived(revs) EXCEPT ![d] = new]
  BY <1>1, <1>6, <1>7, <1>8 DEF Publish
<1>10. wf' = x /\ active' = active \cup {x}
  BY <1>9 DEF Activate
<1>11. new.version = v /\ new.status = "Published" /\ Content(new) = x
  BY <1>7, <1>8 DEF Row, Content
<1>12. PICK A : A = Archived(revs)
  OBVIOUS
<1>13. DOMAIN A = Ids /\ AtVersion(A, v) \subseteq {d}
  BY <1>4, <1>5, <1>12, ArchivedDistinct DEF Ids
<1>14. \A i \in Ids : /\ Content(A[i]) = Content(revs[i]) /\ A[i].version = revs[i].version
                      /\ A[i].status = "Draft" <=> revs[i].status = "Draft"
  <2>1. \A i \in Ids : revs[i] \in Rowset
    BY <1>4, RowType DEF Ids
  <2>2. \A i \in Ids : A[i] = IF revs[i].status = "Published"
                             THEN [revs[i] EXCEPT !.status = "Archived"] ELSE revs[i]
    BY <1>12 DEF Archived, Ids
  <2>3. QED
    BY <2>1, <2>2 DEF Rowset, Content
<1>15. /\ DOMAIN revs' = Ids /\ revs'[d] = new
       /\ \A i \in Ids : i # d => revs'[i] = A[i]
  BY <1>9, <1>12, <1>13
<1>16. WasActive(revs', active', overDraft)
  BY <1>10, <1>11, <1>14, <1>15 DEF WasActive, RecordOK, Ids
<1>17. HasRow(revs', v)
  <2>1. AtVersion(revs', v) = {d}
    BY <1>1, <1>11, <1>13, <1>15 DEF AtVersion
  <2>2. d \notin DraftsOf(revs')
    BY <1>11, <1>15 DEF DraftsOf
  <2>3. QED
    BY <2>1, <2>2 DEF HasRow
<1>18. QED
  BY <1>7, <1>10, <1>16, <1>17

LEMMA ImportRecords ==
  ASSUME RowsOK, RecordOK, NEW c \in Configs, NEW v \in Versions, Import(c, v)
  PROVE  /\ WasActive(revs', active', overDraft')
         /\ v \in overDraft' \/ HasRow(revs', v)
         /\ wf' \in active' /\ wf'.version = v
         /\ active \subseteq active' /\ overDraft \subseteq overDraft'
<1>1. PICK x \in Content0 : x = [version |-> v, config |-> c]
  BY DEF Content0
<1>2. /\ wf' = x /\ active' = active \cup {x} /\ x.version = v
      /\ overDraft' = overDraft \cup {revs[i].version : i \in Drafts \cap AtVersion(revs, v)}
  BY <1>1 DEF Import, Activate
<1>3. PICK R : R = Ensured(revs, wf)
  OBVIOUS
<1>4. revs \in Seq(Rowset) /\ wf \in Content0 /\ Distinct(revs)
  BY DEF RowsOK, Distinct
<1>5. /\ Distinct(R) /\ R \in Seq(Rowset) /\ AtVersion(R, wf.version) # {}
      /\ DraftsOf(R) = DraftsOf(revs)
  BY <1>3, <1>4, EnsuredDistinct DEF Distinct
<1>6. /\ WasActive(R, active, overDraft)
      /\ HasRow(revs, wf.version) => HasRow(R, wf.version)
  BY <1>3, <1>4, EnsuredWasActive DEF RecordOK
<1>7. PICK p \in AtVersion(R, wf.version) : p = CHOOSE i \in AtVersion(R, wf.version) : TRUE
  BY <1>5
<1>8. PICK row : row = [R[p] EXCEPT !.status = "Archived"]
  OBVIOUS
<1>9. PICK A : A = [R EXCEPT ![p] = row]
  OBVIOUS
<1>10. revs' = Ensured(A, x)
  BY <1>2, <1>3, <1>7, <1>8, <1>9, Zenon DEF Import
<1>11. p \in DOMAIN R /\ R[p] \in Rowset /\ R[p].version = wf.version
  BY <1>5, <1>7, RowType DEF AtVersion
<1>12. row \in Rowset /\ Content(row) = Content(R[p]) /\ row.version = wf.version
       /\ row.status = "Archived"
  BY <1>8, <1>11 DEF Rowset, Content
<1>13. DOMAIN A = DOMAIN R /\ A[p] = row /\ \A i \in DOMAIN R : i # p => A[i] = R[i]
  BY <1>9, <1>11
<1>14. A \in Seq(Rowset)
  <2>1. p \in 1..Len(R)
    BY <1>5, <1>11
  <2>2. [R EXCEPT ![p] = row] \in Seq(Rowset)
    BY <1>5, <1>12, <2>1, ExceptSeq, Zenon
  <2>3. QED
    BY <1>9, <2>2
<1>15. WasActive(A, active', overDraft')
  <2>1. Content(row) \in active \/ row.version \in overDraft
    <3>1. CASE R[p].status # "Draft"
      BY <1>6, <1>11, <1>12, <3>1 DEF WasActive
    <3>2. CASE R[p].status = "Draft"
      <4>1. p \in AtVersion(R, wf.version) \cap DraftsOf(R)
        BY <1>11, <3>2 DEF DraftsOf
      <4>2. QED
        BY <1>6, <1>12, <4>1 DEF RecordOK, HasRow
    <3>3. QED
      BY <3>1, <3>2
  <2>2. QED
    BY <1>2, <1>6, <1>13, <2>1 DEF WasActive
<1>16. WasActive(revs', active', overDraft')
  BY <1>2, <1>10, <1>14, <1>15, EnsuredWasActive
<1>17. /\ DOMAIN A \subseteq DOMAIN revs' /\ \A i \in DOMAIN A : revs'[i] = A[i]
       /\ \A i \in DOMAIN revs' : i \notin DOMAIN A => revs'[i].status = "Published"
  BY <1>1, <1>10, <1>14, EnsuredRows
<1>18. AtVersion(revs', v) # {}
  BY <1>2, <1>10, <1>14, <1>17 DEF Ensured, AtVersion, Row
<1>19. ASSUME NEW i \in AtVersion(revs', v) \cap DraftsOf(revs')
       PROVE  v \in overDraft'
  <2>1. i \in DOMAIN revs' /\ revs'[i].version = v /\ revs'[i].status = "Draft"
    BY DEF AtVersion, DraftsOf
  <2>2. i \in DOMAIN R /\ R[i].version = v /\ R[i].status = "Draft"
    BY <1>12, <1>13, <1>17, <2>1
  <2>3. i \in DOMAIN revs /\ revs[i] = R[i]
    <3>1. i \in DraftsOf(revs)
      BY <1>5, <2>2 DEF DraftsOf
    <3>2. QED
      BY <1>3, <1>4, <3>1, EnsuredRows DEF DraftsOf
  <2>4. QED
    BY <1>2, <2>2, <2>3 DEF Drafts, AtVersion, Ids
<1>20. QED
  BY <1>2, <1>16, <1>18, <1>19 DEF HasRow

LEMMA PagesRecord ==
  ASSUME RowsOK, RecordOK, active \subseteq active', NEW a \in Admins, Close(a)
  PROVE  \A b \in Admins : page'[b] # None => page'[b].wf \in active'
<1>1. page = [b \in Admins |-> page[b]]
  BY DEF RowsOK
<1>2. page'[a] = None /\ \A b \in Admins : b # a => page'[b] = page[b]
  BY <1>1 DEF Close
<1>3. QED
  BY <1>2 DEF RecordOK

LEMMA RecordStep ==
  ASSUME RowsInv, RecordOK, [Next]_vars
  PROVE  RecordOK'
<1>0. RowsOK
  BY DEF RowsInv
<1>1. UNCHANGED <<wf, revs, page, active, overDraft>> => RecordOK'
  BY DEF RecordOK, WasActive, HasRow, AtVersion, DraftsOf, Ids
<1>2. ASSUME NEW a \in Admins, Open(a)
      PROVE  RecordOK'
  <2>1. PICK d : d = IF Drafts = {} THEN None ELSE CHOOSE i \in Drafts : TRUE
    OBVIOUS
  <2>2. PICK row : row = IF Drafts = {} THEN None ELSE revs[CHOOSE i \in Drafts : TRUE]
    OBVIOUS
  <2>3. page' = [page EXCEPT ![a] = [wf |-> wf, draft |-> d, row |-> row]]
        /\ UNCHANGED <<wf, revs, active, overDraft>>
    BY <1>2, <2>1, <2>2, Zenon DEF Open
  <2>4. page = [b \in Admins |-> page[b]]
    BY <1>0 DEF RowsOK
  <2>5. page'[a].wf = wf /\ \A b \in Admins : b # a => page'[b] = page[b]
    BY <2>3, <2>4
  <2>6. \A b \in Admins : page'[b] # None => page'[b].wf \in active
    BY <2>5 DEF RecordOK
  <2>7. QED
    BY <2>3, <2>6 DEF RecordOK, WasActive, HasRow, AtVersion, DraftsOf, Ids
<1>3. ASSUME NEW a \in Admins, Show(a)
      PROVE  RecordOK'
  <2>1. Close(a) /\ UNCHANGED <<wf, active, overDraft>>
        /\ (revs' = revs \/ revs' = Ensured(revs, page[a].wf))
    BY <1>3 DEF Show
  <2>2. page[a].wf \in Content0 /\ page[a].wf \in active /\ revs \in Seq(Rowset)
    BY <1>0, <1>3 DEF Show, RowsOK, RecordOK, Distinct
  <2>3. /\ WasActive(revs', active, overDraft)
        /\ HasRow(revs, wf.version) => HasRow(revs', wf.version)
    BY <2>1, <2>2, EnsuredWasActive DEF RecordOK
  <2>4. \A b \in Admins : page'[b] # None => page'[b].wf \in active
    BY <1>0, <2>1, PagesRecord
  <2>5. QED
    BY <2>1, <2>3, <2>4 DEF RecordOK
<1>4. ASSUME NEW a \in Admins, NEW c \in Configs, NEW asked \in Versions,
             SaveDraft(a, c, asked)
      PROVE  RecordOK'
  <2>1. Close(a) /\ UNCHANGED <<wf, active, overDraft>>
    BY <1>4 DEF SaveDraft
  <2>2. \A b \in Admins : page'[b] # None => page'[b].wf \in active
    BY <1>0, <2>1, PagesRecord
  <2>3. QED
    BY <1>0, <1>4, <2>1, <2>2, SaveRecords DEF RecordOK
<1>5. ASSUME NEW a \in Admins, Publish(a)
      PROVE  RecordOK'
  <2>1. Close(a) /\ UNCHANGED overDraft
    BY <1>5 DEF Publish
  <2>2. /\ WasActive(revs', active', overDraft) /\ HasRow(revs', wf'.version)
        /\ wf' \in active' /\ active \subseteq active'
    BY <1>0, <1>5, PublishRecords
  <2>3. \A b \in Admins : page'[b] # None => page'[b].wf \in active'
    BY <1>0, <2>1, <2>2, PagesRecord
  <2>4. QED
    BY <2>1, <2>2, <2>3 DEF RecordOK
<1>6. ASSUME NEW c \in Configs, NEW v \in Versions, Import(c, v)
      PROVE  RecordOK'
  <2>1. UNCHANGED page
    BY <1>6 DEF Import
  <2>2. /\ WasActive(revs', active', overDraft')
        /\ wf'.version \in overDraft' \/ HasRow(revs', wf'.version)
        /\ wf' \in active' /\ active \subseteq active'
    BY <1>0, <1>6, ImportRecords
  <2>3. QED
    BY <2>1, <2>2 DEF RecordOK
<1>7. ASSUME NEW c \in Cases, NEW request \in SUBSET Facts, NEW current \in BOOLEAN,
             CreateCase(c, request, current) \/ Migrate(c)
      PROVE  RecordOK'
  BY <1>1, <1>7 DEF CreateCase, Migrate
<1>8. ASSUME NEW list \in RuleLists, SaveRules(list)
      PROVE  RecordOK'
  BY <1>1, <1>8 DEF SaveRules
<1>9. {} \in SUBSET Facts /\ TRUE \in BOOLEAN
  OBVIOUS
<1>10. QED
  BY <1>1, <1>2, <1>3, <1>4, <1>5, <1>6, <1>7, <1>8, <1>9 DEF Next, vars

LEMMA InitRecord ==
  ASSUME Init
  PROVE  RecordOK
<1>1. PICK row : row = Row(1, "Published", wf.config)
  OBVIOUS
<1>2. row.version = 1 /\ row.status = "Published" /\ Content(row) = wf /\ wf.version = 1
  BY <1>1 DEF Init, Row, Content
<1>3. revs = << >> \/ revs = <<row>>
  BY <1>1 DEF Init
<1>4. \A i \in DOMAIN revs : revs[i] = row
  BY <1>3
<1>5. WasActive(revs, active, overDraft) /\ HasRow(revs, 1)
  BY <1>2, <1>4 DEF Init, WasActive, HasRow, AtVersion, DraftsOf
<1>6. QED
  BY <1>2, <1>5 DEF Init, RecordOK

-----------------------------------------------------------------------------
(* Every row and every snapshot is of the declared form, also when pages   *)
(* overlap.                                                                *)
THEOREM VersionsTyped == Spec => []TypeOK
<1>1. ASSUME RowsInv
      PROVE  TypeOK
  <2>1. \A i \in Ids : revs[i] \in Rowset
    BY <1>1, RowType DEF RowsInv, RowsOK, Distinct, Ids
  <2>2. \A i \in Ids : /\ Content(revs[i]) \in Content0
                       /\ revs[i].status \in {"Draft", "Published", "Archived"}
    BY <2>1 DEF Rowset, Content, Content0
  <2>3. \A c \in Cases : cases[c] # None => cases[c].from \in Content0
    BY <1>1 DEF RowsInv, SnapshotsOK, Snapshots
  <2>4. QED
    BY <1>1, <2>2, <2>3 DEF RowsInv, RowsOK, SnapshotsOK, TypeOK
<1>2. QED
  BY <1>1, RowsInductive, PTL

(* A save, a publication or an import never fails on the unique constraint *)
(* of workflow revisions (models.py:60), also when the page that saves has *)
(* loaded the workflow or the draft before another page changed it:        *)
(* save_draft and publish_draft move a number that is taken beyond every   *)
(* other, and look at the rows as they are when they do.                   *)
THEOREM RevisionsAreUnique == Spec => []RevisionsUnique
<1>1. RowsInv => RevisionsUnique
  BY DEF RowsInv, RowsOK, Distinct, RevisionsUnique, Ids
<1>2. QED
  BY <1>1, RowsInductive, PTL

(* A request has the approvals of its revision and those of the rules that *)
(* the playground explains for it (rules.py:143), and no key of a stage    *)
(* twice, for every list of rules, every order of their actions and        *)
(* whatever is published, imported or saved meanwhile.                     *)
THEOREM RulesGoAsExplained == Spec => []RulesAsExplained
<1>1. RowsInv => RulesAsExplained
  BY DEF RowsInv, SnapshotsOK, AsExplained, RulesAsExplained
<1>2. QED
  BY <1>1, RowsInductive, PTL

(* How far "Select the active or baseline published revision"              *)
(* (workflow_versions.py:150) is off: what a new request captures was the  *)
(* active definition at some time, or has a number that an import took     *)
(* from a draft, or is the text of a row that is a draft at that moment.   *)
(* Nothing else is ever run, also when pages overlap.                      *)
Captured(c) ==
    LET from == cases'[c].from IN
        \/ from \in active
        \/ from.version \in overDraft
        \/ \E i \in Drafts : from = Content(revs[i])

THEOREM OnlyDraftsSlipIn ==
  Spec => [][\A c \in Cases : cases'[c] # cases[c] => Captured(c)]_vars
<1>1. ASSUME RecordOK, NEW c \in Cases, NEW k \in Cases, cases'[k] # cases[k],
             NEW request \in SUBSET Facts, NEW current \in BOOLEAN,
             CreateCase(c, request, current) \/ Migrate(c), RowsInv
      PROVE  Captured(k)
  <2>1. PICK from, m : /\ m.from = from /\ cases' = [cases EXCEPT ![c] = m]
                       /\ from \in {wf, Deployed(current)}
    <3>1. CASE CreateCase(c, request, current)
      <4>1. PICK from : from = Deployed(current)
        OBVIOUS
      <4>2. PICK m : m = [from |-> from, approvals |-> Evaluate(from.config, request),
                          request |-> request, rules |-> rules, migrated |-> FALSE]
        OBVIOUS
      <4>3. cases' = [cases EXCEPT ![c] = m]
        BY <3>1, <4>1, <4>2, Zenon DEF CreateCase
      <4>4. m.from = from
        BY <4>2
      <4>5. QED
        BY <4>1, <4>3, <4>4
    <3>2. CASE Migrate(c)
      <4>1. cases[c] \in Snapshots
        BY <1>1, <3>2 DEF RowsInv, SnapshotsOK, Migrate
      <4>2. PICK m : m = [cases[c] EXCEPT !.from = wf, !.approvals = wf.config.approvals,
                                          !.migrated = TRUE]
        OBVIOUS
      <4>3. m.from = wf
        BY <4>1, <4>2 DEF Snapshots
      <4>4. cases' = [cases EXCEPT ![c] = m]
        BY <3>2, <4>2 DEF Migrate
      <4>5. QED
        BY <4>3, <4>4
    <3>3. QED
      BY <1>1, <3>1, <3>2
  <2>2. k = c /\ cases'[k] = m
    <3>1. cases = [b \in Cases |-> cases[b]]
      BY <1>1 DEF RowsInv, SnapshotsOK
    <3>2. QED
      BY <1>1, <2>1, <3>1
  <2>3. CASE from = wf
    BY <1>1, <2>1, <2>2, <2>3 DEF Captured, RecordOK
  <2>4. CASE from # wf
    <3>1. Baseline # {} /\ from = Content(revs[CHOOSE i \in Baseline : TRUE])
      BY <2>1, <2>4 DEF Deployed
    <3>2. PICK i \in Baseline : from = Content(revs[i])
      BY <3>1
    <3>3. i \in Ids
      BY <3>2 DEF Baseline, AtVersion, Before, Ids
    <3>4. CASE revs[i].status = "Draft"
      BY <2>1, <2>2, <3>2, <3>3, <3>4 DEF Captured, Drafts
    <3>5. CASE revs[i].status # "Draft"
      <4>1. from \in active \/ revs[i].version \in overDraft
        BY <1>1, <3>2, <3>3, <3>5 DEF RecordOK, WasActive, Ids
      <4>2. from.version = revs[i].version
        BY <3>2 DEF Content
      <4>3. QED
        BY <2>1, <2>2, <4>1, <4>2 DEF Captured
    <3>6. QED
      BY <3>4, <3>5
  <2>5. QED
    BY <2>3, <2>4
<1>2. ASSUME RowsInv, RecordOK, Next
      PROVE  \A c \in Cases : cases'[c] # cases[c] => Captured(c)
  <2>1. {} \in SUBSET Facts /\ TRUE \in BOOLEAN
    OBVIOUS
  <2>2. CASE UNCHANGED cases
    BY <2>2
  <2>3. CASE \E c \in Cases : \/ \E request \in SUBSET Facts, current \in BOOLEAN :
                                   CreateCase(c, request, current)
                              \/ Migrate(c)
    BY <1>1, <1>2, <2>1, <2>3
  <2>4. QED
    BY <1>2, <2>2, <2>3 DEF Next, Open, Show, Publish, SaveDraft, Import, SaveRules
<1>3. RowsInv /\ RecordOK /\ [Next]_vars =>
          [\A c \in Cases : cases'[c] # cases[c] => Captured(c)]_vars
  BY <1>2
<1>4. Init => RecordOK
  BY InitRecord
<1>5. RowsInv /\ RecordOK /\ [Next]_vars => RecordOK'
  BY RecordStep
<1>6. QED
  BY <1>3, <1>4, <1>5, RowsInductive, PTL DEF Spec

(* The revision that is marked as published is the active definition.      *)
THEOREM PublishedStaysActive ==
  ASSUME ~Overlap
  PROVE  Spec => []PublishedIsActive
<1>1. VersionsInv => PublishedIsActive
  BY DEF VersionsInv, Sound, PublishedIsActive, Ids
<1>2. QED
  BY <1>1, VersionsInductive, PTL

(* Every definition that was active stays on record, unless its import     *)
(* took the number of a draft.                                             *)
THEOREM HistoryKept ==
  ASSUME ~Overlap
  PROVE  Spec => []HistoryIsComplete
<1>1. VersionsInv => HistoryIsComplete
  BY DEF VersionsInv, HistoryOK, OnRecord, HistoryIsComplete, Ids
<1>2. QED
  BY <1>1, VersionsInductive, PTL

(* The active version never falls, and what was published or archived is   *)
(* never rewritten.                                                        *)
THEOREM VersionsGrow ==
  ASSUME ~Overlap
  PROVE  Spec => VersionsOnlyGrow
<1> DEFINE Grows ==
      /\ wf' # wf => wf'.version > wf.version
      /\ \A i \in Ids : revs[i].status # "Draft" =>
            Content(revs'[i]) = Content(revs[i]) /\ revs'[i].status # "Draft"
<1>1. ASSUME VersionsInv, [Next]_vars
      PROVE  [Grows]_vars
  BY <1>1, VersionsStep DEF Frozen, Ids
<1>2. QED
  <2> HIDE DEF Grows
  <2>1. Spec => [][Grows]_vars
    BY <1>1, VersionsInductive, PTL DEF Spec
  <2>2. QED
    BY <2>1 DEF Grows, VersionsOnlyGrow
=============================================================================
