------------------------- MODULE ReviewEvidenceProofs -------------------------
(***************************************************************************)
(* Proofs about Catalog and ReviewEvidence, for all controls, policies,    *)
(* exceptions, rule packs, chunks and any number of changes.               *)
(***************************************************************************)
EXTENDS ReviewEvidence, TLAPS

(***************************************************************************)
(* THE INDUCTIVE INVARIANT                                                 *)
(***************************************************************************)
(* The writes still to be made are of the kind of their task.              *)
TaskFits ==
  /\ task.kind = "pack" => task.status \in PackStates
  /\ task.kind = "regulation" => task.status \in Statuses /\ task.status = regulation

(* No version is active but those an activation still has to retire.       *)
PacksFollow ==
  task.kind = "pack" /\ task.status = "active" => ActivePacks \subseteq task.drop

(* A chunk has the status of its document, or is still to be written.      *)
ChunksPending ==
  ~partial => \A k \in StoredChunks :
    chunk[k] = regulation \/ (task.kind = "regulation" /\ k \in task.drop \cup task.put)

CatalogInv == TaskFits /\ PacksFollow /\ OnePackVersion /\ ChunksPending

(* What held all the time holds now, and what holds now held at some time. *)
History == always \subseteq Facing /\ Facing \subseteq ever

AfterExceptions == {"regulations", "done"}
AfterReview     == AfterExceptions \cup {"exceptions"}
AfterScan       == AfterReview \cup {"semantic"}
AfterFlags      == AfterScan \cup {"scan"}
AfterCoverage   == AfterFlags \cup {"flags"}
AfterControls   == AfterCoverage \cup {"coverage"}
AfterRules      == AfterControls \cup {"controls"}

RulesKnown ==
  pc \in AfterRules =>
    /\ \A v \in PackVersions : AllTheTime("pack", v) => v \in rules
    /\ \A v \in rules : SomeTime("pack", v)

SnapshotKnown ==
  /\ pc \in AfterControls =>
       /\ \A c \in snapshot : SomeTime("control", c)
       /\ \A c \in Controls : AllTheTime("control", c) =>
            c \in snapshot \/ (pc \in AfterFlags /\ <<"skipped", c>> \in gaps)
  /\ pc \in AfterFlags => \A c \in snapshot : SomeTime("on", FlagOf[c])

CoverageKnown ==
  pc \in AfterCoverage => \A c \in Controls :
    AllTheTime("control", c) /\ AllTheTime("incomplete", PolicyOf[c]) =>
      <<"policy", PolicyOf[c]>> \in gaps

FindingsKnown ==
  /\ pc \in AfterScan =>
       /\ \A f \in findings \cup suppressed : f.control = NoControl \/ f.control \in snapshot
       /\ readable => OfControls(snapshot) \subseteq findings \cup suppressed
  /\ pc \in AfterReview /\ readable => \A c \in snapshot :
       /\ c \in Reviewed => answered \/ <<"semantic", "review">> \in gaps
       /\ c \in Asking => \E f \in findings \cup suppressed : f.control = c

Suppressions ==
  /\ pc \notin AfterExceptions => suppressed = {}
  /\ pc \in AfterExceptions =>
       /\ \A f \in suppressed : \E g \in Grants : SomeTime("granted", g) /\ Matches(g, f)
       /\ \A f \in findings : \A g \in Grants : Matches(g, f) => ~AllTheTime("granted", g)

ReviewInv == RulesKnown /\ SnapshotKnown /\ CoverageKnown /\ FindingsKnown /\ Suppressions

IInv == TypeOK /\ CatalogInv /\ History /\ ReviewInv
-------------------------------------------------------------------------------
(***************************************************************************)
(* What the tables say, fact by fact.                                      *)
(***************************************************************************)
LEMMA FacingIs ==
  /\ \A c \in Controls : <<"control", c>> \in Facing <=> c \in active
  /\ \A p \in Policies : <<"incomplete", p>> \in Facing <=> p \in incomplete
  /\ \A f \in Flags : <<"on", f>> \in Facing <=> f \notin off
  /\ \A g \in Grants : <<"granted", g>> \in Facing <=> g \in Granted
  /\ \A v \in PackVersions : <<"pack", v>> \in Facing <=> v \in ActivePacks
BY DEF Facing

LEMMA FacingType ==
  ASSUME TypeOK
  PROVE  Facing \subseteq Facts
BY DEF TypeOK, Facing, Facts, Granted, ActivePacks

(* The facts a review reads from, in the form in which it needs them.      *)
LEMMA Reading ==
  ASSUME History, TypeOK
  PROVE  /\ \A c \in Controls : AllTheTime("control", c) => c \in active
         /\ \A p \in Policies : AllTheTime("incomplete", p) => p \in incomplete
         /\ \A g \in Grants : AllTheTime("granted", g) => g \in Granted
         /\ \A v \in PackVersions : AllTheTime("pack", v) => v \in ActivePacks
         /\ \A c \in active : SomeTime("control", c)
         /\ \A f \in Flags : f \notin off => SomeTime("on", f)
         /\ \A g \in Granted : g \in Grants /\ SomeTime("granted", g)
         /\ \A v \in ActivePacks : SomeTime("pack", v)
<1>1. active \subseteq Controls /\ Granted \subseteq Grants /\ ActivePacks \subseteq PackVersions
  BY DEF TypeOK, Granted, ActivePacks
<1> QED
  BY <1>1, FacingIs DEF History, AllTheTime, SomeTime

(* History only grows on one side and shrinks on the other.                *)
LEMMA Observing ==
  ASSUME History, Observe
  PROVE  always' \subseteq always /\ ever \subseteq ever' /\ History'
BY DEF History, Observe

(* So what a review knows stays true while administrators work.            *)
LEMMA ReviewInvStays ==
  ASSUME ReviewInv, UNCHANGED reviewVars, always' \subseteq always, ever \subseteq ever'
  PROVE  ReviewInv'
<1>1. /\ UNCHANGED <<pc, readable, rules, snapshot, gaps>>
      /\ UNCHANGED <<findings, suppressed, answered>>
  BY DEF reviewVars
<1>2. RulesKnown'
  BY <1>1 DEF ReviewInv, RulesKnown, AllTheTime, SomeTime
<1>3. SnapshotKnown'
  BY <1>1 DEF ReviewInv, SnapshotKnown, AllTheTime, SomeTime
<1>4. CoverageKnown'
  BY <1>1 DEF ReviewInv, CoverageKnown, AllTheTime
<1>5. FindingsKnown'
  BY <1>1 DEF ReviewInv, FindingsKnown, OfControls
<1>6. Suppressions'
  BY <1>1 DEF ReviewInv, Suppressions, AllTheTime, SomeTime, Matches
<1> QED
  BY <1>2, <1>3, <1>4, <1>5, <1>6 DEF ReviewInv
-------------------------------------------------------------------------------
(***************************************************************************)
(* The catalog.                                                            *)
(***************************************************************************)
LEMMA NoTaskType == NoTask \in Tasks /\ NoTask.kind = "none"
BY DEF NoTask, Tasks, PackStates

(* Exceptions touch neither packs nor chunks.                              *)
LEMMA GrantsChange ==
  ASSUME CatalogTypeOK, CatalogInv, NEW g \in Grants,
         SaveException(g) \/ RevokeException(g) \/ ExpireException(g)
  PROVE  CatalogTypeOK' /\ CatalogInv'
<1>1. UNCHANGED <<pack, regulation, chunk, task, partial>>
  BY DEF SaveException, RevokeException, ExpireException
<1>2. grant' \in [Grants -> GrantStates]
  BY DEF CatalogTypeOK, GrantStates, SaveException, RevokeException, ExpireException
<1>3. CatalogTypeOK'
  BY <1>1, <1>2 DEF CatalogTypeOK
<1>4. CatalogInv'
  BY <1>1 DEF CatalogInv, TaskFits, PacksFollow, OnePackVersion, ChunksPending,
              ActivePacks, StoredChunks
<1> QED
  BY <1>3, <1>4

LEMMA SavePackKeeps ==
  ASSUME CatalogTypeOK, CatalogInv, NEW v \in PackVersions,
         NEW s \in {"draft", "active", "retired"}, SavePack(v, s)
  PROVE  CatalogTypeOK' /\ CatalogInv'
<1>1. ActivePacks \subseteq PackVersions
  BY DEF ActivePacks
<1>2. task' \in Tasks /\ task'.kind = "pack" /\ task'.status = s
  BY <1>1 DEF SavePack, Tasks, PackStates
<1>3. s = "active" => task'.drop = ActivePacks
  BY DEF SavePack
<1>4. UNCHANGED <<grant, pack, regulation, chunk, partial>> /\ task.kind = "none"
  BY NoTaskType DEF SavePack, Idle
<1>5. CatalogTypeOK'
  BY <1>2, <1>4 DEF CatalogTypeOK
<1>6. CatalogInv'
  BY <1>2, <1>3, <1>4 DEF CatalogInv, TaskFits, PacksFollow, OnePackVersion, ChunksPending,
                         ActivePacks, StoredChunks, PackStates
<1> QED
  BY <1>5, <1>6

LEMMA RetirePackKeeps ==
  ASSUME CatalogTypeOK, CatalogInv, RetirePack
  PROVE  CatalogTypeOK' /\ CatalogInv'
<1>1. PICK v \in task.drop : /\ pack' = [pack EXCEPT ![v] = "retired"]
                             /\ task' = [task EXCEPT !.drop = @ \ {v}]
  BY DEF RetirePack
<1>2. UNCHANGED <<grant, regulation, chunk, partial>> /\ task.kind = "pack"
  BY DEF RetirePack
<1>3. /\ task' \in Tasks /\ task'.drop = task.drop \ {v}
      /\ task'.kind = "pack" /\ task'.status = task.status
  BY <1>1, <1>2 DEF CatalogTypeOK, Tasks
<1>4. pack' \in [PackVersions -> PackStates] /\ ActivePacks' \subseteq ActivePacks \ {v}
  BY <1>1 DEF CatalogTypeOK, PackStates, ActivePacks
<1>5. CatalogTypeOK'
  BY <1>2, <1>3, <1>4 DEF CatalogTypeOK
<1>6. CatalogInv'
  BY <1>2, <1>3, <1>4 DEF CatalogInv, TaskFits, PacksFollow, OnePackVersion, ChunksPending,
                         StoredChunks
<1> QED
  BY <1>5, <1>6

LEMMA PutPackKeeps ==
  ASSUME CatalogTypeOK, CatalogInv, PutPack
  PROVE  CatalogTypeOK' /\ CatalogInv'
<1>1. PICK v \in task.put : pack' = [pack EXCEPT ![v] = task.status]
  BY DEF PutPack
<1>2. /\ task' = NoTask /\ UNCHANGED <<grant, regulation, chunk, partial>>
      /\ task.kind = "pack" /\ task.drop = {} /\ task.status \in PackStates
  BY DEF PutPack, CatalogInv, TaskFits
<1>3. pack' \in [PackVersions -> PackStates]
  BY <1>1, <1>2 DEF CatalogTypeOK
<1>4. OnePackVersion'
  <2>1. CASE task.status = "active"
    <3>1. ActivePacks = {}
      BY <1>2, <2>1 DEF CatalogInv, PacksFollow
    <3>2. ActivePacks' \subseteq {v}
      BY <1>1, <3>1 DEF ActivePacks, CatalogTypeOK
    <3> QED
      BY <3>2 DEF OnePackVersion
  <2>2. CASE task.status # "active"
    <3>1. ActivePacks' \subseteq ActivePacks
      BY <1>1, <2>2 DEF ActivePacks, CatalogTypeOK
    <3> QED
      BY <3>1 DEF OnePackVersion, CatalogInv
  <2> QED
    BY <2>1, <2>2
<1>5. CatalogTypeOK'
  BY <1>2, <1>3, NoTaskType DEF CatalogTypeOK
<1>6. CatalogInv'
  BY <1>2, <1>4, NoTaskType DEF CatalogInv, TaskFits, PacksFollow, ChunksPending, StoredChunks
<1> QED
  BY <1>5, <1>6

LEMMA RegulationRequestKeeps ==
  ASSUME CatalogTypeOK, CatalogInv, CatalogAssumption, NEW s \in Statuses,
         (\E text \in Texts : SaveRegulation(s, text)) \/ MoveRegulation(s)
  PROVE  CatalogTypeOK' /\ CatalogInv'
<1>1. StoredChunks \subseteq Chunks
  BY DEF StoredChunks
<1>2. /\ task' \in Tasks /\ task'.kind = "regulation" /\ task'.status = s
      /\ StoredChunks \subseteq task'.drop \cup task'.put
  <2>1. CASE \E text \in Texts : SaveRegulation(s, text)
    BY <1>1, <2>1 DEF SaveRegulation, Tasks, CatalogAssumption
  <2>2. CASE MoveRegulation(s)
    BY <1>1, <2>2 DEF MoveRegulation, Tasks
  <2> QED
    BY <2>1, <2>2
<1>3. regulation' = s /\ partial' = FALSE /\ UNCHANGED <<grant, pack, chunk>>
  BY DEF SaveRegulation, MoveRegulation
<1>4. CatalogTypeOK'
  BY <1>2, <1>3 DEF CatalogTypeOK
<1>5. CatalogInv'
  BY <1>2, <1>3 DEF CatalogInv, TaskFits, PacksFollow, OnePackVersion, ChunksPending,
                    ActivePacks, StoredChunks
<1> QED
  BY <1>4, <1>5

LEMMA DropChunkKeeps ==
  ASSUME CatalogTypeOK, CatalogInv, DropChunk
  PROVE  CatalogTypeOK' /\ CatalogInv'
<1>1. PICK k \in task.drop : /\ chunk' = [chunk EXCEPT ![k] = "none"]
                             /\ task' = [task EXCEPT !.drop = @ \ {k}]
  BY DEF DropChunk
<1>2. UNCHANGED <<grant, pack, regulation, partial>> /\ task.kind = "regulation"
  BY DEF DropChunk
<1>3. /\ task' \in Tasks /\ task'.drop = task.drop \ {k} /\ task'.put = task.put
      /\ task'.kind = "regulation" /\ task'.status = task.status
  BY <1>1, <1>2 DEF CatalogTypeOK, Tasks
<1>4. /\ chunk' \in [Chunks -> Statuses \cup {"none"}]
      /\ StoredChunks' \subseteq StoredChunks \ {k}
      /\ \A l \in StoredChunks' : chunk'[l] = chunk[l]
  BY <1>1 DEF CatalogTypeOK, StoredChunks
<1>5. CatalogTypeOK'
  BY <1>2, <1>3, <1>4 DEF CatalogTypeOK
<1>6. ChunksPending'
  BY <1>2, <1>3, <1>4 DEF CatalogInv, ChunksPending
<1>7. CatalogInv'
  BY <1>2, <1>3, <1>6 DEF CatalogInv, TaskFits, PacksFollow, OnePackVersion, ActivePacks
<1> QED
  BY <1>5, <1>7

LEMMA PutChunkKeeps ==
  ASSUME CatalogTypeOK, CatalogInv, PutChunk
  PROVE  CatalogTypeOK' /\ CatalogInv'
<1>1. PICK k \in task.put : /\ chunk' = [chunk EXCEPT ![k] = task.status]
                            /\ task' = [task EXCEPT !.put = @ \ {k}]
  BY DEF PutChunk
<1>2. /\ UNCHANGED <<grant, pack, regulation, partial>> /\ task.kind = "regulation"
      /\ task.status \in Statuses /\ task.status = regulation
  BY DEF PutChunk, CatalogInv, TaskFits
<1>3. /\ task' \in Tasks /\ task'.drop = task.drop /\ task'.put = task.put \ {k}
      /\ task'.kind = "regulation" /\ task'.status = task.status
  BY <1>1, <1>2 DEF CatalogTypeOK, Tasks
<1>4. chunk' \in [Chunks -> Statuses \cup {"none"}]
  BY <1>1, <1>2 DEF CatalogTypeOK
<1>5. \A l \in StoredChunks' : \/ l = k /\ chunk'[l] = regulation
                               \/ l # k /\ l \in StoredChunks /\ chunk'[l] = chunk[l]
  BY <1>1, <1>2 DEF CatalogTypeOK, StoredChunks
<1>6. CatalogTypeOK'
  BY <1>2, <1>3, <1>4 DEF CatalogTypeOK
<1>7. ChunksPending'
  BY <1>2, <1>3, <1>5 DEF CatalogInv, ChunksPending
<1>8. CatalogInv'
  BY <1>2, <1>3, <1>7 DEF CatalogInv, TaskFits, PacksFollow, OnePackVersion, ActivePacks
<1> QED
  BY <1>6, <1>8

(* A request ends, or is stopped.                                          *)
LEMMA EndsKeep ==
  ASSUME CatalogTypeOK, CatalogInv, EndChunks \/ Crash
  PROVE  CatalogTypeOK' /\ CatalogInv'
<1>1. task' = NoTask /\ UNCHANGED <<grant, pack, regulation, chunk>>
  BY DEF EndChunks, Crash
<1>2. partial' \in BOOLEAN
  BY DEF EndChunks, Crash, CatalogTypeOK
<1>3. ~partial' => /\ ~partial
                   /\ task.kind = "regulation" => task.drop = {} /\ task.put = {}
  BY DEF EndChunks, Crash
<1>4. CatalogTypeOK'
  BY <1>1, <1>2, NoTaskType DEF CatalogTypeOK
<1>5. ChunksPending'
  BY <1>1, <1>3 DEF CatalogInv, ChunksPending, StoredChunks
<1>6. CatalogInv'
  BY <1>1, <1>5, NoTaskType DEF CatalogInv, TaskFits, PacksFollow, OnePackVersion, ActivePacks
<1> QED
  BY <1>4, <1>6

LEMMA CatalogKeeps ==
  ASSUME CatalogTypeOK, CatalogInv, CatalogAssumption,
         CatalogRequest \/ CatalogStep \/ (\E g \in Grants : ExpireException(g))
  PROVE  CatalogTypeOK' /\ CatalogInv'
<1>1. CASE CatalogRequest
  <2>1. CASE \E g \in Grants : SaveException(g) \/ RevokeException(g)
    BY <2>1, GrantsChange
  <2>2. CASE \E v \in PackVersions : \E s \in {"draft", "active", "retired"} : SavePack(v, s)
    BY <2>2, SavePackKeeps
  <2>3. CASE \E s \in Statuses : \E text \in Texts : SaveRegulation(s, text)
    BY <2>3, RegulationRequestKeeps
  <2>4. CASE \E s \in {"approved", "retired"} : MoveRegulation(s)
    BY <2>4, RegulationRequestKeeps DEF Statuses
  <2> QED
    BY <1>1, <2>1, <2>2, <2>3, <2>4 DEF CatalogRequest
<1>2. CASE CatalogStep
  BY <1>2, RetirePackKeeps, PutPackKeeps, DropChunkKeeps, PutChunkKeeps, EndsKeep DEF CatalogStep
<1>3. CASE \E g \in Grants : ExpireException(g)
  BY <1>3, GrantsChange
<1> QED
  BY <1>1, <1>2, <1>3
-------------------------------------------------------------------------------
(***************************************************************************)
(* The start, and the administrators.                                      *)
(***************************************************************************)
LEMMA InitEstablishes ==
  ASSUME ConstantsAssumption, CatalogsAssumption, Init
  PROVE  IInv
<1>1. /\ pc = "switch" /\ enabled = TRUE /\ partial = FALSE /\ answered = FALSE
      /\ changes = 0 /\ status = "none" /\ task = NoTask /\ ever = Facing /\ always = Facing
      /\ rules = {} /\ snapshot = {} /\ gaps = {} /\ findings = {} /\ suppressed = {}
      /\ context = {}
  BY DEF Init
<1>2. PICK t \in Catalogs :
        /\ grant = t.grant /\ pack = t.pack /\ regulation = t.regulation /\ chunk = t.chunk
        /\ active = t.active /\ incomplete = t.incomplete /\ off = t.off
        /\ readable = t.readable
  BY DEF Init
<1>3. /\ grant \in [Grants -> GrantStates] /\ pack \in [PackVersions -> PackStates]
      /\ regulation \in Statuses \cup {"none"} /\ chunk \in [Chunks -> {"none", regulation}]
      /\ \A u, v \in PackVersions : pack[u] = "active" /\ pack[v] = "active" => u = v
      /\ active \subseteq Controls /\ incomplete \subseteq Policies /\ off \subseteq Flags
      /\ readable \in BOOLEAN
  BY <1>2 DEF CatalogsAssumption
<1>4. chunk \in [Chunks -> Statuses \cup {"none"}]
  BY <1>3
<1>5. CatalogTypeOK
  BY <1>1, <1>3, <1>4, NoTaskType DEF CatalogTypeOK
<1>6. CatalogInv
  BY <1>1, <1>3, NoTaskType DEF CatalogInv, TaskFits, PacksFollow, OnePackVersion,
                                ChunksPending, ActivePacks, StoredChunks
<1>7. Facing \subseteq Facts
  BY <1>3 DEF Facing, Facts, Granted, ActivePacks
<1>8. TypeOK
  <2>1. changes \in 0..MaxChanges
    BY <1>1 DEF ConstantsAssumption
  <2>2. pc \in Places /\ ever \subseteq Facts /\ always \subseteq Facts
    BY <1>1, <1>7 DEF Places
  <2> QED
    BY <1>1, <1>3, <1>5, <2>1, <2>2 DEF TypeOK
<1>9. History
  BY <1>1 DEF History
<1>10. ReviewInv
  BY <1>1 DEF ReviewInv, RulesKnown, SnapshotKnown, CoverageKnown, FindingsKnown, Suppressions,
       AfterRules, AfterControls, AfterCoverage, AfterFlags, AfterScan, AfterReview, AfterExceptions
<1> QED
  BY <1>6, <1>8, <1>9, <1>10 DEF IInv

(* Changes of the tables outside the catalog.                              *)
LEMMA TablesKeep ==
  ASSUME IInv, AdminStep, CatalogAssumption, ConstantsAssumption
  PROVE  /\ CatalogTypeOK' /\ CatalogInv'
         /\ enabled' \in BOOLEAN /\ active' \subseteq Controls
         /\ incomplete' \subseteq Policies /\ off' \subseteq Flags
         /\ changes' \in 0..MaxChanges
<1>1. /\ CatalogTypeOK /\ CatalogInv /\ enabled \in BOOLEAN /\ active \subseteq Controls
      /\ incomplete \subseteq Policies /\ off \subseteq Flags
      /\ changes \in 0..MaxChanges /\ MaxChanges \in Nat
  BY DEF IInv, TypeOK, ConstantsAssumption
<1>2. ASSUME UNCHANGED catalogVars PROVE CatalogTypeOK' /\ CatalogInv'
  <2>1. CatalogTypeOK'
    BY <1>1, <1>2 DEF catalogVars, CatalogTypeOK
  <2>2. CatalogInv'
    BY <1>1, <1>2 DEF catalogVars, CatalogInv, TaskFits, PacksFollow, OnePackVersion,
                      ChunksPending, ActivePacks, StoredChunks
  <2> QED
    BY <2>1, <2>2
<1>3. ASSUME CatalogRequest \/ CatalogStep \/ (\E g \in Grants : ExpireException(g))
      PROVE  CatalogTypeOK' /\ CatalogInv'
  BY <1>1, <1>3, CatalogKeeps
<1>4. changes' \in 0..MaxChanges
  <2>1. CASE Request
    BY <1>1, <2>1 DEF Request
  <2>2. CASE UNCHANGED changes
    BY <1>1, <2>2
  <2> QED
    BY <2>1, <2>2 DEF AdminStep
<1>5. ASSUME InCatalog
      PROVE  UNCHANGED <<enabled, active, incomplete, off>>
  BY <1>5 DEF InCatalog
<1>6. \/ /\ UNCHANGED catalogVars
         /\ \/ \E c \in Controls : ChangeControl(c)
            \/ \E p \in Policies : ChangeCoverage(p)
            \/ \E f \in Flags : ChangeFlag(f)
            \/ ChangeSwitch
      \/ /\ InCatalog
         /\ CatalogRequest \/ CatalogStep \/ (\E g \in Grants : ExpireException(g))
  <2>1. CASE Request
    BY <2>1 DEF Request, ChangeControl, ChangeCoverage, ChangeFlag, ChangeSwitch
  <2>2. CASE CatalogStep /\ InCatalog /\ UNCHANGED changes
    BY <2>2
  <2> QED
    BY <2>1, <2>2 DEF AdminStep
<1>7. /\ enabled' \in BOOLEAN /\ active' \subseteq Controls
      /\ incomplete' \subseteq Policies /\ off' \subseteq Flags
  <2>1. CASE \E c \in Controls : ChangeControl(c)
    BY <1>1, <2>1 DEF ChangeControl
  <2>2. CASE \E p \in Policies : ChangeCoverage(p)
    BY <1>1, <2>2 DEF ChangeCoverage
  <2>3. CASE \E f \in Flags : ChangeFlag(f)
    BY <1>1, <2>3 DEF ChangeFlag
  <2>4. CASE ChangeSwitch
    BY <1>1, <2>4 DEF ChangeSwitch
  <2> QED
    BY <1>1, <1>5, <1>6, <2>1, <2>2, <2>3, <2>4
<1> QED
  BY <1>2, <1>3, <1>4, <1>6, <1>7

LEMMA AdminKeeps ==
  ASSUME IInv, AdminStep, CatalogAssumption, ConstantsAssumption
  PROVE  IInv'
<1>1. /\ CatalogTypeOK' /\ CatalogInv' /\ enabled' \in BOOLEAN /\ active' \subseteq Controls
      /\ incomplete' \subseteq Policies /\ off' \subseteq Flags /\ changes' \in 0..MaxChanges
  BY TablesKeep
<1>2. UNCHANGED reviewVars /\ Observe
  BY DEF AdminStep
<1>3. Facing' \subseteq Facts
  BY <1>1 DEF Facing, Facts, Granted, ActivePacks
<1>4. TypeOK'
  <2>1. UNCHANGED <<pc, readable, rules, snapshot, gaps, findings, suppressed, context, status, answered>>
    BY <1>2 DEF reviewVars
  <2>2. ever' \subseteq Facts /\ always' \subseteq Facts
    BY <1>2, <1>3 DEF Observe, IInv, TypeOK
  <2> QED
    BY <1>1, <2>1, <2>2 DEF IInv, TypeOK
<1>5. History' /\ ReviewInv'
  BY <1>2, Observing, ReviewInvStays DEF IInv
<1> QED
  BY <1>1, <1>4, <1>5 DEF IInv
-------------------------------------------------------------------------------
(***************************************************************************)
(* The review, which changes its own variables only.                       *)
(***************************************************************************)
ReviewTypeOK ==
  /\ pc \in Places
  /\ rules \subseteq PackVersions /\ snapshot \subseteq Controls /\ gaps \subseteq Gaps
  /\ findings \subseteq Findings /\ suppressed \subseteq Findings /\ context \subseteq Chunks
  /\ status \in {"none", "completed", "completed_with_triage_error", "skipped_disabled"}
  /\ answered \in BOOLEAN

Unread == UNCHANGED <<tableVars, changes, readable, ever, always>>

LEMMA CheckSwitchKeeps ==
  ASSUME IInv, CheckSwitch, Unread
  PROVE  ReviewTypeOK' /\ ReviewInv'
<1>1. ReviewTypeOK'
  BY DEF IInv, TypeOK, ReviewTypeOK, CheckSwitch, Places
<1>2. pc' \in {"rules", "skipped"} /\ pc = "switch" /\ UNCHANGED suppressed
  BY DEF CheckSwitch
<1>3. ReviewInv'
  BY <1>2 DEF IInv, ReviewInv, RulesKnown, SnapshotKnown, CoverageKnown, FindingsKnown, Suppressions,
       AfterRules, AfterControls, AfterCoverage, AfterFlags, AfterScan, AfterReview, AfterExceptions
<1> QED
  BY <1>1, <1>3

LEMMA ReadRulesKeeps ==
  ASSUME IInv, ReadRules, Unread
  PROVE  ReviewTypeOK' /\ ReviewInv'
<1>1. ReviewTypeOK'
  BY DEF IInv, TypeOK, ReviewTypeOK, ReadRules, Places, ActivePacks
<1>2. /\ pc' = "controls" /\ pc = "rules" /\ rules' = ActivePacks
      /\ UNCHANGED <<suppressed, ever, always>>
  BY DEF ReadRules, Unread
<1>3. RulesKnown'
  BY <1>2, Reading DEF IInv, RulesKnown, AllTheTime, SomeTime
<1>4. SnapshotKnown' /\ CoverageKnown' /\ FindingsKnown' /\ Suppressions'
  BY <1>2 DEF IInv, ReviewInv, SnapshotKnown, CoverageKnown, FindingsKnown, Suppressions,
       AfterControls, AfterCoverage, AfterFlags, AfterScan, AfterReview, AfterExceptions
<1> QED
  BY <1>1, <1>3, <1>4 DEF ReviewInv

LEMMA ReadControlsKeeps ==
  ASSUME IInv, ReadControls, Unread
  PROVE  ReviewTypeOK' /\ ReviewInv'
<1>1. ReviewTypeOK'
  BY DEF IInv, TypeOK, ReviewTypeOK, ReadControls, Places
<1>2. /\ pc' = "coverage" /\ pc = "controls" /\ snapshot' = active
      /\ UNCHANGED <<rules, suppressed, ever, always>>
  BY DEF ReadControls, Unread
<1>3. RulesKnown'
  BY <1>2 DEF IInv, ReviewInv, RulesKnown, AllTheTime, SomeTime, AfterRules
<1>4. SnapshotKnown'
  BY <1>2, Reading DEF IInv, SnapshotKnown, AllTheTime, SomeTime, AfterFlags, AfterScan, AfterReview,
       AfterExceptions
<1>5. CoverageKnown' /\ FindingsKnown' /\ Suppressions'
  BY <1>2 DEF IInv, ReviewInv, CoverageKnown, FindingsKnown, Suppressions,
       AfterCoverage, AfterFlags, AfterScan, AfterReview, AfterExceptions
<1> QED
  BY <1>1, <1>3, <1>4, <1>5 DEF ReviewInv

LEMMA ReadCoverageKeeps ==
  ASSUME IInv, ConstantsAssumption, ReadCoverage, Unread
  PROVE  ReviewTypeOK' /\ ReviewInv'
<1>1. gaps' \subseteq Gaps
  BY DEF IInv, TypeOK, ReadCoverage, Gaps, ConstantsAssumption
<1>2. /\ pc' = "flags" /\ pc = "coverage"
      /\ gaps' = {<<"policy", PolicyOf[c]>> : c \in {e \in snapshot : PolicyOf[e] \in incomplete}}
      /\ UNCHANGED <<rules, snapshot, findings, suppressed, context, status, answered, ever, always>>
  BY DEF ReadCoverage, Unread
<1>3. ReviewTypeOK'
  BY <1>1, <1>2 DEF IInv, TypeOK, ReviewTypeOK, Places
<1>4. RulesKnown'
  BY <1>2 DEF IInv, ReviewInv, RulesKnown, AllTheTime, SomeTime, AfterRules, AfterControls
<1>5. SnapshotKnown'
  BY <1>2 DEF IInv, ReviewInv, SnapshotKnown, AllTheTime, SomeTime, AfterControls, AfterCoverage,
       AfterFlags, AfterScan, AfterReview, AfterExceptions
<1>6. CoverageKnown'
  <2> SUFFICES ASSUME NEW c \in Controls, AllTheTime("control", c),
                      AllTheTime("incomplete", PolicyOf[c])
               PROVE  <<"policy", PolicyOf[c]>> \in gaps'
    BY <1>2 DEF CoverageKnown, AllTheTime
  <2>1. c \in snapshot
    BY <1>2 DEF IInv, ReviewInv, SnapshotKnown, AfterControls, AfterFlags, AfterScan,
                AfterReview, AfterExceptions, AfterCoverage
  <2>2. PolicyOf[c] \in incomplete
    BY Reading DEF IInv, ConstantsAssumption
  <2> QED
    BY <1>2, <2>1, <2>2
<1>7. FindingsKnown' /\ Suppressions'
  BY <1>2 DEF IInv, ReviewInv, FindingsKnown, Suppressions, AfterScan, AfterReview, AfterExceptions
<1> QED
  BY <1>3, <1>4, <1>5, <1>6, <1>7 DEF ReviewInv

LEMMA ReadFlagsKeeps ==
  ASSUME IInv, ConstantsAssumption, ReadFlags, Unread
  PROVE  ReviewTypeOK' /\ ReviewInv'
<1>1. /\ pc' = "scan" /\ pc = "flags"
      /\ gaps' = gaps \cup {<<"skipped", c>> : c \in Skipped} /\ snapshot' = snapshot \ Skipped
      /\ UNCHANGED <<rules, findings, suppressed, context, status, answered, ever, always>>
  BY DEF ReadFlags, Unread
<1>2. ReviewTypeOK'
  BY <1>1 DEF IInv, TypeOK, ReviewTypeOK, Places, Gaps, Skipped
<1>3. RulesKnown'
  BY <1>1 DEF IInv, ReviewInv, RulesKnown, AllTheTime, SomeTime, AfterRules, AfterControls, AfterCoverage
<1>4. /\ \A c \in snapshot : SomeTime("control", c)
      /\ \A c \in Controls : AllTheTime("control", c) => c \in snapshot
      /\ snapshot \subseteq Controls
  BY <1>1 DEF IInv, TypeOK, ReviewInv, SnapshotKnown, AfterControls, AfterCoverage,
       AfterFlags, AfterScan, AfterReview, AfterExceptions
<1>5. \A c \in snapshot \ Skipped : SomeTime("on", FlagOf[c])
  BY <1>4, Reading DEF IInv, Skipped, ConstantsAssumption
<1>6. SnapshotKnown'
  BY <1>1, <1>4, <1>5 DEF SnapshotKnown, AllTheTime, SomeTime, AfterControls, AfterCoverage, AfterFlags
<1>7. CoverageKnown'
  BY <1>1 DEF IInv, ReviewInv, CoverageKnown, AllTheTime, AfterCoverage
<1>8. FindingsKnown' /\ Suppressions'
  BY <1>1 DEF IInv, ReviewInv, FindingsKnown, Suppressions, AfterScan, AfterReview, AfterExceptions
<1> QED
  BY <1>2, <1>3, <1>6, <1>7, <1>8 DEF ReviewInv

(* Past the reading of the flags neither the snapshot nor a gap is lost.   *)
LEMMA ReadsStay ==
  ASSUME IInv, pc \in AfterFlags, gaps \subseteq gaps', UNCHANGED <<rules, snapshot, ever, always>>,
         pc' \in AfterFlags
  PROVE  RulesKnown' /\ SnapshotKnown' /\ CoverageKnown'
<1>1. RulesKnown'
  BY DEF IInv, ReviewInv, RulesKnown, AllTheTime, SomeTime, AfterRules, AfterControls, AfterCoverage
<1>2. SnapshotKnown'
  BY DEF IInv, ReviewInv, SnapshotKnown, AllTheTime, SomeTime, AfterControls, AfterCoverage
<1>3. CoverageKnown'
  BY DEF IInv, ReviewInv, CoverageKnown, AllTheTime, AfterCoverage
<1> QED
  BY <1>1, <1>2, <1>3

LEMMA ScanKeeps ==
  ASSUME IInv, ConstantsAssumption, Scan, Unread
  PROVE  ReviewTypeOK' /\ ReviewInv'
<1>1. /\ pc' = "semantic" /\ pc = "scan"
      /\ findings' = IF readable THEN OfRules \cup OfControls(snapshot) ELSE {}
      /\ UNCHANGED <<rules, snapshot, gaps, suppressed, context, status, answered,
                     readable, ever, always>>
  BY DEF Scan, Unread
<1>2. \A f \in OfRules \cup OfControls(snapshot) :
        f \in Findings /\ (f.control = NoControl \/ f.control \in snapshot)
  BY DEF OfRules, OfControls, Findings, Values, ConstantsAssumption
<1>3. ReviewTypeOK'
  BY <1>1, <1>2 DEF IInv, TypeOK, ReviewTypeOK, Places
<1>4. RulesKnown' /\ SnapshotKnown' /\ CoverageKnown'
  BY <1>1, ReadsStay DEF AfterFlags, AfterScan
<1>5. suppressed = {}
  BY <1>1 DEF IInv, ReviewInv, Suppressions, AfterExceptions
<1>6. FindingsKnown'
  BY <1>1, <1>2, <1>5 DEF FindingsKnown, AfterReview, AfterExceptions, OfControls
<1>7. Suppressions'
  BY <1>1, <1>5 DEF Suppressions, AfterExceptions
<1> QED
  BY <1>3, <1>4, <1>6, <1>7 DEF ReviewInv

LEMMA ScanFailsKeeps ==
  ASSUME IInv, ScanFails, Unread
  PROVE  ReviewTypeOK' /\ ReviewInv'
<1>1. ReviewTypeOK'
  BY DEF IInv, TypeOK, ReviewTypeOK, ScanFails, Places
<1>2. pc' = "failed" /\ pc = "scan" /\ UNCHANGED suppressed
  BY DEF ScanFails
<1>3. ReviewInv'
  BY <1>2 DEF IInv, ReviewInv, RulesKnown, SnapshotKnown, CoverageKnown, FindingsKnown, Suppressions,
       AfterRules, AfterControls, AfterCoverage, AfterFlags, AfterScan, AfterReview, AfterExceptions
<1> QED
  BY <1>1, <1>3

(* What a semantic scanner reports, or the questions in its place.         *)
LEMMA ReviewKeeps ==
  ASSUME IInv, ConstantsAssumption, Review, Unread
  PROVE  ReviewTypeOK' /\ ReviewInv'
<1>1. /\ pc' = "exceptions" /\ pc = "semantic" /\ answered \in BOOLEAN
      /\ UNCHANGED <<rules, snapshot, suppressed, context, status, readable, ever, always>>
  BY DEF Review, Unread, IInv, TypeOK
<1>2. suppressed = {}
  BY <1>1 DEF IInv, ReviewInv, Suppressions, AfterExceptions
<1>3. snapshot \subseteq Controls /\ findings \subseteq Findings
  BY DEF IInv, TypeOK
<1>4. ASSUME NEW reported \in SUBSET Reportable
      PROVE  /\ \A f \in reported \cup Questions(reported) :
                  f \in Findings /\ f.control \in snapshot
             /\ \A c \in snapshot : c \in Asking =>
                  \E f \in reported \cup Questions(reported) : f.control = c
  <2>1. \A f \in reported : f \in Findings /\ f.control \in snapshot
    BY <1>4 DEF Reportable, ToReview, Findings, Values, ConstantsAssumption
  <2>2. \A f \in Questions(reported) : f \in Findings /\ f.control \in snapshot
    BY <1>3 DEF Questions, Findings
  <2>3. ASSUME NEW c \in snapshot, c \in Asking
        PROVE  \E f \in reported \cup Questions(reported) : f.control = c
    <3>1. CASE \E f \in reported : f.control = c
      BY <3>1
    <3>2. CASE ~\E f \in reported : f.control = c
      <4>1. [control |-> c, value |-> AnyValue] \in Questions(reported)
        BY <2>3, <3>2 DEF Questions
      <4> QED
        BY <4>1
    <3> QED
      BY <3>1, <3>2
  <2> QED
    BY <2>1, <2>2, <2>3
<1>5. /\ gaps \subseteq gaps' /\ gaps' \subseteq gaps \cup {<<"semantic", "review">>}
      /\ answered' \in BOOLEAN
      /\ findings \subseteq findings'
      /\ \A f \in findings' \ findings : f \in Findings /\ f.control \in snapshot
      /\ readable => \A c \in snapshot :
           /\ c \in Reviewed => answered' \/ <<"semantic", "review">> \in gaps'
           /\ c \in Asking => \E f \in findings' : f.control = c
  <2>1. CASE ~(readable /\ ToReview # {})
    <3>1. UNCHANGED <<findings, gaps, answered>>
      BY <2>1 DEF Review
    <3> QED
      BY <1>1, <2>1, <3>1 DEF ToReview
  <2>2. CASE \E reported \in SUBSET Reportable : Answers(reported) /\ UNCHANGED gaps
    <3>1. PICK reported \in SUBSET Reportable : Answers(reported) /\ UNCHANGED gaps
      BY <2>2
    <3> QED
      BY <1>4, <3>1 DEF Answers
  <2>3. CASE /\ findings' = findings \cup Questions({})
             /\ gaps' = gaps \cup {<<"semantic", "review">>}
             /\ UNCHANGED answered
    <3>1. {} \in SUBSET Reportable
      OBVIOUS
    <3> QED
      BY <1>1, <1>4, <2>3, <3>1
  <2> QED
    BY <2>1, <2>2, <2>3 DEF Review
<1>6. ReviewTypeOK'
  BY <1>1, <1>3, <1>5 DEF IInv, TypeOK, ReviewTypeOK, Places, Gaps
<1>7. RulesKnown' /\ SnapshotKnown' /\ CoverageKnown'
  BY <1>1, <1>5, ReadsStay DEF AfterFlags, AfterScan, AfterReview
<1>8. /\ \A f \in findings \cup suppressed : f.control = NoControl \/ f.control \in snapshot
      /\ readable => OfControls(snapshot) \subseteq findings \cup suppressed
  BY <1>1 DEF IInv, ReviewInv, FindingsKnown, AfterScan
<1>9. FindingsKnown'
  BY <1>1, <1>2, <1>5, <1>8 DEF FindingsKnown, OfControls
<1>10. Suppressions'
  BY <1>1, <1>2 DEF Suppressions, AfterExceptions
<1> QED
  BY <1>6, <1>7, <1>9, <1>10 DEF ReviewInv

LEMMA ApplyExceptionsKeeps ==
  ASSUME IInv, ApplyExceptions, Unread
  PROVE  ReviewTypeOK' /\ ReviewInv'
<1>1. /\ pc' = "regulations" /\ pc = "exceptions"
      /\ suppressed' = {f \in findings : \E g \in Granted : Matches(g, f)}
      /\ findings' = findings \ suppressed'
      /\ UNCHANGED <<rules, snapshot, gaps, context, status, answered, readable, ever, always>>
  BY DEF ApplyExceptions, Unread
<1>2. suppressed = {}
  BY <1>1 DEF IInv, ReviewInv, Suppressions, AfterExceptions
<1>3. findings' \cup suppressed' = findings \cup suppressed
  BY <1>1, <1>2
<1>4. ReviewTypeOK'
  BY <1>1 DEF IInv, TypeOK, ReviewTypeOK, Places
<1>5. RulesKnown' /\ SnapshotKnown' /\ CoverageKnown'
  BY <1>1, ReadsStay DEF AfterFlags, AfterScan, AfterReview, AfterExceptions
<1>6. FindingsKnown'
  BY <1>1, <1>3 DEF IInv, ReviewInv, FindingsKnown, AfterScan, AfterReview, AfterExceptions, OfControls
<1>7. Suppressions'
  <2>1. \A f \in suppressed' : \E g \in Grants : SomeTime("granted", g) /\ Matches(g, f)
    BY <1>1, Reading DEF IInv
  <2>2. \A f \in findings' : \A g \in Grants : Matches(g, f) => ~AllTheTime("granted", g)
    BY <1>1, Reading DEF IInv
  <2> QED
    BY <1>1, <2>1, <2>2 DEF Suppressions, AfterExceptions, SomeTime, AllTheTime, Matches
<1> QED
  BY <1>4, <1>5, <1>6, <1>7 DEF ReviewInv

LEMMA SearchAndRecordKeeps ==
  ASSUME IInv, SearchAndRecord, Unread
  PROVE  ReviewTypeOK' /\ ReviewInv'
<1>1. /\ pc' = "done" /\ pc = "regulations"
      /\ UNCHANGED <<rules, snapshot, gaps, findings, suppressed, answered, readable, ever, always>>
      /\ context' \subseteq Chunks /\ status' \in {"completed", "completed_with_triage_error"}
  BY DEF SearchAndRecord, Unread, Citable, Triage
<1>2. ReviewTypeOK'
  BY <1>1 DEF IInv, TypeOK, ReviewTypeOK, Places
<1>3. RulesKnown' /\ SnapshotKnown' /\ CoverageKnown'
  BY <1>1, ReadsStay DEF AfterFlags, AfterScan, AfterReview, AfterExceptions
<1>4. FindingsKnown'
  BY <1>1 DEF IInv, ReviewInv, FindingsKnown, AfterScan, AfterReview, AfterExceptions, OfControls
<1>5. Suppressions'
  BY <1>1 DEF IInv, ReviewInv, Suppressions, AfterExceptions, SomeTime, AllTheTime, Matches
<1> QED
  BY <1>2, <1>3, <1>4, <1>5 DEF ReviewInv

LEMMA ReviewStepKeeps ==
  ASSUME IInv, ConstantsAssumption, ReviewStep
  PROVE  IInv'
<1>1. Unread
  BY DEF ReviewStep, Unread
<1>2. ReviewTypeOK' /\ ReviewInv'
  BY <1>1, CheckSwitchKeeps, ReadRulesKeeps, ReadControlsKeeps, ReadCoverageKeeps, ReadFlagsKeeps,
     ScanKeeps, ScanFailsKeeps, ReviewKeeps, ApplyExceptionsKeeps, SearchAndRecordKeeps
     DEF ReviewStep
<1>3. /\ UNCHANGED <<grant, pack, regulation, chunk, task, partial>>
      /\ UNCHANGED <<enabled, active, incomplete, off, changes, readable, ever, always>>
  BY <1>1 DEF Unread, tableVars, catalogVars
<1>4. CatalogTypeOK' /\ CatalogInv'
  BY <1>3 DEF IInv, TypeOK, CatalogTypeOK, CatalogInv, TaskFits, PacksFollow, OnePackVersion,
              ChunksPending, ActivePacks, StoredChunks
<1>5. TypeOK'
  BY <1>2, <1>3, <1>4 DEF IInv, TypeOK, ReviewTypeOK
<1>6. History'
  BY <1>3 DEF IInv, History, Facing, Granted, ActivePacks
<1> QED
  BY <1>2, <1>4, <1>5, <1>6 DEF IInv
-------------------------------------------------------------------------------
(***************************************************************************)
(* THEOREMS                                                                *)
(***************************************************************************)
LEMMA StutterKeeps ==
  ASSUME IInv, UNCHANGED vars
  PROVE  IInv'
<1>1. /\ UNCHANGED <<grant, pack, regulation, chunk, task, partial>>
      /\ UNCHANGED <<enabled, active, incomplete, off, changes, ever, always>>
      /\ UNCHANGED reviewVars
  BY DEF vars, tableVars, catalogVars
<1>2. UNCHANGED <<pc, readable, rules, snapshot, gaps, findings, suppressed, context, status, answered>>
  BY <1>1 DEF reviewVars
<1>3. CatalogTypeOK' /\ CatalogInv'
  BY <1>1 DEF IInv, TypeOK, CatalogTypeOK, CatalogInv, TaskFits, PacksFollow, OnePackVersion,
              ChunksPending, ActivePacks, StoredChunks
<1>4. TypeOK'
  BY <1>1, <1>2, <1>3 DEF IInv, TypeOK
<1>5. History' /\ ReviewInv'
  BY <1>1, ReviewInvStays DEF IInv, History, Facing, Granted, ActivePacks
<1> QED
  BY <1>3, <1>4, <1>5 DEF IInv

(* The invariant that carries the others: what a review has read so far,   *)
(* against all that was true since it started.                             *)
THEOREM Invariant == Spec => []IInv
<1>1. Init => IInv
  BY InitEstablishes, ConstantsAssumption, CatalogsAssumption
<1>2. IInv /\ [Next]_vars => IInv'
  BY AdminKeeps, ReviewStepKeeps, StutterKeeps, ConstantsAssumption, CatalogAssumption DEF Next
<1> QED
  BY <1>1, <1>2, PTL DEF Spec

(* Every state of the tables, of the request and of the review is          *)
(* well-formed.                                                            *)
THEOREM TypeCorrect == Spec => []TypeOK
BY Invariant, PTL DEF IInv

(* Reviews run one version of a rule pack, however activations crash.      *)
THEOREM OneVersionOfAPack == Spec => []OnePackVersion
BY Invariant, PTL DEF IInv, CatalogInv

(* The chunks of a reference source end with its status.                   *)
THEOREM ChunksFollowTheirSource == Spec => []ChunksFollow
<1>1. IInv => ChunksFollow
  BY NoTaskType DEF IInv, CatalogInv, ChunksPending, ChunksFollow, Idle
<1> QED
  BY <1>1, Invariant, PTL

(* What was active all the time was applied, or is declared as skipped.    *)
THEOREM ActiveControlsAreAccounted == Spec => []ActiveIsAccounted
<1>1. IInv => ActiveIsAccounted
  BY DEF IInv, ReviewInv, RulesKnown, SnapshotKnown, FindingsKnown, ActiveIsAccounted, Applied,
         OfControls, AfterRules, AfterControls, AfterCoverage, AfterFlags, AfterScan,
         AfterReview, AfterExceptions
<1> QED
  BY <1>1, Invariant, PTL

(* Nothing on record comes from what was never in force.                   *)
THEOREM OnlyWhatWasInForce == Spec => []OnlyInForce
<1>1. IInv => OnlyInForce
  BY DEF IInv, ReviewInv, RulesKnown, SnapshotKnown, FindingsKnown, OnlyInForce,
         AfterRules, AfterControls, AfterCoverage, AfterFlags, AfterScan,
         AfterReview, AfterExceptions
<1> QED
  BY <1>1, Invariant, PTL

(* Findings are suppressed by exceptions that were granted, and by no      *)
(* others.                                                                 *)
THEOREM SuppressionsAreGranted == Spec => []SuppressionIsGranted
<1>1. IInv => SuppressionIsGranted
  BY DEF IInv, ReviewInv, Suppressions, SuppressionIsGranted, AfterExceptions
<1> QED
  BY <1>1, Invariant, PTL

(* Incomplete policies with an active control are declared.                *)
THEOREM IncompletePoliciesAreDeclared == Spec => []IncompleteIsDeclared
<1>1. IInv => IncompleteIsDeclared
  BY DEF IInv, ReviewInv, CoverageKnown, IncompleteIsDeclared,
         AfterCoverage, AfterFlags, AfterScan, AfterReview, AfterExceptions
<1> QED
  BY <1>1, Invariant, PTL
===============================================================================
