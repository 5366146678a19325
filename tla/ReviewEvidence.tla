---------------------------- MODULE ReviewEvidence ----------------------------
(***************************************************************************)
(* The evidence of a review: process_review() of orchestrator.py reads the *)
(* switch, the rule packs, the controls, the coverage of their policies,   *)
(* the feature flags, the exceptions and the reference sources one after   *)
(* the other, while administrators change them, and records what it saw.   *)
(*                                                                         *)
(* One review.  A step reads one table.  What changed files there are is   *)
(* DiffFetch's matter, the operations on one control ControlLifecycle's.   *)
(***************************************************************************)
EXTENDS Catalog

CONSTANTS
  Controls,     \* control versions whose scope includes the pull request
  Policies, PolicyOf,
  Flags, FlagOf,        \* the scanner flag of the type of a control
  Reviewed, Asking,     \* the semantic_review and the manual_review controls
  Hits,         \* what deterministic detectors find in the changed files
  Semantic,     \* what the semantic scanner may report
  AnyValue,          \* an approved value that matches all, the value of no match
  NoControl,    \* the control of a finding of the built-in rules
  Catalogs,     \* contents of the tables when the review starts, and of the diff
  MaxChanges    \* requests of administrators during the review: a bound

Values == {f.value : f \in Hits \cup Semantic}
Findings == [control : Controls \cup {NoControl}, value : Values \cup {AnyValue}]

ASSUME ConstantsAssumption ==
  /\ PolicyOf \in [Controls -> Policies]
  /\ FlagOf \in [Controls -> Flags]
  /\ Reviewed \subseteq Controls /\ Asking \subseteq Controls \ Reviewed
  /\ Hits \subseteq [control : (Controls \ (Reviewed \cup Asking)) \cup {NoControl}, value : Values]
  /\ Semantic \subseteq [control : Reviewed \cup Asking, value : Values]
  /\ \A g \in Grants : g.control \in Controls
  /\ NoControl \notin Controls
  /\ MaxChanges \in Nat

(* When the review starts at most one version of the pack is active, and   *)
(* the chunks follow their document.                                       *)
ASSUME CatalogsAssumption ==
  \A t \in Catalogs :
    /\ t.grant \in [Grants -> GrantStates]
    /\ t.pack \in [PackVersions -> PackStates]
    /\ t.regulation \in Statuses \cup {"none"}
    /\ t.chunk \in [Chunks -> {"none", t.regulation}]
    /\ \A u, v \in PackVersions : t.pack[u] = "active" /\ t.pack[v] = "active" => u = v
    /\ t.active \subseteq Controls /\ t.incomplete \subseteq Policies /\ t.off \subseteq Flags
    /\ t.readable \in BOOLEAN

VARIABLES
  enabled,      \* reviews are switched on
  active,       \* active controls
  incomplete,   \* policies whose coverage is not complete
  off,          \* feature flags that are off
  changes,      \* requests made since the review started
  pc,           \* place in process_review()
  readable,     \* some file of the diff has content to scan
  rules, snapshot, gaps, findings, suppressed, context, status,  \* the evidence
  answered,     \* whether a semantic scanner answered
  ever, always  \* what held at some time, and all the time, since it started

tableVars == <<catalogVars, enabled, active, incomplete, off>>
reviewVars == <<pc, readable, rules, snapshot, gaps, findings, suppressed, context, status, answered>>
vars == <<tableVars, changes, reviewVars, ever, always>>

Places == {"switch", "rules", "controls", "coverage", "flags", "scan", "semantic",
           "exceptions", "regulations", "done", "skipped", "failed"}
Gaps == ({"policy"} \X Policies) \cup ({"skipped"} \X Controls) \cup {<<"semantic", "review">>}
Facts == ({"control"} \X Controls) \cup ({"incomplete"} \X Policies) \cup ({"on"} \X Flags)
           \cup ({"granted"} \X Grants) \cup ({"pack"} \X PackVersions)

(* What the tables say now.                                                *)
Facing ==
  ({"control"} \X active) \cup ({"incomplete"} \X incomplete) \cup ({"on"} \X (Flags \ off))
    \cup ({"granted"} \X Granted) \cup ({"pack"} \X ActivePacks)

TypeOK ==
  /\ CatalogTypeOK
  /\ enabled \in BOOLEAN
  /\ active \subseteq Controls
  /\ incomplete \subseteq Policies
  /\ off \subseteq Flags
  /\ changes \in 0..MaxChanges
  /\ pc \in Places
  /\ readable \in BOOLEAN
  /\ rules \subseteq PackVersions
  /\ snapshot \subseteq Controls
  /\ gaps \subseteq Gaps
  /\ findings \subseteq Findings
  /\ suppressed \subseteq Findings
  /\ context \subseteq Chunks
  /\ status \in {"none", "completed", "completed_with_triage_error", "skipped_disabled"}
  /\ answered \in BOOLEAN
  /\ ever \subseteq Facts
  /\ always \subseteq Facts

Init ==
  /\ \E t \in Catalogs :
       /\ grant = t.grant /\ pack = t.pack /\ regulation = t.regulation /\ chunk = t.chunk
       /\ active = t.active /\ incomplete = t.incomplete /\ off = t.off
       /\ readable = t.readable
  /\ task = NoTask /\ partial = FALSE
  /\ enabled = TRUE
  /\ changes = 0
  /\ pc = "switch" /\ status = "none"
  /\ rules = {} /\ snapshot = {} /\ gaps = {} /\ findings = {} /\ suppressed = {} /\ context = {}
  /\ answered = FALSE
  /\ ever = Facing /\ always = Facing
-------------------------------------------------------------------------------
(***************************************************************************)
(* The review.                                                             *)
(***************************************************************************)
CheckSwitch ==
  /\ pc = "switch"
  /\ IF enabled THEN pc' = "rules" /\ UNCHANGED status
                ELSE pc' = "skipped" /\ status' = "skipped_disabled"
  /\ UNCHANGED <<rules, snapshot, gaps, findings, suppressed, context, answered>>

ReadRules ==
  /\ pc = "rules" /\ pc' = "controls"
  /\ rules' = ActivePacks
  /\ UNCHANGED <<snapshot, gaps, findings, suppressed, context, status, answered>>

(* active_controls() and _applicable_controls()                            *)
ReadControls ==
  /\ pc = "controls" /\ pc' = "coverage"
  /\ snapshot' = active
  /\ UNCHANGED <<rules, gaps, findings, suppressed, context, status, answered>>

Skipped == {c \in snapshot : FlagOf[c] \in off}

(* Wrong variant: controls that will be skipped do not count.              *)
ReadCoverageOfRest ==
  /\ pc = "coverage" /\ pc' = "flags"
  /\ gaps' = {<<"policy", PolicyOf[c]>> : c \in {e \in snapshot \ Skipped : PolicyOf[e] \in incomplete}}
  /\ UNCHANGED <<rules, snapshot, findings, suppressed, context, status, answered>>

(* policy_coverage_gaps()                                                  *)
ReadCoverage ==
  /\ pc = "coverage" /\ pc' = "flags"
  /\ gaps' = {<<"policy", PolicyOf[c]>> : c \in {e \in snapshot : PolicyOf[e] \in incomplete}}
  /\ UNCHANGED <<rules, snapshot, findings, suppressed, context, status, answered>>

(* Wrong variant: the gap names the policy of a control that is skipped.   *)
ReadFlagsLoosely ==
  /\ pc = "flags" /\ pc' = "scan"
  /\ gaps' = gaps \cup {<<"skipped", PolicyOf[c]>> : c \in Skipped}
  /\ snapshot' = snapshot \ Skipped
  /\ UNCHANGED <<rules, findings, suppressed, context, status, answered>>

(* Wrong variant: the gap is noted, the controls run all the same.         *)
ReadFlagsOnly ==
  /\ pc = "flags" /\ pc' = "scan"
  /\ gaps' = gaps \cup {<<"skipped", c>> : c \in Skipped}
  /\ UNCHANGED <<rules, snapshot, findings, suppressed, context, status, answered>>

ReadFlags ==
  /\ pc = "flags" /\ pc' = "scan"
  /\ gaps' = gaps \cup {<<"skipped", c>> : c \in Skipped}
  /\ snapshot' = snapshot \ Skipped
  /\ UNCHANGED <<rules, findings, suppressed, context, status, answered>>

(* One finding per detector and place: what the rules find that are built  *)
(* in, or in a rule pack, and what the detectors of some controls find.    *)
OfRules == {f \in Hits : f.control = NoControl}
OfControls(controls) == {f \in Hits : f.control \in controls}

(* scan()                                                                  *)
Scan ==
  /\ pc = "scan" /\ pc' = "semantic"
  /\ findings' = IF readable THEN OfRules \cup OfControls(snapshot) ELSE {}
  /\ UNCHANGED <<rules, snapshot, gaps, suppressed, context, status, answered>>

(* Semgrep is missing, times out or answers no JSON: ScannerError.         *)
ScanFails ==
  /\ pc = "scan" /\ readable /\ pc' = "failed"
  /\ UNCHANGED <<rules, snapshot, gaps, findings, suppressed, context, status, answered>>

ToReview == snapshot \cap (Reviewed \cup Asking)

(* A manual control that is not represented asks for a human decision.     *)
Questions(reported) ==
  {[control |-> c, value |-> AnyValue] : c \in (snapshot \cap Asking) \ {f.control : f \in reported}}

Answers(reported) ==
  findings' = findings \cup reported \cup Questions(reported) /\ answered' = TRUE
Reportable == {f \in Semantic : f.control \in ToReview}

(* Wrong variant: a scanner that fails leaves no gap.                      *)
ReviewSilently ==
  /\ pc = "semantic" /\ pc' = "exceptions"
  /\ IF readable /\ ToReview # {}
       THEN \/ \E reported \in SUBSET Reportable : Answers(reported)
            \/ findings' = findings \cup Questions({}) /\ UNCHANGED answered
       ELSE UNCHANGED <<findings, answered>>
  /\ UNCHANGED <<rules, snapshot, gaps, suppressed, context, status>>

(* The semantic scanner answers, or it fails or is not configured.         *)
Review ==
  /\ pc = "semantic" /\ pc' = "exceptions"
  /\ IF readable /\ ToReview # {}
       THEN \/ (\E reported \in SUBSET Reportable : Answers(reported)) /\ UNCHANGED gaps
            \/ /\ findings' = findings \cup Questions({})
               /\ gaps' = gaps \cup {<<"semantic", "review">>}
               /\ UNCHANGED answered
       ELSE UNCHANGED <<findings, gaps, answered>>
  /\ UNCHANGED <<rules, snapshot, suppressed, context, status>>

Matches(g, f) == g.control = f.control /\ g.value \in {AnyValue, f.value}

(* Wrong variant: the approved value is not compared.                      *)
ApplyExceptionsLoosely ==
  /\ pc = "exceptions" /\ pc' = "regulations"
  /\ suppressed' = {f \in findings : \E g \in Granted : g.control = f.control}
  /\ findings' = findings \ suppressed'
  /\ UNCHANGED <<rules, snapshot, gaps, context, status, answered>>

(* _apply_exceptions()                                                     *)
ApplyExceptions ==
  /\ pc = "exceptions" /\ pc' = "regulations"
  /\ suppressed' = {f \in findings : \E g \in Granted : Matches(g, f)}
  /\ findings' = findings \ suppressed'
  /\ UNCHANGED <<rules, snapshot, gaps, context, status, answered>>

Citable == {k \in Chunks : chunk[k] = "approved"}   \* search_regulations()

(* Triage reads no table and changes no finding; without findings it does  *)
(* not ask the model, and that it failed is part of the record.            *)
Triage ==
  \/ status' = "completed"
  \/ findings # {} /\ status' = "completed_with_triage_error"

SearchAndRecord ==
  /\ pc = "regulations" /\ pc' = "done"
  /\ \E cited \in SUBSET Citable : context' = IF findings = {} THEN {} ELSE cited
  /\ Triage
  /\ UNCHANGED <<rules, snapshot, gaps, findings, suppressed, answered>>

ReviewStep ==
  /\ \/ CheckSwitch \/ ReadRules \/ ReadControls \/ ReadCoverage \/ ReadFlags
     \/ Scan \/ ScanFails \/ Review \/ ApplyExceptions \/ SearchAndRecord
  /\ UNCHANGED <<tableVars, changes, readable, ever, always>>
-------------------------------------------------------------------------------
(***************************************************************************)
(* Administrators.  One write of a control, of a policy's coverage or of   *)
(* the settings is a step; in what order the requests make them is left    *)
(* open.                                                                   *)
(***************************************************************************)
ChangeControl(c) ==
  /\ active' = IF c \in active THEN active \ {c} ELSE active \cup {c}
  /\ UNCHANGED <<catalogVars, enabled, incomplete, off>>

ChangeCoverage(p) ==
  /\ incomplete' = IF p \in incomplete THEN incomplete \ {p} ELSE incomplete \cup {p}
  /\ UNCHANGED <<catalogVars, enabled, active, off>>

ChangeFlag(f) ==
  /\ off' = IF f \in off THEN off \ {f} ELSE off \cup {f}
  /\ UNCHANGED <<catalogVars, enabled, active, incomplete>>

ChangeSwitch ==
  /\ enabled' = ~enabled
  /\ UNCHANGED <<catalogVars, active, incomplete, off>>

InCatalog == UNCHANGED <<enabled, active, incomplete, off>>

(* ever and always follow the tables.                                      *)
Observe == ever' = ever \cup Facing' /\ always' = always \cap Facing'

Request ==
  /\ changes < MaxChanges /\ changes' = changes + 1
  /\ \/ \E c \in Controls : Idle /\ ChangeControl(c)
     \/ \E p \in Policies : Idle /\ ChangeCoverage(p)
     \/ \E f \in Flags : Idle /\ ChangeFlag(f)
     \/ Idle /\ ChangeSwitch
     \/ CatalogRequest /\ InCatalog
     \/ \E g \in Grants : ExpireException(g) /\ InCatalog

AdminStep ==
  /\ \/ Request
     \/ CatalogStep /\ InCatalog /\ UNCHANGED changes
  /\ Observe
  /\ UNCHANGED reviewVars

Next == ReviewStep \/ AdminStep

Spec == Init /\ [][Next]_vars
-------------------------------------------------------------------------------
(***************************************************************************)
(* PROPERTIES of the evidence, when it is recorded                         *)
(***************************************************************************)
AllTheTime(kind, x) == <<kind, x>> \in always
SomeTime(kind, x) == <<kind, x>> \in ever

(* A control that was active all the time of the review was applied, and   *)
(* all it found is on record; or a gap tells that it was not.  So was a    *)
(* rule pack.  A change without content, of deletions only, has nothing    *)
(* that could be scanned.                                                  *)
Applied(c) ==
  /\ c \in snapshot
  /\ readable =>
       /\ OfControls({c}) \subseteq findings \cup suppressed
       /\ c \in Reviewed => answered \/ <<"semantic", "review">> \in gaps
       /\ c \in Asking => \E f \in findings \cup suppressed : f.control = c

ActiveIsAccounted ==
  pc = "done" =>
    /\ \A c \in Controls : AllTheTime("control", c) => Applied(c) \/ <<"skipped", c>> \in gaps
    /\ \A v \in PackVersions : AllTheTime("pack", v) => v \in rules

(* What is found was found by rules, or by a control that was active at    *)
(* some time, and whose scanner was on; the rule packs on record were      *)
(* active at some time.                                                    *)
OnlyInForce ==
  pc = "done" =>
    /\ \A f \in findings \cup suppressed :
         \/ f.control = NoControl
         \/ SomeTime("control", f.control) /\ SomeTime("on", FlagOf[f.control])
    /\ \A v \in rules : SomeTime("pack", v)

(* A finding is suppressed by an exception that was in force at some time, *)
(* and is reported if none was; one in force all the time suppresses it.   *)
SuppressionIsGranted ==
  pc = "done" =>
    /\ \A f \in suppressed : \E g \in Grants : SomeTime("granted", g) /\ Matches(g, f)
    /\ \A f \in findings : \A g \in Grants : Matches(g, f) => ~AllTheTime("granted", g)

(* A policy with an active control, whose coverage was incomplete all the  *)
(* time, is declared in a gap.                                             *)
IncompleteIsDeclared ==
  pc = "done" => \A c \in Controls :
    AllTheTime("control", c) /\ AllTheTime("incomplete", PolicyOf[c]) =>
      <<"policy", PolicyOf[c]>> \in gaps
===============================================================================
