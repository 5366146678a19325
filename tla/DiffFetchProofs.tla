---------------------------- MODULE DiffFetchProofs ----------------------------
(***************************************************************************)
(* Proofs about DiffFetch, for all sizes, limits and lists of changes: the *)
(* types, the budget, and what an unmarked diff and an empty list of gaps  *)
(* tell about the files that were read.                                    *)
(***************************************************************************)
EXTENDS DiffFetch, SequenceTheorems, TLAPS

(* Before the loop nothing was taken; what is taken lies before index.     *)
Taken ==
  /\ pc \in {"iterations", "changes"} => files = {} /\ index = 1 /\ total = 0
  /\ \A f \in files : f.at < index

(* Every change before index is there.                                     *)
Present ==
  \A i \in 1..Len(changes) : i < index /\ changes[i].kind # "folder" =>
    \E f \in files : f.at = i /\ f.path = changes[i].path

Whole == ~truncated => \A f \in files : f.bytes = f.size

(* The loop is left early only when marked, or with the budget spent.      *)
Ended == pc = "inventory" /\ ~truncated /\ total < MaxTotalBytes => index > Len(changes)

(* No gap so far: what is not fetched is still wanted.                     *)
Outstanding ==
  /\ pc \in {"iterations", "changes", "files", "inventory"} => gaps = {} /\ extra = {}
  /\ pc = "extra" /\ gaps = {} => selected \subseteq extra \cup wanted

IInv ==
  /\ TypeOK /\ WithinBudget
  /\ Taken /\ Present /\ Whole /\ Ended
  /\ Outstanding /\ OmissionsAreGaps

LEMMA LeastBounds ==
  ASSUME NEW x \in Nat, NEW y \in Nat
  PROVE  Least(x, y) \in Nat /\ Least(x, y) <= x /\ Least(x, y) <= y
BY DEF Least

LEMMA ContentIsNat ==
  ASSUME ConstantsAssumption, TypeOK, NEW p \in Paths
  PROVE  Content(p) \in Nat
BY DEF ConstantsAssumption, TypeOK, Content

(* The entry at index is one of the changes.                               *)
LEMMA EntryType ==
  ASSUME TypeOK, MayTake
  PROVE  /\ index \in 1..Len(changes)
         /\ Entry \in [path : Paths, kind : Kinds]
<1>1. index \in 1..Len(changes)
  BY DEF TypeOK, MayTake, Remains
<1>2. changes[index] \in [path : Paths, kind : Kinds]
  BY <1>1, ElementOfSeq DEF TypeOK
<1> QED
  BY <1>1, <1>2 DEF Entry

THEOREM InitEstablishes == ConstantsAssumption /\ Init => IInv
<1> SUFFICES ASSUME ConstantsAssumption, Init PROVE IInv
  OBVIOUS
<1>1. TypeOK
  <2>1. changes \in Seq([path : Paths, kind : Kinds])
    BY DEF Init
  <2>2. /\ head \in [Paths -> Sizes \cup {Absent, Binary}]
        /\ attempt \in 0..MaxRetries /\ iteration \in 1..(Pushes + 1) /\ reviewed \in 0..(Pushes + 1)
    BY DEF Init, ConstantsAssumption
  <2>3. index \in Nat \ {0} /\ total \in Nat /\ pc \in Places
    <3>1. index = 1 /\ total = 0 /\ pc = "iterations"
      BY Zenon DEF Init
    <3> QED
      BY <3>1 DEF Places
  <2>4. /\ files \subseteq Files
        /\ wanted \subseteq Paths /\ selected \subseteq Paths /\ extra \subseteq Paths
        /\ gaps \subseteq {"inventory", "bytes", "unfetched"}
        /\ truncated \in BOOLEAN
    BY Zenon DEF Init
  <2> QED
    BY <2>1, <2>2, <2>3, <2>4, Zenon DEF TypeOK
<1>2. WithinBudget /\ Taken /\ Whole
  BY DEF ConstantsAssumption, Init, WithinBudget, Taken, Whole
<1>3. Present
  BY DEF Init, Present
<1>4. Ended /\ Outstanding /\ OmissionsAreGaps
  BY DEF Init, Ended, Outstanding, OmissionsAreGaps
<1> QED
  BY <1>1, <1>2, <1>3, <1>4 DEF IInv

(* Taking a file of any size keeps the invariant.                          *)
LEMMA TakeKeeps ==
  ASSUME ConstantsAssumption, IInv, MayTake, Entry.kind = "edit",
         NEW size \in Nat, Take(size),
         UNCHANGED <<branchVars, reviewed, changes, extraVars>>
  PROVE  IInv'
<1> DEFINE bytes == Least(Least(size, MaxFileBytes), MaxTotalBytes - total)
<1> DEFINE taken == [at |-> index, path |-> Entry.path, kind |-> "edit",
                     bytes |-> bytes, size |-> size]
<1>1. /\ index \in 1..Len(changes) /\ index \in Nat /\ index <= MaxFiles
      /\ Entry = changes[index] /\ Entry.path \in Paths
      /\ pc = "files"
  BY EntryType DEF IInv, TypeOK, MayTake, Entry
<1>2. /\ bytes \in Nat /\ bytes <= size /\ bytes <= MaxFileBytes
      /\ total + bytes <= MaxTotalBytes
  BY LeastBounds DEF ConstantsAssumption, IInv, TypeOK, WithinBudget, Least
<1>3. /\ files' = files \cup {taken}
      /\ total' = total + bytes
      /\ truncated' = (truncated \/ bytes < size)
      /\ index' = index + 1
      /\ pc' = IF total + bytes >= MaxTotalBytes THEN "inventory" ELSE "files"
      /\ attempt' = 0
      /\ UNCHANGED <<head, iteration, reviewed, changes, wanted, selected, extra, gaps>>
  BY DEF Take, Goto, NextRequest, branchVars, extraVars
<1> HIDE DEF bytes
<1>4. taken \in Files
  BY <1>1, <1>2 DEF Files
<1> HIDE DEF taken
<1>5. TypeOK'
  BY <1>1, <1>2, <1>3, <1>4 DEF ConstantsAssumption, IInv, TypeOK, Places
<1>6. /\ taken.at = index /\ taken.path = Entry.path
      /\ taken.bytes = bytes /\ taken.size = size
  BY DEF taken
<1>7. WithinBudget'
  BY <1>1, <1>2, <1>3, <1>6 DEF ConstantsAssumption, IInv, WithinBudget, TypeOK
<1>8. Taken'
  <2>1. \A f \in files' : f.at < index'
    <3> SUFFICES ASSUME NEW f \in files' PROVE f.at < index'
      OBVIOUS
    <3>1. CASE f = taken
      BY <3>1, <1>1, <1>3, <1>6
    <3>2. CASE f \in files
      BY <3>2, <1>1, <1>3 DEF IInv, Taken, TypeOK, Files
    <3> QED
      BY <3>1, <3>2, <1>3
  <2> QED
    BY <2>1, <1>3 DEF Taken
<1>9. Present'
  <2> SUFFICES ASSUME NEW i \in 1..Len(changes), i < index', changes[i].kind # "folder"
               PROVE  \E f \in files' : f.at = i /\ f.path = changes[i].path
    BY <1>3 DEF Present
  <2>1. CASE i = index
    BY <2>1, <1>1, <1>3, <1>6
  <2>2. CASE i < index
    BY <2>2, <1>3 DEF IInv, Present
  <2> QED
    BY <2>1, <2>2, <1>1, <1>3
<1>10. Whole'
  <2> SUFFICES ASSUME ~truncated', NEW f \in files' PROVE f.bytes = f.size
    BY DEF Whole
  <2>1. ~truncated /\ bytes = size
    <3>1. truncated \in BOOLEAN
      BY DEF IInv, TypeOK
    <3>2. ~truncated /\ ~(bytes < size)
      BY <3>1, <1>3
    <3> QED
      BY <3>2, <1>2
  <2>2. CASE f = taken
    BY <2>1, <2>2, <1>6
  <2>3. CASE f \in files
    BY <2>1, <2>3 DEF IInv, Whole
  <2> QED
    BY <2>2, <2>3, <1>3
<1>11. Ended'
  BY <1>2, <1>3, <1>5 DEF Ended, IInv, TypeOK, ConstantsAssumption
<1>12. Outstanding' /\ OmissionsAreGaps'
  BY <1>1, <1>3 DEF IInv, Outstanding, OmissionsAreGaps
<1> QED
  BY <1>5, <1>7, <1>8, <1>9, <1>10, <1>11, <1>12 DEF IInv

(* The loop over the changed files.                                        *)
LEMMA FilesKeep ==
  ASSUME ConstantsAssumption, IInv, PassOver \/ TakeFile \/ TakeUnreadable \/ EndFiles
  PROVE  IInv'
<1>1. CASE PassOver
  <2> DEFINE deleted == [at |-> index, path |-> Entry.path, kind |-> "delete",
                         bytes |-> 0, size |-> 0]
  <2>1. /\ index \in 1..Len(changes) /\ index \in Nat /\ index <= MaxFiles
        /\ Entry = changes[index] /\ Entry.path \in Paths
        /\ pc = "files"
    BY <1>1, EntryType DEF PassOver, IInv, TypeOK, MayTake, Entry
  <2>2. /\ index' = index + 1
        /\ files' = IF Entry.kind = "folder" THEN files ELSE files \cup {deleted}
        /\ UNCHANGED <<head, iteration, pc, attempt, reviewed, changes, truncated, total,
                       wanted, selected, extra, gaps>>
    BY <1>1 DEF PassOver, branchVars, extraVars
  <2>3. deleted \in Files
    BY <2>1 DEF Files
  <2>4. /\ deleted.at = index /\ deleted.path = Entry.path
        /\ deleted.bytes = 0 /\ deleted.size = 0
    OBVIOUS
  <2> HIDE DEF deleted
  <2>5. TypeOK'
    BY <2>1, <2>2, <2>3 DEF IInv, TypeOK
  <2>6. WithinBudget'
    BY <2>1, <2>2, <2>4 DEF ConstantsAssumption, IInv, WithinBudget
  <2>7. Taken'
    <3>1. \A f \in files' : f.at < index'
      BY <2>1, <2>2, <2>4 DEF IInv, Taken, TypeOK, Files
    <3> QED
      BY <3>1, <2>1, <2>2 DEF Taken
  <2>8. Present'
    <3> SUFFICES ASSUME NEW i \in 1..Len(changes), i < index', changes[i].kind # "folder"
                 PROVE  \E f \in files' : f.at = i /\ f.path = changes[i].path
      BY <2>2 DEF Present
    <3>1. CASE i = index
      BY <3>1, <2>1, <2>2, <2>4
    <3>2. CASE i < index
      BY <3>2, <2>2 DEF IInv, Present
    <3> QED
      BY <3>1, <3>2, <2>1, <2>2
  <2>9. Whole' /\ Ended' /\ Outstanding' /\ OmissionsAreGaps'
    BY <2>1, <2>2, <2>4 DEF IInv, Whole, Ended, Outstanding, OmissionsAreGaps
  <2> QED
    BY <2>5, <2>6, <2>7, <2>8, <2>9 DEF IInv
<1>2. CASE TakeFile
  <2>1. Content(Entry.path) \in Nat
    BY <1>2, EntryType, ContentIsNat DEF TakeFile, IInv
  <2> QED
    BY <1>2, <2>1, TakeKeeps DEF TakeFile
<1>3. CASE TakeUnreadable
  BY <1>3, TakeKeeps DEF TakeUnreadable
<1>4. CASE EndFiles
  <2>1. /\ pc = "files" /\ pc' = "inventory" /\ attempt' = 0
        /\ truncated' = (truncated \/ index <= Len(changes))
        /\ UNCHANGED <<head, iteration, reviewed, changes, index, files, total,
                       wanted, selected, extra, gaps>>
    BY <1>4 DEF EndFiles, Goto, NextRequest, Remains, branchVars, extraVars
  <2>2. TypeOK'
    BY <2>1 DEF ConstantsAssumption, IInv, TypeOK, Places
  <2>3. Ended'
    <3>1. truncated \in BOOLEAN /\ index \in Nat /\ Len(changes) \in Nat
      BY DEF IInv, TypeOK
    <3>2. ~truncated' => ~(index <= Len(changes))
      BY <3>1, <2>1
    <3> QED
      BY <3>1, <3>2, <2>1 DEF Ended
  <2>4. WithinBudget' /\ Taken' /\ Present' /\ Whole'
    BY <2>1 DEF IInv, WithinBudget, Taken, Present, Whole
  <2>5. Outstanding' /\ OmissionsAreGaps'
    BY <2>1 DEF IInv, Outstanding, OmissionsAreGaps
  <2> QED
    BY <2>2, <2>3, <2>4, <2>5 DEF IInv
<1> QED
  BY <1>1, <1>2, <1>3, <1>4

(* The supplemental files.                                                 *)
LEMMA ExtraKeep ==
  ASSUME ConstantsAssumption, IInv, ListFiles \/ TakeExtra \/ EndExtra \/ ExtraFails
  PROVE  IInv'
<1> USE DEF branchVars, diffVars, extraVars, Goto, NextRequest
<1>1. CASE ListFiles
  <2>1. /\ TypeOK' /\ WithinBudget'
    BY <1>1 DEF ListFiles, ConstantsAssumption, IInv, TypeOK, WithinBudget, Places
  <2>2. Taken' /\ Present' /\ Whole' /\ Ended'
    BY <1>1 DEF ListFiles, IInv, Taken, Present, Whole, Ended
  <2>3. Outstanding' /\ OmissionsAreGaps'
    BY <1>1 DEF ListFiles, IInv, Outstanding, OmissionsAreGaps
  <2> QED
    BY <2>1, <2>2, <2>3 DEF IInv
<1>2. CASE TakeExtra
  <2> PICK p \in wanted :
        LET bytes == Least(Content(p), MaxFileBytes)
        IN  IF total + bytes > MaxTotalBytes
              THEN /\ gaps' = gaps \cup {"bytes"}
                   /\ Goto("done")
                   /\ UNCHANGED <<total, wanted, extra>>
              ELSE /\ extra' = extra \cup {p}
                   /\ total' = total + bytes
                   /\ wanted' = wanted \ {p}
                   /\ NextRequest
                   /\ UNCHANGED <<pc, gaps>>
    BY <1>2 DEF TakeExtra
  <2> DEFINE bytes == Least(Content(p), MaxFileBytes)
  <2>1. bytes \in Nat
    BY ContentIsNat, LeastBounds DEF ConstantsAssumption, IInv, TypeOK
  <2>2. /\ pc = "extra"
        /\ UNCHANGED <<head, iteration, reviewed, changes, index, files, truncated, selected>>
    BY <1>2 DEF TakeExtra
  <2> HIDE DEF bytes
  <2>3. CASE total + bytes > MaxTotalBytes
    <3>1. /\ gaps' = gaps \cup {"bytes"} /\ pc' = "done" /\ attempt' = 0
          /\ UNCHANGED <<total, wanted, extra>>
      BY <2>3 DEF bytes
    <3>2. TypeOK'
      BY <3>1, <2>2 DEF IInv, TypeOK, Places, ConstantsAssumption
    <3> QED
      BY <3>1, <3>2, <2>2 DEF IInv, WithinBudget, Taken, Present, Whole, Ended, Outstanding, OmissionsAreGaps
  <2>4. CASE ~(total + bytes > MaxTotalBytes)
    <3>1. /\ extra' = extra \cup {p} /\ total' = total + bytes /\ wanted' = wanted \ {p}
          /\ attempt' = 0 /\ UNCHANGED <<pc, gaps>>
      BY <2>4 DEF bytes
    <3>2. TypeOK'
      BY <3>1, <2>1, <2>2 DEF IInv, TypeOK, ConstantsAssumption
    <3>3. WithinBudget'
      BY <3>1, <2>1, <2>2, <2>4 DEF IInv, TypeOK, WithinBudget, ConstantsAssumption
    <3>4. Outstanding' /\ OmissionsAreGaps'
      BY <3>1, <2>2 DEF IInv, Outstanding, OmissionsAreGaps
    <3> QED
      BY <3>1, <3>2, <3>3, <3>4, <2>2 DEF IInv, Taken, Present, Whole, Ended
  <2> QED
    BY <2>3, <2>4
<1>3. CASE EndExtra
  <2>1. TypeOK'
    BY <1>3 DEF EndExtra, IInv, TypeOK, Places, ConstantsAssumption
  <2> QED
    BY <1>3, <2>1 DEF EndExtra, IInv, WithinBudget, Taken, Present, Whole, Ended, Outstanding, OmissionsAreGaps
<1>4. CASE ExtraFails
  <2>1. TypeOK'
    BY <1>4 DEF ExtraFails, IInv, TypeOK, Places, ConstantsAssumption
  <2> QED
    BY <1>4, <2>1 DEF ExtraFails, IInv, WithinBudget, Taken, Present, Whole, Ended, Outstanding, OmissionsAreGaps
<1> QED
  BY <1>1, <1>2, <1>3, <1>4

(* The requests before the loop, repetitions, and the author's pushes.     *)
LEMMA OthersKeep ==
  ASSUME ConstantsAssumption, IInv, Repeat \/ ReadIterations \/ ReadChanges \/ RequestFails \/ Push
  PROVE  IInv'
<1> USE DEF branchVars, diffVars, extraVars, Goto, NextRequest
<1>1. CASE Repeat
  <2>1. TypeOK'
    BY <1>1 DEF Repeat, IInv, TypeOK, ConstantsAssumption
  <2> QED
    BY <1>1, <2>1 DEF Repeat, IInv, WithinBudget, Taken, Present, Whole, Ended, Outstanding, OmissionsAreGaps
<1>2. CASE ReadIterations
  <2>1. TypeOK'
    BY <1>2 DEF ReadIterations, IInv, TypeOK, Places, ConstantsAssumption
  <2>2. WithinBudget' /\ Taken' /\ Present' /\ Whole' /\ Ended'
    BY <1>2 DEF ReadIterations, IInv, WithinBudget, Taken, Present, Whole, Ended
  <2>3. Outstanding' /\ OmissionsAreGaps'
    BY <1>2 DEF ReadIterations, IInv, Outstanding, OmissionsAreGaps
  <2> QED
    BY <2>1, <2>2, <2>3 DEF IInv
<1>3. CASE ReadChanges
  <2>1. TypeOK'
    <3>1. changes' \in Seq([path : Paths, kind : Kinds])
      BY <1>3 DEF ReadChanges, ConstantsAssumption
    <3> QED
      BY <1>3, <3>1 DEF ReadChanges, IInv, TypeOK, Places, ConstantsAssumption
  <2>2. Present'
    BY <1>3 DEF ReadChanges, IInv, Taken, Present
  <2> QED
    BY <1>3, <2>1, <2>2 DEF ReadChanges, IInv, WithinBudget, Taken, Whole, Ended, Outstanding, OmissionsAreGaps
<1>4. CASE RequestFails
  <2>1. TypeOK'
    BY <1>4 DEF RequestFails, IInv, TypeOK, Places, ConstantsAssumption
  <2> QED
    BY <1>4, <2>1 DEF RequestFails, IInv, WithinBudget, Taken, Present, Whole, Ended, Outstanding, OmissionsAreGaps
<1>5. CASE Push
  <2>1. TypeOK'
    BY <1>5 DEF Push, IInv, TypeOK, ConstantsAssumption
  <2> QED
    BY <1>5, <2>1 DEF Push, IInv, WithinBudget, Taken, Present, Whole, Ended, Outstanding, OmissionsAreGaps
<1> QED
  BY <1>1, <1>2, <1>3, <1>4, <1>5

THEOREM StepKeeps == ConstantsAssumption /\ IInv /\ [Next]_vars => IInv'
<1> SUFFICES ASSUME ConstantsAssumption, IInv, [Next]_vars PROVE IInv'
  OBVIOUS
<1>1. CASE UNCHANGED vars
  BY <1>1 DEF vars, branchVars, diffVars, extraVars, IInv, TypeOK, WithinBudget, Taken,
              Present, Whole, Ended, Outstanding, OmissionsAreGaps
<1>2. CASE Next
  BY <1>2, FilesKeep, ExtraKeep, OthersKeep DEF Next, Fetch
<1> QED
  BY <1>1, <1>2

THEOREM Invariant == Spec => []IInv
BY ConstantsAssumption, InitEstablishes, StepKeeps, PTL DEF Spec

(* Every state is well-formed, whatever sizes, limits and lists there are. *)
THEOREM TypeCorrect == Spec => []TypeOK
BY Invariant, PTL DEF IInv

(* A review stays within its limits whatever the author pushes.            *)
THEOREM BudgetHolds == Spec => []WithinBudget
BY Invariant, PTL DEF IInv

(* Nothing is cut or left out of an unmarked diff with budget to spare.    *)
THEOREM CutsStayMarked == Spec => []CutsAreMarked
<1>1. IInv => CutsAreMarked
  BY DEF IInv, CutsAreMarked, TypeOK, Present, Whole, Ended
<1> QED
  BY <1>1, Invariant, PTL

(* No supplemental file is missing without a gap.                          *)
THEOREM OmissionsLeaveGaps == Spec => []OmissionsAreGaps
BY Invariant, PTL DEF IInv
===============================================================================
