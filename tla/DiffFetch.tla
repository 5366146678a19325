------------------------------- MODULE DiffFetch -------------------------------
(***************************************************************************)
(* What a review gets to read of a pull request: fetch_diff() and          *)
(* fetch_relevant_policy_files() of orchestrator/ado_client.py, one answer *)
(* of Azure DevOps per step, while the author may push to the branch.      *)
(***************************************************************************)
EXTENDS Naturals, FiniteSets, Sequences

CONSTANTS
  Paths,
  ChangeLists,    \* the lists of changes an iteration may have
  Sizes,          \* sizes of a file
  Absent,         \* a file that is not on the branch
  Binary,         \* a file that holds a NUL
  Relevant,       \* files the active controls want besides the changed ones
  MaxFiles, MaxFileBytes, MaxTotalBytes,
  MaxExtra,       \* 50 in the code
  MaxRetries,
  Pushes          \* how often the author pushes: a bound

Kinds == {"edit", "delete", "folder"}

ASSUME ConstantsAssumption ==
  /\ ChangeLists \subseteq Seq([path : Paths, kind : Kinds])
  /\ Sizes \subseteq Nat
  /\ Absent \notin Nat /\ Binary \notin Nat /\ Absent # Binary
  /\ Relevant \subseteq Paths
  /\ MaxFiles \in Nat /\ MaxFileBytes \in Nat /\ MaxTotalBytes \in Nat
  /\ MaxExtra \in Nat /\ MaxRetries \in Nat /\ Pushes \in Nat

VARIABLES
  head,        \* the files at the head of the source branch
  iteration,   \* the latest iteration of the pull request
  pc,          \* place in the fetch
  attempt,     \* how often the current request was repeated
  reviewed,    \* iteration_id of the diff
  changes, index,
  files,       \* changed_files: what was taken of each, and what there was
  total,       \* total_bytes, of the loop that runs
  truncated,   \* PrDiff.truncated
  wanted,      \* selected: supplemental files still to be fetched
  selected,    \* supplemental files found relevant
  extra,       \* the supplemental files fetched
  gaps         \* coverage gaps that the fetch leaves

branchVars == <<head, iteration>>
diffVars == <<reviewed, changes, index, files, truncated>>
extraVars == <<wanted, selected, extra, gaps>>
vars == <<branchVars, pc, attempt, diffVars, total, extraVars>>

Places == {"iterations", "changes", "files", "inventory", "extra", "done", "failed"}
Files == [at : Nat, path : Paths, kind : {"edit", "delete"}, bytes : Nat, size : Nat]

TypeOK ==
  /\ head \in [Paths -> Sizes \cup {Absent, Binary}]
  /\ iteration \in 1..(Pushes + 1)
  /\ pc \in Places
  /\ attempt \in 0..MaxRetries
  /\ reviewed \in 0..(Pushes + 1)
  /\ changes \in Seq([path : Paths, kind : Kinds])
  /\ index \in Nat \ {0}
  /\ files \subseteq Files
  /\ total \in Nat
  /\ truncated \in BOOLEAN
  /\ wanted \subseteq Paths /\ selected \subseteq Paths /\ extra \subseteq Paths
  /\ gaps \subseteq {"inventory", "bytes", "unfetched"}

Init ==
  /\ head \in [Paths -> Sizes \cup {Absent, Binary}]
  /\ iteration = 1
  /\ pc = "iterations" /\ attempt = 0
  /\ reviewed = 0 /\ changes = << >> /\ index = 1 /\ files = {} /\ truncated = FALSE
  /\ total = 0
  /\ wanted = {} /\ selected = {} /\ extra = {} /\ gaps = {}
-------------------------------------------------------------------------------
(***************************************************************************)
(* Requests: _request().  One that fails for a moment is repeated.         *)
(***************************************************************************)
Least(m, n) == IF m < n THEN m ELSE n
Running == pc \notin {"done", "failed"}
NextRequest == attempt' = 0
Goto(place) == pc' = place /\ NextRequest

(* Wrong variant: one repetition too many.                                 *)
RepeatOnceMore ==
  /\ Running /\ attempt <= MaxRetries
  /\ attempt' = attempt + 1
  /\ UNCHANGED <<branchVars, pc, diffVars, total, extraVars>>

(* Wrong variant: the count starts again.                                  *)
RepeatForEver ==
  /\ Running
  /\ attempt' = (attempt + 1) % (MaxRetries + 1)
  /\ UNCHANGED <<branchVars, pc, diffVars, total, extraVars>>

Repeat ==
  /\ Running /\ attempt < MaxRetries
  /\ attempt' = attempt + 1
  /\ UNCHANGED <<branchVars, pc, diffVars, total, extraVars>>

(* get_file_content(): a file that is absent or binary reads as empty.     *)
Content(path) == IF head[path] \in {Absent, Binary} THEN 0 ELSE head[path]
-------------------------------------------------------------------------------
(***************************************************************************)
(* fetch_diff()                                                            *)
(***************************************************************************)
ReadIterations ==
  /\ pc = "iterations"
  /\ reviewed' = iteration
  /\ Goto("changes")
  /\ UNCHANGED <<branchVars, changes, index, files, truncated, total, extraVars>>

ReadChanges ==
  /\ pc = "changes"
  /\ changes' \in ChangeLists
  /\ Goto("files")
  /\ UNCHANGED <<branchVars, reviewed, index, files, truncated, total, extraVars>>

(* An error that is final, or that lasts, ends the review.                 *)
RequestFails ==
  /\ pc \in {"iterations", "changes"}
  /\ Goto("failed")
  /\ UNCHANGED <<branchVars, diffVars, total, extraVars>>

Remains == index <= Len(changes)
Entry == changes[index]
MayTake == pc = "files" /\ Remains /\ index <= MaxFiles

(* Folders are passed over, deletions noted without content.               *)
PassOver ==
  /\ MayTake /\ Entry.kind # "edit"
  /\ files' = IF Entry.kind = "folder" THEN files
              ELSE files \cup {[at |-> index, path |-> Entry.path, kind |-> "delete",
                                bytes |-> 0, size |-> 0]}
  /\ index' = index + 1
  /\ UNCHANGED <<branchVars, pc, attempt, reviewed, changes, truncated, total, extraVars>>

(* Wrong variant: a cut by the total is not marked.                        *)
TakeUnmarked(size) ==
  LET bytes == Least(Least(size, MaxFileBytes), MaxTotalBytes - total)
  IN  /\ files' = files \cup {[at |-> index, path |-> Entry.path, kind |-> "edit",
                               bytes |-> bytes, size |-> size]}
      /\ total' = total + bytes
      /\ truncated' = (truncated \/ size > MaxFileBytes)
      /\ index' = index + 1
      /\ Goto(IF total + bytes >= MaxTotalBytes THEN "inventory" ELSE "files")

(* Wrong variant: what is left of the total is not looked at.              *)
TakeUnbounded(size) ==
  LET bytes == Least(size, MaxFileBytes)
  IN  /\ files' = files \cup {[at |-> index, path |-> Entry.path, kind |-> "edit",
                               bytes |-> bytes, size |-> size]}
      /\ total' = total + bytes
      /\ truncated' = (truncated \/ bytes < size)
      /\ index' = index + 1
      /\ Goto(IF total + bytes >= MaxTotalBytes THEN "inventory" ELSE "files")

(* A file is cut to MAX_FILE_BYTES and to what is left of MAX_TOTAL_BYTES; *)
(* the loop ends when nothing is left.                                     *)
Take(size) ==
  LET bytes == Least(Least(size, MaxFileBytes), MaxTotalBytes - total)
  IN  /\ files' = files \cup {[at |-> index, path |-> Entry.path, kind |-> "edit",
                               bytes |-> bytes, size |-> size]}
      /\ total' = total + bytes
      /\ truncated' = (truncated \/ bytes < size)
      /\ index' = index + 1
      /\ Goto(IF total + bytes >= MaxTotalBytes THEN "inventory" ELSE "files")

TakeFile ==
  /\ MayTake /\ Entry.kind = "edit"
  /\ Take(Content(Entry.path))
  /\ UNCHANGED <<branchVars, reviewed, changes, extraVars>>

(* A file that cannot be fetched is taken as empty.                        *)
TakeUnreadable ==
  /\ MayTake /\ Entry.kind = "edit"
  /\ Take(0)
  /\ UNCHANGED <<branchVars, reviewed, changes, extraVars>>

EndFiles ==
  /\ pc = "files" /\ ~MayTake
  /\ truncated' = (truncated \/ Remains)
  /\ Goto("inventory")
  /\ UNCHANGED <<branchVars, reviewed, changes, index, files, total, extraVars>>
-------------------------------------------------------------------------------
(***************************************************************************)
(* fetch_relevant_policy_files(), as process_review() calls it: with the   *)
(* files that have content, and with a gap for whatever it raises.         *)
(***************************************************************************)
Scannable == {f.path : f \in {g \in files : g.bytes > 0}}

(* Wrong variant: the inventory is limited in silence.                     *)
ListFilesSilently ==
  /\ pc = "inventory"
  /\ LET found == {p \in Relevant \ Scannable : head[p] # Absent}
     IN  /\ selected' = found
         /\ wanted' \in {w \in SUBSET found : Cardinality(w) = Least(Cardinality(found), MaxExtra)}
         /\ UNCHANGED gaps
  /\ total' = 0
  /\ Goto("extra")
  /\ UNCHANGED <<branchVars, diffVars, extra>>

ListFiles ==
  /\ pc = "inventory"
  /\ LET found == {p \in Relevant \ Scannable : head[p] # Absent}
     IN  /\ selected' = found
         /\ wanted' \in {w \in SUBSET found : Cardinality(w) = Least(Cardinality(found), MaxExtra)}
         /\ gaps' = IF wanted' = found THEN gaps ELSE gaps \cup {"inventory"}
  /\ total' = 0
  /\ Goto("extra")
  /\ UNCHANGED <<branchVars, diffVars, extra>>

(* A file is cut to MAX_FILE_BYTES without a word; one that does not fit   *)
(* in what is left of MAX_TOTAL_BYTES ends the loop.                       *)
TakeExtra ==
  /\ pc = "extra"
  /\ \E p \in wanted :
       LET bytes == Least(Content(p), MaxFileBytes)
       IN  IF total + bytes > MaxTotalBytes
             THEN /\ gaps' = gaps \cup {"bytes"}
                  /\ Goto("done")
                  /\ UNCHANGED <<total, wanted, extra>>
             ELSE /\ extra' = extra \cup {p}
                  /\ total' = total + bytes
                  /\ wanted' = wanted \ {p}
                  /\ NextRequest
                  /\ UNCHANGED <<pc, gaps>>
  /\ UNCHANGED <<branchVars, diffVars, selected>>

EndExtra ==
  /\ pc = "extra" /\ wanted = {}
  /\ Goto("done")
  /\ UNCHANGED <<branchVars, diffVars, total, extraVars>>

(* What was fetched before the error is lost with it.                      *)
ExtraFails ==
  /\ \/ pc = "inventory"
     \/ pc = "extra" /\ wanted # {}
  /\ gaps' = {"unfetched"} /\ extra' = {}
  /\ Goto("done")
  /\ UNCHANGED <<branchVars, diffVars, total, wanted, selected>>
-------------------------------------------------------------------------------
(* The author pushes: any file of the branch changes.                      *)
Push ==
  /\ iteration <= Pushes
  /\ iteration' = iteration + 1
  /\ \E p \in Paths : \E c \in Sizes \cup {Absent, Binary} : head' = [head EXCEPT ![p] = c]
  /\ UNCHANGED <<pc, attempt, diffVars, total, extraVars>>

Fetch ==
  \/ Repeat \/ ReadIterations \/ ReadChanges \/ RequestFails
  \/ PassOver \/ TakeFile \/ TakeUnreadable \/ EndFiles
  \/ ListFiles \/ TakeExtra \/ EndExtra \/ ExtraFails

Next == Fetch \/ Push

Spec == Init /\ [][Next]_vars

(* A request ends within 30 seconds, so the client's steps go on.          *)
FairSpec == Spec /\ WF_vars(Fetch)
-------------------------------------------------------------------------------
(***************************************************************************)
(* PROPERTIES                                                              *)
(***************************************************************************)
(* A review never holds more than MAX_FILES files of MAX_FILE_BYTES each,  *)
(* nor more than MAX_TOTAL_BYTES of either kind, whatever the author       *)
(* pushes while it reads.                                                  *)
WithinBudget ==
  /\ total <= MaxTotalBytes
  /\ \A f \in files : f.at \in 1..MaxFiles /\ f.bytes <= MaxFileBytes

(* A diff that is not marked as truncated holds the files it holds whole,  *)
(* and all that changed, unless they fill MAX_TOTAL_BYTES to the byte:     *)
(* then the loop ends without a mark, and the files after it are missing.  *)
CutsAreMarked ==
  pc = "inventory" /\ ~truncated =>
    /\ \A f \in files : f.bytes = f.size
    /\ total < MaxTotalBytes =>
         \A i \in 1..Len(changes) : changes[i].kind # "folder" =>
           \E f \in files : f.at = i /\ f.path = changes[i].path

(* A file the active controls want, and that was found on the branch, is   *)
(* scanned unless a coverage gap says that one is missing.                 *)
OmissionsAreGaps == pc = "done" /\ gaps = {} => selected \subseteq extra

(* Azure DevOps may fail as long as it likes: the fetch comes to an end.   *)
FetchEnds == <>(~Running)
===============================================================================
