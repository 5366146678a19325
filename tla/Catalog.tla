-------------------------------- MODULE Catalog --------------------------------
(***************************************************************************)
(* What administrators keep for the reviews besides controls: exceptions,  *)
(* the versions of a rule pack, and a reference source (a regulation) that *)
(* is searched by its chunks (prsa_control/store.py).                      *)
(*                                                                         *)
(* A request that writes several records writes one per step, and its      *)
(* process may be stopped in between.  The gateway serves one at a time.   *)
(***************************************************************************)
EXTENDS Naturals, FiniteSets

CONSTANTS
  Grants,      \* exceptions: what may be granted under which id
  PackVersions,
  Chunks,
  Texts,       \* what may be saved as its text: the chunks of each
  Crashes      \* whether a request may be stopped

ASSUME CatalogAssumption == Texts \subseteq SUBSET Chunks /\ Crashes \in BOOLEAN

(* A grant is stored by its control and its id.                            *)
SameRow(g, h) == g.control = h.control /\ g.id = h.id

GrantStates == {"none", "approved", "expired", "revoked"}
PackStates == {"none", "draft", "active", "retired"}
Statuses == {"draft", "approved", "retired"}
Tasks == [kind : {"none", "pack", "regulation"}, drop : SUBSET (PackVersions \cup Chunks),
          put : SUBSET (PackVersions \cup Chunks), status : PackStates \cup Statuses]
NoTask == [kind |-> "none", drop |-> {}, put |-> {}, status |-> "none"]

VARIABLES
  grant,       \* state of each exception
  pack,        \* state of each version of the pack
  regulation,  \* status of the reference source
  chunk,       \* status of each of its chunks
  task,        \* the writes the request in service still has to make
  partial      \* a request on the chunks was stopped, and none followed it

catalogVars == <<grant, pack, regulation, chunk, task, partial>>

CatalogTypeOK ==
  /\ grant \in [Grants -> GrantStates]
  /\ pack \in [PackVersions -> PackStates]
  /\ regulation \in Statuses \cup {"none"}
  /\ chunk \in [Chunks -> Statuses \cup {"none"}]
  /\ task \in Tasks
  /\ partial \in BOOLEAN

Idle == task = NoTask
-------------------------------------------------------------------------------
(***************************************************************************)
(* Exceptions.                                                             *)
(***************************************************************************)
(* save_exception() writes over a row with the same id, revoked or not.    *)
SaveException(g) ==
  /\ Idle
  /\ grant' = [h \in Grants |-> IF h = g THEN "approved"
                                ELSE IF SameRow(g, h) THEN "none" ELSE grant[h]]
  /\ UNCHANGED <<pack, regulation, chunk, task, partial>>

(* revoke_exception() takes one row with that id, of whatever control.     *)
RevokeException(g) ==
  /\ Idle
  /\ grant[g] # "none"
  /\ grant' = [grant EXCEPT ![g] = "revoked"]
  /\ UNCHANGED <<pack, regulation, chunk, task, partial>>

(* The expiration date passes.                                             *)
ExpireException(g) ==
  /\ grant[g] = "approved"
  /\ grant' = [grant EXCEPT ![g] = "expired"]
  /\ UNCHANGED <<pack, regulation, chunk, task, partial>>

Granted == {g \in Grants : grant[g] = "approved"}   \* list_exceptions(include_expired=False)
-------------------------------------------------------------------------------
(***************************************************************************)
(* Rule packs: activating a version retires the active ones first.         *)
(***************************************************************************)
ActivePacks == {v \in PackVersions : pack[v] = "active"}

SavePack(v, status) ==
  /\ Idle
  /\ task' = [kind |-> "pack", drop |-> IF status = "active" THEN ActivePacks ELSE {},
              put |-> {v}, status |-> status]
  /\ UNCHANGED <<grant, pack, regulation, chunk, partial>>

RetirePack ==
  /\ task.kind = "pack"
  /\ \E v \in task.drop : /\ pack' = [pack EXCEPT ![v] = "retired"]
                          /\ task' = [task EXCEPT !.drop = @ \ {v}]
  /\ UNCHANGED <<grant, regulation, chunk, partial>>

(* Wrong variant: the version is written before the others are retired.    *)
PutPackFirst ==
  /\ task.kind = "pack"
  /\ \E v \in task.put : /\ pack' = [pack EXCEPT ![v] = task.status]
                         /\ task' = IF task.drop \ {v} = {} THEN NoTask
                                    ELSE [task EXCEPT !.put = {}, !.drop = @ \ {v}]
  /\ UNCHANGED <<grant, regulation, chunk, partial>>

PutPack ==
  /\ task.kind = "pack" /\ task.drop = {}
  /\ \E v \in task.put : pack' = [pack EXCEPT ![v] = task.status]
  /\ task' = NoTask
  /\ UNCHANGED <<grant, regulation, chunk, partial>>
-------------------------------------------------------------------------------
(***************************************************************************)
(* The reference source: its record is written first, then its chunks.     *)
(***************************************************************************)
StoredChunks == {k \in Chunks : chunk[k] # "none"}

(* save_regulation(): the chunks it had are deleted, then those of the new *)
(* text are written.                                                       *)
SaveRegulation(status, text) ==
  /\ Idle
  /\ regulation' = status
  /\ task' = [kind |-> "regulation", drop |-> StoredChunks, put |-> text, status |-> status]
  /\ partial' = FALSE
  /\ UNCHANGED <<grant, pack, chunk>>

(* transition_regulation()                                                 *)
MoveRegulation(status) ==
  /\ Idle
  /\ regulation # "none" /\ ~(regulation = "retired" /\ status = "approved")
  /\ regulation' = status
  /\ task' = [kind |-> "regulation", drop |-> {}, put |-> StoredChunks, status |-> status]
  /\ partial' = FALSE
  /\ UNCHANGED <<grant, pack, chunk>>

DropChunk ==
  /\ task.kind = "regulation"
  /\ \E k \in task.drop : /\ chunk' = [chunk EXCEPT ![k] = "none"]
                          /\ task' = [task EXCEPT !.drop = @ \ {k}]
  /\ UNCHANGED <<grant, pack, regulation, partial>>

(* Wrong variant: chunks that are there are left as they are.              *)
PutChunkOnce ==
  /\ task.kind = "regulation" /\ task.drop = {}
  /\ \E k \in task.put : /\ chunk' = [chunk EXCEPT ![k] = IF @ = "none" THEN task.status ELSE @]
                         /\ task' = [task EXCEPT !.put = @ \ {k}]
  /\ UNCHANGED <<grant, pack, regulation, partial>>

PutChunk ==
  /\ task.kind = "regulation" /\ task.drop = {}
  /\ \E k \in task.put : /\ chunk' = [chunk EXCEPT ![k] = task.status]
                         /\ task' = [task EXCEPT !.put = @ \ {k}]
  /\ UNCHANGED <<grant, pack, regulation, partial>>

EndChunks ==
  /\ task.kind = "regulation" /\ task.drop = {} /\ task.put = {}
  /\ task' = NoTask
  /\ UNCHANGED <<grant, pack, regulation, chunk, partial>>

Crash ==
  /\ Crashes /\ ~Idle
  /\ task' = NoTask
  /\ partial' = (partial \/ task.kind = "regulation")
  /\ UNCHANGED <<grant, pack, regulation, chunk>>

CatalogRequest ==
  \/ \E g \in Grants : SaveException(g) \/ RevokeException(g)
  \/ \E v \in PackVersions : \E s \in {"draft", "active", "retired"} : SavePack(v, s)
  \/ \E s \in Statuses : \E text \in Texts : SaveRegulation(s, text)
  \/ \E s \in {"approved", "retired"} : MoveRegulation(s)

CatalogStep ==
  \/ RetirePack \/ PutPack \/ DropChunk \/ PutChunk \/ EndChunks \/ Crash
-------------------------------------------------------------------------------
(* Wherever an activation is stopped, reviews run the rules of at most one *)
(* version of the pack.                                                    *)
OnePackVersion == \A u, v \in ActivePacks : u = v

(* A change of the reference source that runs to its end leaves no chunk   *)
(* with another status than its document, whatever stopped the changes     *)
(* before it: what is retired is not cited, what is approved is found.     *)
ChunksFollow == Idle /\ ~partial => \A k \in StoredChunks : chunk[k] = regulation
===============================================================================
