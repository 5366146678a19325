--------------------------- MODULE MCReviewEvidence ---------------------------
(***************************************************************************)
(* Instance of ReviewEvidence for TLC.                                     *)
(***************************************************************************)
EXTENDS ReviewEvidence, TLC

CONSTANTS d, s, m, p, scan, llm, x, y, k1, k2, v1, v2

OnePolicy == d :> p @@ s :> p @@ m :> p
OwnFlags  == d :> scan @@ s :> llm @@ m :> llm

(* A narrow and a wide exception under one id, and the id used again for   *)
(* another control.                                                        *)
Narrow == [control |-> d, id |-> "e", value |-> x]
Wide   == [control |-> d, id |-> "e", value |-> AnyValue]
Other  == [control |-> m, id |-> "e", value |-> AnyValue]
MCGrants == {Narrow, Wide, Other}

MCHits == {[control |-> d, value |-> x], [control |-> d, value |-> y],
           [control |-> NoControl, value |-> x]}
MCSemantic == {[control |-> s, value |-> x], [control |-> m, value |-> y]}

MCTexts == {{k1}, {k1, k2}}

(* All is in force; little is; the same with nothing to scan.              *)
Full == [grant |-> Narrow :> "approved" @@ Wide :> "none" @@ Other :> "revoked",
         pack |-> v1 :> "active" @@ v2 :> "draft", regulation |-> "approved",
         chunk |-> k1 :> "approved" @@ k2 :> "approved",
         active |-> {d, s, m}, incomplete |-> {p}, off |-> {}, readable |-> TRUE]
Bare == [grant |-> Narrow :> "expired" @@ Wide :> "none" @@ Other :> "approved",
         pack |-> v1 :> "retired" @@ v2 :> "active", regulation |-> "draft",
         chunk |-> k1 :> "draft" @@ k2 :> "none",
         active |-> {m}, incomplete |-> {}, off |-> {llm}, readable |-> TRUE]
Deletions == [Bare EXCEPT !.readable = FALSE]
MCCatalogs == {Full, Bare, Deletions}
===============================================================================
