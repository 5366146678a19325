--------------------------- MODULE MCPolicyIngestion ---------------------------
(***************************************************************************)
(* Instances of PolicyIngestion for TLC.                                   *)
(***************************************************************************)
EXTENDS PolicyIngestion, TLC

CONSTANTS c1, c2, o1, o2, code, manual, k1, k2

OwnPlaceholders == o1 :> c1 @@ o2 :> c2
OwnObligations  == c1 :> o1 @@ c2 :> o2
OwnTitles       == c1 :> "one" @@ c2 :> "two"
OneTitle        == c1 :> "one" @@ c2 :> "one"

Both(c, clause) ==
  [id |-> c, links |-> {o1, o2}, surfaces |-> {code}, clause |-> clause,
   asked |-> FALSE, compiles |-> TRUE, passed |-> TRUE]
One(c, o) == [Both(c, k1) EXCEPT !.links = {o}]
Must(o, clause) == [id |-> o, expected |-> {code}, clause |-> clause]
Two == {Must(o1, k1), Must(o2, k2)}

(* A complete plan in one control, the same plan in two, one that leaves   *)
(* an obligation to a placeholder, a single question, no controls at all.  *)
Complete  == [controls |-> {Both(c1, k1)}, obligations |-> Two]
Split     == [controls |-> {One(c1, o1), One(c2, o2)}, obligations |-> Two]
Partial   == [controls |-> {One(c1, o1)}, obligations |-> Two]
Ambiguous == [controls |-> {[Both(c1, k1) EXCEPT !.asked = TRUE]}, obligations |-> {}]
Nothing   == [controls |-> {}, obligations |-> {}]
Uncited   == [Split EXCEPT !.controls = {One(c1, o1), [One(c2, o2) EXCEPT !.compiles = FALSE]}]

Answers == {Complete, Partial}
Plain   == {Split, Uncited}
===============================================================================
