--------------------------- MODULE MCReviewPipeline ---------------------------
(***************************************************************************)
(* Instances of ReviewPipeline for TLC.  All runs review one pull request: *)
(* runs of different pull requests share nothing but the queue.            *)
(***************************************************************************)
EXTENDS ReviewPipeline, TLC

CONSTANTS ThePR

OnePR      == {ThePR}
AlwaysThePR == [r \in Runs |-> ThePR]

(* Requests differ only by name until they are served, and so do findings. *)
Symmetry == Permutations(Requests) \cup Permutations(Findings)
===============================================================================
