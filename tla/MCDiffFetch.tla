------------------------------ MODULE MCDiffFetch ------------------------------
(***************************************************************************)
(* Instance of DiffFetch for TLC.                                          *)
(***************************************************************************)
EXTENDS DiffFetch

CONSTANTS a, b, m

Edit(p) == [path |-> p, kind |-> "edit"]

(* More files than the limit, with a folder or a deletion among them.      *)
Lists ==
  {<<Edit(a), Edit(b)>>,
   <<Edit(a), [path |-> b, kind |-> "folder"], Edit(b)>>,
   <<[path |-> a, kind |-> "delete"], Edit(b), Edit(m), Edit(a)>>}
===============================================================================
