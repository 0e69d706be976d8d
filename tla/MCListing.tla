------------------------------ MODULE MCListing ------------------------------
(* Two panels over a directory and one beneath it, reached through a symlink:  *)
(* a change of a file in either, of the directory beneath, and a move between. *)
EXTENDS Listing, TLC
CONSTANTS p1, p2, top, sub
MCBelow    == (top :> {top, sub}) @@ (sub :> {sub})
MCParentOf == (sub :> top)
MCMissing  == (top :> {}) @@ (sub :> {1})
FileIn(q) == [dir |-> q, file |-> TRUE]
Itself(q) == [dir |-> q, file |-> FALSE]
MCOperations ==
    {[from |-> x, to |-> x] : x \in {FileIn(top), FileIn(sub), Itself(sub)}}
      \cup {[from |-> FileIn(top), to |-> FileIn(sub)], [from |-> Itself(sub), to |-> FileIn(top)]}
Symmetry == Permutations(Panels)
=============================================================================
