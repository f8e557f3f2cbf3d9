--------------------------- MODULE MCBinarySearch ---------------------------
(***************************************************************************)
(* BinarySearch for TLC, against the definition of SkipList.               *)
(***************************************************************************)
EXTENDS BinarySearch

List == INSTANCE SkipList WITH NodeSize <- 2, MaxLevel <- 1

\* The search in a node that SkipList is made with is what the loop of
\* skiparray_bsearch returns, found or not.
AgreesWithSkipList ==
  done => List!skiparray_bsearch([i \in DOMAIN keys |-> [key |-> keys[i]]], key)
            = [found |-> found, index |-> index]

=============================================================================
