---------------------------- MODULE MCHandleTable ----------------------------
(* HandleTable on small instances. *)
EXTENDS HandleTable, TLC

\* Page::allocate is not called.
NoSizes == {}

\* Sizes that are and are not multiples of a page of two slots.
UpToFour == 0..4

Symmetry == Permutations(Objects) \cup Permutations(Handles) \cup Permutations(Owners)
            \cup Permutations(Descriptions)
=============================================================================
