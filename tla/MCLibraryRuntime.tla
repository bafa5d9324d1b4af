-------------------------- MODULE MCLibraryRuntime --------------------------
(***************************************************************************)
(* Instances of LibraryRuntime for TLC.  Two clients race for two          *)
(* carriers; three processor ids make clone_thread and create_borrower run *)
(* out of them.                                                            *)
(***************************************************************************)
EXTENDS LibraryRuntime, TLC

Symmetry ==
    Permutations(Callers) \cup Permutations(Borrowers)
      \cup Permutations(Carriers \cap Signalled) \cup Permutations(Carriers \ Signalled)
=============================================================================
