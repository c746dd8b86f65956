----------------------- MODULE MCCoordinatorIdentity -----------------------
(***************************************************************************)
(* Two coordinators and two working directories, so that a coordinator can *)
(* be started beside another with and without something to migrate.        *)
(***************************************************************************)
EXTENDS CoordinatorIdentity, TLC

Symmetry == Permutations(Processes) \union Permutations(Legacy)
              \union Permutations(Old) \union Permutations(New)

=============================================================================
