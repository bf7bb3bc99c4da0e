--------------------------- MODULE MCFileService ----------------------------
(* Small instances of module FileService for TLC. *)
EXTENDS FileServiceInvariant, TLC

(* Workers, requests and files are interchangeable; sound for the runs that
   check no liveness. *)
Symmetry ==
    Permutations(Files) \cup Permutations(Workers) \cup Permutations(Deleters)
=============================================================================
