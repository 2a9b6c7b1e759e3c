--------------------------- MODULE MCPositionSlots ---------------------------
(* Small instances of PositionSlots for TLC. *)
EXTENDS PositionSlots, TLC

Symmetry == Permutations(Mints) \cup Permutations(Openers)
AllOps == {"archive", "unarchive", "delete", "force_close", "purge"}
DeleteOps == {"delete"}
ArchiveOps == {"archive", "unarchive"}
=============================================================================
