--------------------------- MODULE MCUserService ---------------------------
(* UserService for TLC: subscribers and uuids are interchangeable. *)
EXTENDS UserService, TLC

Symmetry == Permutations(TgId) \cup Permutations(Uuid)
=============================================================================
