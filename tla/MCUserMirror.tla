----------------------------- MODULE MCUserMirror -----------------------------
(* TLC instances of UserMirror.                                               *)
EXTENDS UserMirror, TLC

MirrorSymmetry ==
    Permutations(Users) \cup Permutations(Accounts) \cup Permutations(Requests)
==============================================================================
