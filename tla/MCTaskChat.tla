------------------------------ MODULE MCTaskChat ------------------------------
(* TLC instances of TaskChat.                                                 *)
EXTENDS TaskChat, TLC

ChatSymmetry ==
    Permutations(Users) \cup Permutations(Requests)
    \cup Permutations(Sockets) \cup Permutations(Messages)
==============================================================================
