---------------------------- MODULE MCTaskService ----------------------------
(* TLC instances of TaskService.  The request bodies are the ones each        *)
(* question needs: every user as the assignee, good and bad titles, spellings *)
(* with whitespace, every parent.                                             *)
EXTENDS TaskService, TLC

CONSTANTS title, PaddedTitle, Spaces, Garbage

MCUnpadded == (PaddedTitle :> title) @@ (Spaces :> Blank) @@ (" done " :> "done")

CreateFor(assignees_, titles, parents) ==
    [assigned_to: assignees_, title: titles, description: {NULL},
     delegated_from: parents]

PatchFor(assignees_, titles, descriptions, parents) ==
    [assigned_to: assignees_, title: titles, description: descriptions,
     delegated_from: parents]

\* Races over one task: creation, reassignment, every status change, and a
\* good and a bad value of every form a field may take.
RaceStatuses == [status: {"open", " done ", "cancelled", Garbage}]
RaceCreates ==
    CreateFor(Users, {PaddedTitle}, {NULL})
        \cup CreateFor({Blank}, {PaddedTitle}, {NULL})
        \cup CreateFor(Users, {title}, {NotUUID, Spaces})
        \cup {MalformedBody}
RacePatches ==
    PatchFor(Users, {Absent}, {Absent}, {Absent})
        \cup PatchFor({Spaces}, {PaddedTitle}, {Absent}, {Absent})
        \cup PatchFor({NULL}, {Spaces}, {Absent}, {Absent})
        \cup PatchFor({Absent}, {NULL}, {NULL, PaddedTitle}, {Absent})
        \cup PatchFor({Absent}, {Absent}, {Blank}, Tasks \cup {NULL, NotUUID})

\* Delegation: any user creates from any task, or patches the parent.
DelegationCreates == CreateFor(Users, {title}, Tasks \cup {NULL})
DelegationPatches ==
    PatchFor(Users, {Absent}, {Absent}, {Absent})
        \cup PatchFor({Absent}, {Absent}, {Absent}, Tasks)

NoStatuses == {}

\* What DelegationIsJustified and every guard depend on: neither the answer a
\* slot was left with nor the author of a change is read again.
DelegationView ==
    <<tasks, mirrored, assignees,
      [r \in Requests |-> IF req[r].pc = "idle" THEN NULL ELSE req[r]]>>

\* The users, the slots and the ids are interchangeable in every input set.
FullSymmetry ==
    Permutations(Users) \cup Permutations(Requests) \cup Permutations(Tasks)
==============================================================================
