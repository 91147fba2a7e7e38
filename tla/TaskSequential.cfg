CONSTANTS
    Users = {u1, u2, u3}
    Tasks = {t1, t2}
    Texts = {title}
    Requests = {r1}
    title = title
    PaddedTitle = PaddedTitle
    Spaces = Spaces
    Garbage = Garbage
    Blank = Blank
    NotUUID = NotUUID
    NULL = NULL
    Absent = Absent
    MalformedBody = MalformedBody
    Unpadded <- MCUnpadded
    CreateBodies <- DelegationCreates
    UpdateBodies <- DelegationPatches
    StatusBodies <- RaceStatuses
SPECIFICATION Spec
SYMMETRY FullSymmetry
PROPERTY ImplementsLifecycle
