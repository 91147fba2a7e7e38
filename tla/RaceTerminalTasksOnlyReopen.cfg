CONSTANTS
    Users = {u1, u2, u3}
    Tasks = {t1}
    Texts = {title}
    Requests = {r1, r2}
    title = title
    PaddedTitle = PaddedTitle
    Spaces = Spaces
    Garbage = Garbage
    Blank = Blank
    NotUUID = NotUUID
    NULL = NULL
    Absent = Absent
    MalformedBody = MalformedBody
    Unpadded <- MCUnpadded
    CreateBodies <- RaceCreates
    UpdateBodies <- RacePatches
    StatusBodies <- RaceStatuses
SPECIFICATION Spec
PROPERTY TerminalTasksOnlyReopen
