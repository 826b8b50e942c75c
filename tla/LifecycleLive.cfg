CONSTANTS
    Settings = {s1, s2}
    Flags = {TRUE}
    Conns = {c1, c2}
    Ups = {u1, u2}
    None = None
    Scenarios <- Changes
    AuthUnrecorded = FALSE
SPECIFICATION FirstSpec
PROPERTIES FollowsFile CloseCompletes
CHECK_DEADLOCK FALSE
