CONSTANTS
    Settings = {s1, s2}
    Flags = {TRUE}
    Conns = {c1, c2}
    Ups = {u1, u2}
    None = None
    Scenarios <- Changes
    AuthUnrecorded = TRUE
SPECIFICATION FirstSpec
PROPERTIES FollowsFile
CHECK_DEADLOCK FALSE
