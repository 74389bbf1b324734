CONSTANTS
    Surfaces = {c1, c2}
    SharedSessions = {h1, h2}
    Pids = {p1, p2}
    Nothing = Nothing
    MaxRequestId = 3
    MaxLines = 1
SPECIFICATION RuntimeFairSpec
PROPERTY HandshakesEnd
