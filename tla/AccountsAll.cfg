\* Two requests at once, over one user, two sessions and four ticks.
CONSTANTS
    Names = {admin}
    Addrs = {ip1}
    Handlers = {h1, h2}
    Tokens = {t1, t2}
    NoName = NoName
    NoToken = NoToken
    NoAddr = NoAddr
    Idle = 2
    MaxAge = 4
    Minute = 2
    Limit = 1
    MaxTime = 3
    MaxPasswords = 2
SPECIFICATION Spec
SYMMETRY Symmetry
INVARIANTS
    SessionsEnd
    UsedSessionsLive
    EndedSessionsStayEnded
    OldPasswordsSignNobodyIn
    GuessesAreLimited
CHECK_DEADLOCK FALSE
