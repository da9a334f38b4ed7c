SPECIFICATION MCFairSpec
CONSTANTS
    Polls = {p1, p2}
    Writers = {w}
    Rereads = {b}
    Resets = {r}
    Closes = {c}
    Free = Free
    Casts = {{p1, p2}, {p1, r}, {w, b, r}, {p1, w, c}}
INVARIANTS
    Ownership
    NoRequestAfterFailedRelogin
    AtMostOneSlips
    SendFindsASession
PROPERTIES
    TakesTurns
    ThreadsMakeProgress
