SPECIFICATION MCFairSpec
CONSTANTS
    A = A
    B = B
    C = C
    p = p
    q = q
    api = api
    web = web
    e1 = e1
    e2 = e2
    e3 = e3
    auth = auth
    conf = conf
    conf2 = conf2
    opts = opts
    add = add
    None = None
    Kind <- MCKind
    On <- MCOn
    Dialogs = {auth, conf, conf2, opts, add}
    Entries = {e1, e2, e3}
    Present = {e1, e2}
    Accounts = {A, B, C}
    Passwords = {p, q}
    Modes = {api, web}
    Reloaded = {e1}
INVARIANTS
    LoginsAreSound
    InstallationsStayApart
PROPERTIES
    LockIsHandedOn
CHECK_DEADLOCK FALSE
