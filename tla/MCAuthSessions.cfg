CONSTANTS
    Users = {u1}
    Threads = {t1, t2}
    Passwords = {p1, p2}
    StrongPasswords = {p2}
    NoRequest = NoRequest
    Ticks = 2
    Lifetime = 1
    MaxClock = 3
    Edits = {"block", "unblock", "delete"}
SPECIFICATION Spec
SYMMETRY Symmetry
VIEW ThisRun
INVARIANTS
    InvalidStaysOut
    CredentialsHeld
    BlacklistKeeps
PROPERTY ImplementsSessions
