SPECIFICATION Spec
CONSTANTS
    Users = {u1}
    Tokens = {t1, t2, t3}
    Requests = {r1, r2}
    None = None
SYMMETRY Symmetry
INVARIANT TypeOK
INVARIANT SpentOnce
INVARIANT SuspendedIsSignedOut
INVARIANT NoEntryWhileSuspended
