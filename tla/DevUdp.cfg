SPECIFICATION Spec
CONSTANTS
    s1 = s1  s2 = s2  d1 = d1  x1 = x1  r1 = r1  r2 = r2  l1 = l1  l2 = l2
    NoSess = NoSess  NoDev = NoDev  Free = Free
    Sess = {s1, s2}
    Mains = {d1}
    Subs = {x1}
    Reqs = {r1, r2}
    MaxTimers = 2
    Logouts = {l1}
SYMMETRY ReqSymmetry
INVARIANTS TypeOK HeldSessionIsTimed MacLeadsToLiveSession 
CHECK_DEADLOCK FALSE
