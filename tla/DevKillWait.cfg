SPECIFICATION Spec
CONSTANTS
    s1 = s1  s2 = s2  s3 = s3  s4 = s4  d1 = d1  d2 = d2
    NoSess = NoSess  NoDev = NoDev
    Sess = {s1, s2}
    Devs = {d1}
    ChanCap = 2
PROPERTY RepeatedLoginProceeds
CHECK_DEADLOCK FALSE
