SPECIFICATION Spec
CONSTANTS
    u1 = u1  u2 = u2  w1 = w1  n1 = n1  n2 = n2  n3 = n3  n4 = n4  n5 = n5
    None = None
    Comets = {u1}
    Types = {"1", "2"}
    TypeOf <- Kinds
    Nodes = {n1, n2}
    MaxChanges = 2
PROPERTY RequestIsAnswered
CHECK_DEADLOCK FALSE
