SPECIFICATION Spec
CONSTANTS
    Node = {n1, n2}
    Token = {t1, t2, t3}
    Isolate = {i1}
    Admin = {o1, o2}
    Request = {}
    CanLose = TRUE
    None = None
SYMMETRY Symmetry
INVARIANT OldTokenOnlyLeaks
