SPECIFICATION FairSpec
CONSTANTS
    Node = {n1}
    Token = {t1, t2}
    Isolate = {i1}
    Admin = {o1}
    Request = {q1}
    CanLose = TRUE
    None = None
INVARIANT OldTokenOnlyLeaks
PROPERTIES OldTokenFades NewTokenAdmitted
