CONSTANTS
    Threads = {t1, t2}
    Roots = {r1}
    Users = {u1}
    Objects = {o1}
    Fields = {f1}
    Values = {v1}
    Forged = Forged
    NoRecord = NoRecord
    NoRequest = NoRequest
    NoCode = NoCode
    NoReply = NoReply
    Ok = Ok
    Refused = Refused
SPECIFICATION Spec
SYMMETRY Symmetry
INVARIANT IssuedVerifies
