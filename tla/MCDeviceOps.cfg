SPECIFICATION Spec
CONSTANTS
    a = a
    alias = alias
    b = b
    far = far
    fa = fa
    fb = fb
    ff = ff
    Paths = {a, alias, b, far}
    FileOf <- MCFileOf
    Device <- MCDevice
    Versions = {1, 2}
    Shared = {fa}
    Dates <- MCDates
    Asked = {1}
    LastTouchT = 8
INVARIANT TypeOK
INVARIANT AnswerIsTrue
PROPERTY ExistingIsKept
PROPERTY CopyKeepsSource
