SPECIFICATION Spec
CONSTANTS
    p = p
    q = q
    Streams = {1, 2}
    Records = {1, 2}
    Properties <- Both
    LastTime = 3
    Tapes <- AllTapes
    Configs <- AllConfigs
    Never = Never
    Null = Null
    Absent = Absent
INVARIANT SeekEqualsReplay
