SPECIFICATION Spec
CONSTANTS
    Ops = {o1, o2}
    Sandboxes = {s1, s2, s3}
    Nil = Nil
    Kinds = {"acquire", "release", "reap", "drain", "heartbeat", "lookup"}
SYMMETRY Symmetry
INVARIANTS
    OneBinding
    AcquireReturnsTheBinding
    RunningSandboxesAreAccountedFor
PROPERTIES
    ReaperSparesLeased
