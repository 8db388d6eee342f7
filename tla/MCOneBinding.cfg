SPECIFICATION Spec
CONSTANTS
    Ops = {o1, o2}
    Sandboxes = {s1, s2}
    Nil = Nil
    Kinds = {"acquire", "release", "lookup"}
SYMMETRY Symmetry
INVARIANTS
    OneRecord
