SPECIFICATION Spec
CONSTANTS
    Ops = {o1, o2}
    Sandboxes = {s1, s2}
    Claims = {c1, c2}
    Nil = Nil
SYMMETRY Symmetry
INVARIANTS
    CommittedWorkStays

