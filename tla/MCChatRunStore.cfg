CONSTANTS
    Runs = {r1, r2, r3, r4}
    Requests = {q1}
    NoRun = NoRun
    NoRequest = NoRequest
SPECIFICATION Spec
SYMMETRY Symmetry
CHECK_DEADLOCK FALSE
INVARIANTS
    ExecutingPlanHasItsRun
    OpenQuestionBlocksRuns
    PlanStatusSumsUpExecutions
    CardsFollowRows
PROPERTIES
    ImplementsTurns
