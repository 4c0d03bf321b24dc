SPECIFICATION AgentSpec
CHECK_DEADLOCK FALSE
CONSTANTS
    Executions = {e1, e2}
    Cancellers = {c1}
    PlanLength = 1
    Gated = {}
    Idempotent = {1}
    Committing = {}
PROPERTY
    TerminalIsFinal
