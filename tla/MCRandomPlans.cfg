CONSTANTS
    Members = {n1, n2, n3}
    NoMember = NoMember
    MaxCrashed = 2
    MaxCrashEpisodes = 2
    LifecycleCooldown = 1
    TimeoutCooldown = 2
    Weighted = {"crash", "restart", "timeout", "other"}
    MaxPlanActions = 7
SPECIFICATION Spec
SYMMETRY Symmetry
INVARIANTS
    PlansAcceptable
    LifecycleNeverSkipped
