SPECIFICATION Spec
CONSTANTS
    Modes = {"dynamic", "reuse_or_create", "reuse_only"}
    MostAgents = 2
    Rotation = TRUE
    MaxDynamic = 3
    MaxResets = 1
    Own = Own
INVARIANTS TypeOK NoTokenLost LeftoversDoNotBlock
PROPERTY EveryAgentServes
