SPECIFICATION Spec
CONSTANTS
    Agents = 1
    Fixtures = 2
    Retries = 1
    Window = 2
    History = 1
    Cooldown = 2
    Intents = {"root_post", "reply", "repost", "silence"}
    Recent = 2
    ReplyShare = 45
    MaxSteps = 3
    MaxTotal = 3
    MaxLate = 1
    MaxResets = 1
INVARIANTS TypeOK OneEffectPerStep NoSecondReply OkMeansDone
PROPERTY RunEnds
CHECK_DEADLOCK FALSE
