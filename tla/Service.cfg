CONSTANTS
    r1 = r1
    r2 = r2
    r3 = r3
    Requests = {r1, r2, r3}
    NoQuick = NoQuick
    Ubatch = 1
    PieceStep = 1
    TokenGap = 8
    MaxStepGap = 12
    Settings <- SomeSettings
    MaxPrompt = 2
SPECIFICATION Spec
PROPERTIES RuleKept EveryoneServed
