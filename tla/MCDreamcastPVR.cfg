SPECIFICATION FairSpec
CONSTANTS
    Streaming = {t1}
    Targets = {t2}
    Natives = {t1}
    Blocks = {b1, b2}
    Screens = {s1, s2}
    NoTexture = NoTexture
    NoBlock = NoBlock
    MaxScenes = 4
INVARIANTS
    TypeOK
    ProvenIsRendered
    NeverTorn
    PromptReclaim
    HeaderInForce
    NoFeedback
PROPERTIES
    CallsReturn
