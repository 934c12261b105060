SPECIFICATION ComposerSpec
CONSTANTS
    Actions <- AllForms
    Targets <- TwoTargets
    KindOf <- Kinds
    Senders = {a1}
    Typed <- Values
    Recurrences <- Forms
    DefaultForm <- Every
    Presets = {p1}
    Nothing = Nothing
    MaxEdits = 4
    MaxPosts = 2
INVARIANTS PreviewIsForTheDraft WhatIsTypedIsSent EngineIsAsShown
PROPERTIES PresetRestoresTheAction
CHECK_DEADLOCK FALSE
