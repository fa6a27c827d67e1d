\* Two requests whose operations hold one permit and ask for another.
SPECIFICATION HangingSpec
CONSTANTS
    None = None
    Session = {"s1"}
    Program <- TwoProgram
    Task <- TwoTask
    Id = {1, 2}
    SessionOf <- OneSession
    IdOf <- OwnId
    Parent <- LeafParent
    Script <- LeafPair
    GlobalLimit <- Narrow
    SessionLimit <- Two
    MaxCancels = 0
PROPERTIES Drains CancelFrees
CHECK_DEADLOCK FALSE
