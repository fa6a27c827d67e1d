\* A batch of two nodes and a second request with the same identifier.
SPECIFICATION Spec
CONSTANTS
    None = None
    Session = {"s1"}
    Program <- TwoProgram
    Task <- TwoTask
    Id = {1}
    SessionOf <- OneSession
    IdOf <- SharedId
    Parent <- BatchParent
    Script <- BatchScript
    GlobalLimit <- One
    SessionLimit <- Two
    MaxCancels = 1
INVARIANTS Accounting NoLostCancel SessionSound
CHECK_DEADLOCK FALSE
