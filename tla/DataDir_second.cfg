SPECIFICATION Spec
CONSTANTS
    Serves = {"serve", "serve2"}
    Resets = {"reset"}
    None = None
INVARIANTS
    SingleInstance
CHECK_DEADLOCK FALSE
