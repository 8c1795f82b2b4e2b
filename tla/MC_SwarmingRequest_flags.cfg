CONSTANTS
    None = None
    EnvUser = "bob"
    KeyRank <- MCKeyRank
    Options <- MCOptions

SPECIFICATION Spec
INVARIANT
    RequestHonoursFlags
