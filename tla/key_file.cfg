SPECIFICATION Spec
CONSTANTS
    None = None
    Boots = {b1, b2, b3, b4}
    KeyBytes = 2
INVARIANTS KeysAgree
PROPERTIES CreatedKeyLasts
