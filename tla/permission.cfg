SPECIFICATION GateSpec
CONSTANTS
    a1 = a1
    a2 = a2
    b1 = b1
    ka = ka
    kb = kb
    Calls = {a1, a2, b1}
    Keys = {ka, kb}
    KeyOf <- TwoAlike
SYMMETRY Alike
CHECK_DEADLOCK FALSE
INVARIANTS OneAnswer PausedForSomebody
PROPERTIES NoSecondPrompt
