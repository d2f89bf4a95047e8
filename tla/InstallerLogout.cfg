CONSTANTS
    NCallers = 1
    NoOne = NoOne
    Fields = {f1}
    Values = {v0}
    Initial = v0
    Fallback = v0
    MaxChain = 1
    MaxEsc = 0
SPECIFICATION Spec
INVARIANT AlwaysLoggedOut
