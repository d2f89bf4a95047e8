CONSTANTS
    NCallers = 3
    NoOne = NoOne
    Fields = {f1, f2}
    Values = {v0, v1}
    Initial = v0
    Fallback = v0
    MaxChain = 1
    MaxEsc = 1
SPECIFICATION FairSpec
INVARIANTS MutexInv PagesAreInstallerPages LeftOnlyByFailure NoLostUpdate MirrorIsFresh
PROPERTIES LockSpec RunReturns
