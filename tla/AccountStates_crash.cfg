SPECIFICATION Spec
CONSTANTS
    Accounts = {a1, a2}
    Modes <- DemoOnly
    Notes = {none, n1}
    NoNote = none
    NoEntry = NoEntry
    Processes = {p1}
    NoFile = NoFile
    Empty = Empty
    Garbage = Garbage
INVARIANT TypeOK
PROPERTY ImplementsGovernance
PROPERTY OnlyResumeUnblocks
