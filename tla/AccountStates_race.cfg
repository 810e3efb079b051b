SPECIFICATION Spec
CONSTANTS
    Accounts = {a1, a2}
    Modes <- DemoOnly
    Notes = {none, n1}
    NoNote = none
    NoEntry = NoEntry
    Processes = {p1, p2}
    NoFile = NoFile
    Empty = Empty
    Garbage = Garbage
PROPERTY OnlyResumeUnblocks
