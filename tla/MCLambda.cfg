SPECIFICATION MCSpec
CONSTANTS
    a = a
    b = b
    Symbols <- MCSymbols
    Slash = slash
    Paths <- MCPaths
    Files <- MCFiles
    Dir = dir
    NoFile = nofile
    Trees <- MCTrees
    NumBlocks = 2
    Requests <- MCRequests
    Escaped = escaped
    Overhead = 2
    Good = {g1, g2}
    Broken = {broken}
    Junk = {junk}
    None = none
    MaxSends = 3
    Word = 8
    MaxBody = 6
    MaxText = 5
INVARIANTS
    AnswerIsLastAccepted
    GuestGetsWholeRequest
    EventWholeAndTerminated
    JsGuestAnswers
    
CHECK_DEADLOCK FALSE
