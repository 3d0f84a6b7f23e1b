SPECIFICATION MCSpec
CONSTANTS
    Programs <- MCProgramSet
    MaxEvents = 6
    MaxThrows = 1
INVARIANTS
    ProgramsRunAsDefined
    
    ImportComplete
CHECK_DEADLOCK FALSE
