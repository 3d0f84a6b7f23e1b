SPECIFICATION StreamsSpec
CONSTANTS
    a = a
    b = b
    z = z
    NL = NL
    MaxBuf = 3
    Text <- MCText
    Zero = z
    Buffers <- MCBuffers
    Sizes = {0, 1, 3}
    MaxBytes = 5
    Texts = {t}
    Codes = {ok, c}
    Names = {h}
    Values = {v, w}
    Ok = ok
    Bad = bad
    Absent = absent
    MaxLines = 4
    Payloads <- MCPayloads
INVARIANTS
    ChunkingInvisible
    ReadsAsWritten
    PanicsOnlyInHeader
PROPERTIES
    LineLogSpec
CHECK_DEADLOCK FALSE
