SPECIFICATION MCSpec
CONSTANTS
    a = a
    b = b
    Symbols <- MCSymbols
    Slash = slash
    Paths <- MCPaths
    Files <- MCFiles
    Dir = dir
    NoFile = nofile
    Trees <- MCTrees
    NumBlocks = 2
    Texts <- MCTexts
    Codes = {200, 404, 405}
    Names = {"content_type", "content_length"}
    Values = {"html", "size"}
    Ok = 200
    Bad = bad
    Absent = absent
    Requests <- MCRequests
    Opaque = opaque
    Null = null
    GuestLines <- MCGuestLines
    MaxOut = 3
    MaxRead = 2
    HelloFile <- MCHello
    MarkdownFile <- MCMarkdown
    JsFiles <- MCJs
    Scripts <- MCScripts
    MaxPath = 5
    MaxBody = 3
INVARIANTS
    MarkdownConverts
CHECK_DEADLOCK FALSE
