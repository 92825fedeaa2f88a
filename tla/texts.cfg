SPECIFICATION Spec
CONSTANTS
    Alphabet <- TextSymbols
    Requests <- Received
    MaxDigits = 2
    Responses <- Returned
    FieldNames <- MapOrder
    Symbols <- ResponseSymbols
    MaxResponses = 2
    Octets <- OctetsChosen
    Units <- UnitsChosen
    Points <- PointsChosen
    MaxOctets = 4
    MaxUnits = 2
    MaxPoints = 2
    Align = 2
    Files <- FilesRead
    ReadSizes = {4, 5}
    MaxOverrun = 2
    PutChars = {1, 2}
    WriteSizes = {1, 2, 3}
    Rooms = {0, 3, 30}
    Counts = {0, 1, 3, 5}
    PushedBytes <- BytesChosen
    Capacities = {0, 1, 4, 8}
    MaxOperations = 3
INVARIANTS
    ParsesWholeRequests
    ReadsWholeResponses
    ReadsJson
    BuildsOneRoot
    NumbersKeepTheirValue
    CharactersSurvive
    DocumentsKeepTheirValue
    NamesFindTheirPlace
PROPERTY
    ParsersAgree
CHECK_DEADLOCK FALSE
