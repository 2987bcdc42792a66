SPECIFICATION Spec
CHECK_DEADLOCK FALSE
CONSTANTS
    MAXLINE = 4
    RIO_BUFSIZE = 2
    MAX_OBJECT_SIZE = 12
    MaxSent = 16
    Requests <- MCRequests
    Responses <- MCResponses
INVARIANTS
    
    CopyFits
    WholeResponse
PROPERTIES
    Ends
