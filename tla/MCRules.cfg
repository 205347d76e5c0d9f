CONSTANTS
    h1 = h1
    h2 = h2
    v1 = v1
    v2 = v2
    Unsafe = Unsafe
    None = None
    Hosts <- MCHosts
    Names <- MCNames
    Values <- MCValues
    Pieces <- MCPieces
    Requests <- MCRequests
    Responses <- MCResponses
    RuleSets <- MCRuleSets
    Submitted <- MCSubmitted
    Pool <- Everything
    MaxLength = 3
    MaxReplacements = 1
SPECIFICATION Spec
INVARIANTS
    RequestFollowsRules
    ResponseFollowsRules
    MessagesStayWhole
    SameRulesUnlessMoved
    ReplaySeesSameResponse
