CONSTANTS
    PreviewLimit = 3
    HeadLimit = 6
    HeadChunk = 3
    BodyChunk = 2
    Window = 3
    Exchanges <- MCExchanges
SPECIFICATION FairSpec
INVARIANTS
    CapturesMatchBodies
    HeadLimitHolds
    TunnelKeepsAnsweredClients
PROPERTIES
    ImplementsByteRelay
    ExchangeCompletes
