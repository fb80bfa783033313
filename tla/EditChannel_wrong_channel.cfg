\* A save can carry the data of another channel than the one it targets.
CONSTANTS
    N = 2
    Confs <- MCConfs
    Outcomes <- MCOutcomesOk
    MaxInFlight = 2
    Letters <- MCLetters
    Comma = ","
    ChannelModels <- MCChannelModels
    Picks <- MCPicks
SPECIFICATION Spec
INVARIANT SaveCarriesOwnChannel
