\* Over reopened panels, overlapping loads and saves, and failed answers,
\* the panel's spinner goes off once the admin stops, and no save sends
\* a channel without models.
CONSTANTS
    N = 2
    Confs <- MCConfs
    Outcomes <- MCOutcomesAnswered
    MaxInFlight = 2
    Letters <- MCLetters
    Comma = ","
    ChannelModels <- MCChannelModels
    Picks <- MCPicks
SPECIFICATION Spec
INVARIANT TypeOK
PROPERTY PanelSpinnerSettles
INVARIANT SaveHasModels
