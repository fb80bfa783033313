\* Loading the next page after a delete skips a channel (no failures, one call at a time).
CONSTANTS
    N = 4
    PageSizes <- MCPageSizes
    DefaultPageSize = 1
    Keywords <- MCKeywordsBlank
    Matches = {}
    Outcomes <- MCOutcomesOk
    ManageActions = {}
    MaxInFlight = 1
SPECIFICATION Spec
INVARIANT ListMirrorsServer
