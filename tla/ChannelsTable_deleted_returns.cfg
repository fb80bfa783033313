\* A deleted channel comes back into the list through a stale closure.
CONSTANTS
    N = 2
    PageSizes <- MCPageSizes
    DefaultPageSize = 1
    Keywords <- MCKeywordsBlank
    Matches = {}
    Outcomes <- MCOutcomesOk
    ManageActions = {}
    MaxInFlight = 2
SPECIFICATION Spec
INVARIANT DeletedRowStaysGone
