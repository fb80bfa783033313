\* The channel table's spinners, over up to two outstanding calls answered
\* ok, failed or rejected in any order: one is left on with nothing
\* outstanding only after a rejected call.
CONSTANTS
    N = 1
    PageSizes <- MCPageSizes
    DefaultPageSize = 1
    Keywords <- MCKeywords
    Matches = {1}
    Outcomes <- MCOutcomesAll
    ManageActions = {"enable", "disable", "priority"}
    MaxInFlight = 2
SPECIFICATION Spec
INVARIANT TypeOK
INVARIANT StuckSpinnerOnlyAfterThrow
