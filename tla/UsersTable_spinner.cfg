\* The user table's spinners are left on with nothing outstanding only
\* after a rejected call, over overlapping loads, searches and row actions.
CONSTANTS
    N = 1
    PageLen = 1
    Keywords <- MCKeywords
    Matches = {1}
    Orders <- MCOrders
    Outcomes <- MCOutcomesAll
    ManageActions = {"delete", "disable"}
    MaxInFlight = 2
    MaxListLen = 3
SPECIFICATION Spec
INVARIANT TypeOK
INVARIANT StuckSpinnerOnlyAfterThrow
