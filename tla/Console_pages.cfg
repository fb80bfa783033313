\* One task on the server and one recorded while the console is open, one
\* row per page, one load in flight; one redemption code; a countdown of
\* two ticks; one call in flight among the personal settings page and
\* the login and registration forms.
\* Every route change remounts a page, so the pages' states recur and the
\* space closes.
\* Deadlock is checked: a route change is always possible, so the console
\* never stops.
CONSTANTS
    N = 1
    M = 1
    IPP = 1
    Filter = Filter
    Matching = {1}
    MjOutcomes <- MCMjOutcomes
    MaxInFlight = 1
    Codes = {k1}
    Worth = 1
    Quota0 = 0
    TuOutcomes <- MCTuOutcomes
    Countdown0 = 2
    PsMaxInFlight = 1
    PsOutcomes <- MCPsOutcomes
    LgMaxInFlight = 1
    LgOutcomes <- MCLgOutcomes
    RgMaxInFlight = 1
    RgOutcomes <- MCRgOutcomes
    EmailVerification = TRUE
    SessionMaxInFlight = 1
SPECIFICATION Spec
VIEW MCView
INVARIANT TypeOK
INVARIANT MjStuckSpinnerOnlyAfterThrow
PROPERTY TuImplementsRedemption
PROPERTY PsResendReenables
INVARIANT RgStuckOnlyAfterThrow
