\* Every call answered ok: edit token 1 and save it, then edit token 2.
\* isEdit stays true, so loadToken does not run, and Submit PUTs the form
\* reset by the previous save onto token 2.
CONSTANTS
    N = 2
    MaxCount = 1
    Outcomes <- MCOutcomesOk
    MaxInFlight = 1
SPECIFICATION Spec
INVARIANT TokensKeepOwnData
