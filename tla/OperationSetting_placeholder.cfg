\* A Save clicked before the options have loaded compares the form with
\* the empty originInputs, so it PUTs the initial placeholder values.
CONSTANTS
    GroupKeys <- MCGroupKeys
    JsonKeys <- MCJsonKeys
    Toggles <- MCToggles
    Vals <- MCVals
    BadJson = BadJson
    Placeholder = Placeholder
    Undef = Undef
    NoGroup = NoGroup
    Outcomes <- MCOutcomesOk
SPECIFICATION Spec
INVARIANT NoPlaceholderSaved
