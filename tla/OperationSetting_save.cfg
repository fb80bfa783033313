\* The operation settings form under every order and outcome of the option
\* load, the checkbox PUTs and the group saves: one PUT at a time, and the
\* form stops spinning once the admin stops, unless a PUT was rejected.
CONSTANTS
    GroupKeys <- MCGroupKeys
    JsonKeys <- MCJsonKeys
    Toggles <- MCToggles
    Vals <- MCVals
    BadJson = BadJson
    Placeholder = Placeholder
    Undef = Undef
    NoGroup = NoGroup
    Outcomes <- MCOutcomesAll
SPECIFICATION Spec
INVARIANT TypeOK
 
PROPERTY FormUnblocks
\* After a rejected PUT the form spins with nothing outstanding and takes
\* no more input: the page really stops there.
CHECK_DEADLOCK FALSE
