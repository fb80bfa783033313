\* The system settings form under every order and outcome of the option
\* load, the keystroke PUTs (while the form spins too), the Save buttons
\* and the password-login warning: password login goes off only through
\* the warning's Confirm.  One PUT out at a time beside the load: two at
\* once (MaxInFlight = 2) are reachable from the keyboard, but multiply
\* the states past what one run can check.
CONSTANTS
    Saves <- MCSaves
    LocalKeys <- MCLocalKeys
    Toggles <- MCToggles
    PasswordLogin = "PasswordLoginEnabled"
    Whitelist = "EmailDomainWhitelist"
    SmtpToken = "SMTPToken"
    Domains <- MCDomains
    Vals <- MCVals
    Typed <- MCTyped
    Empty = Empty
    StripSlash <- MCStripSlash
    InitialOptions <- MCInitialOptions
    Undef = Undef
    NoSave = NoSave
    Secrets <- MCSecrets
    Outcomes <- MCOutcomesAll
    MaxInFlight = 1
SPECIFICATION Spec
VIEW MCView
INVARIANT TypeOK
PROPERTY PasswordLoginOffOnlyConfirmed
\* After a rejected PUT the form spins with nothing outstanding and takes
\* no more input: the page really stops there.
CHECK_DEADLOCK FALSE
