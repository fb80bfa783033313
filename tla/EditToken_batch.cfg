\* One token, batches of up to two, two calls in flight, every outcome:
\* reopened panels, overlapping loads, saves and batches.  No deadlock
\* check: after a rejected call the panel may spin with nothing left to
\* answer, and the admin may stop there.
CONSTANTS
    N = 1
    MaxCount = 2
    Outcomes <- MCOutcomesAll
    MaxInFlight = 2
SPECIFICATION Spec
INVARIANT TypeOK
INVARIANT StuckSpinnerOnlyAfterThrow
CHECK_DEADLOCK FALSE
