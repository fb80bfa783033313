-------------------------- MODULE MCSystemSetting --------------------------
EXTENDS SystemSetting

\* The message pusher's Save button: the address when changed, with its
\* trailing slash stripped, then the token when changed and filled.  The
\* other Save buttons are sequences of the same steps.
MCSaves ==
    [pusher |-> <<[key |-> "MessagePusherAddress", when |-> "changed", strip |-> TRUE],
                  [key |-> "MessagePusherToken", when |-> "filled", strip |-> FALSE]>>]
MCLocalKeys == {"SMTPToken", "EmailDomainWhitelist"}
MCToggles == {"PasswordLoginEnabled"}
\* The tokens the server keeps from the front end.
MCSecrets == {"SMTPToken", "MessagePusherToken"}
MCDomains == {"d"}
MCVals == {"v", "v/"}
\* The admin types an address with a trailing slash; "v" is what the
\* server holds and what a Save stores.
MCTyped == {"v/"}
MCStripSlash == [v \in MCVals \cup {Empty} |-> IF v = "v/" THEN "v" ELSE v]
MCOutcomesAll == {"ok", "fail", "throw"}

\* What the server holds when the tab mounts: addresses without a trailing
\* slash, password login on, the whitelist ''.  Password login off and
\* the whitelist "d" are reached from it by Confirm and a whitelist Save.
\* States that differ only in the server's copy of a secret token are
\* told apart by nothing the form reads: the GET leaves them out.
MCView == <<[k \in Keys \ MCSecrets |-> srv[k]], local>>

MCInitialOptions ==
    {[k \in Keys |-> CASE k \in MCToggles -> "true"
                       [] k = "EmailDomainWhitelist" -> ""
                       [] OTHER -> "v"]}

=============================================================================
