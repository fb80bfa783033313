----------------------------- MODULE MCConsole ------------------------------
EXTENDS Console

MCMjOutcomes == {"ok", "fail", "throw"}
MCTuOutcomes == {"ok", "throw"}
MCPsOutcomes == {"ok", "throw"}
MCLgOutcomes == {"ok", "throw"}
MCRgOutcomes == {"ok", "fail", "throw"}

\* The state without the UserContext, which no guard and no property of
\* Console_pages.cfg reads, and with only the number of logins
\* outstanding: a password login and a Telegram one land on the same
\* route here.  States that differ only there have the same futures.
MCView == <<page, mjVars, tuVars, orphans, psAccount, psLocal, psPending,
            lgFilled, BagCardinality(lgPending), rgVars>>

=============================================================================
