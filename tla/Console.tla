------------------------------- MODULE Console -------------------------------
(***************************************************************************)
(* The console's pages behind the router: one page is mounted at a time.  *)
(* A route change unmounts the page (React drops its state; answers to its *)
(* calls reach nothing) and mounts the other from its initial state.  The  *)
(* server goes on: a call the left page sent is still handled, and a       *)
(* redemption it sent may still credit the quota.                          *)
(*                                                                         *)
(* The pages composed here are the Midjourney task log, the top-up page,   *)
(* the personal settings page, the login and the registration forms, and  *)
(* "other", one route standing for the token list and home, which have no *)
(* model here; each page is INSTANCEd with its variables renamed.  The     *)
(* personal settings page and both forms share `page`: deleteAccount       *)
(* navigates to the login route, a registration to the login route and a  *)
(* login to the token list or home, even after the page that sent the     *)
(* call was left; a login also sets the UserContext the personal settings *)
(* page reads.                                                             *)
(***************************************************************************)
EXTENDS Integers, FiniteSets, Bags

CONSTANTS
    N, M, IPP, Filter, Matching, MjOutcomes, MaxInFlight,  \* MjLogsTable's
    Codes, Worth, Quota0, TuOutcomes,                      \* TopUp's
    Countdown0, PsOutcomes, PsMaxInFlight,                 \* PersonalSetting's
    LgOutcomes, LgMaxInFlight,                             \* LoginForm's
    RgOutcomes, RgMaxInFlight, EmailVerification,          \* RegisterForm's
    SessionMaxInFlight       \* the three pages whose handlers outlive them

VARIABLES
    page,                                         \* the route mounted
    mjSrv, mjLogs, mjLoading, mjActivePage, mjLogCount, mjInputs,
    mjPending, mjLastThrew, mjQueried,            \* MjLogsTable's
    tuQuota, tuUnused, tuCode, tuIsSubmitting, tuUserQuota, tuPending,
    tuLoaded,                                     \* TopUp's
    orphans,                                      \* redemptions an unmounted
                                                  \* TopUp sent, not yet handled
    psUser, psAccount, psModal, psEmail, psCode, psConfirmOk, psPwMatch,
    psLoading, psDisable, psCountdown, psPending, \* PersonalSetting's
    lgFilled, lgPending,                          \* LoginForm's
    rgValid, rgEmail, rgLoading, rgPending, rgLastThrew  \* RegisterForm's

MJ == INSTANCE MjLogsTable
        WITH srv <- mjSrv, logs <- mjLogs, loading <- mjLoading,
             activePage <- mjActivePage, logCount <- mjLogCount,
             inputs <- mjInputs, pending <- mjPending, lastThrew <- mjLastThrew,
             queried <- mjQueried, Outcomes <- MjOutcomes

TU == INSTANCE TopUp
        WITH quota <- tuQuota, unused <- tuUnused, code <- tuCode,
             isSubmitting <- tuIsSubmitting, userQuota <- tuUserQuota,
             pending <- tuPending, loaded <- tuLoaded, Outcomes <- TuOutcomes

PS == INSTANCE PersonalSetting
        WITH user <- psUser, account <- psAccount, modal <- psModal,
             email <- psEmail, code <- psCode, confirmOk <- psConfirmOk,
             pwMatch <- psPwMatch, loading <- psLoading, disable <- psDisable,
             countdown <- psCountdown, pending <- psPending,
             Outcomes <- PsOutcomes, MaxInFlight <- PsMaxInFlight

LG == INSTANCE LoginForm
        WITH user <- psUser, filled <- lgFilled, pending <- lgPending,
             Outcomes <- LgOutcomes, MaxInFlight <- LgMaxInFlight,
             TokenRoute <- "other", HomeRoute <- "other"

RG == INSTANCE RegisterForm
        WITH valid <- rgValid, email <- rgEmail, loading <- rgLoading,
             pending <- rgPending, lastThrew <- rgLastThrew,
             Outcomes <- RgOutcomes, MaxInFlight <- RgMaxInFlight

Pages == {"mj", "topup", "personal", "login", "register", "other"}

mjVars == <<mjSrv, mjLogs, mjLoading, mjActivePage, mjLogCount, mjInputs,
            mjPending, mjLastThrew, mjQueried>>
mjLocal == <<mjLogs, mjLoading, mjActivePage, mjLogCount, mjInputs,
             mjPending, mjLastThrew, mjQueried>>
tuVars == <<tuQuota, tuUnused, tuCode, tuIsSubmitting, tuUserQuota, tuPending,
            tuLoaded>>
tuLocal == <<tuCode, tuIsSubmitting, tuUserQuota, tuPending, tuLoaded>>
psVars == <<psUser, psAccount, psModal, psEmail, psCode, psConfirmOk,
            psPwMatch, psLoading, psDisable, psCountdown, psPending>>
psLocal == <<psModal, psEmail, psCode, psConfirmOk, psPwMatch, psLoading,
             psDisable, psCountdown>>
lgVars == <<lgFilled, lgPending>>
rgVars == <<rgValid, rgEmail, rgLoading, rgPending, rgLastThrew>>
vars == <<page, mjVars, tuVars, orphans, psVars, lgVars, rgVars>>

\* The console opens, logged in, on any page; the pages not mounted hold
\* the values they will mount with.
Init ==
    /\ page \in Pages \ {"login", "register"}
    /\ MJ!Init
    /\ TU!Init
    /\ orphans = {}
    /\ psUser = "in" /\ psAccount = TRUE
    /\ PS!Mount
    /\ psPending = IF page = "personal" THEN SetToBag({PS!Call("self")})
                                        ELSE EmptyBag
    /\ lgFilled = FALSE /\ lgPending = EmptyBag
    /\ rgValid = FALSE /\ rgEmail = FALSE /\ rgLoading = FALSE
    /\ rgLastThrew = FALSE /\ rgPending = EmptyBag

\* Every page but the one entered is left: MJ and TU start again from their
\* mount values, and TopUp's unhandled redemptions become orphans.
LeaveMjTu ==
    /\ MJ!Remount
    /\ TU!Remount
    /\ orphans' = orphans \cup {c \in tuPending : c.op = "topup" /\ ~c.served}
    /\ UNCHANGED <<mjSrv, tuQuota, tuUnused>>

\* Bound on the calls of the personal settings page and the login and
\* registration forms outstanding together, orphaned ones included: the
\* pages whose handlers act after they are left.
SessionCanCall ==
    BagCardinality(psPending) + BagCardinality(lgPending) + BagCardinality(rgPending)
        < SessionMaxInFlight

(***************************************************************************)
(* Route changes.  Leaving TopUp hands its redemptions the server has not  *)
(* handled yet to the server alone; the balance GET has no effect and the  *)
(* Midjourney loads have none either.                                      *)
(***************************************************************************)
Navigate(to) ==
    /\ to \in Pages \ {page}
    /\ to = "personal" => PS!CanCall /\ SessionCanCall  \* mount's getUserData
    /\ page' = to
    /\ LeaveMjTu
    /\ IF to = "personal" THEN PS!Remount ELSE PS!Unmount
    /\ LG!Remount /\ RG!Remount
    /\ UNCHANGED <<psUser, psAccount, lgPending>>

\* A step of the mounted page.
MjAdmin == page = "mj" /\ MJ!AdminStep /\ UNCHANGED <<page, tuVars, orphans, psVars, lgVars, rgVars>>
TuAdmin == page = "topup" /\ TU!AdminStep /\ UNCHANGED <<page, mjVars, orphans, psVars, lgVars, rgVars>>
PsAdmin == PS!AdminStep /\ (psPending' # psPending => SessionCanCall) /\ UNCHANGED <<mjVars, tuVars, orphans, lgVars, rgVars>>
LgAdmin == LG!AdminStep /\ (lgPending' # lgPending => SessionCanCall) /\ UNCHANGED <<mjVars, tuVars, orphans, psVars, rgVars>>
RgAdmin == RG!AdminStep /\ (rgPending' # rgPending => SessionCanCall) /\ UNCHANGED <<mjVars, tuVars, orphans, psVars, lgVars>>
MjSystem == page = "mj" /\ MJ!SystemStep /\ UNCHANGED <<page, tuVars, orphans, psVars, lgVars, rgVars>>
TuSystem == page = "topup" /\ TU!SystemStep /\ UNCHANGED <<page, mjVars, orphans, psVars, lgVars, rgVars>>

\* The personal settings page's interval, while it is mounted.
PsTimer == PS!TimerStep /\ UNCHANGED <<mjVars, tuVars, orphans, lgVars, rgVars>>

\* A call of the personal settings page is handled or answered, whether its
\* page is mounted or not; deleteAccount's navigate('/login') leaves the
\* page shown, whichever it is.
PsCall ==
    /\ PS!CallStep
    /\ IF page' = page THEN UNCHANGED <<mjVars, tuVars, orphans, lgVars, rgVars>>
                       ELSE LeaveMjTu /\ LG!Remount /\ RG!Remount
                            /\ UNCHANGED lgPending

\* A login is answered, whether its form is mounted or not; a success
\* logs in and leaves the page shown for the token list or home (Other).
LgCall ==
    /\ LG!SystemStep
    /\ UNCHANGED psAccount
    /\ IF page' = page
          THEN UNCHANGED <<mjVars, tuVars, orphans, psLocal, psPending, rgVars>>
          ELSE LeaveMjTu /\ PS!Unmount /\ RG!Remount

\* A registration or a verification request is answered, whether its form
\* is mounted or not; a registration that succeeded leaves the page shown
\* for the login route.
RgCall ==
    /\ RG!SystemStep
    /\ UNCHANGED <<psUser, psAccount>>
    /\ IF page' = page
          THEN UNCHANGED <<mjVars, tuVars, orphans, psLocal, psPending, lgVars>>
          ELSE LeaveMjTu /\ PS!Unmount /\ LG!Remount /\ UNCHANGED lgPending

\* The gateway records a Midjourney task, whichever page is shown.
RecordTask == MJ!RecordTask /\ UNCHANGED <<page, tuVars, orphans, psVars, lgVars, rgVars>>

\* The server handles an orphaned redemption, or a transport error drops
\* it before it arrives.
OrphanServe(c) ==
    /\ orphans' = orphans \ {c}
    /\ TU!Redeem(c.key) \/ UNCHANGED <<tuQuota, tuUnused>>
    /\ UNCHANGED <<page, mjVars, tuLocal, psVars, lgVars, rgVars>>

AdminStep ==
    MjAdmin \/ TuAdmin \/ PsAdmin \/ LgAdmin \/ RgAdmin \/ \E to \in Pages : Navigate(to)

SystemStep ==
    \/ MjSystem \/ TuSystem \/ PsTimer \/ PsCall \/ LgCall \/ RgCall
    \/ \E c \in orphans : OrphanServe(c)

Next == AdminStep \/ SystemStep \/ RecordTask

\* The server answers every call, the browser runs every continuation of
\* the mounted page and of PersonalSetting's handlers, and the interval of
\* a mounted PersonalSetting fires every second.
Spec == Init /\ [][Next]_vars /\ WF_vars(SystemStep) /\ WF_vars(PsTimer)

-----------------------------------------------------------------------------
(***************************************************************************)
(* Properties                                                              *)
(***************************************************************************)

TypeOK ==
    /\ page \in Pages
    /\ MJ!TypeOK
    /\ TU!TypeOK
    /\ \A c \in orphans : c.op = "topup" /\ c.key \in Codes /\ ~c.served
    /\ psUser \in {"in", "out"} /\ psAccount \in BOOLEAN /\ psModal \in PS!Modals
    /\ psLoading \in BOOLEAN /\ psDisable \in BOOLEAN
    /\ psCountdown \in 1..Countdown0
    /\ BagToSet(psPending) \subseteq
          [op : PS!Ops, alive : BOOLEAN, served : BOOLEAN, res : BOOLEAN]
    /\ \A c \in BagToSet(psPending) : c.alive => page = "personal"
    /\ LG!TypeOK /\ RG!TypeOK
    /\ \A c \in BagToSet(rgPending) : c.alive => page = "register"

\* On the task log, the table spins with no load outstanding only after a
\* load rejected, whatever route changes came before.
MjStuckSpinnerOnlyAfterThrow == MJ!StuckSpinnerOnlyAfterThrow

\* The Redeem form and the server, seen through the button's state and the
\* redemptions not yet handled (the mounted page's and the orphans),
\* behave as Redemption says: a submission only from an enabled button,
\* credit only for a code submitted and unused, and every submission
\* ended, by the answer, a transport error or a route change.
TuSent == {c.key : c \in {d \in tuPending \cup orphans : d.op = "topup" /\ ~d.served}}

RD == INSTANCE Redemption
        WITH quota <- tuQuota, unused <- tuUnused, busy <- tuIsSubmitting,
             sent <- TuSent

TuImplementsRedemption == RD!Spec

\* On the personal settings page, the verification button a send disabled
\* is enabled again: the countdown runs out, or the page is left.
PsResendReenables == PS!ResendReenables

\* On the registration form, the Register button spins and the
\* verification button stays disabled with no call of the mounted form
\* outstanding only after one of its calls was rejected, whatever route
\* changes and orphaned answers came before.
RgStuckOnlyAfterThrow == RG!StuckOnlyAfterThrow

=============================================================================
