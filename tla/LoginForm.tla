----------------------------- MODULE LoginForm -----------------------------
(***************************************************************************)
(* The login form (components/LoginForm.js): handleSubmit POSTs the        *)
(* username and password to /api/user/login, and the Telegram widget's     *)
(* callback, onTelegramLoginClicked, GETs /api/oauth/telegram/login.  On   *)
(* success either dispatches the login to the global UserContext, stores   *)
(* the user and navigates: to /token after a password login, to / after a  *)
(* Telegram one.  Neither await is in a try, and nothing guards against a  *)
(* second click.  None of the continuation touches the form's own state,   *)
(* so a call answered after the form is gone still logs in and navigates. *)
(*                                                                         *)
(* The inputs are abstracted to whether both fields are filled; the mount  *)
(* effect only reads the `expired` flag and the status for display, and    *)
(* `submitted` is set but never read.  The GitHub button only redirects    *)
(* the browser.  The server's state is left out: its answer is a member   *)
(* of Outcomes.                                                            *)
(***************************************************************************)
EXTENDS Integers, Bags, BagsExt

CONSTANTS
    Outcomes,      \* answers of a call: "ok", "fail" (success false), "throw"
    MaxInFlight,   \* bound on outstanding calls
    TokenRoute,    \* the route /token, the token list
    HomeRoute      \* the route /, the home page

ASSUME /\ MaxInFlight \in Nat \ {0}
       /\ Outcomes \subseteq {"ok", "fail", "throw"} /\ "ok" \in Outcomes

\* Where each login navigates once it succeeds.
Dest == [login |-> TokenRoute, telegram |-> HomeRoute]

VARIABLES
    page,      \* the route shown
    user,      \* UserContext: "in" after a login dispatch, "out" after logout
    filled,    \* username and password are both non-empty
    pending    \* bag of calls sent whose continuation has not run

vars == <<page, user, filled, pending>>

CanCall == BagCardinality(pending) < MaxInFlight
Issue(op) == pending' = BagAdd(pending, op)

\* The page is left or entered: a new instance starts with empty inputs.
Remount == filled' = FALSE

Init == page = "login" /\ user = "out" /\ filled = FALSE /\ pending = EmptyBag

\* handleChange on the username or password field: both are now filled,
\* or one of them is not.
HandleChange ==
    /\ page = "login"
    /\ filled' = ~filled
    /\ UNCHANGED <<page, user, pending>>

\* handleSubmit with both fields filled (otherwise it only shows an error):
\* POST /api/user/login.
HandleSubmit ==
    /\ page = "login"
    /\ filled
    /\ CanCall
    /\ Issue("login")
    /\ UNCHANGED <<page, user, filled>>

\* onTelegramLoginClicked, once the user has authorised the bot in the
\* widget: GET /api/oauth/telegram/login.
TelegramLogin ==
    /\ page = "login"
    /\ CanCall
    /\ Issue("telegram")
    /\ UNCHANGED <<page, user, filled>>

\* A call ends.  On success: userDispatch login, and navigate away, which
\* unmounts the form if it is shown.  A failure only shows the message; a
\* rejection ends the handler.
Complete(op) ==
    \E out \in Outcomes :
        /\ pending' = BagRemove(pending, op)
        /\ IF out = "ok"
              THEN /\ user' = "in"
                   /\ page' = Dest[op]
                   /\ Remount
              ELSE UNCHANGED <<page, user, filled>>

AdminStep == HandleChange \/ HandleSubmit \/ TelegramLogin

SystemStep == \E op \in BagToSet(pending) : Complete(op)

Next == AdminStep \/ SystemStep

Spec == Init /\ [][Next]_vars /\ WF_vars(SystemStep)

-----------------------------------------------------------------------------

TypeOK ==
    /\ user \in {"in", "out"} /\ filled \in BOOLEAN
    /\ IsABag(pending) /\ BagToSet(pending) \subseteq DOMAIN Dest

=============================================================================
