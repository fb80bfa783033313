--------------------------- MODULE PersonalSetting ---------------------------
(***************************************************************************)
(* The personal settings page (components/PersonalSetting.js): the user    *)
(* data loaded on mount into the global UserContext, the e-mail binding    *)
(* modal with its verification-code countdown, the account deletion and   *)
(* the password change.  The transfer modal is unreachable (the button     *)
(* that opens it is commented out); the invitation link, the model list    *)
(* and the system access token are display data.                           *)
(*                                                                         *)
(* A call is handled by the server and answered in separate steps, and an  *)
(* async handler goes on after its page is unmounted: its setState calls   *)
(* then do nothing, but userDispatch and navigate still act.  A call       *)
(* carries `alive`, FALSE once the instance that sent it is unmounted.     *)
(* `page` is the route; deleteAccount ends with navigate('/login').        *)
(***************************************************************************)
EXTENDS Integers, Bags, BagsExt

CONSTANTS
    Countdown0,   \* the countdown's initial value (30 ticks of one second)
    Outcomes,     \* answers of a call: "ok", "fail" (success false), "throw"
    MaxInFlight   \* bound on outstanding calls

ASSUME /\ Countdown0 \in Nat \ {0} /\ MaxInFlight \in Nat \ {0}
       /\ Outcomes \subseteq {"ok", "fail", "throw"} /\ "ok" \in Outcomes

Modals == {"none", "bind", "delete", "password"}

VARIABLES
    page,        \* the route shown: "personal" or "login"
    user,        \* UserContext: "in" after a login dispatch, "out" after logout
    account,     \* the account exists on the server
    modal,       \* the modal shown (their masks keep them one at a time)
    email,       \* inputs.email: "" or an address
    code,        \* inputs.email_verification_code: "" or a code
    confirmOk,   \* inputs.self_account_deletion_confirmation = the username
    pwMatch,     \* inputs.set_new_password = its confirmation
    loading,     \* loading
    disable,     \* disableButton
    countdown,   \* countdown
    pending      \* bag of calls sent whose continuation has not run

local == <<modal, email, code, confirmOk, pwMatch, loading, disable, countdown>>
vars == <<page, user, account, local, pending>>

CanCall == BagCardinality(pending) < MaxInFlight
Call(op) == [op |-> op, alive |-> TRUE, served |-> FALSE, res |-> FALSE]
Issue(c) == pending' = BagAdd(pending, c)

\* The calls of an unmounted instance: their handlers go on without it.
\* Those of sendVerificationCode, bindEmail and changePassword can then
\* only call setState on the gone instance, and change nothing the model
\* keeps: they are left out.
Orphaned(b) ==
    BagOfAll(LAMBDA c : [c EXCEPT !.alive = FALSE],
             [c \in {d \in DOMAIN b : d.op \in {"self", "delete", "logout"}} |-> b[c]])

\* A call of the instance on the page, or one whose instance is gone.
Active(c) == ~c.alive \/ page = "personal"

\* Mount: the useState initial values (the empty confirmation differs from
\* the username, the two empty passwords match), and the mount effect's
\* getUserData(); loadModels and getAffLink only fill display state.
Mount ==
    /\ modal = "none" /\ email = "" /\ code = ""
    /\ confirmOk = FALSE /\ pwMatch = TRUE
    /\ loading = FALSE /\ disable = FALSE /\ countdown = Countdown0

ResetLocal ==
    /\ modal' = "none" /\ email' = "" /\ code' = ""
    /\ confirmOk' = FALSE /\ pwMatch' = TRUE
    /\ loading' = FALSE /\ disable' = FALSE /\ countdown' = Countdown0

\* The page is left: its handlers go on without it, and its interval is
\* cleared; the next mount starts from Mount's values.
Unmount == ResetLocal /\ pending' = Orphaned(pending)

\* The page is entered: a new instance, whose mount effect calls
\* getUserData.
Remount == ResetLocal /\ pending' = BagAdd(Orphaned(pending), Call("self"))

Init ==
    /\ page = "personal" /\ user = "in" /\ account = TRUE
    /\ Mount
    /\ pending = SetToBag({Call("self")})

(***************************************************************************)
(* The user, on the mounted page.                                          *)
(***************************************************************************)

\* The page's Bind Email, Delete Personal Account and Change Password
\* buttons, and each modal's Cancel.
OpenModal(m) ==
    /\ modal = "none" /\ m # "none"
    /\ modal' = m
    /\ UNCHANGED <<page, user, account, email, code, confirmOk, pwMatch,
                   loading, disable, countdown, pending>>

CancelModal ==
    /\ modal # "none"
    /\ modal' = "none"
    /\ UNCHANGED <<page, user, account, email, code, confirmOk, pwMatch,
                   loading, disable, countdown, pending>>

\* handleInputChange on the fields of the open modal.
HandleInputChange(e, k, ok, match) ==
    /\ \/ modal = "bind" /\ email' = e /\ code' = k
          /\ UNCHANGED <<confirmOk, pwMatch>>
       \/ modal = "delete" /\ confirmOk' = ok
          /\ UNCHANGED <<email, code, pwMatch>>
       \/ modal = "password" /\ pwMatch' = match
          /\ UNCHANGED <<email, code, confirmOk>>
    /\ UNCHANGED <<page, user, account, modal, loading, disable, countdown,
                   pending>>

\* sendVerificationCode (its button is disabled by disableButton || loading):
\* an empty e-mail only shows an error; otherwise start the countdown, spin,
\* and GET /api/verification.
SendVerificationCode ==
    /\ modal = "bind" /\ ~disable /\ ~loading
    /\ email # ""
    /\ CanCall
    /\ disable' = TRUE /\ loading' = TRUE
    /\ Issue(Call("verify"))
    /\ UNCHANGED <<page, user, account, modal, email, code, confirmOk,
                   pwMatch, countdown>>

\* bindEmail, the bind modal's OK: an empty code only shows an error.
BindEmail ==
    /\ modal = "bind" /\ code # ""
    /\ CanCall
    /\ loading' = TRUE
    /\ Issue(Call("bind"))
    /\ UNCHANGED <<page, user, account, modal, email, code, confirmOk,
                   pwMatch, disable, countdown>>

\* deleteAccount, the delete modal's OK: the confirmation must be the
\* username; then DELETE /api/user/self.
DeleteAccount ==
    /\ modal = "delete" /\ confirmOk
    /\ CanCall
    /\ Issue(Call("delete"))
    /\ UNCHANGED <<page, user, account, local>>

\* changePassword, the password modal's OK: the two fields must match;
\* then PUT /api/user/self.
ChangePassword ==
    /\ modal = "password" /\ pwMatch
    /\ CanCall
    /\ Issue(Call("password"))
    /\ UNCHANGED <<page, user, account, local>>

(***************************************************************************)
(* The countdown effect on [disableButton, countdown]: while the button is *)
(* disabled and countdown > 0, an interval sets countdown - 1 of its       *)
(* render a second later; the effect run by countdown reaching 0 enables   *)
(* the button and sets the countdown back.  The interval is cleared on     *)
(* unmount.                                                                *)
(***************************************************************************)

\* Mutant: the `else if (countdown === 0)` branch dropped.
TickNoReset ==
    /\ disable /\ countdown > 0
    /\ countdown' = countdown - 1
    /\ UNCHANGED <<page, user, account, modal, email, code, confirmOk,
                   pwMatch, loading, disable, pending>>

Tick ==
    /\ disable /\ countdown > 0
    /\ IF countdown = 1 THEN disable' = FALSE /\ countdown' = Countdown0
                        ELSE countdown' = countdown - 1 /\ UNCHANGED disable
    /\ UNCHANGED <<page, user, account, modal, email, code, confirmOk,
                   pwMatch, loading, pending>>

(***************************************************************************)
(* The server handles a call: GET /api/user/self succeeds while the        *)
(* account exists; DELETE removes it.  Any call may be refused when        *)
(* Outcomes has "fail".                                                    *)
(***************************************************************************)
Serve(c) ==
    /\ ~c.served
    /\ \E ok \in IF "fail" \in Outcomes THEN BOOLEAN ELSE {TRUE} :
          LET res == IF c.op = "self" THEN account ELSE ok
          IN  /\ account' = (account /\ ~(c.op = "delete" /\ res))
              /\ pending' = BagAdd(BagRemove(pending, c),
                                   [c EXCEPT !.served = TRUE, !.res = res])
    /\ UNCHANGED <<page, user, local>>

(***************************************************************************)
(* A handler goes on after its await: with the server's answer once it has *)
(* handled the call, or with a transport error ("throw") at any time,      *)
(* which ends the handler.  The setState calls of an unmounted instance do *)
(* nothing.                                                                *)
(***************************************************************************)

\* getUserData: userDispatch({type: 'login'}) on success.
SelfReturns(c, ok) ==
    /\ c.op = "self"
    /\ user' = IF ok THEN "in" ELSE user
    /\ pending' = BagRemove(pending, c)
    /\ UNCHANGED <<page, local>>

\* sendVerificationCode and bindEmail: setLoading(false); a bound e-mail
\* also closes the modal.
VerifyOrBindReturns(c, ok) ==
    /\ c.op \in {"verify", "bind"}
    /\ IF c.alive
          THEN /\ loading' = FALSE
               /\ modal' = IF c.op = "bind" /\ ok THEN "none" ELSE modal
          ELSE UNCHANGED <<loading, modal>>
    /\ pending' = BagRemove(pending, c)
    /\ UNCHANGED <<page, user, email, code, confirmOk, pwMatch, disable,
                   countdown>>

\* deleteAccount on success: await GET /api/user/logout.
DeleteReturns(c, ok) ==
    /\ c.op = "delete"
    /\ pending' = IF ok THEN BagAdd(BagRemove(pending, c),
                                    [Call("logout") EXCEPT !.alive = c.alive])
                        ELSE BagRemove(pending, c)
    /\ UNCHANGED <<page, user, local>>

\* deleteAccount after the logout, whatever it answered:
\* userDispatch({type: 'logout'}) and navigate('/login'), which unmounts
\* the page.
LogoutReturns(c, ok) ==
    /\ c.op = "logout"
    /\ user' = "out"
    /\ page' = "login"
    /\ ResetLocal
    /\ pending' = Orphaned(BagRemove(pending, c))

\* changePassword: the modal closes, success or not.
PasswordReturns(c, ok) ==
    /\ c.op = "password"
    /\ modal' = IF c.alive THEN "none" ELSE modal
    /\ pending' = BagRemove(pending, c)
    /\ UNCHANGED <<page, user, email, code, confirmOk, pwMatch, loading,
                   disable, countdown>>

Return(c) ==
    \/ /\ "throw" \in Outcomes
       /\ pending' = BagRemove(pending, c)
       /\ UNCHANGED <<page, user, account, local>>
    \/ /\ c.served
       /\ \/ SelfReturns(c, c.res)
          \/ VerifyOrBindReturns(c, c.res)
          \/ DeleteReturns(c, c.res)
          \/ LogoutReturns(c, c.res)
          \/ PasswordReturns(c, c.res)
       /\ UNCHANGED account

AdminStep ==
    /\ page = "personal"
    /\ \/ \E m \in Modals : OpenModal(m)
       \/ CancelModal
       \/ \E e \in {"", "e"}, k \in {"", "c"}, ok, match \in BOOLEAN :
             HandleInputChange(e, k, ok, match)
       \/ SendVerificationCode
       \/ BindEmail
       \/ DeleteAccount
       \/ ChangePassword

\* The interval runs while the page is mounted; the server handles, and
\* the browser answers, the calls of the mounted instance and those of
\* instances gone.
TimerStep == page = "personal" /\ Tick

CallStep == \E c \in BagToSet(pending) : Active(c) /\ (Serve(c) \/ Return(c))

SystemStep == TimerStep \/ CallStep

Next == AdminStep \/ SystemStep

\* The server answers every call, the browser runs every continuation, and
\* the interval fires every second whatever else happens.
Spec == Init /\ [][Next]_vars /\ WF_vars(CallStep) /\ WF_vars(TimerStep)

-----------------------------------------------------------------------------
(***************************************************************************)
(* Properties                                                              *)
(***************************************************************************)

Ops == {"self", "verify", "bind", "delete", "logout", "password"}

TypeOK ==
    /\ page \in {"personal", "login"} /\ user \in {"in", "out"}
    /\ account \in BOOLEAN /\ modal \in Modals
    /\ email \in {"", "e"} /\ code \in {"", "c"}
    /\ confirmOk \in BOOLEAN /\ pwMatch \in BOOLEAN
    /\ loading \in BOOLEAN /\ disable \in BOOLEAN
    /\ countdown \in 1..Countdown0
    /\ IsABag(pending)
    /\ BagToSet(pending) \subseteq
          [op : Ops, alive : BOOLEAN, served : BOOLEAN, res : BOOLEAN]

\* The verification button: disabled={disableButton || loading}.
ResendDisabled == disable \/ loading

\* loading left on with no send or bind of the page outstanding: one was
\* rejected, and sendVerificationCode and bindEmail have no try/finally.
SendRejected ==
    loading /\ \A c \in BagToSet(pending) : ~(c.alive /\ c.op \in {"verify", "bind"})

\* The verification button, once disabled by a send or a bind, is enabled
\* again (the send's answer clears loading, the countdown effect reaches
\* 0 and clears disableButton, or the page is left), unless a send or a
\* bind was rejected and left loading on.
ResendReenables == [](ResendDisabled => <>(~ResendDisabled \/ SendRejected))

\* Once the account is deleted and the logout dispatched, the user stays
\* logged out: no getUserData answer logs the deleted account back in.
StaysLoggedOut == [](~account /\ user = "out" => [](user = "out"))

=============================================================================
