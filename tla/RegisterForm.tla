---------------------------- MODULE RegisterForm ----------------------------
(***************************************************************************)
(* The registration form (components/RegisterForm.js): handleSubmit POSTs  *)
(* the inputs to /api/user/register once the password checks pass, and     *)
(* sendVerificationCode GETs /api/verification.  Neither await is in a     *)
(* try: a rejected call skips the rest of the handler, setLoading(false)   *)
(* included.  The Register button only shows `loading` (a Semantic UI      *)
(* loading button still takes clicks); the verification button is          *)
(* disabled by it.                                                         *)
(*                                                                         *)
(* The inputs are abstracted to whether they pass handleSubmit's checks   *)
(* and whether the e-mail is empty.  The server's state is left    *)
(* out: its answer is a member of Outcomes.  A call carries `alive`, FALSE *)
(* once the instance that sent it is unmounted; navigate('/login') acts    *)
(* either way.                                                             *)
(***************************************************************************)
EXTENDS Integers, Bags, BagsExt

CONSTANTS
    Outcomes,           \* answers of a call: "ok", "fail" (success false), "throw"
    MaxInFlight,        \* bound on outstanding calls
    EmailVerification   \* status.email_verification: the e-mail fields shown

ASSUME /\ MaxInFlight \in Nat \ {0} /\ EmailVerification \in BOOLEAN
       /\ Outcomes \subseteq {"ok", "fail", "throw"} /\ "ok" \in Outcomes

VARIABLES
    page,       \* the route shown
    valid,      \* a password of 8 characters or more, equal to its
                \* confirmation, and a username
    email,      \* inputs.email # ''
    loading,    \* loading
    pending,    \* bag of calls sent whose continuation has not run
    lastThrew   \* history: the last call of the mounted form was rejected

local == <<valid, email, loading, lastThrew>>
vars == <<page, local, pending>>

CanCall == BagCardinality(pending) < MaxInFlight
Call(op) == [op |-> op, alive |-> TRUE]
Issue(c) == pending' = BagAdd(pending, c)
\* The calls of an unmounted instance.  A verification request can then
\* only call setLoading on the gone instance, which does nothing: it is
\* left out.  A registration still navigates if it succeeds.
Orphaned(b) ==
    BagOfAll(LAMBDA c : [c EXCEPT !.alive = FALSE],
             [c \in {d \in DOMAIN b : d.op = "register"} |-> b[c]])

\* The useState initial values: every field empty, so the password is short.
ResetLocal ==
    /\ valid' = FALSE /\ email' = FALSE /\ loading' = FALSE
    /\ lastThrew' = FALSE

\* The page is left, or entered: a new instance starts from the initial
\* values, and the old one's handlers go on without it.
Remount == ResetLocal /\ pending' = Orphaned(pending)

Init ==
    /\ page = "register"
    /\ valid = FALSE /\ email = FALSE /\ loading = FALSE /\ lastThrew = FALSE
    /\ pending = EmptyBag

\* handleChange on a field: the inputs now pass the checks or fail one,
\* or the e-mail is typed or cleared.
HandleChange(v, e) ==
    /\ page = "register"
    /\ e => EmailVerification
    /\ <<v, e>> # <<valid, email>>
    /\ valid' = v /\ email' = e
    /\ UNCHANGED <<page, loading, pending, lastThrew>>

\* handleSubmit, past its checks (a password under 8 characters, two
\* passwords that differ, an empty username only show a message):
\* setLoading(true) and POST /api/user/register.
HandleSubmit ==
    /\ page = "register"
    /\ valid
    /\ CanCall
    /\ loading' = TRUE
    /\ Issue(Call("register"))
    /\ UNCHANGED <<page, valid, email, lastThrew>>

\* sendVerificationCode, whose button loading disables: an empty e-mail
\* returns; otherwise setLoading(true) and GET /api/verification.
SendVerificationCode ==
    /\ page = "register"
    /\ EmailVerification /\ ~loading
    /\ email
    /\ CanCall
    /\ loading' = TRUE
    /\ Issue(Call("verify"))
    /\ UNCHANGED <<page, valid, email, lastThrew>>

\* Mutant: a failed answer returns after showError, before setLoading(false).
CompleteNoResetOnFail(c) ==
    \E out \in Outcomes :
        IF c.op = "register" /\ out = "ok" /\ page # "login"
           THEN /\ page' = "login"
                /\ ResetLocal
                /\ pending' = Orphaned(BagRemove(pending, c))
           ELSE /\ pending' = BagRemove(pending, c)
                /\ IF c.alive
                      THEN /\ loading' = IF out = "ok" THEN FALSE ELSE loading
                           /\ lastThrew' = (out = "throw")
                      ELSE UNCHANGED <<loading, lastThrew>>
                /\ UNCHANGED <<page, valid, email>>

\* A call ends.  A registration that succeeded navigates to the login
\* route: the form, if it is the page shown, is unmounted.  Otherwise
\* setLoading(false) ends the handler (on a gone instance it does
\* nothing); a rejection ends it before setLoading(false).
Complete(c) ==
    \E out \in Outcomes :
        IF c.op = "register" /\ out = "ok" /\ page # "login"
           THEN /\ page' = "login"
                /\ ResetLocal
                /\ pending' = Orphaned(BagRemove(pending, c))
           ELSE /\ pending' = BagRemove(pending, c)
                /\ IF c.alive
                      THEN /\ loading' = IF out = "throw" THEN loading ELSE FALSE
                           /\ lastThrew' = (out = "throw")
                      ELSE UNCHANGED <<loading, lastThrew>>
                /\ UNCHANGED <<page, valid, email>>

AdminStep ==
    \/ \E v, e \in BOOLEAN : HandleChange(v, e)
    \/ HandleSubmit
    \/ SendVerificationCode

SystemStep == \E c \in BagToSet(pending) : Complete(c)

Next == AdminStep \/ SystemStep

Spec == Init /\ [][Next]_vars /\ WF_vars(SystemStep)

-----------------------------------------------------------------------------

TypeOK ==
    /\ valid \in BOOLEAN /\ email \in BOOLEAN
    /\ loading \in BOOLEAN /\ lastThrew \in BOOLEAN
    /\ IsABag(pending)
    /\ BagToSet(pending) \subseteq [op : {"register", "verify"}, alive : BOOLEAN]

\* The form is left spinning, with the verification button disabled, and
\* no call of its own outstanding, only after one of its calls was
\* rejected: every answer reaches setLoading(false).
StuckOnlyAfterThrow ==
    loading /\ (\A c \in BagToSet(pending) : ~c.alive) => lastThrew

=============================================================================
