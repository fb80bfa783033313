-------------------------------- MODULE TopUp --------------------------------
(***************************************************************************)
(* The top-up page (pages/TopUp/index.js): the balance, loaded once by     *)
(* getUserQuota, and the redemption form, whose topUp POSTs the code and   *)
(* adds the credited quota to the balance shown.  The online-payment form  *)
(* (preTopUp, onlineTopUp, getAmount and their modal) is commented out of  *)
(* the page, and openTopUpLink only opens a browser window: neither is     *)
(* modelled.                                                               *)
(*                                                                         *)
(* A call is sent, handled by the server (which acts and computes its      *)
(* answer) and answered, in separate steps: two calls may be handled in   *)
(* one order and answered in the other.  A transport error may strike      *)
(* before or after the server handled the call.                            *)
(***************************************************************************)
EXTENDS Integers, FiniteSets

CONSTANTS
    Codes,        \* redemption codes, each worth Worth quota
    Worth,
    Quota0,       \* the user's quota on the server when the page mounts
    Outcomes      \* how a call may end: "ok" (the server's answer),
                  \* "throw" (a transport error)

ASSUME /\ Worth \in Nat \ {0} /\ Quota0 \in Nat
       /\ Outcomes \subseteq {"ok", "throw"} /\ "ok" \in Outcomes

NoCode == ""

VARIABLES
    quota,         \* the user's quota on the server
    unused,        \* the codes the server has not redeemed yet
    code,          \* redemptionCode
    isSubmitting,  \* isSubmitting: the Redeem button is disabled
    userQuota,     \* userQuota: the balance shown
    pending,       \* calls sent whose continuation has not run
    loaded         \* history: getUserQuota's answer has been applied

local == <<code, isSubmitting, userQuota, pending, loaded>>
vars == <<quota, unused, local>>

\* Mount: the useState initial values, and the mount effect's
\* getUserQuota().  (It also reads top_up_link and the online top-up
\* settings from localStorage, which only the left-out parts use.)
Mount ==
    /\ code = NoCode
    /\ isSubmitting = FALSE
    /\ userQuota = 0
    /\ pending = {[op |-> "self", served |-> FALSE, res |-> 0]}
    /\ loaded = FALSE

Init == quota = Quota0 /\ unused = Codes /\ Mount

\* The page is mounted again: Mount's values; the old instance's calls
\* are no longer its own.
Remount ==
    /\ code' = NoCode
    /\ isSubmitting' = FALSE
    /\ userQuota' = 0
    /\ pending' = {[op |-> "self", served |-> FALSE, res |-> 0]}
    /\ loaded' = FALSE

(***************************************************************************)
(* The user.                                                               *)
(***************************************************************************)

\* The code field's onChange.
TypeCode(k) ==
    /\ code' = k
    /\ UNCHANGED <<quota, unused, isSubmitting, userQuota, pending, loaded>>

\* Mutant: the Redeem button without disabled={isSubmitting}.
TopUpClickNoGuard ==
    /\ code # NoCode
    /\ isSubmitting' = TRUE
    /\ pending' = pending \cup {[op |-> "topup", key |-> code, served |-> FALSE, res |-> 0]}
    /\ UNCHANGED <<quota, unused, code, userQuota, loaded>>

\* topUp (the Redeem button, disabled while submitting): an empty code only
\* shows a hint; otherwise setIsSubmitting(true) and POST the code.
TopUpClick ==
    /\ ~isSubmitting
    /\ code # NoCode
    /\ isSubmitting' = TRUE
    /\ pending' = pending \cup {[op |-> "topup", key |-> code, served |-> FALSE, res |-> 0]}
    /\ UNCHANGED <<quota, unused, code, userQuota, loaded>>

(***************************************************************************)
(* The server handles a call: POST /api/user/topup redeems an unused code  *)
(* and answers the quota credited (0 for success = false); GET             *)
(* /api/user/self answers the quota.                                       *)
(***************************************************************************)
Redeem(k) ==
    IF k \in unused THEN quota' = quota + Worth /\ unused' = unused \ {k}
                    ELSE UNCHANGED <<quota, unused>>

Answer(c) ==
    CASE c.op = "self" -> quota
      [] c.key \in unused -> Worth
      [] OTHER -> 0

Serve(c) ==
    /\ ~c.served
    /\ IF c.op = "topup" THEN Redeem(c.key) ELSE UNCHANGED <<quota, unused>>
    /\ pending' = (pending \ {c}) \cup {[c EXCEPT !.served = TRUE, !.res = Answer(c)]}
    /\ UNCHANGED <<code, isSubmitting, userQuota, loaded>>

\* The continuation of getUserQuota: setUserQuota(data.quota).  A
\* rejection is not caught and changes nothing.
SelfReturns(c, out) ==
    /\ c.op = "self"
    /\ IF out = "ok" THEN /\ userQuota' = c.res
                          /\ loaded' = TRUE
                     ELSE UNCHANGED <<userQuota, loaded>>
    /\ UNCHANGED <<code, isSubmitting>>

\* Mutant: setIsSubmitting(false) after the await instead of in `finally`.
TopUpReturnsNoFinally(c, out) ==
    /\ c.op = "topup"
    /\ IF out = "ok" /\ c.res > 0
          THEN /\ userQuota' = userQuota + c.res
               /\ code' = NoCode
          ELSE UNCHANGED <<userQuota, code>>
    /\ isSubmitting' = (out = "throw" /\ isSubmitting)
    /\ UNCHANGED loaded

\* The continuation of topUp: on success add the credited quota to the
\* balance (a functional update) and clear the code; `finally` re-enables
\* the button, after a rejection too.
TopUpReturns(c, out) ==
    /\ c.op = "topup"
    /\ IF out = "ok" /\ c.res > 0
          THEN /\ userQuota' = userQuota + c.res
               /\ code' = NoCode
          ELSE UNCHANGED <<userQuota, code>>
    /\ isSubmitting' = FALSE
    /\ UNCHANGED loaded

\* A call ends: with the server's answer once it has handled the call, or
\* with a transport error at any time.
Return(c) ==
    \E out \in Outcomes :
        /\ out = "ok" => c.served
        /\ pending' = pending \ {c}
        /\ \/ SelfReturns(c, out)
           \/ TopUpReturns(c, out)
        /\ UNCHANGED <<quota, unused>>

AdminStep ==
    \/ \E k \in Codes \cup {NoCode} : TypeCode(k)
    \/ TopUpClick

SystemStep == \E c \in pending : Serve(c) \/ Return(c)

Next == AdminStep \/ SystemStep

\* The server handles every call and the browser runs every continuation.
Spec == Init /\ [][Next]_vars /\ WF_vars(SystemStep)

-----------------------------------------------------------------------------
(***************************************************************************)
(* Properties                                                              *)
(***************************************************************************)

MaxQuota == Quota0 + Cardinality(Codes) * Worth

TypeOK ==
    /\ quota \in Quota0..MaxQuota /\ unused \subseteq Codes
    /\ code \in Codes \cup {NoCode} /\ isSubmitting \in BOOLEAN
    /\ userQuota \in 0..2 * MaxQuota /\ loaded \in BOOLEAN
    /\ \A c \in pending : c.op \in {"self", "topup"} /\ c.served \in BOOLEAN
                          /\ c.res \in 0..MaxQuota

\* Every code the user submits is answered, by the server or by a
\* transport error, and the Redeem button is enabled again.
RedeemButtonReenables == [](isSubmitting => <>~isSubmitting)

\* Once the balance has loaded and no call is outstanding, the balance
\* shown is the user's quota on the server.
BalanceMatchesServer ==
    loaded /\ pending = {} => userQuota = quota

=============================================================================
