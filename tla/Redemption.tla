------------------------------ MODULE Redemption ------------------------------
(***************************************************************************)
(* What the top-up page's Redeem form and the server promise together,     *)
(* without calls, answers or route changes.  A submission disables the     *)
(* form; the server acts at most once on each code submitted and credits   *)
(* a code only while it is unused; a submission may be lost on the way;   *)
(* and the form is enabled again in the end.  The server may act on a      *)
(* code after the form has been enabled again, once the page that sent it *)
(* is gone.                                                                *)
(*                                                                         *)
(* Outstanding submissions are a set of codes: the same code submitted     *)
(* twice before the server saw the first is one request, as in the pages' *)
(* own set of calls, and the server may act on it once for each.          *)
(***************************************************************************)
EXTENDS Integers

CONSTANTS Codes, Worth, Quota0

VARIABLES
    quota,    \* the user's quota on the server
    unused,   \* the codes not redeemed yet
    busy,     \* the Redeem button is disabled
    sent      \* the codes submitted that the server has not acted on

avars == <<quota, unused, busy, sent>>

Init == quota = Quota0 /\ unused = Codes /\ busy = FALSE /\ sent = {}

\* A click on the enabled button submits a code and disables the button.
Submit(k) ==
    /\ ~busy
    /\ busy' = TRUE
    /\ sent' = sent \cup {k}
    /\ UNCHANGED <<quota, unused>>

\* The server acts on a submitted code: an unused code is redeemed for
\* Worth, a used one changes nothing.
Act(k) ==
    /\ k \in sent
    /\ sent' \in {sent \ {k}, sent}
    /\ IF k \in unused THEN quota' = quota + Worth /\ unused' = unused \ {k}
                       ELSE UNCHANGED <<quota, unused>>
    /\ UNCHANGED busy

\* A submission never reaches the server.
Lose(k) ==
    /\ k \in sent
    /\ sent' = sent \ {k}
    /\ UNCHANGED <<quota, unused, busy>>

\* The submission ends and the button is enabled again; a submission that
\* ends on a transport error may be lost with it.
Finish ==
    /\ busy
    /\ busy' = FALSE
    /\ \/ sent' = sent
       \/ \E k \in sent : sent' = sent \ {k}
    /\ UNCHANGED <<quota, unused>>

Next ==
    \/ \E k \in Codes : Submit(k) \/ Act(k) \/ Lose(k)
    \/ Finish

\* Every submission ends.
Spec == Init /\ [][Next]_avars /\ WF_avars(Finish)

=============================================================================
