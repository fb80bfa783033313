------------------------------ MODULE EditToken ------------------------------
(***************************************************************************)
(* The token edit panel (pages/Token/EditToken.js), with the Open and      *)
(* Close of the token list that drives it (the list is not in this         *)
(* repository).  Two effects decide what the panel shows: one sets isEdit  *)
(* when props.editingToken.id changes, the other runs when isEdit changes  *)
(* and either resets the form (create) or calls loadToken (edit).  In      *)
(* create mode Submit POSTs tokenCount tokens one after the other, and     *)
(* stops at the first failure.                                             *)
(*                                                                         *)
(* A token's data is abstracted to the token it was loaded from (src,      *)
(* None for the blank originInputs) and its expiry: "never" (-1), "set" (a *)
(* date) or "bad" (a cleared picker, which Date.parse turns into NaN).     *)
(* Name and quota are display data and left out.                           *)
(***************************************************************************)
EXTENDS Integers, Bags, BagsExt

CONSTANTS
    N,             \* number of tokens on the server
    MaxCount,      \* the largest tokenCount the admin enters
    Outcomes,      \* answers of a call: "ok", "fail", "throw"
    MaxInFlight    \* bound on outstanding calls

ASSUME /\ N \in Nat \ {0} /\ MaxCount \in Nat \ {0}
       /\ Outcomes \subseteq {"ok", "fail", "throw"} /\ "ok" \in Outcomes
       /\ MaxInFlight \in Nat \ {0}

Ids == 1..N
None == 0                      \* props.editingToken.id === undefined
Times == {"never", "set", "bad"}

\* originInputs: no token's data, expired_time -1.
OriginInputs == [src |-> None, time |-> "never"]

VARIABLES
    srv,          \* srv[i]: the data token i holds on the server
    editingId,    \* the list's editingToken.id
    visible,      \* props.visiable
    isEdit,       \* EditToken's isEdit
    loading,      \* EditToken's loading (the panel's Spin)
    inputs,       \* EditToken's inputs
    tokenCount,   \* EditToken's tokenCount
    pending,      \* bag of outstanding calls with what they closed over
    lastThrew     \* history: the last call to finish was rejected

vars == <<srv, editingId, visible, isEdit, loading, inputs, tokenCount,
          pending, lastThrew>>

CanCall == BagCardinality(pending) < MaxInFlight
Issue(c) == pending' = BagAdd(pending, c)

\* The useState initial values: isEdit false, loading = isEdit.
Init ==
    /\ srv = [i \in Ids |-> [src |-> i, time |-> "never"]]
    /\ editingId = None
    /\ visible = FALSE
    /\ isEdit = FALSE
    /\ loading = FALSE
    /\ inputs = OriginInputs
    /\ tokenCount = 1
    /\ pending = EmptyBag
    /\ lastThrew = FALSE

(***************************************************************************)
(* The token list opens and closes the panel (its SideSheet masks the      *)
(* list).  Opening sets editingToken; when the id changed, the first       *)
(* effect sets isEdit, and when isEdit changed, the second effect resets   *)
(* the form or calls loadToken (setLoading(true), GET the token).          *)
(***************************************************************************)
Open(id) ==
    /\ ~visible
    /\ visible' = TRUE
    /\ editingId' = id
    /\ LET edit == IF id # editingId THEN id # None ELSE isEdit
       IN  /\ isEdit' = edit
           /\ IF edit = isEdit
                 THEN UNCHANGED <<loading, inputs, pending>>
              ELSE IF edit
                 THEN /\ CanCall
                      /\ loading' = TRUE
                      /\ Issue([op |-> "load", id |-> id])
                      /\ UNCHANGED inputs
                 ELSE /\ inputs' = OriginInputs
                      /\ UNCHANGED <<loading, pending>>
    /\ UNCHANGED <<srv, tokenCount, lastThrew>>

\* handleCancel -> props.handleClose (the footer's Cancel, outside the Spin).
Close ==
    /\ visible
    /\ visible' = FALSE
    /\ UNCHANGED <<srv, editingId, isEdit, loading, inputs, tokenCount,
                   pending, lastThrew>>

(***************************************************************************)
(* The panel's fields, inside the Spin.                                    *)
(***************************************************************************)

\* The expiry: the DatePicker (a date, or null when cleared) and the
\* setExpiredTime buttons (-1 for "Never Expires", a date otherwise).
SetTime(t) ==
    /\ visible /\ ~loading
    /\ inputs' = [inputs EXCEPT !.time = t]
    /\ UNCHANGED <<srv, editingId, visible, isEdit, loading, tokenCount,
                   pending, lastThrew>>

\* Mutant: the count taken without the positivity check.
HandleTokenCountChangeNoCheck(n) ==
    /\ visible /\ ~loading /\ ~isEdit
    /\ tokenCount' = n
    /\ UNCHANGED <<srv, editingId, visible, isEdit, loading, inputs,
                   pending, lastThrew>>

\* handleTokenCountChange (the field is shown in create mode only): a
\* value that is not a positive integer is ignored.
HandleTokenCountChange(n) ==
    /\ visible /\ ~loading /\ ~isEdit
    /\ n > 0
    /\ tokenCount' = n
    /\ UNCHANGED <<srv, editingId, visible, isEdit, loading, inputs,
                   pending, lastThrew>>

(***************************************************************************)
(* submit, the footer's Submit button, outside the Spin.  setLoading(true);*)
(* an expiry Date.parse rejects ends it at once: in edit mode with         *)
(* setLoading(false) and return, in create mode with the loop's break      *)
(* before any POST and then the reset after the loop.  Otherwise the       *)
(* first call is sent: the PUT of the inputs to editingToken.id, or the    *)
(* first POST of a batch of tokenCount.                                    *)
(***************************************************************************)

\* After the batch loop: close the panel when a token was created; then
\* setLoading(false), setInputs(originInputs), setTokenCount(1).
Finish(cnt) ==
    /\ visible' = (visible /\ cnt = 0)
    /\ loading' = FALSE
    /\ inputs' = OriginInputs
    /\ tokenCount' = 1

Submit ==
    /\ visible
    /\ IF inputs.time = "bad"
          THEN /\ IF isEdit THEN /\ loading' = FALSE
                                 /\ UNCHANGED <<visible, inputs, tokenCount>>
                            ELSE Finish(0)
               /\ UNCHANGED pending
          ELSE /\ CanCall
               /\ loading' = TRUE
               /\ Issue(IF isEdit
                           THEN [op |-> "put", id |-> editingId, data |-> inputs]
                           ELSE [op |-> "post", i |-> 0, n |-> tokenCount,
                                 data |-> inputs, cnt |-> 0])
               /\ UNCHANGED <<visible, inputs, tokenCount>>
    /\ UNCHANGED <<srv, editingId, isEdit, lastThrew>>

(***************************************************************************)
(* A call completes: the server acts and answers, and the continuation     *)
(* runs on the answer, in any order; a rejected call ("throw") skips the   *)
(* continuation, whether or not the server acted.                          *)
(***************************************************************************)

\* PUT /api/token/ overwrites the token with the fields it is sent; a POST
\* adds a token that no other part of this model reads.
Effect(c) ==
    IF c.op = "put" THEN srv' = [srv EXCEPT ![c.id] = c.data]
                    ELSE UNCHANGED srv

ServerHandles(c, out) ==
    \/ out = "ok" /\ Effect(c)
    \/ out = "fail" /\ UNCHANGED srv
    \/ out = "throw" /\ (Effect(c) \/ UNCHANGED srv)

\* Mutant: setLoading(false) only when the load succeeded.
LoadTokenReturnsClearOnOk(c, out) ==
    /\ c.op = "load"
    /\ inputs' = IF out = "ok" THEN srv[c.id] ELSE inputs
    /\ loading' = IF out = "ok" THEN FALSE ELSE loading
    /\ UNCHANGED <<visible, tokenCount>>

\* loadToken after the await: setInputs(data) of the token it was called
\* for, whatever the panel shows now; then setLoading(false).
LoadTokenReturns(c, out) ==
    /\ c.op = "load"
    /\ inputs' = IF out = "ok" THEN srv[c.id] ELSE inputs
    /\ loading' = IF out = "throw" THEN loading ELSE FALSE
    /\ UNCHANGED <<visible, tokenCount>>

\* The edit branch after the await: on success props.refresh() and
\* props.handleClose(); then, success or not, the reset after the branch.
PutReturns(c, out) ==
    /\ c.op = "put"
    /\ IF out = "throw"
          THEN UNCHANGED <<visible, loading, inputs, tokenCount>>
          ELSE /\ visible' = (visible /\ out = "fail")
               /\ loading' = FALSE
               /\ inputs' = OriginInputs
               /\ tokenCount' = 1

\* The create loop after a POST's await: count a success and POST the next
\* token, or leave the loop after the last one or at a failure.
PostReturns(c, out) ==
    /\ c.op = "post"
    /\ CASE out = "ok" /\ c.i + 1 < c.n ->
              /\ pending' = BagAdd(BagRemove(pending, c),
                                   [c EXCEPT !.i = @ + 1, !.cnt = @ + 1])
              /\ UNCHANGED <<visible, loading, inputs, tokenCount>>
         [] out = "ok" -> Finish(c.cnt + 1) /\ pending' = BagRemove(pending, c)
         [] out = "fail" -> Finish(c.cnt) /\ pending' = BagRemove(pending, c)
         [] OTHER -> UNCHANGED <<visible, loading, inputs, tokenCount>>
                     /\ pending' = BagRemove(pending, c)

Complete(c) ==
    \E out \in Outcomes :
        /\ ServerHandles(c, out)
        /\ \/ LoadTokenReturns(c, out) /\ pending' = BagRemove(pending, c)
           \/ PutReturns(c, out) /\ pending' = BagRemove(pending, c)
           \/ PostReturns(c, out)
        /\ lastThrew' = (out = "throw")
        /\ UNCHANGED <<editingId, isEdit>>

AdminStep ==
    \/ \E id \in Ids \cup {None} : Open(id)
    \/ Close
    \/ \E t \in Times : SetTime(t)
    \/ \E n \in 0..MaxCount : HandleTokenCountChange(n)
    \/ Submit

SystemStep == \E c \in BagToSet(pending) : Complete(c)

Next == AdminStep \/ SystemStep

\* The server answers every call and the browser runs every continuation.
Spec == Init /\ [][Next]_vars /\ WF_vars(SystemStep)

-----------------------------------------------------------------------------
(***************************************************************************)
(* Properties                                                              *)
(***************************************************************************)

Data == [src : Ids \cup {None}, time : Times]

Req == [op : {"load"}, id : Ids]
       \cup [op : {"put"}, id : Ids \cup {None}, data : Data]
       \cup [op : {"post"}, i : 0..MaxCount, n : 1..MaxCount, data : Data,
             cnt : 0..MaxCount]

TypeOK ==
    /\ srv \in [Ids -> Data]
    /\ editingId \in Ids \cup {None}
    /\ visible \in BOOLEAN /\ isEdit \in BOOLEAN /\ loading \in BOOLEAN
    /\ inputs \in Data
    /\ tokenCount \in 1..MaxCount
    /\ IsABag(pending) /\ BagToSet(pending) \subseteq Req
    /\ lastThrew \in BOOLEAN

\* The panel spins with no call outstanding only after a rejected call:
\* every other way out of loadToken and submit, the early exits and the
\* batch loop's break included, turns the spinner off.
StuckSpinnerOnlyAfterThrow ==
    loading /\ BagCardinality(pending) = 0 => lastThrew

\* Every token on the server holds its own data: a save from the panel
\* writes back what was loaded from that token (spec section 4: edit
\* panels load on open, then PUT).
TokensKeepOwnData == \A i \in Ids : srv[i].src = i

=============================================================================
