------------------------------ MODULE EditUser -------------------------------
(***************************************************************************)
(* The user edit panel (pages/User/EditUser.js), with the Edit button and  *)
(* closeEditUser of the user table that drive it (UsersTable.js).  The     *)
(* panel's only effect runs when props.editingUser.id changes and calls    *)
(* loadUser: GET /api/user/<id>, or GET /api/user/self when the id is      *)
(* undefined.  The table resets editingUser to {id: undefined} on every    *)
(* close, so every close loads the admin's own record into the hidden      *)
(* form.                                                                   *)
(*                                                                         *)
(* A user's record is abstracted to the record it came from (src: a user   *)
(* id, Self for the admin's own, Blank for the useState initial values)    *)
(* and whether the admin typed into it.  The group list (fetchGroups) only *)
(* fills the Select's options and is left out.  props.refresh(), the       *)
(* table's reload after a save, changes only the table's state, which      *)
(* UsersTable models.                                                      *)
(***************************************************************************)
EXTENDS Integers, Bags, BagsExt

CONSTANTS
    N,             \* number of users the table lists
    Outcomes,      \* answers of a call: "ok", "fail", "throw"
    MaxInFlight    \* bound on outstanding calls

ASSUME /\ N \in Nat \ {0} /\ MaxInFlight \in Nat \ {0}
       /\ Outcomes \subseteq {"ok", "fail", "throw"} /\ "ok" \in Outcomes

Ids == 1..N
None == 0                     \* editingUser.id === undefined
Self == 0                     \* the record GET /api/user/self returns
Blank == -1                   \* the useState initial inputs

VARIABLES
    srv,          \* srv[i]: the record of user i (and Self) on the server
    editingId,    \* the table's editingUser.id
    visible,      \* the table's showEditUser
    loading,      \* EditUser's loading
    inputs,       \* EditUser's inputs
    pending,      \* bag of outstanding calls with what they closed over
    lastThrew     \* history: the last call to finish was rejected

vars == <<srv, editingId, visible, loading, inputs, pending, lastThrew>>

CanCall == BagCardinality(pending) < MaxInFlight
Issue(c) == pending' = BagAdd(pending, c)

\* loadUser up to its await: setLoading(true), GET the user or self.
LoadUser(id) ==
    /\ loading' = TRUE
    /\ Issue([op |-> "load", id |-> id])

\* editingUser changes to id: the effect on [props.editingUser.id] runs
\* loadUser when the id differs.
SetEditingId(id) ==
    /\ editingId' = id
    /\ IF id # editingId THEN CanCall /\ LoadUser(id)
                         ELSE UNCHANGED <<loading, pending>>

\* useState: loading true, the blank inputs; the mount effect loads self.
Init ==
    /\ srv = [i \in Ids \cup {Self} |-> [src |-> i, edited |-> FALSE]]
    /\ editingId = None
    /\ visible = FALSE
    /\ loading = TRUE
    /\ inputs = [src |-> Blank, edited |-> FALSE]
    /\ pending = SetToBag({[op |-> "load", id |-> Self]})
    /\ lastThrew = FALSE

(***************************************************************************)
(* The user table opens and closes the panel.                              *)
(***************************************************************************)

\* A row's Edit button: setEditingUser(record), setShowEditUser(true).
Open(id) ==
    /\ ~visible
    /\ visible' = TRUE
    /\ SetEditingId(id)
    /\ UNCHANGED <<srv, inputs, lastThrew>>

\* closeEditUser, from the footer's Cancel, the sheet's onCancel, or a
\* successful submit: hide the panel and set editingUser to {id: undefined}.
CloseEditUser ==
    /\ visible' = FALSE
    /\ SetEditingId(None)

Close ==
    /\ visible
    /\ CloseEditUser
    /\ UNCHANGED <<srv, inputs, lastThrew>>

\* handleInputChange on a field inside the Spin.
HandleInputChange ==
    /\ visible /\ ~loading
    /\ inputs' = [inputs EXCEPT !.edited = TRUE]
    /\ UNCHANGED <<srv, editingId, visible, loading, pending, lastThrew>>

\* submit, the footer's Submit, outside the Spin: setLoading(true), then
\* PUT /api/user/ the inputs with id: userId, or PUT /api/user/self.
Submit ==
    /\ visible
    /\ CanCall
    /\ loading' = TRUE
    /\ Issue([op |-> "put", id |-> editingId, data |-> inputs])
    /\ UNCHANGED <<srv, editingId, visible, inputs, lastThrew>>

(***************************************************************************)
(* A call completes: the server acts and answers, and the continuation     *)
(* runs on the answer, in any order; a rejected call ("throw") skips the   *)
(* continuation, whether or not the server acted.                          *)
(***************************************************************************)

\* PUT /api/user/ overwrites the user with the fields it is sent.
Effect(c) ==
    IF c.op = "put" THEN srv' = [srv EXCEPT ![c.id] = c.data]
                    ELSE UNCHANGED srv

ServerHandles(c, out) ==
    \/ out = "ok" /\ Effect(c)
    \/ out = "fail" /\ UNCHANGED srv
    \/ out = "throw" /\ (Effect(c) \/ UNCHANGED srv)

\* loadUser after the await: setInputs(data) of the user it was called for,
\* whatever the panel shows now (data.password = '' is a field the model
\* leaves out); then setLoading(false).
LoadUserReturns(c, out) ==
    /\ c.op = "load"
    /\ inputs' = IF out = "ok" THEN srv[c.id] ELSE inputs
    /\ loading' = IF out = "throw" THEN loading ELSE FALSE
    /\ pending' = BagRemove(pending, c)
    /\ UNCHANGED <<editingId, visible>>

\* submit after the await: on success props.refresh() and
\* props.handleClose(), whose id change loads self; then setLoading(false),
\* which the effect's setLoading(true) follows.
SubmitReturns(c, out) ==
    /\ c.op = "put"
    /\ CASE out = "ok" ->
              /\ visible' = FALSE
              /\ editingId' = None
              /\ IF editingId # None
                    THEN /\ loading' = TRUE
                         /\ pending' = BagAdd(BagRemove(pending, c),
                                              [op |-> "load", id |-> Self])
                    ELSE /\ loading' = FALSE
                         /\ pending' = BagRemove(pending, c)
         [] out = "fail" -> /\ loading' = FALSE
                            /\ pending' = BagRemove(pending, c)
                            /\ UNCHANGED <<editingId, visible>>
         [] OTHER -> /\ pending' = BagRemove(pending, c)
                     /\ UNCHANGED <<editingId, visible, loading>>
    /\ UNCHANGED inputs

Complete(c) ==
    \E out \in Outcomes :
        /\ ServerHandles(c, out)
        /\ LoadUserReturns(c, out) \/ SubmitReturns(c, out)
        /\ lastThrew' = (out = "throw")

AdminStep ==
    \/ \E id \in Ids : Open(id)
    \/ Close
    \/ HandleInputChange
    \/ Submit

SystemStep == \E c \in BagToSet(pending) : Complete(c)

Next == AdminStep \/ SystemStep

\* The server answers every call and the browser runs every continuation.
Spec == Init /\ [][Next]_vars /\ WF_vars(SystemStep)

-----------------------------------------------------------------------------
(***************************************************************************)
(* Properties                                                              *)
(***************************************************************************)

Record == [src : Ids \cup {Self, Blank}, edited : BOOLEAN]

TypeOK ==
    /\ srv \in [Ids \cup {Self} -> Record]
    /\ editingId \in Ids \cup {None}
    /\ visible \in BOOLEAN /\ loading \in BOOLEAN /\ lastThrew \in BOOLEAN
    /\ inputs \in Record
    /\ IsABag(pending)
    /\ BagToSet(pending) \subseteq
          [op : {"load"}, id : Ids \cup {Self}]
          \cup [op : {"put"}, id : Ids \cup {None}, data : Record]

\* Every user on the server holds its own record: a save from the panel
\* writes back what was loaded for that user (spec section 4: edit panels
\* load on open, then PUT).
UsersKeepOwnData == \A i \in Ids \cup {Self} : srv[i].src = i

=============================================================================
