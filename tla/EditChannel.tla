----------------------------- MODULE EditChannel -----------------------------
(***************************************************************************)
(* The channel edit panel (pages/Channel/EditChannel.js) together with the *)
(* parts of the channel table that drive it (components/ChannelsTable.js): *)
(* the row's Edit button, "Add New Channel", closeEdit, and the row's      *)
(* enable / disable buttons, which change a channel while the panel is     *)
(* closed.                                                                 *)
(*                                                                         *)
(* A channel's data is abstracted to its status, one configuration value  *)
(* and its models string, which the form holds as an array (the           *)
(* conversions are ChannelFields'); the form's inputs remember which channel they were loaded from   *)
(* (src, 0 for the blank originInputs).  The panel's SideSheet has a mask, *)
(* so the table is clicked only while the panel is closed.                *)
(***************************************************************************)
EXTENDS Integers, Bags, BagsExt, ChannelFields

CONSTANTS
    N,             \* number of channels on the server
    Confs,         \* configuration values a channel or the form can hold
    Outcomes,      \* answers of a call: "ok", "fail", "throw"
    MaxInFlight,   \* bound on outstanding calls
    ChannelModels, \* ChannelModels[i]: the models string channel i starts with
    Picks          \* model arrays the admin can pick in the models Select

ASSUME /\ N \in Nat \ {0} /\ Confs # {} /\ "none" \notin Confs
       /\ Outcomes \subseteq {"ok", "fail", "throw"} /\ "ok" \in Outcomes
       /\ MaxInFlight \in Nat \ {0}

Ids == 1..N
None == 0                \* props.editingChannel.id === undefined

\* originInputs: blank name and key, no models, no status field.
OriginInputs == [src |-> None, status |-> 0, conf |-> "none", models |-> <<>>]

VARIABLES
    srv,            \* srv[i]: status, configuration and models of channel i
    editingId,      \* ChannelsTable's editingChannel.id
    visible,        \* ChannelsTable's showEdit
    loading,        \* EditChannel's loading (the panel's Spin)
    inputs,         \* EditChannel's inputs
    pending         \* bag of outstanding calls with what they closed over

vars == <<srv, editingId, visible, loading, inputs, pending>>

InFlight == BagCardinality(pending)
CanCall == InFlight < MaxInFlight
Issue(c) == pending' = BagAdd(pending, c)

Init ==
    /\ srv = [i \in Ids |-> [status |-> 1, conf |-> CHOOSE v \in Confs : TRUE,
                             models |-> ChannelModels[i]]]
    /\ editingId = None
    /\ visible = FALSE
    /\ loading = FALSE
    /\ inputs = OriginInputs
    /\ pending = EmptyBag

(***************************************************************************)
(* The channel table's buttons.                                            *)
(***************************************************************************)

\* The row's Edit button: setEditingChannel(record); setShowEdit(true).  The
\* panel's effect on [props.editingChannel.id] runs loadChannel only when
\* the id changed.
OpenEdit(i) ==
    /\ ~visible
    /\ visible' = TRUE
    /\ editingId' = i
    /\ IF i # editingId
          THEN /\ CanCall
               /\ loading' = TRUE
               /\ Issue([op |-> "load", id |-> i])
          ELSE UNCHANGED <<loading, pending>>
    /\ UNCHANGED <<srv, inputs>>

\* "Add New Channel": setEditingChannel({id: undefined}); setShowEdit(true);
\* the effect, when the id changed, does setInputs(originInputs).
OpenAdd ==
    /\ ~visible
    /\ visible' = TRUE
    /\ editingId' = None
    /\ inputs' = IF editingId # None THEN OriginInputs ELSE inputs
    /\ UNCHANGED <<srv, loading, pending>>

\* handleCancel -> props.handleClose, i.e. closeEdit: setShowEdit(false).
Close ==
    /\ visible
    /\ visible' = FALSE
    /\ UNCHANGED <<srv, editingId, loading, inputs, pending>>

\* The row's Enable / Disable button (manageChannel), panel closed.
RowStatus(i, st) ==
    /\ ~visible
    /\ st \in {1, 2}
    /\ CanCall
    /\ Issue([op |-> "status", id |-> i, st |-> st])
    /\ UNCHANGED <<srv, editingId, visible, loading, inputs>>

(***************************************************************************)
(* The panel.                                                              *)
(***************************************************************************)

\* handleInputChange: the admin fills the fields and picks models; the
\* fields are inside the Spin, so not while it spins.
HandleInputChange(v, m) ==
    /\ visible
    /\ ~loading
    /\ v \in Confs /\ m \in Picks
    /\ inputs' = [inputs EXCEPT !.conf = v, !.models = m]
    /\ UNCHANGED <<srv, editingId, visible, loading, pending>>

\* Mutant: the add branch dropped, every save a PUT of editingId.
SubmitAlwaysPut ==
    /\ visible
    /\ editingId = None => inputs.conf # "none"
    /\ inputs.models # <<>>
    /\ CanCall
    /\ Issue([op |-> "put", id |-> editingId, data |-> inputs])
    /\ UNCHANGED <<srv, editingId, visible, loading, inputs>>

\* submit: the Submit button of the footer, outside the Spin.  Name and key
\* are required when adding, models always; then PUT (edit) or POST (add)
\* the inputs.  The Array.isArray repeat guard tests a fresh copy whose
\* models is still an array, so it never fires.
Submit ==
    /\ visible
    /\ editingId = None => inputs.conf # "none"
    /\ inputs.models # <<>>
    /\ CanCall
    /\ Issue(IF editingId # None
                THEN [op |-> "put", id |-> editingId, data |-> inputs]
                ELSE [op |-> "post", id |-> None, data |-> inputs])
    /\ UNCHANGED <<srv, editingId, visible, loading, inputs>>

(***************************************************************************)
(* A call completes: the server acts and answers, and the continuation     *)
(* runs on the answer, in any order; a rejected call ("throw") skips the   *)
(* continuation, whether or not the server acted.                          *)
(***************************************************************************)

\* PUT /api/channel/ overwrites every field it is sent: the status too,
\* when the inputs came from a loaded channel (originInputs has none).
\* The models array is sent joined with ','.  A POST adds a channel that
\* no other part of this model reads.
Effect(c) ==
    CASE c.op = "status" -> srv' = [srv EXCEPT ![c.id].status = c.st]
      [] c.op = "put"    -> srv' = [srv EXCEPT ![c.id] =
                                [status |-> IF c.data.status = 0 THEN @.status
                                                                ELSE c.data.status,
                                 conf |-> c.data.conf,
                                 models |-> SubmitList(c.data.models)]]
      [] OTHER           -> UNCHANGED srv

ServerHandles(c, out) ==
    \/ out = "ok" /\ Effect(c)
    \/ out = "fail" /\ UNCHANGED srv
    \/ out = "throw" /\ (Effect(c) \/ UNCHANGED srv)

\* Mutant: setLoading(false) only when the load succeeded.
LoadChannelReturnsClearOnOk(c, out) ==
    /\ c.op = "load"
    /\ inputs' = IF out = "ok"
                    THEN [src |-> c.id, status |-> srv[c.id].status,
                          conf |-> srv[c.id].conf,
                          models |-> ParseList(srv[c.id].models)]
                    ELSE inputs
    /\ loading' = IF out = "ok" THEN FALSE ELSE loading
    /\ UNCHANGED <<editingId, visible>>

\* loadChannel after the await: setInputs(data) of the channel it closed
\* over, whichever channel the panel now edits; then setLoading(false).
LoadChannelReturns(c, out) ==
    /\ c.op = "load"
    /\ inputs' = IF out = "ok"
                    THEN [src |-> c.id, status |-> srv[c.id].status,
                          conf |-> srv[c.id].conf,
                          models |-> ParseList(srv[c.id].models)]
                    ELSE inputs
    /\ loading' = IF out = "throw" THEN loading ELSE FALSE
    /\ UNCHANGED <<editingId, visible>>

\* submit after the await: on success, setInputs(originInputs) when it
\* was an add, props.refresh() and props.handleClose().
SubmitReturns(c, out) ==
    /\ c.op \in {"put", "post"}
    /\ IF out = "ok"
          THEN /\ inputs' = IF c.op = "post" THEN OriginInputs ELSE inputs
               /\ visible' = FALSE
          ELSE UNCHANGED <<inputs, visible>>
    /\ UNCHANGED <<editingId, loading>>

\* manageChannel in the table after the await: its effect on the table is
\* modelled in ChannelsTable.
RowStatusReturns(c, out) ==
    /\ c.op = "status"
    /\ UNCHANGED <<editingId, visible, loading, inputs>>

Complete(c) ==
    /\ pending' = BagRemove(pending, c)
    /\ \E out \in Outcomes :
          /\ ServerHandles(c, out)
          /\ \/ LoadChannelReturns(c, out)
             \/ SubmitReturns(c, out)
             \/ RowStatusReturns(c, out)

AdminStep ==
    \/ \E i \in Ids : OpenEdit(i)
    \/ OpenAdd
    \/ Close
    \/ \E i \in Ids, st \in {1, 2} : RowStatus(i, st)
    \/ \E v \in Confs, m \in Picks : HandleInputChange(v, m)
    \/ Submit

SystemStep == \E c \in BagToSet(pending) : Complete(c)

Next == AdminStep \/ SystemStep

\* The server answers every call and the browser runs every continuation.
Spec == Init /\ [][Next]_vars /\ WF_vars(SystemStep)

-----------------------------------------------------------------------------
(***************************************************************************)
(* Properties                                                              *)
(***************************************************************************)

Str == Seq(Letters \cup {Comma})

Inputs == [src : Ids \cup {None}, status : 0..2, conf : Confs \cup {"none"},
           models : Seq(Str)]

Req == [op : {"load"}, id : Ids]
       \cup [op : {"status"}, id : Ids, st : {1, 2}]
       \cup [op : {"put"}, id : Ids, data : Inputs]
       \cup [op : {"post"}, id : {None}, data : Inputs]

TypeOK ==
    /\ srv \in [Ids -> [status : {1, 2}, conf : Confs, models : Str]]
    /\ editingId \in Ids \cup {None}
    /\ visible \in BOOLEAN /\ loading \in BOOLEAN
    /\ inputs \in Inputs
    /\ IsABag(pending) /\ BagToSet(pending) \subseteq Req

\* Every save sends the data of the channel it targets: a PUT for channel
\* i carries the inputs loaded from i, a POST carries no existing channel's
\* data (spec section 4: edit panels load-on-open, then PUT/POST).
SaveCarriesOwnChannel ==
    \A c \in BagToSet(pending) :
        /\ c.op = "put" => c.data.src = c.id
        /\ c.op = "post" => c.data.src = None

\* A save from the panel, which has no status field, never changes a
\* channel's status: status changes come only from the row buttons.
SaveKeepsStatus ==
    [][\A i \in Ids :
          srv'[i].status # srv[i].status =>
              \E c \in BagToSet(pending) : c.op = "status" /\ c.id = i
                                         /\ c.st = srv'[i].status]_vars

\* No save sends a channel without models: submit refuses an empty models
\* array ('Please select at least one model!'), and a channel whose models
\* string is '' loads as [] rather than split's [''], whose join is ''
\* again.  Breaking it takes a channel stored with no models, opened,
\* loaded and submitted unchanged.
SaveHasModels ==
    \A c \in BagToSet(pending) :
        c.op \in {"put", "post"} => SubmitList(c.data.models) # <<>>

\* Once the admin stops, the panel's spinner goes off for good.
PanelSpinnerSettles ==
    []<><<AdminStep>>_vars \/ <>[]~loading

=============================================================================
