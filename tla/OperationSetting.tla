-------------------------- MODULE OperationSetting --------------------------
(***************************************************************************)
(* The operation settings tab (components/OperationSetting.js): the form   *)
(* of options loaded once from GET /api/option/, the "Enabled" checkboxes  *)
(* that PUT a flipped value at once, and the group Save buttons that PUT,  *)
(* one after the other, every field of the group that differs from the     *)
(* loaded originInputs, stopping at a ratio field that is not valid JSON.  *)
(*                                                                         *)
(* An option's value is abstracted to a small set: Vals for values the     *)
(* server holds or the admin types, BadJson for text that is not JSON,     *)
(* Placeholder for the 0 / '' the form starts with, and "true" / "false"   *)
(* for the checkboxes.  The Form has loading={loading}: Semantic UI's      *)
(* loading form takes no pointer events, so nothing is clicked while it    *)
(* spins.                                                                  *)
(***************************************************************************)
EXTENDS Integers, SequencesExt

CONSTANTS
    GroupKeys,     \* GroupKeys[g]: the keys submitConfig(g) saves, in order
    JsonKeys,      \* the ratio keys submitConfig checks with verifyJSON
    Toggles,       \* the "...Enabled" keys, shown as checkboxes
    Vals,          \* option values (valid JSON where a JSON key holds them)
    BadJson,       \* text that verifyJSON rejects
    Placeholder,   \* the 0 or '' of the form's initial useState
    Undef,         \* originInputs[key] of the initial {}
    NoGroup,       \* an updateOption issued by a checkbox
    Outcomes       \* answers of a call: "ok", "fail", "throw"

Groups == DOMAIN GroupKeys
FieldKeys == UNION {Range(GroupKeys[g]) : g \in Groups}
Keys == FieldKeys \cup Toggles
Flags == {"true", "false"}

ASSUME /\ FieldKeys \cap Toggles = {} /\ JsonKeys \subseteq FieldKeys
       /\ \A g \in Groups : IsInjective(GroupKeys[g])
       /\ {BadJson, Placeholder, Undef} \cap (Vals \cup Flags) = {}
       /\ Outcomes \subseteq {"ok", "fail", "throw"} /\ "ok" \in Outcomes

\* The group a field is saved with.
\* verifyJSON (helpers): JSON.parse accepts the value.  '' is not JSON.
ValidJson == Vals

\* What the admin can type into field k.
InputVals(k) == IF k \in JsonKeys THEN Vals \cup {BadJson} ELSE Vals

\* updateOption's value for a checkbox: inputs[key] === 'true' ? 'false' : 'true'.
Flip(v) == IF v = "true" THEN "false" ELSE "true"

VARIABLES
    srv,        \* srv[k]: the option's value on the server
    inputs,     \* the form's inputs
    origin,     \* originInputs
    loading,    \* the Form's loading
    pending,    \* outstanding calls, with what their continuations closed over
    lastThrew   \* history: the last PUT to finish was rejected

vars == <<srv, inputs, origin, loading, pending, lastThrew>>

\* Mount: the useState initial values, and useEffect([]) -> getOptions().
Init ==
    /\ srv \in {s \in [Keys -> Vals \cup Flags] :
                  \A k \in Keys : s[k] \in (IF k \in Toggles THEN Flags ELSE Vals)}
    /\ inputs = [k \in Keys |-> Placeholder]
    /\ origin = [k \in Keys |-> Undef]
    /\ loading = FALSE
    /\ pending = {[op |-> "get"]}
    /\ lastThrew = FALSE

(***************************************************************************)
(* submitConfig's loop from position i of group g, over the inputs si and  *)
(* originInputs so its closure holds: skip the fields equal to their       *)
(* origin; at the first other one, return if it is a ratio that is not     *)
(* JSON, or else await updateOption(key, si[key]), whose setLoading(true)  *)
(* spins the form.  Past the last field the save is over.  rest is the     *)
(* outstanding calls without the one that just returned.                  *)
(***************************************************************************)
ContinueSave(g, i, si, so, rest) ==
    LET ks == GroupKeys[g]
        j  == SelectInSubSeq(ks, i, Len(ks), LAMBDA k : so[k] # si[k])
    IN  IF j # 0 /\ (ks[j] \in JsonKeys => si[ks[j]] \in ValidJson)
           THEN /\ pending' = rest \cup {[op |-> "put", key |-> ks[j],
                                          val |-> si[ks[j]], grp |-> g,
                                          next |-> j + 1, si |-> si,
                                          so |-> so]}
                /\ loading' = TRUE
           ELSE /\ pending' = rest
                /\ loading' = FALSE

(***************************************************************************)
(* The admin.                                                              *)
(***************************************************************************)

\* handleInputChange on a text field: setInputs({...inputs, [name]: value}).
HandleInputChange(k, v) ==
    /\ ~loading
    /\ inputs' = [inputs EXCEPT ![k] = v]
    /\ UNCHANGED <<srv, origin, loading, pending, lastThrew>>

\* Mutant: the checkbox PUTs the value it shows instead of its flip.
ToggleNoFlip(k) ==
    /\ ~loading
    /\ loading' = TRUE
    /\ pending' = pending \cup {[op |-> "put", key |-> k,
                                 val |-> inputs[k], grp |-> NoGroup]}
    /\ UNCHANGED <<srv, inputs, origin, lastThrew>>

Toggle(k) ==
    /\ ~loading
    /\ loading' = TRUE
    /\ pending' = pending \cup {[op |-> "put", key |-> k,
                                 val |-> Flip(inputs[k]), grp |-> NoGroup]}
    /\ UNCHANGED <<srv, inputs, origin, lastThrew>>

\* A "Save ... Settings" button: submitConfig(group) up to its first await.
SubmitConfig(g) ==
    /\ ~loading
    /\ ContinueSave(g, 1, inputs, origin, pending)
    /\ UNCHANGED <<srv, inputs, origin, lastThrew>>

(***************************************************************************)
(* A call completes: the server acts and answers, and the continuation     *)
(* runs; a rejected call skips it whether or not the server acted.         *)
(***************************************************************************)

Effect(c) ==
    IF c.op = "put" THEN srv' = [srv EXCEPT ![c.key] = c.val]
                    ELSE UNCHANGED srv

ServerHandles(c, out) ==
    \/ out = "ok" /\ Effect(c)
    \/ out = "fail" /\ UNCHANGED srv
    \/ out = "throw" /\ (Effect(c) \/ UNCHANGED srv)

\* getOptions after the await: on success setInputs and setOriginInputs to
\* the server's options (the pretty-printing of the ratios is left out).
GetReturns(c, out) ==
    /\ c.op = "get"
    /\ IF out = "ok" THEN /\ inputs' = srv'
                          /\ origin' = srv'
                     ELSE UNCHANGED <<inputs, origin>>
    /\ pending' = pending \ {c}
    /\ UNCHANGED <<loading, lastThrew>>

\* Mutant: setLoading(false) only when the PUT succeeded.
PutReturnsClearOnOk(c, out) ==
    /\ c.op = "put"
    /\ inputs' = IF out = "ok" THEN [inputs EXCEPT ![c.key] = c.val] ELSE inputs
    /\ lastThrew' = (out = "throw")
    /\ IF c.grp # NoGroup /\ out = "ok"
          THEN ContinueSave(c.grp, c.next, c.si, c.so, pending \ {c})
          ELSE /\ pending' = pending \ {c}
               /\ loading' = (out # "ok" /\ loading)
    /\ UNCHANGED origin

\* updateOption after the await: on success set inputs[key] to the value
\* sent; setLoading(false).  Inside a group save, submitConfig then goes on
\* to the next field; a rejection ends the save and leaves the form
\* spinning.
PutReturns(c, out) ==
    /\ c.op = "put"
    /\ inputs' = IF out = "ok" THEN [inputs EXCEPT ![c.key] = c.val] ELSE inputs
    /\ lastThrew' = (out = "throw")
    /\ IF c.grp # NoGroup /\ out # "throw"
          THEN ContinueSave(c.grp, c.next, c.si, c.so, pending \ {c})
          ELSE /\ pending' = pending \ {c}
               /\ loading' = (out = "throw" /\ loading)
    /\ UNCHANGED origin

Complete(c) ==
    \E out \in Outcomes :
        /\ ServerHandles(c, out)
        /\ \/ GetReturns(c, out)
           \/ PutReturns(c, out)

AdminStep ==
    \/ \E k \in FieldKeys : \E v \in InputVals(k) : HandleInputChange(k, v)
    \/ \E k \in Toggles : Toggle(k)
    \/ \E g \in Groups : SubmitConfig(g)

SystemStep == \E c \in pending : Complete(c)

Next == AdminStep \/ SystemStep

\* The server answers every call and the browser runs every continuation.
Spec == Init /\ [][Next]_vars /\ WF_vars(SystemStep)

-----------------------------------------------------------------------------
(***************************************************************************)
(* Properties                                                              *)
(***************************************************************************)

Call == [op : {"get"}]
        \cup [op : {"put"}, key : Toggles, val : Flags, grp : {NoGroup}]
        \cup [op : {"put"}, key : FieldKeys, val : Vals \cup {Placeholder},
              grp : Groups, next : 1..Cardinality(FieldKeys) + 1,
              si : [Keys -> Vals \cup Flags \cup {Placeholder, BadJson}],
              so : [Keys -> Vals \cup Flags \cup {Undef, Placeholder}]]

TypeOK ==
    /\ srv \in [Keys -> Vals \cup Flags \cup {Placeholder}]
    /\ inputs \in [Keys -> Vals \cup Flags \cup {Placeholder, BadJson}]
    /\ origin \in [Keys -> Vals \cup Flags \cup {Undef, Placeholder}]
    /\ loading \in BOOLEAN /\ lastThrew \in BOOLEAN
    /\ pending \subseteq Call

FormUnblocks ==
    []<><<AdminStep>>_vars \/ <>[](loading => lastThrew)

\* A save never writes the form's initial 0 / '' over an option: every
\* value PUT was loaded from the server or typed by the admin.
NoPlaceholderSaved ==
    \A k \in Keys : srv[k] # Placeholder

=============================================================================
