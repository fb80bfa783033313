--------------------------- MODULE SystemSetting ---------------------------
(***************************************************************************)
(* The system settings tab (components/SystemSetting.js).  Like the        *)
(* operation settings it loads every option once and PUTs options one at   *)
(* a time through updateOption, but its fields fall in three kinds:        *)
(*   - LocalKeys (Notice, SMTP..., ServerAddress, GitHub..., the e-mail    *)
(*     whitelist): handleInputChange only stores what is typed;            *)
(*   - Toggles (the "...Enabled" checkboxes): updateOption PUTs the flip;  *)
(*     turning password login off first asks in a warning modal;           *)
(*   - every other field (the message pusher's address and token):         *)
(*     handleInputChange calls updateOption, so every edit is PUT at once. *)
(* The Save buttons PUT, one after the other, the fields of their group    *)
(* that pass their test; the whitelist has a Save of its own.              *)
(*                                                                         *)
(* The Form's loading overlay stops the pointer, not the keyboard: a      *)
(* focused field still takes keystrokes while the form spins, so the      *)
(* message pusher's fields can start PUTs that overlap (MaxInFlight       *)
(* bounds the PUTs out at once).  The server reads the options for the    *)
(* load in one step and the browser applies them in a later one, so a PUT *)
(* can land in between.  The server does not send the secret options      *)
(* (Secrets): the load leaves them undefined in the form.                  *)
(*                                                                         *)
(* The whitelist is the string "a,b" on the server and in originInputs,   *)
(* and the array of its split(',') in the form.  The empty string splits   *)
(* to [''], so the empty token "" is kept as a domain.  Before the load    *)
(* the form's whitelist is the initial '' (Empty), not an array.           *)
(***************************************************************************)
EXTENDS Integers, SequencesExt

CONSTANTS
    Saves,         \* Saves[s]: the steps of a Save button, in order:
                   \*   [key, when \in {"changed", "filled", "always"}, strip]
    LocalKeys,     \* fields handleInputChange only stores
    Toggles,       \* the "...Enabled" checkboxes
    PasswordLogin, \* PasswordLoginEnabled, the checkbox with the warning
    Whitelist,     \* EmailDomainWhitelist
    SmtpToken,     \* SMTPToken, tested by the whitelist's Save
    Domains,       \* e-mail domains the admin can add
    Vals,          \* text values
    Typed,         \* the text values the admin types
    Empty,         \* ''
    StripSlash,    \* removeTrailingSlash, a function on Vals \cup {Empty}
    InitialOptions,\* the options the server may hold when the tab mounts
    Undef,         \* originInputs[key] of the initial {}
    NoSave,        \* an updateOption not issued by a Save button
    Secrets,       \* options the server keeps from the front end
    Outcomes,      \* answers of a call: "ok", "fail", "throw"
    MaxInFlight    \* bound on the PUTs in flight

SaveKeys == UNION {{st.key : st \in Range(Saves[s])} : s \in DOMAIN Saves}
TextKeys == (SaveKeys \cup LocalKeys) \ {Whitelist}
Keys == TextKeys \cup Toggles \cup {Whitelist}
Flags == {"true", "false"}
Token == Domains \cup {""}

ASSUME /\ PasswordLogin \in Toggles /\ Whitelist \in LocalKeys
       /\ SmtpToken \in LocalKeys /\ Toggles \cap SaveKeys = {}
       /\ StripSlash \in [Vals \cup {Empty} -> Vals \cup {Empty}]
       /\ Secrets \subseteq TextKeys \ {Whitelist} /\ MaxInFlight \in Nat \ {0}
       /\ Outcomes \subseteq {"ok", "fail", "throw"} /\ "ok" \in Outcomes
       /\ Typed \subseteq Vals

\* The whitelists the form can hold: lists of distinct domains.
Whitelists == {w \in SeqOf(Token, Cardinality(Token)) : IsInjective(w)}

\* s.join(',') and str.split(','): [] and [''] both join to ''.
JoinStr(s) ==
    IF s = <<>> THEN "" ELSE FoldLeft(LAMBDA acc, x : acc \o "," \o x, Head(s), Tail(s))
Split(str) == CHOOSE w \in Whitelists : w # <<>> /\ JoinStr(w) = str

\* The form's value for an option the server holds.
Shown(k, v) == IF k = Whitelist THEN Split(v) ELSE v

\* Mutant: a checkbox missing from updateOption's switch sends the
\* checkbox's own onChange value.
SendValueNoFlip(k, v, in) == v

\* updateOption's switch: a checkbox sends the flip of the inputs it
\* closed over, any other key the value it is given.
SendValue(k, v, in) ==
    IF k \in Toggles THEN IF in[k] = "true" THEN "false" ELSE "true"
                     ELSE v

\* Whether a Save step PUTs its field, over submit's inputs and originInputs.
Sends(st, si, so) ==
    \/ st.when = "always"
    \/ st.when = "changed" /\ so[st.key] # si[st.key]
    \/ st.when = "filled" /\ so[st.key] # si[st.key] /\ si[st.key] # Empty

VARIABLES
    srv,          \* the options on the server
    inputs,       \* the form's inputs
    origin,       \* originInputs
    loading,      \* the Form's loading
    modal,        \* showPasswordWarningModal
    domainInput,  \* restrictedDomainInput
    options,      \* the EmailDomainWhitelist state: the dropdown's options
    pending       \* outstanding calls, with what their continuations closed
                  \* over, and the server's answer once it has handled them

local == <<inputs, origin, loading, modal, domainInput, options, pending>>
vars == <<srv, local>>

\* Mount: the useState initial values (every field '', the whitelist the
\* string '' too), and useEffect([]) -> getOptions().
Mount ==
    /\ inputs = [k \in Keys |-> Empty]
    /\ origin = [k \in Keys |-> Undef]
    /\ loading = FALSE
    /\ modal = FALSE
    /\ domainInput = ""
    /\ options = {}
    /\ pending = {[op |-> "get", served |-> FALSE, res |-> "none", data |-> Undef]}

Init == srv \in InitialOptions /\ Mount

\* What a Save's continuation reads of the inputs it closed over: the
\* fields of its own steps.
Closed(s, in) == IF s = NoSave THEN Undef
                 ELSE [k \in {st.key : st \in Range(Saves[s])} |-> in[k]]

\* updateOption(k, v) up to its await.
Put(k, v, src, s, next, si, so, rest) ==
    /\ loading' = TRUE
    /\ pending' = rest \cup {[op |-> "put", key |-> k,
                              val |-> SendValue(k, v, si), src |-> src,
                              save |-> s, next |-> next,
                              si |-> Closed(s, si), so |-> Closed(s, so),
                              served |-> FALSE, res |-> "none", data |-> Undef]}

\* A Save button's function from step i over the inputs si and
\* originInputs so it closed over: the first step that sends is awaited;
\* past the last one the save is over.
ContinueSave(s, i, si, so, rest) ==
    LET sts == Saves[s]
        j   == SelectInSubSeq(sts, i, Len(sts), LAMBDA st : Sends(st, si, so))
        st  == sts[j]
    IN  IF j # 0
           THEN Put(st.key, IF st.strip THEN StripSlash[si[st.key]] ELSE si[st.key],
                    "save", s, j + 1, si, so, rest)
           ELSE /\ pending' = rest
                /\ loading' = FALSE

(***************************************************************************)
(* The admin.  The modal's dimmer covers the page while it is open.        *)
(***************************************************************************)

Idle == ~loading /\ ~modal

CanCall == Cardinality({c \in pending : c.op = "put"}) < MaxInFlight

\* Mutant: the password-login checkbox without its warning.
HandleInputChangeNoWarning(k, v) ==
    /\ ~modal
    /\ IF k \in LocalKeys
          THEN /\ inputs' = [inputs EXCEPT ![k] = v]
               /\ UNCHANGED <<modal, loading, pending>>
          ELSE /\ CanCall
               /\ Put(k, v, "input", NoSave, 0, inputs, origin, pending)
               /\ UNCHANGED <<inputs, modal>>
    /\ UNCHANGED <<srv, origin, domainInput, options>>

\* handleInputChange: password login on -> the warning; a local field is
\* stored; anything else goes to updateOption.  From the keyboard, so
\* while the form spins too, but not under the modal's dimmer.
HandleInputChange(k, v) ==
    /\ ~modal
    /\ IF k = PasswordLogin /\ inputs[k] = "true"
          THEN /\ modal' = TRUE
               /\ UNCHANGED <<inputs, loading, pending>>
          ELSE IF k \in LocalKeys
          THEN /\ inputs' = [inputs EXCEPT ![k] = v]
               /\ UNCHANGED <<modal, loading, pending>>
          ELSE /\ CanCall
               /\ Put(k, v, "input", NoSave, 0, inputs, origin, pending)
               /\ UNCHANGED <<inputs, modal>>
    /\ UNCHANGED <<srv, origin, domainInput, options>>

\* The modal's Cancel (or its dimmer), and its Confirm:
\* updateOption('PasswordLoginEnabled') flips what the form shows.
CancelWarning ==
    /\ modal
    /\ modal' = FALSE
    /\ UNCHANGED <<srv, inputs, origin, loading, domainInput, options, pending>>

ConfirmWarning ==
    /\ modal /\ CanCall
    /\ modal' = FALSE
    /\ Put(PasswordLogin, "false", "confirm", NoSave, 0, inputs, origin, pending)
    /\ UNCHANGED <<srv, inputs, origin, domainInput, options>>

\* A Save button (submitServerAddress, submitSMTP, submitMessagePusher,
\* submitGitHubOAuth) up to its first await.
Submit(s) ==
    /\ Idle /\ CanCall
    /\ ContinueSave(s, 1, inputs, origin, pending)
    /\ UNCHANGED <<srv, inputs, origin, modal, domainInput, options>>

\* The new-domain field's onChange.
TypeDomain(d) ==
    /\ Idle
    /\ domainInput' = d
    /\ UNCHANGED <<srv, inputs, origin, loading, modal, options, pending>>

\* submitNewRestrictedDomain (Add, or Enter in the field).  Before the load
\* the whitelist is still the string '', whose spread is [].
SubmitNewRestrictedDomain ==
    LET list == IF inputs[Whitelist] = Empty THEN <<>> ELSE inputs[Whitelist]
    IN  /\ Idle
        /\ domainInput # ""
        /\ domainInput \notin Range(list)
        /\ domainInput' = ""
        /\ inputs' = [inputs EXCEPT ![Whitelist] = Append(list, domainInput)]
        /\ options' = options \cup {domainInput}
        /\ UNCHANGED <<srv, origin, loading, modal, pending>>

\* The whitelist dropdown's handleInputChange: removing the i-th chip, or
\* picking an option not selected, stores the new array.
ChangeWhitelist(new) ==
    /\ Idle
    /\ inputs' = [inputs EXCEPT ![Whitelist] = new]
    /\ UNCHANGED <<srv, origin, loading, modal, domainInput, options, pending>>

RemoveDomain(i) ==
    /\ inputs[Whitelist] # Empty
    /\ i \in 1..Len(inputs[Whitelist])
    /\ ChangeWhitelist(RemoveAt(inputs[Whitelist], i))

PickDomain(o) ==
    /\ inputs[Whitelist] # Empty
    /\ o \in options \ Range(inputs[Whitelist])
    /\ ChangeWhitelist(Append(inputs[Whitelist], o))

\* submitEmailDomainWhitelist: PUT the joined list when it differs from
\* originInputs and the SMTP token field is not empty.  Before the load
\* .join of the string '' throws and nothing happens.
SubmitEmailDomainWhitelist ==
    /\ Idle /\ CanCall
    /\ inputs[Whitelist] # Empty
    /\ origin[Whitelist] # JoinStr(inputs[Whitelist])
    /\ inputs[SmtpToken] # Empty
    /\ Put(Whitelist, JoinStr(inputs[Whitelist]), "save", NoSave, 0, inputs,
           origin, pending)
    /\ UNCHANGED <<srv, inputs, origin, modal, domainInput, options>>

(***************************************************************************)
(* The server reads every option for the GET, and the browser runs       *)
(* getOptions' continuation later, in a step of its own: PUTs handled in  *)
(* between are not in its answer.  A PUT is handled and answered in one   *)
(* step: the server stores its value or refuses it.  A rejected call      *)
(* ("throw") skips the continuation, whether or not the server acted.     *)
(***************************************************************************)

\* GET /api/option/: every option but the secret ones.
Sent(opts) == [k \in Keys \ Secrets |-> opts[k]]

ServeGet(c) ==
    /\ c.op = "get" /\ ~c.served
    /\ \E res \in Outcomes \ {"throw"} :
          pending' = (pending \ {c}) \cup {[c EXCEPT !.served = TRUE, !.res = res,
                                                    !.data = IF res = "ok" THEN Sent(srv)
                                                             ELSE Undef]}
    /\ UNCHANGED <<srv, inputs, origin, loading, options>>

\* The server handles a PUT: "ok" stores the value.
ServePut(c, res) ==
    /\ c.op = "put"
    /\ srv' = IF res = "ok" THEN [srv EXCEPT ![c.key] = c.val] ELSE srv

\* getOptions after the await: setInputs of the options sent (the whitelist
\* split, the secrets absent), setOriginInputs of the same (the whitelist
\* string) and the dropdown's options; whatever the server holds by now.
GetReturns(c) ==
    /\ c.op = "get"
    /\ IF c.res = "ok"
          THEN /\ inputs' = [k \in Keys |-> IF k \in Secrets THEN Undef
                                            ELSE Shown(k, c.data[k])]
               /\ origin' = [k \in Keys |-> IF k \in Secrets THEN Undef ELSE c.data[k]]
               /\ options' = Range(Split(c.data[Whitelist]))
          ELSE UNCHANGED <<inputs, origin, options>>
    /\ pending' = pending \ {c}
    /\ UNCHANGED loading

\* updateOption after the await: on success inputs[key] = value (the
\* whitelist split again); setLoading(false); a Save goes on to its next
\* step.
PutReturns(c, res) ==
    /\ c.op = "put"
    /\ inputs' = IF res = "ok" THEN [inputs EXCEPT ![c.key] = Shown(c.key, c.val)]
                                 ELSE inputs
    /\ IF c.save # NoSave
          THEN ContinueSave(c.save, c.next, c.si, c.so, pending \ {c})
          ELSE pending' = pending \ {c} /\ loading' = FALSE
    /\ UNCHANGED <<origin, options>>

Throw(c) ==
    /\ "throw" \in Outcomes
    /\ pending' = pending \ {c}
    /\ UNCHANGED <<inputs, origin, loading, options>>

\* The GET's answer; a PUT handled and answered.
Return(c) ==
    \/ c.op = "get" /\ Throw(c) /\ UNCHANGED srv
    \/ c.op = "get" /\ c.served /\ GetReturns(c) /\ UNCHANGED srv
    \/ \E res \in Outcomes \ {"throw"} : ServePut(c, res) /\ PutReturns(c, res)
    \/ c.op = "put" /\ Throw(c) /\ (ServePut(c, "ok") \/ UNCHANGED srv)

AdminStep ==
    \/ \E k \in TextKeys \ LocalKeys : \E v \in Typed : HandleInputChange(k, v)
    \/ \E k \in LocalKeys \ {Whitelist} : \E v \in Typed \cup {Empty} :
           HandleInputChange(k, v)
    \/ \E k \in Toggles : HandleInputChange(k, Empty)
    \/ CancelWarning
    \/ ConfirmWarning
    \/ \E s \in DOMAIN Saves : Submit(s)
    \/ \E d \in Token : TypeDomain(d)
    \/ SubmitNewRestrictedDomain
    \/ \E i \in 1..Cardinality(Token) : RemoveDomain(i)
    \/ \E o \in Token : PickDomain(o)
    \/ SubmitEmailDomainWhitelist

SystemStep ==
    /\ \E c \in pending : ServeGet(c) \/ Return(c)
    /\ UNCHANGED <<modal, domainInput>>

Next == AdminStep \/ SystemStep

\* The server answers every call and the browser runs every continuation.
Spec == Init /\ [][Next]_vars /\ WF_vars(SystemStep)

-----------------------------------------------------------------------------
(***************************************************************************)
(* Properties                                                              *)
(***************************************************************************)

Text == Vals \cup {Empty}
Stored(k) == CASE k \in Toggles -> Flags
                [] k = Whitelist -> {JoinStr(w) : w \in Whitelists}
                [] OTHER -> Text

TypeOK ==
    /\ \A k \in Keys : srv[k] \in Stored(k)
    /\ \A k \in Keys \ {Whitelist} : inputs[k] \in Stored(k) \cup {Empty}
                                        \cup (IF k \in Secrets THEN {Undef} ELSE {})
    /\ inputs[Whitelist] \in Whitelists \cup {Empty}
    /\ \A k \in Keys : origin[k] \in Stored(k) \cup {Undef}
    /\ loading \in BOOLEAN /\ modal \in BOOLEAN
    /\ domainInput \in Token /\ options \subseteq Token
    /\ \A c \in pending :
          /\ c.served \in BOOLEAN /\ c.res \in {"none", "ok", "fail"}
          /\ c.served = (c.res # "none")
          /\ \/ c.op = "get" /\ (c.data = Undef \/ \A k \in Keys \ Secrets : c.data[k] \in Stored(k))
             \/ /\ c.op = "put" /\ c.key \in Keys /\ c.val \in Stored(c.key)
                /\ c.src \in {"input", "confirm", "save"}
                /\ c.save \in DOMAIN Saves \cup {NoSave}

\* Password login is switched off on the server only by the PUT of the
\* warning modal's Confirm: a click on its checkbox while the form shows
\* it on never PUTs by itself.
PasswordLoginOffOnlyConfirmed ==
    [][srv[PasswordLogin] = "true" /\ srv'[PasswordLogin] = "false"
       => \E c \in pending : c.op = "put" /\ c.key = PasswordLogin /\ c.src = "confirm"]_vars

=============================================================================
