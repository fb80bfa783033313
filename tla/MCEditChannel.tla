---------------------------- MODULE MCEditChannel ----------------------------
(* Model-checking instance of EditChannel: the constants each .cfg picks. *)
EXTENDS EditChannel

\* Two configuration values: a channel's own and an edited one.
MCConfs == {"a", "b"}
MCOutcomesAnswered == {"ok", "fail"}
MCOutcomesOk == {"ok"}
\* Two letters, enough for two distinct model names.
MCLetters == {"a", "b"}
\* Channel 1 is stored with no models (''), channel 2 with "a,b".
MCChannelModels == [i \in 1..2 |-> IF i = 1 THEN <<>> ELSE <<"a", ",", "b">>]
\* The admin picks models "a" and "b".
MCPicks == {<<<<"a">>, <<"b">>>>}
=============================================================================
