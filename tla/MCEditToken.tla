----------------------------- MODULE MCEditToken -----------------------------
(* Model-checking instance of EditToken: the constants each .cfg picks. *)
EXTENDS EditToken

MCOutcomesAll == {"ok", "fail", "throw"}
MCOutcomesOk == {"ok"}
=============================================================================
