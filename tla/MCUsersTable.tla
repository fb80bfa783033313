----------------------------- MODULE MCUsersTable -----------------------------
(* Model-checking instance of UsersTable: the constants each .cfg picks.  *)
EXTENDS UsersTable

\* The dropdown's default order and one other ("quota").
MCOrders == {"", "quota"}
MCKeywords == {"", "k"}
MCOutcomesAll == {"ok", "fail", "throw"}
MCOutcomesOk == {"ok"}
=============================================================================
