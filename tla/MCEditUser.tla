------------------------------ MODULE MCEditUser ------------------------------
EXTENDS EditUser

MCOutcomesAll == {"ok", "fail", "throw"}
MCOutcomesOk == {"ok"}

=============================================================================
