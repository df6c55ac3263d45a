----------------------------- MODULE MCIdentitySync -----------------------------
(* One name of every type, all but the event deployed, and the user granted
   the role on the project.                                                 *)
EXTENDS IdentitySync

UserHasRole == {<<"project", "user", "role">>}
===============================================================================
