----------------------------- MODULE MCConsole ------------------------------
(* The operator console with an admin and a viewer who use one browser.     *)
EXTENDS Console, TLC

MCRoleOf == "ann" :> "admin" @@ "bob" :> "viewer"
=============================================================================
