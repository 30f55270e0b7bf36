------------------------- MODULE MCPermissionGrants -------------------------
(* Instances of PermissionGrants. *)
EXTENDS PermissionGrants

\* With a single request a reset does what its revocation does.
Menu == {"text", "new", "request", "confirm", "revoke"}
=============================================================================
