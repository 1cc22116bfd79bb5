-------------------------- MODULE MCPolicyVersions --------------------------
(* Small instances of PolicyVersions for TLC. *)
EXTENDS PolicyVersions
=============================================================================
