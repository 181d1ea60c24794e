---------------------------- MODULE MCSSHGateway ----------------------------
(* Small instances of SSHGateway for TLC. *)
EXTENDS SSHGateway

\* A route with everything, one with a single command, and one with a list.
MCPolicies ==
    {[sftp |-> TRUE, shell |-> "interactive"],
     [sftp |-> FALSE, shell |-> "single"],
     [sftp |-> FALSE, shell |-> "none"]}

=============================================================================
