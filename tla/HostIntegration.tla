-------------------------- MODULE HostIntegration ---------------------------
(***************************************************************************)
(* The three parts of the workstation integration next to each other: the  *)
(* resolver drop-in and the CA anchor, the firewall rules, and the search  *)
(* grants.  Each has its own command; the project lock keeps one command   *)
(* at a time, and the parts share neither a file nor a daemon.             *)
(***************************************************************************)
EXTENDS HostAccess, LibvirtForwarding, LibvirtPermissions

hostVars == <<vars, fvars, pvars>>

IntegrationSpec ==
    /\ Init /\ [][Next]_vars
    /\ FInit /\ [][FNext]_fvars
    /\ PInit /\ [][PNext]_pvars

-----------------------------------------------------------------------------
\* A removal takes back exactly what Atum put there: of the files what the operator
\* authorized (RemovesAuthorized), of the firewall every rule of whatever bridge it
\* was (UninstallClearsRules), and every ACL is as before the first install
\* (UninstallRestoresACLs).
UninstallIsExact == RemovesAuthorized /\ UninstallClearsRules /\ UninstallRestoresACLs
=============================================================================
