------------------------- MODULE LibvirtPermissions -------------------------
(***************************************************************************)
(* atum infra libvirt permissions install | uninstall | status: a Polkit   *)
(* rule, and a search grant for the QEMU account on every project ancestor *)
(* that other users may not search.  The ACLs as they were are kept in a   *)
(* state file, which uninstall hands to setfacl --restore                  *)
(* (cli/infra/libvirt.go, Permissions).                                    *)
(***************************************************************************)
EXTENDS Naturals

CONSTANTS
    Dirs,           \* directories on the way to a project
    Projects,       \* project roots on this host
    Ancestors,      \* Ancestors[p]: the directories above project p
    NoState,        \* no ACL state file
    MaxChmods,      \* bound: changes of a mode by the owner
    MaxStops        \* bound: crashes and failed commands

VARIABLES
    acl,        \* acl[d]: others may search d; QEMU has an entry on d
    snapshot,   \* the snapshot file, for one project root
    polkit,     \* the Polkit rule is in place
    pstep,         \* "idle" or the next step
    prun,        \* the running command and its project
    found,       \* restricted ancestors the install found
    presult,
    original,   \* the ACLs as the owner made them, Atum holding no snapshot
    drifted,    \* a mode changed under a running command or a held snapshot
    chmods,
    stops

pvars == <<acl, snapshot, polkit, pstep, prun, found, presult, original, drifted, chmods, stops>>

Entry == [open : BOOLEAN, qemu : BOOLEAN]
Snapshots == UNION {[D -> Entry] : D \in SUBSET Dirs}

ASSUME PermissionsAssumption ==
    /\ Ancestors \in [Projects -> SUBSET Dirs]
    /\ NoState \notin [project : Projects, snap : Snapshots]
    /\ MaxChmods \in Nat /\ MaxStops \in Nat

\* Type of every variable.
PTypeOK ==
    /\ acl \in [Dirs -> Entry]
    /\ snapshot = NoState \/ (snapshot.project \in Projects /\ snapshot.snap \in Snapshots)
    /\ polkit \in BOOLEAN
    /\ pstep \in {"idle", "rule", "inspect", "snapshot", "grant", "restore", "forget", "unrule"}
    /\ prun \in [action : {"install", "uninstall"}, project : Projects]
    /\ found \subseteq Dirs
    /\ presult \in {"none", "installed", "removed", "failed"}
    /\ original \in [Dirs -> Entry]
    /\ drifted \in BOOLEAN
    /\ chmods \in 0..MaxChmods
    /\ stops \in 0..MaxStops

PInit ==
    /\ acl \in [Dirs -> [open : BOOLEAN, qemu : {FALSE}]]
    /\ snapshot = NoState
    /\ polkit = FALSE
    /\ pstep = "idle"
    /\ prun \in [action : {"install"}, project : Projects]
    /\ found = {}
    /\ presult = "none"
    /\ original = acl
    /\ drifted = FALSE
    /\ chmods = 0 /\ stops = 0

Return(outcome) == pstep' = "idle" /\ presult' = outcome
Advance(next) == pstep' = next /\ UNCHANGED presult

StartPermissions(action, project) ==
    /\ pstep = "idle"
    /\ prun' = [action |-> action, project |-> project]
    /\ pstep' = IF action = "install" THEN "rule" ELSE "restore"
    /\ found' = {} /\ presult' = "none"
    /\ UNCHANGED <<acl, snapshot, polkit, original, drifted, chmods, stops>>

\* Permissions install: the rule file comes first.
installRule ==
    /\ pstep = "rule"
    /\ polkit' = TRUE
    /\ Advance("inspect")
    /\ UNCHANGED <<acl, snapshot, prun, found, original, drifted, chmods, stops>>

\* restrictedProjectAncestors.
Restricted(project) == {d \in Ancestors[project] : ~acl[d].open}

\* libvirtACLStateHeader: the snapshot belongs to one project root.
Owned == snapshot # NoState /\ snapshot.project = prun.project

\* installQEMUSearchACL up to the snapshot: nothing restricted, nothing to do;
\* a snapshot of this project is kept as it is, one of another is refused.
inspectAncestors ==
    /\ pstep = "inspect"
    /\ found' = Restricted(prun.project)
    /\ CASE found' = {} -> Return("installed")
         [] found' # {} /\ snapshot = NoState -> Advance("snapshot")
         [] found' # {} /\ Owned -> Advance("grant")
         [] OTHER -> Return("failed")
    /\ UNCHANGED <<acl, snapshot, polkit, prun, original, drifted, chmods, stops>>

\* getfacl of the restricted ancestors, stored before anything is granted.
snapshotACL ==
    /\ pstep = "snapshot"
    /\ snapshot' = [project |-> prun.project, snap |-> [d \in found |-> acl[d]]]
    /\ Advance("grant")
    /\ UNCHANGED <<acl, polkit, prun, found, original, drifted, chmods, stops>>

\* setfacl --modify user:qemu:--x on the restricted ancestors.
grantSearch ==
    /\ pstep = "grant"
    /\ acl' = [d \in Dirs |-> IF d \in found THEN [acl[d] EXCEPT !.qemu = TRUE] ELSE acl[d]]
    /\ Return("installed")
    /\ UNCHANGED <<snapshot, polkit, prun, found, original, drifted, chmods, stops>>

\* restoreQEMUSearchACL: no snapshot, nothing to restore; a foreign one is refused.
restoreACL ==
    /\ pstep = "restore"
    /\ IF snapshot = NoState THEN Advance("unrule") /\ UNCHANGED acl
       ELSE IF Owned
       THEN /\ acl' = [d \in Dirs |-> IF d \in DOMAIN snapshot.snap THEN snapshot.snap[d] ELSE acl[d]]
            /\ Advance("forget")
       ELSE Return("failed") /\ UNCHANGED acl
    /\ UNCHANGED <<snapshot, polkit, prun, found, original, drifted, chmods, stops>>

\* The state file goes only after setfacl succeeded.
forgetSnapshot ==
    /\ pstep = "forget"
    /\ snapshot' = NoState
    /\ Advance("unrule")
    /\ UNCHANGED <<acl, polkit, prun, found, original, drifted, chmods, stops>>

removeRule ==
    /\ pstep = "unrule"
    /\ polkit' = FALSE
    /\ Return("removed")
    /\ UNCHANGED <<acl, snapshot, prun, found, original, drifted, chmods, stops>>

\* A crash, or an ACL command that fails.
Stop ==
    /\ pstep # "idle"
    /\ stops < MaxStops /\ stops' = stops + 1
    /\ Return("failed")
    /\ UNCHANGED <<acl, snapshot, polkit, prun, found, original, drifted, chmods>>

\* The owner opens or closes a directory.
Chmod ==
    /\ chmods < MaxChmods /\ chmods' = chmods + 1
    /\ \E d \in Dirs : acl' = [acl EXCEPT ![d].open = ~@]
    /\ IF snapshot = NoState /\ pstep = "idle"
       THEN original' = acl' /\ UNCHANGED drifted
       ELSE drifted' = TRUE /\ UNCHANGED original
    /\ UNCHANGED <<snapshot, polkit, pstep, prun, found, presult, stops>>

PSteps == installRule \/ inspectAncestors \/ snapshotACL \/ grantSearch
          \/ restoreACL \/ forgetSnapshot \/ removeRule

PNext ==
    \/ \E action \in {"install", "uninstall"}, p \in Projects : StartPermissions(action, p)
    \/ PSteps
    \/ Stop \/ Chmod

-----------------------------------------------------------------------------
\* A finished uninstall of a project whose directories kept their modes leaves
\* every ACL as it was before the first install, however many installs and
\* half-finished commands came between: a snapshot is taken once, and never of
\* an ACL that already carries Atum's grant (installQEMUSearchACL).
UninstallRestoresACLs ==
    [][(presult' = "removed" /\ pstep # "idle" /\ ~drifted) => acl' = original /\ ~polkit']_pvars

=============================================================================
