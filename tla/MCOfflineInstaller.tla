------------------------- MODULE MCOfflineInstaller -------------------------
(***************************************************************************)
(* TemplateProvision and InstallerDownloads for TLC.  A generation only    *)
(* reads the template (a missing one fails it, see ApplyOverlay), so the   *)
(* two halves are explored side by side and not multiplied: in a behaviour *)
(* either the provisioning runs or the server moves.                       *)
(***************************************************************************)
EXTENDS TemplateProvision, InstallerDownloads, TLC

CONSTANTS r1, r2, r3, i1, i2, i3, t1, t2

VARIABLE half

Pattern(a, b, c) == (r1 :> a) @@ (r2 :> b) @@ (r3 :> c)

\* Three live processes, or a later run with the first one's identifier.
PidPatterns == {Pattern(i1, i2, i3), Pattern(i1, i1, i2), Pattern(i1, i2, i1)}

\* Runs and transfers are interchangeable: it is enough that
\* they start in the order of their names.  Nor does it matter when the first
\* generation starts.
InOrder ==
  /\ pc'[r2] # "new" => pc'[r1] # "new"
  /\ pc'[r3] # "new" => pc'[r2] # "new"
  /\ xfer'[t2] # "new" => xfer'[t1] # "new"
  /\ (\A a \in Artifacts : gen[a] = "new") => time' = 0

MCInit ==
  /\ half \in {"template", "downloads"}
  /\ TplInit /\ pid \in PidPatterns
  /\ half = "downloads" => bundle[Seed] = "good" /\ pid = Pattern(i1, i2, i3)
  /\ InstInit

MCNext ==
  /\ \/ half = "template" /\ TplNext /\ UNCHANGED <<half, instVars>>
     \/ half = "downloads" /\ InstNext /\ UNCHANGED <<half, tplVars>>
  /\ InOrder

\* The fairness of the server: behaviours of the other half are checked for
\* safety only.
MCSpec == MCInit /\ [][MCNext]_<<half, tplVars, instVars>> /\ InstFairness
=============================================================================
