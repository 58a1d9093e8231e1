---------------------------- MODULE LinuxUpdate ----------------------------
(***************************************************************************)
(* The Linux agent's update run: linux/scripts/runtime/openpath-update.sh  *)
(* with the libraries it sources (openpath-update-whitelist.sh,            *)
(* openpath-update-runtime.sh, common-locking.sh, dns-dnsmasq.sh,          *)
(* rollback.sh).                                                           *)
(*                                                                         *)
(* One run downloads the machine's whitelist from the API (with the ETag   *)
(* of the last one), decides what to do when that fails, turns enforcement *)
(* off when the whitelist says so, generates the dnsmasq configuration,    *)
(* restarts dnsmasq only if the hash of the configuration differs from the *)
(* stored one, and reconciles the firewall.  The run holds the agent's     *)
(* lock, but the API, the clock and the restarts of dnsmasq by the         *)
(* watchdog and by "openpath restart" go on between its commands, so the   *)
(* run is a sequence of steps.                                             *)
(*                                                                         *)
(* A whitelist, its ETag and the configuration generated from it are all   *)
(* named by the group they belong to.                                      *)
(***************************************************************************)
EXTENDS Naturals

CONSTANTS
  Groups,          \* groups with a whitelist of their own
  SharedProbe,     \* does every configuration forward a group's first domain?
  MaxAge,          \* WHITELIST_MAX_AGE_HOURS, 0 for no expiration
  MaxCheckpoints,  \* MAX_CHECKPOINTS
  MaxChanges,      \* bound: policy changes on the server
  MaxFaults        \* bound: failures of the network, of commands, of probes

\* The other answers of the API, and the other configurations.
Unrestricted == "unrestricted"
NoPolicy == "no policy"
Disabled == "#DESACTIVADO"
Passthrough == "passthrough"
FailSafe == "fail-safe"
None == "none"
Down == "down"
Portal == "portal"
Protected == "protected"

Reserved == {Unrestricted, NoPolicy, Disabled, Passthrough, FailSafe, None, Down,
             Portal, Protected}

ASSUME GroupsAssumption == Groups # {} /\ Groups \cap Reserved = {}
ASSUME BoundsAssumption ==
  /\ SharedProbe \in BOOLEAN
  /\ MaxAge \in Nat /\ MaxChanges \in Nat /\ MaxFaults \in Nat
  /\ MaxCheckpoints \in Nat \ {0}

VARIABLES
  policy,       \* what the API's policy for this machine is now
  changes,      \* policy changes so far
  whitelist,    \* content of WHITELIST_FILE
  etag,         \* content of WHITELIST_FILE.etag
  etagLost,     \* history: was the last downloaded whitelist's ETag not stored?
  age,          \* hours since WHITELIST_FILE was written, up to MaxAge
  conf,         \* DNSMASQ_CONF
  confHash,     \* DNSMASQ_CONF_HASH, named by the configuration it is of
  loaded,       \* the configuration the running dnsmasq read
  unhashed,     \* history: was that by a restart from outside the run, of a
                \* configuration other than the stored hash's?
  firewall,     \* are the restrictive rules installed?
  disabledFlag, \* SYSTEM_DISABLED_FLAG
  checkpoints,  \* the checkpoint ring: 0..MaxCheckpoints-1 -> files saved
  current,      \* its .current pointer
  pc,           \* the next step of the update run, "idle" when none runs
  target,       \* the mode being entered: "failopen", "failsafe", "disable"
  newEtag,      \* new_etag of the download in progress
  changed,      \* dns_config_changed
  wasInactive,  \* firewall_was_inactive
  faults        \* failures so far

serverVars == <<policy, changes>>
fileVars == <<whitelist, etag, etagLost, age>>
dnsVars == <<conf, confHash, loaded, unhashed>>
checkpointVars == <<checkpoints, current>>
localVars == <<target, newEtag, changed, wasInactive>>
vars == <<serverVars, fileVars, dnsVars, firewall, disabledFlag, checkpointVars,
          pc, localVars, faults>>

Policies == Groups \cup {Unrestricted, NoPolicy}

\* The body of the API's answer.  Its ETag is named by the policy: one per
\* group, a fixed one for unrestricted machines, and for the answer of
\* failOpenResponse, which sets none, the one Express derives from the body.
Body(p) == IF p \in Groups THEN p ELSE Disabled

NoFiles == [whitelist |-> None, conf |-> None]

\* A machine after installation: nothing downloaded, permissive.
Init ==
  /\ policy \in Policies /\ changes = 0
  /\ whitelist = None /\ etag = None /\ etagLost = FALSE /\ age = 0
  /\ conf = Passthrough /\ confHash = None
  /\ loaded = Passthrough /\ unhashed = FALSE
  /\ firewall = FALSE /\ disabledFlag = FALSE
  /\ checkpoints = [i \in 0..MaxCheckpoints-1 |-> NoFiles] /\ current = 0
  /\ pc = "idle" /\ target = None /\ newEtag = None
  /\ changed = FALSE /\ wasInactive = FALSE
  /\ faults = 0

\* A step in which something goes wrong.
Fault == faults < MaxFaults /\ faults' = faults + 1

-----------------------------------------------------------------------------
(***************************************************************************)
(* The environment of the run.                                             *)
(***************************************************************************)
ServerChange(p) ==
  /\ changes < MaxChanges
  /\ p # policy
  /\ policy' = p /\ changes' = changes + 1
  /\ UNCHANGED <<fileVars, dnsVars, firewall, disabledFlag, checkpointVars, pc,
                 localVars, faults>>

Hour ==
  /\ age < MaxAge
  /\ age' = age + 1
  /\ UNCHANGED <<serverVars, whitelist, etag, etagLost, dnsVars, firewall, disabledFlag,
                 checkpointVars, pc, localVars, faults>>

\* dnsmasq stops, or a restart of it fails.
DnsmasqDies ==
  /\ loaded # Down
  /\ Fault
  /\ loaded' = Down
  /\ UNCHANGED <<serverVars, fileVars, conf, confHash, unhashed, firewall,
                 disabledFlag, checkpointVars, pc, localVars>>

\* systemctl restart dnsmasq outside the run: it reads the file that is there,
\* and nobody writes its hash.
ReadConf == loaded' = conf /\ unhashed' = (confHash \notin {None, conf})

\* "openpath restart" and the installation of a package, without the lock.
CommandRestart ==
  /\ ReadConf
  /\ UNCHANGED <<serverVars, fileVars, conf, confHash, firewall, disabledFlag,
                 checkpointVars, pc, localVars, faults>>

\* The watchdog finds dnsmasq dead and restarts it, without the lock.
WatchdogRestart == loaded = Down /\ CommandRestart

-----------------------------------------------------------------------------
(***************************************************************************)
(* main(): preflight and download_whitelist                                *)
(***************************************************************************)
Start ==
  /\ pc = "idle"
  /\ pc' = "preflight"
  /\ UNCHANGED <<serverVars, fileVars, dnsVars, firewall, disabledFlag,
                 checkpointVars, localVars, faults>>

\* A captive portal defers the run and opens the firewall.
Preflight ==
  /\ pc = "preflight"
  /\ \/ /\ Fault
        /\ firewall' = FALSE
        /\ pc' = "idle"
     \/ /\ pc' = "download"
        /\ UNCHANGED <<firewall, faults>>
  /\ UNCHANGED <<serverVars, fileVars, dnsVars, disabledFlag, checkpointVars,
                 localVars>>

\* 304: the request's If-None-Match names the policy's ETag.  The file keeps
\* its time: it goes on ageing although the API has just confirmed it.
DownloadUnchanged ==
  /\ pc = "download"
  /\ etag = policy
  /\ pc' = "emergency"
  /\ UNCHANGED <<serverVars, fileVars, dnsVars, firewall, disabledFlag,
                 checkpointVars, localVars, faults>>

DownloadReplace ==
  /\ pc = "download"
  /\ etag # policy
  /\ whitelist' = Body(policy) /\ age' = 0
  /\ newEtag' = policy
  /\ pc' = "etag"
  /\ UNCHANGED <<serverVars, etag, etagLost, dnsVars, firewall, disabledFlag,
                 checkpointVars, target, changed, wasInactive, faults>>

\* No answer, an HTTP error, or a body that validate_whitelist_content rejects.
DownloadFail ==
  /\ pc = "download"
  /\ Fault
  /\ pc' = "plan"
  /\ UNCHANGED <<serverVars, fileVars, dnsVars, firewall, disabledFlag,
                 checkpointVars, localVars>>

\* Mutant: the ETag is asked for again when it is written.
WriteEtagLate ==
  /\ pc = "etag"
  /\ etag' = policy /\ etagLost' = FALSE
  /\ pc' = "emergency"
  /\ UNCHANGED <<serverVars, whitelist, age, dnsVars, firewall, disabledFlag,
                 checkpointVars, localVars, faults>>

\* Without an ETag in the answer the old one stays; a failing write goes
\* unnoticed and leaves the old one or an empty file.
WriteEtag ==
  /\ pc = "etag"
  /\ \/ etag' = newEtag /\ etagLost' = FALSE /\ UNCHANGED faults
     \/ etag' \in {etag, None} /\ etagLost' = TRUE /\ Fault
  /\ pc' = "emergency"
  /\ UNCHANGED <<serverVars, whitelist, age, dnsVars, firewall, disabledFlag,
                 checkpointVars, localVars>>

Enter(mode) == target' = mode /\ pc' = "write"

\* resolve_whitelist_download_plan after a failed download.
Plan ==
  /\ pc = "plan"
  /\ \/ whitelist = None /\ Enter("failopen")
     \/ whitelist # None /\ MaxAge > 0 /\ age >= MaxAge /\ Enter("failsafe")
     \/ whitelist # None /\ (MaxAge = 0 \/ age < MaxAge)
          /\ pc' = "emergency" /\ UNCHANGED target
  /\ UNCHANGED <<serverVars, fileVars, dnsVars, firewall, disabledFlag,
                 checkpointVars, newEtag, changed, wasInactive, faults>>

\* check_emergency_disable, and the end of the run when already disabled.
Emergency ==
  /\ pc = "emergency"
  /\ \/ whitelist = Disabled /\ ~disabledFlag /\ Enter("disable") /\ UNCHANGED disabledFlag
     \/ whitelist = Disabled /\ disabledFlag /\ pc' = "idle"
          /\ UNCHANGED <<target, disabledFlag>>
     \/ whitelist # Disabled /\ disabledFlag' = FALSE /\ pc' = "apply" /\ UNCHANGED target
  /\ UNCHANGED <<serverVars, fileVars, dnsVars, firewall, checkpointVars, newEtag,
                 changed, wasInactive, faults>>

-----------------------------------------------------------------------------
(***************************************************************************)
(* apply_passthrough_system_mode (through cleanup_system) and the          *)
(* fail_safe branch of apply_whitelist_download_plan.                      *)
(***************************************************************************)
\* Mutant: the firewall is left to the next run.
ModeWriteOnly ==
  /\ pc = "write"
  /\ conf' = IF target = "failsafe" THEN FailSafe ELSE Passthrough
  /\ pc' = "clear"
  /\ UNCHANGED <<serverVars, fileVars, confHash, loaded, unhashed, firewall,
                 disabledFlag, checkpointVars, localVars, faults>>

ModeWrite ==
  /\ pc = "write"
  /\ conf' = IF target = "failsafe" THEN FailSafe ELSE Passthrough
  /\ firewall' = IF target = "failsafe" THEN firewall ELSE FALSE
  /\ pc' = "clear"
  /\ UNCHANGED <<serverVars, fileVars, confHash, loaded, unhashed, disabledFlag,
                 checkpointVars, localVars, faults>>

\* Mutant: fail-open and fail-safe keep the stored hash.
ModeKeepHash ==
  /\ pc = "clear"
  /\ pc' = "reload"
  /\ UNCHANGED <<serverVars, fileVars, dnsVars, firewall, disabledFlag,
                 checkpointVars, localVars, faults>>

ModeClear ==
  /\ pc = "clear"
  /\ confHash' = None /\ unhashed' = FALSE
  /\ pc' = "reload"
  /\ UNCHANGED <<serverVars, fileVars, conf, loaded, firewall, disabledFlag,
                 checkpointVars, localVars, faults>>

\* systemctl restart dnsmasq || true, and the flag of a remote disable.
ModeReload ==
  /\ pc = "reload"
  /\ \/ loaded' = conf /\ UNCHANGED faults
     \/ loaded' = Down /\ Fault
  /\ disabledFlag' = (disabledFlag \/ target = "disable")
  /\ pc' = "idle"
  /\ UNCHANGED <<serverVars, fileVars, conf, confHash, unhashed, firewall,
                 checkpointVars, localVars>>

-----------------------------------------------------------------------------
(***************************************************************************)
(* main(): checkpoint, configuration, restart, firewall                    *)
(***************************************************************************)
NextCheckpoint == (current + 1) % MaxCheckpoints

SaveCheckpoint ==
  /\ pc = "apply"
  /\ wasInactive' = ~firewall
  /\ current' = NextCheckpoint
  /\ checkpoints' = [checkpoints EXCEPT ![NextCheckpoint] =
                       [whitelist |-> whitelist, conf |-> conf]]
  /\ pc' = "generate"
  /\ UNCHANGED <<serverVars, fileVars, dnsVars, firewall, disabledFlag, target,
                 newEtag, changed, faults>>

Generate ==
  /\ pc = "generate"
  /\ conf' = whitelist
  /\ pc' = "sync"
  /\ UNCHANGED <<serverVars, fileVars, confHash, loaded, unhashed, firewall,
                 disabledFlag, checkpointVars, localVars, faults>>

\* sync_runtime_browser_integrations: an incomplete setup ends the run here.
Sync ==
  /\ pc = "sync"
  /\ \/ Fault /\ pc' = "idle"
     \/ pc' = "compare" /\ UNCHANGED faults
  /\ UNCHANGED <<serverVars, fileVars, dnsVars, firewall, disabledFlag,
                 checkpointVars, localVars>>

has_config_changed == confHash = None \/ confHash # conf

Compare ==
  /\ pc = "compare"
  /\ changed' = has_config_changed
  /\ pc' = IF has_config_changed THEN "restart" ELSE "verify"
  /\ UNCHANGED <<serverVars, fileVars, dnsVars, firewall, disabledFlag,
                 checkpointVars, target, newEtag, wasInactive, faults>>

\* restart_dnsmasq; when it fails the run ends in fail-open mode.
Restart ==
  /\ pc = "restart"
  /\ \/ loaded' = conf /\ pc' = "hash" /\ UNCHANGED <<target, faults>>
     \/ Fault /\ loaded' \in {loaded, conf, Down} /\ Enter("failopen")
  /\ UNCHANGED <<serverVars, fileVars, conf, confHash, unhashed, firewall,
                 disabledFlag, checkpointVars, newEtag, changed, wasInactive>>

WriteHash ==
  /\ pc = "hash"
  /\ confHash' = conf /\ unhashed' = FALSE
  /\ pc' = "verify"
  /\ UNCHANGED <<serverVars, fileVars, conf, loaded, firewall, disabledFlag,
                 checkpointVars, localVars, faults>>

\* Mutant: an unchanged configuration leaves the firewall alone.
ReconcileChanged(healthy) ==
  IF ~healthy THEN FALSE ELSE IF changed THEN TRUE ELSE firewall

\* build_runtime_reconciliation_plan: what becomes of the firewall.
Reconcile(healthy) ==
  IF ~healthy THEN FALSE ELSE IF changed \/ wasInactive THEN TRUE ELSE firewall

\* verify_dns: dnsmasq forwards the first domain of the whitelist on disk, or a
\* control-plane domain when that has none.
ProbeResolves ==
  /\ loaded # Down
  /\ SharedProbe \/ whitelist \notin Groups \/ loaded \in {whitelist, Passthrough, Portal}

\* verify_dns and apply_runtime_reconciliation_plan.  A failed activation is
\* undone by deactivate_firewall, just like a failed probe.
Verify ==
  /\ pc = "verify"
  /\ \/ ProbeResolves /\ firewall' = Reconcile(TRUE) /\ UNCHANGED faults
     \/ ~ProbeResolves /\ firewall' = Reconcile(FALSE) /\ UNCHANGED faults
     \/ Fault /\ firewall' = Reconcile(FALSE)
  /\ pc' = "idle"
  /\ UNCHANGED <<serverVars, fileVars, dnsVars, disabledFlag, checkpointVars,
                 localVars>>

Download == DownloadUnchanged \/ DownloadReplace \/ DownloadFail \/ WriteEtag

Mode == ModeWrite \/ ModeClear \/ ModeReload

Apply == SaveCheckpoint \/ Generate \/ Sync \/ Compare \/ Restart \/ WriteHash \/ Verify

UpdateStep == Start \/ Preflight \/ Download \/ Plan \/ Emergency \/ Mode \/ Apply

Environment ==
  Hour \/ DnsmasqDies \/ CommandRestart \/ \E p \in Policies : ServerChange(p)

Next == UpdateStep \/ Environment

Spec == Init /\ [][Next]_vars

\* The timer starts a run every few minutes and no command of it hangs (curl
\* and systemctl run under timeout); the watchdog's timer finds a dead dnsmasq.
FairSpec == Spec /\ WF_vars(UpdateStep) /\ WF_vars(WatchdogRestart)

-----------------------------------------------------------------------------
Contents == Groups \cup {Disabled, None}
Configs == Groups \cup {Passthrough, FailSafe, None}
Labels == {"idle", "preflight", "download", "etag", "plan", "emergency", "write",
           "clear", "reload", "apply", "generate", "sync", "compare", "restart",
           "hash", "verify"}

TypeOK ==
  /\ policy \in Policies /\ changes \in Nat
  /\ whitelist \in Contents
  /\ etag \in Policies \cup {None} /\ etagLost \in BOOLEAN /\ unhashed \in BOOLEAN
  /\ age \in Nat
  /\ conf \in Configs \ {None} /\ confHash \in Configs /\ loaded \in Configs \cup {Down}
  /\ firewall \in BOOLEAN /\ disabledFlag \in BOOLEAN
  /\ checkpoints \in [0..MaxCheckpoints-1 -> [whitelist : Contents, conf : Configs]]
  /\ current \in 0..MaxCheckpoints-1
  /\ pc \in Labels
  /\ target \in {None, "failopen", "failsafe", "disable"}
  /\ newEtag \in Policies \cup {None}
  /\ changed \in BOOLEAN /\ wasInactive \in BOOLEAN
  /\ faults \in Nat

(***************************************************************************)
(* What has_config_changed relies on: except between a restart and the     *)
(* write of its hash, or while a mode that clears it is being entered, a   *)
(* stored hash is that of the configuration dnsmasq really runs, not just  *)
(* of a file that was generated once.  A restart from outside the run      *)
(* breaks it only by reading a configuration that a run has written and    *)
(* not got to hash, and only until the next hash, removal of the hash or   *)
(* such restart.                                                           *)
(***************************************************************************)
HashMatchesLoaded ==
  confHash # None /\ ~unhashed /\ pc \notin {"hash", "write", "clear"}
    => loaded \in {confHash, Down}

(***************************************************************************)
(* A run that gets as far as the firewall has dnsmasq enforcing exactly    *)
(* the whitelist on disk, whether it restarted dnsmasq or has_config_changed *)
(* let it skip the restart, unless dnsmasq died or an earlier restart from *)
(* outside has made the hash wrong.                                        *)
(***************************************************************************)
AppliedMeansLoaded == pc = "verify" /\ ~unhashed => loaded \in {whitelist, Down}

(***************************************************************************)
(* The firewall is never left restrictive in front of a dnsmasq that       *)
(* answers everything: whichever way a run ends (or stands), passthrough   *)
(* DNS comes with the permissive firewall of apply_passthrough_system_mode. *)
(***************************************************************************)
PassthroughIsPermissive == loaded = Passthrough => ~firewall

(***************************************************************************)
(* The log line of the 304 branch of download_whitelist: the file is the   *)
(* one the API would send.  Only a download whose ETag was not stored      *)
(* (none in the answer, or a failed write that `|| true` hides) makes it   *)
(* wrong, and the next ETag that is stored makes it right again.           *)
(***************************************************************************)
UnchangedMeansCurrent ==
  etag # None /\ ~etagLost /\ pc # "etag" => whitelist = Body(etag)

Enforced ==
  IF policy \in Groups
  THEN loaded = policy /\ firewall
  ELSE loaded = Passthrough /\ ~firewall

(***************************************************************************)
(* Convergence: once the policy stays a group's and nothing fails any more, *)
(* the machine ends up, and stays, enforcing exactly that group, whatever  *)
(* failed before: fail-open, fail-safe and disabled modes, a dead dnsmasq, *)
(* an opened firewall are all left behind by openpath-update.sh.  What it  *)
(* does not leave behind by itself is an ETag that names another whitelist *)
(* and a hash that a restart from outside has made wrong: a later run      *)
(* finds "unchanged" for ever.                                             *)
(***************************************************************************)
Convergence ==
  <>[](policy \in Groups) /\ []<>~etagLost /\ []<>~unhashed => <>[]Enforced

(***************************************************************************)
(* The same without the restriction to groups, for the fail-safe mode of   *)
(* defaults.conf ("until a fresh whitelist can be downloaded"). TLC        *)
(* refutes it under FairSpec: on a machine the server has made             *)
(* unrestricted the next good download finds "already disabled" and        *)
(* changes nothing.                                                        *)
(***************************************************************************)
FailSafeIsLeft == <>[](loaded # FailSafe)
=============================================================================
