-------------------------- MODULE LinuxAgentProofs --------------------------
(***************************************************************************)
(* The safety invariants of LinuxUpdate and of LinuxAgent for any number   *)
(* of groups, checkpoints, policy changes, portals and failures.           *)
(*                                                                         *)
(* None of those of LinuxUpdate is inductive alone.  That a skipped        *)
(* restart is justified (AppliedMeansLoaded) rests on the stored hash      *)
(* naming the running configuration (HashMatchesLoaded), which rests on    *)
(* what the run has done when it stands before the write of the hash, and  *)
(* that rests on the whitelist it applies being a group's (Progress).      *)
(* Restarts of dnsmasq from outside the run come between any two steps.    *)
(***************************************************************************)
EXTENDS LinuxAgent, TLAPS

\* The steps of a run that has passed check_emergency_disable, and those of
\* them after generate_dnsmasq_config.
Applying == {"apply", "generate", "sync", "compare", "restart", "hash", "verify"}
Generated == {"sync", "compare", "restart", "hash", "verify"}

\* A run that applies a whitelist applies a group's, and generates it.
WhitelistApplied ==
  /\ etag # None \/ pc \in {"etag", "emergency"} => whitelist # None
  /\ pc \in Applying => whitelist \in Groups
  /\ pc \in Generated => conf = whitelist

\* What a run has established at the steps that follow a restart, a removal of
\* the hash or a download.
Progress ==
  /\ pc = "hash" => loaded \in {conf, Down}
  /\ pc = "reload" => confHash = None /\ ~unhashed
  /\ pc = "etag" => newEtag \in Policies /\ whitelist = Body(newEtag)

\* A passthrough configuration that a restart could load.
PassthroughConf == conf = Passthrough => ~firewall

\* Only while such a mode is being entered can a restart from outside load its
\* configuration under the hash of another.
PassthroughUnhashed ==
  /\ conf = Passthrough /\ confHash # None => pc = "clear"
  /\ loaded = Passthrough /\ unhashed => pc = "clear"

IndInv ==
  /\ TypeOK
  /\ WhitelistApplied
  /\ Progress
  /\ HashMatchesLoaded
  /\ AppliedMeansLoaded
  /\ PassthroughConf
  /\ PassthroughUnhashed
  /\ PassthroughIsPermissive
  /\ UnchangedMeansCurrent

-----------------------------------------------------------------------------
\* No configuration, whitelist or policy of a group is one of the markers.
LEMMA Names ==
  /\ Unrestricted \notin Groups /\ NoPolicy \notin Groups /\ Disabled \notin Groups
  /\ Passthrough \notin Groups /\ FailSafe \notin Groups
  /\ None \notin Groups /\ Down \notin Groups
BY GroupsAssumption DEF Reserved

\* The checkpoint ring's pointer stays in the ring.
LEMMA RingIndex ==
  ASSUME current \in 0..MaxCheckpoints-1
  PROVE  NextCheckpoint \in 0..MaxCheckpoints-1
BY BoundsAssumption DEF NextCheckpoint

\* The installed machine satisfies the invariant.
LEMMA InitInv == Init => IndInv
<1> SUFFICES ASSUME Init PROVE IndInv
  OBVIOUS
<1>1. TypeOK
  <2>1. 0 \in 0..MaxCheckpoints-1
    BY BoundsAssumption
  <2>2. NoFiles \in [whitelist : Contents, conf : Configs]
    BY DEF NoFiles, Contents, Configs
  <2>3. checkpoints \in [0..MaxCheckpoints-1 -> [whitelist : Contents, conf : Configs]]
    BY <2>2 DEF Init
  <2> QED
    BY <2>1, <2>3, Names DEF Init, TypeOK, Contents, Configs, Labels, Passthrough, None
<1>2. WhitelistApplied /\ Progress /\ HashMatchesLoaded /\ AppliedMeansLoaded
  BY DEF Init, WhitelistApplied, Progress, HashMatchesLoaded, AppliedMeansLoaded,
         Applying, Generated
<1>3. /\ PassthroughConf /\ PassthroughUnhashed
      /\ PassthroughIsPermissive /\ UnchangedMeansCurrent
  BY DEF Init, PassthroughConf, PassthroughUnhashed, PassthroughIsPermissive, UnchangedMeansCurrent
<1> QED
  BY <1>1, <1>2, <1>3 DEF IndInv

\* Every step keeps the variables in their types.
LEMMA TypeStep == TypeOK /\ WhitelistApplied /\ [Next]_vars => TypeOK'
<1> SUFFICES ASSUME TypeOK, WhitelistApplied, [Next]_vars PROVE TypeOK'
  OBVIOUS
<1> USE DEF TypeOK, Labels, Policies, serverVars, fileVars, dnsVars, checkpointVars,
        localVars
<1>1. CASE Start
  BY <1>1 DEF Start
<1>2. CASE Preflight
  <2>1. firewall' \in BOOLEAN
    BY <1>2, Zenon DEF Preflight
  <2>2. faults' \in Nat
    BY <1>2 DEF Preflight, Fault
  <2>3. pc' \in Labels
    BY <1>2 DEF Preflight
  <2> QED
    BY <1>2, <2>1, <2>2, <2>3 DEF Preflight
<1>3. CASE DownloadUnchanged
  BY <1>3 DEF DownloadUnchanged
<1>4. CASE DownloadReplace
  BY <1>4 DEF DownloadReplace, Body, Contents
<1>5. CASE DownloadFail
  BY <1>5 DEF DownloadFail, Fault
<1>6. CASE WriteEtag
  <2>1. etagLost' \in BOOLEAN
    BY <1>6, Zenon DEF WriteEtag
  <2>2. UNCHANGED faults \/ Fault
    BY <1>6, Zenon DEF WriteEtag
  <2>3. /\ etag' \in Policies \cup {None} /\ pc' = "emergency"
        /\ UNCHANGED <<serverVars, whitelist, age, dnsVars, firewall, disabledFlag,
                       checkpointVars, localVars>>
    BY <1>6 DEF WriteEtag
  <2> QED
    BY <2>1, <2>2, <2>3 DEF Fault
<1>7. CASE Plan
  BY <1>7 DEF Plan, Enter
<1>8. CASE Emergency
  <2>1. disabledFlag' \in BOOLEAN
    BY <1>8, Zenon DEF Emergency
  <2>2. pc' \in Labels /\ target' \in {None, "failopen", "failsafe", "disable"}
    BY <1>8 DEF Emergency, Enter
  <2> QED
    BY <1>8, <2>1, <2>2 DEF Emergency
<1>9. CASE ModeWrite
  <2>1. firewall' \in BOOLEAN
    BY <1>9, Zenon DEF ModeWrite
  <2>2. conf' \in Configs \ {None}
    BY <1>9, Names DEF ModeWrite, Configs, FailSafe, Passthrough, None
  <2>3. /\ pc' = "clear"
        /\ UNCHANGED <<serverVars, fileVars, confHash, loaded, unhashed, disabledFlag,
                       checkpointVars, localVars, faults>>
    BY <1>9, Zenon DEF ModeWrite
  <2> QED
    BY <2>1, <2>2, <2>3
<1>10. CASE ModeClear
  <2>1. unhashed' \in BOOLEAN
    BY <1>10, Zenon DEF ModeClear
  <2>2. /\ confHash' = None /\ pc' = "reload"
        /\ UNCHANGED <<serverVars, fileVars, conf, loaded, firewall, disabledFlag,
                       checkpointVars, localVars, faults>>
    BY <1>10 DEF ModeClear
  <2> QED
    BY <2>1, <2>2 DEF Configs
<1>11. CASE ModeReload
  BY <1>11 DEF ModeReload, Fault
<1>12. CASE SaveCheckpoint
  BY <1>12, RingIndex DEF SaveCheckpoint
<1>13. CASE Generate
  BY <1>13, Names DEF Generate, Configs, WhitelistApplied, Applying
<1>14. CASE Sync
  BY <1>14 DEF Sync, Fault
<1>15. CASE Compare
  BY <1>15 DEF Compare, has_config_changed
<1>16. CASE Restart
  BY <1>16 DEF Restart, Fault, Enter
<1>17. CASE WriteHash
  <2>1. unhashed' \in BOOLEAN
    BY <1>17, Zenon DEF WriteHash
  <2>2. /\ confHash' = conf /\ pc' = "verify"
        /\ UNCHANGED <<serverVars, fileVars, conf, loaded, firewall, disabledFlag,
                       checkpointVars, localVars, faults>>
    BY <1>17 DEF WriteHash
  <2> QED
    BY <2>1, <2>2
<1>18. CASE Verify
  <2>1. firewall' \in BOOLEAN
    BY <1>18, Zenon DEF Verify, Reconcile
  <2>2. UNCHANGED faults \/ Fault
    BY <1>18, Zenon DEF Verify
  <2>3. /\ pc' = "idle"
        /\ UNCHANGED <<serverVars, fileVars, dnsVars, disabledFlag, checkpointVars,
                       localVars>>
    BY <1>18, Zenon DEF Verify
  <2> QED
    BY <2>1, <2>2, <2>3 DEF Fault
<1>19. CASE Hour
  BY <1>19 DEF Hour
<1>20. CASE CommandRestart
  <2>1. unhashed' \in BOOLEAN
    BY <1>20, Zenon DEF CommandRestart, ReadConf
  <2>2. /\ loaded' = conf
        /\ UNCHANGED <<serverVars, fileVars, conf, confHash, firewall, disabledFlag,
                       checkpointVars, pc, localVars, faults>>
    BY <1>20 DEF CommandRestart, ReadConf
  <2> QED
    BY <2>1, <2>2
<1>21. CASE \E p \in Policies : ServerChange(p)
  BY <1>21 DEF ServerChange
<1>22. CASE UNCHANGED vars
  BY <1>22 DEF vars
<1>23. CASE DnsmasqDies
  BY <1>23 DEF DnsmasqDies, Fault
<1> QED
  BY <1>1, <1>2, <1>3, <1>4, <1>5, <1>6, <1>7, <1>8, <1>9, <1>10, <1>11, <1>12, <1>13, <1>14,
     <1>15, <1>16, <1>17, <1>18, <1>19, <1>20, <1>21, <1>22, <1>23
  DEF Next, UpdateStep, Environment, Download, Mode, Apply

\* Every step keeps the rest of the invariant.
LEMMA InvStep == IndInv /\ TypeOK' /\ [Next]_vars => IndInv'
<1> SUFFICES ASSUME IndInv, TypeOK', [Next]_vars PROVE IndInv'
  OBVIOUS
<1> USE Names DEF IndInv, Progress, WhitelistApplied, HashMatchesLoaded, AppliedMeansLoaded,
        PassthroughConf, PassthroughUnhashed, PassthroughIsPermissive, UnchangedMeansCurrent,
        Applying, Generated, serverVars, fileVars, dnsVars, checkpointVars, localVars
<1>1. CASE Start
  BY <1>1 DEF Start
<1>2. CASE Preflight
  BY <1>2 DEF Preflight
<1>3. CASE DownloadUnchanged
  BY <1>3 DEF DownloadUnchanged, TypeOK, Policies, Body, None, Disabled, Unrestricted, NoPolicy
<1>4. CASE DownloadReplace
  BY <1>4 DEF DownloadReplace, TypeOK, Body, None, Disabled
<1>5. CASE DownloadFail
  BY <1>5 DEF DownloadFail
<1>6. CASE WriteEtag
  BY <1>6 DEF WriteEtag, Policies, Body, None, Disabled
<1>7. CASE Plan
  BY <1>7 DEF Plan, Enter
<1>8. CASE Emergency
  <2>1. UNCHANGED <<whitelist, etag, etagLost, conf, confHash, loaded, unhashed, firewall>>
    BY <1>8 DEF Emergency
  <2>2. pc' \in {"write", "idle"} \/ (pc' = "apply" /\ whitelist \in Groups)
    BY <1>8 DEF Emergency, Enter, TypeOK, Contents
  <2> QED
    BY <1>8, <2>1, <2>2 DEF Emergency
<1>9. CASE ModeWrite
  BY <1>9 DEF ModeWrite, Passthrough, FailSafe
<1>10. CASE ModeClear
  BY <1>10 DEF ModeClear
<1>11. CASE ModeReload
  <2>1. UNCHANGED <<whitelist, etag, etagLost, conf, confHash, unhashed, firewall>>
    BY <1>11 DEF ModeReload
  <2>2. pc' = "idle" /\ loaded' \in {conf, Down}
    BY <1>11 DEF ModeReload
  <2>3. pc = "reload" /\ confHash = None
    BY <1>11 DEF ModeReload
  <2> QED
    BY <2>1, <2>2, <2>3 DEF Down, Passthrough
<1>12. CASE SaveCheckpoint
  BY <1>12 DEF SaveCheckpoint
<1>13. CASE Generate
  BY <1>13 DEF Generate
<1>14. CASE Sync
  BY <1>14 DEF Sync
<1>15. CASE Compare
  BY <1>15 DEF Compare, has_config_changed
<1>16. CASE Restart
  <2>1. UNCHANGED <<whitelist, etag, etagLost, conf, confHash, unhashed, firewall>>
    BY <1>16 DEF Restart
  <2>2. \/ pc' = "hash" /\ loaded' = conf
        \/ pc' = "write" /\ loaded' \in {loaded, conf, Down}
    BY <1>16 DEF Restart, Enter
  <2> QED
    BY <1>16, <2>1, <2>2 DEF Restart, Passthrough, Down
<1>17. CASE WriteHash
  BY <1>17 DEF WriteHash
<1>18. CASE Verify
  BY <1>18, Passthrough # Down DEF Verify, Reconcile, Passthrough, Down
<1>19. CASE Hour
  BY <1>19 DEF Hour
<1>20. CASE CommandRestart
  <2>1. UNCHANGED <<whitelist, etag, etagLost, conf, confHash, firewall, pc, newEtag>>
    BY <1>20 DEF CommandRestart
  <2>2. loaded' = conf /\ (unhashed' <=> confHash # None /\ confHash # conf)
    BY <1>20 DEF CommandRestart, ReadConf
  <2>3. (WhitelistApplied /\ PassthroughConf /\ UnchangedMeansCurrent)'
    BY <2>1
  <2>4. (Progress /\ HashMatchesLoaded /\ AppliedMeansLoaded)'
    BY <2>1, <2>2
  <2>5. (PassthroughUnhashed /\ PassthroughIsPermissive)'
    BY <2>1, <2>2
  <2> QED
    BY <2>3, <2>4, <2>5
<1>21. CASE \E p \in Policies : ServerChange(p)
  BY <1>21 DEF ServerChange
<1>22. CASE UNCHANGED vars
  BY <1>22 DEF vars
<1>23. CASE DnsmasqDies
  BY <1>23 DEF DnsmasqDies, Passthrough, Down
<1> QED
  BY <1>1, <1>2, <1>3, <1>4, <1>5, <1>6, <1>7, <1>8, <1>9, <1>10, <1>11, <1>12, <1>13, <1>14,
     <1>15, <1>16, <1>17, <1>18, <1>19, <1>20, <1>21, <1>22, <1>23
  DEF Next, UpdateStep, Environment, Download, Mode, Apply

\* The inductive invariant is one of the specification.
LEMMA Invariance == Spec => []IndInv
<1>1. IndInv /\ [Next]_vars => IndInv'
  BY TypeStep, InvStep DEF IndInv
<1> QED
  BY InitInv, <1>1, PTL DEF Spec

(***************************************************************************)
(* has_config_changed compares with the configuration dnsmasq really runs, *)
(* for any number of groups, failures, policy changes and restarts of      *)
(* dnsmasq from outside the run, except after one that read a              *)
(* configuration the run had not hashed.                                   *)
(***************************************************************************)
THEOREM HashIsOfRunningConfig == Spec => []HashMatchesLoaded
BY Invariance, PTL DEF IndInv

(***************************************************************************)
(* A run that reaches the firewall has dnsmasq running the whitelist on    *)
(* disk, also when it skipped the restart, under the same exception.       *)
(***************************************************************************)
THEOREM AppliedWhitelistIsLoaded == Spec => []AppliedMeansLoaded
BY Invariance, PTL DEF IndInv

(***************************************************************************)
(* No failure path of the run leaves restrictive rules in front of a       *)
(* passthrough resolver.                                                   *)
(***************************************************************************)
THEOREM NoRulesInPassthrough == Spec => []PassthroughIsPermissive
BY Invariance, PTL DEF IndInv

(***************************************************************************)
(* While no run is interrupted, the stored ETag names the stored whitelist, *)
(* so a 304 means that the file is the API's, unless the last download     *)
(* could not store its own.                                                *)
(***************************************************************************)
THEOREM EtagNamesWhitelist == Spec => []UnchangedMeansCurrent
BY Invariance, PTL DEF IndInv

-----------------------------------------------------------------------------
(***************************************************************************)
(* The way back from a captive portal, while neither the rollback of the   *)
(* watchdog nor a crash interferes.  The portal and the update run exclude *)
(* each other by the lock, so that a run never generates its configuration *)
(* into an open portal; only "openpath disable" writes without it.         *)
(***************************************************************************)
\* What the files of an update run say at its steps.
RunOK ==
  /\ etag # None \/ pc \in {"etag", "emergency"} => whitelist # None
  /\ pc \in Applying => whitelist \in Groups
  /\ pc \in Generated => conf \in Groups \cup {Passthrough}

\* The lock, and what entering and leaving a portal has done at each step.
PortalStepsOK ==
  /\ pc # "idle" => ppc = "idle"
  /\ ppc \in {"enter restart", "enter open"} => backup # None
  /\ ppc \in {"exit restart", "exit close"} => conf # Portal

\* Nothing counts failures or rolls back without the watchdog.
WatchdogQuiet == wpc = "idle" /\ failCount = 0

AgentInd ==
  /\ AgentTypeOK
  /\ current \in 0..MaxCheckpoints-1 /\ newEtag \in Policies \cup {None}
  /\ RunOK
  /\ PortalStepsOK
  /\ PortalHasWayBack
  /\ WatchdogQuiet


\* The markers of LinuxAgent are no group's names either.
LEMMA AgentNames ==
  /\ Portal \notin Groups /\ Protected \notin Groups
  /\ Portal \notin Configs /\ Portal # None /\ Passthrough \notin {None, Portal}
BY GroupsAssumption DEF Reserved, Configs, Portal, Passthrough, FailSafe, None

\* An update run, under the lock, keeps the invariant.
LEMMA UpdateStepOK ==
  ASSUME AgentInd, AgentUpdate
  PROVE  AgentInd'
<1> USE Names, AgentNames DEF AgentInd, AgentTypeOK, RunOK, PortalStepsOK, PortalHasWayBack,
        WatchdogQuiet, Labels, Applying, Generated, agentVars, portalVars, watchdogVars,
        serverVars, fileVars, dnsVars, checkpointVars, localVars
<1>1. CASE AgentStart
  BY <1>1 DEF AgentStart, Start, LockFree
<1>2. CASE Preflight /\ UNCHANGED agentVars
  BY <1>2 DEF Preflight
<1>3. CASE DownloadUnchanged /\ UNCHANGED agentVars
  BY <1>3 DEF DownloadUnchanged, Policies, None, Unrestricted, NoPolicy
<1>4. CASE DownloadReplace /\ UNCHANGED agentVars
  BY <1>4 DEF DownloadReplace, Body, Contents, Policies, None, Disabled
<1>5. CASE DownloadFail /\ UNCHANGED agentVars
  BY <1>5 DEF DownloadFail
<1>6. CASE WriteEtag /\ UNCHANGED agentVars
  BY <1>6 DEF WriteEtag
<1>7. CASE Plan /\ UNCHANGED agentVars
  BY <1>7 DEF Plan, Enter
<1>8. CASE Emergency /\ UNCHANGED agentVars
  BY <1>8 DEF Emergency, Enter, Contents
<1>9. CASE ModeWrite /\ UNCHANGED agentVars
  BY <1>9 DEF ModeWrite, AgentConfigs, Passthrough, FailSafe, None, Portal
<1>10. CASE ModeClear /\ UNCHANGED agentVars
  BY <1>10 DEF ModeClear, Configs
<1>11. CASE ModeReload /\ UNCHANGED agentVars
  BY <1>11 DEF ModeReload
<1>12. CASE SaveCheckpoint /\ UNCHANGED agentVars
  BY <1>12, RingIndex DEF SaveCheckpoint
<1>13. CASE Generate /\ UNCHANGED agentVars
  BY <1>13 DEF Generate, AgentConfigs
<1>14. CASE Sync /\ UNCHANGED agentVars
  BY <1>14 DEF Sync
<1>15. CASE Compare /\ UNCHANGED agentVars
  BY <1>15 DEF Compare
<1>16. CASE Restart /\ UNCHANGED agentVars
  BY <1>16 DEF Restart, Enter
<1>17. CASE WriteHash /\ UNCHANGED agentVars
  BY <1>17 DEF WriteHash, Configs
<1>18. CASE Verify /\ UNCHANGED agentVars
  BY <1>18 DEF Verify
<1> QED
  BY <1>1, <1>2, <1>3, <1>4, <1>5, <1>6, <1>7, <1>8, <1>9, <1>10, <1>11, <1>12, <1>13, <1>14,
     <1>15, <1>16, <1>17, <1>18
  DEF AgentUpdate, AgentRun, Download, Mode, Apply

\* A step that leaves the update run's variables alone, one by one.
LEMMA SameFiles ==
  ASSUME UNCHANGED vars
  PROVE  UNCHANGED <<policy, etag, whitelist, conf, confHash, loaded, checkpoints,
                     current, newEtag, pc>>
BY DEF vars, serverVars, fileVars, dnsVars, checkpointVars, localVars

\* A step that changes at most the policy, what dnsmasq has loaded, who waits to
\* close a portal and the state of the command line.
LEMMA OnlyDaemons ==
  ASSUME AgentInd,
         UNCHANGED <<etag, whitelist, conf, confHash, checkpoints, current, newEtag, pc>>,
         UNCHANGED <<marker, backup, ppc, wpc>>,
         policy' \in Policies, loaded' \in {loaded, conf, Down},
         closers' \subseteq {"detector", "watchdog"},
         failCount' \in {0, failCount},
         cli' \in {"none", "disabling", "disabled", "enabling"}
  PROVE  AgentInd'
<1>1. AgentTypeOK'
  <2>1. failCount' \in 0..MaxFails
    BY ActorsAssumption DEF AgentInd, WatchdogQuiet
  <2>2. loaded' \in AgentConfigs \cup {Down}
    BY DEF AgentInd, AgentTypeOK
  <2>3. /\ etag' \in Policies \cup {None} /\ whitelist' \in Contents
        /\ conf' \in AgentConfigs \ {None} /\ confHash' \in Configs
        /\ pc' \in Labels
    BY DEF AgentInd, AgentTypeOK
  <2>4. checkpoints' \in [0..MaxCheckpoints-1 -> [whitelist : Contents, conf : AgentConfigs]]
    BY DEF AgentInd, AgentTypeOK
  <2>5. /\ marker' \in BOOLEAN /\ backup' \in AgentConfigs \ {Portal}
        /\ ppc' \in {"idle", "enter restart", "enter open", "exit restart", "exit close"}
        /\ wpc' \in {"idle", "rollback start", "rollback check", "protect",
                       "protect restart"}
    BY DEF AgentInd, AgentTypeOK
  <2> QED
    BY <2>1, <2>2, <2>3, <2>4, <2>5 DEF AgentTypeOK
<1>2. (RunOK /\ PortalStepsOK)'
  BY DEF AgentInd, RunOK, PortalStepsOK
<1>3. (PortalHasWayBack /\ WatchdogQuiet)'
  BY DEF AgentInd, PortalHasWayBack, WatchdogQuiet
<1> QED
  BY <1>1, <1>2, <1>3 DEF AgentInd

\* Entering and leaving a portal, under the lock.
LEMMA PortalStepOK ==
  ASSUME AgentInd, PortalOpening \/ PortalClosing
  PROVE  AgentInd'
<1> USE Names, AgentNames DEF AgentInd, AgentTypeOK, RunOK, PortalStepsOK, PortalHasWayBack,
        WatchdogQuiet, Labels, Applying, Generated, LockFree, watchdogVars,
        serverVars, fileVars, dnsVars, checkpointVars, localVars
<1>1. CASE PortalEnter
  <2>1. conf # Portal
    BY <1>1 DEF PortalEnter
  <2>2. AgentTypeOK'
    BY <1>1, <2>1 DEF PortalEnter, AgentConfigs
  <2>3. (RunOK /\ PortalStepsOK /\ PortalHasWayBack)'
    BY <1>1, <2>1 DEF PortalEnter
  <2> QED
    BY <1>1, <2>2, <2>3 DEF PortalEnter
<1>2. CASE PortalEnterRestart
  BY <1>2 DEF PortalEnterRestart
<1>3. CASE PortalEnterOpen
  BY <1>3 DEF PortalEnterOpen
<1>4. ASSUME NEW who \in {"detector", "watchdog"}, PortalDecideClose(who)
      PROVE  AgentInd'
  <2>1. /\ UNCHANGED <<policy, etag, whitelist, conf, confHash, loaded, checkpoints,
                        current, newEtag, pc>>
        /\ UNCHANGED <<marker, backup, ppc, wpc, failCount, cli>>
        /\ closers' \subseteq {"detector", "watchdog"}
    BY <1>4, SameFiles DEF PortalDecideClose
  <2> QED
    BY <2>1, OnlyDaemons
<1>5. ASSUME NEW who \in {"detector", "watchdog"}, PortalExit(who)
      PROVE  AgentInd'
  BY <1>5 DEF PortalExit
<1>6. CASE PortalExitRestart
  BY <1>6 DEF PortalExitRestart
<1>7. CASE PortalExitClose
  BY <1>7 DEF PortalExitClose, AgentConfigs
<1> QED
  BY <1>1, <1>2, <1>3, <1>4, <1>5, <1>6, <1>7 DEF PortalOpening, PortalClosing

\* The commands of the user, the watchdog's restarts and the world.
LEMMA OtherStepOK ==
  ASSUME AgentInd, Actors \subseteq {"portal", "cli"},
         Watchdog \/ Cli \/ KillUpdate \/ Reboot \/ World
  PROVE  AgentInd'
<1>0. /\ policy \in Policies /\ closers \subseteq {"detector", "watchdog"}
      /\ cli \in {"none", "disabling", "disabled", "enabling"}
  BY DEF AgentInd, AgentTypeOK
<1>1. failCount < MaxFails /\ ~(failCount >= MaxFails) /\ wpc = "idle"
  <2>1. failCount = 0 /\ wpc = "idle"
    BY DEF AgentInd, WatchdogQuiet
  <2> QED
    BY <2>1, ActorsAssumption
<1>2. "watchdog" \notin Actors /\ "crash" \notin Actors
  OBVIOUS
<1>3. ~KillUpdate /\ ~Reboot
  BY <1>2, Zenon DEF KillUpdate, Reboot
<1>4. ~RollbackFiles /\ ~RollbackNone
  BY <1>1, Zenon DEF RollbackFiles, RollbackNone
<1>5. ~RollbackStart /\ ~RollbackCheck /\ ~ProtectWrite /\ ~ProtectRestart
  BY <1>1 DEF RollbackStart, RollbackCheck, ProtectWrite, ProtectRestart
<1>6. ASSUME WatchdogHealthy
      PROVE  AgentInd'
  <2>1. /\ UNCHANGED <<policy, etag, whitelist, conf, confHash, loaded, checkpoints,
                        current, newEtag, pc>>
        /\ UNCHANGED <<marker, backup, ppc, closers, wpc, cli>>
        /\ failCount' = 0
    BY <1>6, SameFiles DEF WatchdogHealthy, Recovered, portalVars
  <2> QED
    BY <1>0, <2>1, OnlyDaemons
<1>7. ASSUME WatchdogRecover
      PROVE  AgentInd'
  <2>1. /\ UNCHANGED <<policy, etag, whitelist, conf, confHash, checkpoints, current,
                        newEtag, pc>>
        /\ UNCHANGED <<marker, backup, ppc, closers, wpc, cli>>
        /\ failCount' = 0 \/ failCount' = failCount
        /\ loaded' \in {loaded, conf}
    BY <1>2, <1>7 DEF WatchdogRecover, ReadConf, Recovered, serverVars, fileVars, checkpointVars,
                      localVars, portalVars
  <2> QED
    BY <1>0, <2>1, OnlyDaemons
<1>8. ASSUME CliDisable
      PROVE  AgentInd'
  <2>1. /\ UNCHANGED <<policy, etag, whitelist, confHash, loaded, checkpoints, current,
                        newEtag, pc, marker, backup, ppc, closers, wpc, failCount>>
        /\ conf' = Passthrough /\ cli' = "disabling"
    BY <1>8 DEF CliDisable, serverVars, fileVars, checkpointVars, localVars, portalVars,
                watchdogVars
  <2>2. AgentTypeOK'
    <3>1. conf' \in AgentConfigs \ {None}
      BY <2>1, AgentNames DEF AgentConfigs
    <3>2. /\ policy' \in Policies /\ etag' \in Policies \cup {None}
          /\ whitelist' \in Contents /\ confHash' \in Configs
          /\ loaded' \in AgentConfigs \cup {Down} /\ pc' \in Labels
      BY <2>1 DEF AgentInd, AgentTypeOK
    <3>3. checkpoints' \in [0..MaxCheckpoints-1 -> [whitelist : Contents, conf : AgentConfigs]]
      BY <2>1 DEF AgentInd, AgentTypeOK
    <3>4. /\ marker' \in BOOLEAN /\ backup' \in AgentConfigs \ {Portal}
          /\ ppc' \in {"idle", "enter restart", "enter open", "exit restart", "exit close"}
          /\ closers' \subseteq {"detector", "watchdog"}
          /\ wpc' \in {"idle", "rollback start", "rollback check", "protect",
                         "protect restart"}
          /\ failCount' \in 0..MaxFails
          /\ cli' \in {"none", "disabling", "disabled", "enabling"}
      BY <2>1 DEF AgentInd, AgentTypeOK
    <3> QED
      BY <3>1, <3>2, <3>3, <3>4 DEF AgentTypeOK
  <2>3. (RunOK /\ PortalStepsOK /\ PortalHasWayBack /\ WatchdogQuiet)'
    BY <2>1, AgentNames DEF AgentInd, RunOK, PortalStepsOK, PortalHasWayBack, WatchdogQuiet
  <2> QED
    BY <2>1, <2>2, <2>3 DEF AgentInd
<1>9. ASSUME CliReload
      PROVE  AgentInd'
  <2>1. /\ UNCHANGED <<policy, etag, whitelist, conf, confHash, checkpoints, current,
                        newEtag, pc>>
        /\ UNCHANGED <<marker, backup, ppc, closers, wpc, failCount>>
        /\ cli' = "disabled" /\ loaded' \in {conf, Down}
    BY <1>9 DEF CliReload, ReadConf, serverVars, fileVars, checkpointVars, localVars, portalVars,
                watchdogVars
  <2> QED
    BY <1>0, <2>1, OnlyDaemons
<1>10. ASSUME CliEnable
       PROVE  AgentInd'
  <2>1. /\ UNCHANGED <<policy, etag, whitelist, conf, confHash, loaded, checkpoints, current,
                        newEtag, marker, backup, ppc, closers, wpc, failCount>>
        /\ cli' = "enabling" /\ pc' = "preflight" /\ ppc = "idle"
    BY <1>10 DEF CliEnable, Start, LockFree, serverVars, fileVars, dnsVars, checkpointVars,
                 localVars, portalVars, watchdogVars
  <2>2. AgentTypeOK'
    BY <2>1 DEF AgentInd, AgentTypeOK, Labels
  <2>3. (RunOK /\ PortalStepsOK /\ PortalHasWayBack /\ WatchdogQuiet)'
    BY <2>1 DEF AgentInd, RunOK, PortalStepsOK, PortalHasWayBack, WatchdogQuiet, Applying,
                Generated
  <2> QED
    BY <2>1, <2>2, <2>3 DEF AgentInd
<1>11. ASSUME CliRestart
       PROVE  AgentInd'
  <2>1. /\ UNCHANGED <<policy, etag, whitelist, conf, confHash, checkpoints, current,
                        newEtag, pc>>
        /\ UNCHANGED <<marker, backup, ppc, closers, wpc, failCount>>
        /\ cli' \in {"none", cli} /\ loaded' = conf
    BY <1>11 DEF CliRestart, CommandRestart, ReadConf, serverVars, fileVars, checkpointVars,
                 localVars, portalVars, watchdogVars
  <2> QED
    BY <1>0, <2>1, OnlyDaemons
<1>12. ASSUME World
       PROVE  AgentInd'
  <2>1. UNCHANGED <<marker, backup, ppc, closers, wpc, failCount, cli>>
    BY <1>12 DEF World, agentVars, portalVars, watchdogVars
  <2>2. policy' \in Policies
    BY <1>0, <1>12 DEF World, Hour, DnsmasqDies, ServerChange, serverVars
  <2>3. /\ UNCHANGED <<etag, whitelist, conf, confHash, checkpoints, current, newEtag, pc>>
        /\ loaded' \in {loaded, Down}
    BY <1>12 DEF World, Hour, DnsmasqDies, ServerChange, fileVars, dnsVars, checkpointVars,
                 localVars
  <2> QED
    BY <1>0, <2>1, <2>2, <2>3, OnlyDaemons
<1> QED
  BY <1>3, <1>4, <1>5, <1>6, <1>7, <1>8, <1>9, <1>10, <1>11, <1>12 DEF Watchdog, Cli

(***************************************************************************)
(* Whatever update runs, a second closer and "openpath disable" do between *)
(* entry and exit, the passthrough configuration of a portal is never on   *)
(* disk without the marker that gives it a deadline and the backup that    *)
(* leads back (enter_portal_mode_locked and exit_portal_mode_locked of     *)
(* captive-portal.sh), and no process leaves a file with a content the     *)
(* others cannot work with.                                                *)
(***************************************************************************)
THEOREM PortalsHaveAWayBack ==
  ASSUME Actors \subseteq {"portal", "cli"}
  PROVE  AgentSpec => []PortalInv
<1>1. AgentInit => AgentInd
  <2> SUFFICES ASSUME AgentInit PROVE AgentInd
    OBVIOUS
  <2>1. 0 \in 0..MaxCheckpoints-1
    BY BoundsAssumption
  <2>2. NoFiles \in [whitelist : Contents, conf : AgentConfigs]
    BY DEF NoFiles, Contents, AgentConfigs
  <2>3. checkpoints \in [0..MaxCheckpoints-1 -> [whitelist : Contents, conf : AgentConfigs]]
    BY <2>2 DEF AgentInit, Init
  <2>4. 0 \in 0..MaxFails
    BY ActorsAssumption
  <2>5. AgentTypeOK
    BY <2>3, <2>4, Names, AgentNames
       DEF AgentInit, Init, AgentTypeOK, Contents, Configs, AgentConfigs, Labels
  <2> QED
    BY <2>1, <2>5, AgentNames
       DEF AgentInit, Init, AgentInd, RunOK, PortalStepsOK, PortalHasWayBack,
           WatchdogQuiet, Applying, Generated
<1>2. AgentInd /\ AgentNext => AgentInd'
  BY UpdateStepOK, PortalStepOK, OtherStepOK DEF AgentNext
<1>3. ASSUME AgentInd, UNCHANGED allVars
      PROVE  AgentInd'
  <2>1. UNCHANGED <<policy, etag, whitelist, conf, confHash, loaded, checkpoints, current,
                    newEtag, pc>>
    BY <1>3, SameFiles DEF allVars
  <2>2. UNCHANGED <<marker, backup, ppc, closers, wpc, failCount, cli>>
    BY <1>3 DEF allVars, agentVars, portalVars, watchdogVars
  <2>3. /\ policy \in Policies /\ closers \subseteq {"detector", "watchdog"}
        /\ cli \in {"none", "disabling", "disabled", "enabling"}
    BY <1>3 DEF AgentInd, AgentTypeOK
  <2> QED
    BY <1>3, <2>1, <2>2, <2>3, OnlyDaemons
<1>4. AgentInd => PortalInv
  BY DEF AgentInd, PortalInv
<1> QED
  BY <1>1, <1>2, <1>3, <1>4, PTL DEF AgentSpec
=============================================================================
