----------------------------- MODULE LinuxAgent -----------------------------
(***************************************************************************)
(* The processes of the Linux agent that share the files, the dnsmasq and  *)
(* the firewall of LinuxUpdate with the update run:                        *)
(*                                                                         *)
(*   portal    captive-portal-detector.sh, which switches dnsmasq to a     *)
(*             passthrough configuration while the network asks for a      *)
(*             login and back (lib/captive-portal.sh, under the lock), and *)
(*             the watchdog, which closes an expired portal mode;          *)
(*   watchdog  dnsmasq-watchdog.sh, which restarts dnsmasq, rolls back to  *)
(*             a checkpoint (lib/rollback.sh) and enters protected mode,   *)
(*             all of it without the lock;                                 *)
(*   cli       "openpath disable", "enable" and "restart" (lib/            *)
(*             runtime-cli-system.sh), the first and the last without the  *)
(*             lock;                                                       *)
(*   crash     a killed update run (the unit's start timeout, the control  *)
(*             group of the SSE listener) and a reboot.                    *)
(*                                                                         *)
(* Which of them a behaviour contains is the constant Actors.              *)
(***************************************************************************)
EXTENDS LinuxUpdate

CONSTANTS
  Actors,     \* the processes besides update run, API and clock
  MaxFails,   \* MAX_CONSECUTIVE_FAILS
  MaxPortals  \* bound: portal modes entered

ASSUME ActorsAssumption ==
  /\ Actors \subseteq {"portal", "watchdog", "cli", "crash"}
  /\ MaxFails \in Nat \ {0} /\ MaxPortals \in Nat

VARIABLES
  marker,         \* does CAPTIVE_PORTAL_STATE_FILE exist?
  backup,         \* CAPTIVE_DNSMASQ_BACKUP_FILE
  ppc,            \* the next step of entering or leaving portal mode
  closers,        \* who has found a portal mode to close and waits for the lock
  portals,        \* portal modes entered so far
  wpc,            \* the next step of the watchdog run
  failCount,      \* FAIL_COUNT_FILE
  protectedFlag,  \* WATCHDOG_PROTECTED_FLAG
  cli             \* none, disabling, disabled, enabling

portalVars == <<marker, backup, ppc, closers, portals>>
watchdogVars == <<wpc, failCount, protectedFlag>>
agentVars == <<portalVars, watchdogVars, cli>>
allVars == <<vars, agentVars>>

AgentInit ==
  /\ Init
  /\ marker = FALSE /\ backup = None /\ ppc = "idle" /\ closers = {} /\ portals = 0
  /\ wpc = "idle" /\ failCount = 0 /\ protectedFlag = FALSE
  /\ cli = "none"

\* openpath_lock_acquire and with_openpath_lock: one holder at a time.
LockFree == pc = "idle" /\ ppc = "idle"

\* The timer or the SSE listener, which "openpath disable" leaves running.
AgentStart ==
  /\ LockFree
  /\ Start
  /\ cli' = IF cli = "enabling" THEN "none" ELSE cli
  /\ UNCHANGED <<portalVars, watchdogVars>>

AgentRun ==
  (Preflight \/ Download \/ Plan \/ Emergency \/ Mode \/ Apply) /\ UNCHANGED agentVars

AgentUpdate == AgentStart \/ AgentRun

-----------------------------------------------------------------------------
(***************************************************************************)
(* Captive portal: enter_portal_mode_locked                                *)
(***************************************************************************)
PortalEnter ==
  /\ "portal" \in Actors
  /\ LockFree
  /\ ~marker /\ portals < MaxPortals
  /\ portals' = portals + 1
  /\ backup' = conf
  /\ conf' = Portal
  /\ ppc' = "enter restart"
  /\ UNCHANGED <<serverVars, fileVars, confHash, loaded, unhashed, firewall,
                 disabledFlag, checkpointVars, pc, localVars, faults, marker, closers,
                 watchdogVars, cli>>

\* restart_dnsmasq; when it fails the backup is put back and tried.
PortalEnterRestart ==
  /\ ppc = "enter restart"
  /\ \/ loaded' = conf /\ UNCHANGED <<conf, faults>>
     \/ Fault /\ conf' = backup /\ loaded' \in {backup, loaded, Down}
  /\ ppc' = "enter open"
  /\ UNCHANGED <<serverVars, fileVars, confHash, unhashed, firewall, disabledFlag,
                 checkpointVars, pc, localVars, marker, backup, closers, portals,
                 watchdogVars, cli>>

\* deactivate_firewall, and the marker last.
PortalEnterOpen ==
  /\ ppc = "enter open"
  /\ firewall' = FALSE
  /\ marker' = TRUE
  /\ ppc' = "idle"
  /\ UNCHANGED <<serverVars, fileVars, dnsVars, disabledFlag, checkpointVars, pc,
                 localVars, faults, backup, closers, portals, watchdogVars, cli>>

(***************************************************************************)
(* Captive portal: exit_portal_mode_locked.  Detector and watchdog look at *)
(* the marker before they wait for the lock, not after.                    *)
(***************************************************************************)
PortalDecideClose(who) ==
  /\ marker /\ who \notin closers
  /\ closers' = closers \cup {who}
  /\ UNCHANGED <<vars, marker, backup, ppc, portals, watchdogVars, cli>>

\* Mutant: the passthrough configuration is left for the next update run.
PortalExitKeep(who) ==
  /\ who \in closers /\ LockFree
  /\ closers' = closers \ {who}
  /\ ppc' = "exit close"
  /\ UNCHANGED <<vars, marker, backup, portals, watchdogVars, cli>>

PortalExit(who) ==
  /\ who \in closers /\ LockFree
  /\ closers' = closers \ {who}
  /\ \/ /\ conf = Portal /\ backup # None
        /\ conf' = backup /\ ppc' = "exit restart"
     \/ /\ conf # Portal \/ backup = None
        /\ ppc' = "exit close" /\ UNCHANGED conf
  /\ UNCHANGED <<serverVars, fileVars, confHash, loaded, unhashed, firewall, disabledFlag,
                 checkpointVars, pc, localVars, faults, marker, backup, portals,
                 watchdogVars, cli>>

PortalExitRestart ==
  /\ ppc = "exit restart"
  /\ \/ loaded' = conf /\ UNCHANGED faults
     \/ Fault /\ loaded' \in {loaded, Down}
  /\ ppc' = "exit close"
  /\ UNCHANGED <<serverVars, fileVars, conf, confHash, unhashed, firewall, disabledFlag,
                 checkpointVars, pc, localVars, marker, backup, closers, portals,
                 watchdogVars, cli>>

\* activate_firewall whatever the machine's policy is.
PortalExitClose ==
  /\ ppc = "exit close"
  /\ backup' = None /\ marker' = FALSE
  /\ \/ firewall' = TRUE /\ UNCHANGED faults
     \/ Fault /\ UNCHANGED firewall
  /\ ppc' = "idle"
  /\ UNCHANGED <<serverVars, fileVars, dnsVars, disabledFlag, checkpointVars, pc,
                 localVars, closers, portals, watchdogVars, cli>>

PortalOpening == PortalEnter \/ PortalEnterRestart \/ PortalEnterOpen

PortalClosing ==
  \/ \E who \in {"detector", "watchdog"} : PortalDecideClose(who) \/ PortalExit(who)
  \/ PortalExitRestart \/ PortalExitClose

-----------------------------------------------------------------------------
(***************************************************************************)
(* dnsmasq-watchdog.sh                                                     *)
(***************************************************************************)
Recovered == failCount' = 0 /\ protectedFlag' = FALSE

WatchdogHealthy ==
  /\ wpc = "idle" /\ failCount < MaxFails /\ loaded # Down
  /\ failCount # 0 \/ protectedFlag
  /\ Recovered
  /\ UNCHANGED <<vars, portalVars, wpc, cli>>

WatchdogRecover ==
  /\ wpc = "idle" /\ failCount < MaxFails /\ loaded = Down
  /\ \/ ReadConf /\ Recovered /\ UNCHANGED faults
     \/ /\ "watchdog" \in Actors /\ Fault
        /\ failCount' = failCount + 1
        /\ UNCHANGED <<loaded, unhashed, protectedFlag>>
  /\ UNCHANGED <<serverVars, fileVars, conf, confHash, firewall, disabledFlag,
                 checkpointVars, pc, localVars, portalVars, wpc, cli>>

PreviousCheckpoint == checkpoints[(current + MaxCheckpoints - 1) % MaxCheckpoints]

\* restore_checkpoint: dnsmasq stopped, the files copied back with their times.
\* DNSMASQ_CONF_HASH and WHITELIST_FILE.etag are not among them.
RollbackFiles ==
  /\ wpc = "idle" /\ failCount >= MaxFails
  /\ PreviousCheckpoint # NoFiles
  /\ loaded' = Down
  /\ whitelist' = PreviousCheckpoint.whitelist
  /\ conf' = PreviousCheckpoint.conf
  /\ age' \in age..MaxAge
  /\ wpc' = "rollback start"
  /\ UNCHANGED <<serverVars, etag, etagLost, confHash, unhashed, firewall, disabledFlag,
                 checkpointVars, pc, localVars, faults, portalVars, failCount,
                 protectedFlag, cli>>

RollbackStart ==
  /\ wpc = "rollback start"
  /\ \/ ReadConf /\ UNCHANGED faults
     \/ Fault /\ UNCHANGED <<loaded, unhashed>>
  /\ wpc' = "rollback check"
  /\ UNCHANGED <<serverVars, fileVars, conf, confHash, firewall, disabledFlag,
                 checkpointVars, pc, localVars, portalVars, failCount,
                 protectedFlag, cli>>

\* validate_restored_checkpoint: dnsmasq answers and the rules are in place.
RollbackCheck ==
  /\ wpc = "rollback check"
  /\ \/ ProbeResolves /\ firewall /\ Recovered /\ wpc' = "idle" /\ UNCHANGED faults
     \/ /\ ~(ProbeResolves /\ firewall)
        /\ wpc' = "protect" /\ UNCHANGED <<failCount, protectedFlag, faults>>
     \/ Fault /\ wpc' = "protect" /\ UNCHANGED <<failCount, protectedFlag>>
  /\ UNCHANGED <<serverVars, fileVars, dnsVars, firewall, disabledFlag,
                 checkpointVars, pc, localVars, portalVars, cli>>

RollbackNone ==
  /\ wpc = "idle" /\ failCount >= MaxFails
  /\ PreviousCheckpoint = NoFiles
  /\ wpc' = "protect"
  /\ UNCHANGED <<vars, portalVars, failCount, protectedFlag, cli>>

\* enter_protected_mode: the firewall and the fail count stay as they are.
ProtectWrite ==
  /\ wpc = "protect"
  /\ conf' = Protected
  /\ wpc' = "protect restart"
  /\ UNCHANGED <<serverVars, fileVars, confHash, loaded, unhashed, firewall, disabledFlag,
                 checkpointVars, pc, localVars, faults, portalVars, failCount,
                 protectedFlag, cli>>

\* Mutant: protected mode is only written to disk.
ProtectFlag ==
  /\ wpc = "protect restart"
  /\ protectedFlag' = TRUE
  /\ wpc' = "idle"
  /\ UNCHANGED <<vars, portalVars, failCount, cli>>

ProtectRestart ==
  /\ wpc = "protect restart"
  /\ \/ ReadConf /\ UNCHANGED faults
     \/ Fault /\ loaded' = Down /\ UNCHANGED unhashed
  /\ protectedFlag' = TRUE
  /\ wpc' = "idle"
  /\ UNCHANGED <<serverVars, fileVars, conf, confHash, firewall, disabledFlag,
                 checkpointVars, pc, localVars, portalVars, failCount, cli>>

Watchdog ==
  \/ WatchdogHealthy \/ WatchdogRecover
  \/ RollbackFiles \/ RollbackStart \/ RollbackCheck \/ RollbackNone
  \/ ProtectWrite \/ ProtectRestart

-----------------------------------------------------------------------------
(***************************************************************************)
(* openpath disable: the timers of update run and watchdog are stopped,    *)
(* then apply_passthrough_system_mode with the hashes kept.  The SSE       *)
(* listener and the portal detector stay.                                  *)
(***************************************************************************)
CliDisable ==
  /\ "cli" \in Actors
  /\ cli = "none" /\ Fault
  /\ firewall' = FALSE
  /\ conf' = Passthrough
  /\ cli' = "disabling"
  /\ UNCHANGED <<serverVars, fileVars, confHash, loaded, unhashed, disabledFlag,
                 checkpointVars, pc, localVars, portalVars, watchdogVars>>

CliReload ==
  /\ cli = "disabling"
  /\ \/ ReadConf /\ UNCHANGED faults
     \/ Fault /\ loaded' = Down /\ UNCHANGED unhashed
  /\ cli' = "disabled"
  /\ UNCHANGED <<serverVars, fileVars, conf, confHash, firewall, disabledFlag,
                 checkpointVars, pc, localVars, portalVars, watchdogVars>>

\* openpath enable: the timers are started, and an update run.
CliEnable ==
  /\ cli = "disabled"
  /\ LockFree
  /\ Start
  /\ cli' = "enabling"
  /\ UNCHANGED <<portalVars, watchdogVars>>

\* openpath restart: dnsmasq, and the timers, also those that were stopped.
CliRestart ==
  /\ "cli" \in Actors
  /\ cli # "disabling"
  /\ CommandRestart
  /\ cli' = IF cli = "disabled" THEN "none" ELSE cli
  /\ UNCHANGED <<portalVars, watchdogVars>>

Cli == CliDisable \/ CliReload \/ CliEnable \/ CliRestart

\* Do the timers of update run and watchdog run?
TimersOn == cli \in {"none", "enabling"}

-----------------------------------------------------------------------------
(***************************************************************************)
(* A killed update run releases the lock where it stands; a reboot loses   *)
(* all processes and restores the saved rules.                             *)
(***************************************************************************)
KillUpdate ==
  /\ "crash" \in Actors
  /\ pc # "idle" /\ Fault
  /\ pc' = "idle"
  /\ UNCHANGED <<serverVars, fileVars, dnsVars, firewall, disabledFlag,
                 checkpointVars, localVars, agentVars>>

Reboot ==
  /\ "crash" \in Actors
  /\ Fault
  /\ pc' = "idle" /\ ppc' = "idle" /\ wpc' = "idle" /\ closers' = {} /\ cli' = "none"
  /\ ReadConf
  /\ UNCHANGED <<serverVars, fileVars, conf, confHash, firewall, disabledFlag,
                 checkpointVars, localVars, marker, backup, portals, failCount,
                 protectedFlag>>

World ==
  (Hour \/ DnsmasqDies \/ \E p \in Policies : ServerChange(p)) /\ UNCHANGED agentVars

AgentNext ==
  AgentUpdate \/ PortalOpening \/ PortalClosing \/ Watchdog \/ Cli \/ KillUpdate
    \/ Reboot \/ World

AgentSpec == AgentInit /\ [][AgentNext]_allVars

(***************************************************************************)
(* Every process that has begun goes on.  While the timers run they start  *)
(* an update run and a watchdog run for ever, and a portal mode is left in *)
(* the end because the watchdog finds its marker expired.  Nothing forces  *)
(* a portal, a failure or a command of the user to happen, and no timer    *)
(* starts anything on a machine that was disabled.                         *)
(***************************************************************************)
FairAgentSpec ==
  /\ AgentSpec
  /\ WF_allVars(AgentRun)
  /\ WF_allVars(TimersOn /\ AgentStart)
  /\ WF_allVars(PortalEnterRestart \/ PortalEnterOpen \/ PortalExitRestart \/ PortalExitClose)
  /\ \A who \in {"detector", "watchdog"} : WF_allVars(PortalExit(who))
  /\ WF_allVars(TimersOn /\ PortalDecideClose("watchdog"))
  /\ WF_allVars((TimersOn \/ wpc # "idle") /\ Watchdog)
  /\ WF_allVars(CliReload)

-----------------------------------------------------------------------------
AgentConfigs == Groups \cup {Passthrough, FailSafe, None, Portal, Protected}

AgentTypeOK ==
  /\ policy \in Policies /\ etag \in Policies \cup {None}
  /\ whitelist \in Contents
  /\ conf \in AgentConfigs \ {None} /\ confHash \in Configs
  /\ loaded \in AgentConfigs \cup {Down}
  /\ checkpoints \in [0..MaxCheckpoints-1 -> [whitelist : Contents, conf : AgentConfigs]]
  /\ pc \in Labels
  /\ marker \in BOOLEAN /\ backup \in AgentConfigs \ {Portal}
  /\ ppc \in {"idle", "enter restart", "enter open", "exit restart", "exit close"}
  /\ closers \subseteq {"detector", "watchdog"}
  /\ wpc \in {"idle", "rollback start", "rollback check", "protect", "protect restart"}
  /\ failCount \in 0..MaxFails
  /\ cli \in {"none", "disabling", "disabled", "enabling"}

(***************************************************************************)
(* While no process is killed, the passthrough configuration of a portal   *)
(* is never on disk without the marker that gives it a deadline and the    *)
(* backup that leads back, although update runs, a second closer and       *)
(* "openpath disable" come in between.                                     *)
(***************************************************************************)
PortalHasWayBack ==
  conf = Portal /\ ppc = "idle" => marker /\ backup \notin {None, Portal}

\* The way back from a portal, with the types it rests on: whoever changes files,
\* daemon or firewall outside the update run leaves values it can work with.
PortalInv == AgentTypeOK /\ PortalHasWayBack


(***************************************************************************)
(* dnsmasq is brought back for ever, by a restart, by a rollback or by     *)
(* protected mode, even after the restarts have failed MaxFails times.     *)
(***************************************************************************)
DnsmasqComesBack == []<>(loaded # Down)

(***************************************************************************)
(* The watchdog's comment on expired portal modes: passthrough does not    *)
(* outlive the marker. TLC refutes it with the portal among the Actors:    *)
(* an update run between entry and exit rewrites the file, does not        *)
(* reload (the hash is equal), and the exit has nothing to restore.        *)
(***************************************************************************)
PortalEnds == ~marker /\ ppc = "idle" => loaded # Portal

(***************************************************************************)
(* The comment of cmd_enable: the update run it starts restores            *)
(* enforcement. TLC refutes it with the cli among the Actors: the hash     *)
(* that "openpath disable" kept lets the run skip the reload.              *)
(***************************************************************************)
EnableRestoresEnforcement == cli = "enabling" /\ pc = "verify" => loaded = whitelist

(***************************************************************************)
(* ADR 0011: recovery from protected mode is automatic, because the next   *)
(* update run regenerates the configuration of the machine's group. TLC    *)
(* refutes it with the watchdog among the Actors, by the same hash.        *)
(***************************************************************************)
ProtectedIsLeft == <>[](policy \in Groups) => <>[](loaded # Protected)
=============================================================================
