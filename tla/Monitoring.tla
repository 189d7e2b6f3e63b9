----------------------------- MODULE Monitoring -----------------------------
(***************************************************************************)
(* The daemon's watchdogs: MonitoringActor and HealthCheckActor, the       *)
(* messages the SyncMachine sends them on its way through its states, the  *)
(* delay before it reconnects, and the end and restart of the process      *)
(* (packages/daemon/src/actors, machines/SyncMachine.ts, index.ts).        *)
(*                                                                         *)
(* The machine is seen from the actors: SyncMachine.tla models what its    *)
(* states do.  "handling" stands for every state whose service works on an *)
(* event; a chain of handlers leaves and enters it at each link.  A        *)
(* message to an actor is delivered before the sender's next action.       *)
(*                                                                         *)
(* Time is discrete and never reaches a bound: a timer is the time left    *)
(* (Off when there is none) and a timestamp its age, kept up to the age    *)
(* from which the code no longer tells it from an older one.  Time waits   *)
(* for timers that are due, as Node's event loop does when nothing blocks  *)
(* it.                                                                     *)
(***************************************************************************)
EXTENDS Integers, FiniteSets

CONSTANTS
  IdleTimeout,         \* IDLE_EVENT_TIMEOUT_MS
  StuckTimeout,        \* STUCK_PROCESSING_TIMEOUT_MS
  StormThreshold,      \* RECONNECTION_STORM_THRESHOLD
  StormWindow,         \* RECONNECTION_STORM_WINDOW_MS
  StormCooldown,       \* STORM_ALERT_COOLDOWN_MS
  ValidationInterval,  \* BALANCE_VALIDATION_INTERVAL_MS
  MaxBackoff,          \* MAX_BACKOFF_RETRIES
  MaxAlerts            \* bound on the idle alerts being sent at once

ASSUME MonitoringAssumption ==
  /\ IdleTimeout \in Nat \ {0, 1}
  /\ {StuckTimeout, StormThreshold, StormWindow, StormCooldown,
      ValidationInterval, MaxBackoff, MaxAlerts} \subseteq Nat \ {0}

VARIABLES
  state,    \* of the machine
  retry,    \* context.retryAttempt, counted up to MaxBackoff
  backoff,  \* time left in RECONNECTING
  monitor,  \* the variables of the MonitoringActor
  pinging,  \* whether the HealthCheckActor's pingTimer runs
  alerts,   \* idle alerts being sent: MONITORING_IDLE_TIMEOUT follows each
  silent,   \* history: time since the connection or the last event, the later
  heard     \* history: time since a storm alert was raised

vars == <<state, retry, backoff, monitor, pinging, alerts, silent, heard>>

Lower(a, b) == IF a < b THEN a ELSE b

Off == -1
Fired == -2  \* a one-shot timer that went off and was not cleared

-----------------------------------------------------------------------------
(* Data                                                                    *)

(* States wrapped in monitoredState.                                       *)
Monitored == {"handling", "checkingForMissedEvents"}
Connected == Monitored \cup {"idle"}
States == Connected \cup {"INITIALIZING", "CONNECTING", "RECONNECTING", "ERROR"}

(* The interval between two idle checks.                                   *)
Half == IdleTimeout \div 2

SilentMax == IdleTimeout + Half

Started == [isConnected |-> FALSE, quiet |-> 0, idleCheck |-> Off,
            idleAlertFired |-> FALSE, stuck |-> Off, reconnections |-> {},
            stormAlert |-> StormCooldown, validation |-> Off,
            isValidating |-> FALSE, queries |-> 0]

Monitor == [isConnected: BOOLEAN,
            quiet: 0..IdleTimeout,              \* age of lastEventReceivedAt
            idleCheck: 0..Half \cup {Off},      \* idleCheckTimer
            idleAlertFired: BOOLEAN,
            stuck: 0..StuckTimeout \cup {Off, Fired},  \* stuckTimer
            reconnections: SUBSET (0..StormWindow + 1),
            stormAlert: 0..StormCooldown,       \* age of stormAlertLastFiredAt
            validation: 0..ValidationInterval \cup {Off},
            isValidating: BOOLEAN,
            queries: Nat]                       \* validation queries running

TypeOK ==
  /\ state \in States
  /\ retry \in 0..MaxBackoff
  /\ backoff \in 0..MaxBackoff
  /\ monitor \in Monitor
  /\ pinging \in BOOLEAN
  /\ alerts \in 0..MaxAlerts
  /\ silent \in 0..SilentMax
  /\ heard \in 0..StormCooldown + StormWindow

-----------------------------------------------------------------------------
(* MonitoringActor: what a message does to it                              *)

(* A mutant: a new connection does not clear idleAlertFired.               *)
IdleCheckKeepsAlert(m) == [m EXCEPT !.quiet = 0, !.idleCheck = Half]

startIdleCheck(m) ==
  [m EXCEPT !.quiet = 0, !.idleAlertFired = FALSE, !.idleCheck = Half]

startBalanceValidation(m) == [m EXCEPT !.validation = ValidationInterval]

connected(m) ==
  startBalanceValidation(startIdleCheck([m EXCEPT !.isConnected = TRUE]))

disconnected(m) ==
  [m EXCEPT !.isConnected = FALSE, !.idleCheck = Off, !.stuck = Off,
            !.validation = Off]

eventReceived(m) == [m EXCEPT !.quiet = 0, !.idleAlertFired = FALSE]
processingStarted(m) == [m EXCEPT !.stuck = StuckTimeout]
processingCompleted(m) == [m EXCEPT !.stuck = Off]

(* The reconnections of the window that ends now, this one included.       *)
InWindow(m) == {a \in m.reconnections : a <= StormWindow} \cup {0}

Storm(m) == Cardinality(InWindow(m)) >= StormThreshold

(* trackReconnection raises an alert.                                      *)
raisesStorm(m) == Storm(m) /\ m.stormAlert >= StormCooldown

(* A mutant: an alert held back starts the cooldown again.                 *)
TrackDebounced(m) ==
  [m EXCEPT !.reconnections = InWindow(m),
            !.stormAlert = IF Storm(m) THEN 0 ELSE @]

trackReconnection(m) ==
  [m EXCEPT !.reconnections = InWindow(m),
            !.stormAlert = IF raisesStorm(m) THEN 0 ELSE @]

-----------------------------------------------------------------------------
(* What the machine's transitions send                                     *)

(* A mutant: leaving a monitored state sends nothing.                      *)
LeftSilently(m) == m

(* Leaving the state: monitoredState's exit action.                        *)
left(m) == IF state \in Monitored THEN processingCompleted(m) ELSE m

(* HealthCheckActor: START and STOP.                                       *)
createPingTimer == pinging' = TRUE
clearPingTimer == pinging' = FALSE

BACKOFF_DELAYED_RECONNECT == Lower(retry + 1, MaxBackoff)

(* Entering RECONNECTING from any state that had or wanted a connection.   *)
Leave ==
  /\ state' = "RECONNECTING"
  /\ retry' = Lower(retry + 1, MaxBackoff)
  /\ backoff' = BACKOFF_DELAYED_RECONNECT
  /\ clearPingTimer
  /\ monitor' = disconnected(trackReconnection(left(monitor)))
  /\ heard' = IF raisesStorm(monitor) THEN 0 ELSE heard
  /\ UNCHANGED <<alerts, silent>>

(* Entering ERROR.                                                         *)
Stop ==
  /\ state' = "ERROR"
  /\ clearPingTimer
  /\ monitor' = disconnected(left(monitor))
  /\ UNCHANGED <<retry, backoff, silent, heard>>

Init ==
  /\ state = "INITIALIZING"
  /\ retry = 0
  /\ backoff = 0
  /\ monitor = Started
  /\ pinging = FALSE
  /\ alerts = 0
  /\ silent = 0
  /\ heard = StormCooldown + StormWindow

Initialize ==
  /\ state = "INITIALIZING"
  /\ state' = "CONNECTING"
  /\ UNCHANGED <<retry, backoff, monitor, pinging, alerts, silent, heard>>

Connect ==
  /\ state = "CONNECTING"
  /\ state' = "idle"
  /\ createPingTimer
  /\ monitor' = connected(monitor)
  /\ silent' = 0
  /\ UNCHANGED <<retry, backoff, alerts, heard>>

(* websocketDisconnected, or checkForMissedEvents found new events.        *)
Disconnect == state \in Connected \cup {"CONNECTING"} /\ Leave

Reconnect ==
  /\ state = "RECONNECTING"
  /\ backoff = 0
  /\ state' = "CONNECTING"
  /\ UNCHANGED <<retry, backoff, monitor, pinging, alerts, silent, heard>>

(* An event the guards acknowledge without a handler.                      *)
Ignore ==
  /\ state = "idle"
  /\ monitor' = eventReceived(monitor)
  /\ silent' = 0
  /\ UNCHANGED <<state, retry, backoff, pinging, alerts, heard>>

Handle ==
  /\ state = "idle"
  /\ state' = "handling"
  /\ monitor' = processingStarted(eventReceived(monitor))
  /\ silent' = 0
  /\ UNCHANGED <<retry, backoff, pinging, alerts, heard>>

(* From one handler of an event to the next.                               *)
NextHandler ==
  /\ state = "handling"
  /\ monitor' = processingStarted(left(monitor))
  /\ UNCHANGED <<state, retry, backoff, pinging, alerts, silent, heard>>

AckTimeout ==
  /\ state = "idle"
  /\ state' = "checkingForMissedEvents"
  /\ monitor' = processingStarted(monitor)
  /\ UNCHANGED <<retry, backoff, pinging, alerts, silent, heard>>

(* The handler ended, or nothing was missed.                               *)
Finish ==
  /\ state \in Monitored
  /\ state' = "idle"
  /\ monitor' = left(monitor)
  /\ UNCHANGED <<retry, backoff, pinging, alerts, silent, heard>>

(* A service rejected, or the event is of another stream, peer or network. *)
Fail == state \in Connected \cup {"INITIALIZING"} /\ Stop /\ UNCHANGED alerts

(* main: onDone ends the process; the orchestrator starts another.         *)
Restart ==
  /\ state = "ERROR"
  /\ state' = "INITIALIZING"
  /\ retry' = 0 /\ backoff' = 0
  /\ monitor' = Started
  /\ clearPingTimer
  /\ alerts' = 0
  /\ silent' = 0
  /\ heard' = StormCooldown + StormWindow

-----------------------------------------------------------------------------
(* Timers                                                                  *)

FindsIdle == monitor.isConnected /\ monitor.quiet >= IdleTimeout
             /\ ~monitor.idleAlertFired

IdleCheck ==
  /\ monitor.idleCheck = 0
  /\ FindsIdle => alerts < MaxAlerts
  /\ monitor' = [monitor EXCEPT !.idleCheck = Half,
                                !.idleAlertFired = @ \/ FindsIdle]
  /\ alerts' = IF FindsIdle THEN alerts + 1 ELSE alerts
  /\ UNCHANGED <<state, retry, backoff, pinging, silent, heard>>

(* The alert was sent, or was not: addAlert settles and the machine is     *)
(* told, which listens only while it is connected.                         *)
IdleTimeoutEnds ==
  /\ alerts > 0
  /\ state \in Connected
  /\ alerts' = alerts - 1
  /\ Stop

IdleTimeoutIgnored ==
  /\ alerts > 0
  /\ state \notin Connected
  /\ alerts' = alerts - 1
  /\ UNCHANGED <<state, retry, backoff, monitor, pinging, silent, heard>>

StuckAlert ==
  /\ monitor.stuck = 0
  /\ monitor' = [monitor EXCEPT !.stuck = Fired]
  /\ UNCHANGED <<state, retry, backoff, pinging, alerts, silent, heard>>

runBalanceValidation ==
  /\ monitor.validation = 0
  /\ monitor' = [monitor EXCEPT !.validation = ValidationInterval,
                                !.isValidating = TRUE,
                                !.queries = IF monitor.isValidating THEN @ ELSE @ + 1]
  /\ UNCHANGED <<state, retry, backoff, pinging, alerts, silent, heard>>

(* The query was answered or failed, and its connection was released.      *)
ValidationEnds ==
  /\ monitor.queries > 0
  /\ monitor' = [monitor EXCEPT !.isValidating = FALSE, !.queries = @ - 1]
  /\ UNCHANGED <<state, retry, backoff, pinging, alerts, silent, heard>>

Due == \/ 0 \in {monitor.idleCheck, monitor.stuck, monitor.validation}
       \/ state = "RECONNECTING" /\ backoff = 0

Less(left_) == IF left_ > 0 THEN left_ - 1 ELSE left_

Tick ==
  /\ state # "ERROR"
  /\ ~Due
  /\ backoff' = Less(backoff)
  /\ monitor' =
       [monitor EXCEPT
          !.quiet = Lower(@ + 1, IdleTimeout),
          !.idleCheck = Less(@), !.stuck = Less(@), !.validation = Less(@),
          !.reconnections = {Lower(a + 1, StormWindow + 1) : a \in @},
          !.stormAlert = Lower(@ + 1, StormCooldown)]
  /\ silent' = Lower(silent + 1, SilentMax)
  /\ heard' = Lower(heard + 1, StormCooldown + StormWindow)
  /\ UNCHANGED <<state, retry, pinging, alerts>>

-----------------------------------------------------------------------------
Machine == \/ Initialize \/ Connect \/ Disconnect \/ Reconnect \/ Ignore \/ Handle
           \/ NextHandler \/ AckTimeout \/ Finish \/ Fail \/ Restart

Timers == \/ IdleCheck \/ IdleTimeoutEnds \/ IdleTimeoutIgnored \/ StuckAlert
          \/ runBalanceValidation \/ ValidationEnds \/ Tick

Next == Machine \/ Timers

Spec == Init /\ [][Next]_vars

(* Timers go off, and alerts are sent or fail: nothing of this is up to    *)
(* the fullnode, MySQL or the handlers, which owe nothing here.            *)
FairSpec ==
  /\ Spec
  /\ WF_vars(Tick) /\ WF_vars(IdleCheck) /\ WF_vars(StuckAlert)
  /\ WF_vars(runBalanceValidation) /\ WF_vars(Reconnect)
  /\ WF_vars(IdleTimeoutEnds \/ IdleTimeoutIgnored)

-----------------------------------------------------------------------------
(* Properties                                                              *)

(* Across disconnections, chains of handlers and restarts of the schedules *)
(* the timers match the machine: the stuck timer runs, or went off, exactly *)
(* while a monitored state is active, the others exactly while connected.  *)
TimersFollowMachine ==
  /\ monitor.stuck # Off <=> state \in Monitored
  /\ monitor.idleCheck # Off <=> state \in Connected
  /\ monitor.validation # Off <=> state \in Connected
  /\ pinging <=> state \in Connected
  /\ monitor.isConnected <=> state \in Connected

(* A silent stream is noticed within one timeout and a half, whatever the  *)
(* phase of the checks: by then an alert is on its way.                    *)
IdleDetected == state \in Connected /\ silent >= SilentMax => alerts > 0

(* Two balance validations never run at once, reconnections included.      *)
OneValidation == monitor.queries <= 1

(* Once the window holds a storm, its last reconnection came less than a   *)
(* cooldown after an alert: alerts held back never hold back all of them.  *)
StormHeard ==
  LET last == CHOOSE a \in monitor.reconnections : \A b \in monitor.reconnections : a <= b
  IN  /\ monitor.reconnections # {} /\ last <= StormWindow
      /\ Cardinality({a \in monitor.reconnections : a <= StormWindow}) >= StormThreshold
      => heard - last < StormCooldown

(* The daemon is never connected for ever to a stream that went silent: it *)
(* receives an event, loses the connection or ends.                        *)
NeverSilentForEver == []<>(state \notin Connected \/ silent = 0)

(* "the machine keeps running so that a long-running handler (e.g. a large *)
(* reorg) is allowed to finish" (MonitoringActor.ts:28-29): the actor ends *)
(* the process under no running handler.                                   *)
HandlersFinish == [][IdleTimeoutEnds => state # "handling"]_vars
=============================================================================
