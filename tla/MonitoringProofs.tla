------------------------- MODULE MonitoringProofs -------------------------
(***************************************************************************)
(* For any timeouts, windows and thresholds: the watchdogs' timers match   *)
(* the machine, balances are validated once at a time, and a silent stream *)
(* is noticed within one timeout and a half.  The last needs three facts:  *)
(* the actor's clock is the silence itself (Clock), the next idle check    *)
(* comes before the bound as long as no alert was raised (NextCheck), and  *)
(* an alert raised in this connection is still on its way (AlertSent).     *)
(***************************************************************************)
EXTENDS Monitoring, FiniteSetTheorems, WellFoundedInduction, TLAPS

Clock == state \in Connected => monitor.quiet = Lower(silent, IdleTimeout)

NextCheck == state \in Connected /\ ~monitor.idleAlertFired =>
                 silent + monitor.idleCheck < SilentMax

AlertSent == state \in Connected /\ monitor.idleAlertFired => alerts > 0

\* The flag that keeps a second validation from starting is set while one runs.
FlagSet == OneValidation /\ (~monitor.isValidating => monitor.queries = 0)

Inv == TypeOK /\ TimersFollowMachine /\ FlagSet /\ Clock /\ NextCheck /\ AlertSent

USE MonitoringAssumption

LEMMA Constants ==
    /\ Half \in Nat \ {0} /\ Half <= IdleTimeout /\ SilentMax \in Nat
    /\ SilentMax = IdleTimeout + Half
    /\ IdleTimeout \in Nat /\ StuckTimeout \in Nat /\ StormWindow \in Nat
    /\ StormCooldown \in Nat /\ ValidationInterval \in Nat /\ MaxBackoff \in Nat
    /\ MaxAlerts \in Nat /\ StormThreshold \in Nat
    /\ 0 < IdleTimeout /\ 0 < StuckTimeout /\ 0 < ValidationInterval /\ 0 < MaxBackoff
    /\ 0 < StormCooldown
  BY DEF Half, SilentMax

LEMMA StartedTyped == Started \in Monitor
  <1>1. /\ 0 \in 0..IdleTimeout /\ StormCooldown \in 0..StormCooldown /\ 0 \in Nat
        /\ {} \in SUBSET (0..StormWindow + 1)
    BY Constants
  <1> QED BY <1>1 DEF Started, Monitor

LEMMA Zeros ==
    /\ 0 \in 0..MaxBackoff /\ 0 \in 0..MaxAlerts /\ 0 \in 0..SilentMax
    /\ StormCooldown + StormWindow \in 0..StormCooldown + StormWindow
  BY Constants

-----------------------------------------------------------------------------
(* What a message to the actor leaves of its record.                       *)

LEMMA StartIdleCheckFields ==
    ASSUME NEW m \in Monitor
    PROVE  /\ connected(m) \in Monitor
           /\ connected(m).isConnected /\ ~connected(m).idleAlertFired
           /\ connected(m).quiet = 0 /\ connected(m).idleCheck = Half
           /\ connected(m).stuck = m.stuck
           /\ connected(m).validation = ValidationInterval
           /\ connected(m).isValidating = m.isValidating
           /\ connected(m).queries = m.queries
           /\ connected(m).reconnections = m.reconnections
           /\ connected(m).stormAlert = m.stormAlert
  <1> DEFINE a == [m EXCEPT !.isConnected = TRUE]
             b == startIdleCheck(a)
  <1>1. /\ a \in Monitor /\ a.isConnected /\ a.stuck = m.stuck
        /\ a.isValidating = m.isValidating /\ a.queries = m.queries
        /\ a.reconnections = m.reconnections /\ a.stormAlert = m.stormAlert
    BY DEF Monitor
  <1> HIDE DEF a
  <1>2. 0 \in 0..IdleTimeout /\ Half \in (0..Half) \cup {Off}
        /\ ValidationInterval \in (0..ValidationInterval) \cup {Off}
    BY Constants
  <1>3. /\ b \in Monitor /\ b.isConnected /\ b.stuck = m.stuck
        /\ ~b.idleAlertFired /\ b.quiet = 0 /\ b.idleCheck = Half
        /\ b.isValidating = m.isValidating /\ b.queries = m.queries
        /\ b.reconnections = m.reconnections /\ b.stormAlert = m.stormAlert
    BY <1>1, <1>2 DEF Monitor, startIdleCheck
  <1> HIDE DEF b
  <1>4. connected(m) = startBalanceValidation(b)
    BY DEF connected, b, a
  <1> QED BY <1>2, <1>3, <1>4 DEF Monitor, startBalanceValidation

LEMMA DisconnectedFields ==
    ASSUME NEW m \in Monitor
    PROVE  /\ disconnected(m) \in Monitor
           /\ ~disconnected(m).isConnected
           /\ disconnected(m).idleCheck = Off /\ disconnected(m).stuck = Off
           /\ disconnected(m).validation = Off
           /\ disconnected(m).isValidating = m.isValidating
           /\ disconnected(m).queries = m.queries
           /\ disconnected(m).reconnections = m.reconnections
           /\ disconnected(m).stormAlert = m.stormAlert
  BY DEF Monitor, disconnected

LEMMA EventFields ==
    ASSUME NEW m \in Monitor
    PROVE  /\ eventReceived(m) \in Monitor
           /\ eventReceived(m).quiet = 0 /\ ~eventReceived(m).idleAlertFired
           /\ eventReceived(m).isConnected = m.isConnected
           /\ eventReceived(m).idleCheck = m.idleCheck
           /\ eventReceived(m).stuck = m.stuck
           /\ eventReceived(m).validation = m.validation
           /\ eventReceived(m).isValidating = m.isValidating
           /\ eventReceived(m).queries = m.queries
           /\ eventReceived(m).reconnections = m.reconnections
           /\ eventReceived(m).stormAlert = m.stormAlert
  <1>1. 0 \in 0..IdleTimeout
    BY Constants
  <1> QED BY <1>1 DEF Monitor, eventReceived

\* Two records that differ in the stuck timer only.
SameButStuck(n, m) ==
    /\ n.isConnected = m.isConnected /\ n.quiet = m.quiet
    /\ n.idleCheck = m.idleCheck /\ n.idleAlertFired = m.idleAlertFired
    /\ n.validation = m.validation /\ n.isValidating = m.isValidating
    /\ n.queries = m.queries /\ n.reconnections = m.reconnections
    /\ n.stormAlert = m.stormAlert

LEMMA StuckFields ==
    ASSUME NEW m \in Monitor
    PROVE  /\ processingStarted(m) \in Monitor /\ SameButStuck(processingStarted(m), m)
           /\ processingStarted(m).stuck = StuckTimeout
           /\ processingCompleted(m) \in Monitor /\ SameButStuck(processingCompleted(m), m)
           /\ processingCompleted(m).stuck = Off
  BY Constants DEF Monitor, processingStarted, processingCompleted, SameButStuck

LEMMA LeftFields ==
    ASSUME NEW m \in Monitor
    PROVE  /\ left(m) \in Monitor /\ SameButStuck(left(m), m)
           /\ state \in Monitored => left(m).stuck = Off
           /\ state \notin Monitored => left(m).stuck = m.stuck
  <1>1. CASE state \in Monitored
    BY <1>1, StuckFields DEF left
  <1>2. CASE state \notin Monitored
    BY <1>2 DEF left, SameButStuck
  <1> QED BY <1>1, <1>2

LEMMA TrackFields ==
    ASSUME NEW m \in Monitor
    PROVE  /\ trackReconnection(m) \in Monitor
           /\ trackReconnection(m).isValidating = m.isValidating
           /\ trackReconnection(m).queries = m.queries
           /\ trackReconnection(m).reconnections = InWindow(m)
           /\ trackReconnection(m).stormAlert =
                IF raisesStorm(m) THEN 0 ELSE m.stormAlert
  <1>1. InWindow(m) \in SUBSET (0..StormWindow + 1)
    BY Constants DEF InWindow, Monitor
  <1> DEFINE age == IF raisesStorm(m) THEN 0 ELSE m.stormAlert
  <1>2. age \in 0..StormCooldown
    BY Constants DEF Monitor
  <1>3. trackReconnection(m) = [[m EXCEPT !.reconnections = InWindow(m)]
                                  EXCEPT !.stormAlert = age]
    BY DEF trackReconnection, Monitor
  <1> HIDE DEF age
  <1>4. [m EXCEPT !.reconnections = InWindow(m)] \in Monitor
    BY <1>1 DEF Monitor
  <1>5. /\ trackReconnection(m) \in Monitor
        /\ trackReconnection(m).isValidating = m.isValidating
        /\ trackReconnection(m).queries = m.queries
        /\ trackReconnection(m).reconnections = InWindow(m)
        /\ trackReconnection(m).stormAlert = age
    BY <1>1, <1>2, <1>3, <1>4 DEF Monitor
  <1> QED BY <1>5 DEF age

-----------------------------------------------------------------------------
(* The inductive step.                                                     *)

LEMMA InitInv == Init => Inv
  <1> SUFFICES ASSUME Init PROVE Inv
    OBVIOUS
  <1> USE DEF Init
  <1>1. TypeOK
    BY StartedTyped, Zeros DEF TypeOK, States
  <1>2. TimersFollowMachine /\ FlagSet
    BY DEF TimersFollowMachine, FlagSet, OneValidation, Connected, Monitored, Started, Off
  <1>3. Clock /\ NextCheck /\ AlertSent
    BY Constants DEF Clock, NextCheck, AlertSent, Connected, Monitored
  <1> QED BY <1>1, <1>2, <1>3 DEF Inv

\* Where the machine is decides everything the parts of Inv ask of a record
\* that is disconnected.
LEMMA LeaveInv ==
    ASSUME Inv, Leave
    PROVE  Inv'
  <1> DEFINE n == trackReconnection(left(monitor))
  <1>1. left(monitor) \in Monitor /\ SameButStuck(left(monitor), monitor)
    BY LeftFields DEF Inv, TypeOK
  <1>2. /\ n \in Monitor
        /\ n.isValidating = monitor.isValidating /\ n.queries = monitor.queries
    BY <1>1, TrackFields DEF SameButStuck
  <1> HIDE DEF n
  <1>3. /\ monitor' \in Monitor /\ ~monitor'.isConnected
        /\ monitor'.idleCheck = Off /\ monitor'.stuck = Off /\ monitor'.validation = Off
        /\ monitor'.isValidating = monitor.isValidating
        /\ monitor'.queries = monitor.queries
    BY <1>2, DisconnectedFields DEF Leave, n
  <1>4. /\ state' = "RECONNECTING" /\ pinging' = FALSE
        /\ UNCHANGED <<alerts, silent>>
    BY DEF Leave, clearPingTimer
  <1>5. TypeOK'
    <2>1. retry' \in 0..MaxBackoff /\ backoff' \in 0..MaxBackoff
      BY Constants DEF Leave, Inv, TypeOK, BACKOFF_DELAYED_RECONNECT, Lower
    <2>2. heard' \in 0..StormCooldown + StormWindow
      BY Constants DEF Leave, Inv, TypeOK
    <2> QED BY <1>3, <1>4, <2>1, <2>2 DEF TypeOK, States, Inv
  <1>6. TimersFollowMachine'
    BY <1>3, <1>4 DEF TimersFollowMachine, Connected, Monitored
  <1>7. FlagSet'
    BY <1>3 DEF FlagSet, OneValidation, Inv
  <1>8. Clock' /\ NextCheck' /\ AlertSent'
    BY <1>4 DEF Clock, NextCheck, AlertSent, Connected, Monitored
  <1> QED BY <1>5, <1>6, <1>7, <1>8 DEF Inv

LEMMA StopInv ==
    ASSUME Inv, Stop, alerts' \in 0..MaxAlerts
    PROVE  Inv'
  <1>1. left(monitor) \in Monitor /\ SameButStuck(left(monitor), monitor)
    BY LeftFields DEF Inv, TypeOK
  <1>2. /\ monitor' \in Monitor /\ ~monitor'.isConnected
        /\ monitor'.idleCheck = Off /\ monitor'.stuck = Off /\ monitor'.validation = Off
        /\ monitor'.isValidating = monitor.isValidating
        /\ monitor'.queries = monitor.queries
    BY <1>1, DisconnectedFields DEF Stop, SameButStuck
  <1>3. /\ state' = "ERROR" /\ pinging' = FALSE
        /\ UNCHANGED <<retry, backoff, silent, heard>>
    BY DEF Stop, clearPingTimer
  <1>4. TypeOK'
    BY <1>2, <1>3 DEF TypeOK, States, Inv
  <1>5. TimersFollowMachine'
    BY <1>2, <1>3 DEF TimersFollowMachine, Connected, Monitored
  <1>6. FlagSet'
    BY <1>2 DEF FlagSet, OneValidation, Inv
  <1>7. Clock' /\ NextCheck' /\ AlertSent'
    BY <1>3 DEF Clock, NextCheck, AlertSent, Connected, Monitored
  <1> QED BY <1>4, <1>5, <1>6, <1>7 DEF Inv

LEMMA MachineInv ==
    ASSUME Inv, Machine
    PROVE  Inv'
  <1> USE DEF Inv
  <1>1. monitor \in Monitor
    BY DEF TypeOK
  <1>2. CASE Initialize \/ Reconnect
    BY <1>2 DEF Initialize, Reconnect, TypeOK, States, TimersFollowMachine, FlagSet,
                OneValidation, Clock, NextCheck, AlertSent, Connected, Monitored
  <1>3. CASE Connect
    <2>1. /\ state = "CONNECTING" /\ state' = "idle" /\ pinging' = TRUE /\ silent' = 0
          /\ monitor' = connected(monitor) /\ UNCHANGED <<retry, backoff, alerts, heard>>
      BY <1>3 DEF Connect, createPingTimer
    <2>2. TypeOK'
      BY <1>1, <2>1, Constants, StartIdleCheckFields DEF TypeOK, States, Connected
    <2>3. TimersFollowMachine'
      BY <1>1, <2>1, Constants, StartIdleCheckFields
         DEF TimersFollowMachine, Connected, Monitored, Off
    <2>4. FlagSet'
      BY <1>1, <2>1, StartIdleCheckFields DEF FlagSet, OneValidation
    <2>5. Clock' /\ NextCheck' /\ AlertSent'
      BY <1>1, <2>1, Constants, StartIdleCheckFields DEF Clock, NextCheck, AlertSent, Lower
    <2> QED BY <2>2, <2>3, <2>4, <2>5
  <1>4. CASE Disconnect
    BY <1>4, LeaveInv DEF Disconnect
  <1>5. CASE Ignore
    <2>1. /\ state = "idle" /\ silent' = 0 /\ monitor' = eventReceived(monitor)
          /\ UNCHANGED <<state, retry, backoff, pinging, alerts, heard>>
      BY <1>5 DEF Ignore
    <2>2. TypeOK'
      BY <1>1, <2>1, Constants, EventFields DEF TypeOK
    <2>3. TimersFollowMachine' /\ FlagSet'
      BY <1>1, <2>1, EventFields DEF TimersFollowMachine, FlagSet, OneValidation
    <2>4. monitor.idleCheck <= Half
      BY <1>1, Constants DEF Monitor, Off
    <2>5. Clock' /\ NextCheck' /\ AlertSent'
      BY <1>1, <2>1, <2>4, Constants, EventFields DEF Clock, NextCheck, AlertSent, Lower, Monitor, Off
    <2> QED BY <2>2, <2>3, <2>5
  <1>6. CASE Handle
    <2> DEFINE n == eventReceived(monitor)
    <2>1. /\ state = "idle" /\ state' = "handling" /\ silent' = 0
          /\ monitor' = processingStarted(n)
          /\ UNCHANGED <<retry, backoff, pinging, alerts, heard>>
      BY <1>6 DEF Handle
    <2>2. /\ n \in Monitor /\ n.quiet = 0 /\ ~n.idleAlertFired
          /\ n.isConnected = monitor.isConnected /\ n.idleCheck = monitor.idleCheck
          /\ n.validation = monitor.validation /\ n.isValidating = monitor.isValidating
          /\ n.queries = monitor.queries
      BY <1>1, EventFields
    <2> HIDE DEF n
    <2>3. TypeOK'
      BY <2>1, <2>2, Constants, StuckFields DEF TypeOK, States, Connected, Monitored
    <2>4. TimersFollowMachine'
      BY <2>1, <2>2, Constants, StuckFields
         DEF TimersFollowMachine, SameButStuck, Connected, Monitored, Off
    <2>5. FlagSet'
      BY <2>1, <2>2, StuckFields DEF FlagSet, OneValidation, SameButStuck
    <2>6. monitor.idleCheck <= Half /\ monitor.idleCheck \in Int
      BY <1>1, Constants DEF Monitor, Off
    <2>7. Clock' /\ NextCheck' /\ AlertSent'
      BY <2>1, <2>2, <2>6, Constants, StuckFields DEF Clock, NextCheck, AlertSent, Lower, SameButStuck
    <2> QED BY <2>3, <2>4, <2>5, <2>7
  <1>7. CASE NextHandler \/ AckTimeout \/ Finish
    <2>1. /\ state \in Connected /\ state' \in Connected
          /\ UNCHANGED <<retry, backoff, pinging, alerts, silent, heard>>
      BY <1>7 DEF NextHandler, AckTimeout, Finish, Connected, Monitored
    <2>2. /\ monitor' \in Monitor /\ SameButStuck(monitor', monitor)
          /\ monitor'.stuck # Off <=> state' \in Monitored
      <3>1. CASE NextHandler
        BY <1>1, <3>1, StuckFields, LeftFields, Constants
           DEF NextHandler, SameButStuck, Monitored, Off
      <3>2. CASE AckTimeout
        BY <1>1, <3>2, StuckFields, Constants DEF AckTimeout, SameButStuck, Monitored, Off
      <3>3. CASE Finish
        BY <1>1, <3>3, LeftFields DEF Finish, Monitored
      <3> QED BY <1>7, <3>1, <3>2, <3>3
    <2>3. TypeOK'
      BY <2>1, <2>2 DEF TypeOK, States
    <2>4. TimersFollowMachine'
      BY <2>1, <2>2 DEF TimersFollowMachine, SameButStuck
    <2>5. FlagSet'
      BY <2>2 DEF FlagSet, OneValidation, SameButStuck
    <2>6. Clock' /\ NextCheck' /\ AlertSent'
      BY <2>1, <2>2 DEF Clock, NextCheck, AlertSent, SameButStuck
    <2> QED BY <2>3, <2>4, <2>5, <2>6
  <1>8. CASE Fail
    BY <1>8, StopInv DEF Fail, TypeOK
  <1>9. CASE Restart
    <2>1. /\ state' = "INITIALIZING" /\ retry' = 0 /\ backoff' = 0 /\ monitor' = Started
          /\ pinging' = FALSE /\ alerts' = 0 /\ silent' = 0
          /\ heard' = StormCooldown + StormWindow
      BY <1>9 DEF Restart, clearPingTimer
    <2>2. TypeOK'
      BY <2>1, StartedTyped, Zeros DEF TypeOK, States
    <2>3. TimersFollowMachine' /\ FlagSet'
      BY <2>1 DEF TimersFollowMachine, FlagSet, OneValidation, Connected, Monitored, Started, Off
    <2>4. Clock' /\ NextCheck' /\ AlertSent'
      BY <2>1 DEF Clock, NextCheck, AlertSent, Connected, Monitored
    <2> QED BY <2>2, <2>3, <2>4
  <1> QED BY <1>2, <1>3, <1>4, <1>5, <1>6, <1>7, <1>8, <1>9 DEF Machine

\* A record whose timers, clock and queries were counted.
LEMMA RecordInv ==
    ASSUME Inv, monitor' \in Monitor, state' = state, pinging' = pinging,
           monitor'.isConnected = monitor.isConnected,
           monitor'.stuck = Off <=> monitor.stuck = Off,
           monitor'.idleCheck = Off <=> monitor.idleCheck = Off,
           monitor'.validation = Off <=> monitor.validation = Off
    PROVE  TimersFollowMachine'
  BY DEF Inv, TimersFollowMachine

LEMMA TickInv ==
    ASSUME Inv, Tick
    PROVE  Inv'
  <1> USE DEF Inv
  <1> DEFINE m == monitor
             older == {Lower(a + 1, StormWindow + 1) : a \in m.reconnections}
  <1>1. /\ m \in Monitor /\ m.quiet \in 0..IdleTimeout
        /\ m.idleCheck \in (0..Half) \cup {Off} /\ m.stuck \in (0..StuckTimeout) \cup {Off, Fired}
        /\ m.validation \in (0..ValidationInterval) \cup {Off}
        /\ m.stormAlert \in 0..StormCooldown
        /\ m.reconnections \in SUBSET (0..StormWindow + 1)
        /\ m.isConnected \in BOOLEAN /\ m.idleAlertFired \in BOOLEAN
        /\ m.isValidating \in BOOLEAN /\ m.queries \in Nat
    BY DEF TypeOK, Monitor
  <1>2. m.idleCheck # 0 /\ m.stuck # 0 /\ m.validation # 0
    BY <1>1 DEF Tick, Due
  <1>3. /\ Lower(m.quiet + 1, IdleTimeout) \in 0..IdleTimeout
        /\ Lower(m.stormAlert + 1, StormCooldown) \in 0..StormCooldown
    BY <1>1, Constants DEF Lower
  <1>4. /\ Less(m.idleCheck) \in (0..Half) \cup {Off}
        /\ Less(m.idleCheck) = Off <=> m.idleCheck = Off
        /\ m.idleCheck # Off => Less(m.idleCheck) = m.idleCheck - 1
    BY <1>1, <1>2, Constants DEF Less, Off
  <1>5. /\ Less(m.stuck) \in (0..StuckTimeout) \cup {Off, Fired}
        /\ Less(m.stuck) = Off <=> m.stuck = Off
    BY <1>1, <1>2, Constants DEF Less, Off, Fired
  <1>6. /\ Less(m.validation) \in (0..ValidationInterval) \cup {Off}
        /\ Less(m.validation) = Off <=> m.validation = Off
    BY <1>1, <1>2, Constants DEF Less, Off
  <1>7. older \in SUBSET (0..StormWindow + 1)
    BY <1>1, Constants DEF Lower
  <1>8. monitor' =
          [m EXCEPT !.quiet = Lower(m.quiet + 1, IdleTimeout),
                    !.idleCheck = Less(m.idleCheck), !.stuck = Less(m.stuck),
                    !.validation = Less(m.validation), !.reconnections = older,
                    !.stormAlert = Lower(m.stormAlert + 1, StormCooldown)]
    BY <1>1 DEF Tick, Monitor
  <1> HIDE DEF older
  <1>9. /\ monitor' \in Monitor
        /\ monitor'.quiet = Lower(m.quiet + 1, IdleTimeout)
        /\ monitor'.idleCheck = Less(m.idleCheck) /\ monitor'.stuck = Less(m.stuck)
        /\ monitor'.validation = Less(m.validation)
        /\ monitor'.isConnected = m.isConnected
        /\ monitor'.idleAlertFired = m.idleAlertFired
        /\ monitor'.isValidating = m.isValidating /\ monitor'.queries = m.queries
    BY <1>1, <1>3, <1>4, <1>5, <1>6, <1>7, <1>8 DEF Monitor
  <1>10. /\ silent' = Lower(silent + 1, SilentMax) /\ backoff' = Less(backoff)
         /\ heard' = Lower(heard + 1, StormCooldown + StormWindow)
         /\ UNCHANGED <<state, retry, pinging, alerts>>
    BY DEF Tick
  <1>11. TypeOK'
    <2>1. silent' \in 0..SilentMax /\ backoff' \in 0..MaxBackoff
      BY <1>10, Constants DEF TypeOK, Lower, Less
    <2>2. heard' \in 0..StormCooldown + StormWindow
      BY <1>10, Constants DEF TypeOK, Lower
    <2> QED BY <1>9, <1>10, <2>1, <2>2 DEF TypeOK
  <1>12. TimersFollowMachine'
    BY <1>4, <1>5, <1>6, <1>9, <1>10, RecordInv
  <1>13. FlagSet'
    BY <1>9 DEF FlagSet, OneValidation
  <1>14. silent \in Nat /\ silent <= SilentMax
    BY Constants DEF TypeOK
  <1>15. Clock'
    BY <1>1, <1>9, <1>10, <1>14, Constants DEF Clock, Lower
  <1>16. NextCheck' /\ AlertSent'
    <2>1. state \in Connected => m.idleCheck # Off
      BY DEF TimersFollowMachine
    <2> QED BY <1>1, <1>2, <1>4, <1>9, <1>10, <1>14, <2>1, Constants
            DEF NextCheck, AlertSent, Lower, Off
  <1> QED BY <1>11, <1>12, <1>13, <1>15, <1>16

LEMMA TimersInv ==
    ASSUME Inv, Timers
    PROVE  Inv'
  <1> USE DEF Inv
  <1>1. monitor \in Monitor
    BY DEF TypeOK
  <1>2. CASE IdleCheck
    <2>1. /\ monitor.idleCheck = 0
          /\ FindsIdle => alerts < MaxAlerts
          /\ monitor' = [monitor EXCEPT !.idleCheck = Half,
                           !.idleAlertFired = monitor.idleAlertFired \/ FindsIdle]
          /\ alerts' = IF FindsIdle THEN alerts + 1 ELSE alerts
          /\ UNCHANGED <<state, retry, backoff, pinging, silent, heard>>
      BY <1>1, <1>2 DEF IdleCheck, Monitor
    <2>2. Half \in (0..Half) \cup {Off} /\ Half # Off
      BY Constants DEF Off
    <2>3. (monitor.idleAlertFired \/ FindsIdle) \in BOOLEAN
      OBVIOUS
    <2>4. /\ monitor' \in Monitor /\ monitor'.idleCheck = Half
          /\ monitor'.idleAlertFired <=> monitor.idleAlertFired \/ FindsIdle
          /\ monitor'.quiet = monitor.quiet /\ monitor'.stuck = monitor.stuck
          /\ monitor'.validation = monitor.validation
          /\ monitor'.isConnected = monitor.isConnected
          /\ monitor'.isValidating = monitor.isValidating
          /\ monitor'.queries = monitor.queries
      <3> DEFINE f == monitor.idleAlertFired \/ FindsIdle
      <3>1. f \in BOOLEAN /\ (f <=> monitor.idleAlertFired \/ FindsIdle)
        OBVIOUS
      <3>2. monitor' = [monitor EXCEPT !.idleCheck = Half, !.idleAlertFired = f]
        BY <2>1
      <3> HIDE DEF f
      <3>3. monitor' \in Monitor /\ monitor'.idleAlertFired = f /\ monitor'.idleCheck = Half
        BY <1>1, <2>2, <3>1, <3>2 DEF Monitor
      <3>4. /\ monitor'.quiet = monitor.quiet /\ monitor'.stuck = monitor.stuck
            /\ monitor'.validation = monitor.validation
            /\ monitor'.isConnected = monitor.isConnected
            /\ monitor'.isValidating = monitor.isValidating
            /\ monitor'.queries = monitor.queries
        BY <1>1, <3>2 DEF Monitor
      <3> QED BY <3>1, <3>3, <3>4
    <2>5. alerts' \in 0..MaxAlerts
      <3>1. alerts \in 0..MaxAlerts
        BY DEF TypeOK
      <3>2. CASE FindsIdle
        BY <2>1, <3>1, <3>2, Constants
      <3>3. CASE ~FindsIdle
        BY <2>1, <3>1, <3>3
      <3> QED BY <3>2, <3>3
    <2>6. TypeOK'
      BY <2>1, <2>4, <2>5 DEF TypeOK
    <2>7. TimersFollowMachine'
      <3>1. monitor.idleCheck # Off /\ monitor'.idleCheck # Off
        BY <2>1, <2>2, <2>4 DEF Off
      <3>2. pinging' = pinging /\ state' = state
        BY <2>1
      <3> QED BY <2>4, <3>1, <3>2, RecordInv
    <2>8. FlagSet'
      BY <2>4 DEF FlagSet, OneValidation
    <2>9. Clock'
      BY <2>1, <2>4 DEF Clock
    <2>10. silent \in Nat /\ alerts \in Nat
      BY Constants DEF TypeOK
    <2>11. NextCheck'
      <3> SUFFICES ASSUME state \in Connected, ~monitor.idleAlertFired, ~FindsIdle
                   PROVE  silent + Half < SilentMax
        BY <2>1, <2>4 DEF NextCheck
      <3>1. monitor.quiet < IdleTimeout /\ monitor.quiet = Lower(silent, IdleTimeout)
        <4>1. monitor.isConnected /\ monitor.quiet \in 0..IdleTimeout
          BY <1>1 DEF TimersFollowMachine, Monitor
        <4> QED BY <4>1, Constants DEF FindsIdle, Clock
      <3> QED BY <2>10, <3>1, Constants DEF Lower
    <2>12. AlertSent'
      BY <2>1, <2>4, <2>10 DEF AlertSent
    <2> QED BY <2>6, <2>7, <2>8, <2>9, <2>11, <2>12
  <1>3. CASE IdleTimeoutEnds
    <2>1. Stop /\ alerts' \in 0..MaxAlerts
      BY <1>3, Constants DEF IdleTimeoutEnds, TypeOK
    <2> QED BY <2>1, StopInv
  <1>4. CASE IdleTimeoutIgnored
    <2>1. /\ state \notin Connected /\ alerts' \in 0..MaxAlerts
          /\ UNCHANGED <<state, retry, backoff, monitor, pinging, silent, heard>>
      BY <1>4, Constants DEF IdleTimeoutIgnored, TypeOK
    <2> QED BY <2>1 DEF TypeOK, TimersFollowMachine, FlagSet, OneValidation, Clock,
                        NextCheck, AlertSent
  <1>5. CASE StuckAlert
    <2>1. /\ monitor.stuck = 0 /\ monitor' = [monitor EXCEPT !.stuck = Fired]
          /\ UNCHANGED <<state, retry, backoff, pinging, alerts, silent, heard>>
      BY <1>5 DEF StuckAlert
    <2>2. monitor' \in Monitor /\ SameButStuck(monitor', monitor) /\ monitor'.stuck = Fired
      BY <1>1, <2>1 DEF Monitor, SameButStuck
    <2>3. TimersFollowMachine'
      <3>1. 0 # Off /\ Fired # Off
        BY DEF Off, Fired
      <3> QED BY <2>1, <2>2, <3>1, RecordInv DEF SameButStuck
    <2> QED BY <2>1, <2>2, <2>3 DEF TypeOK, FlagSet, OneValidation, Clock, NextCheck,
                                    AlertSent, SameButStuck
  <1>6. CASE runBalanceValidation \/ ValidationEnds
    <2>1. UNCHANGED <<state, retry, backoff, pinging, alerts, silent, heard>>
      BY <1>6 DEF runBalanceValidation, ValidationEnds
    <2>2. /\ monitor' \in Monitor /\ FlagSet'
          /\ monitor'.isConnected = monitor.isConnected
          /\ monitor'.quiet = monitor.quiet /\ monitor'.idleCheck = monitor.idleCheck
          /\ monitor'.idleAlertFired = monitor.idleAlertFired
          /\ monitor'.stuck = monitor.stuck
          /\ monitor'.validation = Off <=> monitor.validation = Off
      <3>1. CASE runBalanceValidation
        <4> DEFINE q == IF monitor.isValidating THEN monitor.queries ELSE monitor.queries + 1
        <4>1. q \in Nat /\ q <= 1
          BY <1>1 DEF FlagSet, OneValidation, Monitor
        <4>2. /\ monitor.validation = 0
              /\ monitor' = [monitor EXCEPT !.validation = ValidationInterval,
                                            !.isValidating = TRUE, !.queries = q]
          BY <1>1, <3>1 DEF runBalanceValidation, Monitor
        <4> HIDE DEF q
        <4>3. /\ ValidationInterval \in (0..ValidationInterval) \cup {Off}
              /\ ValidationInterval # Off /\ 0 # Off
          BY Constants DEF Off
        <4> QED BY <1>1, <4>1, <4>2, <4>3 DEF Monitor, FlagSet, OneValidation
      <3>2. CASE ValidationEnds
        <4>1. monitor.queries - 1 = 0 /\ monitor.queries - 1 \in Nat
          BY <1>1, <3>2 DEF ValidationEnds, FlagSet, OneValidation, Monitor
        <4>2. monitor' = [monitor EXCEPT !.isValidating = FALSE,
                                         !.queries = monitor.queries - 1]
          BY <1>1, <3>2 DEF ValidationEnds, Monitor
        <4> DEFINE q == monitor.queries - 1
        <4> HIDE DEF q
        <4>3. q \in Nat /\ q = 0
          BY <4>1 DEF q
        <4>4. /\ monitor' = [monitor EXCEPT !.isValidating = FALSE, !.queries = q]
          BY <4>2 DEF q
        <4>5. monitor' \in Monitor /\ monitor'.queries = 0
          BY <1>1, <4>3, <4>4 DEF Monitor
        <4> QED BY <1>1, <4>4, <4>5 DEF Monitor, FlagSet, OneValidation
      <3> QED BY <1>6, <3>1, <3>2
    <2>3. TimersFollowMachine'
      BY <2>1, <2>2, RecordInv
    <2> QED BY <2>1, <2>2, <2>3 DEF TypeOK, Clock, NextCheck, AlertSent
  <1>7. CASE Tick
    BY <1>7, TickInv
  <1> QED BY <1>2, <1>3, <1>4, <1>5, <1>6, <1>7 DEF Timers

LEMMA NextInv ==
    ASSUME Inv, [Next]_vars
    PROVE  Inv'
  <1>1. CASE UNCHANGED vars
    BY <1>1 DEF vars, Inv, TypeOK, TimersFollowMachine, FlagSet, OneValidation, Clock,
                NextCheck, AlertSent
  <1>2. CASE Next
    BY <1>2, MachineInv, TimersInv DEF Next
  <1> QED BY <1>1, <1>2

THEOREM Invariant == Spec => []Inv
  BY InitInv, NextInv, PTL DEF Spec

-----------------------------------------------------------------------------
(* The machine and its actors keep their types, the age of a timestamp and *)
(* the time left of a timer their ranges.                                  *)
THEOREM TypeCorrect == Spec => []TypeOK
  <1>1. Inv => TypeOK
    BY DEF Inv
  <1> QED BY <1>1, Invariant, PTL

(* Whatever the order of disconnections, handlers and restarts, the timers *)
(* run in exactly the states they watch.                                   *)
THEOREM TimersRight == Spec => []TimersFollowMachine
  <1>1. Inv => TimersFollowMachine
    BY DEF Inv
  <1> QED BY <1>1, Invariant, PTL

(* isValidating keeps balance validations from overlapping, over a         *)
(* reconnection too, which leaves the flag as it is.                       *)
THEOREM ValidatesOnce == Spec => []OneValidation
  <1>1. Inv => OneValidation
    BY DEF Inv, FlagSet
  <1> QED BY <1>1, Invariant, PTL

(* A stream that is silent for 1.5 idle timeouts has an alert on its way,  *)
(* for every idle timeout and whenever its checks began.                   *)
THEOREM SilenceNoticed == Spec => []IdleDetected
  <1>1. Inv => IdleDetected
    <2> SUFFICES ASSUME Inv, state \in Connected, silent >= SilentMax PROVE alerts > 0
      BY DEF IdleDetected
    <2>1. monitor.idleCheck # Off /\ monitor.idleCheck \in (0..Half) \cup {Off}
          /\ silent \in 0..SilentMax
      BY DEF Inv, TypeOK, Monitor, TimersFollowMachine
    <2>2. monitor.idleAlertFired
      BY <2>1, Constants DEF Inv, NextCheck
    <2> QED BY <2>2 DEF Inv, AlertSent
  <1> QED BY <1>1, Invariant, PTL

-----------------------------------------------------------------------------
(* Storms: the actor's clock of the last alert is its age (StormAge), and  *)
(* time moves the last reconnection and the last alert alike.              *)

StormAge == monitor.stormAlert = Lower(heard, StormCooldown)

StormInv == StormAge /\ StormHeard

Recent(S) == {a \in S : a <= StormWindow}
Last(S) == CHOOSE a \in S : \A b \in S : a <= b

LEMMA LastIsLeast ==
    ASSUME NEW S \in SUBSET Nat, S # {}
    PROVE  Last(S) \in S /\ \A b \in S : Last(S) <= b
  <1> DEFINE R == {ss \in Nat \X Nat : ss[1] < ss[2]}
  <1>1. IsWellFoundedOn(R, Nat)
    BY NatLessThanWellFounded, Zenon DEF OpToRel
  <1> HIDE DEF R
  <1>2. PICK x \in S : \A y \in S : ~(<<y, x>> \in R)
    BY <1>1, WFMin
  <1>3. \A y \in S : x <= y
    <2> SUFFICES ASSUME NEW y \in S, ~(x <= y) PROVE FALSE
      OBVIOUS
    <2>1. <<y, x>> \in R
      BY DEF R
    <2> QED BY <1>2, <2>1
  <1> QED BY <1>3 DEF Last

\* What StormHeard says, with its set and its last reconnection named.
LEMMA StormHeardMeans ==
    StormHeard <=>
        LET S == monitor.reconnections
        IN  S # {} /\ Last(S) <= StormWindow /\ Cardinality(Recent(S)) >= StormThreshold
              => heard - Last(S) < StormCooldown
  BY DEF StormHeard, Last, Recent

\* A minute later the window holds no more reconnections than before.
LEMMA Ages ==
    ASSUME NEW S \in SUBSET (0..StormWindow + 1), NEW T,
           T = {Lower(a + 1, StormWindow + 1) : a \in S}
    PROVE  /\ IsFiniteSet(Recent(S)) /\ IsFiniteSet(Recent(T))
           /\ Cardinality(Recent(T)) <= Cardinality(Recent(S))
           /\ T # {} => S # {}
           /\ T # {} /\ Last(T) <= StormWindow => Last(T) = Last(S) + 1
  <1>1. IsFiniteSet(0..StormWindow + 1)
    BY Constants, FS_Interval
  <1>2. /\ Recent(S) \in SUBSET (0..StormWindow + 1)
        /\ Recent(T) \in SUBSET (0..StormWindow + 1)
    <2>1. T \in SUBSET (0..StormWindow + 1)
      BY Constants DEF Lower
    <2> QED BY <2>1 DEF Recent
  <1>3. IsFiniteSet(Recent(S)) /\ IsFiniteSet(Recent(T))
    BY <1>1, <1>2, FS_Subset
  <1> DEFINE U == Recent(S)
             V == {a + 1 : a \in U}
             f == [a \in U |-> a + 1]
  <1>4. Recent(T) \in SUBSET V
    <2> SUFFICES ASSUME NEW a \in S, Lower(a + 1, StormWindow + 1) <= StormWindow
                 PROVE  Lower(a + 1, StormWindow + 1) = a + 1 /\ a <= StormWindow
      BY DEF Recent
    <2> QED BY Constants DEF Lower
  <1>5. f \in Surjection(U, V)
    <2>1. f \in [U -> V]
      OBVIOUS
    <2>2. \A v \in V : \E u \in U : f[u] = v
      OBVIOUS
    <2> QED BY <2>1, <2>2, Zenon DEF Surjection
  <1> HIDE DEF V, f
  <1>6. IsFiniteSet(V) /\ Cardinality(V) <= Cardinality(U)
    BY <1>3, <1>5, FS_Surjection
  <1>7. Cardinality(Recent(T)) <= Cardinality(V)
    BY <1>4, <1>6, FS_Subset
  <1>8. Cardinality(Recent(T)) <= Cardinality(Recent(S))
    <2>1. /\ Cardinality(Recent(T)) \in Nat /\ Cardinality(V) \in Nat
          /\ Cardinality(U) \in Nat
      BY <1>3, <1>6, FS_CardinalityType
    <2> QED BY <1>6, <1>7, <2>1
  <1>9. T # {} => S # {}
    OBVIOUS
  <1>10. ASSUME T # {}, Last(T) <= StormWindow
         PROVE  Last(T) = Last(S) + 1
    <2>1. S \in SUBSET Nat /\ T \in SUBSET Nat /\ S # {}
      BY <1>9, <1>10, Constants DEF Lower
    <2>2. Last(S) \in S /\ \A b \in S : Last(S) <= b
      BY <2>1, LastIsLeast
    <2>3. Last(T) \in T /\ \A b \in T : Last(T) <= b
      BY <2>1, <1>10, LastIsLeast
    <2>4. PICK a \in S : Last(T) = Lower(a + 1, StormWindow + 1)
      BY <2>3
    <2>5. Last(T) = a + 1 /\ Last(S) <= a
      BY <1>10, <2>1, <2>2, <2>4, Constants DEF Lower
    <2>6. Lower(Last(S) + 1, StormWindow + 1) \in T
      BY <2>2
    <2>7. Last(T) <= Last(S) + 1
      <3>1. Last(T) <= Lower(Last(S) + 1, StormWindow + 1)
        BY <2>3, <2>6
      <3>2. Last(S) \in Nat /\ Last(T) \in Nat
        BY <2>1, <2>2, <2>3
      <3> QED BY <3>1, <3>2, Constants DEF Lower
    <2>8. Last(S) \in Nat /\ Last(T) \in Nat /\ a \in Nat
      BY <2>1, <2>2, <2>3
    <2> QED BY <2>5, <2>7, <2>8
  <1> QED BY <1>3, <1>8, <1>9, <1>10

LEMMA LeaveStorm ==
    ASSUME Inv, StormInv, Leave
    PROVE  StormInv'
  <1> DEFINE m == left(monitor)
             n == trackReconnection(m)
             alarm == raisesStorm(monitor)
  <1>1. /\ m \in Monitor /\ m.reconnections = monitor.reconnections
        /\ m.stormAlert = monitor.stormAlert
    BY LeftFields DEF Inv, TypeOK, SameButStuck
  <1>2. InWindow(m) = InWindow(monitor) /\ (raisesStorm(m) <=> alarm)
    BY <1>1 DEF InWindow, raisesStorm, Storm
  <1>3. /\ n \in Monitor /\ n.reconnections = InWindow(monitor)
        /\ n.stormAlert = IF alarm THEN 0 ELSE monitor.stormAlert
    BY <1>1, <1>2, TrackFields
  <1> HIDE DEF n, alarm
  <1>4. /\ monitor'.reconnections = InWindow(monitor)
        /\ monitor'.stormAlert = IF alarm THEN 0 ELSE monitor.stormAlert
        /\ heard' = IF alarm THEN 0 ELSE heard
    BY <1>3, DisconnectedFields DEF Leave, n, alarm
  <1>5. heard \in 0..StormCooldown + StormWindow /\ heard \in Nat
    BY Constants DEF Inv, TypeOK
  <1>6. StormAge'
    BY <1>4, <1>5, Constants DEF StormInv, StormAge, Lower
  <1>7. StormHeard'
    <2> DEFINE W == InWindow(monitor)
    <2>1. W \in SUBSET Nat /\ 0 \in W /\ Recent(W) = W
      <3>1. monitor.reconnections \in SUBSET Nat
        BY Constants DEF Inv, TypeOK, Monitor
      <3> QED BY <3>1, Constants DEF InWindow, Recent
    <2>2. Last(W) = 0
      <3>1. Last(W) \in W /\ \A b \in W : Last(W) <= b
        BY <2>1, LastIsLeast
      <3> QED BY <2>1, <3>1
    <2>3. ASSUME Cardinality(W) >= StormThreshold PROVE heard' < StormCooldown
      <3>1. CASE alarm
        BY <1>4, <3>1, Constants
      <3>2. CASE ~alarm
        <4>1. ~(monitor.stormAlert >= StormCooldown)
          BY <2>3, <3>2 DEF alarm, raisesStorm, Storm
        <4> QED BY <1>4, <1>5, <3>2, <4>1, Constants DEF StormInv, StormAge, Lower
      <3> QED BY <3>1, <3>2
    <2> HIDE DEF W
    <2> SUFFICES ASSUME Cardinality(Recent(W)) >= StormThreshold
                 PROVE  heard' - Last(W) < StormCooldown
      BY <1>4 DEF StormHeard, Last, Recent, W
    <2>4. heard' \in Nat
      BY <1>4, <1>5
    <2>5. heard' < StormCooldown
      BY <2>1, <2>3
    <2>6. heard' - 0 < StormCooldown
      BY <2>4, <2>5
    <2> QED BY <2>2, <2>6, Zenon
  <1> QED BY <1>6, <1>7 DEF StormInv

LEMMA TickStorm ==
    ASSUME Inv, StormInv, Tick
    PROVE  StormInv'
  <1> DEFINE S == monitor.reconnections
             T == {Lower(a + 1, StormWindow + 1) : a \in S}
  <1>1. /\ monitor'.reconnections = T
        /\ monitor'.stormAlert = Lower(monitor.stormAlert + 1, StormCooldown)
        /\ heard' = Lower(heard + 1, StormCooldown + StormWindow)
    BY DEF Tick, Inv, TypeOK, Monitor
  <1>2. S \in SUBSET (0..StormWindow + 1)
    BY DEF Inv, TypeOK, Monitor
  <1>3. /\ IsFiniteSet(Recent(S)) /\ IsFiniteSet(Recent(T))
        /\ Cardinality(Recent(T)) <= Cardinality(Recent(S))
        /\ T # {} => S # {}
        /\ T # {} /\ Last(T) <= StormWindow => Last(T) = Last(S) + 1
    BY <1>2, Ages
  <1>4. heard \in Nat /\ heard <= StormCooldown + StormWindow
    BY Constants DEF Inv, TypeOK
  <1>5. StormAge'
    BY <1>1, <1>4, Constants DEF StormInv, StormAge, Lower
  <1> HIDE DEF T
  <1>6. StormHeard'
    <2> SUFFICES ASSUME T # {}, Last(T) <= StormWindow,
                        Cardinality(Recent(T)) >= StormThreshold
                 PROVE  heard' - Last(T) < StormCooldown
      BY <1>1 DEF StormHeard, Last, Recent
    <2>1. Last(T) = Last(S) + 1 /\ S # {}
      BY <1>3
    <2>2. S \in SUBSET Nat
      BY <1>2, Constants
    <2>3. Last(S) \in Nat
      BY <2>1, <2>2, LastIsLeast
    <2>4. Cardinality(Recent(T)) \in Nat /\ Cardinality(Recent(S)) \in Nat
      BY <1>3, FS_CardinalityType
    <2>5. Last(S) <= StormWindow /\ Cardinality(Recent(S)) >= StormThreshold
      BY <1>3, <2>1, <2>3, <2>4, Constants
    <2>6. heard - Last(S) < StormCooldown
      BY <2>1, <2>5, StormHeardMeans DEF StormInv
    <2>7. heard' <= heard + 1 /\ heard' \in Nat
      BY <1>1, <1>4, Constants DEF Lower
    <2> QED BY <1>4, <2>1, <2>3, <2>6, <2>7, Constants
  <1> QED BY <1>5, <1>6 DEF StormInv

\* Nothing else touches what storms are counted from.
LEMMA StormKept ==
    ASSUME Inv, StormInv, UNCHANGED heard,
           monitor'.reconnections = monitor.reconnections,
           monitor'.stormAlert = monitor.stormAlert
    PROVE  StormInv'
  BY DEF StormInv, StormAge, StormHeard

LEMMA StopStorm ==
    ASSUME Inv, StormInv, Stop
    PROVE  StormInv'
  <1>1. left(monitor) \in Monitor /\ SameButStuck(left(monitor), monitor)
    BY LeftFields DEF Inv, TypeOK
  <1> QED BY <1>1, DisconnectedFields, StormKept DEF Stop, SameButStuck

LEMMA MachineStorm ==
    ASSUME Inv, StormInv, Machine
    PROVE  StormInv'
  <1>1. monitor \in Monitor
    BY DEF Inv, TypeOK
  <1>2. CASE Initialize \/ Reconnect
    BY <1>2, StormKept DEF Initialize, Reconnect
  <1>3. CASE Connect
    BY <1>1, <1>3, StartIdleCheckFields, StormKept DEF Connect
  <1>4. CASE Disconnect
    BY <1>4, LeaveStorm DEF Disconnect
  <1>5. CASE Ignore
    BY <1>1, <1>5, EventFields, StormKept DEF Ignore
  <1>6. CASE Handle
    BY <1>1, <1>6, EventFields, StuckFields, StormKept DEF Handle, SameButStuck
  <1>7. CASE NextHandler
    BY <1>1, <1>7, LeftFields, StuckFields, StormKept DEF NextHandler, SameButStuck
  <1>8. CASE AckTimeout
    BY <1>1, <1>8, StuckFields, StormKept DEF AckTimeout, SameButStuck
  <1>9. CASE Finish
    BY <1>1, <1>9, LeftFields, StormKept DEF Finish, SameButStuck
  <1>10. CASE Fail
    BY <1>10, StopStorm DEF Fail
  <1>11. CASE Restart
    <2>1. monitor' = Started /\ heard' = StormCooldown + StormWindow
      BY <1>11 DEF Restart
    <2> QED BY <2>1, Constants DEF StormInv, StormAge, StormHeard, Started, Lower
  <1> QED BY <1>2, <1>3, <1>4, <1>5, <1>6, <1>7, <1>8, <1>9, <1>10, <1>11 DEF Machine

LEMMA TimersStorm ==
    ASSUME Inv, StormInv, Timers
    PROVE  StormInv'
  <1>1. monitor \in Monitor
    BY DEF Inv, TypeOK
  <1>2. CASE IdleCheck
    BY <1>1, <1>2, StormKept DEF IdleCheck, Monitor
  <1>3. CASE IdleTimeoutEnds
    BY <1>3, StopStorm DEF IdleTimeoutEnds
  <1>4. CASE IdleTimeoutIgnored
    BY <1>4, StormKept DEF IdleTimeoutIgnored
  <1>5. CASE StuckAlert
    BY <1>1, <1>5, StormKept DEF StuckAlert, Monitor
  <1>6. CASE runBalanceValidation
    BY <1>1, <1>6, StormKept DEF runBalanceValidation, Monitor
  <1>7. CASE ValidationEnds
    BY <1>1, <1>7, StormKept DEF ValidationEnds, Monitor
  <1>8. CASE Tick
    BY <1>8, TickStorm
  <1> QED BY <1>2, <1>3, <1>4, <1>5, <1>6, <1>7, <1>8 DEF Timers

(* For every window, threshold and cooldown: while the last window holds a *)
(* storm, an alert was raised less than a cooldown before its last         *)
(* reconnection.                                                           *)
THEOREM StormsAreHeard == Spec => []StormHeard
  <1>1. Init => StormInv
    BY Constants DEF Init, Started, StormInv, StormAge, StormHeard, Lower
  <1>2. Inv /\ StormInv /\ [Next]_vars => StormInv'
    <2> SUFFICES ASSUME Inv, StormInv, [Next]_vars PROVE StormInv'
      OBVIOUS
    <2>1. CASE UNCHANGED vars
      BY <2>1 DEF vars, StormInv, StormAge, StormHeard
    <2>2. CASE Next
      BY <2>2, MachineStorm, TimersStorm DEF Next
    <2> QED BY <2>1, <2>2
  <1>3. StormInv => StormHeard
    BY DEF StormInv
  <1> QED BY <1>1, <1>2, <1>3, Invariant, PTL DEF Spec
=============================================================================
