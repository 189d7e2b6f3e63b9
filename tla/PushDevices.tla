----------------------------- MODULE PushDevices -----------------------------
(***************************************************************************)
(* Push notifications: the rows of push_devices, the requests that write   *)
(* them, the cron that cleans them, and the way of a notification from the *)
(* daemon's transaction through two lambdas to Firebase, which may send    *)
(* the wallet service to delete a row (packages/wallet-service/src/api/    *)
(* push*.ts, txPushNotificationRequested.ts, db/index.ts).                 *)
(*                                                                         *)
(* A notification names a device and no wallet.  Lambdas are invoked       *)
(* asynchronously: what one passes to the next is in flight for any time,  *)
(* and may arrive more than once.  The content of a notification is the    *)
(* wallet it is about and whether it shows amounts; providers are left     *)
(* out.                                                                    *)
(***************************************************************************)
EXTENDS Clients

CONSTANTS
  Devices,     \* device ids: the tokens Firebase gave to apps
  Requests,    \* POST /push/update requests in progress
  MaxInFlight  \* bound on what is on its way at each stage

ASSUME PushAssumption == None \notin Devices /\ MaxInFlight \in Nat

VARIABLES
  device,      \* push_devices, by device_id
  alive,       \* device ids Firebase still knows
  update,      \* updates between their check and their UPDATE
  accepting,   \* the daemon's transaction: the wallets it credits, or None
  invoked,     \* invocations of txPushRequested on their way
  fanout,      \* what is left of those being handled
  sending,     \* invocations of sendNotificationToDevice on their way
  posting,     \* notifications whose device was found
  removing,    \* devices Firebase called invalid, not yet deleted
  chosenBy     \* history: the wallet whose request last wrote a row

lambdas == <<invoked, fanout, sending, posting, removing>>
pushVars == <<device, alive, update, accepting, lambdas, chosenBy, failures>>

-----------------------------------------------------------------------------
(* Data                                                                    *)

Settings == [push: BOOLEAN, amounts: BOOLEAN]

(* stale: updated_at is more than a month old.                             *)
Row == [wallet: Wallets, set: Settings, stale: BOOLEAN]
Off == [push |-> FALSE, amounts |-> FALSE]
NoRow == [wallet |-> None, set |-> Off, stale |-> FALSE]

Update == [device: Devices, wallet: Wallets, set: Settings]
Notification == [device: Devices, wallet: Wallets, amounts: BOOLEAN]

PushTypeOK ==
  /\ device \in [Devices -> Row \cup {NoRow}]
  /\ alive \subseteq Devices
  /\ update \in [Requests -> Update \cup {None}]
  /\ accepting \in (SUBSET Wallets) \cup {None}
  /\ invoked \subseteq SUBSET Wallets
  /\ fanout \subseteq Notification
  /\ sending \subseteq Notification
  /\ posting \subseteq Notification
  /\ removing \subseteq Devices
  /\ chosenBy \in [Devices -> Wallets \cup {None}]
  /\ failures \in 0..MaxFailures

PushInit ==
  /\ device = [d \in Devices |-> NoRow]
  /\ alive = Devices
  /\ update = [r \in Requests |-> None]
  /\ accepting = None
  /\ invoked = {} /\ fanout = {} /\ sending = {} /\ posting = {} /\ removing = {}
  /\ chosenBy = [d \in Devices |-> None]
  /\ failures = 0

Deleted(ds) ==
  /\ device' = [d \in Devices |-> IF d \in ds THEN NoRow ELSE device[d]]
  /\ chosenBy' = [d \in Devices |-> IF d \in ds THEN None ELSE chosenBy[d]]

-----------------------------------------------------------------------------
(* Requests                                                                *)

(* One transaction deletes whatever row the device had and inserts its own.*)
register(d, w, s) ==
  /\ d \in alive
  /\ device' = [device EXCEPT ![d] = [wallet |-> w, set |-> s, stale |-> FALSE]]
  /\ chosenBy' = [chosenBy EXCEPT ![d] = w]
  /\ UNCHANGED <<alive, update, accepting, lambdas, failures>>

(* The row exists and is this wallet's, for now.                           *)
existsPushDevice(r, d, w, s) ==
  /\ d \in alive
  /\ update[r] = None
  /\ device[d].wallet = w
  /\ update' = [update EXCEPT ![r] = [device |-> d, wallet |-> w, set |-> s]]
  /\ UNCHANGED <<device, alive, accepting, lambdas, chosenBy, failures>>

(* A mutant: the UPDATE relies on the check.                               *)
MatchedByDevice(u) == TRUE

(* WHERE device_id = ? AND wallet_id = ?                                   *)
Matched(u) == device[u.device].wallet = u.wallet

(* MySQL moves updated_at only when a column changes its value.            *)
Written(row, s) == [row EXCEPT !.set = s, !.stale = @ /\ row.set = s]

updatePushDevice(r) ==
  /\ update[r] # None
  /\ update' = [update EXCEPT ![r] = None]
  /\ LET u == update[r]
     IN  IF Matched(u)
         THEN /\ device' = [device EXCEPT ![u.device] = Written(@, u.set)]
              /\ chosenBy' = [chosenBy EXCEPT ![u.device] = u.wallet]
         ELSE UNCHANGED <<device, chosenBy>>
  /\ UNCHANGED <<alive, accepting, lambdas, failures>>

unregister(d, w) ==
  /\ device[d].wallet = w
  /\ Deleted({d})
  /\ UNCHANGED <<alive, update, accepting, lambdas, failures>>

-----------------------------------------------------------------------------
(* A month without a write, the cron, and apps that are removed            *)

GetsStale(d) ==
  /\ device[d] # NoRow /\ ~device[d].stale
  /\ device' = [device EXCEPT ![d].stale = TRUE]
  /\ UNCHANGED <<alive, update, accepting, lambdas, chosenBy, failures>>

(* A mutant: only rows that want notifications are looked at.              *)
StaleEnabled == {d \in Devices : device[d].stale /\ device[d].set.push}

Stale == {d \in Devices : device[d].stale}

cleanStalePushDevices ==
  /\ Stale # {}
  /\ Deleted(Stale)
  /\ UNCHANGED <<alive, update, accepting, lambdas, failures>>

AppRemoved(d) ==
  /\ d \in alive
  /\ alive' = alive \ {d}
  /\ UNCHANGED <<device, update, accepting, lambdas, chosenBy, failures>>

-----------------------------------------------------------------------------
(* Notifications                                                           *)

(* handleVertexAccepted, its transaction still open, starts the invocation *)
(* and does not wait for it.  ws: the wallets whose first balance is       *)
(* positive; the others are filtered out without effect.                   *)
invokeOnTxPushNotificationRequestedLambda(ws) ==
  /\ accepting = None
  /\ Cardinality(invoked) < MaxInFlight
  /\ accepting' = ws
  /\ invoked' = invoked \cup {ws}
  /\ UNCHANGED <<device, alive, update, fanout, sending, posting, removing,
                 chosenBy, failures>>

Commits ==
  /\ accepting # None
  /\ accepting' = None
  /\ UNCHANGED <<device, alive, update, lambdas, chosenBy, failures>>

(* The daemon ends, starts again and handles the event again: what was     *)
(* invoked stays invoked, or is lost with the process.                     *)
RollsBack ==
  /\ accepting # None
  /\ Fails
  /\ invoked' \in {invoked \cup {accepting}, invoked \ {accepting}}
  /\ UNCHANGED <<device, alive, update, accepting, fanout, sending, posting,
                 removing, chosenBy>>

(* getPushDeviceSettingsList and the filters: one SELECT.                  *)
ToNotify(ws) ==
  {n \in Notification :
     /\ n.wallet \in ws
     /\ device[n.device].wallet = n.wallet
     /\ device[n.device].set.push
     /\ device[n.device].set.amounts = n.amounts}

handleRequest ==
  \E ws \in invoked :
    /\ fanout = {}
    /\ invoked' = invoked \ {ws}
    /\ fanout' = ToNotify(ws)
    /\ UNCHANGED <<device, alive, update, accepting, sending, posting, removing,
                   chosenBy, failures>>

(* One after the other, those without amounts first; a failed invocation   *)
(* is alerted and the next one goes on.                                    *)
sendNotification ==
  \E n \in fanout :
    /\ n.amounts => \A o \in fanout : o.amounts
    /\ Cardinality(sending \cup posting) < MaxInFlight
    /\ fanout' = fanout \ {n}
    /\ \/ sending' = sending \cup {n} /\ UNCHANGED failures
       \/ Fails /\ UNCHANGED sending
    /\ UNCHANGED <<device, alive, update, accepting, invoked, posting, removing,
                   chosenBy>>

(* getPushDevice: a row of whichever wallet will do.                       *)
send ==
  \E n \in sending :
    /\ \/ sending' = sending \ {n} /\ UNCHANGED failures
       \/ Fails /\ UNCHANGED sending  \* invoked once more
    /\ posting' = IF device[n.device] = NoRow THEN posting ELSE posting \cup {n}
    /\ UNCHANGED <<device, alive, update, accepting, invoked, fanout, removing,
                   chosenBy>>

(* A mutant: every failure is taken for an invalid device id.              *)
InvalidIfFailed(d, ok) == ~ok

(* /token-not-registered/ in the code of the error.                        *)
InvalidDeviceId(d, ok) == ~ok /\ d \notin alive

sendToFcm ==
  \E n \in posting, ok \in BOOLEAN :
    /\ ok => n.device \in alive
    /\ IF ~ok /\ n.device \in alive THEN Fails ELSE UNCHANGED failures
    /\ posting' = posting \ {n}
    /\ removing' = IF InvalidDeviceId(n.device, ok) THEN removing \cup {n.device}
                   ELSE removing
    /\ UNCHANGED <<device, alive, update, accepting, invoked, fanout, sending,
                   chosenBy>>

(* unregisterPushDevice without a wallet.                                  *)
unregisterInvalid ==
  \E d \in removing :
    /\ removing' = removing \ {d}
    /\ Deleted({d})
    /\ UNCHANGED <<alive, update, accepting, invoked, fanout, sending, posting,
                   failures>>

-----------------------------------------------------------------------------
Lambda == \/ handleRequest \/ sendNotification \/ send \/ sendToFcm
          \/ unregisterInvalid

PushNext ==
  \/ \E d \in Devices : GetsStale(d) \/ AppRemoved(d)
  \/ \E d \in Devices, w \in Wallets :
       \/ unregister(d, w)
       \/ \E s \in Settings : \/ register(d, w, s)
                              \/ \E r \in Requests : existsPushDevice(r, d, w, s)
  \/ \E r \in Requests : updatePushDevice(r)
  \/ cleanStalePushDevices
  \/ \E ws \in (SUBSET Wallets) \ {{}} : invokeOnTxPushNotificationRequestedLambda(ws)
  \/ Commits \/ RollsBack \/ Lambda

PushSpec == PushInit /\ [][PushNext]_pushVars

(* Time passes, the cron runs every 15 days, requests end and lambdas run. *)
PushFairSpec ==
  /\ PushSpec
  /\ \A d \in Devices : WF_pushVars(GetsStale(d))
  /\ \A r \in Requests : WF_pushVars(updatePushDevice(r))
  /\ WF_pushVars(cleanStalePushDevices)

-----------------------------------------------------------------------------
(* Properties                                                              *)

(* What a row says was written on behalf of the wallet it belongs to: an   *)
(* update whose device was registered to another wallet after its check    *)
(* leaves the new owner's choice alone.                                    *)
OwnSettings == \A d \in Devices : chosenBy[d] = device[d].wallet

(* A device Firebase knows loses its row only to its own wallet or to the  *)
(* cron: no failed or late notification unregisters it.                    *)
LiveStayRegistered ==
  [][\A d \in alive : device[d] # NoRow /\ device'[d] = NoRow =>
       device[d].stale \/ \E w \in Wallets : unregister(d, w)]_pushVars

(* The row of an app that was removed goes away, even if its wallet has no *)
(* transaction that would make Firebase report it.                         *)
DeadForgotten ==
  \A d \in Devices : d \notin alive ~> device[d] = NoRow
=============================================================================
