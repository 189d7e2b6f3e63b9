--------------------------- MODULE WsSubscriptions ---------------------------
(***************************************************************************)
(* The wallet service's WebSocket API: clients join wallets, Redis keeps   *)
(* one key per connection and one per subscription, and every transaction  *)
(* the daemon announces is posted to the subscribers of its wallets        *)
(* (packages/wallet-service/src/ws, redis.ts; sendRealtimeTx in the        *)
(* daemon's utils/aws.ts).                                                 *)
(*                                                                         *)
(* Each request is a lambda of its own, and lambdas run side by side.  A   *)
(* SET and a MULTI are one step each, a scan as many as it has keys to     *)
(* visit: what is written meanwhile may or may not be seen.  A lookup      *)
(* reads with a GET what its SCAN saw; a key gone in between has a null    *)
(* url, to which nothing is posted, as if the SCAN had not seen it: the    *)
(* two are one visit.  What one lambda does with Promise.all it does in    *)
(* any order.  API Gateway (the links, which open only when $connect has   *)
(* answered, and the $disconnect event, which may be lost) and SQS (a      *)
(* message is delivered at least once) are outside the repository.         *)
(***************************************************************************)
EXTENDS Clients

CONSTANTS
  Conns,       \* connection ids of API Gateway, never reused
  Messages,    \* places in the queue of new transactions
  Lambdas      \* lambdas that may run at once

ASSUME WsAssumption == None \notin Conns \cup Messages

VARIABLES
  link,      \* API Gateway's view of each connection
  leaving,   \* connections whose $disconnect event is to be delivered
  known,     \* keys <prefix>:conn:<id>
  chan,      \* keys <prefix>:chan:wallet-<wallet>:<id>
  lambda,    \* what each lambda is doing
  queue,     \* messages in SQS
  told,      \* history: subscriptions a connected client was told of
  crossed    \* history: subscriptions last written under a cleanup

redis == <<known, chan>>
vars == <<link, leaving, redis, lambda, queue, told, crossed, failures>>

-----------------------------------------------------------------------------
(* Data                                                                    *)

Subscriptions == Wallets \X Conns
Targets == (Wallets \cup {None}) \X Conns

(* "other": $disconnect, ping, broadcast and admin requests, which only    *)
(* differ in what is left for them to do.                                  *)
Routes == {"idle", "$connect", "connected", "join", "newTx", "other"}

(* A call of endWsConnection, named after the post that met a connection   *)
(* gone: keys its scan has still to visit, and those it found.             *)
Cleanup == [target: Targets, look: SUBSET Subscriptions, keys: SUBSET Subscriptions]

(* wallets: to be written (join); look: keys a lookup has still to visit;  *)
(* todo: posts to be made; ends: calls of endWsConnection under way.       *)
Job == [route: Routes, conn: Conns \cup {None}, wallets: SUBSET Wallets,
        message: Messages \cup {None}, look: SUBSET Targets, todo: SUBSET Targets,
        ends: SUBSET Cleanup]

Idle == [route |-> "idle", conn |-> None, wallets |-> {}, message |-> None,
         look |-> {}, todo |-> {}, ends |-> {}]

(* What endWsConnection starts with.                                       *)
EndOf(t) == [target |-> t, look |-> Wallets \X {t[2]}, keys |-> {}]

(* owed: history, connected clients that were told of a subscription to    *)
(* one of the wallets before the message was sent, joined under no cleanup *)
(* and were not posted to since.                                           *)
Message == [wallets: (SUBSET Wallets) \ {{}}, owed: SUBSET Subscriptions]
NoMessage == [wallets |-> {}, owed |-> {}]

TypeOK ==
  /\ link \in [Conns -> {"new", "connecting", "open", "closed"}]
  /\ leaving \subseteq {c \in Conns : link[c] = "closed"}
  /\ known \subseteq Conns
  /\ chan \subseteq Subscriptions
  /\ lambda \in [Lambdas -> Job]
  /\ queue \in [Messages -> Message \cup {NoMessage}]
  /\ told \subseteq Subscriptions
  /\ crossed \subseteq Subscriptions
  /\ failures \in 0..MaxFailures

Init ==
  /\ link = [c \in Conns |-> "new"]
  /\ leaving = {}
  /\ known = {}
  /\ chan = {}
  /\ lambda = [l \in Lambdas |-> Idle]
  /\ queue = [m \in Messages |-> NoMessage]
  /\ told = {}
  /\ crossed = {}
  /\ failures = 0

Starts(l, job) == lambda[l] = Idle /\ lambda' = [lambda EXCEPT ![l] = job]
Becomes(l, job) == lambda' = [lambda EXCEPT ![l] = job]

-----------------------------------------------------------------------------
(* Connections                                                             *)

(* API Gateway answers 410 for a connection that closed, and for one whose *)
(* $connect it has no answer to.                                           *)
GoneOrNotYet(c) == link[c] \in {"connecting", "closed"}

(* API Gateway calls $connect and opens the link when it answers.          *)
ConnectStarts(l, c) ==
  /\ link[c] = "new"
  /\ link' = [link EXCEPT ![c] = "connecting"]
  /\ Starts(l, [Idle EXCEPT !.route = "$connect", !.conn = c])
  /\ UNCHANGED <<leaving, redis, queue, told, crossed, failures>>

(* The link once connect answered, or did not.                             *)
Opened(c) == [link EXCEPT ![c] = IF @ = "connecting" THEN "open" ELSE @]
Refused(c) == [link EXCEPT ![c] = IF @ = "connecting" THEN "closed" ELSE @]

initWsConnection(l) ==
  /\ lambda[l].route = "$connect"
  /\ known' = known \cup {lambda[l].conn}
  /\ Becomes(l, [lambda[l] EXCEPT !.route = "connected"])
  /\ UNCHANGED <<link, leaving, chan, queue, told, crossed, failures>>

(* closeRedisClient and closeDbConnection, and connect answers 200.        *)
Connects(l) ==
  /\ lambda[l].route = "connected"
  /\ link' = Opened(lambda[l].conn)
  /\ Becomes(l, Idle)
  /\ UNCHANGED <<leaving, redis, queue, told, crossed, failures>>

(* connect answers 200 whatever went wrong: the link opens without a key.  *)
ConnectErrs(l) ==
  /\ lambda[l].route = "$connect"
  /\ Fails
  /\ link' = Opened(lambda[l].conn)
  /\ Becomes(l, Idle)
  /\ UNCHANGED <<leaving, redis, queue, told, crossed>>

(* The timeout: API Gateway refuses the connection.                        *)
ConnectDies(l) ==
  /\ lambda[l].route \in {"$connect", "connected"}
  /\ Fails
  /\ link' = Refused(lambda[l].conn)
  /\ Becomes(l, Idle)
  /\ UNCHANGED <<leaving, redis, queue, told, crossed>>

(* Histories are of connected clients.                                     *)
Others(S, c) == {s \in S : s[2] # c}

(* The client leaves, the network fails or an administrator disconnects    *)
(* it: $disconnect follows unless the event is lost.                       *)
Closes(c) ==
  /\ link[c] \in {"connecting", "open"}
  /\ link' = [link EXCEPT ![c] = "closed"]
  /\ \/ leaving' = leaving \cup {c} /\ UNCHANGED failures
     \/ Fails /\ UNCHANGED leaving
  /\ told' = Others(told, c)
  /\ crossed' = Others(crossed, c)
  /\ queue' = [m \in Messages |-> [queue[m] EXCEPT !.owed = Others(@, c)]]
  /\ UNCHANGED <<redis, lambda>>

DisconnectStarts(l, c) ==
  /\ c \in leaving
  /\ leaving' = leaving \ {c}
  /\ Starts(l, [Idle EXCEPT !.route = "other", !.ends = {EndOf(<<None, c>>)}])
  /\ UNCHANGED <<link, redis, queue, told, crossed, failures>>

(* disconnectClient of a connection that is gone: endWsConnection if the   *)
(* client library returns the status 410, nothing if it throws.            *)
AdminDisconnect(l, c) ==
  /\ GoneOrNotYet(c)
  /\ Starts(l, [Idle EXCEPT !.route = "other", !.ends = {EndOf(<<None, c>>)}])
  /\ UNCHANGED <<link, leaving, redis, queue, told, crossed, failures>>

(* ping, or a join with a bad body or an unknown wallet: only an answer.   *)
Ping(l, c) ==
  /\ link[c] = "open"
  /\ Starts(l, [Idle EXCEPT !.route = "other", !.todo = {<<None, c>>}])
  /\ UNCHANGED <<link, leaving, redis, queue, told, crossed, failures>>

JoinStarts(l, c, w) ==
  /\ link[c] = "open"
  /\ Starts(l, [Idle EXCEPT !.route = "join", !.conn = c, !.wallets = {w}])
  /\ UNCHANGED <<link, leaving, redis, queue, told, crossed, failures>>

(* A cleanup under way that may take the key of s: it has still to visit   *)
(* it, or has found an earlier one.                                        *)
Threatened(s) == \E k \in Lambdas : \E e \in lambda[k].ends : s \in e.look \cup e.keys

(* The link may have closed meanwhile: the key is written all the same.    *)
wsJoinWallet(l) ==
  /\ lambda[l].route = "join"
  /\ \E w \in lambda[l].wallets :
       LET s == <<w, lambda[l].conn>>
       IN  /\ chan' = chan \cup {s}
           /\ crossed' = IF link[s[2]] = "open" /\ Threatened(s)
                         THEN crossed \cup {s} ELSE crossed \ {s}
           /\ Becomes(l, [lambda[l] EXCEPT !.wallets = {}, !.todo = {s}])
  /\ UNCHANGED <<link, leaving, known, queue, told, failures>>

-----------------------------------------------------------------------------
(* Messages                                                                *)

(* The daemon announces a transaction of these wallets; a place is used    *)
(* again once no lambda works on its last message.                         *)
sendRealtimeTx(m, ws) ==
  /\ queue[m] = NoMessage
  /\ \A l \in Lambdas : lambda[l].message # m
  /\ queue' = [queue EXCEPT ![m] =
                 [wallets |-> ws, owed |-> {s \in told \ crossed : s[1] \in ws}]]
  /\ UNCHANGED <<link, leaving, redis, lambda, told, crossed, failures>>

(* SQS delivers a message again while it is not deleted.                   *)
onNewTx(l, m) ==
  /\ queue[m] # NoMessage
  /\ Starts(l, [Idle EXCEPT !.route = "newTx", !.message = m,
                            !.look = queue[m].wallets \X Conns])
  /\ UNCHANGED <<link, leaving, redis, queue, told, crossed, failures>>

(* wsGetAllConnections: a broadcast, to whom has a key of its own.         *)
broadcast(l) ==
  /\ Starts(l, [Idle EXCEPT !.route = "other", !.look = {None} \X Conns])
  /\ UNCHANGED <<link, leaving, redis, queue, told, crossed, failures>>

(* A mutant: subscribers need a key of their own as well.                  *)
HasKeyKnown(t) == t[2] \in known /\ (t[1] = None \/ t \in chan)

(* The key a target's url is read from is there.                           *)
HasKey(t) == IF t[1] = None THEN t[2] \in known ELSE t \in chan

(* One key of wsGetWalletConnections or wsGetAllConnections.               *)
LooksUp(l) ==
  /\ \E t \in lambda[l].look :
       Becomes(l, [lambda[l] EXCEPT !.look = @ \ {t},
                                    !.todo = IF HasKey(t) THEN @ \cup {t} ELSE @])
  /\ UNCHANGED <<link, leaving, redis, queue, told, crossed, failures>>

(* Posts begin once the whole channel was looked up.                       *)
ToPost(job) == {t \in job.todo : \A k \in job.look : k[1] # t[1]}

(* sendMessageToClient: the target is told, is gone, or is not reached.    *)
Post(l, t) == [lambda[l] EXCEPT !.todo = @ \ {t}]

(* Whatever comes of it, the target was posted to.                         *)
Posted(l, t) ==
  queue' = IF lambda[l].message = None THEN queue
           ELSE [queue EXCEPT ![lambda[l].message].owed = @ \ {t}]

PostReaches(l) ==
  \E t \in ToPost(lambda[l]) :
    /\ link[t[2]] = "open"
    /\ Becomes(l, Post(l, t))
    /\ told' = IF lambda[l].route = "join" THEN told \cup {t} ELSE told
    /\ Posted(l, t)
    /\ UNCHANGED <<link, leaving, redis, crossed, failures>>

(* A mutant: a target that is gone is only logged.                         *)
GoneLogged(l, t) == Post(l, t)

(* GoneException: endWsConnection.                                         *)
Gone(l, t) == [Post(l, t) EXCEPT !.ends = @ \cup {EndOf(t)}]

PostIsGone(l) ==
  \E t \in ToPost(lambda[l]) :
    /\ GoneOrNotYet(t[2])
    /\ Becomes(l, Gone(l, t))
    /\ Posted(l, t)
    /\ UNCHANGED <<link, leaving, redis, told, crossed, failures>>

(* A mutant: any error ends the connection.                                *)
NotReachedEnds(l, t) == [Post(l, t) EXCEPT !.ends = @ \cup {EndOf(t)}]

(* Another error: alerted, the connection is kept.                         *)
NotReached(l, t) == Post(l, t)

PostFails(l) ==
  \E t \in ToPost(lambda[l]) :
    /\ Fails
    /\ Becomes(l, NotReached(l, t))
    /\ Posted(l, t)
    /\ UNCHANGED <<link, leaving, redis, told, crossed>>

-----------------------------------------------------------------------------
(* endWsConnection, and the end of a lambda                                *)

(* A key of the scan: to be deleted if it is there.                        *)
scanAll(l) ==
  \E e \in lambda[l].ends : \E s \in e.look :
    /\ Becomes(l, [lambda[l] EXCEPT !.ends = (@ \ {e}) \cup
         {[e EXCEPT !.look = @ \ {s}, !.keys = IF s \in chan THEN @ \cup {s} ELSE @]}])
    /\ UNCHANGED <<link, leaving, redis, queue, told, crossed, failures>>

exec(l) ==
  \E e \in lambda[l].ends :
    /\ e.look = {}
    /\ known' = known \ {e.target[2]}
    /\ chan' = chan \ e.keys
    /\ Becomes(l, [lambda[l] EXCEPT !.ends = @ \ {e}])
    /\ UNCHANGED <<link, leaving, queue, told, crossed, failures>>

(* Every promise of the handler is settled.                                *)
Settled(job) == job.wallets = {} /\ job.look = {} /\ job.todo = {} /\ job.ends = {}

(* SQS deletes the message when the lambda that got it succeeds.           *)
Ends(l) ==
  /\ lambda[l].route \notin {"idle", "$connect", "connected"}
  /\ Settled(lambda[l])
  /\ queue' = IF lambda[l].message = None THEN queue
              ELSE [queue EXCEPT ![lambda[l].message] = NoMessage]
  /\ Becomes(l, Idle)
  /\ UNCHANGED <<link, leaving, redis, told, crossed, failures>>

(* The timeout of two seconds, or an error of Redis or MySQL: the message  *)
(* stays in the queue.                                                     *)
Dies(l) ==
  /\ lambda[l].route \notin {"idle", "$connect", "connected"}
  /\ Fails
  /\ Becomes(l, Idle)
  /\ UNCHANGED <<link, leaving, redis, queue, told, crossed>>

-----------------------------------------------------------------------------
Steps(l) ==
  \/ initWsConnection(l) \/ Connects(l) \/ wsJoinWallet(l) \/ LooksUp(l)
  \/ PostReaches(l) \/ PostIsGone(l) \/ scanAll(l) \/ exec(l) \/ Ends(l)

Goes(l) == Steps(l) \/ ConnectErrs(l) \/ ConnectDies(l) \/ PostFails(l) \/ Dies(l)

Next ==
  \/ \E c \in Conns : Closes(c)
  \/ \E m \in Messages, ws \in (SUBSET Wallets) \ {{}} : sendRealtimeTx(m, ws)
  \/ \E l \in Lambdas :
       \/ Goes(l) \/ broadcast(l)
       \/ \E c \in Conns : \/ ConnectStarts(l, c) \/ DisconnectStarts(l, c)
                           \/ AdminDisconnect(l, c) \/ Ping(l, c)
                           \/ \E w \in Wallets : JoinStarts(l, c, w)
       \/ \E m \in Messages : onNewTx(l, m)

Spec == Init /\ [][Next]_vars

(* Lambdas run to their end or are ended, and SQS delivers what it holds   *)
(* however many other requests there are.                                  *)
FairSpec ==
  /\ Spec
  /\ \A l \in Lambdas : WF_vars(Steps(l))
  /\ \A m \in Messages : SF_vars(\E l \in Lambdas : onNewTx(l, m))

-----------------------------------------------------------------------------
(* Properties                                                              *)

(* A client that was told it listens to a wallet does so while it is       *)
(* connected, unless the key was written while a cleanup that started      *)
(* before the link was open could still take it: a cleanup that starts at  *)
(* any other time, in whichever lambda, takes no live subscription.        *)
LiveStaySubscribed == told \ crossed \subseteq chan

(* The same without the exception, as the client is told ("Listening",     *)
(* ws/join.ts:98).  It does not hold: a broadcast may post to a connection *)
(* that is still connecting and be answered 410; endWsConnection then      *)
(* scans after the link opened and the client joined a wallet.             *)
ListeningStaySubscribed == told \subseteq chan

(* A message leaves the queue only after a post to every connected client  *)
(* that was told of its subscription before the message, and whose         *)
(* subscription is not the exception of LiveStaySubscribed.                *)
PostedToSubscribers ==
  [][\A m \in Messages :
       queue[m] # NoMessage /\ queue'[m] = NoMessage => queue[m].owed = {}]_vars

(* The keys a lost $disconnect, or a join that crossed it, leaves behind   *)
(* go away as long as the wallet goes on having transactions.              *)
OrphansReaped ==
  \A s \in Subscriptions :
    []<>(\E m \in Messages : s[1] \in queue[m].wallets) =>
      (s \in chan /\ link[s[2]] = "closed" ~> s \notin chan)
=============================================================================
