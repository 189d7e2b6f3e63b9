------------------------- MODULE NotificationProofs -------------------------
(***************************************************************************)
(* What clients are told of new transactions: over their connections       *)
(* (WsSubscriptions) and on their devices (PushDevices).                   *)
(*                                                                         *)
(* For any clients, wallets, lambdas and places in the queue: what clients *)
(* were told stays true while they are connected, and no message leaves    *)
(* the queue before its subscribers were posted to.  Neither is inductive: *)
(* both depend on what lambdas still have to do (JobOK), the second on the *)
(* first, since a post goes to whom the keys name.                         *)
(*                                                                         *)
(* For any devices, wallets and requests in progress: rows keep their      *)
(* shape, say what their own wallet chose, and are not taken from a device *)
(* Firebase knows.  The last needs what is not in the property: a device   *)
(* waiting to be unregistered was called invalid, and a token that is no   *)
(* longer registered never is again (RemovingDead).                        *)
(***************************************************************************)
EXTENDS WsSubscriptions, PushDevices, TLAPS

(* A cleanup may take the key of s: nobody relies on it.                   *)
Spare(s, ln, ch, cr) == ln[s[2]] = "closed" \/ s \notin ch \/ s \in cr

(* A lambda still has to post to whom the message owes it.                 *)
Covers(j, q) ==
  q[j.message] # NoMessage => q[j.message].owed \subseteq j.look \cup j.todo

(* A join tells only of what it wrote and no cleanup takes, cleanups take  *)
(* only what may be spared, and no subscriber is forgotten.                *)
JobOK(j, ln, ch, cr, q) ==
  /\ j \in Job
  /\ j.route \in {"$connect", "connected", "join"} => j.conn \in Conns
  /\ j.route = "join" =>
       /\ j.look = {} /\ ln[j.conn] \in {"open", "closed"}
       /\ \A t \in j.todo : /\ t \in Subscriptions
                            /\ ln[t[2]] \in {"open", "closed"}
                            /\ t \in ch \/ t \in cr \/ ln[t[2]] = "closed"
  /\ \A e \in j.ends : \A s \in e.look \cup e.keys : Spare(s, ln, ch, cr)
  /\ j.route = "newTx" <=> j.message # None
  /\ j.route = "newTx" => Covers(j, q)

(* No key of a subscription is older than its link, clients that were told *)
(* are connected, and messages owe a post only to those that stay told.    *)
HistoriesOK ==
  /\ LiveStaySubscribed
  /\ \A s \in chan : link[s[2]] \in {"open", "closed"}
  /\ \A s \in told : link[s[2]] = "open"
  /\ \A m \in Messages : \A s \in queue[m].owed :
       s \in told \ crossed /\ s[1] \in queue[m].wallets

Inv == /\ TypeOK /\ HistoriesOK
       /\ \A l \in Lambdas : JobOK(lambda[l], link, chan, crossed, queue)

USE ClientsAssumption, WsAssumption, PushAssumption

LEMMA IdleOK ==
    ASSUME NEW ln, NEW ch, NEW cr, NEW q
    PROVE  Idle \in Job /\ JobOK(Idle, ln, ch, cr, q)
  <1>1. Idle \in Job
    BY DEF Idle, Job, Routes
  <1> QED BY <1>1 DEF JobOK, Idle

LEMMA InitInv == Init => Inv
  <1> SUFFICES ASSUME Init PROVE Inv
    OBVIOUS
  <1>1. MaxFailures \in Nat
    BY DEF ClientsAssumption
  <1>2. failures \in 0..MaxFailures
    BY <1>1 DEF Init
  <1>3. \A l \in Lambdas : lambda[l] = Idle /\ JobOK(lambda[l], link, chan, crossed, queue)
    BY IdleOK DEF Init
  <1>4. lambda \in [Lambdas -> Job]
    BY IdleOK DEF Init
  <1>5. TypeOK
    BY <1>2, <1>4 DEF Init, TypeOK
  <1>6. HistoriesOK
    BY DEF Init, LiveStaySubscribed, HistoriesOK, NoMessage
  <1> QED BY <1>3, <1>5, <1>6 DEF Inv

(* What a step must keep for the lambdas it is not of: open links stay     *)
(* open or close, keys go only where nobody relies on them, no cleanup     *)
(* comes to threaten more, and messages owe less.                          *)
LinksGo(ln, ln2) ==
  \A c \in Conns : ln[c] \in {"open", "closed"} => ln2[c] = ln[c] \/ ln2[c] = "closed"

KeysGo(ln2, ch, ch2, cr, cr2) ==
  \A s \in Subscriptions :
    s \in ch \/ s \in cr => s \in ch2 \/ s \in cr2 \/ ln2[s[2]] = "closed"

MessagesGo(q, q2) ==
  \A m \in Messages :
    q2[m] # NoMessage => q[m] # NoMessage /\ q2[m].owed \subseteq q[m].owed

LEMMA JobStays ==
    ASSUME NEW j, NEW ln, NEW ln2, NEW ch, NEW ch2, NEW cr, NEW cr2, NEW q, NEW q2,
           JobOK(j, ln, ch, cr, q),
           LinksGo(ln, ln2), KeysGo(ln2, ch, ch2, cr, cr2),
           \A e \in j.ends : \A s \in e.look \cup e.keys :
             Spare(s, ln, ch, cr) => Spare(s, ln2, ch2, cr2),
           j.message \in Messages /\ q2[j.message] # NoMessage =>
             q[j.message] # NoMessage /\ q2[j.message].owed \subseteq q[j.message].owed
    PROVE  JobOK(j, ln2, ch2, cr2, q2)
  <1>1. j \in Job
    BY DEF JobOK
  <1>2. j.message \in Messages \cup {None}
    BY <1>1 DEF Job
  <1>3. j.route = "join" =>
          /\ j.look = {} /\ ln2[j.conn] \in {"open", "closed"}
          /\ \A t \in j.todo : /\ t \in Subscriptions
                               /\ ln2[t[2]] \in {"open", "closed"}
                               /\ t \in ch2 \/ t \in cr2 \/ ln2[t[2]] = "closed"
    <2> SUFFICES ASSUME j.route = "join"
                 PROVE  /\ j.look = {} /\ ln2[j.conn] \in {"open", "closed"}
                        /\ \A t \in j.todo : /\ t \in Subscriptions
                                             /\ ln2[t[2]] \in {"open", "closed"}
                                             /\ t \in ch2 \/ t \in cr2 \/ ln2[t[2]] = "closed"
      OBVIOUS
    <2>1. j.look = {} /\ ln2[j.conn] \in {"open", "closed"}
      BY DEF JobOK, LinksGo
    <2>2. ASSUME NEW t \in j.todo
          PROVE  /\ t \in Subscriptions
                 /\ ln2[t[2]] \in {"open", "closed"}
                 /\ t \in ch2 \/ t \in cr2 \/ ln2[t[2]] = "closed"
      <3>1. /\ t \in Subscriptions
            /\ ln[t[2]] \in {"open", "closed"}
            /\ t \in ch \/ t \in cr \/ ln[t[2]] = "closed"
        BY DEF JobOK
      <3>2. t[2] \in Conns
        BY <3>1 DEF Subscriptions
      <3>3. ln2[t[2]] = ln[t[2]] \/ ln2[t[2]] = "closed"
        BY <3>1, <3>2 DEF LinksGo
      <3> QED BY <3>1, <3>3 DEF KeysGo
    <2> QED BY <2>1, <2>2
  <1>4. \A e \in j.ends : \A s \in e.look \cup e.keys : Spare(s, ln2, ch2, cr2)
    BY DEF JobOK
  <1>5. j.route = "newTx" => Covers(j, q2)
    BY <1>2 DEF JobOK, Covers
  <1> QED BY <1>1, <1>3, <1>4, <1>5 DEF JobOK

(* A step of one lambda.                                                   *)
LEMMA StepKeeps ==
    ASSUME Inv, TypeOK', HistoriesOK', NEW l \in Lambdas,
           \A k \in Lambdas : k # l => lambda'[k] = lambda[k],
           JobOK(lambda'[l], link', chan', crossed', queue'),
           LinksGo(link, link'), KeysGo(link', chan, chan', crossed, crossed'),
           \A k \in Lambdas : \A e \in lambda[k].ends : \A s \in e.look \cup e.keys :
             Spare(s, link, chan, crossed) => Spare(s, link', chan', crossed'),
           MessagesGo(queue, queue')
    PROVE  Inv'
  <1> SUFFICES ASSUME NEW k \in Lambdas, k # l
               PROVE  JobOK(lambda'[k], link', chan', crossed', queue')
    BY DEF Inv
  <1> DEFINE j == lambda[k]
  <1>1. JobOK(j, link, chan, crossed, queue) /\ lambda'[k] = j
    BY DEF Inv
  <1>2. \A e \in j.ends : \A s \in e.look \cup e.keys :
          Spare(s, link, chan, crossed) => Spare(s, link', chan', crossed')
    OBVIOUS
  <1>3. j.message \in Messages /\ queue'[j.message] # NoMessage =>
          queue[j.message] # NoMessage /\ queue'[j.message].owed \subseteq queue[j.message].owed
    BY DEF MessagesGo
  <1> HIDE DEF j
  <1>4. JobOK(j, link', chan', crossed', queue')
    BY <1>1, <1>2, <1>3, JobStays
  <1> QED BY <1>1, <1>4

(* The lambdas where one goes on as j.                                     *)
LEMMA BecomesType ==
    ASSUME Inv, NEW l \in Lambdas, NEW j \in Job, Becomes(l, j)
    PROVE  /\ lambda' \in [Lambdas -> Job]
           /\ lambda'[l] = j
           /\ \A k \in Lambdas : k # l => lambda'[k] = lambda[k]
  BY DEF Becomes, Inv, TypeOK

(* A step of one lambda that writes no key, no link and no message.        *)
LEMMA LocalKeeps ==
    ASSUME Inv, NEW l \in Lambdas, NEW j, Becomes(l, j),
           JobOK(j, link, chan, crossed, queue),
           UNCHANGED <<link, leaving, redis, queue, told, crossed>>,
           failures' \in 0..MaxFailures
    PROVE  Inv'
  <1>1. /\ lambda' \in [Lambdas -> Job]
        /\ lambda'[l] = j
        /\ \A k \in Lambdas : k # l => lambda'[k] = lambda[k]
    BY BecomesType DEF JobOK
  <1>2. /\ link' = link /\ leaving' = leaving /\ known' = known /\ chan' = chan
        /\ queue' = queue /\ told' = told /\ crossed' = crossed
    BY DEF redis
  <1>3. TypeOK'
    BY <1>1, <1>2 DEF Inv, TypeOK
  <1>4. HistoriesOK'
    BY <1>2 DEF Inv, HistoriesOK, LiveStaySubscribed
  <1>5. \A k \in Lambdas : JobOK(lambda'[k], link', chan', crossed', queue')
    BY <1>1, <1>2 DEF Inv
  <1> QED BY <1>3, <1>4, <1>5 DEF Inv

-----------------------------------------------------------------------------
(* A request starts                                                        *)

(* One of those that write nothing yet.                                    *)
LEMMA StartsKeeps ==
    ASSUME Inv, NEW l \in Lambdas, NEW j, Starts(l, j),
           JobOK(j, link, chan, crossed, queue),
           UNCHANGED <<link, leaving, redis, queue, told, crossed, failures>>
    PROVE  Inv'
  <1>1. Becomes(l, j) /\ failures' \in 0..MaxFailures
    BY DEF Starts, Becomes, Inv, TypeOK
  <1> QED BY <1>1, LocalKeeps

(* A connection that is gone, or not yet there, has no key to be missed.   *)
LEMMA EndOfOK ==
    ASSUME Inv, NEW t \in Targets, GoneOrNotYet(t[2])
    PROVE  /\ EndOf(t) \in Cleanup
           /\ \A s \in EndOf(t).look \cup EndOf(t).keys : Spare(s, link, chan, crossed)
  <1>1. t[2] \in Conns
    BY DEF Targets
  <1>2. EndOf(t) \in Cleanup
    BY <1>1 DEF EndOf, Cleanup, Subscriptions
  <1>3. ASSUME NEW s \in EndOf(t).look \cup EndOf(t).keys
        PROVE  Spare(s, link, chan, crossed)
    <2>1. s[2] = t[2]
      BY DEF EndOf
    <2> QED BY <2>1 DEF Spare, GoneOrNotYet, Inv, HistoriesOK
  <1> QED BY <1>2, <1>3

LEMMA EndStartsOK ==
    ASSUME Inv, NEW c \in Conns, GoneOrNotYet(c)
    PROVE  JobOK([Idle EXCEPT !.route = "other", !.ends = {EndOf(<<None, c>>)}],
                 link, chan, crossed, queue)
  <1> DEFINE t == <<None, c>>
             j == [Idle EXCEPT !.route = "other", !.ends = {EndOf(t)}]
  <1>1. t \in Targets /\ t[2] = c
    BY DEF Targets
  <1>2. /\ EndOf(t) \in Cleanup
        /\ \A s \in EndOf(t).look \cup EndOf(t).keys : Spare(s, link, chan, crossed)
    BY <1>1, EndOfOK
  <1>3. j \in Job
    BY <1>2 DEF Job, Idle, Routes
  <1>4. j.ends = {EndOf(t)} /\ j.route = "other" /\ j.message = None
    BY DEF Idle
  <1> QED BY <1>2, <1>3, <1>4 DEF JobOK

LEMMA RequestsKeep ==
    ASSUME Inv, NEW l \in Lambdas,
           \/ broadcast(l)
           \/ \E c \in Conns : AdminDisconnect(l, c) \/ Ping(l, c)
                               \/ \E w \in Wallets : JoinStarts(l, c, w)
           \/ \E m \in Messages : onNewTx(l, m)
    PROVE  Inv'
  <1>1. CASE broadcast(l)
    <2> DEFINE j == [Idle EXCEPT !.route = "other", !.look = {None} \X Conns]
    <2>1. j \in Job
      BY DEF Job, Idle, Routes, Targets
    <2>2. JobOK(j, link, chan, crossed, queue)
      BY <2>1 DEF JobOK, Idle
    <2> QED BY <1>1, <2>2, StartsKeeps DEF broadcast
  <1>2. ASSUME NEW c \in Conns, AdminDisconnect(l, c) PROVE Inv'
    BY <1>2, EndStartsOK, StartsKeeps DEF AdminDisconnect
  <1>3. ASSUME NEW c \in Conns, Ping(l, c) PROVE Inv'
    <2> DEFINE j == [Idle EXCEPT !.route = "other", !.todo = {<<None, c>>}]
    <2>1. <<None, c>> \in Targets
      BY DEF Targets
    <2>2. j \in Job
      BY <2>1 DEF Job, Idle, Routes
    <2>3. JobOK(j, link, chan, crossed, queue)
      BY <2>2 DEF JobOK, Idle
    <2> QED BY <1>3, <2>3, StartsKeeps DEF Ping
  <1>4. ASSUME NEW c \in Conns, NEW w \in Wallets, JoinStarts(l, c, w) PROVE Inv'
    <2> DEFINE j == [Idle EXCEPT !.route = "join", !.conn = c, !.wallets = {w}]
    <2>1. j \in Job
      BY DEF Job, Idle, Routes
    <2>2. link[c] = "open"
      BY <1>4 DEF JoinStarts
    <2>3. JobOK(j, link, chan, crossed, queue)
      BY <2>1, <2>2 DEF JobOK, Idle
    <2> QED BY <1>4, <2>3, StartsKeeps DEF JoinStarts
  <1>5. ASSUME NEW m \in Messages, onNewTx(l, m) PROVE Inv'
    <2> DEFINE j == [Idle EXCEPT !.route = "newTx", !.message = m,
                                 !.look = queue[m].wallets \X Conns]
    <2>1. queue[m] \in Message /\ queue[m].owed \subseteq Subscriptions
      BY <1>5 DEF onNewTx, Inv, TypeOK, Message
    <2>2. queue[m].wallets \X Conns \subseteq Targets
      BY <2>1 DEF Message, Targets
    <2>3. j \in Job /\ m # None
      BY <2>2 DEF Job, Idle, Routes
    <2>4. Covers(j, queue)
      <3> SUFFICES ASSUME NEW s \in queue[m].owed PROVE s \in queue[m].wallets \X Conns
        BY DEF Covers, Idle
      <3> QED BY <2>1 DEF Subscriptions, Inv, HistoriesOK
    <2>5. JobOK(j, link, chan, crossed, queue)
      BY <2>3, <2>4 DEF JobOK, Idle
    <2> QED BY <1>5, <2>5, StartsKeeps DEF onNewTx
  <1> QED BY <1>1, <1>2, <1>3, <1>4, <1>5

LEMMA DisconnectKeeps ==
    ASSUME Inv, NEW l \in Lambdas, NEW c \in Conns, DisconnectStarts(l, c)
    PROVE  Inv'
  <1> DEFINE j == [Idle EXCEPT !.route = "other", !.ends = {EndOf(<<None, c>>)}]
  <1>1. GoneOrNotYet(c)
    BY DEF DisconnectStarts, Inv, TypeOK, GoneOrNotYet
  <1>2. JobOK(j, link, chan, crossed, queue)
    BY <1>1, EndStartsOK
  <1>3. Becomes(l, j) /\ leaving' \subseteq leaving
        /\ UNCHANGED <<link, known, chan, queue, told, crossed, failures>>
    BY DEF DisconnectStarts, Starts, Becomes, redis
  <1> HIDE DEF j
  <1>4. /\ lambda' \in [Lambdas -> Job]
        /\ lambda'[l] = j
        /\ \A k \in Lambdas : k # l => lambda'[k] = lambda[k]
    BY <1>2, <1>3, BecomesType DEF JobOK
  <1>5. TypeOK'
    BY <1>3, <1>4 DEF Inv, TypeOK
  <1>6. HistoriesOK'
    BY <1>3 DEF Inv, HistoriesOK, LiveStaySubscribed
  <1>7. \A k \in Lambdas : JobOK(lambda'[k], link', chan', crossed', queue')
    BY <1>2, <1>3, <1>4 DEF Inv
  <1> QED BY <1>5, <1>6, <1>7 DEF Inv

-----------------------------------------------------------------------------
(* A lambda goes on                                                        *)

(* Steps that write nothing outside the lambda.                            *)
LEMMA LocalSteps ==
    ASSUME Inv, NEW l \in Lambdas, LooksUp(l) \/ scanAll(l) \/ Dies(l)
    PROVE  Inv'
  <1> DEFINE job == lambda[l]
  <1>0. JobOK(job, link, chan, crossed, queue) /\ job \in Job
    BY DEF Inv, JobOK
  <1>f. failures \in 0..MaxFailures /\ (Fails => failures' \in 0..MaxFailures)
    BY DEF Inv, TypeOK, Fails
  <1>1. CASE LooksUp(l)
    <2>1. PICK t \in job.look :
            Becomes(l, [job EXCEPT !.look = @ \ {t},
                                   !.todo = IF HasKey(t) THEN @ \cup {t} ELSE @])
      BY <1>1 DEF LooksUp
    <2> DEFINE j == [job EXCEPT !.look = @ \ {t},
                                !.todo = IF HasKey(t) THEN @ \cup {t} ELSE @]
    <2>2. t \in Targets
      BY <1>0 DEF Job
    <2>3. j \in Job
      BY <1>0, <2>2 DEF Job
    <2>4. ASSUME j.route = "newTx" PROVE Covers(j, queue)
      <3> SUFFICES ASSUME queue[job.message] # NoMessage,
                          NEW s \in queue[job.message].owed
                   PROVE  s \in j.look \cup j.todo
        BY <1>0 DEF Covers, Job
      <3>1. job.route = "newTx" /\ job.message \in Messages
        BY <1>0, <2>4 DEF JobOK, Job
      <3>2. s \in job.look \cup job.todo
        BY <1>0, <3>1 DEF JobOK, Covers
      <3>3. s \in chan /\ s \in Subscriptions
        BY <3>1 DEF Inv, TypeOK, HistoriesOK, LiveStaySubscribed
      <3>4. HasKey(s)
        BY <3>3 DEF HasKey, Subscriptions, ClientsAssumption
      <3> QED BY <1>0, <3>2, <3>4 DEF Job
    <2>5. j.route = "join" => j.todo = job.todo
      <3>1. job.route = "join" => job.look = {}
        BY <1>0 DEF JobOK
      <3> QED BY <1>0, <3>1 DEF Job
    <2>6. JobOK(j, link, chan, crossed, queue)
      BY <1>0, <2>3, <2>4, <2>5 DEF JobOK, Job
    <2> QED BY <1>1, <1>f, <2>1, <2>6, LocalKeeps DEF LooksUp
  <1>2. CASE scanAll(l)
    <2>0. PICK e \in job.ends : \E s \in e.look :
            Becomes(l, [job EXCEPT !.ends = (@ \ {e}) \cup
              {[e EXCEPT !.look = @ \ {s}, !.keys = IF s \in chan THEN @ \cup {s} ELSE @]}])
      BY <1>2 DEF scanAll
    <2>1. PICK s \in e.look :
            Becomes(l, [job EXCEPT !.ends = (@ \ {e}) \cup
              {[e EXCEPT !.look = @ \ {s}, !.keys = IF s \in chan THEN @ \cup {s} ELSE @]}])
      BY <2>0
    <2> DEFINE f == [e EXCEPT !.look = @ \ {s}, !.keys = IF s \in chan THEN @ \cup {s} ELSE @]
               j == [job EXCEPT !.ends = (@ \ {e}) \cup {f}]
    <2>2. e \in Cleanup
      BY <1>0 DEF Job
    <2>3. f \in Cleanup /\ f.look \cup f.keys \subseteq e.look \cup e.keys
      BY <2>2 DEF Cleanup
    <2> HIDE DEF f
    <2>4. j \in Job
      BY <1>0, <2>3 DEF Job
    <2>5. \A d \in j.ends : \A x \in d.look \cup d.keys : Spare(x, link, chan, crossed)
      BY <1>0, <2>3 DEF Job, JobOK
    <2>6. j.route = "newTx" => Covers(j, queue)
      BY <1>0 DEF Covers, JobOK, Job
    <2>7. JobOK(j, link, chan, crossed, queue)
      BY <1>0, <2>4, <2>5, <2>6 DEF JobOK, Job
    <2>8. failures' \in 0..MaxFailures /\ UNCHANGED <<link, leaving, redis, queue, told, crossed>>
      BY <1>2, <1>f DEF scanAll
    <2> QED BY <2>1, <2>7, <2>8, LocalKeeps DEF f
  <1>3. CASE Dies(l)
    BY <1>3, <1>f, IdleOK, LocalKeeps DEF Dies
  <1> QED BY <1>1, <1>2, <1>3

(* A message owes less, and stays a message.                               *)
LEMMA OwesLess ==
    ASSUME NEW q \in Message \cup {NoMessage}, NEW T
    PROVE  LET r == [q EXCEPT !.owed = @ \ T]
           IN  /\ r \in Message \cup {NoMessage}
               /\ q = NoMessage <=> r = NoMessage
               /\ r.owed = q.owed \ T
               /\ r.wallets = q.wallets
  <1> DEFINE r == [q EXCEPT !.owed = @ \ T]
  <1>1. CASE q \in Message
    <2>1. q.wallets # {} /\ NoMessage.wallets = {}
      BY <1>1 DEF Message, NoMessage
    <2>2. r \in Message /\ r.owed = q.owed \ T /\ r.wallets = q.wallets
      BY <1>1 DEF Message
    <2> HIDE DEF r
    <2>3. q # NoMessage /\ r # NoMessage
      BY <2>1, <2>2
    <2> QED BY <2>2, <2>3 DEF r
  <1>2. CASE q = NoMessage
    <2>1. r = NoMessage /\ r.owed = q.owed \ T /\ r.wallets = q.wallets
      BY <1>2 DEF NoMessage
    <2> QED BY <1>2, <2>1
  <1> QED BY <1>1, <1>2

(* A post is made, whatever comes of it.                                   *)
LEMMA PostedOK ==
    ASSUME Inv, NEW l \in Lambdas, NEW t \in lambda[l].todo, Posted(l, t)
    PROVE  /\ queue' \in [Messages -> Message \cup {NoMessage}]
           /\ MessagesGo(queue, queue')
           /\ \A m \in Messages : queue[m] # NoMessage => queue'[m] # NoMessage
           /\ \A m \in Messages : queue'[m].owed \subseteq queue[m].owed
                                  /\ queue'[m].wallets = queue[m].wallets
           /\ JobOK(Post(l, t), link, chan, crossed, queue')
           /\ GoneOrNotYet(t[2]) => JobOK(Gone(l, t), link, chan, crossed, queue')
  <1> DEFINE job == lambda[l]
             m == lambda[l].message
  <1>0. JobOK(job, link, chan, crossed, queue) /\ job \in Job
    BY DEF Inv, JobOK
  <1>1. m \in Messages \cup {None} /\ t \in Targets /\ None \notin Messages
    BY <1>0 DEF Job, WsAssumption
  <1>2. queue \in [Messages -> Message \cup {NoMessage}]
    BY DEF Inv, TypeOK
  <1>3. \A n \in Messages :
          queue'[n] = IF n = m THEN [queue[n] EXCEPT !.owed = @ \ {t}] ELSE queue[n]
    BY <1>1, <1>2 DEF Posted
  <1>4. ASSUME NEW n \in Messages
        PROVE  /\ [queue[n] EXCEPT !.owed = @ \ {t}] \in Message \cup {NoMessage}
               /\ queue[n] = NoMessage <=> [queue[n] EXCEPT !.owed = @ \ {t}] = NoMessage
               /\ [queue[n] EXCEPT !.owed = @ \ {t}].owed = queue[n].owed \ {t}
               /\ [queue[n] EXCEPT !.owed = @ \ {t}].wallets = queue[n].wallets
    <2> DEFINE q == queue[n]
    <2>1. q \in Message \cup {NoMessage}
      BY <1>2
    <2> HIDE DEF q
    <2>2. LET r == [q EXCEPT !.owed = @ \ {t}]
          IN  /\ r \in Message \cup {NoMessage}
              /\ q = NoMessage <=> r = NoMessage
              /\ r.owed = q.owed \ {t}
              /\ r.wallets = q.wallets
      BY <2>1, OwesLess
    <2> QED BY <2>2 DEF q
  <1>5. queue' \in [Messages -> Message \cup {NoMessage}]
    <2>1. CASE m = None
      BY <1>2, <2>1 DEF Posted
    <2>2. CASE m \in Messages
      <3>1. queue' = [queue EXCEPT ![m] = [queue[m] EXCEPT !.owed = @ \ {t}]]
        BY <1>1, <2>2 DEF Posted
      <3> QED BY <1>2, <1>4, <2>2, <3>1
    <2> QED BY <1>1, <2>1, <2>2
  <1>6. \A n \in Messages : /\ queue[n] # NoMessage <=> queue'[n] # NoMessage
                            /\ queue'[n].owed \subseteq queue[n].owed
                            /\ queue'[n].wallets = queue[n].wallets
    BY <1>3, <1>4
  <1>7. MessagesGo(queue, queue')
    BY <1>6 DEF MessagesGo
  <1>8. ASSUME NEW j \in Job, j.route = job.route, j.conn = job.conn, j.message = m,
               j.look = job.look, j.todo = job.todo \ {t},
               \A e \in j.ends : \A s \in e.look \cup e.keys : Spare(s, link, chan, crossed)
        PROVE  JobOK(j, link, chan, crossed, queue')
    <2>1. j.route = "newTx" => Covers(j, queue')
      <3> SUFFICES ASSUME j.route = "newTx", queue'[m] # NoMessage
                   PROVE  queue'[m].owed \subseteq j.look \cup j.todo
        BY <1>8 DEF Covers
      <3>1. m \in Messages
        BY <1>0, <1>1, <1>8 DEF JobOK
      <3>2. queue'[m].owed = queue[m].owed \ {t} /\ queue[m] # NoMessage
        BY <1>3, <1>4, <1>6, <3>1
      <3>3. queue[m].owed \subseteq job.look \cup job.todo
        BY <1>0, <1>8, <3>2 DEF JobOK, Covers
      <3> QED BY <1>8, <3>2, <3>3
    <2> QED BY <1>0, <1>8, <2>1 DEF JobOK
  <1>9. JobOK(Post(l, t), link, chan, crossed, queue')
    <2> DEFINE j == Post(l, t)
    <2>1. /\ j \in Job /\ j.route = job.route /\ j.conn = job.conn /\ j.message = m
          /\ j.look = job.look /\ j.todo = job.todo \ {t} /\ j.ends = job.ends
      BY <1>0 DEF Post, Job
    <2>2. \A e \in j.ends : \A s \in e.look \cup e.keys : Spare(s, link, chan, crossed)
      BY <1>0, <2>1 DEF JobOK
    <2> HIDE DEF j
    <2>3. JobOK(j, link, chan, crossed, queue')
      BY <1>8, <2>1, <2>2
    <2> QED BY <2>3 DEF j
  <1>10. ASSUME GoneOrNotYet(t[2]) PROVE JobOK(Gone(l, t), link, chan, crossed, queue')
    <2> DEFINE j == Gone(l, t)
    <2>0. /\ EndOf(t) \in Cleanup
          /\ \A s \in EndOf(t).look \cup EndOf(t).keys : Spare(s, link, chan, crossed)
      BY <1>1, <1>10, EndOfOK
    <2>1. /\ j \in Job /\ j.route = job.route /\ j.conn = job.conn /\ j.message = m
          /\ j.look = job.look /\ j.todo = job.todo \ {t} /\ j.ends = job.ends \cup {EndOf(t)}
      BY <1>0, <2>0 DEF Post, Gone, Job
    <2>2. \A e \in j.ends : \A s \in e.look \cup e.keys : Spare(s, link, chan, crossed)
      BY <1>0, <2>0, <2>1 DEF JobOK
    <2> HIDE DEF j
    <2>3. JobOK(j, link, chan, crossed, queue')
      BY <1>8, <2>1, <2>2
    <2> QED BY <2>3 DEF j
  <1> QED BY <1>5, <1>6, <1>7, <1>9, <1>10

LEMMA PostsKeep ==
    ASSUME Inv, NEW l \in Lambdas, PostReaches(l) \/ PostIsGone(l) \/ PostFails(l)
    PROVE  Inv' /\ \A m \in Messages : queue[m] # NoMessage => queue'[m] # NoMessage
  <1>1. PICK t, j :
          /\ t \in lambda[l].todo
          /\ Posted(l, t)
          /\ Becomes(l, j)
          /\ j = Post(l, t) \/ (GoneOrNotYet(t[2]) /\ j = Gone(l, t))
          /\ UNCHANGED <<link, leaving, redis, crossed>>
          /\ failures' \in 0..MaxFailures
          /\ \/ told' = told
             \/ lambda[l].route = "join" /\ link[t[2]] = "open" /\ told' = told \cup {t}
    <2>f. failures \in 0..MaxFailures /\ (Fails => failures' \in 0..MaxFailures)
      BY DEF Inv, TypeOK, Fails
    <2>1. CASE PostReaches(l)
      <3>1. PICK t \in ToPost(lambda[l]) :
              /\ link[t[2]] = "open"
              /\ Becomes(l, Post(l, t))
              /\ told' = IF lambda[l].route = "join" THEN told \cup {t} ELSE told
              /\ Posted(l, t)
              /\ UNCHANGED <<link, leaving, redis, crossed, failures>>
        BY <2>1 DEF PostReaches
      <3> QED BY <2>f, <3>1 DEF ToPost
    <2>2. CASE PostIsGone(l)
      <3>1. PICK t \in ToPost(lambda[l]) :
              /\ GoneOrNotYet(t[2])
              /\ Becomes(l, Gone(l, t))
              /\ Posted(l, t)
              /\ UNCHANGED <<link, leaving, redis, told, crossed, failures>>
        BY <2>2 DEF PostIsGone
      <3> QED BY <2>f, <3>1 DEF ToPost
    <2>3. CASE PostFails(l)
      <3>1. PICK t \in ToPost(lambda[l]) :
              /\ Fails
              /\ Becomes(l, Post(l, t))
              /\ Posted(l, t)
              /\ UNCHANGED <<link, leaving, redis, told, crossed>>
        BY <2>3 DEF PostFails, NotReached
      <3> QED BY <2>f, <3>1 DEF ToPost
    <2> QED BY <2>1, <2>2, <2>3
  <1>2. /\ queue' \in [Messages -> Message \cup {NoMessage}]
        /\ MessagesGo(queue, queue')
        /\ \A m \in Messages : queue[m] # NoMessage => queue'[m] # NoMessage
        /\ \A m \in Messages : queue'[m].owed \subseteq queue[m].owed
                               /\ queue'[m].wallets = queue[m].wallets
        /\ JobOK(j, link, chan, crossed, queue')
    BY <1>1, PostedOK
  <1>3. /\ lambda' \in [Lambdas -> Job]
        /\ lambda'[l] = j
        /\ \A k \in Lambdas : k # l => lambda'[k] = lambda[k]
    BY <1>1, <1>2, BecomesType DEF JobOK
  <1>4. /\ link' = link /\ leaving' = leaving /\ known' = known /\ chan' = chan
        /\ crossed' = crossed
    BY <1>1 DEF redis
  <1>5. told' = told \/ (t \in Subscriptions /\ link[t[2]] = "open" /\ (t \in chan \/ t \in crossed)
                         /\ told' = told \cup {t})
    BY <1>1 DEF Inv, JobOK
  <1>6. TypeOK'
    BY <1>1, <1>2, <1>3, <1>4, <1>5 DEF Inv, TypeOK
  <1>7. HistoriesOK'
    <2>1. LiveStaySubscribed' /\ \A s \in told' : link'[s[2]] = "open"
      BY <1>4, <1>5 DEF Inv, HistoriesOK, LiveStaySubscribed
    <2>2. told \subseteq told'
      BY <1>5
    <2> QED BY <1>2, <1>4, <2>1, <2>2 DEF Inv, HistoriesOK
  <1>8. LinksGo(link, link') /\ KeysGo(link', chan, chan', crossed, crossed')
    BY <1>4 DEF LinksGo, KeysGo
  <1>9. \A k \in Lambdas : \A e \in lambda[k].ends : \A s \in e.look \cup e.keys :
          Spare(s, link, chan, crossed) => Spare(s, link', chan', crossed')
    BY <1>4
  <1>10. JobOK(lambda'[l], link', chan', crossed', queue')
    BY <1>2, <1>3, <1>4
  <1> QED BY <1>2, <1>3, <1>6, <1>7, <1>8, <1>9, <1>10, StepKeeps

-----------------------------------------------------------------------------
(* Steps that write links, keys or messages                                *)

(* A connection is asked for, opens or is refused.                         *)
LEMMA ConnectKeeps ==
    ASSUME Inv, NEW l \in Lambdas,
           \/ \E c \in Conns : ConnectStarts(l, c)
           \/ initWsConnection(l) \/ Connects(l) \/ ConnectErrs(l) \/ ConnectDies(l)
    PROVE  Inv'
  <1>0. JobOK(lambda[l], link, chan, crossed, queue) /\ lambda[l] \in Job
    BY DEF Inv, JobOK
  <1>1. PICK j :
          /\ Becomes(l, j)
          /\ j \in Job /\ JobOK(j, link', chan, crossed, queue)
          /\ link' \in [Conns -> {"new", "connecting", "open", "closed"}]
          /\ \A d \in Conns : link[d] \in {"open", "closed"} => link'[d] = link[d]
          /\ known' \subseteq Conns
          /\ UNCHANGED <<leaving, chan, queue, told, crossed>>
          /\ failures' \in 0..MaxFailures
    <2>f. failures \in 0..MaxFailures /\ (Fails => failures' \in 0..MaxFailures)
      BY DEF Inv, TypeOK, Fails
    <2>1. ASSUME NEW c \in Conns, ConnectStarts(l, c)
          PROVE  \E j : /\ Becomes(l, j)
                        /\ j \in Job /\ JobOK(j, link', chan, crossed, queue)
                        /\ link' \in [Conns -> {"new", "connecting", "open", "closed"}]
                        /\ \A d \in Conns : link[d] \in {"open", "closed"} => link'[d] = link[d]
                        /\ known' \subseteq Conns
                        /\ UNCHANGED <<leaving, chan, queue, told, crossed>>
                        /\ failures' \in 0..MaxFailures
      <3> DEFINE j == [Idle EXCEPT !.route = "$connect", !.conn = c]
      <3>1. j \in Job
        BY DEF Job, Idle, Routes
      <3>2. JobOK(j, link', chan, crossed, queue)
        BY <3>1 DEF JobOK, Idle
      <3>3. Becomes(l, j)
        BY <2>1 DEF ConnectStarts, Starts, Becomes
      <3> HIDE DEF j
      <3>4. /\ link' \in [Conns -> {"new", "connecting", "open", "closed"}]
            /\ \A d \in Conns : link[d] \in {"open", "closed"} => link'[d] = link[d]
            /\ known' \subseteq Conns
            /\ UNCHANGED <<leaving, chan, queue, told, crossed>>
            /\ failures' \in 0..MaxFailures
        BY <2>1 DEF ConnectStarts, redis, Inv, TypeOK
      <3> QED BY <3>1, <3>2, <3>3, <3>4
    <2>2. ASSUME initWsConnection(l)
          PROVE  \E j : /\ Becomes(l, j)
                        /\ j \in Job /\ JobOK(j, link', chan, crossed, queue)
                        /\ link' \in [Conns -> {"new", "connecting", "open", "closed"}]
                        /\ \A d \in Conns : link[d] \in {"open", "closed"} => link'[d] = link[d]
                        /\ known' \subseteq Conns
                        /\ UNCHANGED <<leaving, chan, queue, told, crossed>>
                        /\ failures' \in 0..MaxFailures
      <3> DEFINE j == [lambda[l] EXCEPT !.route = "connected"]
      <3>1. j \in Job /\ lambda[l].conn \in Conns
        BY <1>0, <2>2 DEF Job, Routes, JobOK, initWsConnection
      <3>2. JobOK(j, link, chan, crossed, queue)
        BY <1>0, <2>2, <3>1 DEF JobOK, Job, initWsConnection
      <3>3. Becomes(l, j) /\ link' = link /\ known' = known \cup {lambda[l].conn}
            /\ UNCHANGED <<leaving, chan, queue, told, crossed, failures>>
        BY <2>2 DEF initWsConnection
      <3> HIDE DEF j
      <3> QED BY <2>f, <3>1, <3>2, <3>3 DEF Inv, TypeOK
    <2>3. ASSUME Connects(l) \/ ConnectErrs(l) \/ ConnectDies(l)
          PROVE  \E j : /\ Becomes(l, j)
                        /\ j \in Job /\ JobOK(j, link', chan, crossed, queue)
                        /\ link' \in [Conns -> {"new", "connecting", "open", "closed"}]
                        /\ \A d \in Conns : link[d] \in {"open", "closed"} => link'[d] = link[d]
                        /\ known' \subseteq Conns
                        /\ UNCHANGED <<leaving, chan, queue, told, crossed>>
                        /\ failures' \in 0..MaxFailures
      <3> DEFINE c == lambda[l].conn
      <3>1. c \in Conns
        BY <1>0, <2>3 DEF JobOK, Connects, ConnectErrs, ConnectDies
      <3>2. /\ Becomes(l, Idle)
            /\ link' = Opened(c) \/ link' = Refused(c)
            /\ UNCHANGED <<leaving, known, chan, queue, told, crossed>>
            /\ failures' \in 0..MaxFailures
        BY <2>f, <2>3 DEF Connects, ConnectErrs, ConnectDies, redis
      <3>3. /\ link' \in [Conns -> {"new", "connecting", "open", "closed"}]
            /\ \A d \in Conns : link[d] \in {"open", "closed"} => link'[d] = link[d]
        BY <3>1, <3>2 DEF Opened, Refused, Inv, TypeOK
      <3>4. Idle \in Job /\ JobOK(Idle, link', chan, crossed, queue)
        BY IdleOK
      <3> QED BY <3>2, <3>3, <3>4 DEF Inv, TypeOK
    <2> QED BY <2>1, <2>2, <2>3
  <1>2. /\ lambda' \in [Lambdas -> Job]
        /\ lambda'[l] = j
        /\ \A k \in Lambdas : k # l => lambda'[k] = lambda[k]
    BY <1>1, BecomesType
  <1>3. TypeOK'
    <2>1. leaving' \subseteq {c \in Conns : link'[c] = "closed"}
      BY <1>1 DEF Inv, TypeOK
    <2> QED BY <1>1, <1>2, <2>1 DEF Inv, TypeOK
  <1>4. HistoriesOK'
    <2>1. \A s \in Subscriptions : s[2] \in Conns
      BY DEF Subscriptions
    <2> QED BY <1>1, <2>1 DEF Inv, TypeOK, HistoriesOK, LiveStaySubscribed
  <1>5. LinksGo(link, link') /\ KeysGo(link', chan, chan', crossed, crossed')
    BY <1>1 DEF LinksGo, KeysGo
  <1>6. \A k \in Lambdas : \A e \in lambda[k].ends : \A s \in e.look \cup e.keys :
          Spare(s, link, chan, crossed) => Spare(s, link', chan', crossed')
    <2> SUFFICES ASSUME NEW k \in Lambdas, NEW e \in lambda[k].ends, NEW s \in e.look \cup e.keys,
                        link[s[2]] = "closed"
                 PROVE  link'[s[2]] = "closed"
      BY <1>1 DEF Spare
    <2>1. s \in Subscriptions
      BY DEF Inv, TypeOK, Job, Cleanup
    <2>2. s[2] \in Conns
      BY <2>1 DEF Subscriptions
    <2> QED BY <1>1, <2>2
  <1>7. JobOK(lambda'[l], link', chan', crossed', queue') /\ MessagesGo(queue, queue')
    BY <1>1, <1>2 DEF MessagesGo
  <1> QED BY <1>2, <1>3, <1>4, <1>5, <1>6, <1>7, StepKeeps

LEMMA ClosesKeeps ==
    ASSUME Inv, NEW c \in Conns, Closes(c)
    PROVE  Inv' /\ \A m \in Messages : queue[m] # NoMessage => queue'[m] # NoMessage
  <1>1. /\ link' = [link EXCEPT ![c] = "closed"]
        /\ leaving' = leaving \/ leaving' = leaving \cup {c}
        /\ told' = Others(told, c) /\ crossed' = Others(crossed, c)
        /\ queue' = [m \in Messages |-> [queue[m] EXCEPT !.owed = Others(@, c)]]
        /\ UNCHANGED <<known, chan, lambda>>
        /\ failures' \in 0..MaxFailures
    BY DEF Closes, redis, Fails, Inv, TypeOK
  <1>2. /\ link' \in [Conns -> {"new", "connecting", "open", "closed"}]
        /\ \A d \in Conns : link'[d] = IF d = c THEN "closed" ELSE link[d]
    BY <1>1 DEF Inv, TypeOK
  <1>3. leaving' \subseteq {d \in Conns : link'[d] = "closed"}
    BY <1>1, <1>2 DEF Inv, TypeOK
  <1>4. ASSUME NEW m \in Messages
        PROVE  /\ queue'[m] \in Message \cup {NoMessage}
               /\ queue[m] = NoMessage <=> queue'[m] = NoMessage
               /\ queue'[m].owed = Others(queue[m].owed, c)
               /\ queue'[m].wallets = queue[m].wallets
    <2> DEFINE q == queue[m]
               T == {s \in q.owed : s[2] = c}
    <2>1. q \in Message \cup {NoMessage}
      BY DEF Inv, TypeOK
    <2>2. queue'[m] = [q EXCEPT !.owed = @ \ T] /\ q.owed \ T = Others(q.owed, c)
      BY <1>1 DEF Others
    <2> HIDE DEF q, T
    <2>3. LET r == [q EXCEPT !.owed = @ \ T]
          IN  /\ r \in Message \cup {NoMessage}
              /\ q = NoMessage <=> r = NoMessage
              /\ r.owed = q.owed \ T
              /\ r.wallets = q.wallets
      BY <2>1, OwesLess
    <2> QED BY <2>2, <2>3 DEF q
  <1>5. queue' \in [Messages -> Message \cup {NoMessage}]
    BY <1>1, <1>4
  <1>6. told' \subseteq told /\ crossed' \subseteq crossed
    BY <1>1 DEF Others
  <1>7. TypeOK'
    BY <1>1, <1>2, <1>3, <1>5, <1>6 DEF Inv, TypeOK
  <1>8. \A s \in Subscriptions : s[2] \in Conns
    BY DEF Subscriptions
  <1>9. HistoriesOK'
    <2>1. LiveStaySubscribed'
      BY <1>1 DEF Inv, HistoriesOK, LiveStaySubscribed, Others
    <2>2. \A s \in chan' : link'[s[2]] \in {"open", "closed"}
      BY <1>1, <1>2, <1>8 DEF Inv, TypeOK, HistoriesOK
    <2>3. \A s \in told' : link'[s[2]] = "open"
      BY <1>1, <1>2, <1>8 DEF Inv, TypeOK, HistoriesOK, Others
    <2>4. \A m \in Messages : \A s \in queue'[m].owed :
            s \in told' \ crossed' /\ s[1] \in queue'[m].wallets
      BY <1>1, <1>4 DEF Inv, HistoriesOK, Others
    <2> QED BY <2>1, <2>2, <2>3, <2>4 DEF HistoriesOK
  <1>10. LinksGo(link, link') /\ KeysGo(link', chan, chan', crossed, crossed')
    BY <1>1, <1>2, <1>8 DEF LinksGo, KeysGo, Others
  <1>11. ASSUME NEW k \in Lambdas PROVE JobOK(lambda'[k], link', chan', crossed', queue')
    <2> DEFINE j == lambda[k]
    <2>1. JobOK(j, link, chan, crossed, queue) /\ lambda'[k] = j
      BY <1>1 DEF Inv
    <2>2. \A e \in j.ends : \A s \in e.look \cup e.keys :
            Spare(s, link, chan, crossed) => Spare(s, link', chan', crossed')
      <3> SUFFICES ASSUME NEW e \in j.ends, NEW s \in e.look \cup e.keys,
                          Spare(s, link, chan, crossed)
                   PROVE  Spare(s, link', chan', crossed')
        OBVIOUS
      <3>1. s \in Subscriptions
        BY DEF Inv, TypeOK, Job, Cleanup
      <3> QED BY <1>1, <1>2, <1>8, <3>1 DEF Spare, Others
    <2>3. j.message \in Messages /\ queue'[j.message] # NoMessage =>
            queue[j.message] # NoMessage /\ queue'[j.message].owed \subseteq queue[j.message].owed
      BY <1>4 DEF Others
    <2> HIDE DEF j
    <2>4. JobOK(j, link', chan', crossed', queue')
      BY <1>10, <2>1, <2>2, <2>3, JobStays
    <2> QED BY <2>1, <2>4
  <1> QED BY <1>4, <1>7, <1>9, <1>11 DEF Inv

(* A subscription is written: what a cleanup threatens is in crossed.      *)
LEMMA JoinKeeps ==
    ASSUME Inv, NEW l \in Lambdas, wsJoinWallet(l)
    PROVE  Inv'
  <1> DEFINE job == lambda[l]
             c == lambda[l].conn
  <1>0. JobOK(job, link, chan, crossed, queue) /\ job \in Job /\ job.route = "join" /\ c \in Conns
        /\ link[c] \in {"open", "closed"} /\ job.look = {}
    BY DEF Inv, JobOK, wsJoinWallet
  <1>1. PICK w \in job.wallets :
          /\ chan' = chan \cup {<<w, c>>}
          /\ crossed' = IF link[<<w, c>>[2]] = "open" /\ Threatened(<<w, c>>)
                        THEN crossed \cup {<<w, c>>} ELSE crossed \ {<<w, c>>}
          /\ Becomes(l, [job EXCEPT !.wallets = {}, !.todo = {<<w, c>>}])
          /\ UNCHANGED <<link, leaving, known, queue, told, failures>>
    BY DEF wsJoinWallet
  <1> DEFINE s == <<w, c>>
             j == [job EXCEPT !.wallets = {}, !.todo = {s}]
  <1>2. w \in Wallets
    BY <1>0 DEF Job
  <1>3. s \in Subscriptions /\ s \in Targets /\ s[2] = c /\ s \in chan'
    BY <1>0, <1>1, <1>2 DEF Subscriptions, Targets
  <1>4. /\ chan' = chan \cup {s}
        /\ crossed' = IF link[c] = "open" /\ Threatened(s) THEN crossed \cup {s} ELSE crossed \ {s}
        /\ Becomes(l, j)
        /\ UNCHANGED <<link, leaving, known, queue, told, failures>>
    BY <1>1
  <1> HIDE DEF s, c
  <1>5. j \in Job /\ j.route = "join" /\ j.conn = c /\ j.todo = {s} /\ j.look = {}
        /\ j.ends = job.ends /\ j.message = job.message
    BY <1>0, <1>3 DEF Job, c
  <1> HIDE DEF j
  <1>6. /\ lambda' \in [Lambdas -> Job]
        /\ lambda'[l] = j
        /\ \A k \in Lambdas : k # l => lambda'[k] = lambda[k]
    BY <1>4, <1>5, BecomesType
  <1>7. TypeOK'
    BY <1>3, <1>4, <1>6 DEF Inv, TypeOK
  <1>8. ASSUME NEW k \in Lambdas, NEW e \in lambda[k].ends, NEW x \in e.look \cup e.keys,
               Spare(x, link, chan, crossed)
        PROVE  Spare(x, link', chan', crossed')
    <2>1. CASE x # s
      BY <1>4, <1>8, <2>1 DEF Spare
    <2>2. CASE x = s
      <3>1. Threatened(s)
        BY <2>2 DEF Threatened
      <3>2. s \in crossed' \/ link'[s[2]] = "closed"
        BY <1>0, <1>3, <1>4, <3>1
      <3> QED BY <2>2, <3>2 DEF Spare
    <2> QED BY <2>1, <2>2
  <1>9. HistoriesOK'
    <2>1. LiveStaySubscribed'
      BY <1>4 DEF Inv, HistoriesOK, LiveStaySubscribed
    <2>2. (\A x \in chan' : link'[x[2]] \in {"open", "closed"}) /\ \A x \in told' : link'[x[2]] = "open"
      BY <1>0, <1>3, <1>4 DEF Inv, HistoriesOK
    <2>3. ASSUME NEW m \in Messages, NEW x \in queue[m].owed
          PROVE  x \in told' \ crossed' /\ x[1] \in queue'[m].wallets
      <3>1. x \in told \ crossed /\ x[1] \in queue[m].wallets /\ x \in chan /\ link[x[2]] = "open"
        BY DEF Inv, HistoriesOK, LiveStaySubscribed
      <3>2. CASE x = s /\ Threatened(s)
        <4>1. PICK k \in Lambdas : \E e \in lambda[k].ends : s \in e.look \cup e.keys
          BY <3>2 DEF Threatened
        <4>2. Spare(s, link, chan, crossed)
          BY <4>1 DEF Inv, JobOK
        <4> QED BY <3>1, <3>2, <4>2 DEF Spare
      <3>3. CASE ~(x = s /\ Threatened(s))
        BY <1>4, <3>1, <3>3
      <3> QED BY <3>2, <3>3
    <2> QED BY <1>4, <2>1, <2>2, <2>3 DEF HistoriesOK
  <1>10. JobOK(j, link', chan', crossed', queue')
    <2>1. \A e \in j.ends : \A x \in e.look \cup e.keys : Spare(x, link', chan', crossed')
      BY <1>0, <1>5, <1>8 DEF JobOK
    <2>2. s \in Subscriptions /\ link'[s[2]] \in {"open", "closed"} /\ s \in chan' /\ link'[c] \in {"open", "closed"}
      BY <1>0, <1>3, <1>4
    <2> QED BY <1>0, <1>5, <2>1, <2>2 DEF JobOK
  <1>11. LinksGo(link, link') /\ KeysGo(link', chan, chan', crossed, crossed')
         /\ MessagesGo(queue, queue')
    BY <1>4 DEF LinksGo, KeysGo, MessagesGo
  <1>12. JobOK(lambda'[l], link', chan', crossed', queue')
    BY <1>6, <1>10
  <1>13. \A k \in Lambdas : \A e \in lambda[k].ends : \A x \in e.look \cup e.keys :
           Spare(x, link, chan, crossed) => Spare(x, link', chan', crossed')
    BY <1>8
  <1> QED BY <1>6, <1>7, <1>9, <1>11, <1>12, <1>13, StepKeeps

LEMMA ExecKeeps ==
    ASSUME Inv, NEW l \in Lambdas, exec(l)
    PROVE  Inv'
  <1> DEFINE job == lambda[l]
  <1>0. JobOK(job, link, chan, crossed, queue) /\ job \in Job
    BY DEF Inv, JobOK
  <1>1. PICK e \in job.ends :
          /\ known' = known \ {e.target[2]}
          /\ chan' = chan \ e.keys
          /\ Becomes(l, [job EXCEPT !.ends = @ \ {e}])
          /\ UNCHANGED <<link, leaving, queue, told, crossed, failures>>
    BY DEF exec
  <1> DEFINE j == [job EXCEPT !.ends = @ \ {e}]
  <1>2. \A s \in e.keys : Spare(s, link, chan, crossed)
    BY <1>0 DEF JobOK
  <1>3. j \in Job
    BY <1>0 DEF Job
  <1>4. j.route = "newTx" => Covers(j, queue)
    BY <1>0 DEF Covers, JobOK, Job
  <1>5. JobOK(j, link, chan, crossed, queue)
    BY <1>0, <1>3, <1>4 DEF JobOK, Job
  <1>6. Becomes(l, j)
    BY <1>1
  <1> HIDE DEF j
  <1>7. /\ lambda' \in [Lambdas -> Job]
        /\ lambda'[l] = j
        /\ \A k \in Lambdas : k # l => lambda'[k] = lambda[k]
    BY <1>3, <1>6, BecomesType
  <1>8. TypeOK'
    BY <1>1, <1>7 DEF Inv, TypeOK
  <1>9. HistoriesOK'
    BY <1>1, <1>2 DEF Inv, HistoriesOK, LiveStaySubscribed, Spare
  <1>10. LinksGo(link, link') /\ KeysGo(link', chan, chan', crossed, crossed')
         /\ MessagesGo(queue, queue')
    BY <1>1, <1>2 DEF LinksGo, KeysGo, MessagesGo, Spare
  <1>11. \A k \in Lambdas : \A d \in lambda[k].ends : \A s \in d.look \cup d.keys :
           Spare(s, link, chan, crossed) => Spare(s, link', chan', crossed')
    BY <1>1 DEF Spare
  <1>12. j.message \in Messages /\ queue'[j.message] # NoMessage =>
           queue[j.message] # NoMessage /\ queue'[j.message].owed \subseteq queue[j.message].owed
    BY <1>1
  <1>13. \A d \in j.ends : \A s \in d.look \cup d.keys :
           Spare(s, link, chan, crossed) => Spare(s, link', chan', crossed')
    BY <1>1 DEF Spare
  <1>14. JobOK(lambda'[l], link', chan', crossed', queue')
    BY <1>5, <1>7, <1>10, <1>12, <1>13, JobStays
  <1> QED BY <1>7, <1>8, <1>9, <1>10, <1>11, <1>14, StepKeeps

(* A message leaves the queue owing nothing.                               *)
Delivered ==
  \A m \in Messages : queue[m] # NoMessage /\ queue'[m] = NoMessage => queue[m].owed = {}

LEMMA EndsKeeps ==
    ASSUME Inv, NEW l \in Lambdas, Ends(l)
    PROVE  Inv' /\ Delivered
  <1> DEFINE job == lambda[l]
             m == lambda[l].message
  <1>0. JobOK(job, link, chan, crossed, queue) /\ job \in Job
    BY DEF Inv, JobOK
  <1>1. m \in Messages \cup {None} /\ (m # None <=> job.route = "newTx")
    BY <1>0 DEF JobOK, Job
  <1>2. queue' = IF m = None THEN queue ELSE [queue EXCEPT ![m] = NoMessage]
    BY DEF Ends
  <1>3. \A n \in Messages : queue'[n] = IF n = m THEN NoMessage ELSE queue[n]
    BY <1>1, <1>2 DEF Inv, TypeOK, WsAssumption
  <1>4. Becomes(l, Idle) /\ UNCHANGED <<link, leaving, known, chan, told, crossed, failures>>
    BY DEF Ends, redis
  <1>5. /\ lambda' \in [Lambdas -> Job]
        /\ lambda'[l] = Idle
        /\ \A k \in Lambdas : k # l => lambda'[k] = lambda[k]
    BY <1>4, IdleOK, BecomesType
  <1>6. queue' \in [Messages -> Message \cup {NoMessage}]
    BY <1>1, <1>2 DEF Inv, TypeOK
  <1>7. TypeOK'
    BY <1>4, <1>5, <1>6 DEF Inv, TypeOK
  <1>8. HistoriesOK'
    BY <1>3, <1>4 DEF Inv, HistoriesOK, LiveStaySubscribed, NoMessage
  <1>9. LinksGo(link, link') /\ KeysGo(link', chan, chan', crossed, crossed')
        /\ MessagesGo(queue, queue')
    BY <1>3, <1>4 DEF LinksGo, KeysGo, MessagesGo
  <1>10. \A k \in Lambdas : \A e \in lambda[k].ends : \A s \in e.look \cup e.keys :
           Spare(s, link, chan, crossed) => Spare(s, link', chan', crossed')
    BY <1>4
  <1>11. JobOK(lambda'[l], link', chan', crossed', queue')
    BY <1>5, IdleOK
  <1>12. Inv'
    BY <1>5, <1>7, <1>8, <1>9, <1>10, <1>11, StepKeeps
  <1>13. Delivered
    <2> SUFFICES ASSUME NEW n \in Messages, queue[n] # NoMessage, queue'[n] = NoMessage
                 PROVE  queue[n].owed = {}
      BY DEF Delivered
    <2>1. n = m /\ job.route = "newTx"
      BY <1>1, <1>3 DEF WsAssumption
    <2>2. queue[m].owed \subseteq job.look \cup job.todo
      BY <1>0, <2>1 DEF JobOK, Covers
    <2> QED BY <2>1, <2>2 DEF Ends, Settled
  <1> QED BY <1>12, <1>13

LEMMA SendKeeps ==
    ASSUME Inv, NEW m \in Messages, NEW ws \in (SUBSET Wallets) \ {{}}, sendRealtimeTx(m, ws)
    PROVE  Inv' /\ Delivered
  <1> DEFINE new == [wallets |-> ws, owed |-> {s \in told \ crossed : s[1] \in ws}]
  <1>1. /\ queue[m] = NoMessage
        /\ \A l \in Lambdas : lambda[l].message # m
        /\ queue' = [queue EXCEPT ![m] = new]
        /\ UNCHANGED <<link, leaving, known, chan, lambda, told, crossed, failures>>
    BY DEF sendRealtimeTx, redis
  <1>2. new \in Message
    BY DEF Message, Inv, TypeOK
  <1>3. \A s \in new.owed : s \in told \ crossed /\ s[1] \in new.wallets
    OBVIOUS
  <1> HIDE DEF new
  <1>4. \A n \in Messages : queue'[n] = IF n = m THEN new ELSE queue[n]
    BY <1>1 DEF Inv, TypeOK
  <1>5. TypeOK'
    BY <1>1, <1>2 DEF Inv, TypeOK
  <1>6. HistoriesOK'
    BY <1>1, <1>3, <1>4 DEF Inv, HistoriesOK, LiveStaySubscribed
  <1>7. \A l \in Lambdas : JobOK(lambda'[l], link', chan', crossed', queue')
    <2> SUFFICES ASSUME NEW l \in Lambdas PROVE JobOK(lambda[l], link, chan, crossed, queue')
      BY <1>1
    <2> DEFINE j == lambda[l]
    <2>1. JobOK(j, link, chan, crossed, queue) /\ j.message # m
      BY <1>1 DEF Inv
    <2>2. j.message \in Messages => queue'[j.message] = queue[j.message]
      BY <1>4, <2>1
    <2>3. LinksGo(link, link) /\ KeysGo(link, chan, chan, crossed, crossed)
      BY DEF LinksGo, KeysGo
    <2> HIDE DEF j
    <2>4. JobOK(j, link, chan, crossed, queue')
      BY <2>1, <2>2, <2>3, JobStays
    <2> QED BY <2>4 DEF j
  <1>8. Delivered
    BY <1>1, <1>4 DEF Delivered
  <1> QED BY <1>5, <1>6, <1>7, <1>8 DEF Inv

-----------------------------------------------------------------------------
(* The theorems                                                            *)

(* No step but Ends takes a message out of the queue.                      *)
LEMMA NextInv == Inv /\ [Next]_vars => Inv' /\ Delivered
  <1> SUFFICES ASSUME Inv, [Next]_vars PROVE Inv' /\ Delivered
    OBVIOUS
  <1>1. ASSUME NEW c \in Conns, Closes(c) PROVE Inv' /\ Delivered
    BY <1>1, ClosesKeeps DEF Delivered
  <1>2. ASSUME NEW m \in Messages, NEW ws \in (SUBSET Wallets) \ {{}}, sendRealtimeTx(m, ws)
        PROVE  Inv' /\ Delivered
    BY <1>2, SendKeeps
  <1>3. ASSUME NEW l \in Lambdas, Ends(l) PROVE Inv' /\ Delivered
    BY <1>3, EndsKeeps
  <1>4. ASSUME NEW l \in Lambdas, LooksUp(l) \/ scanAll(l) \/ Dies(l) PROVE Inv' /\ Delivered
    <2>1. queue' = queue
      BY <1>4 DEF LooksUp, scanAll, Dies
    <2> QED BY <1>4, <2>1, LocalSteps DEF Delivered
  <1>5. ASSUME NEW l \in Lambdas, PostReaches(l) \/ PostIsGone(l) \/ PostFails(l)
        PROVE  Inv' /\ Delivered
    BY <1>5, PostsKeep DEF Delivered
  <1>6. ASSUME NEW l \in Lambdas,
               \/ \E c \in Conns : ConnectStarts(l, c)
               \/ initWsConnection(l) \/ Connects(l) \/ ConnectErrs(l) \/ ConnectDies(l)
        PROVE  Inv' /\ Delivered
    <2>1. queue' = queue
      BY <1>6 DEF ConnectStarts, initWsConnection, Connects, ConnectErrs, ConnectDies
    <2> QED BY <1>6, <2>1, ConnectKeeps DEF Delivered
  <1>7. ASSUME NEW l \in Lambdas, wsJoinWallet(l) PROVE Inv' /\ Delivered
    BY <1>7, JoinKeeps DEF wsJoinWallet, Delivered
  <1>8. ASSUME NEW l \in Lambdas, exec(l) PROVE Inv' /\ Delivered
    BY <1>8, ExecKeeps DEF exec, Delivered
  <1>9. ASSUME NEW l \in Lambdas, NEW c \in Conns, DisconnectStarts(l, c) PROVE Inv' /\ Delivered
    BY <1>9, DisconnectKeeps DEF DisconnectStarts, Delivered
  <1>10. ASSUME NEW l \in Lambdas,
                \/ broadcast(l)
                \/ \E c \in Conns : AdminDisconnect(l, c) \/ Ping(l, c)
                                    \/ \E w \in Wallets : JoinStarts(l, c, w)
                \/ \E m \in Messages : onNewTx(l, m)
         PROVE  Inv' /\ Delivered
    <2>1. Inv'
      BY <1>10, RequestsKeep
    <2>2. queue' = queue
      BY <1>10 DEF broadcast, AdminDisconnect, Ping, JoinStarts, onNewTx
    <2> QED BY <2>1, <2>2 DEF Delivered
  <1>11. CASE UNCHANGED vars
    <2>1. UNCHANGED <<link, leaving, known, chan, lambda, queue, told, crossed, failures>>
      BY <1>11 DEF vars, redis
    <2> QED BY <2>1 DEF Inv, TypeOK, LiveStaySubscribed, HistoriesOK, Delivered
  <1> QED
    BY <1>1, <1>2, <1>3, <1>4, <1>5, <1>6, <1>7, <1>8, <1>9, <1>10, <1>11
    DEF Next, Goes, Steps

(* Links, keys, lambdas and messages keep their shape; only closed links   *)
(* have a $disconnect to come.                                             *)
THEOREM TypeCorrect == Spec => []TypeOK
  <1>1. Inv => TypeOK
    BY DEF Inv
  <1> QED BY InitInv, NextInv, <1>1, PTL DEF Spec

(* Whatever cleanups, joins and failed posts cross, a connected client     *)
(* that was told it listens to a wallet does so, unless its key was        *)
(* written under a cleanup that could still take it, which only a 410      *)
(* answered before its link was open can have started.                     *)
THEOREM SubscriptionsLive == Spec => []LiveStaySubscribed
  <1>1. Inv => LiveStaySubscribed
    BY DEF Inv, HistoriesOK
  <1> QED BY InitInv, NextInv, <1>1, PTL DEF Spec

(* However often a message is delivered and whatever fails, it is deleted  *)
(* only after a post to every subscriber still connected that joined under *)
(* no such cleanup.                                                        *)
THEOREM SubscribersPosted == Spec => PostedToSubscribers
  <1>1. Inv /\ [Next]_vars => [Delivered]_vars
    BY NextInv
  <1>2. PostedToSubscribers <=> [][Delivered]_vars
    BY DEF PostedToSubscribers, Delivered
  <1> QED BY InitInv, NextInv, <1>1, <1>2, PTL DEF Spec

-----------------------------------------------------------------------------
(* Devices.                                                                *)

RemovingDead == removing \cap alive = {}

PushInv == PushTypeOK /\ OwnSettings /\ RemovingDead

LEMMA PushInitInv == PushInit => PushInv
  <1> SUFFICES ASSUME PushInit PROVE PushInv
    OBVIOUS
  <1>1. MaxFailures \in Nat
    BY DEF ClientsAssumption
  <1>2. OwnSettings /\ RemovingDead
    BY DEF PushInit, OwnSettings, RemovingDead, NoRow
  <1>3. failures \in 0..MaxFailures
    BY <1>1 DEF PushInit
  <1>4. PushTypeOK
    BY <1>3 DEF PushInit, PushTypeOK
  <1> QED BY <1>2, <1>4 DEF PushInv

(* A failure is one more, and never more than the bound.                   *)
LEMMA FailsCounts ==
    ASSUME failures \in 0..MaxFailures
    PROVE  /\ Fails => failures' \in 0..MaxFailures
           /\ UNCHANGED failures => failures' \in 0..MaxFailures
  BY DEF Fails

-----------------------------------------------------------------------------
(* Steps that write push_devices                                           *)

(* Rows that are deleted, and no others.                                   *)
LEMMA DeletedInv ==
    ASSUME PushInv, NEW ds \in SUBSET Devices, Deleted(ds)
    PROVE  /\ device' \in [Devices -> Row \cup {NoRow}]
           /\ chosenBy' \in [Devices -> Wallets \cup {None}]
           /\ OwnSettings'
           /\ \A d \in Devices \ ds : device'[d] = device[d]
  BY DEF PushInv, PushTypeOK, OwnSettings, Deleted, NoRow

(* A row that is written, by the wallet it is then of.                     *)
LEMMA WrittenInv ==
    ASSUME PushInv, NEW d \in Devices, NEW row \in Row,
           device' = [device EXCEPT ![d] = row],
           chosenBy' = [chosenBy EXCEPT ![d] = row.wallet]
    PROVE  /\ device' \in [Devices -> Row \cup {NoRow}]
           /\ chosenBy' \in [Devices -> Wallets \cup {None}]
           /\ OwnSettings'
           /\ \A e \in Devices : device[e] # NoRow => device'[e] # NoRow
  <1>1. row.wallet \in Wallets /\ row # NoRow
    BY DEF Row, NoRow
  <1>2. /\ device' \in [Devices -> Row \cup {NoRow}]
        /\ chosenBy' \in [Devices -> Wallets \cup {None}]
    BY <1>1 DEF PushInv, PushTypeOK
  <1>3. OwnSettings'
    <2> SUFFICES ASSUME NEW e \in Devices PROVE chosenBy'[e] = device'[e].wallet
      BY DEF OwnSettings
    <2> QED BY DEF PushInv, PushTypeOK, OwnSettings
  <1>4. \A e \in Devices : device[e] # NoRow => device'[e] # NoRow
    BY <1>1 DEF PushInv, PushTypeOK
  <1> QED BY <1>2, <1>3, <1>4

LEMMA RegisterKeeps ==
    ASSUME PushInv, NEW d \in Devices, NEW w \in Wallets, NEW s \in Settings, register(d, w, s)
    PROVE  PushInv' /\ \A e \in Devices : device[e] # NoRow => device'[e] # NoRow
  <1> DEFINE row == [wallet |-> w, set |-> s, stale |-> FALSE]
  <1>1. row \in Row /\ row.wallet = w
    BY DEF Row
  <1>2. device' = [device EXCEPT ![d] = row] /\ chosenBy' = [chosenBy EXCEPT ![d] = row.wallet]
    BY DEF register
  <1> HIDE DEF row
  <1>3. /\ device' \in [Devices -> Row \cup {NoRow}]
        /\ chosenBy' \in [Devices -> Wallets \cup {None}]
        /\ OwnSettings'
        /\ \A e \in Devices : device[e] # NoRow => device'[e] # NoRow
    BY <1>1, <1>2, WrittenInv
  <1>4. PushTypeOK' /\ RemovingDead'
    BY <1>3 DEF register, lambdas, PushInv, PushTypeOK, RemovingDead
  <1> QED BY <1>3, <1>4 DEF PushInv

LEMMA UpdateKeeps ==
    ASSUME PushInv, NEW r \in Requests, updatePushDevice(r)
    PROVE  PushInv' /\ \A e \in Devices : device[e] # NoRow => device'[e] # NoRow
  <1>1. update[r] \in Update
    BY DEF updatePushDevice, PushInv, PushTypeOK
  <1> DEFINE u == update[r]
             d == update[r].device
             row == Written(device[d], u.set)
  <1>2. d \in Devices /\ u.wallet \in Wallets /\ u.set \in Settings
    BY <1>1 DEF Update
  <1>3. update' \in [Requests -> Update \cup {None}]
    BY DEF updatePushDevice, PushInv, PushTypeOK
  <1>4. CASE Matched(u)
    <2>1. device[d].wallet = u.wallet
      BY <1>4 DEF Matched
    <2>2. device[d] \in Row
      <3>1. device[d] \in Row \cup {NoRow}
        BY <1>2 DEF PushInv, PushTypeOK
      <3>2. device[d] # NoRow
        BY <2>1, <1>2 DEF NoRow
      <3> QED BY <3>1, <3>2
    <2>3. row \in Row /\ row.wallet = u.wallet
      BY <2>1, <2>2, <1>2 DEF Row, Written
    <2>4. device' = [device EXCEPT ![d] = row] /\ chosenBy' = [chosenBy EXCEPT ![d] = row.wallet]
      BY <1>4, <2>3 DEF updatePushDevice
    <2> HIDE DEF row, d, u
    <2>5. /\ device' \in [Devices -> Row \cup {NoRow}]
          /\ chosenBy' \in [Devices -> Wallets \cup {None}]
          /\ OwnSettings'
          /\ \A e \in Devices : device[e] # NoRow => device'[e] # NoRow
      BY <1>2, <2>3, <2>4, WrittenInv
    <2>6. PushTypeOK' /\ RemovingDead'
      BY <1>3, <2>5 DEF updatePushDevice, lambdas, PushInv, PushTypeOK, RemovingDead
    <2> QED BY <2>5, <2>6 DEF PushInv
  <1>5. CASE ~Matched(u)
    <2>1. device' = device /\ chosenBy' = chosenBy
      BY <1>5 DEF updatePushDevice
    <2> QED BY <1>3, <2>1
          DEF updatePushDevice, lambdas, PushInv, PushTypeOK, OwnSettings, RemovingDead
  <1> QED BY <1>4, <1>5

LEMMA UnregisterKeeps ==
    ASSUME PushInv, NEW d \in Devices, NEW w \in Wallets, unregister(d, w)
    PROVE  PushInv' /\ \A e \in Devices \ {d} : device'[e] = device[e]
  <1>1. Deleted({d}) /\ {d} \in SUBSET Devices
    BY DEF unregister
  <1>2. /\ device' \in [Devices -> Row \cup {NoRow}]
        /\ chosenBy' \in [Devices -> Wallets \cup {None}]
        /\ OwnSettings'
        /\ \A e \in Devices \ {d} : device'[e] = device[e]
    BY <1>1, DeletedInv
  <1>3. PushTypeOK' /\ RemovingDead'
    BY <1>2 DEF unregister, lambdas, PushInv, PushTypeOK, RemovingDead
  <1> QED BY <1>2, <1>3 DEF PushInv

LEMMA CleanKeeps ==
    ASSUME PushInv, cleanStalePushDevices
    PROVE  PushInv' /\ \A e \in Devices : ~device[e].stale => device'[e] = device[e]
  <1>1. Deleted(Stale) /\ Stale \in SUBSET Devices
    BY DEF cleanStalePushDevices, Stale
  <1>2. /\ device' \in [Devices -> Row \cup {NoRow}]
        /\ chosenBy' \in [Devices -> Wallets \cup {None}]
        /\ OwnSettings'
        /\ \A e \in Devices \ Stale : device'[e] = device[e]
    BY <1>1, DeletedInv
  <1>3. PushTypeOK' /\ RemovingDead'
    BY <1>2 DEF cleanStalePushDevices, lambdas, PushInv, PushTypeOK, RemovingDead
  <1> QED BY <1>2, <1>3 DEF PushInv, Stale

LEMMA InvalidKeeps ==
    ASSUME PushInv, unregisterInvalid
    PROVE  PushInv' /\ \A e \in alive : device'[e] = device[e]
  <1>1. PICK d \in removing : /\ removing' = removing \ {d}
                              /\ Deleted({d})
                              /\ UNCHANGED <<alive, update, accepting, invoked, fanout,
                                             sending, posting, failures>>
    BY DEF unregisterInvalid
  <1>2. {d} \in SUBSET Devices /\ d \notin alive /\ alive \subseteq Devices
    BY DEF PushInv, PushTypeOK, RemovingDead
  <1>3. /\ device' \in [Devices -> Row \cup {NoRow}]
        /\ chosenBy' \in [Devices -> Wallets \cup {None}]
        /\ OwnSettings'
        /\ \A e \in Devices \ {d} : device'[e] = device[e]
    BY <1>1, <1>2, DeletedInv
  <1>4. PushTypeOK' /\ RemovingDead'
    BY <1>1, <1>3 DEF PushInv, PushTypeOK, RemovingDead
  <1> QED BY <1>2, <1>3, <1>4 DEF PushInv

LEMMA StaleKeeps ==
    ASSUME PushInv, NEW d \in Devices, GetsStale(d)
    PROVE  PushInv' /\ \A e \in Devices : device[e] # NoRow => device'[e] # NoRow
  <1> DEFINE row == [device[d] EXCEPT !.stale = TRUE]
  <1>0. device[d] \in Row
    BY DEF GetsStale, PushInv, PushTypeOK
  <1>1. row \in Row /\ row.wallet = device[d].wallet
    BY <1>0 DEF Row
  <1>2. device' = [device EXCEPT ![d] = row]
    BY DEF GetsStale
  <1>3. chosenBy' = [chosenBy EXCEPT ![d] = row.wallet]
    BY <1>1 DEF GetsStale, PushInv, PushTypeOK, OwnSettings
  <1> HIDE DEF row
  <1>4. /\ device' \in [Devices -> Row \cup {NoRow}]
        /\ chosenBy' \in [Devices -> Wallets \cup {None}]
        /\ OwnSettings'
        /\ \A e \in Devices : device[e] # NoRow => device'[e] # NoRow
    BY <1>1, <1>2, <1>3, WrittenInv
  <1>5. PushTypeOK' /\ RemovingDead'
    BY <1>4 DEF GetsStale, lambdas, PushInv, PushTypeOK, RemovingDead
  <1> QED BY <1>4, <1>5 DEF PushInv

-----------------------------------------------------------------------------
(* Steps that do not                                                       *)

(* What a notification does on its way, up to Firebase's answer.           *)
LEMMA LambdaKeeps ==
    ASSUME PushInv, handleRequest \/ sendNotification \/ send \/ sendToFcm
    PROVE  PushInv' /\ device' = device
  <1>1. CASE handleRequest
    <2>1. PICK ws \in invoked : /\ invoked' = invoked \ {ws}
                                /\ fanout' = ToNotify(ws)
                                /\ UNCHANGED <<device, alive, update, accepting, sending,
                                               posting, removing, chosenBy, failures>>
      BY <1>1 DEF handleRequest
    <2>2. fanout' \subseteq Notification
      BY <2>1 DEF ToNotify
    <2> QED BY <2>1, <2>2 DEF PushInv, PushTypeOK, OwnSettings, RemovingDead
  <1>2. CASE sendNotification
    <2>1. PICK n \in fanout : /\ fanout' = fanout \ {n}
                              /\ \/ sending' = sending \cup {n} /\ UNCHANGED failures
                                 \/ Fails /\ UNCHANGED sending
                              /\ UNCHANGED <<device, alive, update, accepting, invoked,
                                             posting, removing, chosenBy>>
      BY <1>2 DEF sendNotification
    <2>2. failures' \in 0..MaxFailures
      BY <2>1, FailsCounts DEF PushInv, PushTypeOK
    <2> QED BY <2>1, <2>2 DEF PushInv, PushTypeOK, OwnSettings, RemovingDead
  <1>3. CASE send
    <2>1. PICK n \in sending :
            /\ \/ sending' = sending \ {n} /\ UNCHANGED failures
               \/ Fails /\ UNCHANGED sending
            /\ posting' = IF device[n.device] = NoRow THEN posting ELSE posting \cup {n}
            /\ UNCHANGED <<device, alive, update, accepting, invoked, fanout, removing,
                           chosenBy>>
      BY <1>3 DEF send
    <2>2. failures' \in 0..MaxFailures
      BY <2>1, FailsCounts DEF PushInv, PushTypeOK
    <2>3. sending' \subseteq Notification /\ posting' \subseteq Notification
      BY <2>1 DEF PushInv, PushTypeOK
    <2> QED BY <2>1, <2>2, <2>3 DEF PushInv, PushTypeOK, OwnSettings, RemovingDead
  <1>4. CASE sendToFcm
    <2>1. PICK n \in posting, ok \in BOOLEAN :
            /\ IF ~ok /\ n.device \in alive THEN Fails ELSE UNCHANGED failures
            /\ posting' = posting \ {n}
            /\ removing' = IF InvalidDeviceId(n.device, ok) THEN removing \cup {n.device}
                           ELSE removing
            /\ UNCHANGED <<device, alive, update, accepting, invoked, fanout, sending,
                           chosenBy>>
      BY <1>4 DEF sendToFcm
    <2>2. failures' \in 0..MaxFailures
      BY <2>1, FailsCounts DEF PushInv, PushTypeOK
    <2>3. n.device \in Devices
      BY DEF PushInv, PushTypeOK, Notification
    <2>4. removing' \subseteq Devices /\ RemovingDead'
      BY <2>1, <2>3 DEF InvalidDeviceId, PushInv, PushTypeOK, RemovingDead
    <2> QED BY <2>1, <2>2, <2>4 DEF PushInv, PushTypeOK, OwnSettings
  <1> QED BY <1>1, <1>2, <1>3, <1>4

(* Apps removed, updates that pass their check, the daemon's transaction.  *)
LEMMA OthersKeep ==
    ASSUME PushInv,
           \/ \E d \in Devices : AppRemoved(d)
           \/ \E d \in Devices, w \in Wallets, s \in Settings, r \in Requests :
                existsPushDevice(r, d, w, s)
           \/ \E ws \in (SUBSET Wallets) \ {{}} : invokeOnTxPushNotificationRequestedLambda(ws)
           \/ Commits \/ RollsBack
    PROVE  PushInv' /\ device' = device
  <1>1. CASE \E d \in Devices : AppRemoved(d)
    BY <1>1
        DEF AppRemoved, lambdas, PushInv, PushTypeOK, OwnSettings, RemovingDead
  <1>2. ASSUME NEW d \in Devices, NEW w \in Wallets, NEW s \in Settings, NEW r \in Requests,
               existsPushDevice(r, d, w, s)
        PROVE  PushInv' /\ device' = device
    <2>1. [device |-> d, wallet |-> w, set |-> s] \in Update
      BY DEF Update
    <2>2. update' \in [Requests -> Update \cup {None}]
      BY <1>2, <2>1 DEF existsPushDevice, PushInv, PushTypeOK
    <2> QED BY <1>2, <2>2
          DEF existsPushDevice, lambdas, PushInv, PushTypeOK, OwnSettings, RemovingDead
  <1>3. CASE \E ws \in (SUBSET Wallets) \ {{}} : invokeOnTxPushNotificationRequestedLambda(ws)
    BY <1>3
        DEF invokeOnTxPushNotificationRequestedLambda, PushInv, PushTypeOK, OwnSettings, RemovingDead
  <1>4. CASE Commits
    BY <1>4 DEF Commits, lambdas, PushInv, PushTypeOK, OwnSettings, RemovingDead
  <1>5. CASE RollsBack
    <2>1. failures' \in 0..MaxFailures
      BY <1>5, FailsCounts DEF RollsBack, PushInv, PushTypeOK
    <2>2. invoked' \subseteq SUBSET Wallets
      BY <1>5 DEF RollsBack, PushInv, PushTypeOK
    <2> QED BY <1>5, <2>1, <2>2
          DEF RollsBack, PushInv, PushTypeOK, OwnSettings, RemovingDead
  <1> QED BY <1>1, <1>2, <1>3, <1>4, <1>5

-----------------------------------------------------------------------------
(* The theorems                                                            *)

(* What no step does to a device Firebase knows.                           *)
NoneTaken == \A d \in alive : device[d] # NoRow /\ device'[d] = NoRow =>
           device[d].stale \/ \E w \in Wallets : unregister(d, w)

LEMMA PushNextInv == PushInv /\ [PushNext]_pushVars => PushInv' /\ NoneTaken
  <1> SUFFICES ASSUME PushInv, [PushNext]_pushVars PROVE PushInv' /\ NoneTaken
    OBVIOUS
  <1>0. alive \subseteq Devices
    BY DEF PushInv, PushTypeOK
  <1>1. ASSUME NEW d \in Devices, GetsStale(d) PROVE PushInv' /\ NoneTaken
    BY <1>0, <1>1, StaleKeeps DEF NoneTaken
  <1>2. ASSUME NEW d \in Devices, NEW w \in Wallets, unregister(d, w) PROVE PushInv' /\ NoneTaken
    BY <1>0, <1>2, UnregisterKeeps DEF NoneTaken
  <1>3. ASSUME NEW d \in Devices, NEW w \in Wallets, NEW s \in Settings, register(d, w, s)
        PROVE  PushInv' /\ NoneTaken
    BY <1>0, <1>3, RegisterKeeps DEF NoneTaken
  <1>4. ASSUME NEW r \in Requests, updatePushDevice(r) PROVE PushInv' /\ NoneTaken
    BY <1>0, <1>4, UpdateKeeps DEF NoneTaken
  <1>5. CASE cleanStalePushDevices
    BY <1>0, <1>5, CleanKeeps DEF NoneTaken
  <1>6. CASE handleRequest \/ sendNotification \/ send \/ sendToFcm
    BY <1>6, LambdaKeeps DEF NoneTaken
  <1>7. CASE unregisterInvalid
    BY <1>7, InvalidKeeps DEF NoneTaken
  <1>8. CASE \/ \E d \in Devices : AppRemoved(d)
             \/ \E d \in Devices, w \in Wallets, s \in Settings, r \in Requests :
                  existsPushDevice(r, d, w, s)
             \/ \E ws \in (SUBSET Wallets) \ {{}} : invokeOnTxPushNotificationRequestedLambda(ws)
             \/ Commits \/ RollsBack
    BY <1>8, OthersKeep DEF NoneTaken
  <1>9. CASE UNCHANGED pushVars
    BY <1>9
        DEF pushVars, lambdas, PushInv, PushTypeOK, OwnSettings, RemovingDead, NoneTaken
  <1> QED BY <1>1, <1>2, <1>3, <1>4, <1>5, <1>6, <1>7, <1>8, <1>9 DEF PushNext, Lambda

(* Rows, requests and notifications keep their shape.                      *)
THEOREM PushTypeCorrect == PushSpec => []PushTypeOK
  <1>1. PushInv => PushTypeOK
    BY DEF PushInv
  <1> QED BY PushInitInv, PushNextInv, <1>1, PTL DEF PushSpec

(* What a row says was written for the wallet it belongs to, however       *)
(* registrations and updates of the same device cross.                     *)
THEOREM SettingsAreOwn == PushSpec => []OwnSettings
  <1>1. PushInv => OwnSettings
    BY DEF PushInv
  <1> QED BY PushInitInv, PushNextInv, <1>1, PTL DEF PushSpec

(* A device Firebase knows loses its row only to its own wallet or to the  *)
(* cron, whichever notifications fail, repeat or come late.                *)
THEOREM LiveKeepTheirRow == PushSpec => LiveStayRegistered
  <1>1. PushInv /\ [PushNext]_pushVars => [NoneTaken]_pushVars
    BY PushNextInv
  <1>2. LiveStayRegistered <=> [][NoneTaken]_pushVars
    BY DEF LiveStayRegistered, NoneTaken
  <1> QED BY PushInitInv, PushNextInv, <1>1, <1>2, PTL DEF PushSpec
=============================================================================
