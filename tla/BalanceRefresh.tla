-------------------------- MODULE BalanceRefresh --------------------------
(***************************************************************************)
(* Locked outputs are unlocked lazily: GET /balances reads the balances of *)
(* a wallet and, when the earliest of its locks has expired, unlocks what  *)
(* is due before it answers (wallet-service/src/commons.ts, db/index.ts).  *)
(* It does so in statements of their own, with no transaction around them, *)
(* while other requests do the same and while the daemon unlocks outputs   *)
(* with every block and before they are spent (daemon/src/services/        *)
(* index.ts, utils/wallet.ts, db/index.ts).                                *)
(*                                                                         *)
(* One wallet that is ready, one token, transparent outputs, no voids:     *)
(* TxLedger has those.  A statement of a request is one action.  The       *)
(* daemon's transaction is two: what it reads, and what it commits.        *)
(***************************************************************************)
EXTENDS Integers, FiniteSets, FiniteSetsExt

CONSTANTS Requests,   \* GET /balances lambdas that may run at the same time
          Outputs, Addresses,
          Out,        \* [Outputs -> [address, value, authority, timelock, heightlock]]
          None,       \* NULL
          MaxTime, MaxHeight, \* bounds on the clock and on the chain
          MaxFailures \* bound on lambdas and statements that fail

ASSUME RefreshAssumption ==
    /\ IsFiniteSet(Outputs) /\ IsFiniteSet(Addresses)
    /\ Out \in [Outputs -> [address : Addresses, value : Nat, authority : BOOLEAN,
                            timelock : Nat, heightlock : Nat]]
    /\ \A o \in Outputs : Out[o].timelock = 0 \/ Out[o].heightlock = 0   \* a reward has no timelock
    /\ None \notin Nat \cup Outputs \cup Addresses
    /\ MaxTime \in Nat /\ MaxHeight \in Nat /\ MaxFailures \in Nat

VARIABLES now, height,   \* the clock; the height of the latest block
          state,         \* the rows of tx_output: absent, unspent, spent
          locked,        \* tx_output.locked
          addressBalance, walletBalance,
          request,       \* the GET /balances lambdas
          daemon,        \* the event the daemon handles, and what it read
          failures,      \* lambdas and statements that failed so far
          crossed        \* whether two have unlocked the same output so far
rows == <<state, locked, addressBalance, walletBalance>>
vars == <<now, height, rows, request, daemon, failures, crossed>>

---------------------------------------------------------------------------
(* Rows of the two balance tables. *)

NoBalance == [unlocked |-> 0, locked |-> 0, uAuth |-> FALSE, lAuth |-> FALSE, expires |-> None]
NoRequest == [at |-> "idle", height |-> 0, picked |-> {}, left |-> {}, row |-> None, next |-> "unlock"]
NoEvent == [kind |-> "none", output |-> None, open |-> FALSE, now |-> 0, picked |-> {}, touched |-> {}]

Amount(S) == SumFunctionOnSet([o \in Outputs |-> Out[o].value], S)
Authority(S) == \E o \in S : Out[o].authority
At(S, a) == {o \in S : Out[o].address = a}
LockedUnspent == {o \in Outputs : state[o] = "unspent" /\ locked[o]}

\* NULLs are no minimum.
Earliest(times) == IF times \ {None} = {} THEN None ELSE Min(times \ {None})
timelockOf(o) == IF Out[o].timelock = 0 THEN None ELSE Out[o].timelock

\* A mutant: the columns are signed.
AnyRange(row) == TRUE
\* The columns are UNSIGNED: a statement that goes below zero is an error.
InRange(row) == row.unlocked >= 0 /\ row.locked >= 0
\* A mutant: what would go below zero is clamped.
UnlockClamped(row, S) == [row EXCEPT !.unlocked = @ + Amount(S),
                                     !.locked = IF @ < Amount(S) THEN 0 ELSE @ - Amount(S),
                                     !.uAuth = @ \/ Authority(S)]
Unlock(row, S) == [row EXCEPT !.unlocked = @ + Amount(S), !.locked = @ - Amount(S),
                              !.uAuth = @ \/ Authority(S)]

Init ==
    /\ now = 0 /\ height = 0
    /\ state = [o \in Outputs |-> "absent"] /\ locked = [o \in Outputs |-> FALSE]
    /\ addressBalance = [a \in Addresses |-> NoBalance] /\ walletBalance = NoBalance
    /\ request = [r \in Requests |-> NoRequest] /\ daemon = NoEvent
    /\ failures = 0 /\ crossed = FALSE

Tick ==
    /\ now < MaxTime
    /\ now' = now + 1
    /\ UNCHANGED <<height, rows, request, daemon, failures, crossed>>

---------------------------------------------------------------------------
(* GET /balances. *)

UnlockingNow == {r \in Requests : request[r].at \in {"mark", "update"}}

\* Nothing is refreshed unless some lock of the wallet has expired.
RequestReads(r) ==
    /\ request[r].at = "idle"
    /\ walletBalance.expires # None /\ walletBalance.expires <= now
    /\ request' = [request EXCEPT ![r] = [NoRequest EXCEPT !.at = "select", !.height = height]]
    /\ UNCHANGED <<now, height, rows, daemon, failures, crossed>>

getWalletUnlockedUtxos(h) ==
    {o \in LockedUnspent : Out[o].heightlock <= h /\ Out[o].timelock <= now}

RequestSelects(r) ==
    /\ request[r].at = "select"
    /\ LET due == getWalletUnlockedUtxos(request[r].height)
       IN  /\ request' = [request EXCEPT ![r] =
                  IF due = {} THEN NoRequest
                  ELSE [@ EXCEPT !.at = "mark", !.picked = due]]
           /\ crossed' = (crossed \/ due \cap daemon.touched # {}
                                  \/ \E q \in UnlockingNow : request[q].picked \cap due # {})
    /\ UNCHANGED <<now, height, rows, daemon, failures>>

\* A row of address_balance, whichever comes first, and those that are left.
Begins(q, rest) == {[q EXCEPT !.at = "update", !.row = a, !.left = rest \ {a}, !.next = "unlock"] : a \in rest}

RequestMarks(r) ==
    /\ request[r].at = "mark"
    /\ locked' = [o \in Outputs |-> locked[o] /\ o \notin request[r].picked]
    /\ \E q \in Begins(request[r], {Out[o].address : o \in request[r].picked}) :
           request' = [request EXCEPT ![r] = q]
    /\ UNCHANGED <<now, height, state, addressBalance, walletBalance, daemon, failures, crossed>>

updateAddressLockedBalance(what, a, S) ==
    CASE what = "unlock"      -> Unlock(addressBalance[a], At(S, a))
      [] what = "authorities" -> [addressBalance[a] EXCEPT !.lAuth = Authority(At(LockedUnspent, a))]
      [] what = "expires"     -> [addressBalance[a] EXCEPT
                                     !.expires = Earliest({timelockOf(o) : o \in At(LockedUnspent, a)})]

\* A mutant: the minimum over the addresses of this request.
ExpiresOfPicked(what, S) ==
    CASE what = "unlock"      -> Unlock(walletBalance, S)
      [] what = "authorities" -> [walletBalance EXCEPT !.lAuth = \E a \in Addresses : addressBalance[a].lAuth]
      [] what = "expires"     -> [walletBalance EXCEPT
                                     !.expires = Earliest({addressBalance[Out[o].address].expires : o \in S})]
\* A mutant: the authorities that are still locked are not looked up again.
AuthoritiesKept(what, S) ==
    CASE what = "unlock"      -> Unlock(walletBalance, S)
      [] what = "authorities" -> walletBalance
      [] what = "expires"     -> [walletBalance EXCEPT
                                     !.expires = Earliest({addressBalance[a].expires : a \in Addresses})]
updateWalletLockedBalance(what, S) ==
    CASE what = "unlock"      -> Unlock(walletBalance, S)
      [] what = "authorities" -> [walletBalance EXCEPT !.lAuth = \E a \in Addresses : addressBalance[a].lAuth]
      [] what = "expires"     -> [walletBalance EXCEPT
                                     !.expires = Earliest({addressBalance[a].expires : a \in Addresses})]

\* What follows a statement: the other statements of the row, then another address,
\* then the wallet, whose row is None.
OfRow(q) == IF q.row = None THEN q.picked ELSE At(q.picked, q.row)
Follows(q) ==
    CASE q.next = "unlock"      -> {[q EXCEPT !.next = IF Authority(OfRow(q)) THEN "authorities" ELSE "expires"]}
      [] q.next = "authorities" -> {[q EXCEPT !.next = "expires"]}
      [] q.next = "expires"     -> IF q.row = None THEN {NoRequest}
                                   ELSE IF q.left = {} THEN {[q EXCEPT !.row = None, !.next = "unlock"]}
                                   ELSE Begins(q, q.left)

\* The next statement of the request; one that is out of range ends it.
RequestUpdates(r) ==
    /\ request[r].at = "update"
    /\ LET q == request[r]
           row == IF q.row = None THEN updateWalletLockedBalance(q.next, q.picked)
                  ELSE updateAddressLockedBalance(q.next, q.row, q.picked)
       IN  IF InRange(row)
           THEN /\ IF q.row = None THEN walletBalance' = row /\ UNCHANGED addressBalance
                   ELSE addressBalance' = [addressBalance EXCEPT ![q.row] = row] /\ UNCHANGED walletBalance
                /\ \E p \in Follows(q) : request' = [request EXCEPT ![r] = p]
           ELSE request' = [request EXCEPT ![r] = NoRequest] /\ UNCHANGED <<addressBalance, walletBalance>>
    /\ UNCHANGED <<now, height, state, locked, daemon, failures, crossed>>

\* A statement that fails, or a lambda that runs out of its six seconds.
RequestDies(r) ==
    /\ failures < MaxFailures /\ request[r].at # "idle"
    /\ failures' = failures + 1
    /\ request' = [request EXCEPT ![r] = NoRequest]
    /\ UNCHANGED <<now, height, rows, daemon, crossed>>

---------------------------------------------------------------------------
(* The daemon: an output arrives, an output is spent, a block arrives.     *)

markLockedOutputs(o, t) == Out[o].heightlock > 0 \/ Out[o].timelock > t

\* The fullnode accepts the spending of an output whose locks are over.
Spendable(o) == /\ state[o] = "unspent" /\ Out[o].timelock <= now
                /\ Out[o].heightlock <= height

getUtxosLockedAtHeight(h) ==
    {o \in LockedUnspent : Out[o].heightlock = h /\ Out[o].timelock <= now}
getExpiredTimelocksUtxos == {o \in Outputs : locked[o] /\ Out[o].timelock \in 1 .. now - 1}

\* What the transaction unlocks, as it reads it, and what it writes besides.
Unlocks(kind, o) ==
    CASE kind = "accept" -> {}
      [] kind = "spend"  -> {o} \cap LockedUnspent
      [] kind = "block"  -> getUtxosLockedAtHeight(height + 1) \cup getExpiredTimelocksUtxos
Touches(kind, o) == Unlocks(kind, o) \cup (IF kind = "spend" THEN {o} ELSE {})

Arrives(kind, o) ==
    CASE kind = "accept" -> o # None /\ state[o] = "absent" /\ Out[o].heightlock \notin 1 .. height
      [] kind = "spend"  -> o # None /\ Spendable(o)
      [] kind = "block"  -> o = None /\ height < MaxHeight

\* An event whose transaction was refused comes again, before any other.
DaemonReads(kind, o) ==
    /\ ~daemon.open /\ Arrives(kind, o)
    /\ daemon.kind # "none" => daemon.kind = kind /\ daemon.output = o
    /\ daemon' = [kind |-> kind, output |-> o, open |-> TRUE, now |-> now,
                  picked |-> Unlocks(kind, o), touched |-> Touches(kind, o)]
    /\ crossed' = (crossed \/ \E q \in UnlockingNow : request[q].picked \cap Touches(kind, o) # {})
    /\ UNCHANGED <<now, height, rows, request, failures>>

\* unlockUtxos of the daemon.  An unlock by height leaves the expiry as it is.
ByTime(S) == {o \in S : Out[o].timelock # 0}
Unlocked(row, S, stillLocked, expires) ==
    [Unlock(row, S) EXCEPT !.lAuth = IF Authority(S) THEN stillLocked ELSE @,
                           !.expires = IF ByTime(S) # {} THEN expires ELSE @]
Credited(row, o, isLocked) ==
    IF isLocked
    THEN [row EXCEPT !.locked = @ + Out[o].value, !.lAuth = @ \/ Out[o].authority,
                     !.expires = Earliest({@, timelockOf(o)})]
    ELSE [row EXCEPT !.unlocked = @ + Out[o].value, !.uAuth = @ \/ Out[o].authority]
Debited(row, o, stillThere) ==
    [row EXCEPT !.unlocked = @ - Out[o].value, !.uAuth = IF Out[o].authority THEN stillThere ELSE @]

\* The rows once S is unlocked: those of the addresses, then that of the wallet.
AddressesUnlocked(S) ==
    LET left == LockedUnspent \ S
    IN  [a \in Addresses |->
            Unlocked(addressBalance[a], At(S, a), Authority(At(left, a)),
                     Earliest({timelockOf(o) : o \in At(left, a)}))]
WalletUnlocked(S) ==
    LET byAddress == AddressesUnlocked(S)
    IN  Unlocked(walletBalance, S, \E a \in Addresses : byAddress[a].lAuth,
                 Earliest({byAddress[a].expires : a \in Addresses}))

Accepts(o) ==
    /\ LET isLocked == markLockedOutputs(o, daemon.now)
           a == Out[o].address
       IN  /\ locked' = [locked EXCEPT ![o] = isLocked]
           /\ addressBalance' = [addressBalance EXCEPT ![a] = Credited(@, o, isLocked)]
           /\ walletBalance' = Credited(walletBalance, o, isLocked)
    /\ state' = [state EXCEPT ![o] = "unspent"]
    /\ UNCHANGED height

SpentAt(o) ==
    LET left == {x \in At(Outputs, Out[o].address) \ {o} : state[x] = "unspent" /\ ~locked[x]}
    IN  Debited(AddressesUnlocked(daemon.picked)[Out[o].address], o, Authority(left))
SpentInWallet(o) ==
    Debited(WalletUnlocked(daemon.picked), o,
            SpentAt(o).uAuth \/ \E b \in Addresses \ {Out[o].address} : addressBalance[b].uAuth)
Spends(o) ==
    /\ addressBalance' = [addressBalance EXCEPT ![Out[o].address] = SpentAt(o)]
    /\ walletBalance' = SpentInWallet(o)
    /\ state' = [state EXCEPT ![o] = "spent"] /\ locked' = [locked EXCEPT ![o] = FALSE]
    /\ UNCHANGED height

NewBlock(S) ==
    /\ addressBalance' = AddressesUnlocked(S) /\ walletBalance' = WalletUnlocked(S)
    /\ locked' = [o \in Outputs |-> locked[o] /\ o \notin S]
    /\ height' = height + 1
    /\ UNCHANGED state

\* No statement of the transaction goes out of range.
Fits ==
    CASE daemon.kind = "accept" -> TRUE
      [] daemon.kind = "spend"  -> InRange(SpentAt(daemon.output)) /\ InRange(SpentInWallet(daemon.output))
      [] daemon.kind = "block"  -> /\ \A a \in Addresses : InRange(AddressesUnlocked(daemon.picked)[a])
                                   /\ InRange(WalletUnlocked(daemon.picked))

DaemonCommits ==
    /\ daemon.open /\ Fits
    /\ \/ daemon.kind = "accept" /\ Accepts(daemon.output)
       \/ daemon.kind = "spend" /\ Spends(daemon.output)
       \/ daemon.kind = "block" /\ NewBlock(daemon.picked)
    /\ daemon' = NoEvent
    /\ UNCHANGED <<now, request, failures, crossed>>

\* A statement out of range: rolled back.
DaemonRefused ==
    /\ daemon.open /\ ~Fits
    /\ daemon' = [NoEvent EXCEPT !.kind = daemon.kind, !.output = daemon.output]
    /\ UNCHANGED <<now, height, rows, request, failures, crossed>>

Next ==
    \/ Tick
    \/ \E r \in Requests : \/ RequestReads(r) \/ RequestSelects(r) \/ RequestMarks(r)
                           \/ RequestUpdates(r) \/ RequestDies(r)
    \/ \E kind \in {"accept", "spend", "block"}, o \in Outputs \cup {None} : DaemonReads(kind, o)
    \/ DaemonCommits \/ DaemonRefused

Spec == Init /\ [][Next]_vars

---------------------------------------------------------------------------
(* Properties. *)

\* The rows keep their shape and their UNSIGNED range; an answered request has
\* nothing left to do; nothing that was spent or never arrived is locked.
TypeOK ==
    /\ now \in 0 .. MaxTime /\ height \in 0 .. MaxHeight
    /\ state \in [Outputs -> {"absent", "unspent", "spent"}]
    /\ \A o \in Outputs : locked[o] => state[o] = "unspent"
    /\ \A row \in {addressBalance[a] : a \in Addresses} \cup {walletBalance} :
           row.unlocked \in Nat /\ row.locked \in Nat /\ row.expires \in Nat \cup {None}
    /\ \A r \in Requests : /\ request[r].at \in {"idle", "select", "mark", "update"}
                           /\ request[r].at \in {"mark", "update"} <=> request[r].picked # {}
                           /\ request[r].at = "idle" => request[r] = NoRequest
    /\ daemon.open => daemon.kind # "none"

Unspent(a) == {o \in At(Outputs, a) : state[o] = "unspent"}
AllUnspent == UNION {Unspent(a) : a \in Addresses}

\* Whoever unlocks an output, twice or not at all, and whoever dies on the way,
\* coins only move between the two columns: their sum is what is unspent.
Conserved ==
    /\ \A a \in Addresses : addressBalance[a].unlocked + addressBalance[a].locked = Amount(Unspent(a))
    /\ walletBalance.unlocked + walletBalance.locked = Amount(AllUnspent)

\* Every lock by time is announced: the expiry of the address and of the wallet is
\* never later than that of an output that is still locked, or GET /balances would
\* never look at it (commons.ts getWalletBalances).
ExpiryIsAnnounced ==
    \A o \in LockedUnspent : Out[o].timelock # 0 =>
        \A row \in {addressBalance[Out[o].address], walletBalance} :
            row.expires # None /\ row.expires <= Out[o].timelock

\* As long as no two have unlocked the same output and nobody died, the columns and
\* the authorities are those of tx_output whenever no request is under way, and the
\* daemon is never refused.
Exact(row, S) ==
    LET out == {o \in S : ~locked[o]}
    IN  /\ row.unlocked = Amount(out) /\ row.locked = Amount(S \ out)
        /\ row.uAuth = Authority(out) /\ row.lAuth = Authority(S \ out)
ExactUnlessCrossed ==
    ~crossed /\ failures = 0 =>
        /\ daemon.kind # "none" => daemon.open
        /\ UnlockingNow = {} => /\ \A a \in Addresses : Exact(addressBalance[a], Unspent(a))
                                /\ Exact(walletBalance, AllUnspent)
=============================================================================
