---------------------------- MODULE WalletLoad ----------------------------
(***************************************************************************)
(* Loading one wallet: POST /wallet (load), the asynchronous worker it     *)
(* invokes (loadWallet), the lambda that hears of workers that died        *)
(* (loadWalletFailed) and the daemon, which meanwhile accepts and voids    *)
(* vertices that pay the wallet's addresses (wallet-service/src/api/       *)
(* wallet.ts, db/index.ts, db/shielded.ts, shieldedRecovery.ts; daemon/src/ *)
(* services/index.ts).  A wallet has a legacy path of addresses and, once  *)
(* shielded keys are attached, a second one whose outputs must be rewound  *)
(* before anybody knows what they hold.                                    *)
(*                                                                         *)
(* A lambda's database transaction, or its statement outside one, is one   *)
(* action.  The daemon's transaction is two: REPEATABLE READ fixes what it *)
(* reads at its first read (DaemonOpens), its writes are seen when it ends *)
(* (DaemonAccepts, DaemonVoids); the worker claims, sweeps, rebuilds and   *)
(* settles in between as well.  One token; every vertex pays 1 to one      *)
(* address.                                                                *)
(***************************************************************************)
EXTENDS Integers, FiniteSets, FiniteSetsExt

CONSTANTS Requests,    \* POST /wallet lambdas that may run at the same time
          Loads,       \* invocations of loadWallet that may be under way
          Vertices, KeySets, NoKeys, NoVertex,
          Gap,         \* maxAddressGap and shieldedMaxAddressGap
          LastIndex,   \* bound on the indices of addresses
          Pays,        \* [Vertices -> Addresses]
          Voidable,    \* bound on the vertices that may be voided
          MaxRetries,  \* MAX_LOAD_WALLET_RETRIES
          Allowed      \* what may happen besides

Kinds == {"crash", "dbError", "daemonError", "markFails", "invokeFails", "requestDies",
          "rewindFails", "voidInUpgrade", "slowIngest", "overlap", "again"}

\* The path of a key set; that of the xpubkey is NoKeys'.
Addresses == (KeySets \cup {NoKeys}) \X (0 .. LastIndex)
LegacyPath == {a \in Addresses : a[1] = NoKeys}
Shielded(v) == Pays[v][1] # NoKeys

ASSUME LoadAssumption ==
    /\ IsFiniteSet(Vertices) /\ NoKeys \notin KeySets /\ NoVertex \notin Vertices
    /\ Gap \in Nat \ {0} /\ LastIndex \in Nat /\ Pays \in [Vertices -> Addresses]
    /\ Voidable \subseteq Vertices
    /\ MaxRetries \in Nat \ {0} /\ Allowed \subseteq Kinds

VARIABLES wallet,   \* the row of wallet
          call,     \* the POST /wallet lambdas
          load,     \* the loadWallet invocations
          owner,    \* the rows of address: none, seen by the daemon, owned by the wallet
          tx,       \* transaction
          recovery, \* tx_output.recovery_state
          credit,   \* what each vertex adds to its row of address_balance,
          counted,  \* and to the row's count of transactions
          walCredit, walHistory, \* its part of wallet_balance; its row of wallet_tx_history
          daemon,   \* the vertex the daemon handles, and what its transaction read;
                    \* history: credited, whether the wallet had the vertex then
          late     \* history: vertices handled on what a load had outdated
tables == <<owner, tx, recovery, credit, counted, walCredit, walHistory>>
vars == <<wallet, call, load, tables, daemon, late>>

---------------------------------------------------------------------------
(* The row of wallet and the statements on its two statuses. *)

NoWallet == [status |-> "absent", ct |-> "none", keys |-> NoKeys, retry |-> 0]
Unified(w) ==
    IF "error" \in {w.status, w.ct} THEN "error"
    ELSE IF "creating" \in {w.status, w.ct} THEN "creating" ELSE w.status
Upgrading == wallet.status = "ready" /\ wallet.ct \in {"creating", "error"}
isWalletAttributable(w) == w.status = "ready" /\ w.ct \in {"none", "ready"}

createWallet(k) ==
    [status |-> "creating", ct |-> IF k = NoKeys THEN "none" ELSE "creating", keys |-> k, retry |-> 0]
registerWalletShieldedKeys(w, k) == [w EXCEPT !.keys = k, !.ct = "creating", !.retry = 0]
casWalletErrorToCreating(w) ==
    [w EXCEPT !.status = IF @ = "error" THEN "creating" ELSE @,
              !.ct     = IF @ = "error" THEN "creating" ELSE @]

MidLoad == {"creating", "error"}
Retried(n) == IF n < MaxRetries THEN n + 1 ELSE n   \* counted up to the cap
\* A mutant: an attempt that failed always marks the wallet.
MarkEvenReady(w) == [w EXCEPT !.status = "error", !.retry = Retried(@)]
markLegacyLoadError(w) ==
    IF w.status \in MidLoad THEN [w EXCEPT !.status = "error", !.retry = Retried(@)] ELSE w
\* A mutant: marks the legacy side only.
MarkLegacySide(w, alsoLegacy) == markLegacyLoadError(w)
markWalletLoadError(w, alsoLegacy) ==
    IF alsoLegacy
    THEN IF w.status \in MidLoad /\ w.ct \in MidLoad
         THEN [w EXCEPT !.status = "error", !.ct = "error", !.retry = Retried(@)] ELSE w
    ELSE IF w.ct \in MidLoad THEN [w EXCEPT !.ct = "error", !.retry = Retried(@)] ELSE w
pinLegacyLoadFailed(w) ==
    IF w.status \in MidLoad THEN [w EXCEPT !.status = "error", !.retry = MaxRetries] ELSE w
pinShieldedLoadFailed(w) ==
    IF w.ct \in MidLoad THEN [w EXCEPT !.ct = "error", !.retry = MaxRetries] ELSE w
markWalletLoadReady(w, alsoLegacy) ==
    [w EXCEPT !.status = IF alsoLegacy THEN "ready" ELSE @, !.ct = "ready", !.retry = 0]
updateWalletStatus(w) == [w EXCEPT !.status = "ready", !.retry = 0]

NoCall == [at |-> "idle", keys |-> NoKeys, saw |-> NoWallet, wasReady |-> FALSE]
NoLoad == [at |-> "idle", wasReady |-> FALSE, keys |-> NoKeys,
           claims |-> {}, list |-> {}, sums |-> [v \in Vertices |-> 0]]
NoEvent == [vertex |-> NoVertex, voids |-> FALSE, open |-> FALSE,
            attributable |-> FALSE, owned |-> FALSE, recovered |-> FALSE,
            credited |-> FALSE, adds |-> {}]

Init ==
    /\ wallet = NoWallet
    /\ call = [r \in Requests |-> NoCall] /\ load = [l \in Loads |-> NoLoad]
    /\ owner = [a \in Addresses |-> "none"]
    /\ tx = [v \in Vertices |-> "absent"] /\ recovery = [v \in Vertices |-> "none"]
    /\ credit = [v \in Vertices |-> 0] /\ counted = [v \in Vertices |-> 0]
    /\ walCredit = [v \in Vertices |-> 0] /\ walHistory = {}
    /\ daemon = NoEvent /\ late = {}

---------------------------------------------------------------------------
(* POST /wallet: read the row, then create it, attach keys to it or retry  *)
(* it, then invoke the worker.  The request of an old client has NoKeys.   *)

\* A mutant: what the lambda knew outlives the request.
EndsKeepingKeys(r) == call' = [call EXCEPT ![r].at = "idle"]
Ends(r) == call' = [call EXCEPT ![r] = NoCall]
GoesToInvoke(r) == call' = [call EXCEPT ![r].at = "invoke", ![r].saw = NoWallet]

\* What is left to do once the row is read; the early answers are "end".
NextOf(saw, k) ==
    CASE saw.status = "absent"  -> "create"
      [] saw.status # "absent" /\ k = NoKeys ->
             IF saw.status = "error" /\ saw.retry < MaxRetries THEN "retry" ELSE "end"
      [] saw.status # "absent" /\ k # NoKeys /\ saw.keys = NoKeys -> "attach"
      [] saw.status # "absent" /\ k # NoKeys /\ saw.keys = k ->
             IF Unified(saw) = "error" /\ saw.retry < MaxRetries THEN "retry" ELSE "end"
      [] OTHER -> "end"   \* SHIELDED_KEYS_CONFLICT

RequestReads(r, k) ==
    /\ call[r].at = "idle" /\ NextOf(wallet, k) # "end"
    /\ call' = [call EXCEPT ![r] =
           [at |-> NextOf(wallet, k), keys |-> k, wasReady |-> k # NoKeys /\ wallet.status = "ready",
            saw |-> IF NextOf(wallet, k) = "attach" THEN wallet ELSE NoWallet]]
    /\ UNCHANGED <<wallet, load, tables, daemon, late>>

\* The INSERT of the second of two new wallets fails on its key.
RequestCreates(r) ==
    /\ call[r].at = "create"
    /\ IF wallet.status = "absent"
       THEN wallet' = createWallet(call[r].keys) /\ GoesToInvoke(r)
       ELSE UNCHANGED wallet /\ Ends(r)
    /\ UNCHANGED <<load, tables, daemon, late>>

Quiet == /\ \A l \in Loads : load[l].at = "idle"
         /\ \A r \in Requests : call[r].at \notin {"retry", "invoke"}
\* The keys are attached while nothing has loaded the wallet since it was read,
\* and nothing that read it earlier is about to.
Alone(r) == Quiet /\ call[r].saw = wallet

\* Only the request that attached the keys drives the load of an upgrade.
RequestAttaches(r) ==
    /\ call[r].at = "attach" /\ ("overlap" \in Allowed \/ Alone(r))
    /\ IF wallet.keys = NoKeys
       THEN wallet' = registerWalletShieldedKeys(wallet, call[r].keys) /\ GoesToInvoke(r)
       ELSE UNCHANGED wallet /\ Ends(r)
    /\ UNCHANGED <<load, tables, daemon, late>>

RequestRetries(r) ==
    /\ call[r].at = "retry"
    /\ IF "error" \in {wallet.status, wallet.ct}
       THEN wallet' = casWalletErrorToCreating(wallet) /\ GoesToInvoke(r)
       ELSE UNCHANGED wallet /\ Ends(r)
    /\ UNCHANGED <<load, tables, daemon, late>>

RequestInvokes(r, l) ==
    /\ call[r].at = "invoke" /\ load[l].at = "idle"
    /\ load' = [load EXCEPT ![l] = [NoLoad EXCEPT !.at = "queued"]]
    /\ Ends(r)
    /\ UNCHANGED <<wallet, tables, daemon, late>>

\* onAsyncInvokeError: only what this request was loading is marked.
InvokeFails(r) ==
    /\ "invokeFails" \in Allowed /\ call[r].at = "invoke"
    /\ wallet' = IF call[r].keys = NoKeys THEN markLegacyLoadError(wallet)
                 ELSE markWalletLoadError(wallet, ~call[r].wasReady)
    /\ Ends(r)
    /\ UNCHANGED <<load, tables, daemon, late>>

\* Before its write a request leaves nothing behind; after it, nobody to invoke the worker.
RequestDies(r) ==
    /\ call[r].at # "idle" /\ (call[r].at = "invoke" => "requestDies" \in Allowed)
    /\ Ends(r)
    /\ UNCHANGED <<wallet, load, tables, daemon, late>>

---------------------------------------------------------------------------
(* The worker: read, derive, claim, sweep twice, rebuild, settle.          *)

Step(l, place) == load' = [load EXCEPT ![l].at = place]
Live(v) == tx[v] = "live"

\* generateAddresses and generateShieldedAddresses: blocks of Gap addresses
\* are derived until one ends Gap beyond the last used address.
LastUsed(path) == Max({-1} \cup {Pays[v][2] : v \in {x \in Vertices : Live(x) /\ Pays[x][1] = path}})
HighestChecked(path) == CHOOSE n \in 0 .. LastIndex + Gap :
    /\ (n + 1) % Gap = 0 /\ LastUsed(path) + Gap <= n
    /\ \A m \in 0 .. n - 1 : (m + 1) % Gap = 0 => m < LastUsed(path) + Gap
Window(path) == {a \in Addresses : a[1] = path /\ a[2] <= LastUsed(path) + Gap}
\* Rows that exist in the blocks are claimed too, even beyond the window.
Existing(path) == {a \in Addresses : a[1] = path /\ a[2] <= HighestChecked(path) /\ owner[a] # "none"}
Claims(k) == Window(NoKeys) \cup Existing(NoKeys) \cup (IF k = NoKeys THEN {} ELSE Window(k))

\* The wallet is not loaded, and nobody else is loading it.
ToBeLoaded(l) == /\ ~isWalletAttributable(wallet)
                 /\ \A m \in Loads \ {l} : load[m].at \in {"idle", "queued", "done", "dead"}

LoadReads(l) ==
    /\ load[l].at = "queued" /\ ("again" \in Allowed \/ ToBeLoaded(l))
    /\ load' = [load EXCEPT ![l].at = "derive", ![l].keys = wallet.keys,
                            ![l].wasReady = wallet.keys # NoKeys /\ wallet.status = "ready"]
    /\ UNCHANGED <<wallet, call, tables, daemon, late>>

LoadDerives(l) ==
    /\ load[l].at = "derive"
    /\ load' = [load EXCEPT ![l].at = "claim", ![l].claims = Claims(load[l].keys),
                            ![l].list = Window(NoKeys)]
    /\ UNCHANGED <<wallet, call, tables, daemon, late>>

\* The claim, then getWalletCtSpendAddresses: all shielded addresses the wallet owns.
LoadClaims(l) ==
    /\ load[l].at = "claim"
    /\ owner' = [a \in Addresses |-> IF a \in load[l].claims THEN "owned" ELSE owner[a]]
    /\ load' = [load EXCEPT ![l].at = IF load[l].keys = NoKeys THEN "lock" ELSE "sweep1",
                            ![l].claims = {},
                            ![l].list = @ \cup IF load[l].keys = NoKeys THEN {}
                                               ELSE {a \in Addresses \ LegacyPath : owner'[a] = "owned"}]
    /\ UNCHANGED <<wallet, call, tx, recovery, credit, counted, walCredit, walHistory, daemon, late>>

getShieldedOutputsToRecover ==
    {v \in Vertices : /\ Shielded(v) /\ owner[Pays[v]] = "owned" /\ Live(v)
                      /\ recovery[v] # "recovered"}

\* The daemon read, before the claim, that nobody owns the address of the output it
\* ingests.  "moments later" (api/wallet.ts:831), that is before the second sweep, it
\* is done, unless ingests may be slow.
Outdated == /\ daemon.open /\ ~daemon.voids /\ Shielded(daemon.vertex)
            /\ ~daemon.owned /\ owner[Pays[daemon.vertex]] = "owned"

\* A mutant: one sweep.
OneSweep(place) == "rebuild"
AfterSweep(place) == IF place = "sweep1" THEN "sweep2" ELSE "rebuild"

\* findAndRewindShielded: an output that cannot be rewound is marked, the sweep goes on.
LoadSweeps(l, failed) ==
    /\ load[l].at \in {"sweep1", "sweep2"}
    /\ load[l].at = "sweep2" => "slowIngest" \in Allowed \/ ~Outdated
    /\ failed \subseteq getShieldedOutputsToRecover /\ (failed # {} => "rewindFails" \in Allowed)
    /\ recovery' = [v \in Vertices |-> IF v \notin getShieldedOutputsToRecover THEN recovery[v]
                                       ELSE IF v \in failed THEN "failed" ELSE "recovered"]
    /\ Step(l, AfterSweep(load[l].at))
    /\ UNCHANGED <<wallet, call, owner, tx, credit, counted, walCredit, walHistory, daemon, late>>

\* Rows of address_balance, from what the vertices add to them.
PaidTo(a) == {v \in Vertices : Pays[v] = a}
RowCredit(a) == SumFunctionOnSet(credit, PaidTo(a))
RowCount(a) == SumFunctionOnSet(counted, PaidTo(a))
RowExists(a) == RowCredit(a) # 0 \/ RowCount(a) # 0
WalletTotal == SumFunctionOnSet(walCredit, Vertices)

\* A mutant: the sums are read without locks.
Unlocked(a) == FALSE
\* FOR UPDATE of lockAddressBalancesForUpdate, held from the sum to the end.
Locked(a) == \E l \in Loads : load[l].at = "settle" /\ a \in load[l].list
Settling == \E l \in Loads : load[l].at = "settle"

\* rebuildShieldedAddressBalances, rebuildShieldedAddressTxHistory: the shielded
\* columns of the addresses that have a recovered output; transactions is left alone.
Recovered(v) == Shielded(v) /\ Live(v) /\ recovery[v] = "recovered"
LoadRebuilds(l) ==
    /\ load[l].at = "rebuild" /\ ~\E a \in load[l].list : Locked(a)
    /\ credit' = [v \in Vertices |->
           IF Shielded(v) /\ Pays[v] \in load[l].list /\ \E o \in PaidTo(Pays[v]) : Recovered(o)
           THEN IF Recovered(v) THEN 1 ELSE 0
           ELSE credit[v]]
    /\ Step(l, "lock")
    /\ UNCHANGED <<wallet, call, owner, tx, recovery, counted, walCredit, walHistory, daemon, late>>

\* The settle transaction: lock, sum.  A token whose rows are all gone is in no group.
LoadLocks(l) ==
    /\ load[l].at = "lock" /\ ~Settling
    /\ load' = [load EXCEPT ![l].at = "settle", ![l].sums =
           IF \E a \in load[l].list : RowExists(a)
           THEN [v \in Vertices |-> IF Pays[v] \in load[l].list THEN credit[v] ELSE 0]
           ELSE walCredit]
    /\ UNCHANGED <<wallet, call, tables, daemon, late>>

\* rebuildWalletTxHistory only adds rows.  The sums are right again for what the
\* daemon accepted late, during an earlier load.
LoadSettles(l) ==
    /\ load[l].at = "settle"
    /\ walCredit' = load[l].sums
    /\ walHistory' = walHistory \cup {v \in Vertices : Live(v) /\ Pays[v] \in load[l].list /\ credit[v] = 1}
    /\ wallet' = IF load[l].keys = NoKeys THEN updateWalletStatus(wallet)
                 ELSE markWalletLoadReady(wallet, ~load[l].wasReady)
    /\ load' = [load EXCEPT ![l] = [NoLoad EXCEPT !.at = "done"]]
    /\ late' = {v \in late : ~Live(v)}
    /\ UNCHANGED <<call, owner, tx, recovery, credit, counted, daemon>>

LoadReturns(l) ==
    /\ load[l].at = "done"
    /\ load' = [load EXCEPT ![l] = NoLoad]
    /\ UNCHANGED <<wallet, call, tables, daemon, late>>

\* The worker's catch: mark the failure, and answer; its own failure is swallowed.
LoadFails(l) ==
    /\ "dbError" \in Allowed /\ load[l].at \notin {"idle", "queued", "done", "dead"}
    /\ \/ wallet' = IF load[l].keys = NoKeys THEN markLegacyLoadError(wallet)
                    ELSE markWalletLoadError(wallet, ~load[l].wasReady)
       \/ "markFails" \in Allowed /\ UNCHANGED wallet
    /\ load' = [load EXCEPT ![l] = NoLoad]
    /\ UNCHANGED <<call, tables, daemon, late>>

\* A worker that runs out of time or of memory: AWS runs it again, any number of
\* times, or gives up.
LoadCrashes(l) ==
    /\ "crash" \in Allowed /\ load[l].at \notin {"idle", "queued", "dead"}
    /\ \E place \in {"queued", "dead"} : load' = [load EXCEPT ![l] = [NoLoad EXCEPT !.at = place]]
    /\ UNCHANGED <<wallet, call, tables, daemon, late>>

loadWalletFailed(l) ==
    /\ load[l].at = "dead"
    /\ wallet' = IF wallet.keys = NoKeys THEN pinLegacyLoadFailed(wallet)
                 ELSE pinShieldedLoadFailed(IF wallet.status # "ready" THEN pinLegacyLoadFailed(wallet)
                                            ELSE wallet)
    /\ load' = [load EXCEPT ![l] = NoLoad]
    /\ UNCHANGED <<call, tables, daemon, late>>

---------------------------------------------------------------------------
(* The daemon: one vertex after the other, one transaction each.  A        *)
(* transaction that fails is rolled back and its event comes again.        *)

\* The legacy gap extension: the addresses that the wallet lacks after the last it owns.
NewAddresses(v) ==
    LET top == Max({-1} \cup {a[2] : a \in {b \in LegacyPath : owner[b] = "owned"}})
        missing == Gap - (top - Pays[v][2])
    IN IF owner[Pays[v]] = "owned" /\ ~Shielded(v) /\ missing > 0
       THEN {a \in LegacyPath : a[2] \in top + 1 .. top + missing} ELSE {}

DaemonOpens(v, voids) ==
    /\ ~daemon.open
    /\ daemon.vertex \in {NoVertex, v} /\ (daemon.vertex = v => daemon.voids = voids)
    /\ tx[v] = IF voids THEN "live" ELSE "absent"
    /\ voids => v \in Voidable /\ ("voidInUpgrade" \in Allowed \/ ~Upgrading)
    /\ daemon' = [vertex |-> v, voids |-> voids, open |-> TRUE,
                  attributable |-> isWalletAttributable(wallet) /\ owner[Pays[v]] = "owned",
                  owned |-> owner[Pays[v]] = "owned",
                  recovered |-> recovery[v] = "recovered", credited |-> walCredit[v] = 1,
                  adds |-> IF voids THEN {} ELSE NewAddresses(v)]
    /\ UNCHANGED <<wallet, call, load, tables, late>>

\* A vertex is in the balance maps when its output is transparent or was rewound.
NotBlocked(v) == ~Locked(Pays[v]) /\ (daemon.attributable => ~Settling)

Outcomes(v) ==
    IF ~Shielded(v) THEN {"none"}
    ELSE IF ~daemon.owned THEN {"unowned"}
    ELSE {"recovered"} \cup IF "rewindFails" \in Allowed THEN {"failed"} ELSE {}

\* They are added by a plain INSERT.
AcceptRefused == \E a \in daemon.adds : owner[a] # "none"

\* The transaction read that the wallet is not ready, a load settled since then: the
\* wallet's own tables are left alone.
MissedReady(v) == /\ ~daemon.attributable /\ isWalletAttributable(wallet)
                  /\ owner[Pays[v]] = "owned"

DaemonAccepts(outcome) ==
    LET v == daemon.vertex
        mapped == outcome \in {"none", "recovered"}
    IN /\ daemon.open /\ ~daemon.voids /\ NotBlocked(v)
       /\ outcome \in Outcomes(v) /\ ~AcceptRefused
       /\ tx' = [tx EXCEPT ![v] = "live"]
       /\ recovery' = [recovery EXCEPT ![v] = outcome]
       /\ owner' = [a \in Addresses |-> IF a \in daemon.adds THEN "owned"
                                        ELSE IF a = Pays[v] /\ owner[a] = "none" THEN "seen"
                                        ELSE owner[a]]
       /\ credit' = IF mapped THEN [credit EXCEPT ![v] = @ + 1] ELSE credit
       /\ counted' = IF mapped THEN [counted EXCEPT ![v] = @ + 1] ELSE counted
       /\ walCredit' = IF mapped /\ daemon.attributable THEN [walCredit EXCEPT ![v] = @ + 1] ELSE walCredit
       /\ walHistory' = IF mapped /\ daemon.attributable THEN walHistory \cup {v} ELSE walHistory
       /\ late' = IF mapped /\ MissedReady(v) THEN late \cup {v} ELSE late
       /\ daemon' = NoEvent
       /\ UNCHANGED <<wallet, call, load>>

\* voidTx reverses what tx_output, as its transaction read it, says was credited; no row
\* is touched that is not there.
Reversed(v) == ~Shielded(v) \/ (daemon.recovered /\ daemon.owned)
Subtracts(v) == Reversed(v) /\ RowExists(Pays[v])
\* What a load credited, to the wallet or to the address, since the transaction read.
MissedCredit(v) ==
    \/ Reversed(v) /\ ~daemon.attributable /\ ~daemon.credited /\ walCredit[v] = 1
    \/ Shielded(v) /\ recovery[v] = "recovered" /\ ~daemon.recovered /\ credit[v] = 1
\* The columns are UNSIGNED.
VoidRefused(v) == Subtracts(v) /\ (RowCredit(Pays[v]) = 0 \/ RowCount(Pays[v]) = 0)

DaemonVoids ==
    LET v == daemon.vertex
        walletToo == Reversed(v) /\ daemon.attributable
    IN /\ daemon.open /\ daemon.voids /\ NotBlocked(v) /\ ~VoidRefused(v)
       /\ tx' = [tx EXCEPT ![v] = "voided"]
       /\ credit' = IF Subtracts(v) THEN [credit EXCEPT ![v] = @ - 1] ELSE credit
       /\ counted' = IF Subtracts(v) THEN [counted EXCEPT ![v] = @ - 1] ELSE counted
       /\ walCredit' = IF walletToo /\ WalletTotal > 0 THEN [walCredit EXCEPT ![v] = @ - 1] ELSE walCredit
       /\ walHistory' = IF walletToo THEN walHistory \ {v} ELSE walHistory
       /\ late' = IF MissedCredit(v) THEN late \cup {v} ELSE late
       /\ daemon' = NoEvent
       /\ UNCHANGED <<wallet, call, load, owner, recovery>>

DaemonRollsBack ==
    /\ daemon.open
    /\ \/ "daemonError" \in Allowed
       \/ ~daemon.voids /\ AcceptRefused
       \/ daemon.voids /\ VoidRefused(daemon.vertex)
    /\ daemon' = [NoEvent EXCEPT !.vertex = daemon.vertex, !.voids = daemon.voids]
    /\ UNCHANGED <<wallet, call, load, tables, late>>

Next ==
    \/ \E r \in Requests, k \in KeySets \cup {NoKeys} : RequestReads(r, k)
    \/ \E r \in Requests : \/ RequestCreates(r) \/ RequestAttaches(r) \/ RequestRetries(r)
                           \/ InvokeFails(r) \/ RequestDies(r)
    \/ \E r \in Requests, l \in Loads : RequestInvokes(r, l)
    \/ \E l \in Loads : \/ LoadReads(l) \/ LoadDerives(l) \/ LoadClaims(l) \/ LoadRebuilds(l)
                        \/ LoadLocks(l) \/ LoadSettles(l) \/ LoadReturns(l)
                        \/ LoadFails(l) \/ LoadCrashes(l) \/ loadWalletFailed(l)
    \/ \E l \in Loads, failed \in SUBSET Vertices : LoadSweeps(l, failed)
    \/ \E v \in Vertices, voids \in BOOLEAN : DaemonOpens(v, voids)
    \/ \E outcome \in {"none", "unowned", "recovered", "failed"} : DaemonAccepts(outcome)
    \/ DaemonVoids \/ DaemonRollsBack

Spec == Init /\ [][Next]_vars

---------------------------------------------------------------------------
(* Properties. *)

Places == {"queued", "derive", "claim", "sweep1", "sweep2", "rebuild", "lock", "settle", "done", "dead"}

\* The rows keep their shape; shielded keys and a shielded status come together;
\* a lambda that answered, or died, remembers nothing.
TypeOK ==
    /\ wallet \in [status : {"absent", "creating", "ready", "error"},
                   ct : {"none", "creating", "ready", "error"},
                   keys : KeySets \cup {NoKeys}, retry : 0 .. MaxRetries]
    /\ wallet.ct = "none" <=> wallet.keys = NoKeys
    /\ \A r \in Requests : /\ call[r].at \in {"idle", "create", "attach", "retry", "invoke"}
                           /\ call[r].at = "idle" => call[r] = NoCall
                           /\ call[r].keys \in KeySets \cup {NoKeys}
    /\ \A l \in Loads : /\ load[l].at \in Places \cup {"idle"}
                        /\ load[l].at \in {"idle", "queued", "done", "dead"} =>
                               load[l].list = {} /\ load[l].keys = NoKeys
                        /\ load[l].at # "claim" => load[l].claims = {}
    /\ owner \in [Addresses -> {"none", "seen", "owned"}]
    /\ tx \in [Vertices -> {"absent", "live", "voided"}]
    /\ recovery \in [Vertices -> {"none", "unowned", "recovered", "failed"}]
    /\ credit \in [Vertices -> -1 .. 1] /\ counted \in [Vertices -> -1 .. 1]
    /\ walCredit \in [Vertices -> -1 .. 1] /\ walHistory \subseteq Vertices /\ late \subseteq Vertices
    /\ daemon.vertex \in Vertices \cup {NoVertex} /\ (daemon.open => daemon.vertex # NoVertex)

\* What a vertex is worth to whoever owns its address: it is live, and its output
\* was never hidden or has been rewound.
Worth == [v \in Vertices |-> IF Live(v) /\ (~Shielded(v) \/ recovery[v] = "recovered") THEN 1 ELSE 0]

\* A wallet that is ready has the sum of its addresses' rows, which is what its
\* outputs are worth, and no transaction of theirs is missing from its history.
\* "the locks make it wait until we're ready" (api/wallet.ts:848) is not enough: the
\* daemon's transaction waits, but goes on with what it read before, that the wallet is
\* not ready or the output not recovered.  The vertices it handles so are in late, an
\* accepted one until the next load settles; MCWalletLoad_straddle has the property
\* without them, and its violation.  Addresses that get owned during a load and are not
\* in its list are not waited for: the ones claimed beyond the window (Existing,
\* MCWalletLoad_block) and the ones the daemon adds (NewAddresses,
\* MCWalletLoad_extended); the runs pay none of these.
Owned == {v \in Vertices : owner[Pays[v]] = "owned"}
SumsAreRight ==
    /\ WalletTotal = SumFunctionOnSet(credit, Owned)
    /\ WalletTotal = SumFunctionOnSet(Worth, Owned)
    /\ \A v \in Owned : Worth[v] = 1 => v \in walHistory
ReadyIsSummed == isWalletAttributable(wallet) /\ late = {} => SumsAreRight

\* The same without the exception.
ReadyIsAlwaysSummed == isWalletAttributable(wallet) => SumsAreRight

\* Once a wallet is ready and no worker runs, no output of an address it owns is
\* still waiting for somebody to rewind it, though the daemon may have read before the
\* claim and ingested after the first sweep: "one more (cheap when empty) sweep closes
\* that window" (api/wallet.ts:829-831).  An ingest that outlasts the second sweep
\* breaks it (slowIngest), and a load that runs again on a ready wallet, and fails
\* after it claimed (again).
NothingUnowned ==
    isWalletAttributable(wallet) /\ (\A l \in Loads : load[l].at = "idle") =>
        \A v \in Owned : Live(v) => recovery[v] # "unowned"

\* A wallet that is being created is being loaded: some request, worker or dead
\* letter will end it.  Otherwise every later request answers that it is loading.
NoLoadLost ==
    Unified(wallet) = "creating" =>
        \/ \E r \in Requests : call[r].at = "invoke"
        \/ \E l \in Loads : load[l].at \notin {"idle", "done"}

\* A side that is ready stays ready, whoever fails, and whenever the news of an
\* old failure arrives; what was recovered is never forgotten.
NeverGoesBack ==
    [][/\ wallet.status = "ready" => wallet'.status = "ready"
       /\ wallet.ct = "ready" => wallet'.ct = "ready"
       /\ wallet.keys # NoKeys => wallet'.keys = wallet.keys
       /\ \A v \in Vertices : recovery[v] = "recovered" => recovery'[v] = "recovered"]_vars

\* "those same rows must be reversed when the vertex is voided" (services/index.ts):
\* once loads are over, no void is refused by the UNSIGNED columns.
VoidsSucceed ==
    daemon.open /\ daemon.voids /\ (\A l \in Loads : load[l].at = "idle") => ~VoidRefused(daemon.vertex)
=============================================================================
