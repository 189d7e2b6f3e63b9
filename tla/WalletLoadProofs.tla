------------------------- MODULE WalletLoadProofs -------------------------
(***************************************************************************)
(* For any gaps, vertices, requests and workers: the types, with no vertex *)
(* credited or reversed twice; what is ready stays ready; and, as long as  *)
(* keys are attached to a wallet nobody loads, a wallet that is being      *)
(* created is being loaded.  All depend on what lambdas remember of the    *)
(* row: Known is true whatever happens, Current only without "overlap"     *)
(* (what they remember is still so).  As long as no load runs again on a   *)
(* ready wallet and no ingest outlasts the second sweep, no output of a    *)
(* ready wallet waits to be rewound (Undisturbed).  With no void in the    *)
(* middle of an upgrade besides, and but for late vertices, the wallet has *)
(* the sum of its addresses, which is what its outputs are worth           *)
(* (Accounted, with SumStep, which unfolds SumFunctionOnSet, and the facts *)
(* on sums that follow from it).  The daemon's transaction may cross any   *)
(* step of a load otherwise.                                               *)
(***************************************************************************)
EXTENDS WalletLoad, FiniteSetTheorems, TLAPS

Row == [status : {"absent", "creating", "ready", "error"},
        ct : {"none", "creating", "ready", "error"},
        keys : KeySets \cup {NoKeys}, retry : Nat]
Up(w) == w.status = "ready" /\ w.ct \in MidLoad

RowOK(w) ==
    /\ w \in Row
    /\ w.status = "absent" => w = NoWallet
    /\ w.ct = "none" <=> w.keys = NoKeys
    /\ w.ct = "ready" => w.status = "ready"

Call == [at : {"idle", "create", "attach", "retry", "invoke"}, keys : KeySets \cup {NoKeys},
         saw : Row, wasReady : BOOLEAN]

(* A request past its read found a row; what was ready is.                 *)
CallKnown(c, w) ==
    /\ c \in Call
    /\ c.at = "create" => ~c.wasReady
    /\ c.at \in {"attach", "retry", "invoke"} => w.status # "absent"
    /\ c.at = "attach" => c.keys # NoKeys /\ c.wasReady = (c.saw.status = "ready")
    /\ c.at \in {"retry", "invoke"} /\ c.keys # NoKeys => w.keys # NoKeys
    /\ c.wasReady => w.status = "ready"

LoadFields == DOMAIN NoLoad
LoadKnown(j, w) ==
    /\ DOMAIN j = LoadFields
    /\ j.at # "idle" => w.status # "absent"
    /\ j.keys # NoKeys => w.keys # NoKeys
    /\ j.wasReady \in BOOLEAN /\ (j.wasReady => w.status = "ready")

Known ==
    /\ RowOK(wallet)
    /\ call \in [Requests -> Call] /\ \A r \in Requests : CallKnown(call[r], wallet)
    /\ load = [l \in Loads |-> load[l]] /\ \A l \in Loads : LoadKnown(load[l], wallet)

(* During an upgrade, all that may still mark the wallet know that it is one. *)
Working(j) == j.at \notin {"idle", "queued", "done", "dead"}
CallCurrent(c, w) == c.at \in {"retry", "invoke"} /\ Up(w) => c.keys # NoKeys /\ c.wasReady
LoadCurrent(j, w) == Working(j) => j.keys = w.keys /\ (Up(w) => j.wasReady)
Current ==
    /\ \A r \in Requests : CallCurrent(call[r], wallet)
    /\ \A l \in Loads : LoadCurrent(load[l], wallet)

(* Rows of vertices, as far as recoveries go.                              *)
Recoveries ==
    /\ tx \in [Vertices -> {"absent", "live", "voided"}]
    /\ recovery \in [Vertices -> {"none", "unowned", "recovered", "failed"}]
    /\ \A v \in Vertices : tx[v] = "absent" => recovery[v] # "recovered"
    /\ daemon.open /\ ~daemon.voids =>
           daemon.vertex \in Vertices /\ tx[daemon.vertex] = "absent"

USE LoadAssumption

-----------------------------------------------------------------------------
(* The statements on the row of wallet.                                    *)

Forward(w, w2) ==
    /\ RowOK(w2)
    /\ w.status # "absent" => w2.status # "absent"
    /\ w.status = "ready" => w2.status = "ready"
    /\ w.ct = "ready" => w2.ct = "ready"
    /\ w.keys # NoKeys => w2.keys = w.keys

(* No upgrade begins.                                                      *)
Calm(w, w2) == w2.keys = w.keys /\ (Up(w2) => Up(w))

LEMMA NoWalletOK == RowOK(NoWallet) /\ ~Up(NoWallet)
  BY DEF NoWallet, RowOK, Row, Up

LEMMA SameRow == ASSUME NEW w, RowOK(w) PROVE Forward(w, w) /\ Calm(w, w)
  BY DEF Forward, Calm

LEMMA RetriedNat == ASSUME NEW n \in Nat PROVE Retried(n) \in Nat
  BY DEF Retried

LEMMA LegacyMark ==
    ASSUME NEW w, RowOK(w)
    PROVE  /\ Forward(w, markLegacyLoadError(w)) /\ Calm(w, markLegacyLoadError(w))
           /\ w.keys = NoKeys => Unified(markLegacyLoadError(w)) # "creating"
  <1>1. w \in Row /\ Retried(w.retry) \in Nat
    BY RetriedNat DEF RowOK, Row
  <1>2. CASE w.status \in MidLoad
    <2> DEFINE w2 == [w EXCEPT !.status = "error", !.retry = Retried(@)]
    <2>1. /\ w2 \in Row /\ w2.status = "error" /\ w2.ct = w.ct /\ w2.keys = w.keys
      BY <1>1 DEF Row
    <2>2. markLegacyLoadError(w) = w2
      BY <1>2 DEF markLegacyLoadError
    <2> HIDE DEF w2
    <2> QED BY <1>2, <2>1, <2>2 DEF RowOK, Forward, Calm, Up, MidLoad, Unified
  <1>3. CASE w.status \notin MidLoad
    BY <1>1, <1>3, SameRow DEF markLegacyLoadError, RowOK, Row, MidLoad, Unified
  <1> QED BY <1>2, <1>3

LEMMA WalletMark ==
    ASSUME NEW w, RowOK(w), NEW alsoLegacy \in BOOLEAN
    PROVE  /\ Forward(w, markWalletLoadError(w, alsoLegacy))
           /\ Calm(w, markWalletLoadError(w, alsoLegacy))
           /\ w.keys # NoKeys /\ (Up(w) => ~alsoLegacy)
                  => Unified(markWalletLoadError(w, alsoLegacy)) # "creating"
  <1>1. w \in Row /\ Retried(w.retry) \in Nat
    BY RetriedNat DEF RowOK, Row
  <1>2. CASE alsoLegacy /\ w.status \in MidLoad /\ w.ct \in MidLoad
    <2> DEFINE w2 == [w EXCEPT !.status = "error", !.ct = "error", !.retry = Retried(@)]
    <2>1. /\ w2 \in Row /\ w2.status = "error" /\ w2.ct = "error" /\ w2.keys = w.keys
      BY <1>1 DEF Row
    <2>2. markWalletLoadError(w, alsoLegacy) = w2
      BY <1>2 DEF markWalletLoadError
    <2> HIDE DEF w2
    <2> QED BY <1>2, <2>1, <2>2 DEF RowOK, Forward, Calm, Up, MidLoad, Unified
  <1>3. CASE ~alsoLegacy /\ w.ct \in MidLoad
    <2> DEFINE w2 == [w EXCEPT !.ct = "error", !.retry = Retried(@)]
    <2>1. /\ w2 \in Row /\ w2.status = w.status /\ w2.ct = "error" /\ w2.keys = w.keys
      BY <1>1 DEF Row
    <2>2. markWalletLoadError(w, alsoLegacy) = w2
      BY <1>3 DEF markWalletLoadError
    <2>3. w.status # "absent"
      BY <1>3 DEF RowOK, NoWallet, MidLoad
    <2> HIDE DEF w2
    <2> QED BY <1>3, <2>1, <2>2, <2>3 DEF RowOK, Forward, Calm, Up, MidLoad, Unified
  <1>4. CASE ~(alsoLegacy /\ w.status \in MidLoad /\ w.ct \in MidLoad) /\ ~(~alsoLegacy /\ w.ct \in MidLoad)
    <2>1. markWalletLoadError(w, alsoLegacy) = w
      BY <1>4 DEF markWalletLoadError
    <2>2. w.keys # NoKeys => w.ct # "none" /\ w.status # "absent"
      BY DEF RowOK, NoWallet
    <2> QED BY <1>1, <1>4, <2>1, <2>2, SameRow DEF RowOK, Row, MidLoad, Unified, Up
  <1> QED BY <1>2, <1>3, <1>4

LEMMA LegacyPin ==
    ASSUME NEW w, RowOK(w)
    PROVE  /\ Forward(w, pinLegacyLoadFailed(w)) /\ Calm(w, pinLegacyLoadFailed(w))
           /\ pinLegacyLoadFailed(w).status \notin {"creating"}
           /\ pinLegacyLoadFailed(w).ct = w.ct
  <1>1. w \in Row
    BY DEF RowOK
  <1>2. CASE w.status \in MidLoad
    <2> DEFINE w2 == [w EXCEPT !.status = "error", !.retry = MaxRetries]
    <2>1. /\ w2 \in Row /\ w2.status = "error" /\ w2.ct = w.ct /\ w2.keys = w.keys
      BY <1>1 DEF Row, LoadAssumption
    <2>2. pinLegacyLoadFailed(w) = w2
      BY <1>2 DEF pinLegacyLoadFailed
    <2> HIDE DEF w2
    <2> QED BY <1>2, <2>1, <2>2 DEF RowOK, Forward, Calm, Up, MidLoad
  <1>3. CASE w.status \notin MidLoad
    BY <1>1, <1>3, SameRow DEF pinLegacyLoadFailed, MidLoad
  <1> QED BY <1>2, <1>3

LEMMA ShieldedPin ==
    ASSUME NEW w, RowOK(w)
    PROVE  /\ Forward(w, pinShieldedLoadFailed(w)) /\ Calm(w, pinShieldedLoadFailed(w))
           /\ pinShieldedLoadFailed(w).status = w.status
           /\ pinShieldedLoadFailed(w).ct # "creating"
  <1>1. w \in Row
    BY DEF RowOK
  <1>2. CASE w.ct \in MidLoad
    <2> DEFINE w2 == [w EXCEPT !.ct = "error", !.retry = MaxRetries]
    <2>1. /\ w2 \in Row /\ w2.status = w.status /\ w2.ct = "error" /\ w2.keys = w.keys
      BY <1>1 DEF Row, LoadAssumption
    <2>2. pinShieldedLoadFailed(w) = w2
      BY <1>2 DEF pinShieldedLoadFailed
    <2>3. w.status # "absent"
      BY <1>2 DEF RowOK, NoWallet, MidLoad
    <2> HIDE DEF w2
    <2> QED BY <1>2, <2>1, <2>2, <2>3 DEF RowOK, Forward, Calm, Up, MidLoad
  <1>3. CASE w.ct \notin MidLoad
    BY <1>1, <1>3, SameRow DEF pinShieldedLoadFailed, MidLoad
  <1> QED BY <1>2, <1>3

LEMMA RetryReopens ==
    ASSUME NEW w, RowOK(w)
    PROVE  Forward(w, casWalletErrorToCreating(w)) /\ Calm(w, casWalletErrorToCreating(w))
  <1> DEFINE w2 == casWalletErrorToCreating(w)
  <1>1. w \in Row
    BY DEF RowOK
  <1>2. /\ w2 \in Row /\ w2.keys = w.keys
        /\ w2.status = IF w.status = "error" THEN "creating" ELSE w.status
        /\ w2.ct = IF w.ct = "error" THEN "creating" ELSE w.ct
    BY <1>1 DEF Row, casWalletErrorToCreating
  <1>3. w.status = "absent" => w2 = NoWallet
    <2>1. casWalletErrorToCreating(NoWallet) = NoWallet
      BY DEF NoWallet, casWalletErrorToCreating
    <2> QED BY <2>1 DEF RowOK
  <1> HIDE DEF w2
  <1>4. RowOK(w2)
    BY <1>1, <1>2, <1>3 DEF RowOK
  <1> QED BY <1>1, <1>2, <1>4 DEF Forward, Calm, Up, MidLoad, w2

LEMMA CreateGoesForward ==
    ASSUME NEW w, RowOK(w), w.status = "absent", NEW k \in KeySets \cup {NoKeys}
    PROVE  /\ Forward(w, createWallet(k)) /\ ~Up(createWallet(k))
           /\ createWallet(k).keys = k /\ createWallet(k).status = "creating"
  <1>1. w = NoWallet
    BY DEF RowOK
  <1>2. RowOK(createWallet(k))
    BY DEF RowOK, Row, createWallet
  <1> QED BY <1>1, <1>2 DEF Forward, Up, createWallet, NoWallet

LEMMA AttachGoesForward ==
    ASSUME NEW w, RowOK(w), w.status # "absent", w.keys = NoKeys, NEW k \in KeySets
    PROVE  LET w2 == registerWalletShieldedKeys(w, k)
           IN  Forward(w, w2) /\ w2.keys = k /\ w2.status = w.status
  <1> DEFINE w2 == registerWalletShieldedKeys(w, k)
  <1>1. w \in Row /\ w.ct = "none" /\ k # NoKeys
    BY DEF RowOK, LoadAssumption
  <1>2. w2 \in Row /\ w2.keys = k /\ w2.status = w.status /\ w2.ct = "creating"
    BY <1>1 DEF Row, registerWalletShieldedKeys
  <1> HIDE DEF w2
  <1>3. RowOK(w2)
    BY <1>1, <1>2 DEF RowOK
  <1> QED BY <1>1, <1>2, <1>3 DEF Forward, w2

Settled(w, k, wasReady) ==
    IF k = NoKeys THEN updateWalletStatus(w) ELSE markWalletLoadReady(w, ~wasReady)

LEMMA SettleGoesForward ==
    ASSUME NEW w, RowOK(w), w.status # "absent", NEW k, NEW wasReady \in BOOLEAN,
           k # NoKeys => w.keys # NoKeys, wasReady => w.status = "ready"
    PROVE  /\ Forward(w, Settled(w, k, wasReady))
           /\ Settled(w, k, wasReady).keys = w.keys
           /\ k = w.keys => /\ ~Up(Settled(w, k, wasReady))
                            /\ Unified(Settled(w, k, wasReady)) # "creating"
  <1> DEFINE w2 == Settled(w, k, wasReady)
  <1>1. w \in Row
    BY DEF RowOK
  <1>2. CASE k = NoKeys
    <2>1. w2 \in Row /\ w2.keys = w.keys /\ w2.status = "ready" /\ w2.ct = w.ct
      BY <1>1, <1>2 DEF Row, Settled, updateWalletStatus
    <2> HIDE DEF w2
    <2>2. RowOK(w2) /\ (k = w.keys => w2.ct = "none")
      BY <1>2, <2>1 DEF RowOK
    <2> QED BY <2>1, <2>2 DEF Forward, Up, MidLoad, Unified, w2
  <1>3. CASE k # NoKeys
    <2>1. w2 \in Row /\ w2.keys = w.keys /\ w2.status = "ready" /\ w2.ct = "ready"
      BY <1>1, <1>3 DEF Row, Settled, markWalletLoadReady
    <2> HIDE DEF w2
    <2>2. RowOK(w2)
      BY <1>3, <2>1 DEF RowOK
    <2> QED BY <2>1, <2>2 DEF Forward, Up, MidLoad, Unified, w2
  <1> QED BY <1>2, <1>3

-----------------------------------------------------------------------------
(* What lambdas remember survives a row that goes forward.                 *)

LEMMA CallStays ==
    ASSUME NEW c, NEW w, NEW w2, CallKnown(c, w), Forward(w, w2)
    PROVE  CallKnown(c, w2)
  BY DEF CallKnown, Forward

LEMMA LoadStays ==
    ASSUME NEW j, NEW w, NEW w2, LoadKnown(j, w), Forward(w, w2)
    PROVE  LoadKnown(j, w2)
  BY DEF LoadKnown, Forward

LEMMA NoCallKnown == ASSUME NEW w PROVE CallKnown(NoCall, w) /\ NoCall.at = "idle"
  BY DEF CallKnown, Call, NoCall, NoWallet, Row

LEMMA NoLoadKnown ==
    ASSUME NEW w
    PROVE  /\ LoadKnown(NoLoad, w) /\ LoadFields = {"at", "wasReady", "keys", "claims", "list", "sums"}
           /\ NoLoad.at = "idle" /\ NoLoad.keys = NoKeys /\ NoLoad.wasReady = FALSE
  BY DEF LoadKnown, LoadFields, NoLoad

(* One request moves, to what it may know; the loads stay.                 *)
CallGoes(r, c) == call' = [call EXCEPT ![r] = c]
LoadGoes(l, j) == load' = [load EXCEPT ![l] = j]

LEMMA CallsAfter ==
    ASSUME Known, Forward(wallet, wallet'), NEW r \in Requests, NEW c,
           CallGoes(r, c), CallKnown(c, wallet')
    PROVE  /\ call' \in [Requests -> Call] /\ \A q \in Requests : CallKnown(call'[q], wallet')
           /\ call'[r] = c /\ \A q \in Requests \ {r} : call'[q] = call[q]
  <1>1. /\ call'[r] = c /\ \A q \in Requests \ {r} : call'[q] = call[q]
        /\ call' \in [Requests -> Call]
    BY DEF Known, CallGoes, CallKnown
  <1>2. \A q \in Requests : CallKnown(call'[q], wallet')
    BY <1>1, CallStays DEF Known
  <1> QED BY <1>1, <1>2

LEMMA LoadsAfter ==
    ASSUME Known, Forward(wallet, wallet'), NEW l \in Loads, NEW j,
           LoadGoes(l, j), LoadKnown(j, wallet')
    PROVE  /\ load' = [m \in Loads |-> load'[m]] /\ \A m \in Loads : LoadKnown(load'[m], wallet')
           /\ load'[l] = j /\ \A m \in Loads \ {l} : load'[m] = load[m]
  <1>1. /\ load'[l] = j /\ \A m \in Loads \ {l} : load'[m] = load[m]
        /\ load' = [m \in Loads |-> load'[m]]
    BY DEF Known, LoadGoes
  <1>2. \A m \in Loads : LoadKnown(load'[m], wallet')
    BY <1>1, LoadStays DEF Known
  <1> QED BY <1>1, <1>2

LEMMA CallsKept ==
    ASSUME Known, Forward(wallet, wallet'), UNCHANGED call
    PROVE  call' \in [Requests -> Call] /\ \A q \in Requests : CallKnown(call'[q], wallet')
  BY CallStays DEF Known

LEMMA LoadsKept ==
    ASSUME Known, Forward(wallet, wallet'), UNCHANGED load
    PROVE  load' = [m \in Loads |-> load'[m]] /\ \A m \in Loads : LoadKnown(load'[m], wallet')
  BY LoadStays DEF Known

LEMMA SameWallet == ASSUME Known, UNCHANGED wallet PROVE Forward(wallet, wallet') /\ Calm(wallet, wallet')
  <1>1. wallet' = wallet /\ RowOK(wallet)
    BY DEF Known
  <1> QED BY <1>1, SameRow

LEMMA ToInvoke ==
    ASSUME Known, NEW r \in Requests, GoesToInvoke(r)
    PROVE  /\ CallGoes(r, call'[r]) /\ call'[r] \in Call
           /\ call'[r].at = "invoke" /\ call'[r].keys = call[r].keys
           /\ call'[r].wasReady = call[r].wasReady
  <1>1. call \in [Requests -> Call] /\ call[r] \in Call /\ NoWallet \in Row
    BY NoWalletOK DEF Known, RowOK
  <1>2. /\ call'[r] \in Call /\ call'[r].at = "invoke"
        /\ call'[r].keys = call[r].keys /\ call'[r].wasReady = call[r].wasReady
    BY <1>1 DEF GoesToInvoke, Call
  <1>3. call' \in [Requests -> Call] /\ \A q \in Requests \ {r} : call'[q] = call[q]
    BY <1>1, <1>2 DEF GoesToInvoke
  <1> QED BY <1>1, <1>2, <1>3 DEF CallGoes

-----------------------------------------------------------------------------
(* Each step keeps Known and takes the row forward.                        *)

Fine == Known' /\ Forward(wallet, wallet')

LEMMA RequestReadsFine ==
    ASSUME Known, NEW r \in Requests, NEW k \in KeySets \cup {NoKeys}, RequestReads(r, k)
    PROVE  Fine
  <1> DEFINE c == [at |-> NextOf(wallet, k), keys |-> k,
                   wasReady |-> k # NoKeys /\ wallet.status = "ready",
                   saw |-> IF NextOf(wallet, k) = "attach" THEN wallet ELSE NoWallet]
  <1>1. /\ CallGoes(r, c) /\ NextOf(wallet, k) # "end" /\ UNCHANGED <<wallet, load>>
    BY DEF RequestReads, CallGoes
  <1>2. Forward(wallet, wallet')
    BY <1>1, SameWallet
  <1>3. RowOK(wallet) /\ wallet' = wallet /\ NoWallet \in Row /\ wallet \in Row
    BY <1>1, NoWalletOK DEF Known, RowOK
  <1>4. /\ NextOf(wallet, k) \in {"create", "attach", "retry"}
        /\ NextOf(wallet, k) = "create" => wallet.status = "absent"
        /\ NextOf(wallet, k) # "create" => wallet.status # "absent"
        /\ NextOf(wallet, k) = "attach" => k # NoKeys
        /\ NextOf(wallet, k) = "retry" /\ k # NoKeys => wallet.keys = k
    BY <1>1 DEF NextOf
  <1>5. CallKnown(c, wallet')
    <2>1. c \in Call
      BY <1>3, <1>4 DEF Call
    <2>2. /\ c.at = "create" => ~c.wasReady
          /\ c.at \in {"attach", "retry", "invoke"} => wallet.status # "absent"
          /\ c.at = "attach" => c.keys # NoKeys /\ c.wasReady = (c.saw.status = "ready")
      BY <1>4
    <2>3. /\ c.at \in {"retry", "invoke"} /\ c.keys # NoKeys => wallet.keys # NoKeys
          /\ c.wasReady => wallet.status = "ready"
      BY <1>4
    <2> HIDE DEF c
    <2> QED BY <1>3, <2>1, <2>2, <2>3 DEF CallKnown
  <1> HIDE DEF c
  <1> QED BY <1>1, <1>2, <1>3, <1>5, CallsAfter, LoadsKept DEF Known, Fine

(* A request that ends, whatever it did to the row.                        *)
LEMMA EndsFine ==
    ASSUME Known, NEW r \in Requests, Ends(r), UNCHANGED load, Forward(wallet, wallet')
    PROVE  Fine
  <1>1. CallGoes(r, NoCall)
    BY DEF Ends, CallGoes
  <1> QED BY <1>1, NoCallKnown, CallsAfter, LoadsKept DEF Known, Fine, Forward

LEMMA ToInvokeFine ==
    ASSUME Known, NEW r \in Requests, GoesToInvoke(r), UNCHANGED load, Forward(wallet, wallet'),
           wallet'.status # "absent",
           call[r].keys # NoKeys => wallet'.keys # NoKeys,
           call[r].wasReady => wallet'.status = "ready"
    PROVE  Fine
  <1>1. CallGoes(r, call'[r])
    BY ToInvoke
  <1>2. CallKnown(call'[r], wallet')
    BY ToInvoke DEF CallKnown
  <1> QED BY <1>1, <1>2, CallsAfter, LoadsKept DEF Known, Fine, Forward

LEMMA RequestCreatesFine ==
    ASSUME Known, NEW r \in Requests, RequestCreates(r) PROVE Fine
  <1>1. /\ RowOK(wallet) /\ CallKnown(call[r], wallet) /\ call[r] \in Call
        /\ call[r].at = "create" /\ UNCHANGED load
    BY DEF Known, RequestCreates
  <1>2. CASE wallet.status = "absent"
    <2>1. wallet' = createWallet(call[r].keys) /\ GoesToInvoke(r)
      BY <1>2 DEF RequestCreates
    <2>2. call[r].keys \in KeySets \cup {NoKeys} /\ ~call[r].wasReady
      BY <1>1 DEF CallKnown, Call
    <2>3. Forward(wallet, wallet') /\ wallet'.keys = call[r].keys /\ wallet'.status = "creating"
      BY <1>1, <1>2, <2>1, <2>2, CreateGoesForward
    <2> QED BY <1>1, <2>1, <2>2, <2>3, ToInvokeFine
  <1>3. CASE wallet.status # "absent"
    BY <1>1, <1>3, SameWallet, EndsFine DEF RequestCreates
  <1> QED BY <1>2, <1>3

LEMMA RequestAttachesFine ==
    ASSUME Known, NEW r \in Requests, RequestAttaches(r) PROVE Fine
  <1>1. /\ RowOK(wallet) /\ CallKnown(call[r], wallet) /\ call[r] \in Call
        /\ call[r].at = "attach" /\ UNCHANGED load
    BY DEF Known, RequestAttaches
  <1>2. CASE wallet.keys = NoKeys
    <2>1. wallet' = registerWalletShieldedKeys(wallet, call[r].keys) /\ GoesToInvoke(r)
      BY <1>2 DEF RequestAttaches
    <2>2. call[r].keys \in KeySets /\ wallet.status # "absent"
      BY <1>1 DEF CallKnown, Call
    <2>3. /\ Forward(wallet, wallet') /\ wallet'.keys = call[r].keys
          /\ wallet'.status = wallet.status
      BY <1>1, <1>2, <2>1, <2>2, AttachGoesForward
    <2>4. call[r].wasReady => wallet.status = "ready"
      BY <1>1 DEF CallKnown
    <2> QED BY <1>1, <2>1, <2>2, <2>3, <2>4, ToInvokeFine
  <1>3. CASE wallet.keys # NoKeys
    BY <1>1, <1>3, SameWallet, EndsFine DEF RequestAttaches
  <1> QED BY <1>2, <1>3

LEMMA RequestRetriesFine ==
    ASSUME Known, NEW r \in Requests, RequestRetries(r) PROVE Fine
  <1>1. /\ RowOK(wallet) /\ CallKnown(call[r], wallet) /\ call[r] \in Call
        /\ call[r].at = "retry" /\ UNCHANGED load
    BY DEF Known, RequestRetries
  <1>2. CASE "error" \in {wallet.status, wallet.ct}
    <2>1. wallet' = casWalletErrorToCreating(wallet) /\ GoesToInvoke(r)
      BY <1>2 DEF RequestRetries
    <2>2. Forward(wallet, wallet') /\ Calm(wallet, wallet')
      BY <1>1, <2>1, RetryReopens
    <2> QED BY <1>1, <2>1, <2>2, ToInvokeFine DEF CallKnown, Forward, Calm
  <1>3. CASE "error" \notin {wallet.status, wallet.ct}
    BY <1>1, <1>3, SameWallet, EndsFine DEF RequestRetries
  <1> QED BY <1>2, <1>3

(* What the row becomes when this request cannot invoke the worker.        *)
LEMMA InvokeFailsMarks ==
    ASSUME Known, NEW r \in Requests, InvokeFails(r)
    PROVE  /\ Forward(wallet, wallet') /\ Calm(wallet, wallet')
           /\ Current => Unified(wallet') # "creating"
  <1>1. /\ RowOK(wallet) /\ call[r] \in Call /\ CallKnown(call[r], wallet) /\ call[r].at = "invoke"
        /\ call[r].wasReady \in BOOLEAN
    BY DEF Known, InvokeFails, Call
  <1>2. CASE call[r].keys = NoKeys
    <2>1. wallet' = markLegacyLoadError(wallet)
      BY <1>2 DEF InvokeFails
    <2>2. Current /\ wallet.keys # NoKeys => ~Up(wallet)
      BY <1>1, <1>2 DEF Current, CallCurrent
    <2>3. wallet.keys # NoKeys /\ ~Up(wallet) => Unified(markLegacyLoadError(wallet)) # "creating"
      <3>1. wallet \in Row /\ wallet.status # "absent"
        BY <1>1 DEF RowOK, CallKnown
      <3>2. CASE wallet.status \in MidLoad
        BY <3>1, <3>2 DEF markLegacyLoadError, Row, Unified
      <3>3. CASE wallet.status \notin MidLoad
        BY <3>1, <3>3 DEF markLegacyLoadError, Row, Unified, Up, MidLoad
      <3> QED BY <3>2, <3>3
    <2> QED BY <1>1, <2>1, <2>2, <2>3, LegacyMark
  <1>3. CASE call[r].keys # NoKeys
    <2>1. wallet' = markWalletLoadError(wallet, ~call[r].wasReady)
      BY <1>3, Zenon DEF InvokeFails
    <2> DEFINE alsoLegacy == ~call[r].wasReady
    <2>3. alsoLegacy \in BOOLEAN
      OBVIOUS
    <2>2. wallet.keys # NoKeys /\ (Current /\ Up(wallet) => call[r].wasReady)
      BY <1>1, <1>3 DEF CallKnown, Current, CallCurrent
    <2>4. /\ Forward(wallet, markWalletLoadError(wallet, alsoLegacy))
          /\ Calm(wallet, markWalletLoadError(wallet, alsoLegacy))
          /\ wallet.keys # NoKeys /\ (Up(wallet) => ~alsoLegacy)
                 => Unified(markWalletLoadError(wallet, alsoLegacy)) # "creating"
      <3> HIDE DEF alsoLegacy
      <3> QED BY <1>1, <2>3, WalletMark
    <2> QED BY <2>1, <2>2, <2>4, Zenon
  <1> QED BY <1>2, <1>3

LEMMA InvokeFailsFine ==
    ASSUME Known, NEW r \in Requests, InvokeFails(r) PROVE Fine
  BY InvokeFailsMarks, EndsFine DEF InvokeFails

LEMMA RequestDiesFine ==
    ASSUME Known, NEW r \in Requests, RequestDies(r) PROVE Fine
  BY SameWallet, EndsFine DEF RequestDies

-----------------------------------------------------------------------------
(* One load moves to a place, with its keys and what it knows.             *)

Moved(l, place, k, wasReady) ==
    /\ LoadGoes(l, load'[l]) /\ DOMAIN load'[l] = LoadFields
    /\ load'[l].at = place /\ load'[l].keys = k /\ load'[l].wasReady = wasReady

LEMMA MovedLoads ==
    ASSUME Known, Forward(wallet, wallet'), NEW l \in Loads, NEW place, NEW k,
           NEW wasReady \in BOOLEAN, Moved(l, place, k, wasReady),
           place # "idle" => wallet'.status # "absent",
           k # NoKeys => wallet'.keys # NoKeys, wasReady => wallet'.status = "ready"
    PROVE  load' = [m \in Loads |-> load'[m]] /\ \A m \in Loads : LoadKnown(load'[m], wallet')
  <1>1. LoadKnown(load'[l], wallet') /\ LoadGoes(l, load'[l])
    BY DEF LoadKnown, Moved
  <1> QED BY <1>1, LoadsAfter

LEMMA MovedFine ==
    ASSUME Known, Forward(wallet, wallet'), UNCHANGED call,
           NEW l \in Loads, NEW place, NEW k, NEW wasReady \in BOOLEAN,
           Moved(l, place, k, wasReady),
           place # "idle" => wallet'.status # "absent",
           k # NoKeys => wallet'.keys # NoKeys, wasReady => wallet'.status = "ready"
    PROVE  Fine
  BY MovedLoads, CallsKept DEF Known, Fine, Forward

(* The EXCEPTs on load.                                                    *)
LEMMA LoadIs ==
    ASSUME Known, NEW l \in Loads
    PROVE  /\ load = [m \in Loads |-> load[m]] /\ DOMAIN load[l] = LoadFields
           /\ load[l].wasReady \in BOOLEAN
           /\ LoadFields = {"at", "wasReady", "keys", "claims", "list", "sums"}
  BY NoLoadKnown DEF Known, LoadKnown

LEMMA StepMoves ==
    ASSUME Known, NEW l \in Loads, NEW place, Step(l, place)
    PROVE  Moved(l, place, load[l].keys, load[l].wasReady)
  BY LoadIs DEF Step, Moved, LoadGoes

LEMMA ReadMoves ==
    ASSUME Known, NEW l \in Loads, LoadReads(l)
    PROVE  Moved(l, "derive", wallet.keys, wallet.keys # NoKeys /\ wallet.status = "ready")
  BY LoadIs DEF LoadReads, Moved, LoadGoes

LEMMA DeriveMoves ==
    ASSUME Known, NEW l \in Loads, LoadDerives(l)
    PROVE  Moved(l, "claim", load[l].keys, load[l].wasReady)
  BY LoadIs DEF LoadDerives, Moved, LoadGoes

LEMMA ClaimMoves ==
    ASSUME Known, NEW l \in Loads, LoadClaims(l)
    PROVE  \E place \in {"lock", "sweep1"} : Moved(l, place, load[l].keys, load[l].wasReady)
  <1>1. Moved(l, IF load[l].keys = NoKeys THEN "lock" ELSE "sweep1", load[l].keys, load[l].wasReady)
    BY LoadIs DEF LoadClaims, Moved, LoadGoes
  <1> QED BY <1>1

LEMMA LockMoves ==
    ASSUME Known, NEW l \in Loads, LoadLocks(l)
    PROVE  Moved(l, "settle", load[l].keys, load[l].wasReady)
  BY LoadIs DEF LoadLocks, Moved, LoadGoes

LEMMA FreshMoves ==
    ASSUME Known, NEW l \in Loads, NEW place,
           load' = [load EXCEPT ![l] = [NoLoad EXCEPT !.at = place]]
    PROVE  Moved(l, place, NoKeys, FALSE)
  <1> DEFINE a == [NoLoad EXCEPT !.at = place]
  <1>1. DOMAIN a = LoadFields /\ a.at = place /\ a.keys = NoKeys /\ a.wasReady = FALSE
    BY NoLoadKnown DEF NoLoad
  <1>2. load' = [load EXCEPT ![l] = a]
    OBVIOUS
  <1> HIDE DEF a
  <1>3. load'[l] = a /\ LoadGoes(l, load'[l])
    BY <1>2, LoadIs DEF LoadGoes
  <1> QED BY <1>1, <1>3 DEF Moved

LEMMA NoLoadMoves ==
    ASSUME Known, NEW l \in Loads, load' = [load EXCEPT ![l] = NoLoad]
    PROVE  Moved(l, "idle", NoKeys, FALSE)
  <1>1. load'[l] = NoLoad /\ DOMAIN NoLoad = LoadFields
    BY LoadIs DEF LoadFields
  <1> QED BY <1>1, NoLoadKnown DEF Moved, LoadGoes

(* The phases that leave the row alone.                                    *)
Phase(l) == \/ LoadReads(l) \/ LoadDerives(l) \/ LoadClaims(l) \/ LoadRebuilds(l) \/ LoadLocks(l)
            \/ \E failed \in SUBSET Vertices : LoadSweeps(l, failed)

Phases == {"derive", "claim", "sweep1", "sweep2", "rebuild", "lock", "settle"}

LEMMA PhaseMoves ==
    ASSUME Known, NEW l \in Loads, Phase(l)
    PROVE  /\ UNCHANGED <<wallet, call>> /\ load[l].at \notin {"idle", "done"}
           /\ \E place \in Phases :
                  \/ Moved(l, place, wallet.keys, wallet.keys # NoKeys /\ wallet.status = "ready")
                  \/ Working(load[l]) /\ Moved(l, place, load[l].keys, load[l].wasReady)
  <1>1. CASE LoadReads(l)
    BY <1>1, ReadMoves DEF LoadReads, Phases
  <1>2. CASE LoadDerives(l)
    BY <1>2, DeriveMoves DEF LoadDerives, Phases, Working
  <1>3. CASE LoadClaims(l)
    BY <1>3, ClaimMoves DEF LoadClaims, Phases, Working
  <1>4. CASE LoadRebuilds(l)
    BY <1>4, StepMoves DEF LoadRebuilds, Phases, Working
  <1>5. CASE LoadLocks(l)
    BY <1>5, LockMoves DEF LoadLocks, Phases, Working
  <1>6. ASSUME NEW failed \in SUBSET Vertices, LoadSweeps(l, failed)
        PROVE  /\ UNCHANGED <<wallet, call>> /\ load[l].at \in {"sweep1", "sweep2"}
               /\ \E place \in Phases : Moved(l, place, load[l].keys, load[l].wasReady)
    <2>1. /\ UNCHANGED <<wallet, call>> /\ load[l].at \in {"sweep1", "sweep2"}
          /\ Step(l, AfterSweep(load[l].at))
      BY <1>6 DEF LoadSweeps
    <2>2. CASE load[l].at = "sweep1"
      <3>1. Step(l, "sweep2")
        BY <2>1, <2>2 DEF AfterSweep
      <3> QED BY <2>1, <3>1, StepMoves DEF Phases
    <2>3. CASE load[l].at = "sweep2"
      <3>1. Step(l, "rebuild")
        BY <2>1, <2>3 DEF AfterSweep
      <3> QED BY <2>1, <3>1, StepMoves DEF Phases
    <2> QED BY <2>1, <2>2, <2>3
  <1> QED BY <1>1, <1>2, <1>3, <1>4, <1>5, <1>6 DEF Phase, Working

LEMMA PhaseFine ==
    ASSUME Known, NEW l \in Loads, Phase(l) PROVE Fine
  <1>1. /\ UNCHANGED <<wallet, call>> /\ load[l].at \notin {"idle", "done"}
        /\ LoadKnown(load[l], wallet) /\ Forward(wallet, wallet')
    BY PhaseMoves, SameWallet DEF Known
  <1>2. wallet'.status # "absent" /\ load[l].wasReady \in BOOLEAN
    BY <1>1 DEF LoadKnown
  <1>3. PICK place \in Phases :
            \/ Moved(l, place, wallet.keys, wallet.keys # NoKeys /\ wallet.status = "ready")
            \/ Moved(l, place, load[l].keys, load[l].wasReady)
    BY PhaseMoves
  <1>4. CASE Moved(l, place, wallet.keys, wallet.keys # NoKeys /\ wallet.status = "ready")
    <2> DEFINE ready == wallet.keys # NoKeys /\ wallet.status = "ready"
    <2>1. ready \in BOOLEAN /\ (ready => wallet'.status = "ready") /\ Moved(l, place, wallet.keys, ready)
      BY <1>1, <1>4
    <2> HIDE DEF ready
    <2> QED BY <1>1, <1>2, <2>1, MovedFine
  <1>5. CASE Moved(l, place, load[l].keys, load[l].wasReady)
    BY <1>1, <1>2, <1>5, MovedFine DEF LoadKnown
  <1> QED BY <1>3, <1>4, <1>5

LEMMA RequestInvokesFine ==
    ASSUME Known, NEW r \in Requests, NEW l \in Loads, RequestInvokes(r, l)
    PROVE  Fine /\ Moved(l, "queued", NoKeys, FALSE)
  <1>1. Moved(l, "queued", NoKeys, FALSE)
    BY FreshMoves DEF RequestInvokes
  <1>2. /\ CallGoes(r, NoCall) /\ UNCHANGED wallet /\ Forward(wallet, wallet')
        /\ CallKnown(call[r], wallet) /\ call[r].at = "invoke"
    BY SameWallet DEF RequestInvokes, Ends, CallGoes, Known
  <1>3. wallet'.status # "absent"
    BY <1>2 DEF CallKnown
  <1>4. load' = [m \in Loads |-> load'[m]] /\ \A m \in Loads : LoadKnown(load'[m], wallet')
    BY <1>1, <1>2, <1>3, MovedLoads
  <1> QED BY <1>1, <1>2, <1>4, NoCallKnown, CallsAfter DEF Known, Fine, Forward

LEMMA SettlesMoves ==
    ASSUME Known, NEW l \in Loads, LoadSettles(l)
    PROVE  /\ Forward(wallet, wallet') /\ wallet'.keys = wallet.keys /\ UNCHANGED call
           /\ Moved(l, "done", NoKeys, FALSE)
           /\ Current => ~Up(wallet') /\ Unified(wallet') # "creating"
  <1>1. /\ RowOK(wallet) /\ LoadKnown(load[l], wallet) /\ load[l].at = "settle"
        /\ UNCHANGED call
    BY DEF Known, LoadSettles
  <1>2. Moved(l, "done", NoKeys, FALSE)
    BY FreshMoves DEF LoadSettles
  <1>3. wallet' = Settled(wallet, load[l].keys, load[l].wasReady)
    BY Zenon DEF LoadSettles, Settled
  <1>4. /\ wallet.status # "absent" /\ load[l].wasReady \in BOOLEAN
        /\ load[l].keys # NoKeys => wallet.keys # NoKeys
        /\ load[l].wasReady => wallet.status = "ready"
    BY <1>1 DEF LoadKnown
  <1>5. Current => load[l].keys = wallet.keys
    BY <1>1 DEF Current, LoadCurrent, Working
  <1> QED BY <1>1, <1>2, <1>3, <1>4, <1>5, SettleGoesForward

LEMMA FailsMoves ==
    ASSUME Known, NEW l \in Loads, LoadFails(l)
    PROVE  /\ Forward(wallet, wallet') /\ Calm(wallet, wallet') /\ UNCHANGED call
           /\ Moved(l, "idle", NoKeys, FALSE)
           /\ Current /\ "markFails" \notin Allowed => Unified(wallet') # "creating"
  <1>1. /\ RowOK(wallet) /\ LoadKnown(load[l], wallet) /\ Working(load[l])
        /\ UNCHANGED call /\ load[l].wasReady \in BOOLEAN
    BY DEF Known, LoadFails, Working, LoadKnown
  <1>2. Moved(l, "idle", NoKeys, FALSE)
    BY NoLoadMoves DEF LoadFails
  <1>3. Current => load[l].keys = wallet.keys /\ (Up(wallet) => load[l].wasReady)
    BY <1>1 DEF Current, LoadCurrent
  <1>4. CASE UNCHANGED wallet /\ "markFails" \in Allowed
    BY <1>1, <1>2, <1>4, SameWallet
  <1>5. CASE load[l].keys = NoKeys /\ wallet' = markLegacyLoadError(wallet)
    BY <1>1, <1>2, <1>3, <1>5, LegacyMark
  <1>6. CASE load[l].keys # NoKeys /\ wallet' = markWalletLoadError(wallet, ~load[l].wasReady)
    <2> DEFINE alsoLegacy == ~load[l].wasReady
    <2>1. alsoLegacy \in BOOLEAN /\ wallet' = markWalletLoadError(wallet, alsoLegacy)
      BY <1>6, Zenon
    <2>2. Current => wallet.keys # NoKeys /\ (Up(wallet) => ~alsoLegacy)
      BY <1>3, <1>6
    <2> HIDE DEF alsoLegacy
    <2> QED BY <1>1, <1>2, <2>1, <2>2, WalletMark
  <1>7. \/ UNCHANGED wallet /\ "markFails" \in Allowed
        \/ wallet' = IF load[l].keys = NoKeys THEN markLegacyLoadError(wallet)
                     ELSE markWalletLoadError(wallet, ~load[l].wasReady)
    BY Zenon DEF LoadFails
  <1> QED BY <1>4, <1>5, <1>6, <1>7, Zenon

LEMMA CrashMoves ==
    ASSUME Known, NEW l \in Loads, LoadCrashes(l)
    PROVE  /\ UNCHANGED <<wallet, call>> /\ load[l].at # "idle"
           /\ Moved(l, "queued", NoKeys, FALSE) \/ Moved(l, "dead", NoKeys, FALSE)
  <1>1. PICK place \in {"queued", "dead"} : load' = [load EXCEPT ![l] = [NoLoad EXCEPT !.at = place]]
    BY DEF LoadCrashes
  <1>2. Moved(l, place, NoKeys, FALSE)
    BY <1>1, FreshMoves
  <1> QED BY <1>2 DEF LoadCrashes

LEMMA FailedMoves ==
    ASSUME Known, NEW l \in Loads, loadWalletFailed(l)
    PROVE  /\ Forward(wallet, wallet') /\ Calm(wallet, wallet') /\ UNCHANGED call
           /\ Moved(l, "idle", NoKeys, FALSE)
           /\ Unified(wallet') # "creating"
  <1>1. /\ RowOK(wallet) /\ UNCHANGED call /\ wallet \in Row
    BY DEF Known, loadWalletFailed, RowOK
  <1>2. Moved(l, "idle", NoKeys, FALSE)
    BY NoLoadMoves DEF loadWalletFailed
  <1>3. CASE wallet.keys = NoKeys
    <2>1. wallet' = pinLegacyLoadFailed(wallet)
      BY <1>3 DEF loadWalletFailed
    <2>2. wallet'.ct = "none" /\ wallet'.status # "creating"
      BY <1>1, <1>3, <2>1, LegacyPin DEF RowOK
    <2> QED BY <1>1, <1>2, <2>1, <2>2, LegacyPin DEF Unified
  <1>4. CASE wallet.keys # NoKeys
    <2> DEFINE w1 == IF wallet.status # "ready" THEN pinLegacyLoadFailed(wallet) ELSE wallet
    <2>1. wallet' = pinShieldedLoadFailed(w1)
      BY <1>4 DEF loadWalletFailed
    <2>2. Forward(wallet, w1) /\ Calm(wallet, w1) /\ w1.status # "creating"
      <3>1. CASE wallet.status = "ready"
        BY <1>1, <3>1, SameRow
      <3>2. CASE wallet.status # "ready"
        BY <1>1, <3>2, LegacyPin
      <3> QED BY <3>1, <3>2
    <2> HIDE DEF w1
    <2>3. RowOK(w1)
      BY <2>2 DEF Forward
    <2>4. /\ Forward(w1, wallet') /\ Calm(w1, wallet')
          /\ wallet'.status = w1.status /\ wallet'.ct # "creating"
      BY <2>1, <2>3, ShieldedPin
    <2> QED BY <1>1, <1>2, <2>2, <2>4 DEF Forward, Calm, Unified
  <1> QED BY <1>3, <1>4

LEMMA LoadEndsFine ==
    ASSUME Known, NEW l \in Loads,
           \/ LoadSettles(l) \/ LoadReturns(l) \/ LoadFails(l) \/ LoadCrashes(l) \/ loadWalletFailed(l)
    PROVE  Fine
  <1>1. /\ load[l].at # "idle" /\ LoadKnown(load[l], wallet)
    BY DEF LoadSettles, LoadReturns, LoadFails, LoadCrashes, loadWalletFailed, Known
  <1>2. Forward(wallet, wallet') /\ UNCHANGED call
    BY SettlesMoves, FailsMoves, FailedMoves, SameWallet DEF LoadReturns, LoadCrashes
  <1>3. \E place : Moved(l, place, NoKeys, FALSE)
    BY SettlesMoves, FailsMoves, FailedMoves, CrashMoves, NoLoadMoves DEF LoadReturns
  <1>4. wallet'.status # "absent"
    BY <1>1, <1>2 DEF LoadKnown, Forward
  <1> QED BY <1>2, <1>3, <1>4, MovedFine

Daemon == \/ \E v \in Vertices, voids \in BOOLEAN : DaemonOpens(v, voids)
          \/ \E outcome \in {"none", "unowned", "recovered", "failed"} : DaemonAccepts(outcome)
          \/ DaemonVoids \/ DaemonRollsBack

LEMMA DaemonFine ==
    ASSUME Daemon PROVE UNCHANGED <<wallet, call, load>>
  BY DEF Daemon, DaemonOpens, DaemonAccepts, DaemonVoids, DaemonRollsBack

LEMMA StutterFine ==
    ASSUME Known, UNCHANGED <<wallet, call, load>> PROVE Fine
  BY SameWallet, CallsKept, LoadsKept DEF Known, Fine, Forward

LEMMA StepFine == Known /\ [Next]_vars => Fine
  <1> SUFFICES ASSUME Known, [Next]_vars PROVE Fine
    OBVIOUS
  <1>1. CASE \E r \in Requests, k \in KeySets \cup {NoKeys} : RequestReads(r, k)
    BY <1>1, RequestReadsFine
  <1>2. CASE \E r \in Requests : \/ RequestCreates(r) \/ RequestAttaches(r) \/ RequestRetries(r)
                                 \/ InvokeFails(r) \/ RequestDies(r)
    BY <1>2, RequestCreatesFine, RequestAttachesFine, RequestRetriesFine, InvokeFailsFine,
       RequestDiesFine
  <1>3. CASE \E r \in Requests, l \in Loads : RequestInvokes(r, l)
    BY <1>3, RequestInvokesFine
  <1>4. CASE \E l \in Loads : Phase(l)
    BY <1>4, PhaseFine
  <1>5. CASE \E l \in Loads : \/ LoadSettles(l) \/ LoadReturns(l) \/ LoadFails(l)
                              \/ LoadCrashes(l) \/ loadWalletFailed(l)
    BY <1>5, LoadEndsFine
  <1>6. CASE Daemon
    BY <1>6, DaemonFine, StutterFine
  <1>7. CASE UNCHANGED vars
    BY <1>7, StutterFine DEF vars
  <1> QED BY <1>1, <1>2, <1>3, <1>4, <1>5, <1>6, <1>7 DEF Next, Phase, Daemon

LEMMA InitKnown == Init => Known /\ Current /\ NoLoadLost
  <1> SUFFICES ASSUME Init PROVE Known /\ Current /\ NoLoadLost
    OBVIOUS
  <1>1. /\ wallet = NoWallet /\ call = [r \in Requests |-> NoCall]
        /\ load = [l \in Loads |-> NoLoad]
    BY DEF Init
  <1>2. Known
    BY <1>1, NoWalletOK, NoCallKnown, NoLoadKnown DEF Known, CallKnown
  <1>3. Current
    BY <1>1, NoCallKnown, NoLoadKnown DEF Current, CallCurrent, LoadCurrent, Working
  <1>4. NoLoadLost
    BY <1>1 DEF NoLoadLost, Unified, NoWallet
  <1> QED BY <1>2, <1>3, <1>4

-----------------------------------------------------------------------------
(* Recoveries, and what never goes back.                                   *)

LEMMA InitRecoveries == Init => Recoveries
  BY DEF Init, Recoveries, NoEvent

LEMMA RecoveriesGo ==
    ASSUME Recoveries, [Next]_vars
    PROVE  Recoveries' /\ \A v \in Vertices : recovery[v] = "recovered" => recovery'[v] = "recovered"
  <1>1. CASE UNCHANGED <<tx, recovery, daemon>>
    BY <1>1 DEF Recoveries
  <1>2. ASSUME NEW l \in Loads, NEW failed \in SUBSET Vertices, LoadSweeps(l, failed)
        PROVE  Recoveries' /\ \A v \in Vertices : recovery[v] = "recovered" => recovery'[v] = "recovered"
    <2>1. /\ UNCHANGED <<tx, daemon>>
          /\ recovery' = [v \in Vertices |-> IF v \notin getShieldedOutputsToRecover THEN recovery[v]
                                             ELSE IF v \in failed THEN "failed" ELSE "recovered"]
      BY <1>2 DEF LoadSweeps
    <2>2. \A v \in getShieldedOutputsToRecover : tx[v] = "live" /\ recovery[v] # "recovered"
      BY DEF getShieldedOutputsToRecover, Live
    <2> QED BY <2>1, <2>2 DEF Recoveries
  <1>3. ASSUME NEW v \in Vertices, NEW voids \in BOOLEAN, DaemonOpens(v, voids)
        PROVE  Recoveries' /\ UNCHANGED recovery
    BY <1>3 DEF DaemonOpens, Recoveries, tables
  <1>4. ASSUME NEW outcome \in {"none", "unowned", "recovered", "failed"}, DaemonAccepts(outcome)
        PROVE  Recoveries' /\ \A v \in Vertices : recovery[v] = "recovered" => recovery'[v] = "recovered"
    <2> DEFINE u == daemon.vertex
    <2>1. /\ u \in Vertices /\ tx[u] = "absent" /\ recovery[u] # "recovered"
      BY <1>4 DEF DaemonAccepts, Recoveries
    <2>2. /\ tx' = [tx EXCEPT ![u] = "live"] /\ recovery' = [recovery EXCEPT ![u] = outcome]
          /\ ~daemon'.open
      BY <1>4 DEF DaemonAccepts, NoEvent
    <2> HIDE DEF u
    <2> QED BY <2>1, <2>2 DEF Recoveries
  <1>5. CASE DaemonVoids
    <2>1. /\ tx' = [tx EXCEPT ![daemon.vertex] = "voided"] /\ UNCHANGED recovery /\ ~daemon'.open
      BY <1>5 DEF DaemonVoids, NoEvent
    <2> QED BY <2>1 DEF Recoveries
  <1>6. CASE DaemonRollsBack
    BY <1>6 DEF DaemonRollsBack, Recoveries, NoEvent, tables
  <1>7. \/ UNCHANGED <<tx, recovery, daemon>>
        \/ \E l \in Loads, failed \in SUBSET Vertices : LoadSweeps(l, failed)
        \/ Daemon
    BY DEF Next, vars, tables, Daemon, RequestReads, RequestCreates, RequestAttaches,
           RequestRetries, InvokeFails, RequestDies, RequestInvokes, LoadReads, LoadDerives,
           LoadClaims, LoadRebuilds, LoadLocks, LoadSettles, LoadReturns, LoadFails,
           LoadCrashes, loadWalletFailed
  <1> QED BY <1>1, <1>2, <1>3, <1>4, <1>5, <1>6, <1>7 DEF Daemon

(* A side of the wallet that is ready stays ready, keys stay, and what was *)
(* recovered stays so, whatever fails and whichever lambdas overlap.       *)
THEOREM ReadyStaysReady == Spec => NeverGoesBack
  <1>1. Init => Known /\ Recoveries
    BY InitKnown, InitRecoveries
  <1>2. Known /\ Recoveries /\ [Next]_vars => Known' /\ Recoveries'
    BY StepFine, RecoveriesGo DEF Fine
  <1>3. Known /\ Recoveries /\ [Next]_vars =>
            [/\ wallet.status = "ready" => wallet'.status = "ready"
             /\ wallet.ct = "ready" => wallet'.ct = "ready"
             /\ wallet.keys # NoKeys => wallet'.keys = wallet.keys
             /\ \A v \in Vertices : recovery[v] = "recovered" => recovery'[v] = "recovered"]_vars
    BY StepFine, RecoveriesGo DEF Fine, Forward
  <1> QED BY <1>1, <1>2, <1>3, PTL DEF Spec, NeverGoesBack

-----------------------------------------------------------------------------
(* No load is lost, as long as keys are attached to a wallet nobody loads, *)
(* lambdas do not die after their write, and failures are recorded.        *)

Recorded == {"overlap", "requestDies", "markFails"} \cap Allowed = {}

LEMMA CallCalm ==
    ASSUME NEW c, CallCurrent(c, wallet), Calm(wallet, wallet')
    PROVE  CallCurrent(c, wallet')
  BY DEF CallCurrent, Calm

LEMMA LoadCalm ==
    ASSUME NEW j, LoadCurrent(j, wallet), Calm(wallet, wallet')
    PROVE  LoadCurrent(j, wallet')
  BY DEF LoadCurrent, Calm

LEMMA CallsCalm ==
    ASSUME Known, Current, Calm(wallet, wallet'), NEW r \in Requests, NEW c,
           CallGoes(r, c), CallCurrent(c, wallet')
    PROVE  \A q \in Requests : CallCurrent(call'[q], wallet')
  <1>1. call'[r] = c /\ \A q \in Requests \ {r} : call'[q] = call[q]
    BY DEF Known, CallGoes
  <1> QED BY <1>1, CallCalm DEF Current

LEMMA LoadsCalm ==
    ASSUME Known, Current, Calm(wallet, wallet'), NEW l \in Loads, NEW place, NEW k, NEW wasReady,
           Moved(l, place, k, wasReady), LoadCurrent(load'[l], wallet')
    PROVE  \A m \in Loads : LoadCurrent(load'[m], wallet')
  <1>1. \A m \in Loads \ {l} : load'[m] = load[m]
    BY DEF Known, Moved, LoadGoes
  <1> QED BY <1>1, LoadCalm DEF Current

LEMMA CallsCalmKept ==
    ASSUME Current, Calm(wallet, wallet'), UNCHANGED call
    PROVE  \A q \in Requests : CallCurrent(call'[q], wallet')
  BY CallCalm DEF Current

LEMMA LoadsCalmKept ==
    ASSUME Current, Calm(wallet, wallet'), UNCHANGED load
    PROVE  \A m \in Loads : LoadCurrent(load'[m], wallet')
  BY LoadCalm DEF Current

(* Somebody will end what is being created.                                *)
Driven == \/ \E r \in Requests : call[r].at = "invoke"
          \/ \E l \in Loads : load[l].at \notin {"idle", "done"}

LEMMA DrivenStays ==
    ASSUME NoLoadLost, UNCHANGED wallet,
           \A q \in Requests : call[q].at = "invoke" => call'[q].at = "invoke",
           \A m \in Loads : load[m].at \notin {"idle", "done"} => load'[m].at \notin {"idle", "done"}
    PROVE  NoLoadLost'
  BY DEF NoLoadLost, Unified

LEMMA NowDriven ==
    ASSUME \/ \E q \in Requests : call'[q].at = "invoke"
           \/ \E m \in Loads : load'[m].at \notin {"idle", "done"}
    PROVE  NoLoadLost'
  BY DEF NoLoadLost

LEMMA NotCreating == Unified(wallet') # "creating" => NoLoadLost'
  BY DEF NoLoadLost, Unified

(* A request that did not drive a load ends, or one reads.                 *)
LEMMA CallOnly ==
    ASSUME Known, NoLoadLost, Current, UNCHANGED <<wallet, load>>, NEW r \in Requests, NEW c,
           CallGoes(r, c), CallCurrent(c, wallet), call[r].at # "invoke"
    PROVE  Current' /\ NoLoadLost'
  <1>1. Calm(wallet, wallet') /\ CallCurrent(c, wallet')
    BY SameWallet
  <1>2. Current'
    BY <1>1, CallsCalm, LoadsCalmKept DEF Current
  <1>3. \A q \in Requests : call[q].at = "invoke" => call'[q].at = "invoke"
    BY DEF Known, CallGoes
  <1> QED BY <1>2, <1>3, DrivenStays

LEMMA IdleCurrent ==
    ASSUME NEW w
    PROVE  /\ CallCurrent(NoCall, w)
           /\ \A j : ~Working(j) => LoadCurrent(j, w)
  BY NoCallKnown DEF CallCurrent, LoadCurrent

LEMMA RequestReadsLasts ==
    ASSUME Known, Current, NoLoadLost, NEW r \in Requests, NEW k \in KeySets \cup {NoKeys},
           RequestReads(r, k)
    PROVE  Current' /\ NoLoadLost'
  <1> DEFINE c == [at |-> NextOf(wallet, k), keys |-> k,
                   wasReady |-> k # NoKeys /\ wallet.status = "ready",
                   saw |-> IF NextOf(wallet, k) = "attach" THEN wallet ELSE NoWallet]
  <1>1. /\ CallGoes(r, c) /\ NextOf(wallet, k) # "end" /\ UNCHANGED <<wallet, load>>
        /\ call[r].at # "invoke"
    BY DEF RequestReads, CallGoes
  <1>2. /\ NextOf(wallet, k) # "invoke"
        /\ NextOf(wallet, k) = "retry" /\ k = NoKeys => wallet.status = "error"
    BY <1>1 DEF NextOf
  <1>3. CallCurrent(c, wallet)
    BY <1>2 DEF CallCurrent, Up
  <1> HIDE DEF c
  <1> QED BY <1>1, <1>3, CallOnly

LEMMA EndsLasts ==
    ASSUME Known, Current, NoLoadLost, NEW r \in Requests, Ends(r), UNCHANGED <<wallet, load>>,
           call[r].at # "invoke"
    PROVE  Current' /\ NoLoadLost'
  <1>1. CallGoes(r, NoCall)
    BY DEF Ends, CallGoes
  <1> QED BY <1>1, IdleCurrent, CallOnly

LEMMA ToInvokeLasts ==
    ASSUME Known, NEW r \in Requests, GoesToInvoke(r)
    PROVE  /\ call'[r].at = "invoke" /\ call'[r].keys = call[r].keys
           /\ call'[r].wasReady = call[r].wasReady /\ CallGoes(r, call'[r])
           /\ \A q \in Requests \ {r} : call'[q] = call[q]
           /\ NoLoadLost'
  <1>1. /\ call'[r].at = "invoke" /\ call'[r].keys = call[r].keys
        /\ call'[r].wasReady = call[r].wasReady /\ CallGoes(r, call'[r])
    BY ToInvoke
  <1>2. \A q \in Requests \ {r} : call'[q] = call[q]
    BY <1>1 DEF Known, CallGoes
  <1> QED BY <1>1, <1>2, NowDriven

LEMMA RequestCreatesLasts ==
    ASSUME Known, Current, NoLoadLost, NEW r \in Requests, RequestCreates(r)
    PROVE  Current' /\ NoLoadLost'
  <1>1. call[r].at = "create" /\ UNCHANGED load /\ call[r].keys \in KeySets \cup {NoKeys}
    BY DEF RequestCreates, Known, Call
  <1>2. CASE wallet.status = "absent"
    <2>1. wallet' = createWallet(call[r].keys) /\ GoesToInvoke(r)
      BY <1>2 DEF RequestCreates
    <2>2. ~Up(wallet')
      BY <1>1, <1>2, <2>1, CreateGoesForward DEF Known
    <2>3. \A l \in Loads : ~Working(load[l])
      BY <1>2 DEF Known, LoadKnown, Working
    <2>4. Current'
      BY <1>1, <2>2, <2>3, IdleCurrent DEF Current, CallCurrent
    <2> QED BY <2>1, <2>4, ToInvokeLasts
  <1>3. CASE wallet.status # "absent"
    BY <1>1, <1>3, EndsLasts DEF RequestCreates
  <1> QED BY <1>2, <1>3

(* Nobody else is about to mark the wallet when an upgrade begins.         *)
LEMMA RequestAttachesLasts ==
    ASSUME Known, Current, NoLoadLost, Recorded, NEW r \in Requests, RequestAttaches(r)
    PROVE  Current' /\ NoLoadLost'
  <1>1. /\ call[r].at = "attach" /\ UNCHANGED load /\ Alone(r)
        /\ CallKnown(call[r], wallet) /\ RowOK(wallet)
    BY DEF RequestAttaches, Known, Recorded
  <1>2. CASE wallet.keys = NoKeys
    <2>1. wallet' = registerWalletShieldedKeys(wallet, call[r].keys) /\ GoesToInvoke(r)
      BY <1>2 DEF RequestAttaches
    <2>2. /\ call[r].keys \in KeySets /\ call[r].keys # NoKeys /\ wallet.status # "absent"
          /\ call[r].wasReady = (wallet.status = "ready")
      BY <1>1 DEF CallKnown, Call, Alone
    <2>3. wallet'.status = wallet.status
      BY <1>1, <1>2, <2>1, <2>2, AttachGoesForward
    <2>4. CallCurrent(call'[r], wallet')
      BY <2>1, <2>2, <2>3, ToInvokeLasts DEF CallCurrent, Up
    <2>5. /\ \A q \in Requests : call[q].at \notin {"retry", "invoke"}
          /\ \A l \in Loads : ~Working(load[l])
      BY <1>1 DEF Alone, Quiet, Working
    <2>6. \A q \in Requests : CallCurrent(call'[q], wallet')
      BY <2>1, <2>4, <2>5, ToInvokeLasts DEF CallCurrent
    <2>7. Current'
      BY <1>1, <2>5, <2>6, IdleCurrent DEF Current
    <2> QED BY <2>1, <2>7, ToInvokeLasts
  <1>3. CASE wallet.keys # NoKeys
    BY <1>1, <1>3, EndsLasts DEF RequestAttaches
  <1> QED BY <1>2, <1>3

LEMMA RequestRetriesLasts ==
    ASSUME Known, Current, NoLoadLost, NEW r \in Requests, RequestRetries(r)
    PROVE  Current' /\ NoLoadLost'
  <1>1. call[r].at = "retry" /\ UNCHANGED load /\ RowOK(wallet)
    BY DEF RequestRetries, Known
  <1>2. CASE "error" \in {wallet.status, wallet.ct}
    <2>1. wallet' = casWalletErrorToCreating(wallet) /\ GoesToInvoke(r)
      BY <1>2 DEF RequestRetries
    <2>2. Calm(wallet, wallet')
      BY <1>1, <2>1, RetryReopens
    <2>3. CallCurrent(call[r], wallet')
      BY <2>2, CallCalm DEF Current
    <2>4. CallCurrent(call'[r], wallet')
      BY <1>1, <2>1, <2>3, ToInvokeLasts DEF CallCurrent
    <2>5. Current'
      BY <1>1, <2>1, <2>2, <2>4, ToInvokeLasts, CallsCalm, LoadsCalmKept DEF Current
    <2> QED BY <2>1, <2>5, ToInvokeLasts
  <1>3. CASE "error" \notin {wallet.status, wallet.ct}
    BY <1>1, <1>3, EndsLasts DEF RequestRetries
  <1> QED BY <1>2, <1>3

LEMMA InvokeFailsLasts ==
    ASSUME Known, Current, NEW r \in Requests, InvokeFails(r)
    PROVE  Current' /\ NoLoadLost'
  <1>1. CallGoes(r, NoCall) /\ UNCHANGED load
    BY DEF InvokeFails, Ends, CallGoes
  <1>2. Calm(wallet, wallet') /\ Unified(wallet') # "creating"
    BY InvokeFailsMarks
  <1>3. CallCurrent(NoCall, wallet')
    BY IdleCurrent
  <1> QED BY <1>1, <1>2, <1>3, CallsCalm, LoadsCalmKept, NotCreating DEF Current

LEMMA RequestDiesLasts ==
    ASSUME Known, Current, NoLoadLost, Recorded, NEW r \in Requests, RequestDies(r)
    PROVE  Current' /\ NoLoadLost'
  BY EndsLasts DEF RequestDies, Recorded

LEMMA RequestInvokesLasts ==
    ASSUME Known, Current, NEW r \in Requests, NEW l \in Loads, RequestInvokes(r, l)
    PROVE  Current' /\ NoLoadLost'
  <1>1. CallGoes(r, NoCall) /\ UNCHANGED wallet /\ Moved(l, "queued", NoKeys, FALSE)
    BY RequestInvokesFine DEF RequestInvokes, Ends, CallGoes
  <1>2. Calm(wallet, wallet')
    BY <1>1, SameWallet
  <1>3. LoadCurrent(load'[l], wallet') /\ CallCurrent(NoCall, wallet') /\ load'[l].at = "queued"
    BY <1>1, IdleCurrent DEF Moved, Working
  <1> QED BY <1>1, <1>2, <1>3, CallsCalm, LoadsCalm, NowDriven DEF Current

LEMMA PhaseLasts ==
    ASSUME Known, Current, NEW l \in Loads, Phase(l)
    PROVE  Current' /\ NoLoadLost'
  <1>1. UNCHANGED <<wallet, call>> /\ Calm(wallet, wallet')
    BY PhaseMoves, SameWallet
  <1>2. PICK place \in Phases :
            \/ Moved(l, place, wallet.keys, wallet.keys # NoKeys /\ wallet.status = "ready")
            \/ Working(load[l]) /\ Moved(l, place, load[l].keys, load[l].wasReady)
    BY PhaseMoves
  <1>3. load'[l].at \notin {"idle", "done"}
    BY <1>2 DEF Moved, Phases
  <1>4. CASE Moved(l, place, wallet.keys, wallet.keys # NoKeys /\ wallet.status = "ready")
    <2> DEFINE ready == wallet.keys # NoKeys /\ wallet.status = "ready"
    <2>1. Moved(l, place, wallet.keys, ready)
      BY <1>4
    <2>2. Up(wallet) => ready
      BY DEF Up, Known, RowOK, MidLoad
    <2> HIDE DEF ready
    <2>3. LoadCurrent(load'[l], wallet')
      BY <1>1, <2>1, <2>2 DEF Moved, LoadCurrent
    <2> QED BY <1>1, <1>3, <2>1, <2>3, LoadsCalm, CallsCalmKept, NowDriven DEF Current
  <1>5. CASE Working(load[l]) /\ Moved(l, place, load[l].keys, load[l].wasReady)
    <2>1. LoadCurrent(load'[l], wallet')
      BY <1>1, <1>5 DEF Current, Moved, LoadCurrent
    <2> QED BY <1>1, <1>3, <1>5, <2>1, LoadsCalm, CallsCalmKept, NowDriven DEF Current
  <1> QED BY <1>2, <1>4, <1>5

LEMMA LoadEndsLasts ==
    ASSUME Known, Current, NoLoadLost, Recorded, NEW l \in Loads,
           \/ LoadSettles(l) \/ LoadReturns(l) \/ LoadFails(l) \/ LoadCrashes(l) \/ loadWalletFailed(l)
    PROVE  Current' /\ NoLoadLost'
  <1>1. UNCHANGED call /\ Calm(wallet, wallet')
    BY SettlesMoves, FailsMoves, FailedMoves, SameWallet DEF LoadReturns, LoadCrashes, Calm
  <1>2. PICK place \in {"idle", "queued", "done", "dead"} : Moved(l, place, NoKeys, FALSE)
    BY SettlesMoves, FailsMoves, FailedMoves, CrashMoves, NoLoadMoves DEF LoadReturns
  <1>3. LoadCurrent(load'[l], wallet') /\ load'[l].at = place
    BY <1>2, IdleCurrent DEF Moved, Working
  <1>4. Current'
    BY <1>1, <1>2, <1>3, LoadsCalm, CallsCalmKept DEF Current
  <1>5. CASE LoadSettles(l) \/ LoadFails(l) \/ loadWalletFailed(l)
    BY <1>4, <1>5, SettlesMoves, FailsMoves, FailedMoves, NotCreating DEF Recorded
  <1>6. CASE LoadReturns(l)
    <2>1. \A m \in Loads : load[m].at \notin {"idle", "done"} => load'[m] = load[m]
      BY <1>6 DEF LoadReturns, Known
    <2> QED BY <1>1, <1>4, <1>6, <2>1, DrivenStays DEF LoadReturns
  <1>7. CASE LoadCrashes(l)
    <2>1. load'[l].at \in {"queued", "dead"}
      BY <1>7, CrashMoves DEF Moved
    <2> QED BY <1>4, <2>1, NowDriven
  <1> QED BY <1>5, <1>6, <1>7

LEMMA StepLasts ==
    ASSUME Known, Current, NoLoadLost, Recorded, [Next]_vars
    PROVE  Current' /\ NoLoadLost'
  <1>1. CASE \E r \in Requests, k \in KeySets \cup {NoKeys} : RequestReads(r, k)
    BY <1>1, RequestReadsLasts
  <1>2. CASE \E r \in Requests : \/ RequestCreates(r) \/ RequestAttaches(r) \/ RequestRetries(r)
                                 \/ InvokeFails(r) \/ RequestDies(r)
    BY <1>2, RequestCreatesLasts, RequestAttachesLasts, RequestRetriesLasts, InvokeFailsLasts,
       RequestDiesLasts
  <1>3. CASE \E r \in Requests, l \in Loads : RequestInvokes(r, l)
    BY <1>3, RequestInvokesLasts
  <1>4. CASE \E l \in Loads : Phase(l)
    BY <1>4, PhaseLasts
  <1>5. CASE \E l \in Loads : \/ LoadSettles(l) \/ LoadReturns(l) \/ LoadFails(l)
                              \/ LoadCrashes(l) \/ loadWalletFailed(l)
    BY <1>5, LoadEndsLasts
  <1>6. CASE UNCHANGED <<wallet, call, load>>
    BY <1>6 DEF Current, NoLoadLost, Unified, CallCurrent, LoadCurrent, Working, Up
  <1>7. CASE Daemon
    BY <1>6, <1>7, DaemonFine
  <1>8. CASE UNCHANGED vars
    BY <1>6, <1>8 DEF vars
  <1> QED BY <1>1, <1>2, <1>3, <1>4, <1>5, <1>7, <1>8 DEF Next, Phase, Daemon

(* A wallet that is being created is being loaded, whatever workers and    *)
(* invocations fail, and however often AWS runs a worker again.            *)
THEOREM LoadsAreDriven == Recorded /\ Spec => []NoLoadLost
  <1> SUFFICES ASSUME Recorded PROVE Spec => []NoLoadLost
    OBVIOUS
  <1>1. Init => Known /\ Current /\ NoLoadLost
    BY InitKnown
  <1>2. Known /\ Current /\ NoLoadLost /\ [Next]_vars => Known' /\ Current' /\ NoLoadLost'
    BY StepFine, StepLasts DEF Fine
  <1> QED BY <1>1, <1>2, PTL DEF Spec
-----------------------------------------------------------------------------
(* The types.  Amounts depends on vertices only going forward: an absent   *)
(* one is in no row and in no sum, a live one at most once.                *)

Capped == wallet.retry <= MaxRetries
CallsRest == \A r \in Requests : call[r].at = "idle" => call[r] = NoCall

LoadRec == [at : Places \cup {"idle"}, wasReady : BOOLEAN, keys : KeySets \cup {NoKeys},
            claims : SUBSET Addresses, list : SUBSET Addresses, sums : [Vertices -> Int]]
Tidy(j) ==
    /\ j \in LoadRec
    /\ j.at \in {"idle", "queued", "done", "dead"} => j.list = {} /\ j.keys = NoKeys
    /\ j.at # "claim" => j.claims = {}
LoadsTidy == load = [l \in Loads |-> load[l]] /\ \A l \in Loads : Tidy(load[l])

Within(state) == CASE state = "absent" -> {0} [] state = "live" -> 0 .. 1 [] state = "voided" -> -1 .. 1
InRange(f, s) == f \in [Vertices -> Int] /\ \A v \in Vertices : f[v] \in Within(s[v])
Amounts ==
    /\ InRange(credit, tx) /\ InRange(counted, tx) /\ InRange(walCredit, tx)
    /\ \A l \in Loads : InRange(load[l].sums, tx)
    /\ walHistory \subseteq Vertices
    /\ owner \in [Addresses -> {"none", "seen", "owned"}]
    /\ daemon.vertex \in Vertices \cup {NoVertex}
    /\ daemon.open => /\ daemon.vertex \in Vertices
                      /\ tx[daemon.vertex] = IF daemon.voids THEN "live" ELSE "absent"

LateAre == late \subseteq Vertices

Types == Known /\ Recoveries /\ Capped /\ CallsRest /\ LoadsTidy /\ Amounts /\ LateAre

LEMMA TypesImply == Types => TypeOK
  <1> SUFFICES ASSUME Types PROVE TypeOK
    OBVIOUS
  <1>1. /\ wallet \in [status : {"absent", "creating", "ready", "error"},
                       ct : {"none", "creating", "ready", "error"},
                       keys : KeySets \cup {NoKeys}, retry : 0 .. MaxRetries]
        /\ wallet.ct = "none" <=> wallet.keys = NoKeys
    BY DEF Types, Known, RowOK, Row, Capped, LoadAssumption
  <1>2. \A r \in Requests : /\ call[r].at \in {"idle", "create", "attach", "retry", "invoke"}
                            /\ call[r].at = "idle" => call[r] = NoCall
                            /\ call[r].keys \in KeySets \cup {NoKeys}
    BY DEF Types, Known, CallsRest, Call
  <1>3. \A l \in Loads : /\ load[l].at \in Places \cup {"idle"}
                         /\ load[l].at \in {"idle", "queued", "done", "dead"} =>
                                load[l].list = {} /\ load[l].keys = NoKeys
                         /\ load[l].at # "claim" => load[l].claims = {}
    BY DEF Types, LoadsTidy, Tidy, LoadRec
  <1>4. \A f : InRange(f, tx) => f \in [Vertices -> -1 .. 1]
    BY DEF Types, Recoveries, InRange, Within
  <1> QED BY <1>1, <1>2, <1>3, <1>4 DEF Types, TypeOK, Recoveries, Amounts, LateAre

LEMMA InitTypes == Init => Types
  <1> SUFFICES ASSUME Init PROVE Types
    OBVIOUS
  <1>1. Capped /\ CallsRest
    BY DEF Init, Capped, CallsRest, NoWallet, LoadAssumption
  <1>2. Tidy(NoLoad)
    BY DEF Tidy, NoLoad, LoadRec
  <1>3. LoadsTidy
    BY <1>2 DEF Init, LoadsTidy
  <1>4. Amounts
    <2>1. \A l \in Loads : load[l].sums = [v \in Vertices |-> 0]
      BY DEF Init, NoLoad
    <2>2. InRange([v \in Vertices |-> 0], tx)
      BY DEF Init, InRange, Within
    <2> QED BY <2>1, <2>2 DEF Init, Amounts, NoEvent
  <1>5. LateAre
    BY DEF Init, LateAre
  <1> QED BY <1>1, <1>3, <1>4, <1>5, InitKnown, InitRecoveries DEF Types

(* No statement counts failures beyond the cap.                            *)
LEMMA RetryCapped ==
    ASSUME NEW w, w \in Row, w.retry <= MaxRetries
    PROVE  /\ \A k \in KeySets : registerWalletShieldedKeys(w, k).retry <= MaxRetries
           /\ casWalletErrorToCreating(w).retry <= MaxRetries
           /\ markLegacyLoadError(w).retry <= MaxRetries
           /\ \A b \in BOOLEAN : markWalletLoadError(w, b).retry <= MaxRetries
           /\ pinLegacyLoadFailed(w).retry <= MaxRetries
           /\ pinShieldedLoadFailed(w).retry <= MaxRetries
           /\ \A k : \A b \in BOOLEAN : Settled(w, k, b).retry <= MaxRetries
  <1>1. Retried(w.retry) <= MaxRetries /\ MaxRetries \in Nat /\ w.retry \in Nat
    BY DEF Retried, Row, LoadAssumption
  <1>2. \A k \in KeySets : registerWalletShieldedKeys(w, k).retry <= MaxRetries
    BY <1>1 DEF registerWalletShieldedKeys, Row
  <1>3. casWalletErrorToCreating(w).retry <= MaxRetries
    BY <1>1 DEF casWalletErrorToCreating, Row
  <1>4. markLegacyLoadError(w).retry <= MaxRetries
    BY <1>1 DEF markLegacyLoadError, Row
  <1>5. \A b \in BOOLEAN : markWalletLoadError(w, b).retry <= MaxRetries
    BY <1>1 DEF markWalletLoadError, Row
  <1>6. pinLegacyLoadFailed(w).retry <= MaxRetries /\ pinShieldedLoadFailed(w).retry <= MaxRetries
    BY <1>1 DEF pinLegacyLoadFailed, pinShieldedLoadFailed, Row
  <1>7. \A k : \A b \in BOOLEAN : Settled(w, k, b).retry <= MaxRetries
    BY <1>1 DEF Settled, updateWalletStatus, markWalletLoadReady, Row
  <1> QED BY <1>2, <1>3, <1>4, <1>5, <1>6, <1>7

LEMMA CappedKept == ASSUME Types, [Next]_vars PROVE Capped'
  <1>1. wallet \in Row /\ wallet.retry <= MaxRetries
    BY DEF Types, Known, RowOK, Capped
  <1>2. CASE UNCHANGED wallet
    BY <1>1, <1>2 DEF Capped
  <1>3. ASSUME NEW r \in Requests, RequestCreates(r) PROVE Capped'
    BY <1>1, <1>2, <1>3 DEF RequestCreates, createWallet, Capped, LoadAssumption
  <1>4. ASSUME NEW r \in Requests, RequestAttaches(r) PROVE Capped'
    <2>1. call[r].keys \in KeySets
      BY <1>4 DEF RequestAttaches, Types, Known, CallKnown, Call
    <2> QED BY <1>1, <1>2, <1>4, <2>1, RetryCapped DEF RequestAttaches, Capped
  <1>5. ASSUME NEW r \in Requests, RequestRetries(r) PROVE Capped'
    BY <1>1, <1>2, <1>5, RetryCapped DEF RequestRetries, Capped
  <1>6. ASSUME NEW r \in Requests, InvokeFails(r) PROVE Capped'
    <2>1. (~call[r].wasReady) \in BOOLEAN
      OBVIOUS
    <2> QED BY <1>1, <1>6, <2>1, RetryCapped DEF InvokeFails, Capped
  <1>7. ASSUME NEW l \in Loads, LoadFails(l) PROVE Capped'
    <2>1. (~load[l].wasReady) \in BOOLEAN
      OBVIOUS
    <2> QED BY <1>1, <1>2, <1>7, <2>1, RetryCapped DEF LoadFails, Capped
  <1>8. ASSUME NEW l \in Loads, LoadSettles(l) PROVE Capped'
    <2>1. load[l].wasReady \in BOOLEAN /\ wallet' = Settled(wallet, load[l].keys, load[l].wasReady)
      BY <1>8 DEF LoadSettles, Settled, Types, Known, LoadKnown
    <2> QED BY <1>1, <2>1, RetryCapped DEF Capped
  <1>9. ASSUME NEW l \in Loads, loadWalletFailed(l) PROVE Capped'
    <2>1. pinLegacyLoadFailed(wallet) \in Row /\ pinLegacyLoadFailed(wallet).retry <= MaxRetries
      BY <1>1, LegacyPin, RetryCapped DEF Types, Known, Forward, RowOK
    <2> QED BY <1>1, <1>9, <2>1, RetryCapped DEF loadWalletFailed, Capped
  <1>10. \/ UNCHANGED wallet
         \/ \E r \in Requests : \/ RequestCreates(r) \/ RequestAttaches(r) \/ RequestRetries(r)
                                \/ InvokeFails(r)
         \/ \E l \in Loads : LoadFails(l) \/ LoadSettles(l) \/ loadWalletFailed(l)
    BY DEF Next, vars, RequestReads, RequestDies, RequestInvokes, LoadReads, LoadDerives, LoadClaims,
           LoadSweeps, LoadRebuilds, LoadLocks, LoadReturns, LoadCrashes, DaemonOpens, DaemonAccepts,
           DaemonVoids, DaemonRollsBack
  <1> QED BY <1>2, <1>3, <1>4, <1>5, <1>6, <1>7, <1>8, <1>9, <1>10

LEMMA CallsRestKept == ASSUME Types, [Next]_vars PROVE CallsRest'
  <1>1. CASE UNCHANGED call
    BY <1>1 DEF Types, CallsRest
  <1>2. ASSUME NEW r \in Requests, CallGoes(r, NoCall) PROVE CallsRest'
    BY <1>2 DEF CallGoes, Types, CallsRest, Known
  <1>3. ASSUME NEW r \in Requests, NEW c, CallGoes(r, c), c.at # "idle" PROVE CallsRest'
    BY <1>3 DEF CallGoes, Types, CallsRest, Known
  <1>4. ASSUME NEW r \in Requests, NEW k \in KeySets \cup {NoKeys}, RequestReads(r, k) PROVE CallsRest'
    <2> DEFINE c == [at |-> NextOf(wallet, k), keys |-> k,
                     wasReady |-> k # NoKeys /\ wallet.status = "ready",
                     saw |-> IF NextOf(wallet, k) = "attach" THEN wallet ELSE NoWallet]
    <2>1. CallGoes(r, c)
      BY <1>4 DEF RequestReads, CallGoes
    <2>2. c.at # "idle"
      BY DEF NextOf
    <2> HIDE DEF c
    <2> QED BY <1>3, <2>1, <2>2
  <1>5. ASSUME NEW r \in Requests, GoesToInvoke(r) PROVE CallsRest'
    BY <1>3, <1>5, ToInvoke DEF Types
  <1>6. \/ UNCHANGED call
        \/ \E r \in Requests, k \in KeySets \cup {NoKeys} : RequestReads(r, k)
        \/ \E r \in Requests : GoesToInvoke(r) \/ CallGoes(r, NoCall)
    BY DEF Next, vars, RequestCreates, RequestAttaches, RequestRetries, InvokeFails, RequestDies,
           RequestInvokes, Ends, CallGoes, LoadReads, LoadDerives, LoadClaims, LoadSweeps, LoadRebuilds,
           LoadLocks, LoadSettles, LoadReturns, LoadFails, LoadCrashes, loadWalletFailed, DaemonOpens,
           DaemonAccepts, DaemonVoids, DaemonRollsBack
  <1> QED BY <1>1, <1>2, <1>4, <1>5, <1>6

(* A load that moves keeps its sums, or forgets them, or takes new ones.   *)
SumsFrom(l) == load'[l].sums \in {load[l].sums, [v \in Vertices |-> 0]}
Becomes(l, j) == LoadGoes(l, j) /\ Tidy(j)

LEMMA TidyAfter ==
    ASSUME Types, NEW l \in Loads, NEW j, Becomes(l, j)
    PROVE  /\ LoadsTidy' /\ load'[l] = j
           /\ j.sums \in {load[l].sums, [v \in Vertices |-> 0]} => \A m \in Loads : SumsFrom(m)
  BY DEF Types, LoadsTidy, Becomes, LoadGoes, SumsFrom

LEMMA NoLoadTidy ==
    \A place \in {"idle", "queued", "done", "dead"} :
        /\ Tidy([NoLoad EXCEPT !.at = place])
        /\ [NoLoad EXCEPT !.at = place].sums = [v \in Vertices |-> 0]
        /\ Tidy(NoLoad) /\ NoLoad.sums = [v \in Vertices |-> 0]
  <1>1. NoLoad \in LoadRec /\ NoLoad.at = "idle" /\ NoLoad.list = {} /\ NoLoad.claims = {}
        /\ NoLoad.keys = NoKeys /\ NoLoad.sums = [v \in Vertices |-> 0]
    BY DEF NoLoad, LoadRec
  <1>2. ASSUME NEW place \in {"idle", "queued", "done", "dead"}
        PROVE  /\ Tidy([NoLoad EXCEPT !.at = place])
               /\ [NoLoad EXCEPT !.at = place].sums = [v \in Vertices |-> 0]
    BY <1>1 DEF Tidy, LoadRec, Places
  <1>3. Tidy(NoLoad)
    BY <1>1 DEF Tidy
  <1> QED BY <1>1, <1>2, <1>3

LEMMA StepTidy ==
    ASSUME Types, NEW l \in Loads, NEW place \in Phases \ {"claim"}, Step(l, place), load[l].at \in Phases \ {"claim"}
    PROVE  LoadsTidy' /\ \A m \in Loads : SumsFrom(m)
  <1> DEFINE j == [load[l] EXCEPT !.at = place]
  <1>1. Tidy(load[l])
    BY DEF Types, LoadsTidy
  <1>2. Tidy(j) /\ j.sums = load[l].sums
    BY <1>1 DEF Tidy, LoadRec, Places, Phases
  <1>3. LoadGoes(l, j)
    BY DEF Step, LoadGoes, Types, LoadsTidy
  <1> HIDE DEF j
  <1> QED BY <1>2, <1>3, TidyAfter DEF Becomes

(* All but the lock.                                                       *)
LEMMA LoadsTidyKept ==
    ASSUME Types, [Next]_vars, \A l \in Loads : ~LoadLocks(l)
    PROVE  LoadsTidy' /\ \A m \in Loads : SumsFrom(m)
  <1> DEFINE Goal == LoadsTidy' /\ \A m \in Loads : SumsFrom(m)
  <1>1. CASE UNCHANGED load
    BY <1>1 DEF Types, LoadsTidy, SumsFrom
  <1>2. ASSUME NEW l \in Loads, LoadGoes(l, NoLoad) PROVE Goal
    BY <1>2, NoLoadTidy, TidyAfter DEF Becomes
  <1>3. ASSUME NEW l \in Loads, NEW place \in {"idle", "queued", "done", "dead"},
               LoadGoes(l, [NoLoad EXCEPT !.at = place])
        PROVE  Goal
    BY <1>3, NoLoadTidy, TidyAfter DEF Becomes
  <1>4. \A l \in Loads : Tidy(load[l])
    BY DEF Types, LoadsTidy
  <1>5. ASSUME NEW l \in Loads, LoadReads(l) PROVE Goal
    <2> DEFINE j == [load[l] EXCEPT !.at = "derive", !.keys = wallet.keys,
                                    !.wasReady = wallet.keys # NoKeys /\ wallet.status = "ready"]
    <2>1. wallet.keys \in KeySets \cup {NoKeys} /\ load[l].at = "queued" /\ Tidy(load[l])
      BY <1>4, <1>5 DEF LoadReads, Types, Known, RowOK, Row
    <2>2. Tidy(j) /\ j.sums = load[l].sums
      BY <2>1 DEF Tidy, LoadRec, Places
    <2>3. LoadGoes(l, j)
      BY <1>5 DEF LoadReads, LoadGoes, Types, LoadsTidy
    <2> HIDE DEF j
    <2> QED BY <2>2, <2>3, TidyAfter DEF Becomes
  <1>6. ASSUME NEW l \in Loads, LoadDerives(l) PROVE Goal
    <2> DEFINE j == [load[l] EXCEPT !.at = "claim", !.claims = Claims(load[l].keys),
                                    !.list = Window(NoKeys)]
    <2>1. load[l].at = "derive" /\ Tidy(load[l])
      BY <1>4, <1>6 DEF LoadDerives
    <2>2. Claims(load[l].keys) \in SUBSET Addresses /\ Window(NoKeys) \in SUBSET Addresses
      BY DEF Claims, Window, Existing
    <2>3. Tidy(j) /\ j.sums = load[l].sums
      BY <2>1, <2>2 DEF Tidy, LoadRec, Places
    <2>4. LoadGoes(l, j)
      BY <1>6 DEF LoadDerives, LoadGoes, Types, LoadsTidy
    <2> HIDE DEF j
    <2> QED BY <2>3, <2>4, TidyAfter DEF Becomes
  <1>7. ASSUME NEW l \in Loads, LoadClaims(l) PROVE Goal
    <2> DEFINE place == IF load[l].keys = NoKeys THEN "lock" ELSE "sweep1"
               more == IF load[l].keys = NoKeys THEN {}
                       ELSE {a \in Addresses \ LegacyPath : owner'[a] = "owned"}
               j == [load[l] EXCEPT !.at = place, !.claims = {}, !.list = @ \cup more]
    <2>1. load[l].at = "claim" /\ Tidy(load[l])
      BY <1>4, <1>7 DEF LoadClaims
    <2>2. more \in SUBSET Addresses /\ place \in {"lock", "sweep1"}
      OBVIOUS
    <2>3. LoadGoes(l, j)
      BY <1>7 DEF LoadClaims, LoadGoes, Types, LoadsTidy
    <2> HIDE DEF more, place
    <2>4. Tidy(j) /\ j.sums = load[l].sums
      BY <2>1, <2>2 DEF Tidy, LoadRec, Places
    <2> HIDE DEF j
    <2> QED BY <2>3, <2>4, TidyAfter DEF Becomes
  <1>8. ASSUME NEW l \in Loads, NEW failed \in SUBSET Vertices, LoadSweeps(l, failed) PROVE Goal
    <2>1. load[l].at \in {"sweep1", "sweep2"}
      BY <1>8 DEF LoadSweeps
    <2>2. CASE load[l].at = "sweep1"
      BY <1>8, <2>2, StepTidy DEF LoadSweeps, AfterSweep, Phases
    <2>3. CASE load[l].at = "sweep2"
      BY <1>8, <2>3, StepTidy DEF LoadSweeps, AfterSweep, Phases
    <2> QED BY <2>1, <2>2, <2>3
  <1>9. ASSUME NEW l \in Loads, LoadRebuilds(l) PROVE Goal
    BY <1>9, StepTidy DEF LoadRebuilds, Phases
  <1>10. ASSUME NEW l \in Loads, LoadSettles(l) PROVE Goal
    <2>1. LoadGoes(l, [NoLoad EXCEPT !.at = "done"])
      BY <1>10 DEF LoadSettles, LoadGoes
    <2> QED BY <1>3, <2>1
  <1>11. ASSUME NEW l \in Loads, LoadCrashes(l) PROVE Goal
    <2>1. PICK place \in {"queued", "dead"} : LoadGoes(l, [NoLoad EXCEPT !.at = place])
      BY <1>11 DEF LoadCrashes, LoadGoes
    <2> QED BY <1>3, <2>1
  <1>12. ASSUME NEW r \in Requests, NEW l \in Loads, RequestInvokes(r, l) PROVE Goal
    <2>1. LoadGoes(l, [NoLoad EXCEPT !.at = "queued"])
      BY <1>12 DEF RequestInvokes, LoadGoes
    <2> QED BY <1>3, <2>1
  <1>13. \/ UNCHANGED load
         \/ \E r \in Requests, l \in Loads : RequestInvokes(r, l)
         \/ \E l \in Loads : \/ LoadReads(l) \/ LoadDerives(l) \/ LoadClaims(l) \/ LoadRebuilds(l)
                             \/ LoadSettles(l) \/ LoadCrashes(l) \/ LoadGoes(l, NoLoad)
         \/ \E l \in Loads, failed \in SUBSET Vertices : LoadSweeps(l, failed)
    BY DEF Next, vars, RequestReads, RequestCreates, RequestAttaches, RequestRetries, InvokeFails,
           RequestDies, LoadReturns, LoadFails, loadWalletFailed, LoadGoes, DaemonOpens,
           DaemonAccepts, DaemonVoids, DaemonRollsBack
  <1> QED BY <1>1, <1>2, <1>5, <1>6, <1>7, <1>8, <1>9, <1>10, <1>11, <1>12, <1>13

(* The amounts follow their vertices.                                      *)
LEMMA InRangeStays ==
    ASSUME NEW f, InRange(f, tx), Recoveries,
           tx' \in [Vertices -> {"absent", "live", "voided"}],
           \A v \in Vertices : tx'[v] = tx[v] \/ tx[v] = "absent" \/ tx'[v] = "voided"
    PROVE  InRange(f, tx')
  BY DEF InRange, Within, Recoveries

LEMMA SameAmounts ==
    ASSUME Types, \A m \in Loads : SumsFrom(m), UNCHANGED tx
    PROVE  \A m \in Loads : InRange(load'[m].sums, tx')
  <1>1. InRange([v \in Vertices |-> 0], tx)
    BY DEF InRange, Within, Types, Recoveries
  <1> QED BY <1>1 DEF Types, Amounts, SumsFrom

LEMMA LocksTidy ==
    ASSUME Types, NEW l \in Loads, LoadLocks(l)
    PROVE  LoadsTidy' /\ \A m \in Loads : InRange(load'[m].sums, tx)
  <1> DEFINE sums == IF \E a \in load[l].list : RowExists(a)
                     THEN [v \in Vertices |-> IF Pays[v] \in load[l].list THEN credit[v] ELSE 0]
                     ELSE walCredit
             j == [load[l] EXCEPT !.at = "settle", !.sums = sums]
  <1>1. InRange(sums, tx)
    <2>1. InRange([v \in Vertices |-> IF Pays[v] \in load[l].list THEN credit[v] ELSE 0], tx)
      BY DEF InRange, Within, Types, Amounts, Recoveries
    <2> QED BY <2>1 DEF Types, Amounts
  <1>2. Tidy(load[l]) /\ load[l].at = "lock"
    BY DEF Types, LoadsTidy, LoadLocks
  <1>3. LoadGoes(l, j)
    BY DEF LoadLocks, LoadGoes, Types, LoadsTidy
  <1>4. Tidy(j) /\ j.sums = sums
    <2>1. sums \in [Vertices -> Int]
      BY <1>1 DEF InRange
    <2> HIDE DEF sums
    <2> QED BY <1>2, <2>1 DEF Tidy, LoadRec, Places
  <1> HIDE DEF j, sums
  <1>5. LoadsTidy' /\ load'[l] = j /\ \A m \in Loads \ {l} : load'[m] = load[m]
    BY <1>3, <1>4, TidyAfter DEF Becomes, LoadGoes, Types, LoadsTidy
  <1> QED BY <1>1, <1>4, <1>5 DEF Types, Amounts

(* The daemon's writes, one vertex at a time.                              *)
LEMMA AcceptKeepsAmounts ==
    ASSUME Types, NEW outcome \in {"none", "unowned", "recovered", "failed"}, DaemonAccepts(outcome)
    PROVE  Amounts'
  <1> DEFINE u == daemon.vertex
  <1>1. /\ u \in Vertices /\ tx[u] = "absent" /\ tx \in [Vertices -> {"absent", "live", "voided"}]
        /\ tx' = [tx EXCEPT ![u] = "live"] /\ UNCHANGED load /\ daemon' = NoEvent
    BY DEF DaemonAccepts, Types, Recoveries, Amounts
  <1>2. \A f : InRange(f, tx) => InRange(f, tx')
    BY <1>1, InRangeStays DEF Types, Recoveries
  <1>3. \A f : InRange(f, tx) => InRange([f EXCEPT ![u] = @ + 1], tx')
    <2> SUFFICES ASSUME NEW f, InRange(f, tx) PROVE InRange([f EXCEPT ![u] = @ + 1], tx')
      OBVIOUS
    <2> DEFINE g == [f EXCEPT ![u] = @ + 1]
    <2> HIDE DEF u
    <2>1. f \in [Vertices -> Int] /\ u \in Vertices /\ f[u] \in Int /\ f[u] \in Within(tx[u])
      BY <1>1 DEF InRange
    <2>2. /\ DOMAIN g = Vertices /\ g = [v \in Vertices |-> g[v]]
          /\ g[u] = f[u] + 1 /\ \A v \in Vertices \ {u} : g[v] = f[v]
      BY <2>1
    <2>3. g \in [Vertices -> Int]
      <3> HIDE DEF g
      <3> QED BY <2>1, <2>2
    <2>4. g[u] \in Within(tx'[u])
      BY <1>1, <2>1, <2>2 DEF Within
    <2> HIDE DEF g
    <2>5. InRange(g, tx')
      BY <1>1, <2>1, <2>2, <2>4, <2>3 DEF InRange
    <2> QED BY <2>5 DEF g
  <1>4. /\ credit' \in {credit, [credit EXCEPT ![u] = @ + 1]}
        /\ counted' \in {counted, [counted EXCEPT ![u] = @ + 1]}
        /\ walCredit' \in {walCredit, [walCredit EXCEPT ![u] = @ + 1]}
        /\ walHistory' \in {walHistory, walHistory \cup {u}}
    BY DEF DaemonAccepts
  <1>5. owner' \in [Addresses -> {"none", "seen", "owned"}]
    BY DEF DaemonAccepts, Types, Amounts
  <1> HIDE DEF u
  <1> QED BY <1>1, <1>2, <1>3, <1>4, <1>5 DEF Types, Amounts, NoEvent

LEMMA VoidKeepsAmounts ==
    ASSUME Types, DaemonVoids PROVE Amounts'
  <1> DEFINE u == daemon.vertex
  <1>1. /\ u \in Vertices /\ tx[u] = "live" /\ tx \in [Vertices -> {"absent", "live", "voided"}]
        /\ tx' = [tx EXCEPT ![u] = "voided"] /\ UNCHANGED <<load, owner>> /\ daemon' = NoEvent
    BY DEF DaemonVoids, Types, Recoveries, Amounts
  <1>2. \A f : InRange(f, tx) => InRange(f, tx')
    BY <1>1, InRangeStays DEF Types, Recoveries
  <1>3. \A f : InRange(f, tx) => InRange([f EXCEPT ![u] = @ - 1], tx')
    <2> SUFFICES ASSUME NEW f, InRange(f, tx) PROVE InRange([f EXCEPT ![u] = @ - 1], tx')
      OBVIOUS
    <2> DEFINE g == [f EXCEPT ![u] = @ - 1]
    <2> HIDE DEF u
    <2>1. f \in [Vertices -> Int] /\ u \in Vertices /\ f[u] \in Int /\ f[u] \in Within(tx[u])
      BY <1>1 DEF InRange
    <2>2. /\ DOMAIN g = Vertices /\ g = [v \in Vertices |-> g[v]]
          /\ g[u] = f[u] - 1 /\ \A v \in Vertices \ {u} : g[v] = f[v]
      BY <2>1
    <2>3. g \in [Vertices -> Int]
      <3> HIDE DEF g
      <3> QED BY <2>1, <2>2
    <2>4. g[u] \in Within(tx'[u])
      BY <1>1, <2>1, <2>2 DEF Within
    <2> HIDE DEF g
    <2>5. InRange(g, tx')
      BY <1>1, <2>1, <2>2, <2>4, <2>3 DEF InRange
    <2> QED BY <2>5 DEF g
  <1>4. /\ credit' \in {credit, [credit EXCEPT ![u] = @ - 1]}
        /\ counted' \in {counted, [counted EXCEPT ![u] = @ - 1]}
        /\ walCredit' \in {walCredit, [walCredit EXCEPT ![u] = @ - 1]}
        /\ walHistory' \in {walHistory, walHistory \ {u}}
    BY DEF DaemonVoids
  <1> HIDE DEF u
  <1> QED BY <1>1, <1>2, <1>3, <1>4 DEF Types, Amounts, NoEvent

LEMMA AmountsKept ==
    ASSUME Types, [Next]_vars, \A l \in Loads : ~LoadLocks(l)
    PROVE  Amounts'
  <1>1. \A m \in Loads : SumsFrom(m)
    BY LoadsTidyKept
  <1>2. UNCHANGED tx => \A m \in Loads : InRange(load'[m].sums, tx')
    BY <1>1, SameAmounts
  <1>3. CASE UNCHANGED <<owner, tx, credit, counted, walCredit, walHistory, daemon>>
    BY <1>2, <1>3 DEF Types, Amounts
  <1>4. ASSUME NEW l \in Loads, LoadClaims(l) PROVE Amounts'
    <2>1. owner' \in [Addresses -> {"none", "seen", "owned"}]
      BY <1>4 DEF LoadClaims, Types, Amounts
    <2> QED BY <1>2, <1>4, <2>1 DEF LoadClaims, Types, Amounts
  <1>5. ASSUME NEW l \in Loads, LoadRebuilds(l) PROVE Amounts'
    <2> DEFINE again(v) == Shielded(v) /\ Pays[v] \in load[l].list /\ \E o \in PaidTo(Pays[v]) : Recovered(o)
               f == [v \in Vertices |-> IF again(v) THEN IF Recovered(v) THEN 1 ELSE 0 ELSE credit[v]]
    <2>1. credit' = f /\ UNCHANGED <<owner, tx, counted, walCredit, walHistory, daemon>>
      BY <1>5 DEF LoadRebuilds
    <2>2. \A v \in Vertices : Recovered(v) => tx[v] = "live"
      BY DEF Recovered, Live
    <2> HIDE DEF again
    <2>3. InRange(f, tx)
      BY <2>2 DEF InRange, Within, Types, Amounts, Recoveries
    <2> HIDE DEF f
    <2> QED BY <1>2, <2>1, <2>3 DEF Types, Amounts
  <1>6. ASSUME NEW l \in Loads, LoadSettles(l) PROVE Amounts'
    <2>1. /\ walCredit' = load[l].sums /\ walHistory' \subseteq Vertices
          /\ UNCHANGED <<owner, tx, credit, counted, daemon>>
      BY <1>6 DEF LoadSettles, Types, Amounts
    <2> QED BY <1>2, <2>1 DEF Types, Amounts
  <1>7. ASSUME NEW v \in Vertices, NEW voids \in BOOLEAN, DaemonOpens(v, voids) PROVE Amounts'
    BY <1>2, <1>7 DEF DaemonOpens, tables, Types, Amounts
  <1>8. CASE DaemonRollsBack
    BY <1>2, <1>8 DEF DaemonRollsBack, tables, NoEvent, Types, Amounts
  <1>9. \/ UNCHANGED <<owner, tx, credit, counted, walCredit, walHistory, daemon>>
        \/ \E l \in Loads : LoadClaims(l) \/ LoadRebuilds(l) \/ LoadSettles(l)
        \/ \E v \in Vertices, voids \in BOOLEAN : DaemonOpens(v, voids)
        \/ \E outcome \in {"none", "unowned", "recovered", "failed"} : DaemonAccepts(outcome)
        \/ DaemonVoids \/ DaemonRollsBack
    BY DEF Next, vars, tables, RequestReads, RequestCreates, RequestAttaches, RequestRetries, InvokeFails,
           RequestDies, RequestInvokes, LoadReads, LoadDerives, LoadSweeps, LoadReturns, LoadFails,
           LoadCrashes, loadWalletFailed
  <1> QED BY <1>3, <1>4, <1>5, <1>6, <1>7, <1>8, <1>9, AcceptKeepsAmounts, VoidKeepsAmounts

(* Only the daemon adds to late, and a settle takes from it.               *)
LEMMA LateSteps ==
    ASSUME [Next]_vars
    PROVE  \/ UNCHANGED late
           \/ \E l \in Loads : LoadSettles(l)
           \/ \E outcome \in {"none", "unowned", "recovered", "failed"} : DaemonAccepts(outcome)
           \/ DaemonVoids
  BY DEF Next, vars, tables, RequestReads, RequestCreates, RequestAttaches, RequestRetries, InvokeFails,
         RequestDies, RequestInvokes, LoadReads, LoadDerives, LoadClaims, LoadSweeps, LoadRebuilds, LoadLocks,
         LoadReturns, LoadFails, LoadCrashes, loadWalletFailed, DaemonOpens, DaemonRollsBack

LEMMA LateKept ==
    ASSUME Types, [Next]_vars
    PROVE  LateAre'
  <1>1. ASSUME NEW outcome, DaemonAccepts(outcome) PROVE daemon.vertex \in Vertices /\ late' \subseteq late \cup {daemon.vertex}
    BY <1>1 DEF DaemonAccepts, Types, Amounts
  <1>2. ASSUME DaemonVoids PROVE daemon.vertex \in Vertices /\ late' \subseteq late \cup {daemon.vertex}
    BY <1>2 DEF DaemonVoids, Types, Amounts
  <1>3. ASSUME NEW l \in Loads, LoadSettles(l) PROVE late' \subseteq late
    BY <1>3 DEF LoadSettles
  <1> QED BY <1>1, <1>2, <1>3, LateSteps DEF Types, LateAre

LEMMA TypesStep == Types /\ [Next]_vars => Types'
  <1> SUFFICES ASSUME Types, [Next]_vars PROVE Types'
    OBVIOUS
  <1>1. Known' /\ Recoveries' /\ Capped' /\ CallsRest' /\ LateAre'
    BY StepFine, RecoveriesGo, CappedKept, CallsRestKept, LateKept DEF Types, Fine
  <1>2. CASE \A l \in Loads : ~LoadLocks(l)
    BY <1>1, <1>2, LoadsTidyKept, AmountsKept DEF Types
  <1>3. ASSUME NEW l \in Loads, LoadLocks(l) PROVE Types'
    <2>1. LoadsTidy' /\ (\A m \in Loads : InRange(load'[m].sums, tx)) /\ UNCHANGED <<tables, daemon>>
      BY <1>3, LocksTidy DEF LoadLocks
    <2> QED BY <1>1, <2>1 DEF Types, Amounts, tables
  <1> QED BY <1>2, <1>3

(* The rows and what lambdas remember keep their shape, a lambda at rest    *)
(* remembers nothing, and no vertex is credited or reversed twice: neither  *)
(* to its address, nor in a sum a load took, nor to the wallet.             *)
THEOREM LoadTypeCorrect == Spec => []TypeOK
  <1>1. Types => TypeOK
    BY TypesImply
  <1> QED BY <1>1, InitTypes, TypesStep, PTL DEF Spec

HIDE LoadAssumption

-----------------------------------------------------------------------------
(* What is ready waits for nobody, in an orderly system: no load runs      *)
(* again on a ready wallet, nor beside another one, and an ingest that     *)
(* read before the claim is done before the second sweep.                  *)

Orderly == {"again", "slowIngest"} \cap Allowed = {}
Attributable == isWalletAttributable(wallet)

(* One worker loads, and only a wallet that is not loaded.                 *)
Single ==
    /\ \A l, m \in Loads : Working(load[l]) /\ Working(load[m]) => l = m
    /\ Attributable => \A l \in Loads : ~Working(load[l])

(* What is left of what the daemon's transaction read: a load may since    *)
(* then have claimed the address, recovered the output and settled.        *)
Seen ==
    daemon.open =>
        /\ daemon.owned => owner[Pays[daemon.vertex]] = "owned"
        /\ daemon.attributable => /\ daemon.owned /\ wallet.status = "ready"
                                  /\ Shielded(daemon.vertex) => wallet.ct = "ready"
                                  /\ recovery[daemon.vertex] = "recovered" => daemon.recovered
        /\ daemon.recovered => daemon.owned /\ recovery[daemon.vertex] = "recovered"
        /\ daemon.adds \subseteq LegacyPath /\ (~daemon.owned => daemon.adds = {})

(* A shielded address is claimed with its keys only.                       *)
NoneShielded == \A v \in Vertices : Shielded(v) => owner[Pays[v]] # "owned"
LegacyOnly(j) == Working(j) /\ j.keys = NoKeys => NoneShielded /\ j.claims \subseteq LegacyPath
ShieldedLast ==
    /\ wallet.keys = NoKeys => NoneShielded
    /\ \A l \in Loads : LegacyOnly(load[l])

Outputs ==
    \A v \in Vertices : /\ ~Shielded(v) => recovery[v] = "none"
                        /\ recovery[v] = "recovered" => owner[Pays[v]] = "owned"
                        /\ tx[v] = "absent" => recovery[v] = "none"

(* The second sweep leaves none unowned, nor does the daemon after it.     *)
Clean == \A v \in Owned : Live(v) => recovery[v] # "unowned"
SweptAt == {"rebuild", "lock", "settle"}
Swept == Attributable \/ (\E l \in Loads : load[l].at \in SweptAt) => Clean /\ ~Outdated

Undisturbed == Single /\ Seen /\ ShieldedLast /\ Outputs /\ Swept

-----------------------------------------------------------------------------
(* The steps, by what they do to loads, the row and the tables.            *)

Tables == <<owner, tx, recovery, credit, counted, walCredit, walHistory, daemon, late>>
NoGain ==
    /\ wallet'.status = "ready" <=> wallet.status = "ready"
    /\ wallet'.ct = "ready" <=> wallet.ct = "ready"
    /\ Attributable' => Attributable
    /\ wallet'.keys = NoKeys => wallet.keys = NoKeys
(* Requests, and the ends of loads that settle nothing.                    *)
Aside ==
    /\ UNCHANGED Tables /\ NoGain
    /\ \A l \in Loads : load'[l] = load[l] \/ ~Working(load'[l])

OthersKept(l) == \A m \in Loads \ {l} : load'[m] = load[m]

LEMMA SameGain == ASSUME UNCHANGED wallet PROVE NoGain
  BY DEF NoGain, Attributable

(* Nothing becomes ready.                                                  *)
Lower(w, w2) ==
    /\ w2.status = "ready" => w.status = "ready"
    /\ w2.ct = "ready" => w.ct = "ready"

LEMMA FailuresLower ==
    ASSUME NEW w, RowOK(w), NEW alsoLegacy \in BOOLEAN
    PROVE  /\ Lower(w, markLegacyLoadError(w)) /\ Lower(w, markWalletLoadError(w, alsoLegacy))
           /\ Lower(w, pinLegacyLoadFailed(w)) /\ Lower(w, pinShieldedLoadFailed(w))
           /\ Lower(w, casWalletErrorToCreating(w))
  <1>1. w \in Row
    BY DEF RowOK
  <1> QED BY <1>1 DEF Row, Lower, markLegacyLoadError, markWalletLoadError, pinLegacyLoadFailed,
               pinShieldedLoadFailed, casWalletErrorToCreating

LEMMA CalmGain ==
    ASSUME Known, Forward(wallet, wallet'), Calm(wallet, wallet'), Lower(wallet, wallet')
    PROVE  NoGain
  BY DEF Known, Forward, Calm, Lower, NoGain, Attributable, isWalletAttributable, RowOK

LEMMA InvokeFailsGain ==
    ASSUME Known, NEW r \in Requests, InvokeFails(r) PROVE NoGain
  <1>1. RowOK(wallet)
    BY DEF Known
  <1>2. \/ wallet' = markLegacyLoadError(wallet)
        \/ wallet' = markWalletLoadError(wallet, ~call[r].wasReady)
    BY Zenon DEF InvokeFails
  <1> DEFINE alsoLegacy == ~call[r].wasReady
  <1>3. \/ wallet' = markLegacyLoadError(wallet)
        \/ wallet' = markWalletLoadError(wallet, alsoLegacy)
    BY <1>2
  <1>4. alsoLegacy \in BOOLEAN
    OBVIOUS
  <1> HIDE DEF alsoLegacy
  <1> QED BY <1>1, <1>3, <1>4, FailuresLower, LegacyMark, WalletMark, CalmGain

LEMMA LoadFailsGain ==
    ASSUME Known, NEW l \in Loads, LoadFails(l) PROVE NoGain
  <1> DEFINE alsoLegacy == ~load[l].wasReady
  <1>1. RowOK(wallet) /\ alsoLegacy \in BOOLEAN
    BY DEF Known
  <1>2. \/ wallet' = markLegacyLoadError(wallet)
        \/ wallet' = markWalletLoadError(wallet, alsoLegacy)
        \/ UNCHANGED wallet
    BY Zenon DEF LoadFails
  <1> HIDE DEF alsoLegacy
  <1> QED BY <1>1, <1>2, FailuresLower, LegacyMark, WalletMark, CalmGain, SameGain

LEMMA FailedGain ==
    ASSUME Known, NEW l \in Loads, loadWalletFailed(l) PROVE NoGain
  <1>1. RowOK(wallet)
    BY DEF Known
  <1>2. Forward(wallet, wallet') /\ Calm(wallet, wallet')
    BY FailedMoves
  <1>3. CASE wallet.keys = NoKeys
    <2>1. wallet' = pinLegacyLoadFailed(wallet)
      BY <1>3 DEF loadWalletFailed
    <2> QED BY <1>1, <1>2, <2>1, FailuresLower, CalmGain
  <1>4. CASE wallet.keys # NoKeys
    <2> DEFINE w1 == IF wallet.status # "ready" THEN pinLegacyLoadFailed(wallet) ELSE wallet
    <2>1. wallet' = pinShieldedLoadFailed(w1)
      BY <1>4 DEF loadWalletFailed
    <2>2. Forward(wallet, w1) /\ Lower(wallet, w1)
      <3>1. Lower(wallet, wallet)
        BY DEF Lower
      <3> QED BY <1>1, <3>1, SameRow, LegacyPin, FailuresLower
    <2> HIDE DEF w1
    <2>3. Lower(w1, wallet')
      BY <2>1, <2>2, FailuresLower DEF Forward
    <2>4. Lower(wallet, wallet')
      BY <2>2, <2>3 DEF Lower
    <2> QED BY <1>2, <2>4, CalmGain
  <1> QED BY <1>3, <1>4

LEMMA CreateGain ==
    ASSUME Known, NEW r \in Requests, RequestCreates(r) PROVE NoGain
  <1>1. RowOK(wallet) /\ CallKnown(call[r], wallet) /\ call[r].keys \in KeySets \cup {NoKeys}
    BY DEF Known, CallKnown, Call
  <1>2. CASE wallet.status = "absent" /\ wallet' = createWallet(call[r].keys)
    <2>1. /\ wallet = NoWallet /\ wallet'.status = "creating"
          /\ wallet'.ct \in {"none", "creating"}
      BY <1>1, <1>2 DEF RowOK, createWallet
    <2> QED BY <2>1 DEF NoGain, NoWallet, Attributable, isWalletAttributable
  <1> QED BY <1>2, SameGain DEF RequestCreates

LEMMA AttachGain ==
    ASSUME Known, NEW r \in Requests, RequestAttaches(r) PROVE NoGain
  <1>1. /\ wallet \in Row /\ RowOK(wallet) /\ call[r].keys # NoKeys
    BY DEF RequestAttaches, Known, CallKnown, RowOK
  <1>2. CASE wallet.keys = NoKeys /\ wallet' = registerWalletShieldedKeys(wallet, call[r].keys)
    <2>1. /\ wallet.ct = "none" /\ wallet'.status = wallet.status /\ wallet'.ct = "creating"
          /\ wallet'.keys # NoKeys
      BY <1>1, <1>2 DEF RowOK, Row, registerWalletShieldedKeys
    <2> QED BY <2>1 DEF NoGain, Attributable, isWalletAttributable
  <1> QED BY <1>2, SameGain DEF RequestAttaches

LEMMA RetryGain ==
    ASSUME Known, NEW r \in Requests, RequestRetries(r) PROVE NoGain
  <1>1. RowOK(wallet)
    BY DEF Known
  <1>2. wallet' = casWalletErrorToCreating(wallet) \/ UNCHANGED wallet
    BY DEF RequestRetries
  <1> QED BY <1>1, <1>2, RetryReopens, FailuresLower, CalmGain, SameGain

(* All that is not a phase, a settle or the daemon.                        *)
LEMMA AsideSteps ==
    ASSUME Types, [Next]_vars
    PROVE  \/ Aside
           \/ \E l \in Loads : \/ LoadReads(l) \/ LoadDerives(l) \/ LoadClaims(l) \/ LoadRebuilds(l)
                               \/ LoadLocks(l) \/ LoadSettles(l)
                               \/ \E failed \in SUBSET Vertices : LoadSweeps(l, failed)
           \/ Daemon
  <1>0. Known /\ LoadsTidy
    BY DEF Types
  <1>1. ASSUME UNCHANGED <<load, Tables>>, NoGain PROVE Aside
    BY <1>1 DEF Aside
  <1>2. ASSUME NEW l \in Loads, NEW place \in {"idle", "queued", "done", "dead"}, NEW k, NEW b,
               Moved(l, place, k, b), UNCHANGED Tables, NoGain
        PROVE  Aside
    <2>1. \A m \in Loads : m # l => load'[m] = load[m]
      BY <1>0, <1>2 DEF Moved, LoadGoes, LoadsTidy
    <2>2. ~Working(load'[l])
      BY <1>2 DEF Moved, Working
    <2> QED BY <1>2, <2>1, <2>2 DEF Aside
  <1>3. ASSUME NEW r \in Requests, NEW k \in KeySets \cup {NoKeys}, RequestReads(r, k) PROVE Aside
    BY <1>1, <1>3, SameGain DEF RequestReads, tables, Tables
  <1>4. ASSUME NEW r \in Requests, RequestDies(r) PROVE Aside
    BY <1>1, <1>4, SameGain DEF RequestDies, tables, Tables
  <1>5. ASSUME NEW r \in Requests,
               RequestCreates(r) \/ RequestAttaches(r) \/ RequestRetries(r) \/ InvokeFails(r)
        PROVE  Aside
    <2>1. UNCHANGED <<load, Tables>>
      BY <1>5 DEF RequestCreates, RequestAttaches, RequestRetries, InvokeFails, tables, Tables
    <2> QED BY <1>0, <1>1, <1>5, <2>1, CreateGain, AttachGain, RetryGain, InvokeFailsGain
  <1>6. ASSUME NEW r \in Requests, NEW l \in Loads, RequestInvokes(r, l) PROVE Aside
    BY <1>0, <1>2, <1>6, RequestInvokesFine, SameGain DEF RequestInvokes, tables, Tables
  <1>7. ASSUME NEW l \in Loads,
               LoadReturns(l) \/ LoadFails(l) \/ LoadCrashes(l) \/ loadWalletFailed(l)
        PROVE  Aside
    <2>1. UNCHANGED Tables
      BY <1>7 DEF LoadReturns, LoadFails, LoadCrashes, loadWalletFailed, tables, Tables
    <2>2. NoGain
      BY <1>0, <1>7, LoadFailsGain, FailedGain, SameGain DEF LoadReturns, LoadCrashes
    <2>3. \E place \in {"idle", "queued", "done", "dead"} : Moved(l, place, NoKeys, FALSE)
      BY <1>0, <1>7, FailsMoves, FailedMoves, CrashMoves, NoLoadMoves DEF LoadReturns
    <2> QED BY <1>2, <2>1, <2>2, <2>3
  <1>8. CASE UNCHANGED vars
    BY <1>1, <1>8, SameGain DEF vars, tables, Tables
  <1> QED BY <1>3, <1>4, <1>5, <1>6, <1>7, <1>8 DEF Next, Daemon

(* What a phase, or a settle, leaves in its load.                          *)
LEMMA LoadAt ==
    ASSUME Types, NEW l \in Loads
    PROVE  /\ load = [m \in Loads |-> load[m]]
           /\ load[l] \in LoadRec /\ LoadKnown(load[l], wallet)
           /\ ~Working(load[l]) => load[l].list = {} /\ load[l].keys = NoKeys
           /\ load[l].at # "claim" => load[l].claims = {}
  BY DEF Types, Known, LoadsTidy, Tidy, Working

LEMMA ReadsLeaves ==
    ASSUME Types, NEW l \in Loads, LoadReads(l)
    PROVE  /\ OthersKept(l) /\ UNCHANGED <<wallet, Tables>> /\ load[l].at = "queued"
           /\ load'[l].at = "derive" /\ load'[l].keys = wallet.keys
           /\ load'[l].claims = {} /\ load'[l].list = {} /\ load'[l].sums = load[l].sums
  BY LoadAt DEF LoadReads, OthersKept, tables, Tables, LoadRec, Working

LEMMA DerivesLeaves ==
    ASSUME Types, NEW l \in Loads, LoadDerives(l)
    PROVE  /\ OthersKept(l) /\ UNCHANGED <<wallet, Tables>> /\ load[l].at = "derive"
           /\ load'[l].at = "claim" /\ load'[l].keys = load[l].keys
           /\ load'[l].claims = Claims(load[l].keys) /\ load'[l].list = Window(NoKeys)
  BY LoadAt DEF LoadDerives, OthersKept, tables, Tables, LoadRec

ShieldedOwned == {a \in Addresses \ LegacyPath : owner[a] = "owned"}
LEMMA ClaimsLeaves ==
    ASSUME Types, NEW l \in Loads, LoadClaims(l)
    PROVE  /\ OthersKept(l) /\ load[l].at = "claim"
           /\ UNCHANGED <<wallet, tx, recovery, credit, counted, walCredit, walHistory, daemon, late>>
           /\ load'[l].at = IF load[l].keys = NoKeys THEN "lock" ELSE "sweep1"
           /\ load'[l].keys = load[l].keys /\ load'[l].claims = {}
           /\ load'[l].list = load[l].list \cup IF load[l].keys = NoKeys THEN {} ELSE ShieldedOwned'
           /\ owner' = [a \in Addresses |-> IF a \in load[l].claims THEN "owned" ELSE owner[a]]
  BY LoadAt DEF LoadClaims, OthersKept, LoadRec, ShieldedOwned, LegacyPath

LEMMA StepLeaves ==
    ASSUME Types, NEW l \in Loads, NEW place, Step(l, place)
    PROVE  OthersKept(l) /\ load'[l] = [load[l] EXCEPT !.at = place]
  BY LoadAt DEF Step, OthersKept, LoadRec

LEMMA SweepsLeaves ==
    ASSUME Types, NEW l \in Loads, NEW failed \in SUBSET Vertices, LoadSweeps(l, failed)
    PROVE  /\ OthersKept(l) /\ load[l].at \in {"sweep1", "sweep2"}
           /\ UNCHANGED <<wallet, owner, tx, credit, counted, walCredit, walHistory, daemon, late>>
           /\ load'[l].at = AfterSweep(load[l].at)
           /\ load[l].at = "sweep2" => "slowIngest" \in Allowed \/ ~Outdated
           /\ load'[l].keys = load[l].keys /\ load'[l].list = load[l].list
           /\ load'[l].claims = {} /\ load'[l].sums = load[l].sums
           /\ recovery' = [v \in Vertices |-> IF v \notin getShieldedOutputsToRecover THEN recovery[v]
                                              ELSE IF v \in failed THEN "failed" ELSE "recovered"]
  <1> DEFINE place == AfterSweep(load[l].at)
  <1>1. Step(l, place) /\ load[l].at \in {"sweep1", "sweep2"}
    BY DEF LoadSweeps
  <1> HIDE DEF place
  <1>2. OthersKept(l) /\ load'[l] = [load[l] EXCEPT !.at = place]
    BY <1>1, StepLeaves
  <1>3. load[l] \in LoadRec /\ load[l].claims = {}
    BY <1>1, LoadAt
  <1>4. load'[l].at = place /\ load'[l].keys = load[l].keys /\ load'[l].list = load[l].list
        /\ load'[l].claims = {} /\ load'[l].sums = load[l].sums
    BY <1>2, <1>3 DEF LoadRec
  <1> QED BY <1>1, <1>2, <1>4 DEF LoadSweeps, place

LEMMA RebuildsLeaves ==
    ASSUME Types, NEW l \in Loads, LoadRebuilds(l)
    PROVE  /\ OthersKept(l) /\ load[l].at = "rebuild" /\ load'[l].at = "lock"
           /\ UNCHANGED <<wallet, owner, tx, recovery, counted, walCredit, walHistory, daemon, late>>
           /\ load'[l].keys = load[l].keys /\ load'[l].list = load[l].list
           /\ load'[l].claims = {} /\ load'[l].sums = load[l].sums
  <1>1. Step(l, "lock") /\ load[l].at = "rebuild"
    BY DEF LoadRebuilds
  <1>2. OthersKept(l) /\ load'[l] = [load[l] EXCEPT !.at = "lock"]
    BY <1>1, StepLeaves
  <1>3. load[l] \in LoadRec /\ load[l].claims = {}
    BY <1>1, LoadAt
  <1> QED BY <1>1, <1>2, <1>3 DEF LoadRebuilds, LoadRec

TakenSums(l) == IF \E a \in load[l].list : RowExists(a)
                THEN [v \in Vertices |-> IF Pays[v] \in load[l].list THEN credit[v] ELSE 0]
                ELSE walCredit
LEMMA LocksLeaves ==
    ASSUME Types, NEW l \in Loads, LoadLocks(l)
    PROVE  /\ OthersKept(l) /\ load[l].at = "lock" /\ load'[l].at = "settle"
           /\ UNCHANGED <<wallet, Tables>> /\ ~Settling
           /\ load'[l].keys = load[l].keys /\ load'[l].list = load[l].list
           /\ load'[l].claims = {} /\ load'[l].sums = TakenSums(l)
  <1>1. load' = [load EXCEPT ![l].at = "settle", ![l].sums = TakenSums(l)] /\ load[l].at = "lock"
    BY DEF LoadLocks, TakenSums
  <1>2. OthersKept(l) /\ load'[l] = [load[l] EXCEPT !.at = "settle", !.sums = TakenSums(l)]
    BY <1>1, LoadAt DEF OthersKept
  <1>3. load[l] \in LoadRec /\ load[l].claims = {}
    BY <1>1, LoadAt
  <1> QED BY <1>1, <1>2, <1>3 DEF LoadLocks, LoadRec, tables, Tables

LEMMA SettlesLeaves ==
    ASSUME Types, NEW l \in Loads, LoadSettles(l)
    PROVE  /\ OthersKept(l) /\ load[l].at = "settle" /\ ~Working(load'[l])
           /\ UNCHANGED <<owner, tx, recovery, credit, counted, daemon>>
           /\ late' = {v \in late : ~Live(v)}
           /\ wallet.ct = "ready" => wallet'.ct = "ready"
           /\ load'[l].claims = {} /\ wallet'.status = "ready" /\ wallet'.keys = wallet.keys
           /\ walCredit' = load[l].sums
           /\ walHistory' = walHistory \cup {v \in Vertices : Live(v) /\ Pays[v] \in load[l].list /\ credit[v] = 1}
  <1>1. Moved(l, "done", NoKeys, FALSE) /\ wallet'.keys = wallet.keys
    BY SettlesMoves DEF Types
  <1>2. OthersKept(l) /\ ~Working(load'[l])
    BY <1>1, LoadAt DEF Moved, LoadGoes, OthersKept, Working
  <1>3. load'[l].claims = {}
    BY LoadAt DEF LoadSettles, NoLoad
  <1>4. wallet'.status = "ready"
    <2>1. /\ wallet \in Row /\ LoadKnown(load[l], wallet)
          /\ wallet' = Settled(wallet, load[l].keys, load[l].wasReady)
      BY Zenon DEF Types, Known, RowOK, LoadSettles, Settled
    <2>2. load[l].wasReady \in BOOLEAN /\ (load[l].wasReady => wallet.status = "ready")
      BY <2>1 DEF LoadKnown
    <2> QED BY <2>1, <2>2 DEF Settled, Row, updateWalletStatus, markWalletLoadReady
  <1>5. wallet.ct = "ready" => wallet'.ct = "ready"
    <2>1. /\ wallet \in Row
          /\ wallet' = Settled(wallet, load[l].keys, load[l].wasReady)
      BY Zenon DEF Types, Known, RowOK, LoadSettles, Settled
    <2> QED BY <2>1 DEF Settled, Row, updateWalletStatus, markWalletLoadReady
  <1> QED BY <1>1, <1>2, <1>3, <1>4, <1>5 DEF LoadSettles

-----------------------------------------------------------------------------
(* Every step leaves the others undisturbed.                               *)

LEMMA LegacyAddress ==
    ASSUME NEW v \in Vertices
    PROVE  Pays[v] \in Addresses /\ (Shielded(v) <=> Pays[v] \notin LegacyPath)
  BY LoadAssumption DEF Shielded, LegacyPath

LEMMA LegacyClaims == Claims(NoKeys) \subseteq LegacyPath
  BY DEF Claims, Window, Existing, LegacyPath

LEMMA AddsLegacy == \A v \in Vertices : NewAddresses(v) \subseteq LegacyPath
  <1> SUFFICES ASSUME NEW v \in Vertices PROVE NewAddresses(v) \subseteq LegacyPath
    OBVIOUS
  <1> DEFINE top == Max({-1} \cup {a[2] : a \in {b \in LegacyPath : owner[b] = "owned"}})
             missing == Gap - (top - Pays[v][2])
             some == owner[Pays[v]] = "owned" /\ ~Shielded(v) /\ missing > 0
  <1>1. NewAddresses(v) = IF some THEN {a \in LegacyPath : a[2] \in top + 1 .. top + missing} ELSE {}
    BY Zenon DEF NewAddresses
  <1> HIDE DEF top, missing, some
  <1> QED BY <1>1

LEMMA AddsOwned == \A v \in Vertices : owner[Pays[v]] # "owned" => NewAddresses(v) = {}
  <1> SUFFICES ASSUME NEW v \in Vertices, owner[Pays[v]] # "owned" PROVE NewAddresses(v) = {}
    OBVIOUS
  <1> DEFINE top == Max({-1} \cup {a[2] : a \in {b \in LegacyPath : owner[b] = "owned"}})
             missing == Gap - (top - Pays[v][2])
             new == {a \in LegacyPath : a[2] \in top + 1 .. top + missing}
  <1>1. NewAddresses(v) = IF owner[Pays[v]] = "owned" /\ ~Shielded(v) /\ missing > 0 THEN new ELSE {}
    BY Zenon DEF NewAddresses
  <1> HIDE DEF missing, new
  <1> QED BY <1>1

LEMMA InitUndisturbed == Init => Undisturbed
  <1> SUFFICES ASSUME Init PROVE Undisturbed
    OBVIOUS
  <1>1. /\ ~Attributable /\ \A l \in Loads : load[l].at = "idle"
    BY DEF Init, NoLoad, NoWallet, Attributable, isWalletAttributable
  <1>2. NoneShielded
    BY LegacyAddress DEF Init, NoneShielded
  <1>3. Single /\ ShieldedLast /\ Swept
    BY <1>1, <1>2 DEF Single, Working, ShieldedLast, LegacyOnly, Swept, SweptAt
  <1>4. Seen /\ Outputs
    BY DEF Init, Seen, NoEvent, Outputs
  <1> QED BY <1>3, <1>4 DEF Undisturbed

LEMMA AsideUndisturbed ==
    ASSUME Types, Undisturbed, Aside PROVE Undisturbed'
  <1>1. UNCHANGED <<owner, tx, recovery, daemon>> /\ NoGain
    BY DEF Aside, Tables
  <1>2. /\ NoneShielded' <=> NoneShielded 
        /\ Clean' <=> Clean
        /\ Outdated' <=> Outdated
    BY <1>1 DEF NoneShielded, Clean, Owned, Live, Outdated
  <1>3. Attributable' => Attributable /\ (wallet'.keys = NoKeys => wallet.keys = NoKeys)
        /\ (wallet.status = "ready" => wallet'.status = "ready")
    BY <1>1 DEF NoGain
  <1>4. \A l \in Loads : Working(load'[l]) => load'[l] = load[l] /\ Working(load[l])
    BY DEF Aside
  <1>5. Single'
    BY <1>1, <1>4 DEF Undisturbed, Single, NoGain
  <1>6. Seen'
    BY <1>1 DEF Undisturbed, Seen, NoGain
  <1>7. ShieldedLast'
    BY <1>1, <1>2, <1>4 DEF Undisturbed, ShieldedLast, LegacyOnly, NoGain
  <1>8. Outputs'
    BY <1>1 DEF Undisturbed, Outputs
  <1>9. Swept'
    <2>1. \A l \in Loads : load'[l].at \in SweptAt => load[l].at \in SweptAt
      BY <1>4 DEF Working, SweptAt
    <2> QED BY <1>1, <1>2, <2>1 DEF Undisturbed, Swept, NoGain
  <1> QED BY <1>5, <1>6, <1>7, <1>8, <1>9 DEF Undisturbed

(* A worker that goes on is the one that loads.                            *)
LEMMA StillSingle ==
    ASSUME Undisturbed, NEW l \in Loads, Working(load[l]), OthersKept(l)
    PROVE  /\ ~Attributable /\ \A m \in Loads \ {l} : ~Working(load[m]) /\ ~Working(load'[m])
           /\ ~Attributable' => Single'
  BY DEF Undisturbed, Single, OthersKept

LEMMA ReadsUndisturbed ==
    ASSUME Types, Undisturbed, Orderly, NEW l \in Loads, LoadReads(l) PROVE Undisturbed'
  <1>1. /\ OthersKept(l) /\ UNCHANGED <<wallet, owner, tx, recovery, daemon>> /\ load[l].at = "queued"
        /\ load'[l].at = "derive" /\ load'[l].keys = wallet.keys /\ load'[l].claims = {}
    BY ReadsLeaves DEF Tables
  <1>2. ~Attributable /\ \A m \in Loads \ {l} : ~Working(load[m])
    BY DEF LoadReads, Orderly, ToBeLoaded, Attributable, Working
  <1>3. ~Attributable' /\ Single'
    BY <1>1, <1>2 DEF Single, OthersKept, Attributable
  <1>4. NoneShielded' <=> NoneShielded 
    BY <1>1 DEF NoneShielded
  <1>5. ShieldedLast'
    <2>1. LegacyOnly(load[l])'
      BY <1>1, <1>4 DEF Undisturbed, ShieldedLast, LegacyOnly
    <2>2. \A m \in Loads \ {l} : LegacyOnly(load[m])'
      BY <1>1, <1>2 DEF LegacyOnly, OthersKept
    <2> QED BY <1>1, <1>4, <2>1, <2>2 DEF Undisturbed, ShieldedLast
  <1>6. Seen' /\ Outputs'
    BY <1>1 DEF Undisturbed, Seen, Outputs, Attributable
  <1>7. Swept'
    BY <1>1, <1>2, <1>3 DEF Swept, SweptAt, OthersKept, Working
  <1> QED BY <1>3, <1>5, <1>6, <1>7 DEF Undisturbed

LEMMA DerivesUndisturbed ==
    ASSUME Types, Undisturbed, NEW l \in Loads, LoadDerives(l) PROVE Undisturbed'
  <1>1. /\ OthersKept(l) /\ UNCHANGED <<wallet, owner, tx, recovery, daemon>> /\ load[l].at = "derive"
        /\ load'[l].at = "claim" /\ load'[l].keys = load[l].keys
        /\ load'[l].claims = Claims(load[l].keys)
    BY DerivesLeaves DEF Tables
  <1>2. ~Attributable /\ (\A m \in Loads \ {l} : ~Working(load[m])) /\ ~Attributable' /\ Single'
    BY <1>1, StillSingle DEF Working, Attributable
  <1>3. NoneShielded' <=> NoneShielded 
    BY <1>1 DEF NoneShielded
  <1>4. ShieldedLast'
    <2>1. LegacyOnly(load[l])'
      BY <1>1, <1>3, LegacyClaims DEF Undisturbed, ShieldedLast, LegacyOnly, Working
    <2>2. \A m \in Loads \ {l} : LegacyOnly(load[m])'
      BY <1>1, <1>2 DEF LegacyOnly, OthersKept
    <2> QED BY <1>1, <1>3, <2>1, <2>2 DEF Undisturbed, ShieldedLast
  <1>5. Seen' /\ Outputs'
    BY <1>1 DEF Undisturbed, Seen, Outputs, Attributable
  <1>6. Swept'
    BY <1>1, <1>2 DEF Swept, SweptAt, OthersKept, Working
  <1> QED BY <1>2, <1>4, <1>5, <1>6 DEF Undisturbed

LEMMA ClaimsUndisturbed ==
    ASSUME Types, Undisturbed, NEW l \in Loads, LoadClaims(l) PROVE Undisturbed'
  <1>1. /\ OthersKept(l) /\ UNCHANGED <<wallet, tx, recovery, daemon>> /\ load[l].at = "claim"
        /\ load'[l].at = IF load[l].keys = NoKeys THEN "lock" ELSE "sweep1"
        /\ load'[l].keys = load[l].keys /\ load'[l].claims = {}
        /\ owner' = [a \in Addresses |-> IF a \in load[l].claims THEN "owned" ELSE owner[a]]
    BY ClaimsLeaves
  <1>2. ~Attributable /\ (\A m \in Loads \ {l} : ~Working(load[m])) /\ ~Attributable' /\ Single'
    BY <1>1, StillSingle DEF Working, Attributable
  <1>3. load[l].keys = NoKeys => NoneShielded'
    <2>1. load[l].keys = NoKeys => NoneShielded /\ load[l].claims \subseteq LegacyPath
      BY <1>1 DEF Undisturbed, ShieldedLast, LegacyOnly, Working
    <2> QED BY <1>1, <2>1, LegacyAddress DEF NoneShielded
  <1>4. ShieldedLast'
    <2>1. wallet.keys = NoKeys => load[l].keys = NoKeys
      BY LoadAt DEF LoadKnown
    <2>2. \A m \in Loads \ {l} : LegacyOnly(load[m])'
      BY <1>1, <1>2 DEF LegacyOnly, OthersKept
    <2>3. LegacyOnly(load[l])'
      BY <1>1, <1>3 DEF LegacyOnly
    <2> QED BY <1>1, <1>3, <2>1, <2>2, <2>3 DEF ShieldedLast
  <1>5. \A a \in Addresses : owner[a] = "owned" => owner'[a] = "owned"
    BY <1>1
  <1>6. Seen' /\ Outputs'
    <2>1. daemon.open => daemon.vertex \in Vertices
      BY DEF Types, Amounts
    <2> QED BY <1>1, <1>5, <2>1, LegacyAddress DEF Undisturbed, Seen, Outputs, Attributable
  <1>7. Swept'
    <2>1. CASE load[l].keys = NoKeys
      <3>1. Clean'
        BY <1>3, <1>6, <2>1 DEF Clean, Owned, Outputs, NoneShielded
      <3>2. ~Outdated'
        <4>1. daemon'.open => daemon'.vertex \in Vertices
          BY <1>1 DEF Types, Amounts
        <4> QED BY <1>3, <2>1, <4>1 DEF Outdated, NoneShielded
      <3> QED BY <3>1, <3>2 DEF Swept
    <2>2. CASE load[l].keys # NoKeys
      BY <1>1, <1>2, <2>2 DEF Swept, SweptAt, OthersKept, Working
    <2> QED BY <2>1, <2>2
  <1> QED BY <1>2, <1>4, <1>6, <1>7 DEF Undisturbed

(* The phases after the claim leave addresses and the daemon alone.        *)
LEMMA GoesOn ==
    ASSUME Types, Undisturbed, NEW l \in Loads, OthersKept(l), Working(load[l]), Working(load'[l]),
           UNCHANGED <<wallet, owner, tx, daemon>>,
           \A v \in Vertices : /\ recovery[v] = "recovered" => recovery'[v] = "recovered"
                               /\ ~Shielded(v) => recovery'[v] = recovery[v],
           load'[l].keys = load[l].keys, load'[l].claims = {}
    PROVE  Single' /\ Seen' /\ ShieldedLast' /\ ~Attributable'
  <1>1. ~Attributable /\ (\A m \in Loads \ {l} : ~Working(load[m])) /\ ~Attributable' /\ Single'
    BY StillSingle DEF Attributable
  <1>2. NoneShielded' <=> NoneShielded 
    BY DEF NoneShielded
  <1>3. ShieldedLast'
    <2>1. LegacyOnly(load[l])'
      BY <1>2 DEF Undisturbed, ShieldedLast, LegacyOnly
    <2>2. \A m \in Loads \ {l} : LegacyOnly(load[m])'
      BY <1>1 DEF LegacyOnly, OthersKept
    <2> QED BY <1>2, <2>1, <2>2 DEF Undisturbed, ShieldedLast
  <1>4. Seen'
    <2>1. wallet.ct # "ready"
      BY <1>1 DEF Types, Known, RowOK, Attributable, isWalletAttributable
    <2>2. daemon.open => daemon.vertex \in Vertices
      BY DEF Types, Amounts
    <2> QED BY <2>1, <2>2 DEF Undisturbed, Seen
  <1> QED BY <1>1, <1>3, <1>4

LEMMA SweepsUndisturbed ==
    ASSUME Types, Undisturbed, Orderly, NEW l \in Loads, NEW failed \in SUBSET Vertices, LoadSweeps(l, failed)
    PROVE  Undisturbed'
  <1>1. /\ OthersKept(l) /\ UNCHANGED <<wallet, owner, tx, daemon>>
        /\ load[l].at \in {"sweep1", "sweep2"} /\ load'[l].at \in {"sweep2", "rebuild"}
        /\ load'[l].at = "rebuild" => ~Outdated
        /\ load'[l].keys = load[l].keys /\ load'[l].claims = {}
        /\ recovery' = [v \in Vertices |-> IF v \notin getShieldedOutputsToRecover THEN recovery[v]
                                           ELSE IF v \in failed THEN "failed" ELSE "recovered"]
    BY SweepsLeaves DEF AfterSweep, Orderly
  <1>2. Single' /\ Seen' /\ ShieldedLast' /\ ~Attributable'
    <2>1. \A v \in Vertices : /\ recovery[v] = "recovered" => recovery'[v] = "recovered"
                              /\ ~Shielded(v) => recovery'[v] = recovery[v]
      BY <1>1 DEF getShieldedOutputsToRecover
    <2> QED BY <1>1, <2>1, GoesOn DEF Working
  <1>3. Outputs'
    BY <1>1 DEF Undisturbed, Outputs, getShieldedOutputsToRecover, Live
  <1>4. Clean'
    <2>1. \A v \in Vertices : recovery'[v] = "unowned" => /\ v \notin getShieldedOutputsToRecover
                                                       /\ recovery[v] = "unowned"
      BY <1>1
    <2>2. \A v \in Vertices : v \notin getShieldedOutputsToRecover /\ recovery[v] = "unowned" =>
                            owner[Pays[v]] # "owned" \/ ~Live(v)
      BY DEF Undisturbed, Outputs, getShieldedOutputsToRecover
    <2> QED BY <1>1, <2>1, <2>2 DEF Clean, Owned, Live
  <1>5. Swept'
    <2>1. \A m \in Loads : load'[m].at \in SweptAt => m = l /\ load'[l].at = "rebuild"
      BY <1>1, StillSingle DEF Working, SweptAt
    <2>2. Outdated' <=> Outdated
      BY <1>1 DEF Outdated
    <2> QED BY <1>1, <1>2, <1>4, <2>1, <2>2 DEF Swept
  <1> QED BY <1>2, <1>3, <1>5 DEF Undisturbed

LEMMA LaterUndisturbed ==
    ASSUME Types, Undisturbed, NEW l \in Loads, LoadRebuilds(l) \/ LoadLocks(l)
    PROVE  Undisturbed'
  <1>1. /\ OthersKept(l) /\ UNCHANGED <<wallet, owner, tx, recovery, daemon>>
        /\ load[l].at \in SweptAt /\ load'[l].at \in {"lock", "settle"}
        /\ load'[l].keys = load[l].keys /\ load'[l].claims = {}
    BY RebuildsLeaves, LocksLeaves DEF Tables, SweptAt
  <1>2. Single' /\ Seen' /\ ShieldedLast'
    BY <1>1, GoesOn DEF Working, SweptAt
  <1>3. Outputs'
    BY <1>1 DEF Undisturbed, Outputs
  <1>4. Clean' /\ ~Outdated'
    <2>1. Clean /\ ~Outdated
      BY <1>1 DEF Undisturbed, Swept
    <2> QED BY <1>1, <2>1 DEF Clean, Owned, Live, Outdated
  <1> QED BY <1>2, <1>3, <1>4 DEF Undisturbed, Swept

LEMMA SettlesUndisturbed ==
    ASSUME Types, Undisturbed, NEW l \in Loads, LoadSettles(l)
    PROVE  Undisturbed'
  <1>1. /\ OthersKept(l) /\ load[l].at = "settle" /\ ~Working(load'[l])
        /\ UNCHANGED <<owner, tx, recovery, daemon>> /\ wallet'.keys = wallet.keys
        /\ wallet'.status = "ready" /\ (wallet.ct = "ready" => wallet'.ct = "ready")
    BY SettlesLeaves
  <1>2. \A m \in Loads : ~Working(load'[m])
    BY <1>1, StillSingle DEF Working
  <1>3. Single' /\ Seen'
    BY <1>1, <1>2 DEF Undisturbed, Single, Seen
  <1>4. ShieldedLast'
    <2>1. NoneShielded' <=> NoneShielded
      BY <1>1 DEF NoneShielded
    <2> QED BY <1>1, <1>2, <2>1 DEF Undisturbed, ShieldedLast, LegacyOnly
  <1>5. Outputs'
    BY <1>1 DEF Undisturbed, Outputs
  <1>6. Clean' /\ ~Outdated'
    <2>1. Clean /\ ~Outdated
      BY <1>1 DEF Undisturbed, Swept, SweptAt
    <2> QED BY <1>1, <2>1 DEF Clean, Owned, Live, Outdated
  <1> QED BY <1>3, <1>4, <1>5, <1>6 DEF Undisturbed, Swept

LEMMA OpensUndisturbed ==
    ASSUME Types, Undisturbed, NEW v \in Vertices, NEW voids \in BOOLEAN, DaemonOpens(v, voids)
    PROVE  Undisturbed'
  <1>1. /\ UNCHANGED <<wallet, load, owner, tx, recovery>>
        /\ daemon'.vertex = v /\ daemon'.voids = voids
        /\ daemon'.attributable = (isWalletAttributable(wallet) /\ owner[Pays[v]] = "owned")
        /\ daemon'.owned = (owner[Pays[v]] = "owned")
        /\ daemon'.recovered = (recovery[v] = "recovered")
        /\ daemon'.adds = IF voids THEN {} ELSE NewAddresses(v)
    BY DEF DaemonOpens, tables
  <1>2. Single'
    BY <1>1 DEF Undisturbed, Single, Attributable
  <1>3. NoneShielded' <=> NoneShielded
    BY <1>1 DEF NoneShielded
  <1>4. ShieldedLast' /\ Outputs'
    BY <1>1, <1>3 DEF Undisturbed, ShieldedLast, LegacyOnly, Outputs
  <1>5. Seen'
    <2>1. Attributable /\ Shielded(v) /\ owner[Pays[v]] = "owned" => wallet.ct = "ready"
      BY DEF Types, Known, RowOK, Undisturbed, ShieldedLast, NoneShielded, Attributable, isWalletAttributable
    <2>2. recovery[v] = "recovered" => owner[Pays[v]] = "owned"
      BY DEF Undisturbed, Outputs
    <2> QED BY <1>1, <2>1, <2>2, AddsLegacy, AddsOwned DEF Seen, Attributable, isWalletAttributable
  <1>6. (Clean' <=> Clean) /\ ~Outdated'
    BY <1>1 DEF Clean, Owned, Live, Outdated
  <1>7. Swept'
    BY <1>1, <1>6 DEF Undisturbed, Swept, Attributable
  <1> QED BY <1>2, <1>4, <1>5, <1>7 DEF Undisturbed

LEMMA AcceptsLeaves ==
    ASSUME Types, Undisturbed, NEW outcome \in {"none", "unowned", "recovered", "failed"},
           DaemonAccepts(outcome)
    PROVE  /\ daemon.vertex \in Vertices /\ tx[daemon.vertex] = "absent" /\ ~daemon'.open
           /\ UNCHANGED <<wallet, load>> /\ daemon.open /\ ~daemon.voids /\ NotBlocked(daemon.vertex)
           /\ tx' = [tx EXCEPT ![daemon.vertex] = "live"]
           /\ recovery' = [recovery EXCEPT ![daemon.vertex] = outcome]
           /\ ~Shielded(daemon.vertex) => outcome = "none"
           /\ Shielded(daemon.vertex) => IF daemon.owned THEN outcome \in {"recovered", "failed"}
                                         ELSE outcome = "unowned"
           /\ owner' \in [Addresses -> {"none", "seen", "owned"}]
           /\ \A a \in Addresses : owner'[a] = "owned" <=> a \in daemon.adds \/ owner[a] = "owned"
           /\ owner'[Pays[daemon.vertex]] = "owned" <=> owner[Pays[daemon.vertex]] = "owned"
           /\ \A v \in Vertices : Shielded(v) => (owner'[Pays[v]] = "owned" <=> owner[Pays[v]] = "owned")
  <1> DEFINE u == daemon.vertex
  <1>1. /\ u \in Vertices /\ tx[u] = "absent" /\ daemon.open
        /\ daemon.owned => owner[Pays[u]] = "owned"
        /\ daemon.adds \subseteq LegacyPath /\ (~daemon.owned => daemon.adds = {})
    BY DEF DaemonAccepts, Types, Amounts, Undisturbed, Seen
  <1>2. /\ tx' = [tx EXCEPT ![u] = "live"] /\ recovery' = [recovery EXCEPT ![u] = outcome]
        /\ owner' = [a \in Addresses |-> IF a \in daemon.adds THEN "owned"
                                         ELSE IF a = Pays[u] /\ owner[a] = "none" THEN "seen"
                                         ELSE owner[a]]
        /\ outcome \in Outcomes(u) /\ ~daemon'.open /\ UNCHANGED <<wallet, load>>
        /\ ~daemon.voids /\ NotBlocked(u)
    BY DEF DaemonAccepts, NoEvent
  <1> HIDE DEF u
  <1>3. \A a \in Addresses : owner'[a] = "owned" <=> a \in daemon.adds \/ owner[a] = "owned"
    BY <1>2
  <1>4. owner' \in [Addresses -> {"none", "seen", "owned"}]
    BY <1>2 DEF Types, Amounts
  <1>5. owner'[Pays[u]] = "owned" <=> owner[Pays[u]] = "owned"
    BY <1>1, <1>3, LegacyAddress
  <1>6. \A v \in Vertices : Shielded(v) => (owner'[Pays[v]] = "owned" <=> owner[Pays[v]] = "owned")
    BY <1>1, <1>3, LegacyAddress
  <1>7. /\ ~Shielded(u) => outcome = "none"
        /\ Shielded(u) => IF daemon.owned THEN outcome \in {"recovered", "failed"}
                          ELSE outcome = "unowned"
    BY <1>2 DEF Outcomes
  <1> QED BY <1>1, <1>2, <1>3, <1>4, <1>5, <1>6, <1>7 DEF u

LEMMA AcceptsUndisturbed ==
    ASSUME Types, Undisturbed, NEW outcome \in {"none", "unowned", "recovered", "failed"},
           DaemonAccepts(outcome)
    PROVE  Undisturbed'
  <1> DEFINE u == daemon.vertex
  <1>1. /\ u \in Vertices /\ ~daemon'.open
        /\ UNCHANGED <<wallet, load>> /\ daemon.open
        /\ tx' = [tx EXCEPT ![u] = "live"]
        /\ recovery' = [recovery EXCEPT ![u] = outcome]
        /\ ~Shielded(u) => outcome = "none"
        /\ Shielded(u) => IF daemon.owned THEN outcome \in {"recovered", "failed"}
                          ELSE outcome = "unowned"
        /\ \A a \in Addresses : owner[a] = "owned" => owner'[a] = "owned"
        /\ owner'[Pays[u]] = "owned" <=> owner[Pays[u]] = "owned"
        /\ \A v \in Vertices : Shielded(v) => (owner'[Pays[v]] = "owned" <=> owner[Pays[v]] = "owned")
    BY AcceptsLeaves
  <1>2. tx \in [Vertices -> {"absent", "live", "voided"}] /\ DOMAIN recovery = Vertices
        /\ (daemon.owned => owner[Pays[u]] = "owned")
        /\ (Shielded(u) /\ ~daemon.owned /\ owner[Pays[u]] = "owned" => Outdated)
    BY <1>1 DEF DaemonAccepts, Types, Recoveries, Undisturbed, Seen, Outdated
  <1> HIDE DEF u
  <1>3. Single' /\ Seen'
    BY <1>1 DEF Undisturbed, Single, Attributable, Seen
  <1>4. NoneShielded' <=> NoneShielded
    BY <1>1 DEF NoneShielded
  <1>5. ShieldedLast'
    BY <1>1, <1>4 DEF Undisturbed, ShieldedLast, LegacyOnly
  <1>6. Outputs'
    <2>1. \A v \in Vertices : v # u => recovery'[v] = recovery[v] /\ tx'[v] = tx[v]
      BY <1>1, <1>2
    <2>2. recovery'[u] = outcome /\ tx'[u] = "live"
      BY <1>1, <1>2
    <2> QED BY <1>1, <1>2, <2>1, <2>2, LegacyAddress DEF Undisturbed, Outputs
  <1>7. Clean /\ ~Outdated => Clean' /\ ~Outdated'
    <2>0. ~Outdated'
      BY <1>1 DEF Outdated
    <2> SUFFICES ASSUME Clean, ~Outdated, NEW v \in Vertices, owner'[Pays[v]] = "owned", tx'[v] = "live",
                        recovery'[v] = "unowned"
                 PROVE  FALSE
      BY <2>0 DEF Clean, Owned, Live
    <2>1. CASE v = u
      BY <1>1, <1>2, <2>1
    <2>2. CASE v # u
      <3>1. recovery[v] = "unowned" /\ tx[v] = "live"
        BY <1>1, <1>2, <2>2
      <3>2. Shielded(v)
        BY <3>1 DEF Undisturbed, Outputs
      <3> QED BY <1>1, <3>1, <3>2 DEF Clean, Owned, Live
    <2> QED BY <2>1, <2>2
  <1>8. Swept'
    BY <1>1, <1>7 DEF Undisturbed, Swept, Attributable
  <1> QED BY <1>3, <1>5, <1>6, <1>8 DEF Undisturbed

LEMMA VoidsUndisturbed ==
    ASSUME Types, Undisturbed, DaemonVoids PROVE Undisturbed'
  <1>1. /\ UNCHANGED <<wallet, load, owner, recovery>> /\ daemon.vertex \in Vertices
        /\ tx' = [tx EXCEPT ![daemon.vertex] = "voided"] /\ ~daemon'.open
    BY DEF DaemonVoids, NoEvent, Types, Amounts
  <1>2. \A v \in Vertices : tx'[v] \in {tx[v], "voided"}
    BY <1>1 DEF Types, Recoveries
  <1>3. Single' /\ Seen'
    BY <1>1 DEF Undisturbed, Single, Attributable, Seen
  <1>4. NoneShielded' <=> NoneShielded
    BY <1>1 DEF NoneShielded
  <1>5. ShieldedLast' /\ Outputs'
    BY <1>1, <1>2, <1>4 DEF Undisturbed, ShieldedLast, LegacyOnly, Outputs
  <1>6. (Clean => Clean') /\ ~Outdated'
    BY <1>1, <1>2 DEF Clean, Owned, Live, Outdated
  <1>7. Swept'
    BY <1>1, <1>6 DEF Undisturbed, Swept, Attributable
  <1> QED BY <1>3, <1>5, <1>7 DEF Undisturbed

LEMMA RollsBackUndisturbed ==
    ASSUME Types, Undisturbed, DaemonRollsBack PROVE Undisturbed'
  <1>1. UNCHANGED <<wallet, load, owner, tx, recovery>> /\ ~daemon'.open
    BY DEF DaemonRollsBack, NoEvent, tables
  <1>2. /\ NoneShielded' <=> NoneShielded
        /\ Clean' <=> Clean
        /\ ~Outdated'
    BY <1>1 DEF NoneShielded, Clean, Owned, Live, Outdated
  <1> QED BY <1>1, <1>2 DEF Undisturbed, Single, Seen, ShieldedLast, LegacyOnly, Outputs, Swept, Attributable

LEMMA UndisturbedStep ==
    ASSUME Orderly, Types, Undisturbed, [Next]_vars PROVE Undisturbed'
  BY AsideSteps, AsideUndisturbed, ReadsUndisturbed, DerivesUndisturbed, ClaimsUndisturbed,
     SweepsUndisturbed, LaterUndisturbed, SettlesUndisturbed, OpensUndisturbed,
     AcceptsUndisturbed, VoidsUndisturbed, RollsBackUndisturbed DEF Daemon

(* What is ready has no output that still waits to be rewound, whatever    *)
(* fails and whenever the daemon reads and ingests the vertices, on either *)
(* side of the claim, the sweeps and the settle: as long as no load runs   *)
(* again on a ready wallet, or beside another, and no ingest that read     *)
(* before the claim outlasts the second sweep.                             *)
THEOREM NoneWaits == Orderly /\ Spec => []NothingUnowned
  <1> SUFFICES ASSUME Orderly PROVE Spec => []NothingUnowned
    OBVIOUS
  <1>1. Undisturbed => NothingUnowned
    BY DEF Undisturbed, Swept, Clean, NothingUnowned, Attributable
  <1>2. Init => Types /\ Undisturbed
    BY InitTypes, InitUndisturbed
  <1>3. Types /\ Undisturbed /\ [Next]_vars => Types' /\ Undisturbed'
    BY TypesStep, UndisturbedStep
  <1> QED BY <1>1, <1>2, <1>3, PTL DEF Spec

-----------------------------------------------------------------------------
(* Induction over the subsets of a finite set, and sums over it. *)

(* Induction over the subsets of a finite set, with the property as a set.  *)
LEMMA SubsetInduction ==
    ASSUME NEW S, IsFiniteSet(S), NEW Good,
           ASSUME NEW T \in SUBSET S, \A U \in SUBSET T : U # T => U \in Good
           PROVE  T \in Good
    PROVE  S \in Good
  <1> DEFINE Bad == {T \in SUBSET S : T \notin Good}
             R == StrictSubsetOrdering(S)
  <1>1. IsWellFoundedOn(R, SUBSET S)
    BY FS_StrictSubsetOrderingWellFounded, FS_FiniteSubsetsOfFinite
  <1>2. \A T, U : T \in SUBSET S /\ U \in SUBSET T /\ U # T => <<U, T>> \in R
    BY DEF StrictSubsetOrdering
  <1> SUFFICES ASSUME Bad # {} PROVE FALSE
    OBVIOUS
  <1>3. PICK T \in Bad : \A U \in Bad : ~(<<U, T>> \in R)
    <2> HIDE DEF R, Bad
    <2>1. Bad \subseteq SUBSET S
      BY DEF Bad
    <2> QED
      BY <1>1, <2>1, WFMin
  <1>4. ASSUME NEW U \in SUBSET T, U # T
        PROVE  U \in Good
    <2>1. T \in SUBSET S /\ U \in SUBSET S
      OBVIOUS
    <2>2. <<U, T>> \in R
      BY <1>2, <1>4, <2>1
    <2> HIDE DEF R
    <2> QED
      BY <1>3, <2>1, <2>2
  <1> QED
    BY <1>3, <1>4

(* The member that SumFunctionOnSet takes first.                            *)
Pick(S) == CHOOSE x \in S : TRUE

(* g holds the running sums of f over the subsets of S.                     *)
Runs(g, f, S) ==
    g = [s \in SUBSET S |-> IF s = {} THEN 0 ELSE f[Pick(s)] + g[s \ {Pick(s)}]]

(* The sum is the value at S of a function that unfolds it.                 *)
LEMMA SumIsRun ==
    ASSUME NEW f, NEW S
    PROVE  SumFunctionOnSet(f, S) = (CHOOSE g : Runs(g, f, S))[S]
  BY DEF SumFunctionOnSet, FoldFunctionOnSet, MapThenFoldSet, Runs, Pick

(* The element the sum takes next belongs to the set.                       *)
LEMMA PickIn ==
    ASSUME NEW S, S # {}
    PROVE  Pick(S) \in S
  BY DEF Pick

(* Two functions that unfold a sum agree, by induction over the subsets.    *)
LEMMA RunsAgree ==
    ASSUME NEW S, IsFiniteSet(S), NEW f, NEW g, NEW h, NEW T, S \subseteq T, Runs(g, f, S), Runs(h, f, T)
    PROVE  g[S] = h[S]
  <1> DEFINE Good == {s \in SUBSET S : g[s] = h[s]}
  <1>1. ASSUME NEW s \in SUBSET S, \A u \in SUBSET s : u # s => u \in Good
        PROVE  s \in Good
    <2>1. /\ g[s] = IF s = {} THEN 0 ELSE f[Pick(s)] + g[s \ {Pick(s)}]
          /\ h[s] = IF s = {} THEN 0 ELSE f[Pick(s)] + h[s \ {Pick(s)}]
      BY DEF Runs
    <2>2. s # {} => s \ {Pick(s)} \in Good
      <3> SUFFICES ASSUME s # {} PROVE s \ {Pick(s)} \in Good
        OBVIOUS
      <3>1. Pick(s) \in s
        BY PickIn
      <3> QED
        BY <1>1, <3>1
    <2> QED
      BY <2>1, <2>2
  <1> HIDE DEF Good
  <1>2. S \in Good
    BY <1>1, SubsetInduction
  <1> QED
    BY <1>2 DEF Good

(* There is one for every finite set.                                       *)
LEMMA RunExists ==
    ASSUME NEW S, IsFiniteSet(S), NEW f
    PROVE  \E g : Runs(g, f, S)
  <1> DEFINE Good == {T \in SUBSET S : \E g : Runs(g, f, T)}
  <1>1. ASSUME NEW T \in SUBSET S, \A U \in SUBSET T : U # T => U \in Good
        PROVE  T \in Good
    <2> DEFINE G(s) == CHOOSE g : Runs(g, f, s)
               v(s) == IF s = {} THEN 0 ELSE f[Pick(s)] + G(s \ {Pick(s)})[s \ {Pick(s)}]
               g == [s \in SUBSET T |-> v(s)]
    <2>1. \A U \in SUBSET T : U # T => Runs(G(U), f, U)
      BY <1>1
    <2>2. \A U \in SUBSET T : U # T => G(U)[U] = v(U)
      <3> SUFFICES ASSUME NEW U \in SUBSET T, U # T PROVE G(U)[U] = v(U)
        OBVIOUS
      <3>1. Runs(G(U), f, U)
        BY <2>1
      <3>2. G(U)[U] = IF U = {} THEN 0 ELSE f[Pick(U)] + G(U)[U \ {Pick(U)}]
        <4> HIDE DEF G
        <4> QED
          BY <3>1 DEF Runs
      <3>3. CASE U = {}
        BY <3>2, <3>3
      <3>4. CASE U # {}
        <4> DEFINE W == U \ {Pick(U)}
        <4>1. Pick(U) \in U
          BY <3>4, PickIn
        <4>2. W \in SUBSET T /\ W # T /\ W \subseteq U
          BY <4>1
        <4>3. Runs(G(W), f, W)
          BY <4>2, <2>1
        <4>4. IsFiniteSet(W)
          BY <4>2, FS_Subset
        <4> HIDE DEF G, W
        <4>5. G(W)[W] = G(U)[W]
          BY <3>1, <4>2, <4>3, <4>4, RunsAgree
        <4> QED
          BY <3>2, <3>4, <4>5 DEF W
      <3> QED
        BY <3>3, <3>4
    <2>3. g = [s \in SUBSET T |-> IF s = {} THEN 0 ELSE f[Pick(s)] + g[s \ {Pick(s)}]]
      <3>1. ASSUME NEW s \in SUBSET T
            PROVE  v(s) = IF s = {} THEN 0 ELSE f[Pick(s)] + g[s \ {Pick(s)}]
        <4> SUFFICES ASSUME s # {} PROVE v(s) = f[Pick(s)] + g[s \ {Pick(s)}]
          OBVIOUS
        <4> DEFINE W == s \ {Pick(s)}
        <4>1. Pick(s) \in s
          BY PickIn
        <4>2. W \in SUBSET T /\ W # T
          BY <4>1
        <4>3. G(W)[W] = v(W)
          <5> HIDE DEF G, v, W
          <5> QED
            BY <2>2, <4>2
        <4>4. g[W] = v(W)
          <5> HIDE DEF v, W
          <5> QED
            BY <4>2
        <4>5. v(s) = f[Pick(s)] + G(W)[W]
          OBVIOUS
        <4> HIDE DEF v, g, G
        <4> QED
          BY <4>3, <4>4, <4>5
      <3>2. g = [s \in SUBSET T |-> v(s)]
        OBVIOUS
      <3> HIDE DEF v, g
      <3> QED
        BY <3>1, <3>2
    <2>4. Runs(g, f, T)
      <3> HIDE DEF g
      <3> QED
        BY <2>3 DEF Runs
    <2> QED
      BY <2>4
  <1> HIDE DEF Good
  <1>2. S \in Good
    BY <1>1, SubsetInduction
  <1> QED
    BY <1>2 DEF Good

(* One unfolding of a sum: what every other fact on sums rests on.          *)
LEMMA SumStep ==
    ASSUME NEW S, IsFiniteSet(S), NEW f
    PROVE  SumFunctionOnSet(f, S) = IF S = {} THEN 0 ELSE f[Pick(S)] + SumFunctionOnSet(f, S \ {Pick(S)})
  <1> DEFINE g == CHOOSE r : Runs(r, f, S)
             T == S \ {Pick(S)}
             h == CHOOSE r : Runs(r, f, T)
  <1>1. Runs(g, f, S) /\ IsFiniteSet(T) /\ T \subseteq S
    BY RunExists, FS_Subset
  <1>2. Runs(h, f, T)
    BY <1>1, RunExists
  <1>3. SumFunctionOnSet(f, S) = g[S] /\ SumFunctionOnSet(f, T) = h[T]
    BY SumIsRun
  <1> HIDE DEF g, h
  <1>4. h[T] = g[T]
    BY <1>1, <1>2, RunsAgree
  <1>5. g[S] = IF S = {} THEN 0 ELSE f[Pick(S)] + g[T]
    BY <1>1 DEF Runs
  <1> QED
    BY <1>3, <1>4, <1>5

(* Induction by one element at a time.                                      *)
LEMMA InsertInduction ==
    ASSUME NEW S, IsFiniteSet(S), NEW Good, {} \in Good,
           ASSUME NEW T \in SUBSET S, NEW x \in T, T \ {x} \in Good
           PROVE  T \in Good
    PROVE  S \in Good
  <1>1. ASSUME NEW T \in SUBSET S, \A U \in SUBSET T : U # T => U \in Good
        PROVE  T \in Good
    <2>1. CASE T = {}
      BY <2>1
    <2>2. CASE T # {}
      <3>1. PICK x \in T : TRUE
        BY <2>2
      <3>2. T \ {x} \in SUBSET T /\ T \ {x} # T
        OBVIOUS
      <3>3. T \ {x} \in Good
        BY <1>1, <3>2
      <3> QED
        BY <3>3
    <2> QED
      BY <2>1, <2>2
  <1> QED
    BY <1>1, SubsetInduction

(* Sums: of nothing,                                                        *)
LEMMA SumEmpty ==
    ASSUME NEW f
    PROVE  SumFunctionOnSet(f, {}) = 0
  BY SumStep, FS_EmptySet

(* of integers,                                                             *)
LEMMA SumType ==
    ASSUME NEW S, IsFiniteSet(S), NEW f, \A x \in S : f[x] \in Int
    PROVE  SumFunctionOnSet(f, S) \in Int
  <1> DEFINE Good == {T \in SUBSET S : SumFunctionOnSet(f, T) \in Int}
  <1>1. ASSUME NEW T \in SUBSET S, \A U \in SUBSET T : U # T => U \in Good
        PROVE  T \in Good
    <2>1. CASE T = {}
      BY <2>1, SumEmpty
    <2>2. CASE T # {}
      <3> DEFINE U == T \ {Pick(T)}
      <3>1. Pick(T) \in T /\ U \in SUBSET T /\ U # T /\ IsFiniteSet(T)
        BY <2>2, PickIn, FS_Subset
      <3>2. SumFunctionOnSet(f, U) \in Int /\ f[Pick(T)] \in Int
        BY <1>1, <3>1
      <3>3. SumFunctionOnSet(f, T) = f[Pick(T)] + SumFunctionOnSet(f, U)
        BY <2>2, <3>1, SumStep
      <3> QED
        BY <3>2, <3>3
    <2> QED
      BY <2>1, <2>2
  <1> HIDE DEF Good
  <1>2. S \in Good
    BY <1>1, SubsetInduction
  <1> QED
    BY <1>2 DEF Good

(* with any element taken out first,                                        *)
LEMMA SumRemove ==
    ASSUME NEW S, IsFiniteSet(S), NEW f, \A x \in S : f[x] \in Int, NEW y \in S
    PROVE  SumFunctionOnSet(f, S) = f[y] + SumFunctionOnSet(f, S \ {y})
  <1> DEFINE Good == {T \in SUBSET S : \A x \in T : SumFunctionOnSet(f, T) = f[x] + SumFunctionOnSet(f, T \ {x})}
  <1>1. ASSUME NEW T \in SUBSET S, \A U \in SUBSET T : U # T => U \in Good, NEW x \in T
        PROVE  SumFunctionOnSet(f, T) = f[x] + SumFunctionOnSet(f, T \ {x})
    <2> DEFINE p == Pick(T)
               A == T \ {p}
               B == T \ {x}
               C == T \ {x, p}
    <2>1. p \in T /\ IsFiniteSet(T) /\ T # {}
      BY PickIn, FS_Subset
    <2>2. SumFunctionOnSet(f, T) = f[p] + SumFunctionOnSet(f, A)
      BY <2>1, SumStep
    <2>3. CASE x = p
      BY <2>2, <2>3
    <2>4. CASE x # p
      <3>1. A \in Good /\ B \in Good /\ x \in A /\ p \in B /\ A \ {x} = C /\ B \ {p} = C
        BY <1>1, <2>1, <2>4
      <3>2. C \in SUBSET S /\ IsFiniteSet(C) /\ \A z \in C : f[z] \in Int
        BY FS_Subset
      <3>3. SumFunctionOnSet(f, C) \in Int
        BY <3>2, SumType
      <3>4. SumFunctionOnSet(f, A) = f[x] + SumFunctionOnSet(f, C) /\ SumFunctionOnSet(f, B) = f[p] + SumFunctionOnSet(f, C)
        <4> HIDE DEF p, A, B, C
        <4> QED
          BY <3>1
      <3>5. f[x] \in Int /\ f[p] \in Int
        BY <2>1
      <3> HIDE DEF p, A, C
      <3> QED
        BY <2>2, <3>3, <3>4, <3>5 DEF B
    <2> QED
      BY <2>3, <2>4
  <1>2. ASSUME NEW T \in SUBSET S, \A U \in SUBSET T : U # T => U \in Good
        PROVE  T \in Good
    BY <1>1, <1>2
  <1> HIDE DEF Good
  <1>3. S \in Good
    BY <1>2, SubsetInduction
  <1> QED
    BY <1>3 DEF Good

(* A sum depends on the terms only.                                         *)
LEMMA SumSame ==
    ASSUME NEW S, IsFiniteSet(S), NEW f, NEW g,
           \A x \in S : f[x] \in Int, \A x \in S : f[x] = g[x]
    PROVE  SumFunctionOnSet(f, S) = SumFunctionOnSet(g, S)
  <1> DEFINE Good == {T \in SUBSET S : SumFunctionOnSet(f, T) = SumFunctionOnSet(g, T)}
  <1>1. {} \in Good
    BY SumEmpty
  <1>2. ASSUME NEW T \in SUBSET S, NEW x \in T, T \ {x} \in Good
        PROVE  T \in Good
    <2>1. IsFiniteSet(T)
      BY FS_Subset
    <2>2. SumFunctionOnSet(f, T) = f[x] + SumFunctionOnSet(f, T \ {x}) /\ SumFunctionOnSet(g, T) = g[x] + SumFunctionOnSet(g, T \ {x})
      BY <2>1, SumRemove
    <2> QED
      BY <1>2, <2>2
  <1> HIDE DEF Good
  <1>3. S \in Good
    BY <1>1, <1>2, InsertInduction
  <1> QED
    BY <1>3 DEF Good

(* of naturals,                                                             *)
LEMMA SumNat ==
    ASSUME NEW S, IsFiniteSet(S), NEW f, \A x \in S : f[x] \in Nat
    PROVE  SumFunctionOnSet(f, S) \in Nat
  <1> DEFINE Good == {T \in SUBSET S : SumFunctionOnSet(f, T) \in Nat}
  <1>1. {} \in Good
    BY SumEmpty
  <1>2. ASSUME NEW T \in SUBSET S, NEW x \in T, T \ {x} \in Good
        PROVE  T \in Good
    <2>1. IsFiniteSet(T) /\ \A z \in T : f[z] \in Int
      BY FS_Subset
    <2>2. SumFunctionOnSet(f, T) = f[x] + SumFunctionOnSet(f, T \ {x})
      BY <2>1, SumRemove
    <2> QED
      BY <1>2, <2>2
  <1> HIDE DEF Good
  <1>3. S \in Good
    BY <1>1, <1>2, InsertInduction
  <1> QED
    BY <1>3 DEF Good

(* over a part and the rest,                                                *)
LEMMA SumUnion ==
    ASSUME NEW S, IsFiniteSet(S), NEW f, \A x \in S : f[x] \in Int, NEW A \in SUBSET S
    PROVE  SumFunctionOnSet(f, S) = SumFunctionOnSet(f, A) + SumFunctionOnSet(f, S \ A)
  <1> DEFINE Good == {T \in SUBSET A : SumFunctionOnSet(f, S) = SumFunctionOnSet(f, T) + SumFunctionOnSet(f, S \ T)}
  <1>0. IsFiniteSet(A) /\ SumFunctionOnSet(f, S) \in Int
    BY FS_Subset, SumType
  <1>1. {} \in Good
    BY <1>0, SumEmpty
  <1>2. ASSUME NEW T \in SUBSET A, NEW x \in T, T \ {x} \in Good
        PROVE  T \in Good
    <2> DEFINE U == T \ {x}
               V == S \ U
               W == S \ T
    <2>1. /\ IsFiniteSet(T) /\ IsFiniteSet(U) /\ IsFiniteSet(V) /\ IsFiniteSet(W)
          /\ T \subseteq S /\ x \in V /\ V \ {x} = W
      BY <1>0, FS_Subset
    <2>2. SumFunctionOnSet(f, T) = f[x] + SumFunctionOnSet(f, U)
      BY <2>1, SumRemove
    <2>3. SumFunctionOnSet(f, V) = f[x] + SumFunctionOnSet(f, W)
      BY <2>1, SumRemove
    <2>4. SumFunctionOnSet(f, S) = SumFunctionOnSet(f, U) + SumFunctionOnSet(f, V)
      BY <1>2
    <2>5. f[x] \in Int /\ SumFunctionOnSet(f, U) \in Int /\ SumFunctionOnSet(f, V) \in Int /\ SumFunctionOnSet(f, W) \in Int
      BY <2>1, SumType
    <2>6. SumFunctionOnSet(f, S) = SumFunctionOnSet(f, T) + SumFunctionOnSet(f, W)
      <3> HIDE DEF U, V, W
      <3> QED
        BY <2>2, <2>3, <2>4, <2>5
    <2> QED
      BY <2>6
  <1> HIDE DEF Good
  <1>3. A \in Good
    BY <1>0, <1>1, <1>2, InsertInduction
  <1> QED
    BY <1>3 DEF Good

(* with one term changed,                                                  *)
LEMMA SumChange ==
    ASSUME NEW S, IsFiniteSet(S), NEW f, NEW g, \A x \in S : f[x] \in Int /\ g[x] \in Int,
           NEW y \in S, \A x \in S : x # y => g[x] = f[x]
    PROVE  SumFunctionOnSet(g, S) = SumFunctionOnSet(f, S) + g[y] - f[y]
  <1> DEFINE T == S \ {y}
  <1>1. /\ SumFunctionOnSet(f, S) = f[y] + SumFunctionOnSet(f, T)
        /\ SumFunctionOnSet(g, S) = g[y] + SumFunctionOnSet(g, T)
    BY SumRemove
  <1>2. IsFiniteSet(T) /\ \A x \in T : f[x] \in Int /\ f[x] = g[x]
    BY FS_Subset
  <1> HIDE DEF T
  <1>3. SumFunctionOnSet(f, T) = SumFunctionOnSet(g, T) /\ SumFunctionOnSet(f, T) \in Int
    BY <1>2, SumSame, SumType
  <1> QED BY <1>1, <1>3

(* never less than a part of it,                                           *)
LEMMA SumMore ==
    ASSUME NEW S, IsFiniteSet(S), NEW f, NEW g,
           \A x \in S : f[x] \in Int /\ g[x] \in Int /\ f[x] <= g[x]
    PROVE  SumFunctionOnSet(f, S) <= SumFunctionOnSet(g, S)
  <1> DEFINE Good == {T \in SUBSET S : SumFunctionOnSet(f, T) <= SumFunctionOnSet(g, T)}
  <1>1. {} \in Good
    BY SumEmpty
  <1>2. ASSUME NEW T \in SUBSET S, NEW x \in T, T \ {x} \in Good
        PROVE  T \in Good
    <2> DEFINE U == T \ {x}
    <2>1. IsFiniteSet(T) /\ IsFiniteSet(U) /\ f[x] \in Int /\ g[x] \in Int /\ f[x] <= g[x]
      BY FS_Subset
    <2>2. /\ SumFunctionOnSet(f, T) = f[x] + SumFunctionOnSet(f, U)
          /\ SumFunctionOnSet(g, T) = g[x] + SumFunctionOnSet(g, U)
      BY <2>1, SumRemove
    <2>3. SumFunctionOnSet(f, U) \in Int /\ SumFunctionOnSet(g, U) \in Int
      BY <2>1, SumType
    <2>4. SumFunctionOnSet(f, U) <= SumFunctionOnSet(g, U)
      BY <1>2
    <2> HIDE DEF U
    <2> QED BY <2>1, <2>2, <2>3, <2>4
  <1> HIDE DEF Good
  <1>3. S \in Good
    BY <1>1, <1>2, InsertInduction
  <1> QED BY <1>3 DEF Good

LEMMA SumZero ==
    ASSUME NEW S, IsFiniteSet(S), NEW f, \A x \in S : f[x] = 0
    PROVE  SumFunctionOnSet(f, S) = 0
  <1> DEFINE Good == {T \in SUBSET S : SumFunctionOnSet(f, T) = 0}
  <1>1. {} \in Good
    BY SumEmpty
  <1>2. ASSUME NEW T \in SUBSET S, NEW x \in T, T \ {x} \in Good
        PROVE  T \in Good
    <2>1. IsFiniteSet(T) /\ \A z \in T : f[z] \in Int
      BY FS_Subset
    <2>2. SumFunctionOnSet(f, T) = f[x] + SumFunctionOnSet(f, T \ {x})
      BY <2>1, SumRemove
    <2> QED BY <1>2, <2>2
  <1> HIDE DEF Good
  <1>3. S \in Good
    BY <1>1, <1>2, InsertInduction
  <1> QED BY <1>3 DEF Good

LEMMA SumAtLeast ==
    ASSUME NEW S, IsFiniteSet(S), NEW f, \A x \in S : f[x] \in Nat, NEW y \in S
    PROVE  SumFunctionOnSet(f, S) \in Nat /\ SumFunctionOnSet(f, S) >= f[y]
  <1>1. SumFunctionOnSet(f, S) = f[y] + SumFunctionOnSet(f, S \ {y})
    BY SumRemove
  <1>2. SumFunctionOnSet(f, S \ {y}) \in Nat /\ SumFunctionOnSet(f, S) \in Nat
    <2>1. IsFiniteSet(S \ {y})
      BY FS_Subset
    <2> QED BY <2>1, SumNat
  <1> QED BY <1>1, <1>2

(* and by address.                                                         *)
PaidIn(S) == S \subseteq Vertices /\ \A v \in S : PaidTo(Pays[v]) \subseteq S

LEMMA SumByAddress ==
    ASSUME NEW S, PaidIn(S), NEW f, NEW g,
           \A v \in Vertices : f[v] \in Int /\ g[v] \in Int,
           \A v \in S : SumFunctionOnSet(f, PaidTo(Pays[v])) = SumFunctionOnSet(g, PaidTo(Pays[v]))
    PROVE  SumFunctionOnSet(f, S) = SumFunctionOnSet(g, S)
  <1> DEFINE Good == {T \in SUBSET S : PaidIn(T) => SumFunctionOnSet(f, T) = SumFunctionOnSet(g, T)}
  <1>0. IsFiniteSet(S)
    BY FS_Subset, LoadAssumption DEF PaidIn
  <1>1. ASSUME NEW T \in SUBSET S, \A U \in SUBSET T : U # T => U \in Good
        PROVE  T \in Good
    <2> SUFFICES ASSUME PaidIn(T), T # {} PROVE SumFunctionOnSet(f, T) = SumFunctionOnSet(g, T)
      BY SumEmpty
    <2>1. PICK v \in T : TRUE
      OBVIOUS
    <2> DEFINE A == PaidTo(Pays[v])
               U == T \ A
    <2>2. v \in A /\ A \in SUBSET T /\ T \subseteq Vertices
      BY DEF PaidIn, PaidTo
    <2>3. U \in SUBSET T /\ U # T /\ PaidIn(U)
      <3>1. ASSUME NEW w \in U, NEW x \in PaidTo(Pays[w]) PROVE x \in U
        BY <3>1 DEF PaidIn, PaidTo
      <3> QED BY <2>2, <3>1 DEF PaidIn
    <2>4. SumFunctionOnSet(f, U) = SumFunctionOnSet(g, U)
      <3> HIDE DEF U
      <3> QED BY <1>1, <2>3
    <2>5. SumFunctionOnSet(f, A) = SumFunctionOnSet(g, A)
      OBVIOUS
    <2>6. IsFiniteSet(T) /\ \A x \in T : f[x] \in Int /\ g[x] \in Int
      BY <1>0, <2>2, FS_Subset
    <2> HIDE DEF A
    <2>7. /\ SumFunctionOnSet(f, T) = SumFunctionOnSet(f, A) + SumFunctionOnSet(f, U)
          /\ SumFunctionOnSet(g, T) = SumFunctionOnSet(g, A) + SumFunctionOnSet(g, U)
      BY <2>2, <2>6, SumUnion
    <2> QED BY <2>4, <2>5, <2>7
  <1> HIDE DEF Good
  <1>2. S \in Good
    BY <1>0, <1>1, SubsetInduction
  <1> QED BY <1>2 DEF Good

(* Over the vertices, of terms that are zero outside a part.               *)
LEMMA SumOfPart ==
    ASSUME NEW S \in SUBSET Vertices, NEW f, NEW g, \A v \in S : f[v] \in Int /\ g[v] = f[v],
           \A v \in Vertices \ S : g[v] = 0
    PROVE  SumFunctionOnSet(g, Vertices) = SumFunctionOnSet(f, S)
  <1> DEFINE R == Vertices \ S
  <1>1. IsFiniteSet(Vertices) /\ IsFiniteSet(S) /\ IsFiniteSet(R)
    BY FS_Subset, LoadAssumption
  <1>2. SumFunctionOnSet(g, Vertices) = SumFunctionOnSet(g, S) + SumFunctionOnSet(g, R)
    BY <1>1, SumUnion
  <1>3. SumFunctionOnSet(g, R) = 0
    BY <1>1, SumZero
  <1>4. SumFunctionOnSet(f, S) = SumFunctionOnSet(g, S)
    BY <1>1, SumSame
  <1>5. SumFunctionOnSet(g, S) \in Int
    BY <1>1, SumType
  <1> QED BY <1>2, <1>3, <1>4, <1>5

(* The rows of addresses when one vertex changes.                          *)
LEMMA RowsChange ==
    ASSUME NEW f, NEW g, \A v \in Vertices : f[v] \in Int /\ g[v] \in Int, NEW u \in Vertices,
           \A v \in Vertices : v # u => g[v] = f[v], NEW a
    PROVE  SumFunctionOnSet(g, PaidTo(a)) =
               SumFunctionOnSet(f, PaidTo(a)) + IF a = Pays[u] THEN g[u] - f[u] ELSE 0
  <1>1. IsFiniteSet(PaidTo(a)) /\ PaidTo(a) \subseteq Vertices /\ (u \in PaidTo(a) <=> a = Pays[u])
    BY FS_Subset, LoadAssumption DEF PaidTo
  <1>2. CASE a = Pays[u]
    <2>1. SumFunctionOnSet(g, PaidTo(a)) = SumFunctionOnSet(f, PaidTo(a)) + g[u] - f[u]
      BY <1>1, <1>2, SumChange
    <2>2. SumFunctionOnSet(f, PaidTo(a)) \in Int /\ g[u] \in Int /\ f[u] \in Int
      BY <1>1, SumType
    <2> QED BY <1>2, <2>1, <2>2
  <1>3. CASE a # Pays[u]
    <2>1. SumFunctionOnSet(f, PaidTo(a)) = SumFunctionOnSet(g, PaidTo(a))
      BY <1>1, <1>3, SumSame
    <2>2. SumFunctionOnSet(f, PaidTo(a)) \in Int
      BY <1>1, SumType
    <2> QED BY <1>3, <2>1, <2>2
  <1> QED BY <1>2, <1>3

-----------------------------------------------------------------------------
(* What is ready has the sum of its addresses, but for what is late.       *)
(* Voids start outside of upgrades, and while a load has its list,         *)
(* transparent outputs are paid to addresses on it.                        *)

Plain == Orderly /\ "voidInUpgrade" \notin Allowed

Past == {"sweep1", "sweep2", "rebuild", "lock", "settle"}
WithinList ==
    \A v \in Vertices, l \in Loads :
        ~Shielded(v) /\ ~Live(v) /\ Live(v)' /\ load[l].at \in Past \cup {"claim"} =>
            Pays[v] \in load[l].list

(* An address that was paid has a row.                                     *)
Traced == \A v \in Vertices : tx[v] # "absent" => owner[Pays[v]] # "none"
(* The list a load sums is what the wallet owns and anybody pays.          *)
Lists(j) == \A v \in Vertices : ~Shielded(v) /\ tx[v] = "live" => Pays[v] \in j.list
ListsOwned(j) ==
    \A v \in Vertices : /\ Pays[v] \in j.list => v \in Owned
                        /\ Shielded(v) /\ v \in Owned => Pays[v] \in j.list
CoveredBy(j) ==
    /\ j.at = "claim" => j.list \subseteq j.claims \cap LegacyPath /\ Lists(j)
    /\ j.at \in Past => Lists(j) /\ ListsOwned(j)
Covered == Traced /\ \A l \in Loads : CoveredBy(load[l])

(* No row has more than its live outputs add to it, and none of them adds  *)
(* more than it is worth,                                                  *)
RowWorth(a) == SumFunctionOnSet(Worth, PaidTo(a))
Kept == [v \in Vertices |-> IF Live(v) THEN credit[v] ELSE 0]
RowKept(a) == SumFunctionOnSet(Kept, PaidTo(a))
Rows ==
    \A v \in Vertices : /\ ~Shielded(v) => credit[v] = Worth[v]
                        /\ Kept[v] <= Worth[v]
                        /\ RowCredit(Pays[v]) \in 0 .. RowKept(Pays[v])

(* and those of the wallet, once they are rebuilt, no less.                *)
Exact == \A v \in Owned : /\ RowCredit(Pays[v]) = RowWorth(Pays[v])
                          /\ Worth[v] = 1 => credit[v] = 1
Rebuilt == Attributable \/ (\E l \in Loads : load[l].at \in {"lock", "settle"}) => Exact

(* Before the shielded side is ready, the wallet has transparent outputs   *)
(* only, and those only if its legacy side is.                             *)
Transparent ==
    \A v \in Vertices : /\ walCredit[v] \in 0 .. Worth[v]
                        /\ Shielded(v) \/ wallet.status # "ready" \/ v \notin Owned => walCredit[v] = 0
Announced ==
    daemon.open /\ daemon.voids /\ daemon.attributable /\ daemon.vertex \notin late =>
        walCredit[daemon.vertex] = 1
NotYetShielded == wallet.ct # "ready" => Transparent /\ Announced

(* What a void leaves in the wallet was not there when its transaction     *)
(* read.                                                                   *)
Uncredited ==
    daemon.open /\ daemon.voids /\ ~daemon.attributable =>
        ~daemon.credited \/ (wallet.ct = "ready" /\ daemon.vertex \notin Owned)

(* What a settle is about to write stays what its addresses are worth.     *)
SettlesWorth(j) ==
    j.at = "settle" =>
        /\ SumFunctionOnSet(j.sums, Vertices) = SumFunctionOnSet(Worth, Owned)
        /\ \A v \in Owned : Worth[v] = 1 => j.sums[v] = 1
        /\ \A v \in Vertices : /\ ~Shielded(v) => j.sums[v] = Worth[v]
                               /\ Shielded(v) /\ j.keys = NoKeys /\ wallet.ct # "ready" => j.sums[v] = 0
Settles == \A l \in Loads : SettlesWorth(load[l])

(* A wallet that is ready has every output but the late ones, and, when    *)
(* none is, the sum.                                                       *)
Credited ==
    Attributable => \A v \in Owned : Worth[v] = 1 /\ v \notin late => walCredit[v] = 1 /\ v \in walHistory
Summed == Attributable /\ late = {} => WalletTotal = SumFunctionOnSet(Worth, Owned)

Accounted == Covered /\ Rows /\ Rebuilt /\ NotYetShielded /\ Uncredited /\ Settles /\ Credited /\ Summed

(* No void was late: what is late waits for the next settle only.          *)
Timely == \A v \in late : tx[v] # "voided"

-----------------------------------------------------------------------------
(* Amounts, and what they are worth.                                       *)

LEMMA AmountsAre ==
    ASSUME Types
    PROVE  /\ credit \in [Vertices -> Int] /\ walCredit \in [Vertices -> Int]
           /\ tx \in [Vertices -> {"absent", "live", "voided"}]
           /\ recovery \in [Vertices -> {"none", "unowned", "recovered", "failed"}]
           /\ IsFiniteSet(Vertices) /\ Owned \subseteq Vertices /\ walHistory \subseteq Vertices
           /\ owner \in [Addresses -> {"none", "seen", "owned"}]
           /\ \A v \in Vertices : tx[v] = "absent" => credit[v] = 0 /\ walCredit[v] = 0
           /\ \A v \in Vertices : tx[v] = "live" => credit[v] \in 0 .. 1 /\ walCredit[v] \in 0 .. 1
           /\ \A l \in Loads : load[l].sums \in [Vertices -> Int]
  BY LoadAssumption DEF Types, Amounts, InRange, Within, Recoveries, Owned

LEMMA WorthIs ==
    /\ DOMAIN Worth = Vertices /\ Worth \in [Vertices -> Nat]
    /\ \A v \in Vertices : Worth[v] \in {0, 1}
    /\ \A v \in Vertices : Worth[v] = 1 <=> tx[v] = "live" /\ (~Shielded(v) \/ recovery[v] = "recovered")
  BY DEF Worth, Live

LEMMA WorthNext ==
    /\ DOMAIN Worth' = Vertices /\ Worth' \in [Vertices -> Nat]
    /\ \A v \in Vertices : Worth'[v] \in {0, 1}
    /\ \A v \in Vertices : Worth'[v] = 1 <=> tx'[v] = "live" /\ (~Shielded(v) \/ recovery'[v] = "recovered")
  BY DEF Worth, Live

LEMMA PaidToIs ==
    ASSUME NEW a
    PROVE  PaidTo(a) \subseteq Vertices /\ IsFiniteSet(PaidTo(a))
  BY FS_Subset, LoadAssumption DEF PaidTo

LEMMA OwnedByAddress == PaidIn(Owned)
  BY DEF PaidIn, Owned, PaidTo

(* Rebuilt rows sum to what the outputs are worth.                         *)
LEMMA ExactSums ==
    ASSUME Types, Exact
    PROVE  SumFunctionOnSet(credit, Owned) = SumFunctionOnSet(Worth, Owned)
  <1>1. \A v \in Vertices : credit[v] \in Int /\ Worth[v] \in Int
    BY AmountsAre, WorthIs
  <1>2. \A v \in Owned : SumFunctionOnSet(credit, PaidTo(Pays[v])) = SumFunctionOnSet(Worth, PaidTo(Pays[v]))
    BY DEF Exact, RowCredit, RowWorth
  <1> QED BY <1>1, <1>2, OwnedByAddress, SumByAddress

(* An address is shielded for all that pay it.                             *)
LEMMA SameAddress ==
    ASSUME NEW v \in Vertices, NEW w \in Vertices, Pays[v] = Pays[w]
    PROVE  (Shielded(v) <=> Shielded(w)) /\ (v \in Owned <=> w \in Owned)
  BY DEF Shielded, Owned

(* The rows of a transparent address are exact.                            *)
LEMMA TransparentRow ==
    ASSUME Types, Rows, NEW v \in Vertices, ~Shielded(v)
    PROVE  RowCredit(Pays[v]) = RowWorth(Pays[v]) /\ credit[v] = Worth[v]
  <1>1. \A w \in PaidTo(Pays[v]) : credit[w] = Worth[w] /\ credit[w] \in Int
    BY SameAddress, AmountsAre DEF PaidTo, Rows
  <1>2. RowCredit(Pays[v]) = RowWorth(Pays[v])
    BY <1>1, PaidToIs, SumSame DEF RowCredit, RowWorth
  <1> QED BY <1>2 DEF Rows

LEMMA KeptIs ==
    ASSUME Types
    PROVE  \A v \in Vertices : Kept[v] \in Nat /\ Kept[v] = IF tx[v] = "live" THEN credit[v] ELSE 0
  <1>1. \A v \in Vertices : tx[v] = "live" => credit[v] \in 0 .. 1
    BY AmountsAre
  <1> QED BY <1>1 DEF Kept, Live

(* No row has more than its outputs are worth.                             *)
LEMMA RowsAtMost ==
    ASSUME Types, Rows, NEW v \in Vertices
    PROVE  /\ RowCredit(Pays[v]) \in 0 .. RowWorth(Pays[v]) /\ RowWorth(Pays[v]) \in Nat
           /\ RowKept(Pays[v]) \in Nat /\ RowCredit(Pays[v]) \in 0 .. RowKept(Pays[v])
  <1>1. \A w \in PaidTo(Pays[v]) : /\ Kept[w] \in Int /\ Worth[w] \in Int /\ Kept[w] <= Worth[w]
                                    /\ Kept[w] \in Nat /\ Worth[w] \in Nat
    BY KeptIs, WorthIs, PaidToIs DEF Rows
  <1>2. /\ SumFunctionOnSet(Kept, PaidTo(Pays[v])) <= SumFunctionOnSet(Worth, PaidTo(Pays[v]))
        /\ SumFunctionOnSet(Kept, PaidTo(Pays[v])) \in Nat /\ SumFunctionOnSet(Worth, PaidTo(Pays[v])) \in Nat
    BY <1>1, PaidToIs, SumMore, SumNat
  <1> QED BY <1>2 DEF Rows, RowWorth, RowKept

(* A row is worth each of its outputs.                                     *)
LEMMA RowWorthAtLeast ==
    ASSUME NEW v \in Vertices
    PROVE  RowWorth(Pays[v]) \in Nat /\ RowWorth(Pays[v]) >= Worth[v]
  <1>1. v \in PaidTo(Pays[v]) /\ \A w \in PaidTo(Pays[v]) : Worth[w] \in Nat
    BY PaidToIs, WorthIs DEF PaidTo
  <1> QED BY <1>1, PaidToIs, SumAtLeast DEF RowWorth

LEMMA LargestIs ==
    ASSUME NEW V, IsFiniteSet(V), NEW f, \A v \in V : f[v] \in Int
    PROVE  \E x \in {-1} \cup {f[v] : v \in V} : \A y \in {-1} \cup {f[v] : v \in V} : x >= y
  <1> DEFINE Good == {T \in SUBSET V : \E x \in {-1} \cup {f[v] : v \in T} :
                                          \A y \in {-1} \cup {f[v] : v \in T} : x >= y}
  <1>1. {} \in Good
    OBVIOUS
  <1>2. ASSUME NEW T \in SUBSET V, NEW z \in T, T \ {z} \in Good
        PROVE  T \in Good
    <2>1. PICK x \in {-1} \cup {f[v] : v \in T \ {z}} :
              \A y \in {-1} \cup {f[v] : v \in T \ {z}} : x >= y
      BY <1>2
    <2>2. x \in Int /\ f[z] \in Int /\ x \in {-1} \cup {f[v] : v \in T}
      OBVIOUS
    <2>3. {-1} \cup {f[v] : v \in T} = {f[z]} \cup ({-1} \cup {f[v] : v \in T \ {z}})
      OBVIOUS
    <2>4. CASE x >= f[z]
      <3>1. \A y \in {-1} \cup {f[v] : v \in T} : x >= y
        BY <2>1, <2>3, <2>4
      <3> QED BY <2>2, <3>1
    <2>5. CASE ~(x >= f[z])
      <3>1. \A y \in {-1} \cup {f[v] : v \in T} : y \in Int
        OBVIOUS
      <3>2. \A y \in {-1} \cup {f[v] : v \in T} : f[z] >= y
        BY <2>1, <2>2, <2>3, <2>5, <3>1
      <3> QED BY <3>2
    <2> QED BY <2>4, <2>5
  <1> HIDE DEF Good
  <1>3. V \in Good
    BY <1>1, <1>2, InsertInduction
  <1> QED BY <1>3 DEF Good

LEMMA LastUsedIs ==
    \A path : /\ LastUsed(path) \in Int /\ LastUsed(path) >= -1
              /\ \A v \in Vertices : Live(v) /\ Pays[v][1] = path => LastUsed(path) >= Pays[v][2]
  <1> SUFFICES ASSUME NEW path
               PROVE  /\ LastUsed(path) \in Int /\ LastUsed(path) >= -1
                      /\ \A v \in Vertices : Live(v) /\ Pays[v][1] = path => LastUsed(path) >= Pays[v][2]
    OBVIOUS
  <1> DEFINE V == {x \in Vertices : Live(x) /\ Pays[x][1] = path}
             f == [v \in V |-> Pays[v][2]]
             S == {-1} \cup {f[v] : v \in V}
  <1>1. IsFiniteSet(V)
    BY FS_Subset, LoadAssumption
  <1>2. \A v \in V : f[v] \in Int
    BY LoadAssumption DEF Addresses
  <1>3. LastUsed(path) = Max(S)
    <2>1. S = {-1} \cup {Pays[v][2] : v \in V}
      OBVIOUS
    <2> QED BY <2>1, Zenon DEF LastUsed
  <1>7. -1 \in S /\ \A v \in Vertices : Live(v) /\ Pays[v][1] = path => Pays[v][2] \in S
    OBVIOUS
  <1> HIDE DEF V, f
  <1>4. S \subseteq Int
    BY <1>2
  <1>5. \E x \in S : \A y \in S : x >= y
    BY <1>1, <1>2, LargestIs
  <1>6. Max(S) \in S /\ \A y \in S : Max(S) >= y
    <2> HIDE DEF S
    <2> QED BY <1>5 DEF Max
  <1> HIDE DEF S
  <1> QED BY <1>3, <1>4, <1>6, <1>7

LEMMA WindowsClaimed ==
    /\ \A k : Window(NoKeys) \subseteq Claims(k) /\ Window(NoKeys) \subseteq LegacyPath
    /\ \A v \in Vertices : ~Shielded(v) /\ tx[v] = "live" => Pays[v] \in Window(NoKeys)
  <1>1. \A k : Window(NoKeys) \subseteq Claims(k) /\ Window(NoKeys) \subseteq LegacyPath
    BY DEF Claims, Window, LegacyPath
  <1>2. ASSUME NEW v \in Vertices, ~Shielded(v), tx[v] = "live" PROVE Pays[v] \in Window(NoKeys)
    <2>1. Pays[v] \in Addresses /\ Pays[v][1] = NoKeys /\ Pays[v][2] \in Int
      BY <1>2, LoadAssumption DEF Shielded, Addresses
    <2>2. LastUsed(NoKeys) \in Int /\ LastUsed(NoKeys) >= Pays[v][2] /\ Gap \in Nat
      BY <1>2, <2>1, LastUsedIs, LoadAssumption DEF Live
    <2>3. Pays[v][2] <= LastUsed(NoKeys) + Gap
      BY <2>1, <2>2
    <2> QED BY <2>1, <2>3 DEF Window
  <1> QED BY <1>1, <1>2

-----------------------------------------------------------------------------
(* Steps that leave the rows alone.                                        *)

LEMMA SameTables ==
    ASSUME UNCHANGED <<owner, tx, recovery, credit>>
    PROVE  /\ Worth' = Worth /\ Owned' = Owned
           /\ Rows' <=> Rows
           /\ Exact' <=> Exact
           /\ Traced' <=> Traced
  <1>1. Worth' = Worth /\ Owned' = Owned
    BY DEF Worth, Owned, Live
  <1>2. Kept' = Kept /\ \A a : /\ RowWorth(a)' = RowWorth(a) /\ RowCredit(a)' = RowCredit(a)
                               /\ RowKept(a)' = RowKept(a)
    BY <1>1 DEF RowWorth, RowCredit, RowKept, Kept, Live
  <1>3. Traced' <=> Traced
    BY DEF Traced
  <1> QED BY <1>1, <1>2, <1>3 DEF Rows, Exact

LEMMA SameWorth ==
    ASSUME UNCHANGED <<owner, tx, recovery, credit, walCredit, walHistory, late>>, Attributable' => Attributable
    PROVE  (Credited => Credited') /\ (Summed => Summed')
  <1>1. Worth' = Worth /\ Owned' = Owned
    BY SameTables
  <1> QED BY <1>1 DEF Credited, Summed, WalletTotal

(* The loads that go on, of those that were.                               *)
LEMMA SameLoads ==
    ASSUME UNCHANGED <<owner, tx, recovery, credit>>, NEW l \in Loads, Accounted,
           load'[l] = load[l] \/ ~Working(load'[l]),
           wallet'.ct = "ready" <=> wallet.ct = "ready"
    PROVE  CoveredBy(load[l])' /\ SettlesWorth(load[l])'
  <1>1. Worth' = Worth /\ Owned' = Owned
    BY SameTables
  <1>2. CASE load'[l] = load[l]
    BY <1>1, <1>2 DEF Accounted, Covered, CoveredBy, Lists, ListsOwned, Settles, SettlesWorth
  <1>3. CASE ~Working(load'[l])
    BY <1>3 DEF Working, CoveredBy, SettlesWorth, Past
  <1> QED BY <1>2, <1>3

LEMMA AsideAccounted ==
    ASSUME Types, Accounted, Aside PROVE Accounted'
  <1>1. UNCHANGED <<owner, tx, recovery, credit, walCredit, walHistory, daemon, late>> /\ NoGain
    BY DEF Aside, Tables
  <1>2. /\ Worth' = Worth /\ Owned' = Owned
        /\ Rows' <=> Rows
        /\ Exact' <=> Exact
        /\ Traced' <=> Traced
    BY <1>1, SameTables
  <1>3. \A l \in Loads : CoveredBy(load[l])' /\ SettlesWorth(load[l])'
    BY <1>1, SameLoads DEF Aside, NoGain
  <1>4. Covered' /\ Settles'
    BY <1>1, <1>2, <1>3 DEF Accounted, Covered, Settles, NoGain
  <1>5. Rebuilt'
    <2>1. \A l \in Loads : load'[l].at \in {"lock", "settle"} => load[l].at \in {"lock", "settle"}
      BY DEF Aside, Working
    <2> QED BY <1>1, <1>2, <2>1 DEF Accounted, Rebuilt, NoGain
  <1>6. NotYetShielded' /\ Uncredited'
    BY <1>1, <1>2 DEF Accounted, NotYetShielded, Transparent, Announced, Uncredited, NoGain
  <1>7. Credited' /\ Summed'
    BY <1>1, SameWorth DEF Accounted, NoGain
  <1> QED BY <1>2, <1>4, <1>5, <1>6, <1>7 DEF Accounted

(* A load that goes on leaves the row as it is, and is the only one.       *)
Goes(l) ==
    /\ OthersKept(l) /\ UNCHANGED wallet /\ ~Attributable
    /\ \A m \in Loads \ {l} : ~Working(load[m])

LEMMA OneGoes ==
    ASSUME NEW l \in Loads, Goes(l), Accounted, CoveredBy(load[l])', SettlesWorth(load[l])',
           Traced => Traced', Rows',
           load'[l].at \in {"lock", "settle"} => Exact',
           wallet.ct # "ready" => Transparent' /\ Announced',
           wallet.ct # "ready", UNCHANGED daemon
    PROVE  Accounted'
  <1>1. \A m \in Loads \ {l} : ~Working(load'[m])
    BY DEF Goes, OthersKept
  <1>2. \A m \in Loads \ {l} : CoveredBy(load[m])' /\ SettlesWorth(load[m])'
    BY <1>1 DEF Working, CoveredBy, SettlesWorth, Past
  <1>3. Covered' /\ Settles'
    BY <1>2 DEF Accounted, Covered, Settles, Goes
  <1>4. Rebuilt'
    <2>1. ~Attributable'
      BY DEF Goes, Attributable
    <2> QED BY <1>1, <2>1 DEF Rebuilt, Working
  <1>5. NotYetShielded' /\ Uncredited'
    BY DEF Accounted, NotYetShielded, Uncredited, Goes
  <1>6. Credited' /\ Summed'
    BY DEF Credited, Summed, Goes, Attributable
  <1> QED BY <1>3, <1>4, <1>5, <1>6 DEF Accounted

(* A load that loads is of a wallet whose shielded side is not ready.      *)
LEMMA NotReadyYet == ASSUME Types, ~Attributable PROVE wallet.ct # "ready"
  BY DEF Types, Known, RowOK, Attributable, isWalletAttributable

LEMMA WorkingGoes ==
    ASSUME Types, Undisturbed, NEW l \in Loads, Working(load[l]), OthersKept(l), UNCHANGED wallet
    PROVE  Goes(l) /\ wallet.ct # "ready"
  BY StillSingle, NotReadyYet DEF Goes

(* The amounts and the daemon are as they were.                            *)
LEMMA SameTransparent ==
    ASSUME Accounted, UNCHANGED <<wallet, tx, recovery, walCredit, daemon, late>>, Owned \subseteq Owned'
    PROVE  wallet.ct # "ready" => Transparent' /\ Announced'
  <1>1. Worth' = Worth
    BY DEF Worth, Live
  <1> QED BY <1>1 DEF Accounted, NotYetShielded, Transparent, Announced

LEMMA ReadsAccounted ==
    ASSUME Types, Undisturbed, Accounted, Orderly, NEW l \in Loads, LoadReads(l) PROVE Accounted'
  <1>1. /\ OthersKept(l) /\ UNCHANGED <<wallet, owner, tx, recovery, credit, walCredit, daemon, late>>
        /\ load'[l].at = "derive"
    BY ReadsLeaves DEF Tables
  <1>2. Goes(l) /\ wallet.ct # "ready"
    <2>1. Goes(l)
      BY <1>1 DEF LoadReads, Orderly, ToBeLoaded, Attributable, Working, Goes
    <2> QED BY <2>1, NotReadyYet DEF Goes
  <1>3. CoveredBy(load[l])' /\ SettlesWorth(load[l])'
    BY <1>1 DEF CoveredBy, SettlesWorth, Past
  <1>4. Rows' /\ Owned' = Owned /\ (Traced => Traced')
    BY <1>1, SameTables DEF Accounted
  <1> QED BY <1>1, <1>2, <1>3, <1>4, SameTransparent, OneGoes

LEMMA DerivesAccounted ==
    ASSUME Types, Undisturbed, Accounted, NEW l \in Loads, LoadDerives(l)
    PROVE  Accounted'
  <1>1. /\ OthersKept(l) /\ UNCHANGED <<wallet, owner, tx, recovery, credit, walCredit, daemon, late>>
        /\ load[l].at = "derive" /\ load'[l].at = "claim"
        /\ load'[l].claims = Claims(load[l].keys) /\ load'[l].list = Window(NoKeys)
    BY DerivesLeaves DEF Tables
  <1>2. Goes(l) /\ wallet.ct # "ready"
    BY <1>1, WorkingGoes DEF Working
  <1>3. CoveredBy(load[l])' /\ SettlesWorth(load[l])'
    BY <1>1, WindowsClaimed DEF CoveredBy, SettlesWorth, Past, Lists
  <1>4. Rows' /\ Owned' = Owned /\ (Traced => Traced')
    BY <1>1, SameTables DEF Accounted
  <1> QED BY <1>1, <1>2, <1>3, <1>4, SameTransparent, OneGoes

LEMMA ClaimsAccounted ==
    ASSUME Types, Undisturbed, Accounted, Undisturbed', NEW l \in Loads, LoadClaims(l)
    PROVE  Accounted'
  <1>1. /\ OthersKept(l) /\ UNCHANGED <<wallet, tx, recovery, credit, walCredit, daemon, late>>
        /\ load[l].at = "claim"
        /\ load'[l].at = IF load[l].keys = NoKeys THEN "lock" ELSE "sweep1"
        /\ load'[l].keys = load[l].keys
        /\ load'[l].list = load[l].list \cup IF load[l].keys = NoKeys THEN {} ELSE ShieldedOwned'
        /\ owner' = [a \in Addresses |-> IF a \in load[l].claims THEN "owned" ELSE owner[a]]
    BY ClaimsLeaves
  <1>2. Goes(l) /\ wallet.ct # "ready"
    BY <1>1, WorkingGoes DEF Working
  <1>3. load[l].list \subseteq load[l].claims \cap LegacyPath /\ Lists(load[l])
    BY <1>1 DEF Accounted, Covered, CoveredBy
  <1>4. \A v \in Vertices : Pays[v] \in load[l].list => owner'[Pays[v]] = "owned"
    BY <1>1, <1>3, LegacyAddress
  <1>5. Lists(load'[l]) /\ Owned \subseteq Owned' /\ (Traced => Traced')
    <2>1. \A a \in Addresses : owner[a] = "owned" => owner'[a] = "owned"
      BY <1>1
    <2>2. \A a \in Addresses : owner'[a] = "none" => owner[a] = "none"
      BY <1>1
    <2>3. \A v \in Vertices : Pays[v] \in Addresses
      BY LegacyAddress
    <2> QED BY <1>1, <1>3, <2>1, <2>2, <2>3 DEF Owned, Traced, Lists
  <1>6. load[l].keys = NoKeys => NoneShielded'
    BY <1>1 DEF Undisturbed, ShieldedLast, LegacyOnly, Working
  <1>7. \A v \in Vertices : /\ Pays[v] \in load'[l].list => v \in Owned'
                            /\ Shielded(v) /\ v \in Owned' => Pays[v] \in load'[l].list
    <2>1. \A v \in Vertices : ~Shielded(v) /\ Pays[v] \in load'[l].list => v \in Owned'
      <3>1. \A v \in Vertices : ~Shielded(v) /\ Pays[v] \in load'[l].list => Pays[v] \in load[l].list
        BY <1>1, LegacyAddress DEF ShieldedOwned
      <3> QED BY <1>4, <3>1 DEF Owned
    <2>2. ASSUME NEW v \in Vertices, Shielded(v)
          PROVE  v \in Owned' <=> Pays[v] \in load'[l].list
      <3>1. Pays[v] \in Addresses \ LegacyPath /\ Pays[v] \notin load[l].list
        BY <1>3, <2>2, LegacyAddress
      <3>2. CASE load[l].keys = NoKeys
        BY <1>1, <1>6, <2>2, <3>1, <3>2 DEF NoneShielded, Owned
      <3>3. CASE load[l].keys # NoKeys
        BY <1>1, <3>1, <3>3 DEF ShieldedOwned, Owned
      <3> QED BY <3>2, <3>3
    <2> QED BY <2>1, <2>2
  <1>8. CoveredBy(load[l])' /\ SettlesWorth(load[l])'
    <2>1. Lists(load[l])' /\ ListsOwned(load[l])'
      BY <1>1, <1>5, <1>7 DEF Lists, ListsOwned
    <2> QED BY <1>1, <2>1 DEF CoveredBy, SettlesWorth
  <1>9. /\ Worth' = Worth /\ Kept' = Kept
        /\ \A a : RowCredit(a)' = RowCredit(a) /\ RowWorth(a)' = RowWorth(a) /\ RowKept(a)' = RowKept(a)
    BY <1>1 DEF Worth, Kept, Live, RowCredit, RowWorth, RowKept
  <1>10. Rows'
    BY <1>1, <1>9 DEF Accounted, Rows
  <1>11. load'[l].at \in {"lock", "settle"} => Exact'
    <2> SUFFICES ASSUME load[l].keys = NoKeys PROVE Exact'
      BY <1>1
    <2>1. \A v \in Owned' : v \in Vertices /\ ~Shielded(v)
      BY <1>6 DEF Owned, NoneShielded
    <2>2. \A v \in Owned' : RowCredit(Pays[v]) = RowWorth(Pays[v]) /\ credit[v] = Worth[v]
      BY <2>1, TransparentRow DEF Accounted
    <2> QED BY <1>1, <1>9, <2>2 DEF Exact
  <1> QED BY <1>1, <1>2, <1>5, <1>8, <1>10, <1>11, SameTransparent, OneGoes

LEMMA SweepsAccounted ==
    ASSUME Types, Undisturbed, Accounted, NEW l \in Loads, NEW failed \in SUBSET Vertices,
           LoadSweeps(l, failed)
    PROVE  Accounted'
  <1>1. /\ OthersKept(l) /\ UNCHANGED <<wallet, owner, tx, credit, walCredit, daemon>>
        /\ load[l].at \in {"sweep1", "sweep2"} /\ load'[l].at \in {"sweep2", "rebuild"}
        /\ load'[l].list = load[l].list /\ UNCHANGED late
        /\ recovery' = [v \in Vertices |-> IF v \notin getShieldedOutputsToRecover THEN recovery[v]
                                           ELSE IF v \in failed THEN "failed" ELSE "recovered"]
    BY SweepsLeaves DEF AfterSweep
  <1>2. Goes(l) /\ wallet.ct # "ready"
    BY <1>1, WorkingGoes DEF Working
  <1>3. Owned' = Owned
    BY <1>1 DEF Owned
  <1>4. CoveredBy(load[l])' /\ SettlesWorth(load[l])'
    BY <1>1, <1>3 DEF Accounted, Covered, CoveredBy, SettlesWorth, Past, Lists, ListsOwned
  <1>5. \A v \in Vertices : /\ Worth'[v] \in Nat /\ Worth[v] \in Nat /\ Worth[v] <= Worth'[v]
                            /\ ~Shielded(v) => Worth'[v] = Worth[v]
    <2>1. \A v \in Vertices : recovery[v] = "recovered" => recovery'[v] = "recovered"
      BY <1>1 DEF getShieldedOutputsToRecover
    <2> QED BY <1>1, <2>1, WorthIs, WorthNext
  <1>6. Rows'
    <2>1. Kept' = Kept /\ \A a : RowKept(a)' = RowKept(a) /\ RowCredit(a)' = RowCredit(a)
      BY <1>1 DEF Kept, RowKept, RowCredit, Live
    <2>2. \A v \in Vertices : Kept[v] \in Nat
      BY KeptIs
    <2> QED BY <1>1, <1>5, <2>1, <2>2 DEF Accounted, Rows
  <1>7. wallet.ct # "ready" => Transparent' /\ Announced'
    <2> SUFFICES ASSUME wallet.ct # "ready" PROVE Transparent' /\ Announced'
      OBVIOUS
    <2>1. Transparent /\ Announced
      BY DEF Accounted, NotYetShielded
    <2>3. Transparent'
      BY <1>1, <1>3, <1>5, <2>1 DEF Transparent
    <2> QED BY <1>1, <2>1, <2>3 DEF Announced
  <1>8. Traced => Traced'
    BY <1>1 DEF Traced
  <1> QED BY <1>1, <1>2, <1>4, <1>6, <1>7, <1>8, OneGoes

LEMMA RebuildsAccounted ==
    ASSUME Types, Undisturbed, Accounted, NEW l \in Loads, LoadRebuilds(l) PROVE Accounted'
  <1> DEFINE again(v) == Shielded(v) /\ Pays[v] \in load[l].list /\ \E o \in PaidTo(Pays[v]) : Recovered(o)
  <1>1. /\ OthersKept(l) /\ UNCHANGED <<wallet, owner, tx, recovery, walCredit, daemon, late>>
        /\ load[l].at = "rebuild" /\ load'[l].at = "lock" /\ load'[l].list = load[l].list
    BY RebuildsLeaves
  <1>2. Goes(l) /\ wallet.ct # "ready"
    BY <1>1, WorkingGoes DEF Working
  <1>3. Owned' = Owned /\ Worth' = Worth /\ \A a : RowWorth(a)' = RowWorth(a)
    BY <1>1 DEF Owned, Worth, Live, RowWorth
  <1>4. CoveredBy(load[l])' /\ SettlesWorth(load[l])'
    BY <1>1, <1>3 DEF Accounted, Covered, CoveredBy, SettlesWorth, Past, Lists, ListsOwned
  <1>5. credit' = [v \in Vertices |-> IF again(v) THEN IF Recovered(v) THEN 1 ELSE 0 ELSE credit[v]]
    BY DEF LoadRebuilds
  <1>6. \A v \in Vertices : Shielded(v) => Worth[v] = IF Recovered(v) THEN 1 ELSE 0
    BY DEF Worth, Recovered
  <1>7. \A v \in Vertices, w \in Vertices : Pays[w] = Pays[v] => (again(w) <=> again(v))
    BY SameAddress
  <1> HIDE DEF again
  <1>8. ASSUME NEW v \in Vertices
        PROVE  IF again(v) THEN RowCredit(Pays[v])' = RowWorth(Pays[v]) /\ credit'[v] = Worth[v]
               ELSE RowCredit(Pays[v])' = RowCredit(Pays[v]) /\ credit'[v] = credit[v]
    <2>0. \A w \in PaidTo(Pays[v]) : w \in Vertices /\ (again(w) <=> again(v))
      BY <1>7 DEF PaidTo
    <2>1. CASE again(v)
      <3>1. \A w \in PaidTo(Pays[v]) : credit'[w] = Worth[w] /\ credit'[w] \in Int
        BY <1>5, <1>6, <2>0, <2>1, WorthIs DEF again
      <3>2. SumFunctionOnSet(credit', PaidTo(Pays[v])) = SumFunctionOnSet(Worth, PaidTo(Pays[v]))
        BY <3>1, PaidToIs, SumSame
      <3> QED BY <1>5, <1>6, <2>1, <3>2 DEF RowCredit, RowWorth, again
    <2>2. CASE ~again(v)
      <3>1. \A w \in PaidTo(Pays[v]) : credit'[w] = credit[w] /\ credit'[w] \in Int
        BY <1>5, <2>0, <2>2, AmountsAre
      <3>2. SumFunctionOnSet(credit', PaidTo(Pays[v])) = SumFunctionOnSet(credit, PaidTo(Pays[v]))
        BY <3>1, PaidToIs, SumSame
      <3> QED BY <1>5, <2>2, <3>2 DEF RowCredit
    <2> QED BY <2>1, <2>2
  <1>12. ASSUME NEW v \in Vertices
         PROVE  /\ again(v) => RowKept(Pays[v])' = RowWorth(Pays[v]) /\ Kept'[v] = Worth[v]
                /\ ~again(v) => RowKept(Pays[v])' = RowKept(Pays[v]) /\ Kept'[v] = Kept[v]
    <2>0. \A w \in PaidTo(Pays[v]) : w \in Vertices /\ (again(w) <=> again(v))
      BY <1>7 DEF PaidTo
    <2>1. \A w \in Vertices : Kept'[w] = IF again(w) THEN Worth[w] ELSE Kept[w]
      <3>1. \A w \in Vertices : Kept'[w] = IF tx[w] = "live" THEN credit'[w] ELSE 0
        BY <1>1 DEF Kept, Live
      <3>2. \A w \in Vertices : again(w) => credit'[w] = Worth[w]
        BY <1>5, <1>6 DEF again
      <3>3. \A w \in Vertices : ~again(w) => credit'[w] = credit[w]
        BY <1>5
      <3>4. \A w \in Vertices : tx[w] # "live" => Worth[w] = 0
        BY WorthIs
      <3> QED BY <3>1, <3>2, <3>3, <3>4, KeptIs
    <2>2. CASE again(v)
      <3>1. \A w \in PaidTo(Pays[v]) : Kept'[w] = Worth[w] /\ Kept'[w] \in Int
        BY <2>0, <2>1, <2>2, WorthIs
      <3>2. SumFunctionOnSet(Kept', PaidTo(Pays[v])) = SumFunctionOnSet(Worth, PaidTo(Pays[v]))
        BY <3>1, PaidToIs, SumSame
      <3> QED BY <2>1, <2>2, <3>2 DEF RowKept, RowWorth
    <2>3. CASE ~again(v)
      <3>1. \A w \in PaidTo(Pays[v]) : Kept'[w] = Kept[w] /\ Kept'[w] \in Int
        BY <2>0, <2>1, <2>3, KeptIs
      <3>2. SumFunctionOnSet(Kept', PaidTo(Pays[v])) = SumFunctionOnSet(Kept, PaidTo(Pays[v]))
        BY <3>1, PaidToIs, SumSame
      <3> QED BY <2>1, <2>3, <3>2 DEF RowKept
    <2> QED BY <2>2, <2>3
  <1>9. Rows'
    <2> SUFFICES ASSUME NEW v \in Vertices
                 PROVE  /\ ~Shielded(v) => credit'[v] = Worth[v]
                        /\ Kept'[v] <= Worth[v]
                        /\ RowCredit(Pays[v])' \in 0 .. RowKept(Pays[v])'
      BY <1>3 DEF Rows
    <2>1. /\ ~Shielded(v) => credit[v] = Worth[v] /\ ~again(v)
          /\ Kept[v] <= Worth[v] /\ Worth[v] \in Nat
          /\ RowCredit(Pays[v]) \in 0 .. RowKept(Pays[v]) /\ RowWorth(Pays[v]) \in Nat
      BY RowsAtMost, WorthIs DEF Accounted, Rows, again
    <2>2. CASE again(v)
      BY <1>8, <1>12, <2>1, <2>2
    <2>3. CASE ~again(v)
      BY <1>8, <1>12, <2>1, <2>3
    <2> QED BY <2>2, <2>3
  <1>10. Exact'
    <2> SUFFICES ASSUME NEW v \in Owned
                 PROVE  RowCredit(Pays[v])' = RowWorth(Pays[v]) /\ (Worth[v] = 1 => credit'[v] = 1)
      BY <1>3 DEF Exact
    <2>1. v \in Vertices /\ (Shielded(v) => Pays[v] \in load[l].list)
      BY <1>1 DEF Owned, Accounted, Covered, CoveredBy, ListsOwned, Past
    <2>2. CASE again(v)
      BY <1>8, <2>1, <2>2
    <2>3. CASE ~Shielded(v)
      <3>1. ~again(v) /\ RowCredit(Pays[v]) = RowWorth(Pays[v]) /\ credit[v] = Worth[v]
        BY <2>1, <2>3, TransparentRow DEF Accounted, again
      <3> QED BY <1>8, <2>1, <3>1
    <2>4. CASE ~again(v) /\ Shielded(v)
      <3>1. \A w \in PaidTo(Pays[v]) : Worth[w] = 0
        BY <1>6, <2>1, <2>4, SameAddress DEF again, PaidTo
      <3>2. RowWorth(Pays[v]) = 0
        BY <3>1, PaidToIs, SumZero DEF RowWorth
      <3>3. RowCredit(Pays[v]) \in 0 .. RowWorth(Pays[v]) /\ Worth[v] = 0
        BY <2>1, <3>1, RowsAtMost DEF Accounted, PaidTo
      <3> QED BY <1>8, <2>1, <2>4, <3>2, <3>3
    <2> QED BY <2>2, <2>3, <2>4
  <1>11. Traced => Traced'
    BY <1>1 DEF Traced
  <1> QED BY <1>1, <1>2, <1>3, <1>4, <1>9, <1>10, <1>11, SameTransparent, OneGoes

LEMMA LocksAccounted ==
    ASSUME Types, Undisturbed, Accounted, NEW l \in Loads, LoadLocks(l) PROVE Accounted'
  <1>1. /\ OthersKept(l)
        /\ UNCHANGED <<wallet, owner, tx, recovery, credit, walCredit, walHistory, daemon, late>>
        /\ load[l].at = "lock" /\ load'[l].at = "settle" /\ load'[l].list = load[l].list
        /\ load'[l].keys = load[l].keys /\ load'[l].sums = TakenSums(l)
    BY LocksLeaves DEF Tables
  <1>2. Goes(l) /\ wallet.ct # "ready"
    BY <1>1, WorkingGoes DEF Working
  <1>3. Owned' = Owned /\ Worth' = Worth /\ Rows' /\ Exact' /\ (Traced => Traced')
    BY <1>1, SameTables DEF Accounted, Rebuilt
  <1>4. Exact /\ Rows
    BY <1>1 DEF Accounted, Rebuilt
  <1>5. Lists(load[l]) /\ ListsOwned(load[l])
    BY <1>1 DEF Accounted, Covered, CoveredBy, Past
  <1>10. \A v \in Vertices : Worth[v] = 0 \/ (v \in Owned <=> Pays[v] \in load[l].list)
    <2> SUFFICES ASSUME NEW v \in Vertices, Worth[v] = 1 PROVE v \in Owned <=> Pays[v] \in load[l].list
      BY WorthIs
    <2>1. tx[v] = "live"
      BY WorthIs
    <2> QED BY <1>5, <2>1 DEF Lists, ListsOwned
  <1>6. CoveredBy(load[l])'
    <2>1. Lists(load[l])' /\ ListsOwned(load[l])'
      BY <1>1, <1>3, <1>5 DEF Lists, ListsOwned
    <2> QED BY <1>1, <2>1 DEF CoveredBy
  <1> DEFINE sums == TakenSums(l)
  <1>8. /\ SumFunctionOnSet(sums, Vertices) = SumFunctionOnSet(Worth, Owned)
        /\ \A v \in Owned : Worth[v] = 1 => sums[v] = 1
        /\ \A v \in Vertices : /\ ~Shielded(v) => sums[v] = Worth[v]
                               /\ Shielded(v) /\ load[l].keys = NoKeys => sums[v] = 0
    <2>1. CASE \E a \in load[l].list : RowExists(a)
      <3>1. sums = [v \in Vertices |-> IF v \in Owned THEN credit[v] ELSE 0]
        <4>1. sums = [v \in Vertices |-> IF Pays[v] \in load[l].list THEN credit[v] ELSE 0]
          BY <2>1 DEF TakenSums
        <4> HIDE DEF sums
        <4>2. \A v \in Vertices : v \in Owned /\ Pays[v] \notin load[l].list => credit[v] = 0
          BY <1>4, <1>5, <1>10 DEF ListsOwned, Rows
        <4>3. \A v \in Vertices : Pays[v] \in load[l].list => v \in Owned
          BY <1>5 DEF ListsOwned
        <4> QED BY <4>1, <4>2, <4>3
      <3> HIDE DEF sums
      <3>2. Owned \in SUBSET Vertices /\ \A v \in Owned : credit[v] \in Int
        BY AmountsAre
      <3>3. SumFunctionOnSet(sums, Vertices) = SumFunctionOnSet(credit, Owned)
        BY <3>1, <3>2, SumOfPart
      <3>4. SumFunctionOnSet(credit, Owned) = SumFunctionOnSet(Worth, Owned)
        BY <1>4, ExactSums
      <3>5. \A v \in Vertices : ~Shielded(v) => sums[v] = Worth[v]
        <4>1. \A v \in Vertices : ~Shielded(v) /\ v \notin Owned => Worth[v] = 0
          <5>1. \A v \in Vertices : Worth[v] # 0 => tx[v] = "live"
            BY WorthIs
          <5> QED BY <1>5, <5>1 DEF Lists, ListsOwned
        <4> QED BY <1>4, <3>1, <4>1 DEF Rows
      <3>6. load[l].keys = NoKeys => NoneShielded
        BY <1>1 DEF Undisturbed, ShieldedLast, LegacyOnly, Working
      <3>7. \A v \in Owned : v \in Vertices /\ (Worth[v] = 1 => sums[v] = 1)
        BY <1>4, <3>1 DEF Exact, Owned
      <3> QED BY <3>1, <3>3, <3>4, <3>5, <3>6, <3>7 DEF NoneShielded, Owned
    <2>2. CASE ~\E a \in load[l].list : RowExists(a)
      <3>1. sums = walCredit
        BY <2>2 DEF TakenSums
      <3>2. \A v \in Owned : Worth[v] = 0
        <4> SUFFICES ASSUME NEW v \in Owned PROVE Worth[v] = 0
          OBVIOUS
        <4>1. v \in Vertices /\ RowCredit(Pays[v]) = RowWorth(Pays[v])
          BY <1>4 DEF Owned, Exact
        <4>4. CASE Worth[v] = 0
          BY <4>4
        <4> SUFFICES ASSUME Worth[v] # 0 PROVE FALSE
          BY <4>4
        <4>2. RowCredit(Pays[v]) = 0
          BY <1>10, <2>2, <4>1 DEF RowExists
        <4>3. RowWorth(Pays[v]) >= Worth[v] /\ Worth[v] \in {0, 1}
          BY <4>1, RowWorthAtLeast, WorthIs
        <4> QED BY <4>1, <4>2, <4>3
      <3>3. \A v \in Vertices : walCredit[v] = 0 /\ (~Shielded(v) => Worth[v] = 0)
        <4>1. Transparent
          BY <1>2 DEF Accounted, NotYetShielded
        <4>2. \A v \in Vertices : ~Shielded(v) => Worth[v] = 0
          <5>1. \A v \in Vertices : Worth[v] # 0 => tx[v] = "live"
            BY WorthIs
          <5>2. \A v \in Vertices : ~Shielded(v) /\ Worth[v] # 0 => v \in Owned
            BY <1>5, <5>1 DEF Lists, ListsOwned
          <5> QED BY <3>2, <5>2
        <4> QED BY <4>1, <4>2 DEF Transparent
      <3>4. SumFunctionOnSet(Worth, Owned) = 0 /\ SumFunctionOnSet(walCredit, Vertices) = 0
        <4>1. IsFiniteSet(Owned) /\ IsFiniteSet(Vertices)
          BY AmountsAre, FS_Subset
        <4> QED BY <3>2, <3>3, <4>1, SumZero
      <3> QED BY <3>1, <3>2, <3>3, <3>4
    <2> QED BY <2>1, <2>2
  <1> HIDE DEF sums
  <1>9. SettlesWorth(load[l])'
    BY <1>1, <1>3, <1>8 DEF SettlesWorth, sums
  <1> QED BY <1>1, <1>2, <1>3, <1>6, <1>9, SameTransparent, OneGoes

LEMMA SettlesAccounted ==
    ASSUME Types, Undisturbed, Accounted, NEW l \in Loads, LoadSettles(l)
    PROVE  Accounted'
  <1>1. /\ OthersKept(l) /\ load[l].at = "settle" /\ ~Working(load'[l])
        /\ UNCHANGED <<owner, tx, recovery, credit, daemon>>
        /\ wallet'.status = "ready" /\ walCredit' = load[l].sums
        /\ wallet.ct = "ready" => wallet'.ct = "ready"
        /\ late' = {v \in late : ~Live(v)}
        /\ walHistory' = walHistory \cup {v \in Vertices : Live(v) /\ Pays[v] \in load[l].list /\ credit[v] = 1}
    BY SettlesLeaves
  <1>2. \A m \in Loads : ~Working(load'[m])
    BY <1>1, StillSingle DEF Working
  <1>3. /\ Worth' = Worth /\ Owned' = Owned /\ Rows'
        /\ Exact' <=> Exact
        /\ Traced' <=> Traced
    BY <1>1, SameTables DEF Accounted
  <1>4. Exact
    BY <1>1 DEF Accounted, Rebuilt
  <1>5. Lists(load[l]) /\ ListsOwned(load[l])
    BY <1>1 DEF Accounted, Covered, CoveredBy, Past
  <1>6. Covered' /\ Settles'
    <2>1. \A m \in Loads : CoveredBy(load[m])' /\ SettlesWorth(load[m])'
      BY <1>2 DEF Working, CoveredBy, SettlesWorth, Past
    <2> QED BY <1>3, <2>1 DEF Accounted, Covered, Settles
  <1>7. SettlesWorth(load[l])
    BY DEF Accounted, Settles
  <1>8. Summed'
    BY <1>1, <1>3, <1>7 DEF SettlesWorth, WalletTotal, Summed
  <1>9. Credited'
    <2> SUFFICES ASSUME NEW v \in Owned, Worth[v] = 1 PROVE walCredit'[v] = 1 /\ v \in walHistory'
      BY <1>3 DEF Credited
    <2>1. v \in Vertices /\ tx[v] = "live" /\ credit[v] = 1
      BY <1>4, WorthIs DEF Exact, Owned
    <2>2. Pays[v] \in load[l].list
      BY <1>5, <2>1 DEF Lists, ListsOwned
    <2> QED BY <1>1, <1>7, <2>1, <2>2 DEF SettlesWorth, Live
  <1>10. NotYetShielded'
    <2> SUFFICES ASSUME wallet'.ct # "ready" PROVE Transparent' /\ Announced'
      BY DEF NotYetShielded
    <2>1. load[l].keys = NoKeys /\ wallet.ct = wallet'.ct
      <3>1. wallet \in Row
        BY DEF Types, Known, RowOK
      <3>2. wallet' = Settled(wallet, load[l].keys, load[l].wasReady)
        BY Zenon DEF LoadSettles, Settled
      <3> QED BY <3>1, <3>2 DEF Settled, Row, updateWalletStatus, markWalletLoadReady
    <2>2. \A v \in Vertices : /\ ~Shielded(v) => walCredit'[v] = Worth[v]
                              /\ Shielded(v) => walCredit'[v] = 0
      BY <1>1, <1>7, <2>1 DEF SettlesWorth
    <2>3. \A v \in Vertices : Worth[v] \in Nat
      BY WorthIs
    <2>4. \A v \in Vertices : ~Shielded(v) /\ v \notin Owned => Worth[v] = 0
      <3>1. \A v \in Vertices : Worth[v] # 0 => tx[v] = "live"
        BY WorthIs
      <3> QED BY <1>5, <3>1 DEF Lists, ListsOwned
    <2>5. Transparent'
      BY <1>1, <1>3, <2>2, <2>3, <2>4 DEF Transparent
    <2>6. Announced'
      <3> SUFFICES ASSUME daemon.open, daemon.voids, daemon.attributable PROVE walCredit'[daemon.vertex] = 1
        BY <1>1 DEF Announced
      <3>1. daemon.vertex \in Vertices /\ tx[daemon.vertex] = "live"
        BY DEF Types, Amounts
      <3>2. ~Shielded(daemon.vertex)
        BY <2>1 DEF Undisturbed, Seen
      <3> QED BY <2>2, <3>1, <3>2, WorthIs
    <2> QED BY <2>5, <2>6
  <1>11. Uncredited'
    BY <1>1, <1>3 DEF Accounted, Uncredited
  <1> QED BY <1>3, <1>4, <1>6, <1>8, <1>9, <1>10, <1>11 DEF Accounted, Rebuilt

-----------------------------------------------------------------------------
(* The daemon's transaction.                                               *)

LEMMA OpensAccounted ==
    ASSUME Types, Undisturbed, Accounted, Plain, NEW v \in Vertices, NEW voids \in BOOLEAN,
           DaemonOpens(v, voids)
    PROVE  Accounted'
  <1>1. /\ UNCHANGED <<wallet, load, owner, tx, recovery, credit, walCredit, walHistory, late>>
        /\ daemon'.vertex = v /\ daemon'.voids = voids
        /\ daemon'.attributable = (Attributable /\ owner[Pays[v]] = "owned")
        /\ daemon'.credited = (walCredit[v] = 1)
        /\ voids => tx[v] = "live" /\ ~Upgrading
    BY DEF DaemonOpens, tables, Attributable, Plain
  <1>2. /\ Worth' = Worth /\ Owned' = Owned
        /\ Rows' <=> Rows
        /\ Exact' <=> Exact
        /\ Traced' <=> Traced
        /\ Attributable' <=> Attributable
    BY <1>1, SameTables DEF Attributable
  <1>3. \A l \in Loads : CoveredBy(load[l])' /\ SettlesWorth(load[l])'
    BY <1>1, SameLoads
  <1>4. Covered' /\ Settles' /\ Rebuilt' /\ Credited' /\ Summed'
    BY <1>1, <1>2, <1>3, SameWorth DEF Accounted, Covered, Settles, Rebuilt
  <1>5. NotYetShielded'
    <2> SUFFICES ASSUME wallet.ct # "ready" PROVE Transparent' /\ Announced'
      BY <1>1 DEF NotYetShielded
    <2>1. Transparent'
      BY <1>1, <1>2 DEF Transparent, Accounted, NotYetShielded
    <2>2. Attributable => NoneShielded
      BY DEF Types, Known, RowOK, Undisturbed, ShieldedLast, Attributable, isWalletAttributable
    <2>3. voids /\ daemon'.attributable /\ v \notin late => walCredit[v] = 1
      <3> SUFFICES ASSUME voids, daemon'.attributable, v \notin late PROVE walCredit[v] = 1
        OBVIOUS
      <3>1. Attributable /\ v \in Owned /\ ~Shielded(v)
        BY <1>1, <2>2 DEF Owned, NoneShielded
      <3>2. Worth[v] = 1
        BY <1>1, <3>1, WorthIs
      <3> QED BY <3>1, <3>2 DEF Accounted, Credited
    <2> QED BY <1>1, <2>1, <2>3 DEF Announced
  <1>6. Uncredited'
    <2> SUFFICES ASSUME voids, ~daemon'.attributable, ~(wallet.ct = "ready" /\ v \notin Owned)
                 PROVE  ~daemon'.credited
      BY <1>1, <1>2 DEF Uncredited
    <2>0. walCredit[v] # 1 => ~daemon'.credited
      BY <1>1, Zenon
    <2>1. wallet.ct # "ready"
      BY <1>1, NotReadyYet DEF Owned
    <2>2. wallet.status # "ready" \/ v \notin Owned
      <3>1. wallet.status = "ready" => Attributable
        BY <1>1, <2>1 DEF Upgrading, Types, Known, RowOK, Row, Attributable, isWalletAttributable
      <3> QED BY <1>1, <3>1 DEF Owned
    <2>3. walCredit[v] = 0
      BY <2>1, <2>2 DEF Accounted, NotYetShielded, Transparent
    <2> QED BY <2>0, <2>3
  <1> QED BY <1>2, <1>4, <1>5, <1>6 DEF Accounted

LEMMA RollsBackAccounted ==
    ASSUME Types, Accounted, DaemonRollsBack PROVE Accounted'
  <1>1. /\ UNCHANGED <<wallet, load, owner, tx, recovery, credit, walCredit, walHistory, late>>
        /\ ~daemon'.open
    BY DEF DaemonRollsBack, tables, NoEvent
  <1>2. /\ Worth' = Worth /\ Owned' = Owned
        /\ Rows' <=> Rows
        /\ Exact' <=> Exact
        /\ Traced' <=> Traced
        /\ Attributable' <=> Attributable
    BY <1>1, SameTables DEF Attributable
  <1>3. \A l \in Loads : CoveredBy(load[l])' /\ SettlesWorth(load[l])'
    BY <1>1, SameLoads
  <1>4. Covered' /\ Settles' /\ Rebuilt' /\ Credited' /\ Summed'
    BY <1>1, <1>2, <1>3, SameWorth DEF Accounted, Covered, Settles, Rebuilt
  <1>5. NotYetShielded' /\ Uncredited'
    BY <1>1, <1>2 DEF Accounted, NotYetShielded, Transparent, Announced, Uncredited
  <1> QED BY <1>2, <1>4, <1>5 DEF Accounted

(* What the daemon adds to the wallet was never paid.                      *)
LEMMA OwnedGrows ==
    ASSUME Types, Undisturbed, Traced, NEW outcome \in {"none", "unowned", "recovered", "failed"},
           DaemonAccepts(outcome)
    PROVE  /\ Owned \subseteq Owned' /\ Traced'
           /\ \A v \in Owned' \ Owned : ~Shielded(v) /\ Worth[v] = 0 /\ Worth'[v] = 0
  <1> DEFINE u == daemon.vertex
  <1>1. /\ u \in Vertices /\ tx' = [tx EXCEPT ![u] = "live"] /\ DOMAIN tx = Vertices
        /\ owner'[Pays[u]] = "owned" <=> owner[Pays[u]] = "owned"
        /\ \A v \in Vertices : Shielded(v) => (owner'[Pays[v]] = "owned" <=> owner[Pays[v]] = "owned")
        /\ \A a \in Addresses : owner[a] = "owned" => owner'[a] = "owned"
    BY AcceptsLeaves, AmountsAre
  <1>2. /\ owner' = [a \in Addresses |-> IF a \in daemon.adds THEN "owned"
                                         ELSE IF a = Pays[u] /\ owner[a] = "none" THEN "seen"
                                         ELSE owner[a]]
        /\ \A a \in daemon.adds : owner[a] = "none"
    BY DEF DaemonAccepts, AcceptRefused
  <1> HIDE DEF u
  <1>3. \A v \in Vertices : Pays[v] \in Addresses
    BY LegacyAddress
  <1>4. Owned \subseteq Owned'
    BY <1>1, <1>3 DEF Owned
  <1>5. Traced'
    <2> SUFFICES ASSUME NEW v \in Vertices, tx'[v] # "absent" PROVE owner'[Pays[v]] # "none"
      BY DEF Traced
    <2>1. v = u \/ owner[Pays[v]] # "none"
      BY <1>1 DEF Traced
    <2> QED BY <1>2, <1>3, <2>1
  <1>6. ASSUME NEW v \in Owned' \ Owned PROVE ~Shielded(v) /\ Worth[v] = 0 /\ Worth'[v] = 0
    <2>1. v \in Vertices /\ owner'[Pays[v]] = "owned" /\ owner[Pays[v]] # "owned"
      BY DEF Owned
    <2>2. v # u /\ ~Shielded(v)
      BY <1>1, <2>1
    <2>3. Pays[v] \in daemon.adds
      BY <1>2, <1>3, <2>1
    <2>4. tx[v] = "absent" /\ tx'[v] = "absent"
      BY <1>1, <1>2, <2>1, <2>2, <2>3 DEF Traced
    <2>5. Worth[v] # 1 /\ Worth'[v] # 1 /\ Worth[v] \in {0, 1} /\ Worth'[v] \in {0, 1}
      BY <2>1, <2>4, WorthIs, WorthNext
    <2> QED BY <2>2, <2>5
  <1> QED BY <1>4, <1>5, <1>6

(* They add nothing to what the wallet is worth.                           *)
LEMMA OwnedWorth ==
    ASSUME Owned \subseteq Owned', \A v \in Owned' \ Owned : Worth'[v] = 0
    PROVE  SumFunctionOnSet(Worth', Owned') = SumFunctionOnSet(Worth', Owned)
  <1> DEFINE f == Worth'
             S == Owned
             T == Owned'
             g == [v \in Vertices |-> IF v \in S THEN f[v] ELSE 0]
  <1>1. S \in SUBSET Vertices /\ T \in SUBSET Vertices /\ S \subseteq T
        /\ (\A v \in Vertices : f[v] \in Int) /\ \A v \in T \ S : f[v] = 0
    BY WorthNext DEF Owned
  <1> HIDE DEF f, S, T
  <1>2. SumFunctionOnSet(g, Vertices) = SumFunctionOnSet(f, S)
    BY <1>1, SumOfPart
  <1>3. SumFunctionOnSet(g, Vertices) = SumFunctionOnSet(f, T)
    BY <1>1, SumOfPart
  <1> QED BY <1>2, <1>3 DEF f, S, T

(* What a transaction of the daemon does to the row of its vertex.         *)
LEMMA RowsOf ==
    ASSUME Types, Types', NEW u \in Vertices,
           \A v \in Vertices : v # u => /\ tx'[v] = tx[v] /\ Worth'[v] = Worth[v]
                                        /\ credit'[v] = credit[v],
           NEW a
    PROVE  /\ RowWorth(a)' = RowWorth(a) + IF a = Pays[u] THEN Worth'[u] - Worth[u] ELSE 0
           /\ RowCredit(a)' = RowCredit(a) + IF a = Pays[u] THEN credit'[u] - credit[u] ELSE 0
           /\ RowKept(a)' = RowKept(a) + IF a = Pays[u] THEN Kept'[u] - Kept[u] ELSE 0
  <1> DEFINE f == Worth
             g == Worth'
             c == credit
             d == credit'
             k == Kept
             n == Kept'
  <1>1. \A v \in Vertices : /\ f[v] \in Int /\ g[v] \in Int /\ c[v] \in Int /\ d[v] \in Int
                            /\ k[v] \in Int /\ n[v] \in Int
    <2>1. credit \in [Vertices -> Int] /\ credit' \in [Vertices -> Int]
      BY AmountsAre DEF Types, Amounts, InRange
    <2>2. \A v \in Vertices : k[v] \in Int /\ n[v] \in Int
      BY <2>1 DEF Kept
    <2> QED BY <2>1, <2>2, WorthIs, WorthNext
  <1>2. \A v \in Vertices : v # u => f[v] = g[v] /\ c[v] = d[v] /\ k[v] = n[v]
    BY DEF Kept, Live
  <1> HIDE DEF f, g, c, d, k, n
  <1>3. /\ SumFunctionOnSet(g, PaidTo(a)) = SumFunctionOnSet(f, PaidTo(a)) + IF a = Pays[u] THEN g[u] - f[u] ELSE 0
        /\ SumFunctionOnSet(d, PaidTo(a)) = SumFunctionOnSet(c, PaidTo(a)) + IF a = Pays[u] THEN d[u] - c[u] ELSE 0
    BY <1>1, <1>2, RowsChange
  <1>4. SumFunctionOnSet(n, PaidTo(a)) = SumFunctionOnSet(k, PaidTo(a)) + IF a = Pays[u] THEN n[u] - k[u] ELSE 0
    BY <1>1, <1>2, RowsChange
  <1> QED BY <1>3, <1>4 DEF RowWorth, RowCredit, RowKept, f, g, c, d, k, n

LEMMA RowNumbers ==
    ASSUME Types, NEW a
    PROVE  RowWorth(a) \in Nat /\ RowCredit(a) \in Int /\ RowKept(a) \in Nat
  <1>1. \A v \in PaidTo(a) : Worth[v] \in Nat /\ credit[v] \in Int /\ Kept[v] \in Nat
    BY PaidToIs, WorthIs, AmountsAre, KeptIs
  <1> QED BY <1>1, PaidToIs, SumNat, SumType DEF RowWorth, RowCredit, RowKept

Mapped(outcome) == IF outcome \in {"none", "recovered"} THEN 1 ELSE 0

LEMMA AcceptsWorth ==
    ASSUME Types, Undisturbed, NEW outcome \in {"none", "unowned", "recovered", "failed"},
           DaemonAccepts(outcome), NEW u, u = daemon.vertex
    PROVE  /\ u \in Vertices /\ Worth[u] = 0 /\ credit[u] = 0 /\ walCredit[u] = 0
           /\ Worth'[u] = Mapped(outcome) /\ credit'[u] = Mapped(outcome)
           /\ walCredit'[u] = IF daemon.attributable THEN Mapped(outcome) ELSE 0
           /\ \A v \in Vertices : v # u => /\ Worth'[v] = Worth[v] /\ credit'[v] = credit[v]
                                           /\ walCredit'[v] = walCredit[v] /\ tx'[v] = tx[v]
           /\ walHistory \subseteq walHistory'
           /\ Mapped(outcome) = 1 /\ daemon.attributable => u \in walHistory'
           /\ late \subseteq late'
           /\ Mapped(outcome) = 1 /\ ~daemon.attributable /\ Attributable /\ u \in Owned => u \in late'
           /\ Mapped(outcome) \in {0, 1} /\ tx[u] = "absent" /\ tx'[u] = "live"
  <1>1. /\ u \in Vertices /\ tx[u] = "absent"
        /\ tx' = [tx EXCEPT ![u] = "live"] /\ recovery' = [recovery EXCEPT ![u] = outcome]
        /\ ~Shielded(u) => outcome = "none"
        /\ Shielded(u) => IF daemon.owned THEN outcome \in {"recovered", "failed"}
                          ELSE outcome = "unowned"
    BY AcceptsLeaves
  <1>2. /\ credit \in [Vertices -> Int] /\ walCredit \in [Vertices -> Int]
        /\ DOMAIN tx = Vertices /\ DOMAIN recovery = Vertices
        /\ credit[u] = 0 /\ walCredit[u] = 0
    BY <1>1, AmountsAre
  <1>3. Worth[u] = 0
    BY <1>1, WorthIs
  <1>4. Worth'[u] = Mapped(outcome)
    BY <1>1, <1>2, WorthNext DEF Mapped
  <1>5. tx'[u] = "live" /\ \A v \in Vertices : v # u => Worth'[v] = Worth[v] /\ tx'[v] = tx[v]
    BY <1>1, <1>2 DEF Worth, Live
  <1> DEFINE mapped == outcome \in {"none", "recovered"}
  <1>6. /\ credit' = IF mapped THEN [credit EXCEPT ![u] = @ + 1] ELSE credit
        /\ walCredit' = IF mapped /\ daemon.attributable THEN [walCredit EXCEPT ![u] = @ + 1] ELSE walCredit
        /\ walHistory' = IF mapped /\ daemon.attributable THEN walHistory \cup {u} ELSE walHistory
        /\ late' = IF mapped /\ MissedReady(u) THEN late \cup {u} ELSE late
    BY Zenon DEF DaemonAccepts
  <1>7. Mapped(outcome) = IF mapped THEN 1 ELSE 0
    BY DEF Mapped
  <1> HIDE DEF mapped
  <1>8. /\ credit'[u] = Mapped(outcome) /\ \A v \in Vertices : v # u => credit'[v] = credit[v]
    BY <1>1, <1>2, <1>6, <1>7
  <1>9. /\ walCredit'[u] = IF daemon.attributable THEN Mapped(outcome) ELSE 0
        /\ \A v \in Vertices : v # u => walCredit'[v] = walCredit[v]
    BY <1>1, <1>2, <1>6, <1>7
  <1>10. /\ walHistory \subseteq walHistory'
         /\ Mapped(outcome) = 1 /\ daemon.attributable => u \in walHistory'
         /\ late \subseteq late'
         /\ Mapped(outcome) = 1 /\ MissedReady(u) => u \in late'
    BY <1>6, <1>7
  <1>11. ~daemon.attributable /\ Attributable /\ u \in Owned => MissedReady(u)
    BY DEF MissedReady, Attributable, Owned
  <1> QED BY <1>1, <1>2, <1>3, <1>4, <1>5, <1>7, <1>8, <1>9, <1>10, <1>11

(* Whether a load is past the claim: it lists what the wallet owns.        *)
LEMMA ListedFirst ==
    ASSUME Accounted, NEW l \in Loads, load[l].at \in Past
    PROVE  Lists(load[l]) /\ ListsOwned(load[l])
  BY DEF Accounted, Covered, CoveredBy

LEMMA AcceptsAccounted ==
    ASSUME Types, Undisturbed, Accounted, Types', WithinList,
           NEW outcome \in {"none", "unowned", "recovered", "failed"}, DaemonAccepts(outcome)
    PROVE  Accounted'
  <1>0. PICK u : u = daemon.vertex
    OBVIOUS
  <1>1. PICK m \in {0, 1} : m = Mapped(outcome)
    BY DEF Mapped
  <1>2. /\ u \in Vertices /\ Worth[u] = 0 /\ credit[u] = 0 /\ walCredit[u] = 0
        /\ Worth'[u] = m /\ credit'[u] = m /\ walCredit'[u] = IF daemon.attributable THEN m ELSE 0
        /\ \A v \in Vertices : v # u => /\ Worth'[v] = Worth[v] /\ credit'[v] = credit[v]
                                        /\ walCredit'[v] = walCredit[v] /\ tx'[v] = tx[v]
        /\ walHistory \subseteq walHistory' /\ late \subseteq late'
        /\ m = 1 /\ daemon.attributable => u \in walHistory'
        /\ m = 1 /\ ~daemon.attributable /\ Attributable /\ u \in Owned => u \in late'
        /\ tx[u] = "absent" /\ tx'[u] = "live"
    BY <1>0, <1>1, AcceptsWorth
  <1>3. /\ UNCHANGED <<wallet, load>> /\ daemon.open /\ ~daemon'.open /\ NotBlocked(u)
        /\ \A v \in Vertices : Shielded(v) => (owner'[Pays[v]] = "owned" <=> owner[Pays[v]] = "owned")
        /\ \A a \in Addresses : owner[a] = "owned" => owner'[a] = "owned"
    BY <1>0, AcceptsLeaves
  <1>4. /\ Owned \subseteq Owned' /\ Traced'
        /\ \A v \in Owned' \ Owned : ~Shielded(v) /\ Worth[v] = 0 /\ Worth'[v] = 0
    BY OwnedGrows DEF Accounted, Covered
  <1>15. u \in Owned' => u \in Owned
    BY <1>0, AcceptsLeaves DEF Owned
  <1>5. \A l \in Loads : load[l].at \in Past \cup {"claim"} /\ ~Shielded(u) => Pays[u] \in load[l].list
    BY <1>2 DEF WithinList, Live
  <1>6. daemon.attributable => /\ u \in Owned /\ wallet.status = "ready"
                               /\ Shielded(u) => wallet.ct = "ready"
    BY <1>0, <1>2, <1>3 DEF Undisturbed, Seen, Owned
  <1>7. Covered'
    <2>1. \A v \in Vertices : v # u => tx'[v] = tx[v]
      BY <1>0, AcceptsLeaves, AmountsAre
    <2> SUFFICES ASSUME NEW l \in Loads PROVE CoveredBy(load[l])'
      BY <1>4 DEF Covered
    <2>2. load[l].at \in Past \cup {"claim"} /\ Lists(load[l]) => Lists(load[l])'
      BY <1>3, <1>5, <2>1 DEF Lists
    <2>3. ListsOwned(load[l]) => ListsOwned(load[l])'
      BY <1>3, <1>4 DEF ListsOwned
    <2> QED BY <1>3, <2>2, <2>3 DEF Accounted, Covered, CoveredBy
  <1>8. \A v \in Vertices : (~Shielded(v) => credit'[v] = Worth'[v]) /\ Kept'[v] <= Worth'[v]
    <2>1. Kept'[u] = m /\ \A v \in Vertices : v # u => Kept'[v] = Kept[v]
      BY <1>2 DEF Kept, Live
    <2> QED BY <1>2, <2>1 DEF Accounted, Rows
  <1>9. \A a : /\ RowWorth(a)' = RowWorth(a) + IF a = Pays[u] THEN m ELSE 0
               /\ RowCredit(a)' = RowCredit(a) + IF a = Pays[u] THEN m ELSE 0
               /\ RowKept(a)' = RowKept(a) + IF a = Pays[u] THEN m ELSE 0
    <2>1. Kept[u] = 0 /\ Kept'[u] = m
      BY <1>2 DEF Kept, Live
    <2>2. \A a : /\ RowWorth(a)' = RowWorth(a) + IF a = Pays[u] THEN Worth'[u] - Worth[u] ELSE 0
                 /\ RowCredit(a)' = RowCredit(a) + IF a = Pays[u] THEN credit'[u] - credit[u] ELSE 0
                 /\ RowKept(a)' = RowKept(a) + IF a = Pays[u] THEN Kept'[u] - Kept[u] ELSE 0
      BY <1>2, RowsOf
    <2>3. m - 0 = m
      OBVIOUS
    <2> QED BY <1>2, <2>1, <2>2, <2>3
  <1>10. Rows'
    <2> SUFFICES ASSUME NEW v \in Vertices PROVE RowCredit(Pays[v])' \in 0 .. RowKept(Pays[v])'
      BY <1>8 DEF Rows
    <2>1. RowCredit(Pays[v]) \in 0 .. RowKept(Pays[v]) /\ RowKept(Pays[v]) \in Nat
      BY RowsAtMost DEF Accounted
    <2> QED BY <1>9, <2>1
  <1>11. Rebuilt'
    <2> SUFFICES ASSUME Exact PROVE Exact'
      BY <1>3 DEF Accounted, Rebuilt, Attributable
    <2> SUFFICES ASSUME NEW v \in Vertices, v \in Owned'
                 PROVE  /\ RowCredit(Pays[v])' = RowWorth(Pays[v])'
                        /\ Worth'[v] = 1 => credit'[v] = 1
      BY DEF Exact, Owned
    <2>1. ~Shielded(v) \/ v \in Owned
      BY <1>3 DEF Owned
    <2>2. RowCredit(Pays[v]) = RowWorth(Pays[v])
      BY <2>1, TransparentRow DEF Accounted, Exact
    <2>3. Worth'[v] = 1 => credit'[v] = 1
      BY <1>2, <1>8, <2>1 DEF Exact
    <2> QED BY <1>9, <2>2, <2>3
  <1>12. NotYetShielded' /\ Uncredited'
    <2> SUFFICES ASSUME wallet.ct # "ready" PROVE Transparent'
      BY <1>3 DEF NotYetShielded, Announced, Uncredited
    <2>1. Transparent
      BY DEF Accounted, NotYetShielded
    <2>2. /\ walCredit'[u] \in 0 .. Worth'[u]
          /\ Shielded(u) \/ wallet.status # "ready" \/ u \notin Owned' => walCredit'[u] = 0
      BY <1>2, <1>4, <1>6
    <2>3. ASSUME NEW v \in Vertices, v # u
          PROVE  /\ walCredit'[v] \in 0 .. Worth'[v]
                 /\ Shielded(v) \/ wallet.status # "ready" \/ v \notin Owned' => walCredit'[v] = 0
      <3>1. walCredit'[v] = walCredit[v] /\ Worth'[v] = Worth[v]
        BY <1>2, <2>3
      <3>2. /\ walCredit[v] \in 0 .. Worth[v]
            /\ Shielded(v) \/ wallet.status # "ready" \/ v \notin Owned => walCredit[v] = 0
        BY <2>1 DEF Transparent
      <3> QED BY <1>4, <3>1, <3>2
    <2> QED BY <1>3, <2>2, <2>3 DEF Transparent
  <1>13. Settles'
    <2> SUFFICES ASSUME NEW l \in Loads, load[l].at = "settle" PROVE SettlesWorth(load[l])'
      BY <1>3 DEF Settles, SettlesWorth
    <2>1. ListsOwned(load[l])
      BY ListedFirst DEF Past
    <2>2. Pays[u] \notin load[l].list
      BY <1>3 DEF NotBlocked, Locked
    <2>3. Shielded(u) /\ u \notin Owned
      BY <1>2, <1>5, <2>1, <2>2 DEF ListsOwned, Past
    <2>4. \A v \in Owned : Worth[v] \in Int /\ Worth[v] = Worth'[v]
      BY <1>2, <2>3, WorthIs, AmountsAre
    <2>5. SumFunctionOnSet(Worth, Owned) = SumFunctionOnSet(Worth', Owned)
      <3> DEFINE f == Worth
                 g == Worth'
      <3>1. IsFiniteSet(Owned) /\ \A v \in Owned : f[v] \in Int /\ f[v] = g[v]
        BY <2>4, AmountsAre, FS_Subset
      <3> HIDE DEF f, g
      <3>2. SumFunctionOnSet(f, Owned) = SumFunctionOnSet(g, Owned)
        BY <3>1, SumSame
      <3> QED BY <3>2 DEF f, g
    <2>6. SettlesWorth(load[l])
      BY DEF Accounted, Settles
    <2>7. SumFunctionOnSet(Worth', Owned') = SumFunctionOnSet(Worth', Owned)
      BY <1>4, OwnedWorth
    <2>8. \A v \in Owned' : Worth'[v] = 1 => v \in Owned /\ Worth[v] = 1
      BY <1>2, <1>4, <2>4
    <2> QED BY <1>2, <1>3, <2>3, <2>5, <2>6, <2>7, <2>8 DEF SettlesWorth
  <1>14. Credited'
    <2> SUFFICES ASSUME Attributable, NEW v \in Vertices, v \in Owned', Worth'[v] = 1, v \notin late'
                 PROVE  walCredit'[v] = 1 /\ v \in walHistory'
      BY <1>3 DEF Credited, Attributable, Owned
    <2>1. v \in Owned
      BY <1>4
    <2>2. CASE v = u
      BY <1>2, <2>1, <2>2
    <2>3. CASE v # u
      <3>1. Worth[v] = 1 /\ v \notin late
        BY <1>2, <2>3
      <3> QED BY <1>2, <2>1, <2>3, <3>1 DEF Accounted, Credited
    <2> QED BY <2>2, <2>3
  <1>16. Summed'
    <2> SUFFICES ASSUME Attributable, late' = {} PROVE WalletTotal' = SumFunctionOnSet(Worth', Owned')
      BY <1>3 DEF Summed, Attributable
    <2>1. WalletTotal = SumFunctionOnSet(Worth, Owned)
      BY <1>2 DEF Accounted, Summed
    <2>2. walCredit'[u] = IF u \in Owned THEN m ELSE 0
      BY <1>2, <1>6
    <2> DEFINE f == Worth
               g == Worth'
               c == walCredit
               d == walCredit'
               T == Owned
    <2>3. /\ IsFiniteSet(T) /\ IsFiniteSet(Vertices) /\ T \subseteq Vertices
          /\ \A v \in Vertices : f[v] \in Int /\ g[v] \in Int /\ c[v] \in Int /\ d[v] \in Int
          /\ \A v \in Vertices : v # u => g[v] = f[v] /\ d[v] = c[v]
          /\ f[u] = 0 /\ c[u] = 0 /\ g[u] = m /\ d[u] = IF u \in T THEN m ELSE 0
          /\ SumFunctionOnSet(c, Vertices) = SumFunctionOnSet(f, T)
      <3>1. walCredit \in [Vertices -> Int] /\ walCredit' \in [Vertices -> Int]
        BY AmountsAre DEF Types, Amounts, InRange
      <3> QED BY <1>2, <2>1, <2>2, <3>1, AmountsAre, FS_Subset, WorthIs, WorthNext DEF WalletTotal
    <2> HIDE DEF f, g, c, d, T
    <2>4. SumFunctionOnSet(d, Vertices) = SumFunctionOnSet(c, Vertices) + d[u] - c[u]
      BY <1>2, <2>3, SumChange
    <2>5. SumFunctionOnSet(c, Vertices) \in Int
      BY <2>3, SumType
    <2>6. SumFunctionOnSet(d, Vertices) = SumFunctionOnSet(g, T)
      <3>1. CASE u \in T
        <4>1. SumFunctionOnSet(g, T) = SumFunctionOnSet(f, T) + g[u] - f[u]
          BY <2>3, <3>1, SumChange
        <4> QED BY <2>3, <2>4, <2>5, <3>1, <4>1
      <3>2. CASE u \notin T
        <4>1. SumFunctionOnSet(f, T) = SumFunctionOnSet(g, T)
          BY <2>3, <3>2, SumSame
        <4> QED BY <2>3, <2>4, <2>5, <3>2, <4>1
      <3> QED BY <3>1, <3>2
    <2>7. WalletTotal' = SumFunctionOnSet(Worth', Owned)
      BY <2>6 DEF d, g, T, WalletTotal
    <2> QED BY <1>4, <2>7, OwnedWorth
  <1> QED BY <1>7, <1>10, <1>11, <1>12, <1>13, <1>14, <1>16 DEF Accounted

(* A void that is not late reverses what was credited: what it leaves, it  *)
(* never read.                                                             *)
LEMMA VoidsWorth ==
    ASSUME Types, Undisturbed, Timely', DaemonVoids, NEW u, u = daemon.vertex
    PROVE  /\ u \in Vertices /\ daemon.open /\ daemon.voids /\ ~daemon'.open /\ NotBlocked(u)
           /\ UNCHANGED <<wallet, load, owner, recovery, late>> /\ u \notin late
           /\ tx[u] = "live" /\ tx'[u] = "voided"
           /\ Worth'[u] = 0 /\ (Reversed(u) => Worth[u] = 1) /\ (~Shielded(u) => Reversed(u))
           /\ ~Reversed(u) /\ Worth[u] = 1 => credit[u] = 0
           /\ Reversed(u) /\ ~daemon.attributable /\ ~daemon.credited => walCredit[u] # 1
           /\ credit'[u] = credit[u] - IF Subtracts(u) THEN 1 ELSE 0
           /\ walCredit'[u] = walCredit[u] -
                  IF Reversed(u) /\ daemon.attributable /\ WalletTotal > 0 THEN 1 ELSE 0
           /\ \A v \in Vertices : v # u => /\ Worth'[v] = Worth[v] /\ credit'[v] = credit[v]
                                           /\ walCredit'[v] = walCredit[v] /\ tx'[v] = tx[v]
           /\ walHistory \ {u} \subseteq walHistory'
           /\ Subtracts(u) => RowCredit(Pays[u]) # 0
  <1>1. /\ u \in Vertices /\ tx[u] = "live" /\ daemon.open /\ daemon.voids
        /\ tx' = [tx EXCEPT ![u] = "voided"] /\ UNCHANGED <<wallet, load, owner, recovery>>
        /\ ~daemon'.open /\ NotBlocked(u) /\ ~VoidRefused(u)
        /\ late' = IF MissedCredit(u) THEN late \cup {u} ELSE late
    BY DEF DaemonVoids, NoEvent, Types, Amounts
  <1>2. /\ credit \in [Vertices -> Int] /\ walCredit \in [Vertices -> Int] /\ DOMAIN tx = Vertices
    BY AmountsAre
  <1>3. daemon.recovered => daemon.owned /\ recovery[u] = "recovered"
    BY <1>1 DEF Undisturbed, Seen
  <1>4. Worth'[u] = 0 /\ (Reversed(u) => Worth[u] = 1) /\ (~Shielded(u) => Reversed(u))
    BY <1>1, <1>2, <1>3, WorthIs, WorthNext DEF Reversed
  <1>5. tx'[u] = "voided" /\ \A v \in Vertices : v # u => Worth'[v] = Worth[v] /\ tx'[v] = tx[v]
    BY <1>1, <1>2 DEF Worth, Live
  <1>11. ~MissedCredit(u) /\ u \notin late /\ UNCHANGED late
    BY <1>1, <1>5 DEF Timely
  <1>12. ~Reversed(u) /\ Worth[u] = 1 => credit[u] = 0
    <2>1. credit[u] \in 0 .. 1
      BY <1>1, AmountsAre
    <2> QED BY <1>3, <1>11, <2>1, WorthIs, <1>1 DEF Reversed, MissedCredit
  <1>13. Reversed(u) /\ ~daemon.attributable /\ ~daemon.credited => walCredit[u] # 1
    BY <1>11 DEF MissedCredit
  <1>6. /\ credit' = IF Subtracts(u) THEN [credit EXCEPT ![u] = @ - 1] ELSE credit
        /\ walCredit' = IF Reversed(u) /\ daemon.attributable /\ WalletTotal > 0
                        THEN [walCredit EXCEPT ![u] = @ - 1] ELSE walCredit
        /\ walHistory' = IF Reversed(u) /\ daemon.attributable THEN walHistory \ {u} ELSE walHistory
    BY Zenon DEF DaemonVoids
  <1>7. /\ credit'[u] = credit[u] - IF Subtracts(u) THEN 1 ELSE 0
        /\ \A v \in Vertices : v # u => credit'[v] = credit[v]
    BY <1>1, <1>2, <1>6
  <1>8. /\ walCredit'[u] = walCredit[u] -
                  IF Reversed(u) /\ daemon.attributable /\ WalletTotal > 0 THEN 1 ELSE 0
        /\ \A v \in Vertices : v # u => walCredit'[v] = walCredit[v]
    BY <1>1, <1>2, <1>6
  <1>9. walHistory \ {u} \subseteq walHistory'
    BY <1>6
  <1>10. Subtracts(u) => RowCredit(Pays[u]) # 0
    BY <1>1 DEF VoidRefused
  <1> QED BY <1>1, <1>4, <1>5, <1>7, <1>8, <1>9, <1>10, <1>11, <1>12, <1>13

LEMMA VoidsAccounted ==
    ASSUME Types, Undisturbed, Accounted, Types', Timely', DaemonVoids
    PROVE  Accounted'
  <1>0. PICK u : u = daemon.vertex
    OBVIOUS
  <1>1. PICK w \in {0, 1}, s \in {0, 1} : w = Worth[u] /\ s = IF Subtracts(u) THEN 1 ELSE 0
    BY <1>0, VoidsWorth, WorthIs
  <1>2. /\ u \in Vertices /\ daemon.open /\ daemon.voids /\ ~daemon'.open /\ NotBlocked(u)
        /\ UNCHANGED <<wallet, load, owner, recovery, late>> /\ u \notin late
        /\ Worth[u] = w /\ Worth'[u] = 0 /\ credit'[u] = credit[u] - s
        /\ walCredit'[u] = walCredit[u] -
               IF Reversed(u) /\ daemon.attributable /\ WalletTotal > 0 THEN 1 ELSE 0
        /\ \A v \in Vertices : v # u => /\ Worth'[v] = Worth[v] /\ credit'[v] = credit[v]
                                        /\ walCredit'[v] = walCredit[v]
        /\ walHistory \ {u} \subseteq walHistory'
    BY <1>0, <1>1, VoidsWorth
  <1>15. tx[u] = "live" /\ tx'[u] = "voided" /\ \A v \in Vertices : v # u => tx'[v] = tx[v]
    BY <1>0, VoidsWorth
  <1>16. /\ Reversed(u) => w = 1
         /\ ~Shielded(u) => Reversed(u)
         /\ Reversed(u) /\ ~daemon.attributable /\ ~daemon.credited => walCredit[u] # 1
    BY <1>0, <1>2, VoidsWorth
  <1>17. credit[u] \in {0, 1} /\ (~Reversed(u) => credit[u] = 0)
    <2>1. credit[u] \in 0 .. 1
      BY <1>2, <1>15, AmountsAre
    <2>2. Kept[u] = credit[u]
      BY <1>2, <1>15, KeptIs
    <2>3. Worth[u] = 0 => credit[u] = 0
      BY <1>2, <2>1, <2>2 DEF Accounted, Rows
    <2>4. ~Reversed(u) /\ Worth[u] = 1 => credit[u] = 0
      BY <1>0, VoidsWorth
    <2> QED BY <1>1, <2>1, <2>3, <2>4
  <1>3. /\ RowCredit(Pays[u]) \in 0 .. RowKept(Pays[u])
        /\ RowKept(Pays[u]) \in Nat /\ RowWorth(Pays[u]) \in Nat
        /\ RowWorth(Pays[u]) >= w /\ RowKept(Pays[u]) >= credit[u]
    <2>1. u \in PaidTo(Pays[u]) /\ Kept[u] = credit[u] /\ \A v \in PaidTo(Pays[u]) : Kept[v] \in Nat
      BY <1>2, <1>15, KeptIs, PaidToIs DEF PaidTo
    <2>2. RowKept(Pays[u]) >= credit[u]
      BY <2>1, PaidToIs, SumAtLeast DEF RowKept
    <2> QED BY <1>2, <2>2, RowsAtMost, RowWorthAtLeast DEF Accounted
  <1>4. /\ s = 1 => Reversed(u) /\ RowCredit(Pays[u]) >= 1
        /\ Reversed(u) /\ s = 0 => RowCredit(Pays[u]) = 0
    <2>1. Subtracts(u) => Reversed(u) /\ RowCredit(Pays[u]) # 0
      BY <1>0, VoidsWorth DEF Subtracts
    <2>2. Reversed(u) /\ ~Subtracts(u) => RowCredit(Pays[u]) = 0
      BY DEF Subtracts, RowExists
    <2> QED BY <1>1, <1>3, <2>1, <2>2
  <1>5. Owned' = Owned /\ (Traced => Traced')
    BY <1>2, <1>15 DEF Owned, Traced
  <1>6. credit[u] \in Int /\ WalletTotal \in Int /\ walCredit[u] \in Int
    BY <1>2, AmountsAre, SumType DEF WalletTotal
  <1>7. Covered'
    <2> SUFFICES ASSUME NEW l \in Loads PROVE CoveredBy(load[l])'
      BY <1>5 DEF Accounted, Covered
    <2>2. Lists(load[l]) => Lists(load[l])'
      BY <1>2, <1>15 DEF Lists
    <2>3. ListsOwned(load[l]) => ListsOwned(load[l])'
      BY <1>2, <1>5 DEF ListsOwned
    <2> QED BY <1>2, <2>2, <2>3 DEF Accounted, Covered, CoveredBy
  <1>8. \A a : /\ RowWorth(a)' = RowWorth(a) - IF a = Pays[u] THEN w ELSE 0
               /\ RowCredit(a)' = RowCredit(a) - IF a = Pays[u] THEN s ELSE 0
               /\ RowKept(a)' = RowKept(a) - IF a = Pays[u] THEN credit[u] ELSE 0
    <2> SUFFICES ASSUME NEW a
                 PROVE  /\ RowWorth(a)' = RowWorth(a) - IF a = Pays[u] THEN w ELSE 0
                        /\ RowCredit(a)' = RowCredit(a) - IF a = Pays[u] THEN s ELSE 0
                        /\ RowKept(a)' = RowKept(a) - IF a = Pays[u] THEN credit[u] ELSE 0
      OBVIOUS
    <2>1. /\ RowWorth(a)' = RowWorth(a) + IF a = Pays[u] THEN Worth'[u] - Worth[u] ELSE 0
          /\ RowCredit(a)' = RowCredit(a) + IF a = Pays[u] THEN credit'[u] - credit[u] ELSE 0
          /\ RowKept(a)' = RowKept(a) + IF a = Pays[u] THEN Kept'[u] - Kept[u] ELSE 0
      BY <1>2, <1>15, RowsOf
    <2>2. RowWorth(a) \in Int /\ RowCredit(a) \in Int /\ RowKept(a) \in Int
      BY RowNumbers
    <2>3. Kept[u] = credit[u] /\ Kept'[u] = 0
      BY <1>2, <1>15 DEF Kept, Live
    <2> QED BY <1>2, <1>6, <2>1, <2>2, <2>3
  <1>9. ~Shielded(u) => w = s
    <2>1. ~Shielded(u) => RowCredit(Pays[u]) = RowWorth(Pays[u])
      BY <1>2, TransparentRow DEF Accounted
    <2> QED BY <1>3, <1>4, <1>16, <2>1
  <1>10. Rows'
    <2>1. \A v \in Vertices : ~Shielded(v) => credit'[v] = Worth'[v]
      <3>1. ~Shielded(u) => credit[u] = w
        BY <1>2 DEF Accounted, Rows
      <3> QED BY <1>2, <1>9, <3>1 DEF Accounted, Rows
    <2>2. \A v \in Vertices : Kept'[v] <= Worth'[v]
      <3>1. Kept'[u] = 0 /\ \A v \in Vertices : v # u => Kept'[v] = Kept[v]
        BY <1>2, <1>15 DEF Kept, Live
      <3> QED BY <1>2, <3>1 DEF Accounted, Rows
    <2> SUFFICES ASSUME NEW v \in Vertices PROVE RowCredit(Pays[v])' \in 0 .. RowKept(Pays[v])'
      BY <2>1, <2>2 DEF Rows
    <2>3. RowCredit(Pays[v]) \in 0 .. RowKept(Pays[v]) /\ RowKept(Pays[v]) \in Nat
      BY RowsAtMost DEF Accounted
    <2>4. CASE Pays[v] # Pays[u]
      BY <1>8, <2>3, <2>4
    <2>5. CASE Pays[v] = Pays[u]
      <3>1. RowCredit(Pays[u]) - s \in 0 .. RowKept(Pays[u]) - credit[u]
        <4>1. CASE s = 1
          BY <1>3, <1>4, <1>17, <4>1
        <4>2. CASE s = 0 /\ Reversed(u)
          BY <1>3, <1>4, <1>17, <4>2
        <4>3. CASE s = 0 /\ ~Reversed(u)
          BY <1>3, <1>17, <4>3
        <4> QED BY <1>1, <4>1, <4>2, <4>3
      <3> QED BY <1>8, <2>5, <3>1
    <2> QED BY <2>4, <2>5
  <1>18. Exact /\ u \in Owned /\ w = 1 => Reversed(u) /\ s = 1
    <2> SUFFICES ASSUME Exact, u \in Owned, w = 1 PROVE Reversed(u) /\ s = 1
      OBVIOUS
    <2>1. credit[u] = 1 /\ RowCredit(Pays[u]) = RowWorth(Pays[u])
      BY <1>2 DEF Exact
    <2> QED BY <1>1, <1>3, <1>4, <1>17, <2>1
  <1>11. Rebuilt'
    <2> SUFFICES ASSUME Exact PROVE Exact'
      BY <1>2 DEF Accounted, Rebuilt, Attributable
    <2> SUFFICES ASSUME NEW v \in Owned
                 PROVE  /\ RowCredit(Pays[v])' = RowWorth(Pays[v])'
                        /\ Worth'[v] = 1 => credit'[v] = 1
      BY <1>5 DEF Exact
    <2>1. v \in Vertices /\ RowCredit(Pays[v]) = RowWorth(Pays[v]) /\ (Worth[v] = 1 => credit[v] = 1)
      BY DEF Exact, Owned
    <2>2. Pays[v] = Pays[u] => u \in Owned
      BY <1>2, <2>1, SameAddress
    <2>3. Pays[v] = Pays[u] => w = s
      BY <1>1, <1>4, <1>16, <1>18, <2>2
    <2> QED BY <1>2, <1>8, <2>1, <2>3
  <1>19. Reversed(u) /\ ~daemon.attributable /\ walCredit[u] = 1 => wallet.ct = "ready" /\ u \notin Owned
    BY <1>0, <1>2, <1>16 DEF Accounted, Uncredited
  <1>12. NotYetShielded' /\ Uncredited'
    <2> SUFFICES ASSUME wallet.ct # "ready" PROVE Transparent'
      BY <1>2 DEF NotYetShielded, Announced, Uncredited
    <2>1. Transparent /\ Announced
      BY DEF Accounted, NotYetShielded
    <2>2. walCredit[u] \in {0, 1} /\ (walCredit[u] = 1 => w = 1 /\ ~Shielded(u))
      BY <1>1, <1>2, <2>1 DEF Transparent
    <2>3. daemon.attributable => walCredit[u] = 1
      BY <1>0, <1>2, <2>1 DEF Announced
    <2>4. walCredit[u] = 1 => Reversed(u) /\ daemon.attributable
      BY <1>16, <1>19, <2>2
    <2>5. WalletTotal >= walCredit[u]
      <3>1. \A v \in Vertices : walCredit[v] \in Nat
        <4>1. \A v \in Vertices : Worth[v] \in Nat
          BY WorthIs
        <4> QED BY <2>1, <4>1 DEF Transparent
      <3> QED BY <1>2, <3>1, AmountsAre, SumAtLeast DEF WalletTotal
    <2>6. walCredit'[u] = 0
      <3>1. CASE walCredit[u] = 1
        <4>1. WalletTotal > 0
          BY <1>6, <2>5, <3>1
        <4> QED BY <1>2, <2>4, <3>1, <4>1
      <3>2. CASE walCredit[u] = 0
        <4>1. walCredit'[u] = walCredit[u] - 0
          BY <1>2, <2>3, <3>2
        <4> QED BY <3>2, <4>1
      <3> QED BY <2>2, <3>1, <3>2
    <2> QED BY <1>2, <1>5, <2>1, <2>6 DEF Transparent
  <1>13. Settles'
    <2> SUFFICES ASSUME NEW l \in Loads, load[l].at = "settle" PROVE SettlesWorth(load[l])'
      BY <1>2 DEF Settles, SettlesWorth
    <2>1. Lists(load[l]) /\ ListsOwned(load[l])
      BY ListedFirst DEF Past
    <2>2. Pays[u] \notin load[l].list
      BY <1>2 DEF NotBlocked, Locked
    <2>3. Shielded(u) /\ u \notin Owned
      BY <1>2, <1>15, <2>1, <2>2 DEF Lists, ListsOwned
    <2>4. \A v \in Owned : Worth[v] \in Int /\ Worth[v] = Worth'[v]
      BY <1>2, <2>3, WorthIs, AmountsAre
    <2>5. SumFunctionOnSet(Worth, Owned) = SumFunctionOnSet(Worth', Owned)
      <3> DEFINE f == Worth
                 g == Worth'
      <3>1. IsFiniteSet(Owned) /\ \A v \in Owned : f[v] \in Int /\ f[v] = g[v]
        BY <2>4, AmountsAre, FS_Subset
      <3> HIDE DEF f, g
      <3>2. SumFunctionOnSet(f, Owned) = SumFunctionOnSet(g, Owned)
        BY <3>1, SumSame
      <3> QED BY <3>2 DEF f, g
    <2>6. SettlesWorth(load[l])
      BY DEF Accounted, Settles
    <2>7. \A v \in Owned : Worth'[v] = 1 => Worth[v] = 1
      BY <2>4
    <2> QED BY <1>2, <1>5, <2>3, <2>5, <2>6, <2>7 DEF SettlesWorth
  <1>20. Credited'
    <2> SUFFICES ASSUME Attributable, NEW v \in Owned, Worth'[v] = 1, v \notin late
                 PROVE  walCredit'[v] = 1 /\ v \in walHistory'
      BY <1>2, <1>5 DEF Credited, Attributable
    <2>1. v \in Vertices /\ v # u
      BY <1>2 DEF Owned
    <2>2. walCredit[v] = 1 /\ v \in walHistory
      BY <1>2, <2>1 DEF Accounted, Credited
    <2> QED BY <1>2, <2>1, <2>2
  <1>14. Summed'
    <2> SUFFICES ASSUME Attributable, late = {} PROVE WalletTotal' = SumFunctionOnSet(Worth', Owned)
      BY <1>2, <1>5 DEF Summed, Attributable
    <2>1. WalletTotal = SumFunctionOnSet(Worth, Owned)
      BY DEF Accounted, Summed
    <2>2. Reversed(u) /\ daemon.attributable <=> w = 1 /\ u \in Owned
      <3>1. daemon.attributable => u \in Owned
        BY <1>0, <1>2 DEF Undisturbed, Seen, Owned
      <3> SUFFICES ASSUME w = 1, u \in Owned PROVE Reversed(u) /\ daemon.attributable
        BY <1>16, <3>1
      <3>2. Exact /\ walCredit[u] = 1
        BY <1>2 DEF Accounted, Rebuilt, Credited
      <3> QED BY <1>18, <1>19, <3>2
    <2> DEFINE f == Worth
               g == Worth'
               c == walCredit
               d == walCredit'
               T == Owned
    <2>3. /\ IsFiniteSet(T) /\ IsFiniteSet(Vertices) /\ T \subseteq Vertices
          /\ \A v \in Vertices : f[v] \in Nat /\ g[v] \in Nat /\ c[v] \in Int /\ d[v] \in Int
          /\ \A v \in Vertices : v # u => g[v] = f[v] /\ d[v] = c[v]
          /\ f[u] = w /\ g[u] = 0
          /\ d[u] = c[u] - IF w = 1 /\ u \in T /\ SumFunctionOnSet(f, T) > 0 THEN 1 ELSE 0
          /\ SumFunctionOnSet(c, Vertices) = SumFunctionOnSet(f, T)
      <3>1. walCredit \in [Vertices -> Int] /\ walCredit' \in [Vertices -> Int]
        BY AmountsAre DEF Types, Amounts, InRange
      <3>2. /\ IsFiniteSet(T) /\ IsFiniteSet(Vertices) /\ T \subseteq Vertices
            /\ \A v \in Vertices : f[v] \in Nat /\ g[v] \in Nat /\ c[v] \in Int /\ d[v] \in Int
        BY <3>1, AmountsAre, FS_Subset, WorthIs, WorthNext
      <3> QED BY <1>2, <2>1, <2>2, <3>2 DEF WalletTotal
    <2> HIDE DEF f, g, c, d, T
    <2>4. u \in T => SumFunctionOnSet(f, T) >= w
      BY <2>3, SumAtLeast
    <2>5. d[u] = c[u] - IF w = 1 /\ u \in T THEN 1 ELSE 0
      <3>1. SumFunctionOnSet(f, T) \in Int
        BY <2>3, SumType
      <3> QED BY <2>3, <2>4, <3>1
    <2>6. SumFunctionOnSet(d, Vertices) = SumFunctionOnSet(c, Vertices) + d[u] - c[u]
      BY <1>2, <2>3, SumChange
    <2>7. SumFunctionOnSet(c, Vertices) \in Int /\ c[u] \in Int
      BY <1>2, <2>3, SumType
    <2>8. SumFunctionOnSet(d, Vertices) = SumFunctionOnSet(g, T)
      <3>1. CASE u \in T
        <4>0. \A v \in T : f[v] \in Int /\ g[v] \in Int /\ (v # u => g[v] = f[v])
          BY <2>3
        <4>1. SumFunctionOnSet(g, T) = SumFunctionOnSet(f, T) + g[u] - f[u]
          BY <2>3, <3>1, <4>0, SumChange
        <4> QED BY <2>3, <2>5, <2>6, <2>7, <3>1, <4>1
      <3>2. CASE u \notin T
        <4>1. SumFunctionOnSet(f, T) = SumFunctionOnSet(g, T)
          BY <2>3, <3>2, SumSame
        <4> QED BY <2>3, <2>5, <2>6, <2>7, <3>2, <4>1
      <3> QED BY <3>1, <3>2
    <2>9. WalletTotal' = SumFunctionOnSet(Worth', Owned)
      BY <2>8 DEF d, g, T, WalletTotal
    <2> QED BY <2>9
  <1> QED BY <1>7, <1>10, <1>11, <1>12, <1>13, <1>14, <1>20 DEF Accounted

LEMMA InitAccounted == Init => Accounted
  <1> SUFFICES ASSUME Init PROVE Accounted
    OBVIOUS
  <1>1. /\ ~Attributable /\ \A l \in Loads : load[l].at = "idle"
    BY DEF Init, NoLoad, NoWallet, Attributable, isWalletAttributable
  <1>2. \A v \in Vertices : credit[v] = 0 /\ Worth[v] = 0 /\ Kept[v] = 0 /\ walCredit[v] = 0
    BY DEF Init, Worth, Kept, Live
  <1>3. \A a : RowCredit(a) = 0 /\ RowKept(a) = 0
    <2> SUFFICES ASSUME NEW a PROVE RowCredit(a) = 0 /\ RowKept(a) = 0
      OBVIOUS
    <2>1. \A v \in PaidTo(a) : credit[v] = 0 /\ Kept[v] = 0
      BY <1>2, PaidToIs
    <2> QED BY <2>1, PaidToIs, SumZero DEF RowCredit, RowKept
  <1>4. Covered /\ Settles /\ Credited /\ Summed /\ Rebuilt
    BY <1>1 DEF Init, NoWallet, Covered, Traced, CoveredBy, Settles, SettlesWorth, Credited, Summed, Rebuilt, Past
  <1>5. Rows
    BY <1>2, <1>3 DEF Rows
  <1>6. NotYetShielded /\ Uncredited
    BY <1>1, <1>2 DEF Init, NoEvent, NotYetShielded, Transparent, Announced, Uncredited
  <1> QED BY <1>4, <1>5, <1>6 DEF Accounted

(* A late void stays so: a settle forgets only what is live.               *)
LEMMA TimelyBefore == ASSUME Types, [Next]_vars, Timely' PROVE Timely
  <1> SUFFICES ASSUME NEW v \in late, tx[v] = "voided" PROVE v \in late' /\ tx'[v] = "voided"
    BY DEF Timely
  <1>1. v \in Vertices /\ tx \in [Vertices -> {"absent", "live", "voided"}]
    BY DEF Types, LateAre, Recoveries
  <1>2. tx'[v] = "voided"
    <2>1. ASSUME NEW outcome, DaemonAccepts(outcome) PROVE tx'[v] = "voided"
      <3>1. tx' = [tx EXCEPT ![daemon.vertex] = "live"] /\ tx[daemon.vertex] = "absent"
        BY <2>1 DEF DaemonAccepts, Types, Amounts
      <3> QED BY <1>1, <3>1
    <2>2. CASE DaemonVoids
      BY <1>1, <2>2 DEF DaemonVoids
    <2> QED BY <2>1, <2>2 DEF Next, vars, tables, RequestReads, RequestCreates, RequestAttaches, RequestRetries,
           InvokeFails, RequestDies, RequestInvokes, LoadReads, LoadDerives, LoadClaims, LoadSweeps,
           LoadRebuilds, LoadLocks, LoadSettles, LoadReturns, LoadFails, LoadCrashes, loadWalletFailed,
           DaemonOpens, DaemonRollsBack
  <1>3. v \in late'
    <2>1. ASSUME NEW l \in Loads, LoadSettles(l) PROVE v \in late'
      BY <2>1 DEF LoadSettles, Live
    <2>2. ASSUME NEW outcome, DaemonAccepts(outcome) PROVE v \in late'
      BY <2>2 DEF DaemonAccepts
    <2>3. CASE DaemonVoids
      BY <2>3 DEF DaemonVoids
    <2> QED BY <2>1, <2>2, <2>3, LateSteps
  <1> QED BY <1>2, <1>3

LEMMA AccountedStep ==
    ASSUME Plain, Types, Undisturbed, Timely => Accounted, [Next]_vars, [WithinList]_vars, Timely'
    PROVE  Accounted'
  <1>1. Orderly /\ Types' /\ Undisturbed' /\ Accounted
    BY TypesStep, UndisturbedStep, TimelyBefore DEF Plain
  <1>2. WithinList
    BY DEF WithinList, Live, vars, tables
  <1> QED BY <1>1, <1>2, AsideSteps, AsideAccounted, ReadsAccounted, DerivesAccounted, ClaimsAccounted,
             SweepsAccounted, RebuildsAccounted, LocksAccounted, SettlesAccounted, OpensAccounted,
             AcceptsAccounted, VoidsAccounted, RollsBackAccounted DEF Daemon

(* A wallet that is ready has the sum of its addresses' rows, and that is  *)
(* what its outputs are worth, with no transaction missing, whatever fails *)
(* and whenever the daemon reads, accepts, rolls back and voids, except    *)
(* while a vertex is late: handled on what a load had outdated since the   *)
(* daemon read it.  This needs that no load runs again on a ready wallet,  *)
(* no ingest outlasts the second sweep, no void starts in the middle of an *)
(* upgrade, and no transparent output is paid past the list of a load      *)
(* under way.                                                              *)
THEOREM ReadyHasItsSums == Plain /\ Spec /\ [][WithinList]_vars => []ReadyIsSummed
  <1> SUFFICES ASSUME Plain PROVE Spec /\ [][WithinList]_vars => []ReadyIsSummed
    OBVIOUS
  <1>1. ASSUME Types, Timely => Accounted PROVE ReadyIsSummed
    <2> SUFFICES ASSUME Attributable, late = {}
                 PROVE  /\ WalletTotal = SumFunctionOnSet(credit, Owned)
                        /\ WalletTotal = SumFunctionOnSet(Worth, Owned)
                        /\ \A v \in Owned : Worth[v] = 1 => v \in walHistory
      BY DEF ReadyIsSummed, SumsAreRight, Attributable
    <2>1. Accounted
      BY <1>1 DEF Timely
    <2>2. Exact /\ WalletTotal = SumFunctionOnSet(Worth, Owned)
      BY <2>1 DEF Accounted, Rebuilt, Summed
    <2>3. \A v \in Owned : Worth[v] = 1 => v \in walHistory
      BY <2>1 DEF Accounted, Credited
    <2> QED BY <1>1, <2>2, <2>3, ExactSums
  <1> DEFINE Sums == Timely => Accounted
  <1>2. Init => Types /\ Undisturbed /\ Sums
    BY InitTypes, InitUndisturbed, InitAccounted
  <1>3. Types /\ Undisturbed /\ Sums /\ [Next]_vars /\ [WithinList]_vars => Types' /\ Undisturbed' /\ Sums'
    BY TypesStep, UndisturbedStep, AccountedStep DEF Plain
  <1>4. Types /\ Sums => ReadyIsSummed
    BY <1>1
  <1> HIDE DEF Sums
  <1> QED BY <1>2, <1>3, <1>4, PTL DEF Spec

(* A small wallet: transparent outputs are paid to its first addresses.    *)
FirstWindow == \A v \in Vertices : ~Shielded(v) => Pays[v][2] < Gap
FirstListed(j) == j.at \in Past \cup {"claim"} => {a \in LegacyPath : a[2] < Gap} \subseteq j.list
AllFirstListed == \A l \in Loads : FirstListed(load[l])

(* No list is without the first window, wherever the load is.              *)
LEMMA FirstListedStep ==
    ASSUME Types, AllFirstListed, [Next]_vars
    PROVE  AllFirstListed'
  <1>1. CASE Aside
    BY <1>1 DEF Aside, Working, AllFirstListed, FirstListed, Past
  <1>2. CASE Daemon
    BY <1>2 DEF Daemon, DaemonOpens, DaemonAccepts, DaemonVoids, DaemonRollsBack, AllFirstListed, FirstListed
  <1>3. ASSUME NEW l \in Loads, OthersKept(l), FirstListed(load[l]) => FirstListed(load'[l])
        PROVE  AllFirstListed'
    BY <1>3 DEF OthersKept, AllFirstListed, FirstListed
  <1>4. ASSUME NEW l \in Loads, LoadReads(l) PROVE AllFirstListed'
    BY <1>3, <1>4, ReadsLeaves DEF FirstListed, Past
  <1>5. ASSUME NEW l \in Loads, LoadDerives(l) PROVE AllFirstListed'
    <2>1. {a \in LegacyPath : a[2] < Gap} \subseteq Window(NoKeys)
      <3> SUFFICES ASSUME NEW a \in LegacyPath, a[2] < Gap PROVE a \in Window(NoKeys)
        OBVIOUS
      <3>1. a \in Addresses /\ a[1] = NoKeys /\ a[2] \in Int
        BY LoadAssumption DEF LegacyPath, Addresses
      <3>2. LastUsed(NoKeys) \in Int /\ LastUsed(NoKeys) >= -1 /\ Gap \in Int
        BY LastUsedIs, LoadAssumption
      <3>3. a[2] <= LastUsed(NoKeys) + Gap
        BY <3>1, <3>2
      <3> QED BY <3>1, <3>3 DEF Window
    <2> QED BY <1>3, <1>5, <2>1, DerivesLeaves DEF FirstListed
  <1>6. ASSUME NEW l \in Loads, LoadClaims(l) PROVE AllFirstListed'
    BY <1>3, <1>6, ClaimsLeaves DEF FirstListed, Past
  <1>7. ASSUME NEW l \in Loads, NEW failed \in SUBSET Vertices, LoadSweeps(l, failed) PROVE AllFirstListed'
    BY <1>3, <1>7, SweepsLeaves DEF FirstListed, Past
  <1>8. ASSUME NEW l \in Loads, LoadRebuilds(l) PROVE AllFirstListed'
    BY <1>3, <1>8, RebuildsLeaves DEF FirstListed, Past
  <1>9. ASSUME NEW l \in Loads, LoadLocks(l) PROVE AllFirstListed'
    BY <1>3, <1>9, LocksLeaves DEF FirstListed, Past
  <1>10. ASSUME NEW l \in Loads, LoadSettles(l) PROVE AllFirstListed'
    BY <1>3, <1>10, SettlesLeaves DEF FirstListed, Past, Working
  <1> QED BY <1>1, <1>2, <1>4, <1>5, <1>6, <1>7, <1>8, <1>9, <1>10, AsideSteps

(* No transparent output of a small wallet is paid past a list: under the  *)
(* three assumptions on what happens meanwhile that Plain names, and but   *)
(* for late vertices, what is ready has its sums.                          *)
THEOREM SmallWalletsSum == Plain /\ FirstWindow /\ Spec => []ReadyIsSummed
  <1> SUFFICES ASSUME Plain, FirstWindow PROVE Spec => []ReadyIsSummed
    OBVIOUS
  <1>1. Init => Types /\ AllFirstListed
    <2>1. Init => AllFirstListed
      BY DEF Init, NoLoad, AllFirstListed, FirstListed, Past
    <2> QED BY <2>1, InitTypes
  <1>2. Types /\ AllFirstListed /\ [Next]_vars => Types' /\ AllFirstListed'
    BY TypesStep, FirstListedStep
  <1>3. AllFirstListed => WithinList
    <2> SUFFICES ASSUME AllFirstListed, NEW v \in Vertices, NEW l \in Loads, ~Shielded(v),
                        load[l].at \in Past \cup {"claim"}
                 PROVE  Pays[v] \in load[l].list
      BY DEF WithinList
    <2>1. Pays[v] \in LegacyPath /\ Pays[v][2] < Gap
      BY LegacyAddress DEF FirstWindow
    <2> QED BY <2>1 DEF AllFirstListed, FirstListed
  <1>4. Plain /\ Spec /\ [][WithinList]_vars => []ReadyIsSummed
    BY ReadyHasItsSums
  <1> QED BY <1>1, <1>2, <1>3, <1>4, PTL DEF Spec
=============================================================================
