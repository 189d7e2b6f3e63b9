---------------------------- MODULE TxProposal ----------------------------
(***************************************************************************)
(* Transaction proposals of the wallet service: a client asks for outputs  *)
(* to be set aside (POST), sends the signed transaction (PUT) or gives the *)
(* proposal up (DELETE); a cron releases what nobody sent.  Every request  *)
(* is a lambda of its own (packages/wallet-service/src/api/txProposal*.ts, *)
(* src/db/cronRoutines.ts) that reads and writes the database one query at *)
(* a time: one action per query, or per database transaction.  The daemon, *)
(* which learns from the fullnode what was spent, is here what             *)
(* handleVertexAccepted and voidTx do to the same rows.                    *)
(***************************************************************************)
EXTENDS Naturals, FiniteSets

CONSTANTS Calls,        \* lambda invocations that may run at the same time
          Proposals, Utxos, Wallets, TxIds,
          NoProposal, NoTx,
          TxIdOf,       \* [Utxos -> TxIds], half of an output's key
          Owner,        \* [Utxos -> Wallets]
          Requests,     \* the sets of inputs clients ask for, or send
          Faults        \* what may go wrong

FaultKinds == {"timeout", "dbError", "lostResponse", "void"}

ASSUME ProposalAssumption ==
    /\ NoProposal \notin Proposals
    /\ TxIdOf \in [Utxos -> TxIds] /\ Owner \in [Utxos -> Wallets]
    /\ Requests \subseteq SUBSET Utxos
    /\ Faults \subseteq FaultKinds

Txs == [proposal : Proposals, inputs : Requests]
ASSUME NoTxAssumption == NoTx \notin Txs

VARIABLES utxo,      \* tx_output: tx_proposal and spent_by of the row
          proposal,  \* tx_proposal; stale: created_at is over five minutes ago
          call,      \* the lambdas that serve requests
          cron,      \* the lambda cleanUnsentTxProposalsUtxos
          fullnode,  \* what the fullnode thinks of a transaction
          daemon     \* what the daemon has handled of it: the rows of transaction
vars == <<utxo, proposal, call, cron, fullnode, daemon>>

Statuses == {"none", "open", "sent", "send_error", "cancelled"}
NoCall == [at |-> "idle", proposal |-> NoProposal, inputs |-> {}]
NoPass == [at |-> "idle", found |-> {}]
Sendable(p) == proposal[p].status \in {"open", "send_error"}
getTxProposalInputs(p) == {u \in Utxos : utxo[u].mark = p}

Init ==
    /\ utxo = [u \in Utxos |-> [mark |-> NoProposal, spentBy |-> NoTx]]
    /\ proposal = [p \in Proposals |-> [status |-> "none", stale |-> FALSE]]
    /\ call = [c \in Calls |-> NoCall]
    /\ cron = NoPass
    /\ fullnode = [tx \in Txs |-> "unknown"] /\ daemon = [tx \in Txs |-> "unknown"]

Ends(c) == call' = [call EXCEPT ![c] = NoCall]
Goes(c, place) == call' = [call EXCEPT ![c].at = place]

\* The statements.
createTxProposal(p) == proposal' = [proposal EXCEPT ![p].status = "open"]
updateTxProposal(P, status) ==
    proposal' = [p \in Proposals |-> IF p \in P THEN [proposal[p] EXCEPT !.status = status]
                                                ELSE proposal[p]]
markUtxosWithProposalId(p, S) ==
    utxo' = [u \in Utxos |-> IF u \in S THEN [utxo[u] EXCEPT !.mark = p] ELSE utxo[u]]
\* A mutant: releases only outputs nobody has spent yet.
ReleaseUnspent(P) ==
    utxo' = [u \in Utxos |-> IF utxo[u].mark \in P /\ utxo[u].spentBy = NoTx
                             THEN [utxo[u] EXCEPT !.mark = NoProposal] ELSE utxo[u]]
releaseTxProposalUtxos(P) ==
    utxo' = [u \in Utxos |-> IF utxo[u].mark \in P
                             THEN [utxo[u] EXCEPT !.mark = NoProposal] ELSE utxo[u]]

---------------------------------------------------------------------------
(* POST: check the outputs, then, later, insert the proposal and mark them. *)

checkUsedUtxos(S) == \E u \in S : utxo[u].mark # NoProposal

CreateChecks(c, p, S) ==
    /\ call[c].at = "idle"
    /\ proposal[p].status = "none" /\ \A d \in Calls : call[d].proposal # p   \* uuidv4
    /\ \A u \in S : utxo[u].spentBy = NoTx
    /\ \E w \in Wallets : \A u \in S : Owner[u] = w
    /\ ~checkUsedUtxos(S)
    /\ call' = [call EXCEPT ![c] = [at |-> "create", proposal |-> p, inputs |-> S]]
    /\ UNCHANGED <<utxo, proposal, cron, fullnode, daemon>>

CreateCommits(c) ==
    /\ call[c].at = "create"
    /\ createTxProposal(call[c].proposal)
    /\ markUtxosWithProposalId(call[c].proposal, call[c].inputs)
    /\ Ends(c)
    /\ UNCHANGED <<cron, fullnode, daemon>>

---------------------------------------------------------------------------
(* PUT: the proposal may be sent, its inputs are the transaction's, push.    *)

\* inputs.length, then only the transaction id of each input.
Matches(S, marked) ==
    /\ Cardinality(S) = Cardinality(marked)
    /\ {TxIdOf[u] : u \in marked} \subseteq {TxIdOf[u] : u \in S}

SendReads(c, p, S) ==
    /\ call[c].at = "idle"
    /\ Sendable(p)
    /\ call' = [call EXCEPT ![c] = [at |-> "send", proposal |-> p, inputs |-> S]]
    /\ UNCHANGED <<utxo, proposal, cron, fullnode, daemon>>

SendMatches(c) ==
    /\ call[c].at = "send"
    /\ IF Matches(call[c].inputs, getTxProposalInputs(call[c].proposal))
       THEN Goes(c, "push") ELSE Ends(c)
    /\ UNCHANGED <<utxo, proposal, cron, fullnode, daemon>>

TxOf(c) == [proposal |-> call[c].proposal, inputs |-> call[c].inputs]
Accepted == {tx \in Txs : fullnode[tx] = "accepted"}
\* The fullnode takes a transaction it does not know that spends nothing twice.
Accepts(tx) == fullnode[tx] = "unknown" /\ \A other \in Accepted : other.inputs \cap tx.inputs = {}

PushAccepted(c) ==
    /\ call[c].at = "push" /\ Accepts(TxOf(c))
    /\ fullnode' = [fullnode EXCEPT ![TxOf(c)] = "accepted"]
    /\ \/ Goes(c, "pushed")
       \/ "lostResponse" \in Faults /\ Goes(c, "failed")
    /\ UNCHANGED <<utxo, proposal, cron, daemon>>

PushFails(c) ==
    /\ call[c].at = "push"
    /\ ~Accepts(TxOf(c)) \/ "lostResponse" \in Faults
    /\ Goes(c, "failed")
    /\ UNCHANGED <<utxo, proposal, cron, fullnode, daemon>>

\* The same try holds pushTx and this update: an error of either is a failed send.
SendSucceeds(c) ==
    /\ call[c].at = "pushed"
    /\ \/ updateTxProposal({call[c].proposal}, "sent") /\ Ends(c)
       \/ "dbError" \in Faults /\ Goes(c, "failed") /\ UNCHANGED proposal
    /\ UNCHANGED <<utxo, cron, fullnode, daemon>>

SendErrors(c) ==
    /\ call[c].at = "failed"
    /\ updateTxProposal({call[c].proposal}, "send_error")
    /\ releaseTxProposalUtxos({call[c].proposal})
    /\ Ends(c)
    /\ UNCHANGED <<cron, fullnode, daemon>>

---------------------------------------------------------------------------
(* DELETE. *)

DestroyReads(c, p) ==
    /\ call[c].at = "idle"
    /\ Sendable(p)
    /\ call' = [call EXCEPT ![c] = [at |-> "destroy", proposal |-> p, inputs |-> {}]]
    /\ UNCHANGED <<utxo, proposal, cron, fullnode, daemon>>

DestroyCommits(c) ==
    /\ call[c].at = "destroy"
    /\ updateTxProposal({call[c].proposal}, "cancelled")
    /\ releaseTxProposalUtxos({call[c].proposal})
    /\ Ends(c)
    /\ UNCHANGED <<cron, fullnode, daemon>>

\* A lambda that times out, or whose transaction fails and is rolled back.
CallAborts(c) ==
    /\ call[c].at # "idle"
    /\ \/ "timeout" \in Faults
       \/ "dbError" \in Faults /\ call[c].at \in {"create", "destroy", "failed"}
    /\ Ends(c)
    /\ UNCHANGED <<utxo, proposal, cron, fullnode, daemon>>

---------------------------------------------------------------------------
(* The cron, every five minutes. *)

\* A mutant: only proposals that were tried are cleaned up.
OnlyTried == {p \in Proposals : proposal[p].stale /\ proposal[p].status = "send_error"}

getUnsentTxProposals ==
    {p \in Proposals : proposal[p].stale /\ proposal[p].status \in {"open", "send_error", "cancelled"}}

CronReads ==
    /\ cron.at = "idle" /\ getUnsentTxProposals # {}
    /\ cron' = [at |-> "release", found |-> getUnsentTxProposals]
    /\ UNCHANGED <<utxo, proposal, call, fullnode, daemon>>

CronReleases ==
    /\ cron.at = "release"
    /\ releaseTxProposalUtxos(cron.found)
    /\ cron' = [cron EXCEPT !.at = "cancel"]
    /\ UNCHANGED <<proposal, call, fullnode, daemon>>

CronCancels ==
    /\ cron.at = "cancel"
    /\ updateTxProposal(cron.found, "cancelled")
    /\ cron' = NoPass
    /\ UNCHANGED <<utxo, call, fullnode, daemon>>

CronAborts ==
    /\ cron.at # "idle" /\ Faults \cap {"timeout", "dbError"} # {}
    /\ cron' = NoPass
    /\ UNCHANGED <<utxo, proposal, call, fullnode, daemon>>

Ages(p) ==
    /\ proposal[p].status # "none" /\ ~proposal[p].stale
    /\ proposal' = [proposal EXCEPT ![p].stale = TRUE]
    /\ UNCHANGED <<utxo, call, cron, fullnode, daemon>>

---------------------------------------------------------------------------
(* What the fullnode's events make the daemon do to the same rows. *)

FullnodeVoids(tx) ==
    /\ "void" \in Faults /\ tx \in Accepted
    /\ fullnode' = [fullnode EXCEPT ![tx] = "voided"]
    /\ UNCHANGED <<utxo, proposal, call, cron, daemon>>

\* handleVertexAccepted: updateTxOutputSpentBy.  The events of conflicting
\* transactions come in order: what made room for this one was handled before.
updateTxOutputSpentBy(tx) ==
    /\ fullnode[tx] # "unknown" /\ daemon[tx] = "unknown"
    /\ \A other \in Txs : daemon[other] = "live" => other.inputs \cap tx.inputs = {}
    /\ daemon' = [daemon EXCEPT ![tx] = "live"]
    /\ utxo' = [u \in Utxos |-> IF u \in tx.inputs THEN [utxo[u] EXCEPT !.spentBy = tx] ELSE utxo[u]]
    /\ UNCHANGED <<proposal, call, cron, fullnode>>

\* voidTx: unspendUtxos and clearTxProposalForVoidedTx.
voidTx(tx) ==
    /\ fullnode[tx] = "voided" /\ daemon[tx] = "live"
    /\ daemon' = [daemon EXCEPT ![tx] = "voided"]
    /\ utxo' = [u \in Utxos |->
           IF u \in tx.inputs
           THEN [mark |-> NoProposal, spentBy |-> IF utxo[u].spentBy = tx THEN NoTx ELSE utxo[u].spentBy]
           ELSE utxo[u]]
    /\ UNCHANGED <<proposal, call, cron, fullnode>>

Next ==
    \/ \E c \in Calls, p \in Proposals, S \in Requests :
           CreateChecks(c, p, S) \/ SendReads(c, p, S)
    \/ \E c \in Calls : \/ CreateCommits(c) \/ SendMatches(c) \/ PushAccepted(c) \/ PushFails(c)
                        \/ SendSucceeds(c) \/ SendErrors(c) \/ DestroyCommits(c) \/ CallAborts(c)
    \/ \E c \in Calls, p \in Proposals : DestroyReads(c, p)
    \/ CronReads \/ CronReleases \/ CronCancels \/ CronAborts
    \/ \E p \in Proposals : Ages(p)
    \/ \E tx \in Txs : FullnodeVoids(tx) \/ updateTxOutputSpentBy(tx) \/ voidTx(tx)

Spec == Init /\ [][Next]_vars
\* The scheduler runs the cron again and again, and not every pass is cut short.
Fairness == /\ \A p \in Proposals : WF_vars(Ages(p))
            /\ WF_vars(CronReads) /\ SF_vars(CronReleases) /\ SF_vars(CronCancels)
FairSpec == Spec /\ Fairness

---------------------------------------------------------------------------
(* Properties. *)

\* Rows and lambdas keep their shape; a lambda that answered remembers nothing,
\* and the id a POST drew is in no table until it commits.
TypeOK ==
    /\ utxo \in [Utxos -> [mark : Proposals \cup {NoProposal}, spentBy : Txs \cup {NoTx}]]
    /\ proposal \in [Proposals -> [status : Statuses, stale : BOOLEAN]]
    /\ call \in [Calls -> [at : {"idle", "create", "send", "push", "pushed", "failed", "destroy"},
                           proposal : Proposals \cup {NoProposal}, inputs : Requests \cup {{}}]]
    /\ \A c \in Calls : call[c].at = "idle" <=> call[c].proposal = NoProposal
    /\ \A c \in Calls : call[c].at = "create" <=>
           call[c].proposal \in Proposals /\ proposal[call[c].proposal].status = "none"
    /\ cron \in [at : {"idle", "release", "cancel"}, found : SUBSET Proposals]
    /\ fullnode \in [Txs -> {"unknown", "accepted", "voided"}]
    /\ daemon \in [Txs -> {"unknown", "live", "voided"}]

\* An output is set aside only for a proposal that is open or sent: whatever the
\* order of POST, PUT, DELETE and the cron, whoever fails in between, a proposal
\* that was cancelled or whose send failed holds nothing, and no mark is orphaned.
MarksAreHeld ==
    \A u \in Utxos : utxo[u].mark # NoProposal =>
        proposal[utxo[u].mark].status \in {"open", "sent"}

\* An output set aside for a proposal nobody sends is given back: no lambda that
\* dies holds it for ever.
UnsentAreReleased ==
    \A u \in Utxos, p \in Proposals :
        utxo[u].mark = p /\ proposal[p].status = "open"
            ~> utxo[u].mark # p \/ proposal[p].status = "sent"

\* "UTXOs should remain locked when txProposalSend succeeds"
\* (tests/txProposalUtxoUnlock.test.ts): until the daemon sees the transaction,
\* its inputs stay set aside.
SentHoldsInputs ==
    \A tx \in Accepted : daemon[tx] = "unknown" /\ proposal[tx.proposal].status = "sent" => \A u \in tx.inputs : utxo[u].mark = tx.proposal
=============================================================================
