------------------------- MODULE TxProposalProofs -------------------------
(***************************************************************************)
(* For any number of lambdas, proposals and outputs, and any faults: rows  *)
(* keep their shape and an output is set aside only for a proposal that is *)
(* open or sent.  MarksAreHeld is not inductive: the cron cancels without  *)
(* releasing, so what it found must still be free (Passing); a POST marks  *)
(* without reading again, so nobody else may know its id (Drawn).          *)
(***************************************************************************)
EXTENDS TxProposal, TLAPS

\* The id a POST drew is its own until it commits.
Drawn ==
    \A c, d \in Calls : c # d /\ call[c].at = "create" => call[c].proposal # call[d].proposal

\* What the cron found had been created, and once released stays released.
Passing ==
    /\ \A p \in cron.found : proposal[p].status # "none"
    /\ cron.at = "cancel" => \A u \in Utxos : utxo[u].mark \notin cron.found

Inv == TypeOK /\ MarksAreHeld /\ Drawn /\ Passing

USE ProposalAssumption, NoTxAssumption

LEMMA InitInv == Init => Inv
  BY DEF Init, Inv, TypeOK, MarksAreHeld, Drawn, Passing, NoCall, NoPass, Statuses, Txs

\* A lambda at work on proposal p, not to create it: only its own record changes.
LEMMA MovesInv ==
    ASSUME Inv, NEW c \in Calls, NEW r, UNCHANGED <<utxo, proposal, cron>>,
           r \in [at : {"send", "push", "pushed", "failed", "destroy"},
                  proposal : Proposals, inputs : Requests \cup {{}}],
           proposal[r.proposal].status # "none",
           call' = [call EXCEPT ![c] = r],
           fullnode' \in [Txs -> {"unknown", "accepted", "voided"}],
           daemon' \in [Txs -> {"unknown", "live", "voided"}]
    PROVE  Inv'
  <1>1. \A d \in Calls : call'[d] = IF d = c THEN r ELSE call[d]
    BY DEF Inv, TypeOK
  <1>2. NoProposal # r.proposal /\ r.at # "idle" /\ r.at # "create" /\ r.proposal \in Proposals
    OBVIOUS
  <1>3. TypeOK'
    <2>1. call' \in [Calls -> [at : {"idle", "create", "send", "push", "pushed", "failed", "destroy"},
                     proposal : Proposals \cup {NoProposal}, inputs : Requests \cup {{}}]]
      BY DEF Inv, TypeOK
    <2>2. \A d \in Calls : call'[d].at = "idle" <=> call'[d].proposal = NoProposal
      BY <1>1, <1>2 DEF Inv, TypeOK
    <2>3. \A d \in Calls : call'[d].at = "create" <=>
             call'[d].proposal \in Proposals /\ proposal'[call'[d].proposal].status = "none"
      BY <1>1, <1>2 DEF Inv, TypeOK
    <2> QED BY <2>1, <2>2, <2>3 DEF Inv, TypeOK
  <1>4. Drawn'
    <2>1. \A d \in Calls : call[d].at = "create" => call[d].proposal # r.proposal
      BY DEF Inv, TypeOK
    <2> QED BY <1>1, <1>2, <2>1 DEF Inv, Drawn
  <1>5. MarksAreHeld' /\ Passing'
    BY DEF Inv, MarksAreHeld, Passing
  <1> QED BY <1>3, <1>4, <1>5 DEF Inv

\* A lambda that answers.
LEMMA EndsInv ==
    ASSUME Inv, NEW c \in Calls, Ends(c), UNCHANGED <<utxo, proposal, cron, fullnode, daemon>>
    PROVE  Inv'
  <1>1. \A d \in Calls : call'[d] = IF d = c THEN NoCall ELSE call[d]
    BY DEF Inv, TypeOK, Ends
  <1>2. TypeOK'
    <2>1. call' \in [Calls -> [at : {"idle", "create", "send", "push", "pushed", "failed", "destroy"},
                     proposal : Proposals \cup {NoProposal}, inputs : Requests \cup {{}}]]
      BY DEF Inv, TypeOK, Ends, NoCall
    <2> QED BY <1>1, <2>1 DEF Inv, TypeOK, NoCall
  <1>3. Drawn'
    BY <1>1 DEF Inv, TypeOK, Drawn, NoCall
  <1>4. MarksAreHeld' /\ Passing'
    BY DEF Inv, MarksAreHeld, Passing
  <1> QED BY <1>2, <1>3, <1>4 DEF Inv

LEMMA CreateChecksInv ==
    ASSUME Inv, NEW c \in Calls, NEW p \in Proposals, NEW S \in Requests, CreateChecks(c, p, S)
    PROVE  Inv'
  <1> DEFINE r == [at |-> "create", proposal |-> p, inputs |-> S]
  <1>1. \A d \in Calls : call'[d] = IF d = c THEN r ELSE call[d]
    BY DEF Inv, TypeOK, CreateChecks
  <1>2. TypeOK'
    <2>1. call' \in [Calls -> [at : {"idle", "create", "send", "push", "pushed", "failed", "destroy"},
                     proposal : Proposals \cup {NoProposal}, inputs : Requests \cup {{}}]]
      BY DEF Inv, TypeOK, CreateChecks
    <2>2. \A d \in Calls : call'[d].at = "idle" <=> call'[d].proposal = NoProposal
      BY <1>1 DEF Inv, TypeOK
    <2>3. \A d \in Calls : call'[d].at = "create" <=>
             call'[d].proposal \in Proposals /\ proposal'[call'[d].proposal].status = "none"
      BY <1>1 DEF Inv, TypeOK, CreateChecks
    <2> QED BY <2>1, <2>2, <2>3 DEF Inv, TypeOK, CreateChecks
  <1>3. Drawn'
    BY <1>1 DEF Inv, Drawn, CreateChecks
  <1>4. MarksAreHeld' /\ Passing'
    BY DEF Inv, MarksAreHeld, Passing, CreateChecks
  <1> QED BY <1>2, <1>3, <1>4 DEF Inv

\* A lambda that answers after it changed the status of its own proposal.
LEMMA AnswersInv ==
    ASSUME Inv, NEW c \in Calls, call[c].at # "idle", Ends(c),
           NEW status \in {"open", "sent", "send_error", "cancelled"},
           updateTxProposal({call[c].proposal}, status),
           utxo' \in [Utxos -> [mark : Proposals \cup {NoProposal}, spentBy : Txs \cup {NoTx}]],
           UNCHANGED <<cron, fullnode, daemon>>
    PROVE  TypeOK' /\ Drawn'
  <1> DEFINE p == call[c].proposal
  <1>1. \A d \in Calls : call'[d] = IF d = c THEN NoCall ELSE call[d]
    BY DEF Inv, TypeOK, Ends
  <1>2. p \in Proposals
    BY DEF Inv, TypeOK
  <1>3. /\ proposal' \in [Proposals -> [status : Statuses, stale : BOOLEAN]]
        /\ \A q \in Proposals : proposal'[q].status = IF q = p THEN status ELSE proposal[q].status
    <2>1. /\ status \in Statuses
          /\ \A q \in Proposals : proposal[q] \in [status : Statuses, stale : BOOLEAN]
      BY DEF Inv, TypeOK, Statuses
    <2>2. proposal' = [q \in Proposals |-> IF q \in {p} THEN [proposal[q] EXCEPT !.status = status]
                                                         ELSE proposal[q]]
      BY DEF updateTxProposal
    <2> HIDE DEF p
    <2> QED BY <2>1, <2>2
  <1>4. \A d \in Calls : d # c /\ call[d].at = "create" => call[d].proposal # p
    <2>1. CASE call[c].at = "create" BY <2>1 DEF Inv, Drawn
    <2>2. CASE call[c].at # "create" BY <2>2, <1>2 DEF Inv, TypeOK
    <2> QED BY <2>1, <2>2
  <1>5. call' \in [Calls -> [at : {"idle", "create", "send", "push", "pushed", "failed", "destroy"},
                   proposal : Proposals \cup {NoProposal}, inputs : Requests \cup {{}}]]
    BY DEF Inv, TypeOK, Ends, NoCall
  <1>6. \A d \in Calls : call'[d].at = "create" <=>
           call'[d].proposal \in Proposals /\ proposal'[call'[d].proposal].status = "none"
    <2> SUFFICES ASSUME NEW d \in Calls
                 PROVE  call'[d].at = "create" <=>
                            call'[d].proposal \in Proposals /\ proposal'[call'[d].proposal].status = "none"
      OBVIOUS
    <2>1. CASE d = c BY <2>1, <1>1 DEF NoCall
    <2>2. CASE d # c
      <3>1. call'[d] = call[d] BY <2>2, <1>1
      <3>2. call[d].proposal \in Proposals =>
               (proposal'[call[d].proposal].status = "none" <=>
                    proposal[call[d].proposal].status = "none" /\ call[d].proposal # p)
        BY <1>3
      <3>3. call[d].at = "create" <=>
               call[d].proposal \in Proposals /\ proposal[call[d].proposal].status = "none"
        BY DEF Inv, TypeOK
      <3> QED BY <3>1, <3>2, <3>3, <2>2, <1>4
    <2> QED BY <2>1, <2>2
  <1>7. \A d \in Calls : call'[d].at = "idle" <=> call'[d].proposal = NoProposal
    BY <1>1 DEF Inv, TypeOK, NoCall
  <1>8. TypeOK'
    BY <1>3, <1>5, <1>6, <1>7 DEF Inv, TypeOK
  <1>9. Drawn'
    BY <1>1 DEF Inv, TypeOK, Drawn, NoCall
  <1> QED BY <1>8, <1>9

LEMMA CreateCommitsInv ==
    ASSUME Inv, NEW c \in Calls, CreateCommits(c)
    PROVE  Inv'
  <1> DEFINE p == call[c].proposal
  <1>1. p \in Proposals /\ proposal[p].status = "none"
    BY DEF Inv, TypeOK, CreateCommits
  <1>2. updateTxProposal({p}, "open")
    BY <1>1 DEF Inv, TypeOK, CreateCommits, createTxProposal, updateTxProposal
  <1>3. /\ utxo' \in [Utxos -> [mark : Proposals \cup {NoProposal}, spentBy : Txs \cup {NoTx}]]
        /\ \A u \in Utxos : utxo'[u].mark \in {utxo[u].mark, p}
    <2>1. PICK S : S = call[c].inputs
      OBVIOUS
    <2>2. utxo' = [u \in Utxos |-> IF u \in S THEN [utxo[u] EXCEPT !.mark = p] ELSE utxo[u]]
      BY <2>1 DEF CreateCommits, markUtxosWithProposalId
    <2>3. \A u \in Utxos : utxo[u] \in [mark : Proposals \cup {NoProposal}, spentBy : Txs \cup {NoTx}]
      BY DEF Inv, TypeOK
    <2> HIDE DEF p
    <2> QED BY <1>1, <2>2, <2>3
  <1>4. \A q \in Proposals : proposal'[q].status = IF q = p THEN "open" ELSE proposal[q].status
    BY <1>2 DEF Inv, TypeOK, updateTxProposal
  <1>5. TypeOK' /\ Drawn'
    BY <1>2, <1>3, AnswersInv DEF CreateCommits
  <1>6. MarksAreHeld'
    BY <1>1, <1>3, <1>4 DEF Inv, TypeOK, MarksAreHeld
  <1>7. Passing'
    <2>1. p \notin cron.found
      BY <1>1 DEF Inv, Passing
    <2>2. cron' = cron /\ cron.found \subseteq Proposals
      BY DEF Inv, TypeOK, CreateCommits
    <2>3. \A q \in cron.found : proposal'[q].status # "none"
      BY <1>4, <2>2 DEF Inv, Passing
    <2>4. cron.at = "cancel" => \A u \in Utxos : utxo'[u].mark \notin cron.found
      BY <1>3, <2>1 DEF Inv, Passing
    <2> QED BY <2>2, <2>3, <2>4 DEF Passing
  <1> QED BY <1>5, <1>6, <1>7 DEF Inv

\* SENT, without a release.
LEMMA SentInv ==
    ASSUME Inv, NEW c \in Calls, call[c].at = "pushed", Ends(c),
           updateTxProposal({call[c].proposal}, "sent"), UNCHANGED <<utxo, cron, fullnode, daemon>>
    PROVE  Inv'
  <1> DEFINE p == call[c].proposal
  <1>1. p \in Proposals
    BY DEF Inv, TypeOK
  <1>2. \A q \in Proposals : proposal'[q].status = IF q = p THEN "sent" ELSE proposal[q].status
    BY <1>1 DEF Inv, TypeOK, updateTxProposal
  <1>3. TypeOK' /\ Drawn'
    BY AnswersInv DEF Inv, TypeOK
  <1>4. MarksAreHeld' /\ Passing'
    BY <1>2 DEF Inv, TypeOK, MarksAreHeld, Passing
  <1> QED BY <1>3, <1>4 DEF Inv

\* What a release does to the marks.
LEMMA Releases ==
    ASSUME Inv, NEW P, releaseTxProposalUtxos(P)
    PROVE  /\ utxo' \in [Utxos -> [mark : Proposals \cup {NoProposal}, spentBy : Txs \cup {NoTx}]]
           /\ \A u \in Utxos : utxo'[u].mark = IF utxo[u].mark \in P THEN NoProposal ELSE utxo[u].mark
  BY DEF Inv, TypeOK, releaseTxProposalUtxos

LEMMA GivenUpInv ==
    ASSUME Inv, NEW c \in Calls, SendErrors(c) \/ DestroyCommits(c)
    PROVE  Inv'
  <1> DEFINE p == call[c].proposal
  <1>1. p \in Proposals /\ call[c].at # "idle"
    BY DEF Inv, TypeOK, SendErrors, DestroyCommits
  <1>2. PICK status \in {"send_error", "cancelled"} : updateTxProposal({p}, status)
    BY DEF SendErrors, DestroyCommits
  <1>3. releaseTxProposalUtxos({p}) /\ Ends(c) /\ UNCHANGED <<cron, fullnode, daemon>>
    BY DEF SendErrors, DestroyCommits
  <1>4. \A q \in Proposals : proposal'[q].status = IF q = p THEN status ELSE proposal[q].status
    BY <1>1, <1>2 DEF Inv, TypeOK, updateTxProposal
  <1>5. TypeOK' /\ Drawn'
    <2>1. utxo' \in [Utxos -> [mark : Proposals \cup {NoProposal}, spentBy : Txs \cup {NoTx}]]
      BY <1>3, Releases
    <2>2. status \in {"open", "sent", "send_error", "cancelled"}
      OBVIOUS
    <2> QED BY <1>1, <1>2, <1>3, <2>1, <2>2, AnswersInv
  <1>6. MarksAreHeld'
    BY <1>3, <1>4, Releases DEF Inv, TypeOK, MarksAreHeld
  <1>7. Passing'
    <2>1. cron' = cron /\ cron.found \subseteq Proposals /\ NoProposal \notin cron.found
      BY <1>3 DEF Inv, TypeOK
    <2>2. \A q \in cron.found : proposal'[q].status # "none"
      BY <1>4, <2>1 DEF Inv, Passing
    <2>3. cron.at = "cancel" => \A u \in Utxos : utxo'[u].mark \notin cron.found
      BY <1>3, <2>1, Releases DEF Inv, Passing
    <2> QED BY <2>1, <2>2, <2>3 DEF Passing
  <1> QED BY <1>5, <1>6, <1>7 DEF Inv

(* The cron. *)
LEMMA CronReadsInv == Inv /\ CronReads => Inv'
  BY DEF Inv, TypeOK, MarksAreHeld, Drawn, Passing, CronReads, getUnsentTxProposals

LEMMA CronReleasesInv ==
    ASSUME Inv, CronReleases
    PROVE  Inv'
  <1>1. cron' = [at |-> "cancel", found |-> cron.found] /\ UNCHANGED <<proposal, call, fullnode, daemon>>
    BY DEF Inv, TypeOK, CronReleases
  <1>2. TypeOK' /\ Drawn'
    BY <1>1, Releases DEF Inv, TypeOK, Drawn, CronReleases
  <1>3. MarksAreHeld'
    BY <1>1, Releases DEF Inv, MarksAreHeld, CronReleases
  <1>4. Passing'
    BY <1>1, Releases DEF Inv, TypeOK, Passing, CronReleases
  <1> QED BY <1>2, <1>3, <1>4 DEF Inv

LEMMA CronCancelsInv ==
    ASSUME Inv, CronCancels
    PROVE  Inv'
  <1>1. /\ proposal' \in [Proposals -> [status : Statuses, stale : BOOLEAN]]
        /\ \A q \in Proposals :
               proposal'[q].status = IF q \in cron.found THEN "cancelled" ELSE proposal[q].status
    BY DEF Inv, TypeOK, CronCancels, updateTxProposal, Statuses
  <1>2. \A q \in Proposals : proposal'[q].status = "none" <=> proposal[q].status = "none"
    BY <1>1 DEF Inv, Passing
  <1>3. TypeOK'
    BY <1>1, <1>2 DEF Inv, TypeOK, CronCancels, NoPass
  <1>4. MarksAreHeld'
    BY <1>1 DEF Inv, TypeOK, MarksAreHeld, Passing, CronCancels
  <1>5. Drawn' /\ Passing'
    BY DEF Inv, Drawn, Passing, CronCancels, NoPass
  <1> QED BY <1>3, <1>4, <1>5 DEF Inv

LEMMA CronAbortsInv == Inv /\ CronAborts => Inv'
  BY DEF Inv, TypeOK, MarksAreHeld, Drawn, Passing, CronAborts, NoPass

LEMMA AgesInv ==
    ASSUME Inv, NEW p \in Proposals, Ages(p)
    PROVE  Inv'
  <1>1. /\ proposal' \in [Proposals -> [status : Statuses, stale : BOOLEAN]]
        /\ \A q \in Proposals : proposal'[q].status = proposal[q].status
    <2>1. proposal' = [proposal EXCEPT ![p] = [proposal[p] EXCEPT !.stale = TRUE]]
      BY DEF Inv, TypeOK, Ages
    <2>2. ASSUME NEW v \in BOOLEAN
          PROVE  /\ [proposal[p] EXCEPT !.stale = v] \in [status : Statuses, stale : BOOLEAN]
                 /\ [proposal[p] EXCEPT !.stale = v].status = proposal[p].status
      BY DEF Inv, TypeOK
    <2>3. PICK v \in BOOLEAN : v = TRUE
      OBVIOUS
    <2>4. proposal' = [proposal EXCEPT ![p] = [proposal[p] EXCEPT !.stale = v]]
      BY <2>1, <2>3
    <2> QED BY <2>2, <2>4 DEF Inv, TypeOK
  <1>2. TypeOK'
    BY <1>1 DEF Inv, TypeOK, Ages
  <1>3. MarksAreHeld' /\ Drawn' /\ Passing'
    BY <1>1 DEF Inv, TypeOK, MarksAreHeld, Drawn, Passing, Ages
  <1> QED BY <1>2, <1>3 DEF Inv

(* The daemon: a mark may go, none comes. *)
LEMMA EventsInv ==
    ASSUME Inv, NEW tx \in Txs, FullnodeVoids(tx) \/ updateTxOutputSpentBy(tx) \/ voidTx(tx)
    PROVE  Inv'
  <1>1. UNCHANGED <<proposal, call, cron>>
    BY DEF FullnodeVoids, updateTxOutputSpentBy, voidTx
  <1>2. /\ utxo' \in [Utxos -> [mark : Proposals \cup {NoProposal}, spentBy : Txs \cup {NoTx}]]
        /\ \A u \in Utxos : utxo'[u].mark \in {utxo[u].mark, NoProposal}
    <2>1. CASE FullnodeVoids(tx) BY <2>1 DEF Inv, TypeOK, FullnodeVoids
    <2>2. CASE updateTxOutputSpentBy(tx)
      <3>1. utxo' = [u \in Utxos |-> IF u \in tx.inputs THEN [utxo[u] EXCEPT !.spentBy = tx] ELSE utxo[u]]
        BY <2>2 DEF updateTxOutputSpentBy
      <3>2. \A u \in Utxos : utxo[u] \in [mark : Proposals \cup {NoProposal}, spentBy : Txs \cup {NoTx}]
        BY DEF Inv, TypeOK
      <3> QED BY <3>1, <3>2
    <2>3. CASE voidTx(tx)
      <3> DEFINE row(u) == IF u \in tx.inputs
                           THEN [mark |-> NoProposal,
                                 spentBy |-> IF utxo[u].spentBy = tx THEN NoTx ELSE utxo[u].spentBy]
                           ELSE utxo[u]
      <3>1. utxo' = [u \in Utxos |-> row(u)]
        BY <2>3 DEF voidTx
      <3>2. ASSUME NEW u \in Utxos
            PROVE  /\ row(u) \in [mark : Proposals \cup {NoProposal}, spentBy : Txs \cup {NoTx}]
                   /\ row(u).mark \in {utxo[u].mark, NoProposal}
        <4>1. utxo[u] \in [mark : Proposals \cup {NoProposal}, spentBy : Txs \cup {NoTx}]
          BY DEF Inv, TypeOK
        <4>2. CASE u \in tx.inputs
          <5> DEFINE spender == IF utxo[u].spentBy = tx THEN NoTx ELSE utxo[u].spentBy
          <5>1. row(u) = [mark |-> NoProposal, spentBy |-> spender]
            BY <4>2
          <5>2. spender \in Txs \cup {NoTx}
            BY <4>1
          <5> QED BY <5>1, <5>2
        <4>3. CASE u \notin tx.inputs
          BY <4>1, <4>3
        <4> QED BY <4>2, <4>3
      <3> HIDE DEF row
      <3> QED BY <3>1, <3>2
    <2> QED BY <2>1, <2>2, <2>3
  <1>3. /\ fullnode' \in [Txs -> {"unknown", "accepted", "voided"}]
        /\ daemon' \in [Txs -> {"unknown", "live", "voided"}]
    BY DEF Inv, TypeOK, FullnodeVoids, updateTxOutputSpentBy, voidTx
  <1>4. TypeOK'
    BY <1>1, <1>2, <1>3 DEF Inv, TypeOK
  <1>5. MarksAreHeld' /\ Drawn' /\ Passing'
    BY <1>1, <1>2 DEF Inv, TypeOK, MarksAreHeld, Drawn, Passing
  <1> QED BY <1>4, <1>5 DEF Inv

(* Every step. *)
LEMMA NextInv == Inv /\ [Next]_vars => Inv'
  <1> SUFFICES ASSUME Inv, [Next]_vars PROVE Inv'
    OBVIOUS
  <1>1. CASE UNCHANGED vars
    BY <1>1 DEF vars, Inv, TypeOK, MarksAreHeld, Drawn, Passing
  <1>2. ASSUME NEW c \in Calls, NEW p \in Proposals, NEW S \in Requests,
               CreateChecks(c, p, S) \/ SendReads(c, p, S)
        PROVE  Inv'
    <2>1. CASE CreateChecks(c, p, S) BY <2>1, CreateChecksInv
    <2>2. CASE SendReads(c, p, S)
      BY <2>2, MovesInv DEF SendReads, Sendable, Inv, TypeOK
    <2> QED BY <1>2, <2>1, <2>2
  <1>3. ASSUME NEW c \in Calls, SendMatches(c) \/ PushAccepted(c) \/ PushFails(c) \/ SendSucceeds(c)
                                \/ CallAborts(c)
        PROVE  Inv'
    <2> DEFINE moved(place) == [at |-> place, proposal |-> call[c].proposal, inputs |-> call[c].inputs]
    <2>1. ASSUME NEW place \in {"push", "pushed", "failed"}, Goes(c, place),
                 call[c].at \in {"send", "push", "pushed"}, UNCHANGED <<utxo, proposal, cron>>,
                 fullnode' \in [Txs -> {"unknown", "accepted", "voided"}], UNCHANGED daemon
          PROVE  Inv'
      <3>1. call' = [call EXCEPT ![c] = moved(place)]
        <4>1. call[c] \in [at : {"idle", "create", "send", "push", "pushed", "failed", "destroy"},
                           proposal : Proposals \cup {NoProposal}, inputs : Requests \cup {{}}]
          BY DEF Inv, TypeOK
        <4>2. [call[c] EXCEPT !.at = place] = moved(place)
          BY <4>1
        <4>3. call' = [call EXCEPT ![c] = [call[c] EXCEPT !.at = place]]
          BY <2>1 DEF Goes
        <4> QED BY <4>2, <4>3
      <3>2. /\ moved(place) \in [at : {"send", "push", "pushed", "failed", "destroy"},
                                 proposal : Proposals, inputs : Requests \cup {{}}]
            /\ proposal[moved(place).proposal].status # "none"
        BY <2>1 DEF Inv, TypeOK
      <3>3. daemon' \in [Txs -> {"unknown", "live", "voided"}]
        BY <2>1 DEF Inv, TypeOK
      <3> HIDE DEF moved
      <3> QED BY <2>1, <3>1, <3>2, <3>3, MovesInv
    <2>2. fullnode \in [Txs -> {"unknown", "accepted", "voided"}]
      BY DEF Inv, TypeOK
    <2>3. CASE SendMatches(c) BY <2>1, <2>2, <2>3, EndsInv DEF SendMatches
    <2>4. CASE PushAccepted(c)
      <3>1. fullnode' \in [Txs -> {"unknown", "accepted", "voided"}]
        BY <2>2, <2>4 DEF PushAccepted
      <3> QED BY <2>1, <2>4, <3>1 DEF PushAccepted
    <2>5. CASE PushFails(c) BY <2>1, <2>2, <2>5 DEF PushFails
    <2>6. CASE SendSucceeds(c) BY <2>1, <2>2, <2>6, SentInv DEF SendSucceeds
    <2>7. CASE CallAborts(c) BY <2>7, EndsInv DEF CallAborts
    <2> QED BY <1>3, <2>3, <2>4, <2>5, <2>6, <2>7
  <1>4. ASSUME NEW c \in Calls, CreateCommits(c) \/ SendErrors(c) \/ DestroyCommits(c)
        PROVE  Inv'
    BY <1>4, CreateCommitsInv, GivenUpInv
  <1>5. CASE CronReads \/ CronReleases \/ CronCancels \/ CronAborts
    BY <1>5, CronReadsInv, CronReleasesInv, CronCancelsInv, CronAbortsInv
  <1>6. CASE \E p \in Proposals : Ages(p)
    BY <1>6, AgesInv
  <1>7. CASE \E tx \in Txs : FullnodeVoids(tx) \/ updateTxOutputSpentBy(tx) \/ voidTx(tx)
    BY <1>7, EventsInv
  <1>8. CASE \E c \in Calls, p \in Proposals : DestroyReads(c, p)
    <2>1. PICK c \in Calls, p \in Proposals : DestroyReads(c, p)
      BY <1>8
    <2> QED BY <2>1, MovesInv DEF DestroyReads, Sendable, Inv, TypeOK
  <1> QED BY <1>1, <1>2, <1>3, <1>4, <1>5, <1>6, <1>7, <1>8 DEF Next

\* TypeOK is an invariant: in particular the id of a POST in flight is in no table.
THEOREM RowsTypeCorrect == Spec => []TypeOK
  <1>1. Inv => TypeOK
    BY DEF Inv
  <1> QED BY <1>1, InitInv, NextInv, PTL DEF Spec

\* An output is set aside only for a proposal that is open or sent, however
\* requests and the cron interleave and whichever of them dies.
THEOREM MarksHeld == Spec => []MarksAreHeld
  <1>1. Inv => MarksAreHeld
    BY DEF Inv
  <1> QED BY <1>1, InitInv, NextInv, PTL DEF Spec
=============================================================================
