--------------------------- MODULE ChannelWithdraw ---------------------------
(***************************************************************************)
(* Withdraws and cooperative settlement on an open channel, interleaved    *)
(* with the transfers of NettingChannel: all their messages share one      *)
(* sequence of nonces in each direction.                                   *)
(*                                                                         *)
(* our_withdraws[n] and partner_withdraws[n] are the withdraw part of      *)
(* channel_state.our_state and channel_state.partner_state of node n: the  *)
(* dictionary withdraws_pending in insertion order, withdraws_expired,     *)
(* onchain_total_withdraw and initiated_coop_settle.  The total_withdraw   *)
(* of the end state is kept up to date with them.  A signature is the      *)
(* withdraw it was given for.                                              *)
(*                                                                         *)
(* transactions are the withdraw and coop-settle transactions the nodes    *)
(* sent; the contract executes them, or not, while they are valid.  When   *)
(* the channel is settled cooperatively a node drops it as soon as it      *)
(* processes the block, settled is the number of that block.               *)
(***************************************************************************)
EXTENDS NettingChannel, FiniteSetsExt

CONSTANT WithdrawAmount  \* totals the users ask to withdraw

VARIABLES
    our_withdraws,      \* withdraws of channel_state.our_state
    partner_withdraws,  \* withdraws of channel_state.partner_state
    transactions,       \* transactions sent to the contract
    withdrawn,          \* withdrawn[n][b]: total withdraw of n as of block b
    settled             \* block of the cooperative settlement, or 0

wvars == <<our_withdraws, partner_withdraws, transactions, withdrawn, settled>>

allvars == <<vars, wvars>>

NoCoopSettle == [initiated |-> FALSE]

NoSignature == << >>

NoWithdraws == [pending |-> << >>, expired |-> << >>, onchain |-> 0, coop |-> NoCoopSettle]

WInit ==
    /\ Init
    /\ our_withdraws = [n \in Node |-> NoWithdraws]
    /\ partner_withdraws = [n \in Node |-> NoWithdraws]
    /\ transactions = {}
    /\ withdrawn = [n \in Node |-> [b \in 1 .. 1 + Confirmations |-> 0]]
    /\ settled = 0

(* The node has not seen the cooperative settlement. *)
IsOpen(n) == settled = 0 \/ block[n] < settled

-----------------------------------------------------------------------------
(* Quantities and updates. *)

offchain_total_withdraw(w) ==
    IF w.pending = << >> THEN 0
    ELSE Max({w.pending[i].total : i \in DOMAIN w.pending})

TotalWithdraw(w) == AtLeast(offchain_total_withdraw(w), w.onchain)

get_max_withdraw_amount(sender, receiver) ==
    sender.contract_balance - sender.transferred + receiver.transferred

get_safe_initial_expiration(n) == block[n] + 2 * RevealTimeout - 1

get_number_of_pending_transfers(e) == Len(e.pending_locks)

Find(list, total) == SelectSeq(list, LAMBDA x : x.total = total)

Delete(list, total) == SelectSeq(list, LAMBDA x : x.total # total)

(* dictionary[x.total] = x: an existing key keeps its place. *)
Put(list, x) ==
    IF Find(list, x.total) = << >> THEN Append(list, x)
    ELSE [i \in DOMAIN list |-> IF list[i].total = x.total THEN x ELSE list[i]]

PendingWithdraw(total, expiration) == [total |-> total, expiration |-> expiration]

AddWithdraw(w, total, expiration) ==
    [w EXCEPT !.pending = Put(@, PendingWithdraw(total, expiration))]

(* The end state e at nonce with the withdraws w. *)
SetWithdraws(e, nonce, w) == [e EXCEPT !.nonce = nonce, !.total_withdraw = TotalWithdraw(w)]

WithdrawRequest(nonce, total, expiration, coop) ==
    [type |-> "WithdrawRequest", nonce |-> nonce, total |-> total,
     expiration |-> expiration, coop |-> coop]

WithdrawConfirmation(nonce, total, expiration) ==
    [type |-> "WithdrawConfirmation", nonce |-> nonce, total |-> total,
     expiration |-> expiration]

WithdrawExpired(nonce, total, expiration) ==
    [type |-> "WithdrawExpired", nonce |-> nonce, total |-> total,
     expiration |-> expiration]

(* A coop-settle that was just initiated. *)
CoopSettle(initiator, partner_total, expiration, request) ==
    [initiated |-> TRUE, total_withdraw_initiator |-> initiator,
     total_withdraw_partner |-> partner_total, expiration |-> expiration,
     partner_signature_request |-> request,
     partner_signature_confirmation |-> NoSignature]

-----------------------------------------------------------------------------
(* The user's requests. *)

is_valid_total_withdraw(n, total, allow_zero) ==
    LET amount == total - our[n].total_withdraw
    IN  /\ amount >= 0
        /\ allow_zero \/ amount # 0
        /\ get_balance(our[n], partner[n]) >= amount
        /\ total + partner[n].total_withdraw <= UINT256_MAX

(* send_withdraw_request; w is the node's withdraws before it.  *)
SendWithdrawRequest(n, w, total, expiration, coop) ==
    LET v == AddWithdraw(w, total, expiration)
        nonce == our[n].nonce + 1
    IN  /\ our_withdraws' = [our_withdraws EXCEPT ![n] = v]
        /\ our' = [our EXCEPT ![n] = SetWithdraws(@, nonce, v)]
        /\ sent' = [sent EXCEPT ![n] =
                Append(@, WithdrawRequest(nonce, total, expiration, coop))]

ActionChannelWithdraw(n, total) ==
    /\ IsOpen(n)
    /\ is_valid_total_withdraw(n, total, FALSE)
    /\ SendWithdrawRequest(n, our_withdraws[n], total, get_safe_initial_expiration(n), FALSE)
    /\ UNCHANGED <<head, registered, total_deposit, block, partner,
                   partner_withdraws, transactions, withdrawn, settled>>

is_valid_action_coopsettle(n, total) ==
    /\ is_valid_total_withdraw(n, total, TRUE)
    /\ get_number_of_pending_transfers(our[n]) = 0
    /\ get_number_of_pending_transfers(partner[n]) = 0
    /\ offchain_total_withdraw(our_withdraws[n]) = 0
    /\ offchain_total_withdraw(partner_withdraws[n]) = 0

ActionChannelCoopSettle(n) ==
    LET our_max == get_max_withdraw_amount(our[n], partner[n])
        partner_max == get_max_withdraw_amount(partner[n], our[n])
        expiration == get_safe_initial_expiration(n)
        coop == CoopSettle(our_max, partner_max, expiration, NoSignature)
    IN  /\ IsOpen(n)
        /\ is_valid_action_coopsettle(n, our_max)
        /\ SendWithdrawRequest(n, [our_withdraws[n] EXCEPT !.coop = coop],
                               our_max, expiration, TRUE)
        /\ UNCHANGED <<head, registered, total_deposit, block, partner,
                       partner_withdraws, transactions, withdrawn, settled>>

-----------------------------------------------------------------------------
(* A request of the partner. *)

is_valid_withdraw_request(n, m) ==
    LET amount == m.total - partner[n].total_withdraw
    IN  /\ amount >= 0
        /\ get_balance(partner[n], our[n]) >= amount
        /\ m.nonce = partner[n].nonce + 1
        /\ m.total + our[n].total_withdraw <= UINT256_MAX

(* The signature of a withdraw. *)
Signature(m) == <<m.total, m.expiration>>

(* events_for_coop_settle: the transactions sent for the coop-settle c. *)
CoopSettleTransactions(n, c) ==
    IF /\ c.partner_signature_request # NoSignature
       /\ c.partner_signature_confirmation # NoSignature
       /\ c.expiration >= block[n] - RevealTimeout
    THEN {[kind |-> "CoopSettle", node |-> n, coop |-> c]}
    ELSE {}

(* The message m is a request the node takes as part of a coop-settle. *)
IsCoopSettleRequest(n, m) == our_withdraws[n].coop.initiated \/ m.coop

(* IsAcceptableCoopSettle if the expirations were not compared. *)
IsAcceptableCoopSettle_AnyExpiration(n, m) ==
    /\ get_max_withdraw_amount(partner[n], our[n]) = m.total
    /\ get_number_of_pending_transfers(partner[n]) = 0
    /\ our_withdraws[n].coop.initiated \/ get_number_of_pending_transfers(our[n]) = 0

(* The checks made once the request has been recorded. *)
IsAcceptableCoopSettle(n, m) ==
    /\ get_max_withdraw_amount(partner[n], our[n]) = m.total
    /\ get_number_of_pending_transfers(partner[n]) = 0
    /\ IF our_withdraws[n].coop.initiated
       THEN our_withdraws[n].coop.expiration = m.expiration
       ELSE get_number_of_pending_transfers(our[n]) = 0

(* "The expected total withdraw of the partner doesn't match the           *)
(* withdraw-request": the assertion the node makes of m, if it gets there. *)
(* A node whose assertion fails stops; after its restart it has not        *)
(* processed the message, and cannot.                                      *)
PartnerTotalAsserted(n, m) ==
    IsAcceptableCoopSettle(n, m) /\ our_withdraws[n].coop.initiated
        => our_withdraws[n].coop.total_withdraw_partner = m.total

(* The node records the request, coop is the partner's coop-settle. *)
RecordRequest(n, m, coop) ==
    LET v == [AddWithdraw(partner_withdraws[n], m.total, m.expiration) EXCEPT !.coop = coop]
    IN  /\ partner_withdraws' = [partner_withdraws EXCEPT ![n] = v]
        /\ partner' = [partner EXCEPT ![n] = SetWithdraws(@, m.nonce, v)]

(* The node's withdraws become w and it sends messages, then confirms m. *)
Confirm(n, m, w, messages) ==
    LET nonce == our[n].nonce + Len(messages) + 1
        confirmation == WithdrawConfirmation(nonce, m.total, m.expiration)
    IN  /\ our_withdraws' = [our_withdraws EXCEPT ![n] = w]
        /\ our' = [our EXCEPT ![n] = SetWithdraws(@, nonce, w)]
        /\ sent' = [sent EXCEPT ![n] = Append(@ \o messages, confirmation)]

ReceiveNormalRequest(n, m) ==
    /\ ~IsCoopSettleRequest(n, m)
    /\ RecordRequest(n, m, partner_withdraws[n].coop)
    /\ Confirm(n, m, our_withdraws[n], << >>)
    /\ UNCHANGED transactions

(* The request is recorded although it is reported as invalid, and it is   *)
(* not confirmed.                                                          *)
ReceiveUnacceptableCoopSettle(n, m) ==
    /\ IsCoopSettleRequest(n, m)
    /\ ~IsAcceptableCoopSettle(n, m)
    /\ RecordRequest(n, m, partner_withdraws[n].coop)
    /\ UNCHANGED <<our, our_withdraws, sent, transactions>>

(* The partner answers our coop-settle. *)
ReceiveCoopSettleAnswer(n, m) ==
    LET c == [our_withdraws[n].coop EXCEPT !.partner_signature_request = Signature(m)]
    IN  /\ our_withdraws[n].coop.initiated
        /\ IsAcceptableCoopSettle(n, m)
        /\ PartnerTotalAsserted(n, m)
        /\ RecordRequest(n, m, partner_withdraws[n].coop)
        /\ Confirm(n, m, [our_withdraws[n] EXCEPT !.coop = c], << >>)
        /\ transactions' = transactions \cup CoopSettleTransactions(n, c)

(* The partner initiates a coop-settle: the node requests its own part. *)
ReceiveCoopSettleProposal(n, m) ==
    LET our_max == get_max_withdraw_amount(our[n], partner[n])
        c == CoopSettle(m.total, our_max, m.expiration, Signature(m))
        request == WithdrawRequest(our[n].nonce + 1, our_max, m.expiration, FALSE)
    IN  /\ ~our_withdraws[n].coop.initiated
        /\ m.coop
        /\ IsAcceptableCoopSettle(n, m)
        /\ RecordRequest(n, m, c)
        /\ Confirm(n, m, AddWithdraw(our_withdraws[n], our_max, m.expiration), <<request>>)
        /\ UNCHANGED transactions

ReceiveWithdrawRequest(n, m) ==
    /\ m.type = "WithdrawRequest"
    /\ is_valid_withdraw_request(n, m)
    /\ \/ ReceiveNormalRequest(n, m)
       \/ ReceiveUnacceptableCoopSettle(n, m)
       \/ ReceiveCoopSettleAnswer(n, m)
       \/ ReceiveCoopSettleProposal(n, m)
    /\ UNCHANGED <<head, registered, total_deposit, block, withdrawn, settled>>

-----------------------------------------------------------------------------
(* A confirmation of the partner. *)

is_valid_withdraw_confirmation(n, m) ==
    LET found == Find(our_withdraws[n].pending, m.total)
                    \o Find(our_withdraws[n].expired, m.total)
    IN  /\ found # << >>
        /\ m.total = our[n].total_withdraw
        /\ m.nonce = partner[n].nonce + 1
        /\ m.expiration = Head(found).expiration
        /\ m.total + partner[n].total_withdraw <= UINT256_MAX

(* "Only one party can initiate a coop settle": the assertion made when a  *)
(* valid confirmation arrives.                                             *)
OneInitiatorAsserted(n) ==
    our_withdraws[n].coop.initiated => ~partner_withdraws[n].coop.initiated

(* The transactions sent for a confirmed withdraw.                         *)
WithdrawTransactions(n, m) ==
    IF /\ ~partner_withdraws[n].coop.initiated
       /\ m.expiration >= block[n] - RevealTimeout
    THEN {[kind |-> "Withdraw", node |-> n, total |-> m.total,
           expiration |-> m.expiration]}
    ELSE {}

ReceiveWithdrawConfirmation(n, m) ==
    LET c == [our_withdraws[n].coop EXCEPT !.partner_signature_confirmation = Signature(m)]
    IN  /\ m.type = "WithdrawConfirmation"
        /\ is_valid_withdraw_confirmation(n, m)
        /\ OneInitiatorAsserted(n)
        /\ partner' = [partner EXCEPT ![n].nonce = m.nonce]
        /\ \/ /\ our_withdraws[n].coop.initiated
              /\ our_withdraws' = [our_withdraws EXCEPT ![n].coop = c]
              /\ transactions' = transactions \cup CoopSettleTransactions(n, c)
           \/ /\ ~our_withdraws[n].coop.initiated
              /\ transactions' = transactions \cup WithdrawTransactions(n, m)
              /\ UNCHANGED our_withdraws
        /\ UNCHANGED <<head, registered, total_deposit, block, our, sent,
                       partner_withdraws, withdrawn, settled>>

-----------------------------------------------------------------------------
(* The partner's withdraw has expired. *)

is_valid_withdraw_expired(n, m) ==
    LET found == Find(partner_withdraws[n].pending, m.total)
    IN  /\ found # << >>
        /\ block[n] >= get_receiver_expiration_threshold(Head(found).expiration)
        /\ m.nonce = partner[n].nonce + 1

(* Declaring the withdraw x expired cancels the coop-settle it belongs to. *)
CoopSettleAfterExpiry(c, x) ==
    IF /\ c.initiated
       /\ c.total_withdraw_initiator = x.total
       /\ c.expiration = x.expiration
    THEN NoCoopSettle
    ELSE c

(* ReceiveWithdrawExpired if only the nonce were recorded. *)
ReceiveWithdrawExpired_KeepsPending(n, m) ==
    /\ m.type = "WithdrawExpired"
    /\ is_valid_withdraw_expired(n, m)
    /\ partner' = [partner EXCEPT ![n].nonce = m.nonce]
    /\ UNCHANGED <<head, registered, total_deposit, block, our, sent,
                   our_withdraws, partner_withdraws, transactions, withdrawn, settled>>

ReceiveWithdrawExpired(n, m) ==
    LET x == Head(Find(partner_withdraws[n].pending, m.total))
        v == [partner_withdraws[n] EXCEPT !.pending = Delete(@, m.total),
                                          !.coop = CoopSettleAfterExpiry(@, x)]
    IN  /\ m.type = "WithdrawExpired"
        /\ is_valid_withdraw_expired(n, m)
        /\ partner_withdraws' = [partner_withdraws EXCEPT ![n] = v]
        /\ partner' = [partner EXCEPT ![n] = SetWithdraws(@, m.nonce, v)]
        /\ UNCHANGED <<head, registered, total_deposit, block, our, sent,
                       our_withdraws, transactions, withdrawn, settled>>

-----------------------------------------------------------------------------
(* The blockchain.  A withdraw is mined before its expiration block only,  *)
(* and a coop-settle must carry matching signatures and pay out exactly    *)
(* what was deposited.                                                     *)

SameWithdrawn == withdrawn' = [n \in Node |-> Append(withdrawn[n], withdrawn[n][head])]

MineBlock ==
    /\ IF settled = 0 THEN ChainNext ELSE MineEmptyBlock
    /\ SameWithdrawn
    /\ UNCHANGED <<our_withdraws, partner_withdraws, transactions, settled>>

MineWithdraw(t) ==
    /\ t.kind = "Withdraw"
    /\ settled = 0
    /\ head + 1 < t.expiration
    /\ t.total > withdrawn[t.node][head]
    /\ t.total + withdrawn[Other(t.node)][head]
            <= total_deposit[Alice][head] + total_deposit[Bob][head]
    /\ MineEmptyBlock
    /\ withdrawn' = [n \in Node |->
            Append(withdrawn[n], IF n = t.node THEN t.total ELSE withdrawn[n][head])]
    /\ transactions' = (transactions \ {t}) \cup {[t EXCEPT !.kind = "MinedWithdraw"]}
    /\ UNCHANGED <<our_withdraws, partner_withdraws, settled>>

MineCoopSettle(t) ==
    /\ t.kind = "CoopSettle"
    /\ settled = 0
    /\ head + 1 < t.coop.expiration
    /\ t.coop.partner_signature_confirmation
            = <<t.coop.total_withdraw_initiator, t.coop.expiration>>
    /\ t.coop.partner_signature_request
            = <<t.coop.total_withdraw_partner, t.coop.expiration>>
    /\ t.coop.total_withdraw_initiator + t.coop.total_withdraw_partner
            = total_deposit[Alice][head] + total_deposit[Bob][head]
    /\ MineEmptyBlock
    /\ SameWithdrawn
    /\ settled' = head + 1
    /\ UNCHANGED <<our_withdraws, partner_withdraws, transactions>>

(* OnchainWithdraws if the pending withdraw were kept. *)
OnchainWithdraws_KeepsPending(w, p, n, b) == [w EXCEPT !.onchain = withdrawn[p][b]]

(* ContractReceiveChannelWithdraw for every withdraw of p in the blocks    *)
(* that n processes.                                                       *)
OnchainWithdraws(w, p, n, b) ==
    LET mined == {withdrawn[p][i] : i \in {j \in block[n] + 1 .. b :
                                             withdrawn[p][j] # withdrawn[p][j - 1]}}
    IN  [w EXCEPT !.pending = SelectSeq(@, LAMBDA x : x.total \notin mined),
                  !.onchain = withdrawn[p][b]]

(* How many of the oldest pending withdraws have expired. *)
NumberExpired(list, b) ==
    Max({k \in 0 .. Len(list) : \A i \in 1 .. k :
            b >= get_sender_expiration_threshold(list[i].expiration)})

ExpireWithdraws(w, k) ==
    LET IsCancelled(c) ==
            \E i \in 1 .. k : CoopSettleAfterExpiry(c, w.pending[i]) # c
    IN  [w EXCEPT !.pending = SubSeq(@, k + 1, Len(@)),
                  !.expired = @ \o SubSeq(w.pending, 1, k),
                  !.coop = IF IsCancelled(@) THEN NoCoopSettle ELSE @]

(* The node processes the blocks up to b: the contract events, then the    *)
(* expired withdraws.                                                      *)
SynchronizeWithdraws(n, b) ==
    LET seen == OnchainWithdraws(our_withdraws[n], n, n, b)
        k == NumberExpired(seen.pending, b)
        w == ExpireWithdraws(seen, k)
        v == OnchainWithdraws(partner_withdraws[n], Other(n), n, b)
        hashes == NewlyRegistered(n, b)
        nonce == our[n].nonce
        expirations == [i \in 1 .. k |->
            WithdrawExpired(nonce + i, seen.pending[i].total, seen.pending[i].expiration)]
    IN  /\ block[n] < b
        /\ b <= head - Confirmations
        /\ settled = 0 \/ b < settled
        /\ block' = [block EXCEPT ![n] = b]
        /\ our' = [our EXCEPT ![n] =
                SetWithdraws(ContractEvents(@, total_deposit[n][b], hashes), nonce + k, w)]
        /\ partner' = [partner EXCEPT ![n] =
                SetWithdraws(ContractEvents(@, total_deposit[Other(n)][b], hashes), @.nonce, v)]
        /\ sent' = [sent EXCEPT ![n] = @ \o expirations]
        /\ our_withdraws' = [our_withdraws EXCEPT ![n] = w]
        /\ partner_withdraws' = [partner_withdraws EXCEPT ![n] = v]
        /\ UNCHANGED <<head, registered, total_deposit, transactions, withdrawn, settled>>

(* The node processes the settlement and drops the channel. *)
SynchronizeSettlement(n, b) ==
    /\ block[n] < b
    /\ b <= head - Confirmations
    /\ settled # 0 /\ b >= settled
    /\ block' = [block EXCEPT ![n] = b]
    /\ UNCHANGED <<head, registered, total_deposit, our, partner, sent, wvars>>

-----------------------------------------------------------------------------
WithdrawNext(n) ==
    \/ \E total \in WithdrawAmount : ActionChannelWithdraw(n, total)
    \/ ActionChannelCoopSettle(n)
    \/ /\ IsOpen(n)
       /\ \E m \in Messages(Other(n)) :
            \/ ReceiveWithdrawRequest(n, m)
            \/ ReceiveWithdrawConfirmation(n, m)
            \/ ReceiveWithdrawExpired(n, m)
    \/ \E b \in block[n] + 1 .. head :
            SynchronizeWithdraws(n, b) \/ SynchronizeSettlement(n, b)

TransferNext(n) ==
    /\ IsOpen(n)
    /\ \/ \E h \in SecretHash : RegisterOffchainSecret(n, h)
       \/ SendNext(n)
       \/ ReceiveNext(n)
    /\ UNCHANGED wvars

WNext ==
    \/ MineBlock
    \/ \E t \in transactions : MineWithdraw(t) \/ MineCoopSettle(t)
    \/ \E n \in Node : WithdrawNext(n) \/ TransferNext(n)

WSpec == WInit /\ [][WNext]_allvars

-----------------------------------------------------------------------------
PendingWithdrawState == [total : Nat, expiration : Nat]

WithdrawMessage ==
    [type : {"WithdrawRequest"}, nonce : Nat, total : Nat, expiration : Nat, coop : BOOLEAN]
        \cup [type : {"WithdrawConfirmation", "WithdrawExpired"},
              nonce : Nat, total : Nat, expiration : Nat]

(* Type invariant of the withdraws and of the message history.  In both    *)
(* ends total_withdraw is that of the withdraws, and the pending withdraws *)
(* of a node have distinct totals.                                         *)
WTypeOK ==
    /\ \A n \in Node :
        /\ our_withdraws[n].pending \in Seq(PendingWithdrawState)
        /\ our_withdraws[n].expired \in Seq(PendingWithdrawState)
        /\ partner_withdraws[n].pending \in Seq(PendingWithdrawState)
        /\ our[n] \in NettingChannelEndState
        /\ partner[n] \in NettingChannelEndState
        /\ our[n].total_withdraw = TotalWithdraw(our_withdraws[n])
        /\ partner[n].total_withdraw = TotalWithdraw(partner_withdraws[n])
        /\ \A i, j \in DOMAIN our_withdraws[n].pending :
             our_withdraws[n].pending[i].total = our_withdraws[n].pending[j].total => i = j
    /\ sent \in [Node -> Seq(EnvelopeMessage \cup WithdrawMessage)]
    /\ withdrawn \in [Node -> Seq(Nat)]
    /\ settled \in 0 .. head

(* Once a node has processed every message of its partner, and both have   *)
(* processed the same blocks, the two hold the same balance proof, locks   *)
(* and total withdraw: transfers, withdraw requests, expirations and       *)
(* contract events that reach them in different orders leave both with the *)
(* same balance.                                                           *)
WithdrawViewsAgree ==
    \A n \in Node :
        LET o == Other(n)
        IN  partner[o].nonce = our[n].nonce /\ block[o] = block[n] /\ IsOpen(n) =>
                /\ partner[o].total_withdraw = our[n].total_withdraw
                /\ partner[o].transferred = our[n].transferred
                /\ partner[o].pending_locks = our[n].pending_locks
                /\ partner_withdraws[o].onchain = our_withdraws[n].onchain

(* A withdraw that was mined is never declared expired, however late the   *)
(* node sees the block: its balance would grow by what it was paid out.    *)
MinedWithdrawNeverExpires ==
    \A t \in transactions : t.kind = "MinedWithdraw" =>
        \A m \in Messages(t.node) :
            m.type = "WithdrawExpired" => m.total # t.total \/ m.expiration # t.expiration

(* The two signatures of a coop-settle transaction are the partner's       *)
(* signatures of the very withdraws the transaction carries, so the        *)
(* contract accepts them.  Only the initiator itself can spoil this: by a  *)
(* larger withdraw it requests while the coop-settle is under way, whose   *)
(* confirmation _handle_receive_withdraw_confirmation takes for the one of *)
(* the coop-settle.                                                        *)
CoopSettleSignaturesMatch ==
    \A t \in transactions : t.kind = "CoopSettle" =>
        /\ t.coop.partner_signature_request
                = <<t.coop.total_withdraw_partner, t.coop.expiration>>
        /\ \/ t.coop.partner_signature_confirmation
                    = <<t.coop.total_withdraw_initiator, t.coop.expiration>>
           \/ \E m \in Messages(t.node) :
                /\ m.type = "WithdrawRequest" /\ ~m.coop
                /\ m.total > t.coop.total_withdraw_initiator
                /\ t.coop.partner_signature_confirmation = Signature(m)

-----------------------------------------------------------------------------
(* Statements of the code about itself. *)

(* sanity_check: "The balance can never be negative, that would be         *)
(* equivalent to a loan or a double spend."                                *)
BalanceNeverNegative ==
    \A n \in Node :
        IsOpen(n) => /\ get_balance(our[n], partner[n]) >= 0
                     /\ get_balance(partner[n], our[n]) >= 0

(* is_valid_withdraw_confirmation: "The requesting node must accept an     *)
(* confirmation for an expired withdraw request.  This is necessary to     *)
(* clear the confirming node's queue."                                     *)
ExpiredConfirmationAccepted ==
    \A n \in Node :
        /\ IsOpen(n) /\ Undelivered(n)
        /\ NextMessage(n).type = "WithdrawConfirmation"
        /\ \E i \in DOMAIN our_withdraws[n].expired :
                our_withdraws[n].expired[i] = PendingWithdraw(NextMessage(n).total,
                                                              NextMessage(n).expiration)
        => is_valid_withdraw_confirmation(n, NextMessage(n))
=============================================================================
