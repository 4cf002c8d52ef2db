----------------------------- MODULE EthClient -----------------------------
(***************************************************************************)
(* raiden/network/rpc/client.py: the JSON-RPC client through which a node  *)
(* sends its transactions, and the Ethereum node behind it (external): the *)
(* pool, the blocks and their reorganisations.                             *)
(*                                                                         *)
(* Only the last blocks are kept, in chain, the head being the last: a     *)
(* transaction older than that is final.  What a greenlet knows of a block *)
(* number is how far it lies below the head, so that a run is not bounded  *)
(* by a number of blocks.                                                  *)
(*                                                                         *)
(* The account's transactions are known by their nonces, 1, 2, ...; 0 is a *)
(* transaction of another account.                                         *)
(***************************************************************************)
EXTENDS ServiceContracts

CONSTANTS Call,           \* the greenlets that send transactions
          None,
          MaxTx,          \* transactions the account may send
          Confirmations,  \* default_block_num_confirmations
          MaxReorg,       \* how many blocks a reorganisation replaces
          PollDelay,      \* blocks mined between the two requests of a poll
          Lag             \* blocks the node may be behind the confirmed one

\* poll_transaction reads the receipt and the block number in two requests.  A
\* result is final when the blocks a reorganisation can replace and the blocks
\* mined between these requests are together no more than the confirmations.
ASSUME ClientAssumption ==
  /\ MaxTx \in Nat
  /\ Confirmations \in Nat /\ MaxReorg \in Nat /\ PollDelay \in Nat /\ Lag \in Nat
  /\ MaxReorg + PollDelay <= Confirmations

VARIABLES inst,     \* the instance: calls, another account's transaction, faults
          chain,    \* the last blocks
          pool,     \* our transactions that wait to be mined
          theirs,   \* the other account's transaction: "unsent", "pool" or "mined"
          txs,      \* our transactions, by nonce
          nonce,    \* _available_nonce
          poor,     \* the account cannot pay for gas
          polls,    \* what each greenlet's poll_transaction has read
          reorgs    \* reorganisations so far

clientVars == <<inst, chain, pool, theirs, txs, nonce, poor, polls, reorgs>>

Window == Confirmations + Lag + 1
Nonce == 1 .. MaxTx
NoTx == [call |-> None, op |-> "none", arg |-> 0, run |-> 0, old |-> FALSE, storage |-> None]
NoPoll == [nonce |-> 0, seen |-> FALSE, depth |-> 0, since |-> 0, storage |-> None]

Block(s) == [txs |-> <<>>, failed |-> {}, storage |-> s]
Storage == chain[Window].storage        \* at the last block
ConfirmedStorage == chain[Window - Confirmations].storage

InBlock(n, b) == \E i \in 1 .. Len(b.txs) : b.txs[i] = n
Mined(n) == txs[n].old \/ \E i \in 1 .. Window : InBlock(n, chain[i])
BlockIndex(n) == CHOOSE i \in 1 .. Window : InBlock(n, chain[i])
\* blocks on top of the block of transaction n, Window if it is older than the window
Depth(n) == IF txs[n].old THEN Window ELSE Window - BlockIndex(n)

ClientInit(i) ==
  /\ inst = i
  /\ chain = [k \in 1 .. Window |-> Block(i.storage)]
  /\ pool = {} /\ theirs = "unsent"
  /\ txs = [n \in Nonce |-> NoTx]
  /\ nonce = 1
  /\ poor = i.poor
  /\ polls = [c \in Call |-> NoPoll]
  /\ reorgs = 0

-----------------------------------------------------------------------------
(* The Ethereum node. *)

TxOf(n) == IF n = 0 THEN [op |-> inst.other.op, arg |-> inst.other.arg]
                    ELSE [op |-> txs[n].op, arg |-> txs[n].arg]

\* transaction n runs at the end of block b
Include(b, n) ==
  LET t == TxOf(n) IN
  IF Require(t.op, t.arg, b.storage) THEN [b EXCEPT !.storage = Execute(t.op, t.arg, @)]
                                     ELSE [b EXCEPT !.failed = @ \union {n}]

\* the block with the transactions of seq on top of storage s
Executed(seq, s) ==
  LET run[i \in 0 .. Len(seq)] ==
        IF i = 0 THEN [Block(NextBlockStorage(s)) EXCEPT !.txs = seq]
                 ELSE Include(run[i - 1], seq[i])
  IN run[Len(seq)]

\* a nonce is mined after all smaller ones
Executable(p) == {n \in p : \A m \in 1 .. n : txs[m] # NoTx}
\* the first k transactions of p: nonces follow each other
First(p, k) == [i \in 1 .. k |-> Min(p) + i - 1]
InOrder(p) == First(p, Cardinality(p))

\* the sequences of transactions a block may hold: our next k, theirs before or
\* after them
Batches(p, t) ==
  LET ours == Executable(p) IN
  UNION {LET seq == First(ours, k) IN
         {seq} \union IF t = "pool" THEN {<<0>> \o seq, seq \o <<0>>} ELSE {} :
            k \in {j \in 0 .. Cardinality(ours) : Range(First(ours, j)) \subseteq ours}}

\* what the node runs a gas estimation on
PendingStorage ==
  LET ours == InOrder(Executable(pool)) IN
  Executed(IF theirs = "pool" THEN <<0>> \o ours ELSE ours, Storage).storage

\* transactions that leave the window are final; the storage of its block is kept
\* for one that failed
Retired(t, b) ==
  [n \in Nonce |-> IF InBlock(n, b) THEN [t[n] EXCEPT !.old = TRUE,
                                                      !.storage = IF n \in b.failed THEN b.storage ELSE None]
                                    ELSE t[n]]

Mine(seq) ==
  /\ \A c \in Call : polls[c].seen => polls[c].since < PollDelay
  /\ chain' = Append(Tail(chain), Executed(seq, Storage))
  /\ txs' = Retired(txs, chain[1])
  /\ pool' = pool \ Range(seq)
  /\ theirs' = IF 0 \in Range(seq) THEN "mined" ELSE theirs
  /\ polls' = [c \in Call |-> IF polls[c].seen
                              THEN [polls[c] EXCEPT !.depth = Min({@ + 1, Confirmations}), !.since = @ + 1]
                              ELSE polls[c]]
  /\ UNCHANGED <<inst, nonce, poor, reorgs>>

\* the blocks up to kept stay, the others are new: block number at holds seq
Rebuilt(kept, seq, at) ==
  LET new[i \in kept .. Window] ==
        IF i = kept THEN chain[i] ELSE Executed(IF i = at THEN seq ELSE <<>>, new[i - 1].storage)
  IN [i \in 1 .. Window |-> IF i <= kept THEN chain[i] ELSE new[i]]

\* the last d blocks are replaced by d others, one of which holds transactions
Reorg(d) ==
  /\ reorgs < inst.reorgs
  /\ reorgs' = reorgs + 1
  /\ LET kept == Window - d
         lost == UNION {Range(chain[i].txs) : i \in kept + 1 .. Window}
         free == pool \union (lost \ {0})
         back == IF 0 \in lost THEN "pool" ELSE theirs
     IN \E seq \in Batches(free, back), at \in kept + 1 .. Window :
          /\ chain' = Rebuilt(kept, seq, at)
          /\ pool' = free \ Range(seq)
          /\ theirs' = IF 0 \in Range(seq) THEN "mined" ELSE back
  /\ UNCHANGED <<inst, txs, nonce, poor, polls>>

OthersSend ==
  /\ inst.other.op # "none" /\ theirs = "unsent"
  /\ theirs' = "pool"
  /\ UNCHANGED <<inst, chain, pool, txs, nonce, poor, polls, reorgs>>

\* somebody sends ether to the account
TopUp ==
  /\ poor /\ poor' = FALSE
  /\ UNCHANGED <<inst, chain, pool, theirs, txs, nonce, polls, reorgs>>

-----------------------------------------------------------------------------
(* The client. *)

\* TransactionPending.estimate_gas: None when the call would fail or the
\* account cannot pay, an estimation otherwise
EstimateSucceeds(op, arg) == ~poor /\ Require(op, arg, PendingStorage)

\* check_for_insufficient_eth, a look at the account after the estimation failed
check_for_insufficient_eth == poor

\* geth_discover_next_available_nonce: the transactions mined and those in the
\* pool without a gap
DiscoverNonce == 1 + Cardinality({n \in Nonce : \A m \in 1 .. n : txs[m] # NoTx})

TxFor(c, op, arg, run) == [NoTx EXCEPT !.call = c, !.op = op, !.arg = arg, !.run = run]

\* the node takes a transaction with this nonce: it is new, or it replaces one
\* in the pool by paying more
Accepts(n) == n \in Nonce /\ ~poor /\ (txs[n] = NoTx \/ n \in pool)

\* transact, under _nonce_lock: the nonce moves on when the node has answered
TransactAccepted(c, op, arg, run) ==
  /\ Accepts(nonce)
  /\ txs' = [txs EXCEPT ![nonce] = TxFor(c, op, arg, run)]
  /\ pool' = pool \union {nonce}
  /\ nonce' = nonce + 1
  /\ polls' = [polls EXCEPT ![c] = [NoPoll EXCEPT !.nonce = nonce]]
  /\ UNCHANGED <<inst, chain, theirs, poor, reorgs>>

\* transact when the node refuses: the nonce stays, and the error depends on
\* what the node says
TransactErrors ==
  (IF poor THEN {InsufficientEth} ELSE {})
    \union (IF nonce \in Nonce /\ txs[nonce] # NoTx THEN {Fatal("nonce")} ELSE {})

TransactRejected == TransactErrors # {} /\ UNCHANGED clientVars

\* transact when the node takes the transaction and the answer is lost: what is
\* raised is no ValueError, and the nonce stays
TransactUnanswered(c, op, arg, run) ==
  /\ inst.lost
  /\ nonce \in Nonce /\ txs[nonce] = NoTx /\ ~poor
  /\ txs' = [txs EXCEPT ![nonce] = TxFor(None, op, arg, run)]
  /\ pool' = pool \union {nonce}
  /\ inst' = [inst EXCEPT !.lost = FALSE]
  /\ UNCHANGED <<chain, theirs, nonce, poor, polls, reorgs>>

\* poll_transaction, first request: the receipt
PollReceipt(c) ==
  LET n == polls[c].nonce
      failed == IF txs[n].old THEN txs[n].storage # None ELSE n \in chain[BlockIndex(n)].failed
      at == IF txs[n].old THEN txs[n].storage ELSE chain[BlockIndex(n)].storage
  IN
  /\ ~polls[c].seen /\ Mined(n)
  /\ polls' = [polls EXCEPT ![c] = [nonce |-> n, seen |-> TRUE, since |-> 0,
                                    depth |-> Min({Depth(n), Confirmations}),
                                    storage |-> IF failed THEN at ELSE None]]
  /\ UNCHANGED <<inst, chain, pool, theirs, txs, nonce, poor, reorgs>>

\* Mutant: one confirmation less
PollConfirmed_Early(c) == polls[c].depth >= Confirmations - 1

\* poll_transaction, second request: the number of the last block
PollConfirmed(c) == polls[c].depth >= Confirmations

\* ... not yet: sleep, and ask for the receipt again
PollAgain(c) ==
  /\ polls[c].seen /\ ~PollConfirmed(c)
  /\ polls' = [polls EXCEPT ![c] = [NoPoll EXCEPT !.nonce = polls[c].nonce]]
  /\ UNCHANGED <<inst, chain, pool, theirs, txs, nonce, poor, reorgs>>

=============================================================================
