----------------------- MODULE NettingChannel_proofs -----------------------
(***************************************************************************)
(* Proofs about NettingChannel for every number of payments, every amount, *)
(* deposit and timeout, and any length of the chain and of the message     *)
(* histories.                                                              *)
(*                                                                         *)
(* The invariant that is inductive is IInv.  ViewsAgree needs the history  *)
(* of messages to be numbered by nonce, and the uniqueness of the pending  *)
(* secrethashes in every signed state: a receiver does not check it, it    *)
(* holds because what it receives was signed by a sender for which it held *)
(* (MessagesWellFormed).                                                   *)
(*                                                                         *)
(* The lemmas about the operators of ChannelState come first: what the sum *)
(* of the locked amounts becomes when a lock is added or removed, and what *)
(* removing a lock does to the list of pending locks.                      *)
(***************************************************************************)
EXTENDS NettingChannel, TLAPS, FiniteSetTheorems

-----------------------------------------------------------------------------
(* The lists of the model are functions on an initial segment. *)
LEMMA FunctionIsSequence ==
    ASSUME NEW S, NEW n \in Nat, NEW f \in [1 .. n -> S]
    PROVE  f \in Seq(S) /\ Len(f) = n
OBVIOUS

(* The tokens of one lock are as many as its amount says. *)
LEMMA TokensOfLock ==
    ASSUME NEW l \in HashTimeLockState
    PROVE  /\ IsFiniteSet({l} \X (1 .. l.amount))
           /\ Cardinality({l} \X (1 .. l.amount)) = l.amount
<1>1. l.amount \in Nat /\ l.amount # 0
  BY ChannelStateAssumption, Zenon DEF HashTimeLockState, ChannelStateAssumption
<1>2. IsFiniteSet({l}) /\ Cardinality({l}) = 1
  BY FS_Singleton, Zenon
<1>3. IsFiniteSet(1 .. l.amount) /\ Cardinality(1 .. l.amount) = l.amount
  BY <1>1, FS_Interval
<1>4. /\ IsFiniteSet({l} \X (1 .. l.amount))
      /\ Cardinality({l} \X (1 .. l.amount)) = Cardinality({l}) * Cardinality(1 .. l.amount)
  BY <1>2, <1>3, FS_Product, Zenon
<1> QED
  BY <1>1, <1>2, <1>3, <1>4

(* A finite set of locks holds finitely many tokens. *)
LEMMA SumType ==
    ASSUME NEW S \in SUBSET HashTimeLockState, IsFiniteSet(S)
    PROVE  IsFiniteSet(LockedTokens(S)) /\ SumAmounts(S) \in Nat
<1> DEFINE T == {{l} \X (1 .. l.amount) : l \in S}
           f == [l \in S |-> {l} \X (1 .. l.amount)]
<1>1. f \in Surjection(S, T)
  BY Zenon DEF Surjection
<1>2. IsFiniteSet(T)
  BY <1>1, FS_Surjection
<1>3. \A t \in T : IsFiniteSet(t)
  BY TokensOfLock
<1>4. IsFiniteSet(UNION T)
  BY <1>2, <1>3, FS_UNION, Zenon
<1> QED
  BY <1>4, FS_CardinalityType DEF LockedTokens, SumAmounts

LEMMA SumEmpty == SumAmounts({}) = 0
BY FS_EmptySet DEF SumAmounts, LockedTokens

(* Adding a lock adds its amount. *)
LEMMA SumAdd ==
    ASSUME NEW S \in SUBSET HashTimeLockState, IsFiniteSet(S),
           NEW l \in HashTimeLockState, l \notin S
    PROVE  SumAmounts(S \cup {l}) = SumAmounts(S) + l.amount
<1> DEFINE L == {l} \X (1 .. l.amount)
<1>1. LockedTokens(S \cup {l}) = LockedTokens(S) \cup L
  BY DEF LockedTokens
<1>2. LockedTokens(S) \cap L = {}
  BY DEF LockedTokens
<1>3. IsFiniteSet(L) /\ Cardinality(L) = l.amount
  BY TokensOfLock
<1>4. IsFiniteSet(LockedTokens(S)) /\ SumAmounts(S) \in Nat
  BY SumType
<1>5. Cardinality(LockedTokens(S) \cup L)
        = Cardinality(LockedTokens(S)) + Cardinality(L) - Cardinality(LockedTokens(S) \cap L)
  BY <1>3, <1>4, FS_Union, Zenon
<1>6. Cardinality(LockedTokens(S) \cap L) = 0
  BY <1>2, FS_EmptySet
<1>7. l.amount \in Nat
  BY ChannelStateAssumption, Zenon DEF HashTimeLockState, ChannelStateAssumption
<1>8. SumAmounts(S \cup {l}) = Cardinality(LockedTokens(S) \cup L)
  BY <1>1, Zenon DEF SumAmounts
<1>9. SumAmounts(S) = Cardinality(LockedTokens(S))
  BY DEF SumAmounts
<1> HIDE DEF L
<1> QED
  BY <1>3, <1>4, <1>5, <1>6, <1>7, <1>8, <1>9

(* Removing a lock removes its amount. *)
LEMMA SumRemove ==
    ASSUME NEW S \in SUBSET HashTimeLockState, IsFiniteSet(S), NEW l \in S
    PROVE  SumAmounts(S \ {l}) = SumAmounts(S) - l.amount
<1>1. IsFiniteSet(S \ {l})
  BY FS_RemoveElement
<1>2. S = (S \ {l}) \cup {l}
  OBVIOUS
<1>3. SumAmounts((S \ {l}) \cup {l}) = SumAmounts(S \ {l}) + l.amount
  BY <1>1, SumAdd
<1>4. SumAmounts(S \ {l}) \in Nat
  BY <1>1, SumType
<1>5. SumAmounts(S) = SumAmounts((S \ {l}) \cup {l})
  BY <1>2, Zenon
<1>6. l.amount \in Nat
  BY ChannelStateAssumption, Zenon DEF HashTimeLockState, ChannelStateAssumption
<1> QED
  BY <1>3, <1>4, <1>5, <1>6

-----------------------------------------------------------------------------
(* Removing a lock from the list of pending locks removes it and no other, *)
(* and keeps the secrethashes distinct.                                    *)
LEMMA WithoutLock ==
    ASSUME NEW s \in Seq(HashTimeLockState), UniqueHashes(s),
           NEW l, IsPending(s, l)
    PROVE  /\ compute_locks_without(s, l) \in Seq(HashTimeLockState)
           /\ UniqueHashes(compute_locks_without(s, l))
           /\ {compute_locks_without(s, l)[i] : i \in DOMAIN compute_locks_without(s, l)}
                = {s[i] : i \in DOMAIN s} \ {l}
<1> DEFINE i == CHOOSE j \in DOMAIN s : s[j] = l
           n == Len(s)
           t == [j \in 1 .. n - 1 |-> IF j < i THEN s[j] ELSE s[j + 1]]
<1>1. i \in 1 .. n /\ s[i] = l /\ n \in Nat /\ n # 0
  BY DEF IsPending
<1>2. compute_locks_without(s, l) = t
  BY DEF compute_locks_without
<1>3. s \in [1 .. n -> HashTimeLockState]
  OBVIOUS
<1> HIDE DEF i, n
<1>4. t \in [1 .. n - 1 -> HashTimeLockState] /\ n - 1 \in Nat
  BY <1>1, <1>3
<1>5. t \in Seq(HashTimeLockState) /\ Len(t) = n - 1
  BY <1>4, FunctionIsSequence
<1>6. DOMAIN t = 1 .. n - 1 /\ DOMAIN s = 1 .. n
  BY <1>3
<1>7. UniqueHashes(t)
  <2> SUFFICES ASSUME NEW j \in 1 .. n - 1, NEW k \in 1 .. n - 1,
                      t[j].secrethash = t[k].secrethash
               PROVE  j = k
    BY <1>6 DEF UniqueHashes
  <2> DEFINE up(x) == IF x < i THEN x ELSE x + 1
  <2>1. up(j) \in 1 .. n /\ up(k) \in 1 .. n /\ t[j] = s[up(j)] /\ t[k] = s[up(k)]
    BY <1>1
  <2>2. up(j) = up(k)
    BY <2>1, <1>6 DEF UniqueHashes
  <2> QED
    BY <2>2, <1>1
<1>8. \A j \in 1 .. n - 1 : t[j] \in {s[k] : k \in 1 .. n} /\ t[j] # l
  <2> SUFFICES ASSUME NEW j \in 1 .. n - 1
               PROVE  t[j] \in {s[k] : k \in 1 .. n} /\ t[j] # l
    OBVIOUS
  <2> DEFINE u == IF j < i THEN j ELSE j + 1
  <2>1. u \in 1 .. n /\ u # i /\ t[j] = s[u]
    BY <1>1
  <2>2. s[u] # s[i]
    BY <2>1, <1>1, <1>6 DEF UniqueHashes
  <2> QED
    BY <2>1, <2>2, <1>1
<1>9. \A k \in 1 .. n : s[k] # l => s[k] \in {t[j] : j \in 1 .. n - 1}
  <2> SUFFICES ASSUME NEW k \in 1 .. n, s[k] # l
               PROVE  \E j \in 1 .. n - 1 : s[k] = t[j]
    OBVIOUS
  <2>1. k # i
    BY <1>1
  <2>2. CASE k < i
    BY <2>2, <1>1 
  <2>3. CASE k > i
    <3>1. k - 1 \in 1 .. n - 1 /\ ~(k - 1 < i) /\ (k - 1) + 1 = k
      BY <2>3, <1>1
    <3> QED
      BY <3>1
  <2> QED
    BY <2>1, <2>2, <2>3, <1>1
<1>10. {t[j] : j \in 1 .. n - 1} = {s[k] : k \in 1 .. n} \ {l}
  BY <1>8, <1>9
<1> HIDE DEF t
<1>11. {t[j] : j \in DOMAIN t} = {s[k] : k \in DOMAIN s} \ {l}
  BY <1>6, <1>10, Zenon
<1> QED
  BY <1>2, <1>5, <1>7, <1>11, Zenon

-----------------------------------------------------------------------------
(* An end state that is well formed and passes the synchronisation checks  *)
(* of sanity_check.                                                        *)
EndOK(e) ==
    /\ e \in NettingChannelEndState
    /\ IsFiniteSet(Locks(e))
    /\ LocksInSync(e)

(* The amounts of disjoint sets of locks add up. *)
LEMMA SumDisjoint ==
    ASSUME NEW S \in SUBSET HashTimeLockState, IsFiniteSet(S),
           NEW T \in SUBSET HashTimeLockState, IsFiniteSet(T), S \cap T = {}
    PROVE  SumAmounts(S \cup T) = SumAmounts(S) + SumAmounts(T)
<1>1. LockedTokens(S \cup T) = LockedTokens(S) \cup LockedTokens(T)
  BY DEF LockedTokens
<1>2. LockedTokens(S) \cap LockedTokens(T) = {}
  BY DEF LockedTokens
<1>3. /\ IsFiniteSet(LockedTokens(S)) /\ SumAmounts(S) \in Nat
      /\ IsFiniteSet(LockedTokens(T)) /\ SumAmounts(T) \in Nat
  BY SumType
<1>4. Cardinality(LockedTokens(S) \cup LockedTokens(T))
        = Cardinality(LockedTokens(S)) + Cardinality(LockedTokens(T))
            - Cardinality(LockedTokens(S) \cap LockedTokens(T))
  BY <1>3, FS_Union, Zenon
<1>5. Cardinality(LockedTokens(S) \cap LockedTokens(T)) = 0
  BY <1>2, FS_EmptySet
<1>6. SumAmounts(S \cup T) = Cardinality(LockedTokens(S) \cup LockedTokens(T))
  BY <1>1, Zenon DEF SumAmounts
<1>7. /\ SumAmounts(S) = Cardinality(LockedTokens(S))
      /\ SumAmounts(T) = Cardinality(LockedTokens(T))
  BY DEF SumAmounts
<1> QED
  BY <1>3, <1>4, <1>5, <1>6, <1>7

(* get_amount_locked counts each pending lock once. *)
LEMMA AmountLocked ==
    ASSUME NEW e, EndOK(e)
    PROVE  /\ get_amount_locked(e) = SumAmounts(Locks(e))
           /\ get_amount_locked(e) \in Nat
<1> DEFINE A == e.locked
           B == e.unlocked
           C == e.onchain
<1>1. /\ A \in SUBSET HashTimeLockState /\ B \in SUBSET HashTimeLockState
      /\ C \in SUBSET HashTimeLockState
      /\ Locks(e) \in SUBSET HashTimeLockState
  BY DEF EndOK, NettingChannelEndState, Locks
<1>2. A \cap B = {} /\ (A \cup B) \cap C = {}
  BY DEF EndOK, LocksInSync
<1>3. A \subseteq Locks(e) /\ B \subseteq Locks(e) /\ C \subseteq Locks(e)
      /\ A \cup B \subseteq Locks(e)
  BY DEF Locks
<1>4. IsFiniteSet(A) /\ IsFiniteSet(B) /\ IsFiniteSet(C) /\ IsFiniteSet(A \cup B)
  BY <1>3, FS_Subset DEF EndOK
<1>5. /\ SumAmounts((A \cup B) \cup C) = SumAmounts(A \cup B) + SumAmounts(C)
      /\ SumAmounts(A \cup B) = SumAmounts(A) + SumAmounts(B)
  BY <1>1, <1>2, <1>4, SumDisjoint
<1>6. SumAmounts(Locks(e)) = SumAmounts((A \cup B) \cup C)
  BY Zenon DEF Locks
<1>7. SumAmounts(Locks(e)) \in Nat
  BY <1>1, SumType DEF EndOK
<1> QED
  BY <1>5, <1>6, <1>7 DEF get_amount_locked

(* Adding a lock with a new secrethash. *)
LEMMA AddLockOK ==
    ASSUME NEW e, EndOK(e), NEW m, m.lock \in HashTimeLockState,
           m.nonce \in Nat, m.transferred \in Nat,
           ~is_lock_pending(e, m.lock.secrethash)
    PROVE  /\ EndOK(AddLock(e, m))
           /\ get_amount_locked(AddLock(e, m)) = get_amount_locked(e) + m.lock.amount
<1> DEFINE f == AddLock(e, m)
           l == m.lock
<1>1. \A k \in Locks(e) : k.secrethash # l.secrethash
  BY DEF is_lock_pending
<1>2. e \in NettingChannelEndState
  BY DEF EndOK
<1>3. /\ f.locked = e.locked \cup {l} /\ f.unlocked = e.unlocked /\ f.onchain = e.onchain
      /\ f.pending_locks = Append(e.pending_locks, l)
  BY <1>1, <1>2 DEF AddLock, NettingChannelEndState, Insert, Locks, compute_locks_with
<1>4. f \in NettingChannelEndState
  <2>1. e.pending_locks \in Seq(HashTimeLockState)
    BY <1>2 DEF NettingChannelEndState
  <2>2. Append(e.pending_locks, l) \in Seq(HashTimeLockState)
    BY <2>1
  <2>3. Insert(e.locked, l) \in SUBSET HashTimeLockState
    BY <1>2 DEF Insert, NettingChannelEndState
  <2> QED
    BY <1>2, <2>2, <2>3, Zenon DEF AddLock, NettingChannelEndState, compute_locks_with
<1>5. Locks(f) = Locks(e) \cup {l}
  BY <1>3 DEF Locks
<1>6. IsFiniteSet(Locks(f))
  BY <1>5, FS_AddElement DEF EndOK
<1>7. LocksInSync(f)
  <2>1. e.pending_locks \in Seq(HashTimeLockState)
    BY <1>2 DEF NettingChannelEndState
  <2> DEFINE s == e.pending_locks
             t == Append(s, l)
  <2>2. /\ Len(s) \in Nat /\ DOMAIN s = 1 .. Len(s) /\ DOMAIN t = 1 .. Len(s) + 1
        /\ \A i \in 1 .. Len(s) : t[i] = s[i]
        /\ t[Len(s) + 1] = l
    BY <2>1
  <2>3. Locks(e) = {s[i] : i \in DOMAIN s} /\ UniqueHashes(s)
    BY DEF EndOK, LocksInSync
  <2> HIDE DEF t, s
  <2>4. Locks(f) = {t[i] : i \in DOMAIN t}
    BY <1>5, <2>2, <2>3
  <2>5. \A i \in 1 .. Len(s) : t[i].secrethash # l.secrethash
    BY <1>1, <2>2, <2>3
  <2>6. UniqueHashes(t)
    BY <2>2, <2>3, <2>5 DEF UniqueHashes
  <2>7. f.pending_locks = t
    BY <1>3 DEF t, s
  <2>8. l \notin Locks(e)
    BY <1>1
  <2>9. /\ e.locked \cap e.unlocked = {} /\ e.locked \cap e.onchain = {}
        /\ e.unlocked \cap e.onchain = {}
    BY DEF EndOK, LocksInSync
  <2>10. /\ f.locked \cap f.unlocked = {} /\ f.locked \cap f.onchain = {}
         /\ f.unlocked \cap f.onchain = {}
    BY <1>3, <2>8, <2>9 DEF Locks
  <2> HIDE DEF f
  <2>11. Locks(f) = {f.pending_locks[i] : i \in DOMAIN f.pending_locks}
    BY <2>4, <2>7, Zenon
  <2> QED
    BY <2>6, <2>7, <2>10, <2>11, Zenon DEF LocksInSync
<1>8. EndOK(f)
  BY <1>4, <1>6, <1>7 DEF EndOK
<1>9. SumAmounts(Locks(e) \cup {l}) = SumAmounts(Locks(e)) + l.amount
  <2>1. Locks(e) \in SUBSET HashTimeLockState
    BY <1>2 DEF Locks, NettingChannelEndState
  <2>2. l \notin Locks(e)
    BY <1>1
  <2> QED
    BY <2>1, <2>2, SumAdd DEF EndOK
<1>10. SumAmounts(Locks(f)) = SumAmounts(Locks(e) \cup {l})
  BY <1>5, Zenon
<1> QED
  BY <1>8, <1>9, <1>10, AmountLocked

(* Removing a pending lock from the list and from every dictionary. *)
LEMMA RemovedLockOK ==
    ASSUME NEW e, EndOK(e), NEW l \in Locks(e), NEW f \in NettingChannelEndState,
           f.pending_locks = compute_locks_without(e.pending_locks, l),
           f.locked = Without(e.locked, l.secrethash),
           f.unlocked = Without(e.unlocked, l.secrethash),
           f.onchain = Without(e.onchain, l.secrethash)
    PROVE  /\ EndOK(f)
           /\ get_amount_locked(f) = get_amount_locked(e) - l.amount
<1> DEFINE s == e.pending_locks
           t == compute_locks_without(s, l)
<1>1. e \in NettingChannelEndState /\ s \in Seq(HashTimeLockState)
  BY DEF EndOK, NettingChannelEndState
<1>2. Locks(e) = {s[i] : i \in DOMAIN s} /\ UniqueHashes(s)
  BY DEF EndOK, LocksInSync
<1>3. IsPending(s, l)
  BY <1>2 DEF IsPending
<1>4. /\ UniqueHashes(t)
      /\ {t[i] : i \in DOMAIN t} = {s[i] : i \in DOMAIN s} \ {l}
  BY <1>1, <1>2, <1>3, WithoutLock, Zenon
<1>5. \A k \in Locks(e) : k.secrethash = l.secrethash => k = l
  BY <1>2 DEF UniqueHashes
<1>6. /\ f.locked = e.locked \ {l} /\ f.unlocked = e.unlocked \ {l}
      /\ f.onchain = e.onchain \ {l}
  BY <1>5 DEF Without, Locks
<1>7. Locks(f) = Locks(e) \ {l}
  BY <1>6 DEF Locks
<1>8. f.pending_locks = t
  OBVIOUS
<1> HIDE DEF t, s
<1>9. Locks(f) = {f.pending_locks[i] : i \in DOMAIN f.pending_locks}
  <2>1. Locks(f) = {t[i] : i \in DOMAIN t}
    BY <1>2, <1>4, <1>7, Zenon
  <2> QED
    BY <2>1, <1>8, Zenon
<1>10. /\ f.locked \cap f.unlocked = {} /\ f.locked \cap f.onchain = {}
       /\ f.unlocked \cap f.onchain = {}
  BY <1>6 DEF EndOK, LocksInSync
<1>11. IsFiniteSet(Locks(f))
  BY <1>7, FS_RemoveElement DEF EndOK
<1>12. LocksInSync(f)
  BY <1>4, <1>8, <1>9, <1>10, Zenon DEF LocksInSync
<1>13. EndOK(f)
  BY <1>11, <1>12 DEF EndOK
<1>14. SumAmounts(Locks(e) \ {l}) = SumAmounts(Locks(e)) - l.amount
  <2>1. Locks(e) \in SUBSET HashTimeLockState
    BY <1>1 DEF Locks, NettingChannelEndState
  <2> QED
    BY <2>1, SumRemove DEF EndOK
<1>15. SumAmounts(Locks(f)) = SumAmounts(Locks(e) \ {l})
  BY <1>7, Zenon
<1> QED
  BY <1>13, <1>14, <1>15, AmountLocked

(* Claiming a lock removes it and its amount. *)
LEMMA ClaimLockOK ==
    ASSUME NEW e, EndOK(e), NEW l \in Locks(e), NEW m,
           m.nonce \in Nat, m.transferred \in Nat
    PROVE  /\ EndOK(ClaimLock(e, m, l))
           /\ get_amount_locked(ClaimLock(e, m, l)) = get_amount_locked(e) - l.amount
<1> DEFINE f == ClaimLock(e, m, l)
           t == compute_locks_without(e.pending_locks, l)
<1>1. e \in NettingChannelEndState
  BY DEF EndOK
<1>2. t \in Seq(HashTimeLockState)
  <2>1. IsPending(e.pending_locks, l)
    BY SMTT(30) DEF EndOK, LocksInSync, IsPending
  <2> QED
    BY <2>1, WithoutLock DEF EndOK, LocksInSync, NettingChannelEndState
<1>3. f \in NettingChannelEndState
  BY <1>1, <1>2, Zenon DEF ClaimLock, NettingChannelEndState, Without
<1>4. /\ f.pending_locks = t
      /\ f.locked = Without(e.locked, l.secrethash)
      /\ f.unlocked = Without(e.unlocked, l.secrethash)
      /\ f.onchain = Without(e.onchain, l.secrethash)
  BY <1>1 DEF ClaimLock, NettingChannelEndState
<1> QED
  BY <1>3, <1>4, RemovedLockOK

(* Removing an expired lock, which no dictionary of registered locks has,  *)
(* removes it and its amount.                                              *)
LEMMA RemoveExpiredLockOK ==
    ASSUME NEW e, EndOK(e), NEW l \in e.locked \cup e.unlocked, NEW m,
           m.nonce \in Nat, m.transferred \in Nat
    PROVE  /\ EndOK(RemoveExpiredLock(e, m, l))
           /\ get_amount_locked(RemoveExpiredLock(e, m, l)) = get_amount_locked(e) - l.amount
<1> DEFINE f == RemoveExpiredLock(e, m, l)
           t == compute_locks_without(e.pending_locks, l)
<1>1. e \in NettingChannelEndState /\ l \in Locks(e)
  BY DEF EndOK, Locks
<1>2. t \in Seq(HashTimeLockState)
  <2>1. IsPending(e.pending_locks, l)
    BY <1>1, SMTT(30) DEF EndOK, LocksInSync, IsPending
  <2> QED
    BY <2>1, WithoutLock DEF EndOK, LocksInSync, NettingChannelEndState
<1>3. f \in NettingChannelEndState
  BY <1>1, <1>2, Zenon DEF RemoveExpiredLock, NettingChannelEndState, Without
<1>4. \A k \in e.onchain : k.secrethash # l.secrethash
  <2>1. l \notin e.onchain
    BY DEF EndOK, LocksInSync
  <2>2. \A k \in Locks(e) : k.secrethash = l.secrethash => k = l
    BY <1>1 DEF EndOK, LocksInSync, UniqueHashes
  <2> QED
    BY <2>1, <2>2 DEF Locks
<1>5. /\ f.pending_locks = t
      /\ f.locked = Without(e.locked, l.secrethash)
      /\ f.unlocked = Without(e.unlocked, l.secrethash)
      /\ f.onchain = e.onchain
  BY <1>1 DEF RemoveExpiredLock, NettingChannelEndState
<1>6. f.onchain = Without(e.onchain, l.secrethash)
  BY <1>4, <1>5 DEF Without
<1> QED
  BY <1>1, <1>3, <1>5, <1>6, RemovedLockOK

(* Moving locks between the dictionaries changes neither the pending locks *)
(* nor the locked amount.                                                  *)
LEMMA MovedLocksOK ==
    ASSUME NEW e, EndOK(e), NEW f \in NettingChannelEndState,
           f.pending_locks = e.pending_locks, Locks(f) = Locks(e),
           f.locked \cap f.unlocked = {}, f.locked \cap f.onchain = {},
           f.unlocked \cap f.onchain = {}
    PROVE  EndOK(f) /\ get_amount_locked(f) = get_amount_locked(e)
<1>1. IsFiniteSet(Locks(f)) /\ SumAmounts(Locks(f)) = SumAmounts(Locks(e))
  BY Zenon DEF EndOK
<1>2. LocksInSync(f)
  <2>1. /\ Locks(e) = {e.pending_locks[i] : i \in DOMAIN e.pending_locks}
        /\ UniqueHashes(e.pending_locks)
    BY DEF EndOK, LocksInSync
  <2>2. /\ Locks(f) = {f.pending_locks[i] : i \in DOMAIN f.pending_locks}
        /\ UniqueHashes(f.pending_locks)
    BY <2>1, Zenon
  <2> QED
    BY <2>2, Zenon DEF LocksInSync
<1> QED
  BY <1>1, <1>2, AmountLocked DEF EndOK

LEMMA RegisterSecretOK ==
    ASSUME NEW e, EndOK(e), NEW h
    PROVE  /\ EndOK(register_secret_endstate(e, h))
           /\ get_amount_locked(register_secret_endstate(e, h)) = get_amount_locked(e)
<1> DEFINE f == register_secret_endstate(e, h)
<1>1. e \in NettingChannelEndState
  BY SMTT(30) DEF EndOK
<1>2. f \in NettingChannelEndState
  BY <1>1, Zenon DEF register_secret_endstate, NettingChannelEndState, Without
<1>3. /\ f.pending_locks = e.pending_locks
      /\ f.locked = Without(e.locked, h)
      /\ f.unlocked = e.unlocked \cup {l \in e.locked : l.secrethash = h}
      /\ f.onchain = e.onchain
  BY <1>1 DEF register_secret_endstate, NettingChannelEndState
<1>4. Locks(f) = Locks(e)
  BY <1>3 DEF Locks, Without
<1>5. /\ f.locked \cap f.unlocked = {} /\ f.locked \cap f.onchain = {}
      /\ f.unlocked \cap f.onchain = {}
  BY <1>3 DEF EndOK, LocksInSync, Without
<1> QED
  BY <1>2, <1>3, <1>4, <1>5, MovedLocksOK

LEMMA RegisterOnchainOK ==
    ASSUME NEW e, EndOK(e), NEW hashes, NEW reveal
    PROVE  LET f == register_onchain_secret_endstate(e, hashes, reveal)
           IN  EndOK(f) /\ get_amount_locked(f) = get_amount_locked(e)
<1> DEFINE f == register_onchain_secret_endstate(e, hashes, reveal)
           moved == {l \in e.locked \cup e.unlocked :
                       /\ l.secrethash \in hashes
                       /\ reveal[l.secrethash] <= l.expiration}
<1>1. e \in NettingChannelEndState
  BY DEF EndOK
<1>2. f = [e EXCEPT !.locked = @ \ moved, !.unlocked = @ \ moved, !.onchain = @ \cup moved]
  BY DEF register_onchain_secret_endstate
<1>3. moved \subseteq e.locked \cup e.unlocked
  OBVIOUS
<1> HIDE DEF moved, f
<1>4. f \in NettingChannelEndState
  BY <1>1, <1>2, <1>3, Zenon DEF NettingChannelEndState
<1>5. /\ f.pending_locks = e.pending_locks
      /\ f.locked = e.locked \ moved
      /\ f.unlocked = e.unlocked \ moved
      /\ f.onchain = e.onchain \cup moved
  BY <1>1, <1>2 DEF NettingChannelEndState
<1>6. Locks(f) = Locks(e)
  BY <1>3, <1>5 DEF Locks
<1>7. /\ f.locked \cap f.unlocked = {} /\ f.locked \cap f.onchain = {}
      /\ f.unlocked \cap f.onchain = {}
  BY <1>3, <1>5 DEF EndOK, LocksInSync
<1>8. EndOK(f) /\ get_amount_locked(f) = get_amount_locked(e)
  BY <1>4, <1>5, <1>6, <1>7, MovedLocksOK
<1> QED
  BY <1>8 DEF f

LEMMA UpdateBalanceOK ==
    ASSUME NEW e, EndOK(e), NEW d \in Nat
    PROVE  /\ EndOK(update_contract_balance(e, d))
           /\ get_amount_locked(update_contract_balance(e, d)) = get_amount_locked(e)
<1> DEFINE f == update_contract_balance(e, d)
<1>1. e \in NettingChannelEndState
  BY DEF EndOK
<1>2. f \in NettingChannelEndState
  BY <1>1 DEF update_contract_balance, AtLeast, NettingChannelEndState
<1>3. /\ f.pending_locks = e.pending_locks /\ f.locked = e.locked
      /\ f.unlocked = e.unlocked /\ f.onchain = e.onchain
  BY <1>1 DEF update_contract_balance, NettingChannelEndState
<1>4. Locks(f) = Locks(e)
  BY <1>3, Zenon DEF Locks
<1> QED
  BY <1>2, <1>3, <1>4, MovedLocksOK DEF EndOK, LocksInSync

-----------------------------------------------------------------------------

USE NettingChannelAssumption DEF NettingChannelAssumption

(* The blockchain part of the type invariant. *)
ChainOK ==
    /\ head \in Nat
    /\ registered \in [SecretHash -> Nat]
    /\ total_deposit \in [Node -> Seq(Nat)]
    /\ \A n \in Node : Len(total_deposit[n]) = head
    /\ block \in [Node -> Nat]
    /\ \A n \in Node : block[n] \in 1 .. head - Confirmations

(* Both ends a node holds pass sanity_check. *)
EndsOK ==
    /\ our \in [Node -> NettingChannelEndState]
    /\ partner \in [Node -> NettingChannelEndState]
    /\ \A n \in Node : EndOK(our[n]) /\ EndOK(partner[n])
    /\ \A n \in Node : IsSolvent(our[n], partner[n]) /\ IsSolvent(partner[n], our[n])

(* The message of nonce i is the i-th, and signs locks with distinct       *)
(* secrethashes.                                                           *)
MessagesWellFormed ==
    /\ sent \in [Node -> Seq(EnvelopeMessage)]
    /\ \A n \in Node : \A i \in DOMAIN sent[n] :
         sent[n][i].nonce = i /\ UniqueHashes(sent[n][i].locksroot)

IInv == ChainOK /\ EndsOK /\ MessagesWellFormed /\ ViewsAgree

LEMMA OtherNode == \A n \in Node : Other(n) \in Node /\ Other(n) # n /\ Other(Other(n)) = n
BY DEF Node, Other

(* The fields two end states share when one is obtained from the other by  *)
(* an update that signs nothing.                                           *)
SameSignedState(e, f) ==
    /\ f.nonce = e.nonce
    /\ f.transferred = e.transferred
    /\ f.pending_locks = e.pending_locks
    /\ get_amount_locked(f) = get_amount_locked(e)

(* The state f is what message m signs. *)
Signs(m, f) ==
    /\ f.nonce = m.nonce
    /\ f.transferred = m.transferred
    /\ f.pending_locks = m.locksroot
    /\ get_amount_locked(f) = m.locked_amount

(* A node sends the message m and moves its own end to the state f.        *)
LEMMA SendStep ==
    ASSUME IInv, NEW n \in Node, NEW m \in EnvelopeMessage, NEW f,
           EndOK(f), IsSolvent(f, partner[n]), IsSolvent(partner[n], f),
           m.nonce = our[n].nonce + 1, Signs(m, f),
           our' = [our EXCEPT ![n] = f],
           sent' = [sent EXCEPT ![n] = Append(@, m)],
           UNCHANGED <<head, registered, total_deposit, block, partner>>
    PROVE  IInv'
<1>1. ChainOK'
  BY DEF IInv, ChainOK
<1>2. f \in NettingChannelEndState
  BY DEF EndOK
<1>3. EndsOK'
  BY <1>2 DEF IInv, EndsOK
<1>4. our[n].nonce = Len(sent[n])
  BY DEF IInv, ViewsAgree
<1>5. sent[n] \in Seq(EnvelopeMessage)
  BY DEF IInv, MessagesWellFormed
<1>6. /\ Len(sent[n]) \in Nat
      /\ DOMAIN sent[n] = 1 .. Len(sent[n])
      /\ sent'[n] \in Seq(EnvelopeMessage)
      /\ Len(sent'[n]) = Len(sent[n]) + 1
      /\ DOMAIN sent'[n] = 1 .. Len(sent[n]) + 1
      /\ \A i \in 1 .. Len(sent[n]) : sent'[n][i] = sent[n][i]
      /\ sent'[n][Len(sent[n]) + 1] = m
  <2>1. sent'[n] = Append(sent[n], m)
    BY DEF IInv, MessagesWellFormed
  <2> QED
    BY <1>5, <2>1
<1>7. UniqueHashes(m.locksroot)
  BY DEF EndOK, LocksInSync, Signs
<1>8. \A k \in Node : k # n => sent'[k] = sent[k]
  BY DEF IInv, MessagesWellFormed
<1>9. MessagesWellFormed'
  <2>1. sent' \in [Node -> Seq(EnvelopeMessage)]
    BY <1>5, <1>6 DEF IInv, MessagesWellFormed
  <2>2. \A i \in DOMAIN sent'[n] :
          sent'[n][i].nonce = i /\ UniqueHashes(sent'[n][i].locksroot)
    <3> SUFFICES ASSUME NEW i \in DOMAIN sent'[n]
                 PROVE  sent'[n][i].nonce = i /\ UniqueHashes(sent'[n][i].locksroot)
      OBVIOUS
    <3>1. CASE i \in 1 .. Len(sent[n])
      BY <3>1, <1>6 DEF IInv, MessagesWellFormed
    <3>2. CASE i = Len(sent[n]) + 1
      BY <3>2, <1>4, <1>6, <1>7
    <3> QED
      BY <3>1, <3>2, <1>6
  <2> QED
    BY <2>1, <2>2, <1>8 DEF IInv, MessagesWellFormed
<1>10. /\ our'[n] = f
       /\ \A k \in Node : k # n => our'[k] = our[k]
       /\ partner' = partner
  BY DEF IInv, EndsOK
<1>11. /\ f.nonce = Len(sent[n]) + 1
       /\ IsSignedState(f, sent'[n])
  BY <1>4, <1>6 DEF Signs, IsSignedState
<1>12. partner[Other(n)] \in NettingChannelEndState /\ partner[Other(n)].nonce <= Len(sent[n])
  BY <1>4, OtherNode DEF IInv, ViewsAgree, EndsOK
<1>13. IsSignedState(partner[Other(n)], sent'[n])
  <2>1. IsSignedState(partner[Other(n)], sent[n])
    BY DEF IInv, ViewsAgree
  <2>2. partner[Other(n)].nonce \in Nat
    BY <1>12 DEF NettingChannelEndState
  <2>3. CASE partner[Other(n)].nonce = 0
    BY <2>1, <2>3 DEF IsSignedState
  <2>4. CASE partner[Other(n)].nonce # 0
    <3>1. partner[Other(n)].nonce \in 1 .. Len(sent[n])
      BY <2>2, <2>4, <1>12, <1>6
    <3>2. sent'[n][partner[Other(n)].nonce] = sent[n][partner[Other(n)].nonce]
      BY <3>1, <1>6
    <3> QED
      BY <2>1, <2>4, <3>2, Zenon DEF IsSignedState
  <2> QED
    BY <2>3, <2>4
<1>14. ViewsAgree'
  <2> SUFFICES ASSUME NEW k \in Node
               PROVE  /\ our'[k].nonce = Len(sent'[k])
                      /\ partner'[Other(k)].nonce <= our'[k].nonce
                      /\ IsSignedState(our'[k], sent'[k])
                      /\ IsSignedState(partner'[Other(k)], sent'[k])
    BY Zenon DEF ViewsAgree, IsSignedState, get_amount_locked
  <2>1. CASE k = n
    <3>1. partner[Other(n)].nonce <= f.nonce
      BY <1>6, <1>11, <1>12 DEF NettingChannelEndState
    <3> QED
      BY <2>1, <3>1, <1>6, <1>10, <1>11, <1>13
  <2>2. CASE k # n
    BY <2>2, <1>8, <1>10 DEF IInv, ViewsAgree
  <2> QED
    BY <2>1, <2>2
<1> QED
  BY <1>1, <1>3, <1>9, <1>14 DEF IInv

(* A node accepts the message m of its partner and moves its copy of the   *)
(* partner's end to the state f.                                           *)
LEMMA ReceiveStep ==
    ASSUME IInv, NEW n \in Node, NEW m \in Messages(Other(n)), NEW f,
           EndOK(f), IsSolvent(f, our[n]), IsSolvent(our[n], f),
           m.nonce = partner[n].nonce + 1, Signs(m, f),
           partner' = [partner EXCEPT ![n] = f],
           UNCHANGED <<head, registered, total_deposit, block, our, sent>>
    PROVE  IInv'
<1>1. ChainOK' /\ MessagesWellFormed'
  BY DEF IInv, ChainOK, MessagesWellFormed
<1>2. f \in NettingChannelEndState
  BY DEF EndOK
<1>3. EndsOK'
  BY <1>2 DEF IInv, EndsOK
<1> DEFINE p == Other(n)
<1>4. p \in Node /\ p # n /\ Other(p) = n
  BY OtherNode
<1>5. PICK i \in DOMAIN sent[p] : m = sent[p][i]
  BY DEF Messages
<1>6. m.nonce = i /\ sent[p] \in Seq(EnvelopeMessage)
  BY <1>4, <1>5 DEF IInv, MessagesWellFormed
<1>7. i \in 1 .. Len(sent[p]) /\ Len(sent[p]) \in Nat
  BY <1>5, <1>6
<1>8. f.nonce = i /\ IsSignedState(f, sent[p])
  BY <1>5, <1>6, <1>7 DEF Signs, IsSignedState
<1>9. our[p].nonce = Len(sent[p])
  BY <1>4 DEF IInv, ViewsAgree
<1>10. partner'[n] = f /\ \A k \in Node : k # n => partner'[k] = partner[k]
  BY DEF IInv, EndsOK
<1>11. ViewsAgree'
  <2> SUFFICES ASSUME NEW k \in Node
               PROVE  /\ our[k].nonce = Len(sent[k])
                      /\ partner'[Other(k)].nonce <= our[k].nonce
                      /\ IsSignedState(our[k], sent[k])
                      /\ IsSignedState(partner'[Other(k)], sent[k])
    BY Zenon DEF ViewsAgree, IsSignedState, get_amount_locked
  <2>1. CASE k = p
    BY <2>1, <1>4, <1>7, <1>8, <1>9, <1>10 DEF IInv, ViewsAgree
  <2>2. CASE k # p
    <3>1. Other(k) # n
      BY <2>2, OtherNode
    <3> QED
      BY <3>1, <1>10, OtherNode DEF IInv, ViewsAgree
  <2> QED
    BY Zenon, <2>1, <2>2
<1> QED
  BY <1>1, <1>3, <1>11 DEF IInv

(* A node updates both its end states without signing or receiving         *)
(* anything: deposits may grow and locks move between dictionaries.        *)
LEMMA LocalStep ==
    ASSUME IInv, NEW n \in Node, NEW f, NEW g,
           EndOK(f), SameSignedState(our[n], f),
           EndOK(g), SameSignedState(partner[n], g),
           IsSolvent(f, g), IsSolvent(g, f),
           our' = [our EXCEPT ![n] = f],
           partner' = [partner EXCEPT ![n] = g],
           ChainOK', sent' = sent
    PROVE  IInv'
<1>1. MessagesWellFormed'
  BY DEF IInv, MessagesWellFormed
<1>2. f \in NettingChannelEndState /\ g \in NettingChannelEndState
  BY DEF EndOK
<1>3. EndsOK'
  BY <1>2 DEF IInv, EndsOK
<1>4. /\ our'[n] = f /\ \A k \in Node : k # n => our'[k] = our[k]
      /\ partner'[n] = g /\ \A k \in Node : k # n => partner'[k] = partner[k]
  BY DEF IInv, EndsOK
<1>5. ViewsAgree'
  <2> SUFFICES ASSUME NEW k \in Node
               PROVE  /\ our'[k].nonce = Len(sent'[k])
                      /\ partner'[Other(k)].nonce <= our'[k].nonce
                      /\ IsSignedState(our'[k], sent'[k])
                      /\ IsSignedState(partner'[Other(k)], sent'[k])
    BY Zenon DEF ViewsAgree, IsSignedState, get_amount_locked
  <2>1. /\ our[k].nonce = Len(sent[k])
        /\ partner[Other(k)].nonce <= our[k].nonce
        /\ IsSignedState(our[k], sent[k])
        /\ IsSignedState(partner[Other(k)], sent[k])
    BY DEF IInv, ViewsAgree
  <2>2. SameSignedState(our[k], our'[k])
    BY <1>4 DEF SameSignedState
  <2>3. SameSignedState(partner[Other(k)], partner'[Other(k)])
    BY <1>4, OtherNode DEF SameSignedState
  <2>4. IsSignedState(our'[k], sent[k])
    BY Zenon, <2>1, <2>2 DEF SameSignedState, IsSignedState
  <2>5. IsSignedState(partner'[Other(k)], sent[k])
    BY Zenon, <2>1, <2>3 DEF SameSignedState, IsSignedState
  <2>6. our'[k].nonce = our[k].nonce /\ partner'[Other(k)].nonce = partner[Other(k)].nonce
    BY Zenon, <2>2, <2>3 DEF SameSignedState
  <2> QED
    BY Zenon, <2>1, <2>4, <2>5, <2>6
<1> QED
  BY <1>1, <1>3, <1>5 DEF IInv

-----------------------------------------------------------------------------
LEMMA InitInv == Init => IInv
<1> SUFFICES ASSUME Init PROVE IInv
  OBVIOUS
<1> USE ChannelStateAssumption DEF ChannelStateAssumption
<1>1. \A d \in Nat : /\ EndOK(EmptyEndState(d))
                     /\ get_amount_locked(EmptyEndState(d)) = 0
                     /\ EmptyEndState(d) \in NettingChannelEndState
  <2> SUFFICES ASSUME NEW d \in Nat
               PROVE  /\ EndOK(EmptyEndState(d))
                      /\ get_amount_locked(EmptyEndState(d)) = 0
                      /\ EmptyEndState(d) \in NettingChannelEndState
    OBVIOUS
  <2> DEFINE e == EmptyEndState(d)
  <2>1. e \in NettingChannelEndState
    BY DEF EmptyEndState, NettingChannelEndState
  <2>2. Locks(e) = {}
    BY DEF Locks, EmptyEndState
  <2>5. /\ e.locked = {} /\ e.unlocked = {} /\ e.onchain = {}
        /\ e.pending_locks = << >>
    BY DEF EmptyEndState
  <2>6. DOMAIN << >> = {}
    OBVIOUS
  <2> HIDE DEF e
  <2>3. LocksInSync(e)
    <3>1. DOMAIN e.pending_locks = {}
      BY <2>5, <2>6, Zenon
    <3>2. {e.pending_locks[i] : i \in DOMAIN e.pending_locks} = {}
      BY <3>1
    <3>3. UniqueHashes(e.pending_locks)
      BY <3>1, Zenon DEF UniqueHashes
    <3> QED
      BY <2>2, <2>5, <3>2, <3>3 DEF LocksInSync
  <2>4. get_amount_locked(e) = 0
    BY <2>5, SumEmpty DEF get_amount_locked
  <2> QED
    BY <2>1, <2>2, <2>3, <2>4, FS_EmptySet DEF EndOK, e
<1>2. /\ \A n \in Node : our[n] = EmptyEndState(InitialDeposit[n])
      /\ \A n \in Node : partner[n] = EmptyEndState(InitialDeposit[Other(n)])
      /\ \A n \in Node : InitialDeposit[n] \in Nat /\ InitialDeposit[Other(n)] \in Nat
  BY OtherNode DEF Init
<1>3. ChainOK
  <2>1. \A n \in Node : total_deposit[n] \in Seq(Nat) /\ Len(total_deposit[n]) = head
    <3> SUFFICES ASSUME NEW n \in Node
                 PROVE  total_deposit[n] \in Seq(Nat) /\ Len(total_deposit[n]) = head
      OBVIOUS
    <3>1. total_deposit[n] = [b \in 1 .. 1 + Confirmations |-> InitialDeposit[n]]
      BY DEF Init
    <3>2. [b \in 1 .. 1 + Confirmations |-> InitialDeposit[n]] \in [1 .. 1 + Confirmations -> Nat]
      BY <1>2
    <3>3. total_deposit[n] \in Seq(Nat)
      BY <3>1, <3>2, ChannelStateAssumption, FunctionIsSequence DEF ChannelStateAssumption
    <3> QED
      BY <3>1, <3>3 DEF Init
  <2> QED
    BY <2>1 DEF ChainOK, Init
<1>4. EndsOK
  <2>1. \A n \in Node : IsSolvent(our[n], partner[n]) /\ IsSolvent(partner[n], our[n])
    <3>1. \A c, d \in Nat : IsSolvent(EmptyEndState(c), EmptyEndState(d))
      <4> SUFFICES ASSUME NEW c \in Nat, NEW d \in Nat
                   PROVE  IsSolvent(EmptyEndState(c), EmptyEndState(d))
        OBVIOUS
      <4>1. get_balance(EmptyEndState(c), EmptyEndState(d)) = c
        BY DEF get_balance, EmptyEndState
      <4>2. EmptyEndState(c).transferred = 0
        BY DEF EmptyEndState
      <4>3. get_amount_locked(EmptyEndState(c)) = 0
        BY <1>1
      <4> QED
        BY <4>1, <4>2, <4>3 DEF IsSolvent
    <3> QED
      BY <3>1, <1>2
  <2>2. \A n \in Node : EndOK(our[n]) /\ EndOK(partner[n])
    BY <1>1, <1>2
  <2> QED
    BY <1>1, <1>2, <2>1, <2>2 DEF EndsOK, Init
<1>5. MessagesWellFormed
  BY DEF Init, MessagesWellFormed
<1>6. ViewsAgree
  <2> SUFFICES ASSUME NEW n \in Node
               PROVE  /\ our[n].nonce = Len(sent[n])
                      /\ partner[Other(n)].nonce <= our[n].nonce
                      /\ IsSignedState(our[n], sent[n])
                      /\ IsSignedState(partner[Other(n)], sent[n])
    BY DEF ViewsAgree
  <2>1. sent[n] = << >>
    BY DEF Init
  <2>4. \A d \in Nat : /\ EmptyEndState(d).nonce = 0 /\ EmptyEndState(d).transferred = 0
                       /\ EmptyEndState(d).pending_locks = << >>
    BY DEF EmptyEndState
  <2>2. /\ our[n].nonce = 0 /\ our[n].transferred = 0 /\ our[n].pending_locks = << >>
        /\ partner[Other(n)].nonce = 0 /\ partner[Other(n)].transferred = 0
        /\ partner[Other(n)].pending_locks = << >>
    BY <1>2, <2>4, OtherNode
  <2>3. get_amount_locked(our[n]) = 0 /\ get_amount_locked(partner[Other(n)]) = 0
    BY <1>1, <1>2, OtherNode
  <2> QED
    BY <2>1, <2>2, <2>3 DEF IsSignedState
<1> QED
  BY <1>3, <1>4, <1>5, <1>6 DEF IInv

-----------------------------------------------------------------------------
(* The types of the quantities of one end, as the arithmetic needs them.   *)
LEMMA EndTypes ==
    ASSUME NEW e, EndOK(e)
    PROVE  /\ e.contract_balance \in Nat /\ e.total_withdraw \in Nat
           /\ e.nonce \in Nat /\ e.transferred \in Nat
           /\ get_amount_locked(e) \in Nat
           /\ e.pending_locks \in Seq(HashTimeLockState)
           /\ Locks(e) \in SUBSET HashTimeLockState
BY AmountLocked DEF EndOK, NettingChannelEndState, Locks

LEMMA LockTypes ==
    ASSUME NEW l \in HashTimeLockState
    PROVE  l.amount \in Nat /\ l.expiration \in Nat /\ l.secrethash \in SecretHash
BY ChannelStateAssumption, Zenon DEF HashTimeLockState, ChannelStateAssumption

LEMMA SendLockedTransferInv ==
    ASSUME IInv, NEW n \in Node, NEW lock \in HashTimeLockState,
           SendLockedTransfer(n, lock)
    PROVE  IInv'
<1> DEFINE e == our[n]
           q == partner[n]
           m == create_sendlockedtransfer(e, lock)
           f == AddLock(e, m)
<1>1. /\ IsNewPayment(n, lock.secrethash)
      /\ is_channel_usable_for_new_transfer(n, lock)
      /\ our' = [our EXCEPT ![n] = f]
      /\ sent' = [sent EXCEPT ![n] = Append(@, m)]
      /\ UNCHANGED <<head, registered, total_deposit, block, partner>>
  BY DEF SendLockedTransfer
<1>2. EndOK(e) /\ EndOK(q) /\ IsSolvent(e, q) /\ IsSolvent(q, e)
  BY DEF IInv, EndsOK
<1>3. /\ m.nonce = e.nonce + 1 /\ m.transferred = e.transferred
      /\ m.locked_amount = get_amount_locked(e) + lock.amount
      /\ m.locksroot = compute_locks_with(e.pending_locks, lock)
      /\ m.lock = lock
  BY DEF create_sendlockedtransfer
<1>4. compute_locks_with(e.pending_locks, lock) \in Seq(HashTimeLockState)
  BY <1>2, EndTypes DEF compute_locks_with
<1>5. m \in EnvelopeMessage
  <2>1. /\ e.nonce + 1 \in Nat /\ e.transferred \in Nat
        /\ get_amount_locked(e) + lock.amount \in Int
    BY <1>2, EndTypes, LockTypes
  <2>2. m \in LockedTransferMessage
    BY <1>4, <2>1 DEF create_sendlockedtransfer, LockedTransferMessage
  <2> QED
    BY <2>2 DEF EnvelopeMessage
<1> HIDE DEF m
<1>6. EndOK(f) /\ get_amount_locked(f) = get_amount_locked(e) + lock.amount
  <2>1. ~is_lock_pending(e, lock.secrethash)
    BY <1>1 DEF IsNewPayment
  <2>2. m.nonce \in Nat /\ m.transferred \in Nat /\ m.lock \in HashTimeLockState
    BY <1>2, <1>3, EndTypes
  <2> QED
    BY <1>2, <1>3, <2>1, <2>2, AddLockOK
<1>7. /\ f.nonce = m.nonce /\ f.transferred = m.transferred
      /\ f.pending_locks = compute_locks_with(e.pending_locks, lock)
      /\ f.contract_balance = e.contract_balance /\ f.total_withdraw = e.total_withdraw
  BY <1>2, <1>3 DEF AddLock, EndOK, NettingChannelEndState
<1> HIDE DEF f
<1>8. Signs(m, f)
  BY <1>3, <1>6, <1>7 DEF Signs
<1>9. IsSolvent(f, q) /\ IsSolvent(q, f)
  <2>1. lock.amount <= get_distributable(e, q)
    BY <1>1 DEF is_channel_usable_for_new_transfer
  <2>2. /\ get_amount_locked(e) \in Nat /\ lock.amount \in Nat /\ lock.amount # 0
        /\ e.contract_balance \in Nat /\ e.total_withdraw \in Nat /\ e.transferred \in Nat
        /\ q.contract_balance \in Nat /\ q.total_withdraw \in Nat /\ q.transferred \in Nat
        /\ UINT256_MAX \in Nat
    BY <1>2, EndTypes, LockTypes, ChannelStateAssumption
       DEF HashTimeLockState, ChannelStateAssumption
  <2>3. /\ lock.amount + get_amount_locked(e) <= get_balance(e, q)
        /\ e.transferred + get_amount_locked(e) + lock.amount <= UINT256_MAX
    BY <2>1, <2>2 DEF get_distributable, AtMost, AtLeast, get_balance
  <2>4. get_balance(f, q) = get_balance(e, q) /\ get_balance(q, f) = get_balance(q, e)
    BY <1>3, <1>7 DEF get_balance
  <2>5. IsSolvent(q, f)
    BY <1>2, <2>4 DEF IsSolvent
  <2>6. IsSolvent(f, q)
    BY <1>3, <1>6, <1>7, <2>2, <2>3, <2>4 DEF IsSolvent
  <2> QED
    BY <2>5, <2>6
<1> QED
  BY <1>1, <1>3, <1>5, <1>6, <1>8, <1>9, SendStep, Zenon

LEMMA SendUnlockInv ==
    ASSUME IInv, NEW n \in Node, NEW lock, SendUnlock(n, lock)
    PROVE  IInv'
<1> DEFINE e == our[n]
           q == partner[n]
           m == create_unlock(e, lock)
           f == ClaimLock(e, m, lock)
<1>1. /\ lock \in Locks(e)
      /\ our' = [our EXCEPT ![n] = f]
      /\ sent' = [sent EXCEPT ![n] = Append(@, m)]
      /\ UNCHANGED <<head, registered, total_deposit, block, partner>>
  BY DEF SendUnlock
<1>2. EndOK(e) /\ EndOK(q) /\ IsSolvent(e, q) /\ IsSolvent(q, e)
  BY DEF IInv, EndsOK
<1>3. /\ m.nonce = e.nonce + 1 /\ m.transferred = e.transferred + lock.amount
      /\ m.locked_amount = get_amount_locked(e) - lock.amount
      /\ m.locksroot = compute_locks_without(e.pending_locks, lock)
  BY DEF create_unlock
<1>4. /\ get_amount_locked(e) \in Nat /\ lock \in HashTimeLockState
      /\ lock.amount \in Nat /\ lock.secrethash \in SecretHash
      /\ e.contract_balance \in Nat /\ e.total_withdraw \in Nat /\ e.transferred \in Nat
      /\ q.contract_balance \in Nat /\ q.total_withdraw \in Nat /\ q.transferred \in Nat
      /\ UINT256_MAX \in Nat /\ e.nonce \in Nat
  BY <1>1, <1>2, EndTypes, LockTypes, ChannelStateAssumption, SMTT(30) DEF ChannelStateAssumption
<1>5. compute_locks_without(e.pending_locks, lock) \in Seq(HashTimeLockState)
  <2>1. IsPending(e.pending_locks, lock)
    BY <1>1, <1>2 DEF EndOK, LocksInSync, IsPending
  <2> QED
    BY <1>2, <2>1, WithoutLock, EndTypes, Zenon DEF EndOK, LocksInSync
<1>6. m \in EnvelopeMessage
  <2>1. /\ e.nonce + 1 \in Nat /\ e.transferred + lock.amount \in Nat
        /\ get_amount_locked(e) - lock.amount \in Int
    BY <1>4
  <2>2. m \in UnlockMessage
    BY <1>4, <1>5, <2>1 DEF create_unlock, UnlockMessage
  <2> QED
    BY <2>2 DEF EnvelopeMessage
<1>7. m.nonce \in Nat /\ m.transferred \in Nat
  BY <1>3, <1>4
<1> HIDE DEF m
<1>8. EndOK(f) /\ get_amount_locked(f) = get_amount_locked(e) - lock.amount
  BY <1>1, <1>2, <1>7, ClaimLockOK
<1>9. /\ f.nonce = m.nonce /\ f.transferred = m.transferred
      /\ f.pending_locks = compute_locks_without(e.pending_locks, lock)
      /\ f.contract_balance = e.contract_balance /\ f.total_withdraw = e.total_withdraw
  BY <1>2 DEF ClaimLock, EndOK, NettingChannelEndState
<1> HIDE DEF f
<1>10. Signs(m, f)
  BY <1>3, <1>8, <1>9 DEF Signs
<1>11. IsSolvent(f, q) /\ IsSolvent(q, f)
  <2>1. /\ get_balance(f, q) = get_balance(e, q) - lock.amount
        /\ get_balance(q, f) = get_balance(q, e) + lock.amount
    BY <1>3, <1>4, <1>9 DEF get_balance
  <2>2. get_balance(q, e) \in Int /\ get_balance(e, q) \in Int /\ get_amount_locked(q) \in Nat
    <3>1. get_amount_locked(q) \in Nat
      BY <1>2, EndTypes
    <3> QED
      BY <1>4, <3>1 DEF get_balance
  <2>3. IsSolvent(q, f)
    BY <1>2, <1>4, <2>1, <2>2 DEF IsSolvent
  <2>4. IsSolvent(f, q)
    BY <1>2, <1>3, <1>4, <1>8, <1>9, <2>1, <2>2 DEF IsSolvent
  <2> QED
    BY <2>3, <2>4
<1> QED
  BY <1>1, <1>3, <1>6, <1>8, <1>10, <1>11, SendStep, Zenon

LEMMA SendLockExpiredInv ==
    ASSUME IInv, NEW n \in Node, NEW lock, SendLockExpired(n, lock)
    PROVE  IInv'
<1> DEFINE e == our[n]
           q == partner[n]
           m == create_sendexpiredlock(e, lock)
           f == RemoveExpiredLock(e, m, lock)
<1>1. /\ lock \in e.locked \cup e.unlocked
      /\ our' = [our EXCEPT ![n] = f]
      /\ sent' = [sent EXCEPT ![n] = Append(@, m)]
      /\ UNCHANGED <<head, registered, total_deposit, block, partner>>
  BY DEF SendLockExpired
<1>2. EndOK(e) /\ EndOK(q) /\ IsSolvent(e, q) /\ IsSolvent(q, e)
  BY DEF IInv, EndsOK
<1>3. /\ m.nonce = e.nonce + 1 /\ m.transferred = e.transferred
      /\ m.locked_amount = get_amount_locked(e) - lock.amount
      /\ m.locksroot = compute_locks_without(e.pending_locks, lock)
  BY DEF create_sendexpiredlock
<1>4. lock \in Locks(e)
  BY <1>1 DEF Locks
<1>5. /\ get_amount_locked(e) \in Nat /\ lock \in HashTimeLockState
      /\ lock.amount \in Nat /\ lock.secrethash \in SecretHash
      /\ e.contract_balance \in Nat /\ e.total_withdraw \in Nat /\ e.transferred \in Nat
      /\ q.contract_balance \in Nat /\ q.total_withdraw \in Nat /\ q.transferred \in Nat
      /\ UINT256_MAX \in Nat /\ e.nonce \in Nat
  BY <1>2, <1>4, EndTypes, LockTypes, ChannelStateAssumption, SMTT(30) DEF ChannelStateAssumption
<1>6. compute_locks_without(e.pending_locks, lock) \in Seq(HashTimeLockState)
  <2>1. IsPending(e.pending_locks, lock)
    BY <1>2, <1>4 DEF EndOK, LocksInSync, IsPending
  <2> QED
    BY Zenon, <1>2, <2>1, WithoutLock, EndTypes DEF EndOK, LocksInSync
<1>7. m \in EnvelopeMessage
  <2>1. e.nonce + 1 \in Nat /\ get_amount_locked(e) - lock.amount \in Int
    BY <1>5
  <2>2. m \in LockExpiredMessage
    BY <1>5, <1>6, <2>1 DEF create_sendexpiredlock, LockExpiredMessage
  <2> QED
    BY <2>2 DEF EnvelopeMessage
<1>8. m.nonce \in Nat /\ m.transferred \in Nat
  BY <1>3, <1>5
<1> HIDE DEF m
<1>9. EndOK(f) /\ get_amount_locked(f) = get_amount_locked(e) - lock.amount
  BY <1>1, <1>2, <1>8, RemoveExpiredLockOK
<1>10. /\ f.nonce = m.nonce /\ f.transferred = m.transferred
       /\ f.pending_locks = compute_locks_without(e.pending_locks, lock)
       /\ f.contract_balance = e.contract_balance /\ f.total_withdraw = e.total_withdraw
  BY <1>2 DEF RemoveExpiredLock, EndOK, NettingChannelEndState
<1> HIDE DEF f
<1>11. Signs(m, f)
  BY <1>3, <1>9, <1>10 DEF Signs
<1>12. IsSolvent(f, q) /\ IsSolvent(q, f)
  <2>1. get_balance(f, q) = get_balance(e, q) /\ get_balance(q, f) = get_balance(q, e)
    BY <1>3, <1>10 DEF get_balance
  <2>2. get_balance(q, e) \in Int /\ get_balance(e, q) \in Int /\ get_amount_locked(q) \in Nat
    <3>1. get_amount_locked(q) \in Nat
      BY <1>2, EndTypes
    <3> QED
      BY <1>5, <3>1 DEF get_balance
  <2>3. IsSolvent(q, f)
    BY <1>2, <2>1 DEF IsSolvent
  <2>4. IsSolvent(f, q)
    BY <1>2, <1>3, <1>5, <1>9, <1>10, <2>1, <2>2 DEF IsSolvent
  <2> QED
    BY <2>3, <2>4
<1> QED
  BY <1>1, <1>3, <1>7, <1>9, <1>11, <1>12, SendStep, Zenon

-----------------------------------------------------------------------------
(* A message of the partner is well formed and signs distinct secrethashes. *)
LEMMA ReceivedMessage ==
    ASSUME IInv, NEW n \in Node, NEW m \in Messages(Other(n))
    PROVE  m \in EnvelopeMessage /\ UniqueHashes(m.locksroot)
           /\ m.nonce \in Nat /\ m.transferred \in Nat
<1>1. PICK i \in DOMAIN sent[Other(n)] : m = sent[Other(n)][i]
  BY DEF Messages
<1>2. sent[Other(n)] \in Seq(EnvelopeMessage)
  BY OtherNode DEF IInv, MessagesWellFormed
<1>3. m \in EnvelopeMessage /\ UniqueHashes(m.locksroot)
  BY <1>1, <1>2, OtherNode DEF IInv, MessagesWellFormed
<1> QED
  BY <1>3 DEF EnvelopeMessage, LockedTransferMessage, UnlockMessage, LockExpiredMessage

LEMMA ReceiveLockedTransferInv ==
    ASSUME IInv, NEW n \in Node, NEW m \in Messages(Other(n)),
           ReceiveLockedTransfer(n, m)
    PROVE  IInv'
<1> DEFINE e == our[n]
           q == partner[n]
           lock == m.lock
           f == AddLock(q, m)
<1>1. /\ m.type = "LockedTransfer"
      /\ is_valid_lockedtransfer(m, q, e)
      /\ partner' = [partner EXCEPT ![n] = f]
      /\ UNCHANGED <<head, registered, total_deposit, block, our, sent>>
  BY DEF ReceiveLockedTransfer, AcceptsLockedTransfer
<1>2. EndOK(e) /\ EndOK(q) /\ IsSolvent(e, q) /\ IsSolvent(q, e)
  BY DEF IInv, EndsOK
<1>3. /\ m.nonce = q.nonce + 1 /\ m.transferred = q.transferred
      /\ m.locked_amount = get_amount_locked(q) + lock.amount
      /\ m.locksroot = compute_locks_with(q.pending_locks, lock)
      /\ lock.amount <= get_distributable(q, e)
  BY <1>1 DEF is_valid_lockedtransfer, is_balance_proof_usable_onchain
<1>4. m.nonce \in Nat /\ m.transferred \in Nat /\ lock \in HashTimeLockState
  BY <1>1, ReceivedMessage
     DEF EnvelopeMessage, LockedTransferMessage, UnlockMessage, LockExpiredMessage
<1>5. ~is_lock_pending(q, lock.secrethash)
  <2> DEFINE s == q.pending_locks
  <2>1. s \in Seq(HashTimeLockState) /\ Locks(q) = {s[i] : i \in DOMAIN s}
    BY <1>2 DEF EndOK, NettingChannelEndState, LocksInSync
  <2>2. UniqueHashes(Append(s, lock))
    BY <1>3, ReceivedMessage, Zenon DEF compute_locks_with
  <2> HIDE DEF s
  <2>3. /\ Len(s) \in Nat /\ DOMAIN s = 1 .. Len(s)
        /\ DOMAIN Append(s, lock) = 1 .. Len(s) + 1
        /\ Append(s, lock)[Len(s) + 1] = lock
        /\ \A i \in 1 .. Len(s) : Append(s, lock)[i] = s[i]
    BY <1>4, <2>1
  <2>4. \A i \in DOMAIN s : s[i].secrethash # lock.secrethash
    <3> SUFFICES ASSUME NEW i \in DOMAIN s, s[i].secrethash = lock.secrethash
                 PROVE  FALSE
      OBVIOUS
    <3> QED
      BY <2>2, <2>3 DEF UniqueHashes
  <2> QED
    BY <2>1, <2>4 DEF is_lock_pending
<1>6. EndOK(f) /\ get_amount_locked(f) = get_amount_locked(q) + lock.amount
  BY <1>2, <1>4, <1>5, AddLockOK
<1>7. /\ f.nonce = m.nonce /\ f.transferred = m.transferred
      /\ f.pending_locks = compute_locks_with(q.pending_locks, lock)
      /\ f.contract_balance = q.contract_balance /\ f.total_withdraw = q.total_withdraw
  BY <1>2 DEF AddLock, EndOK, NettingChannelEndState
<1> HIDE DEF f
<1>8. Signs(m, f)
  BY <1>3, <1>6, <1>7 DEF Signs
<1>9. IsSolvent(f, e) /\ IsSolvent(e, f)
  <2>1. /\ get_amount_locked(q) \in Nat /\ lock.amount \in Nat /\ lock.amount # 0
        /\ e.contract_balance \in Nat /\ e.total_withdraw \in Nat /\ e.transferred \in Nat
        /\ q.contract_balance \in Nat /\ q.total_withdraw \in Nat /\ q.transferred \in Nat
        /\ UINT256_MAX \in Nat
    BY <1>2, <1>4, EndTypes, LockTypes, ChannelStateAssumption
       DEF HashTimeLockState, ChannelStateAssumption
  <2>2. /\ lock.amount + get_amount_locked(q) <= get_balance(q, e)
        /\ q.transferred + get_amount_locked(q) + lock.amount <= UINT256_MAX
    BY <1>3, <2>1 DEF get_distributable, AtMost, AtLeast, get_balance
  <2>3. get_balance(f, e) = get_balance(q, e) /\ get_balance(e, f) = get_balance(e, q)
    BY <1>3, <1>7 DEF get_balance
  <2>4. IsSolvent(e, f)
    BY <1>2, <2>3 DEF IsSolvent
  <2>5. IsSolvent(f, e)
    BY <1>3, <1>6, <1>7, <2>1, <2>2, <2>3, SMTT(30) DEF IsSolvent
  <2> QED
    BY <2>4, <2>5
<1> QED
  BY <1>1, <1>3, <1>6, <1>8, <1>9, ReceiveStep, ZenonT(40)

LEMMA ReceiveUnlockInv ==
    ASSUME IInv, NEW n \in Node, NEW m \in Messages(Other(n)), ReceiveUnlock(n, m)
    PROVE  IInv'
<1> DEFINE e == our[n]
           q == partner[n]
<1>1. PICK lock \in Locks(q) :
        /\ is_valid_unlock(m, lock, q)
        /\ partner' = [partner EXCEPT ![n] = ClaimLock(q, m, lock)]
        /\ UNCHANGED <<head, registered, total_deposit, block, our, sent>>
  BY Zenon DEF ReceiveUnlock, AcceptsUnlock
<1> DEFINE f == ClaimLock(q, m, lock)
<1>2. EndOK(e) /\ EndOK(q) /\ IsSolvent(e, q) /\ IsSolvent(q, e)
  BY DEF IInv, EndsOK
<1>3. /\ m.nonce = q.nonce + 1 /\ m.transferred = q.transferred + lock.amount
      /\ m.locked_amount = get_amount_locked(q) - lock.amount
      /\ m.locksroot = compute_locks_without(q.pending_locks, lock)
  BY <1>1 DEF is_valid_unlock, is_balance_proof_usable_onchain
<1>4. m.nonce \in Nat /\ m.transferred \in Nat
  BY ReceivedMessage
<1>5. EndOK(f) /\ get_amount_locked(f) = get_amount_locked(q) - lock.amount
  BY <1>2, <1>4, ClaimLockOK
<1>6. /\ f.nonce = m.nonce /\ f.transferred = m.transferred
      /\ f.pending_locks = compute_locks_without(q.pending_locks, lock)
      /\ f.contract_balance = q.contract_balance /\ f.total_withdraw = q.total_withdraw
  BY <1>2 DEF ClaimLock, EndOK, NettingChannelEndState
<1> HIDE DEF f
<1>7. Signs(m, f)
  BY <1>3, <1>5, <1>6 DEF Signs
<1>8. IsSolvent(f, e) /\ IsSolvent(e, f)
  <2>1. /\ get_amount_locked(q) \in Nat /\ get_amount_locked(e) \in Nat
        /\ lock.amount \in Nat /\ UINT256_MAX \in Nat
        /\ e.contract_balance \in Nat /\ e.total_withdraw \in Nat /\ e.transferred \in Nat
        /\ q.contract_balance \in Nat /\ q.total_withdraw \in Nat /\ q.transferred \in Nat
    BY <1>2, EndTypes, LockTypes, ChannelStateAssumption DEF ChannelStateAssumption
  <2>2. /\ get_balance(f, e) = get_balance(q, e) - lock.amount
        /\ get_balance(e, f) = get_balance(e, q) + lock.amount
        /\ get_balance(q, e) \in Int /\ get_balance(e, q) \in Int
    BY <1>3, <1>6, <2>1 DEF get_balance
  <2>3. IsSolvent(e, f)
    BY <1>2, <2>1, <2>2, SMTT(30) DEF IsSolvent
  <2>4. IsSolvent(f, e)
    BY <1>2, <1>3, <1>5, <1>6, <2>1, <2>2, SMTT(30) DEF IsSolvent
  <2> QED
    BY <2>3, <2>4
<1> QED
  BY <1>1, <1>3, <1>5, <1>7, <1>8, ReceiveStep, Zenon DEF f

LEMMA ReceiveLockExpiredInv ==
    ASSUME IInv, NEW n \in Node, NEW m \in Messages(Other(n)), ReceiveLockExpired(n, m)
    PROVE  IInv'
<1> DEFINE e == our[n]
           q == partner[n]
<1>1. PICK lock \in q.locked \cup q.unlocked :
        /\ is_valid_lock_expired(m, lock, q, e, block[n])
        /\ partner' = [partner EXCEPT ![n] = RemoveExpiredLock(q, m, lock)]
        /\ UNCHANGED <<head, registered, total_deposit, block, our, sent>>
  BY ZenonT(40) DEF ReceiveLockExpired, AcceptsLockExpired
<1> DEFINE f == RemoveExpiredLock(q, m, lock)
<1>2. EndOK(e) /\ EndOK(q) /\ IsSolvent(e, q) /\ IsSolvent(q, e)
  BY DEF IInv, EndsOK
<1>3. /\ m.nonce = q.nonce + 1 /\ m.transferred = q.transferred
      /\ m.locked_amount = get_amount_locked(q) - lock.amount
      /\ m.locksroot = compute_locks_without(q.pending_locks, lock)
  BY <1>1 DEF is_valid_lock_expired, is_balance_proof_usable_onchain
<1>4. m.nonce \in Nat /\ m.transferred \in Nat
  BY ReceivedMessage
<1>5. EndOK(f) /\ get_amount_locked(f) = get_amount_locked(q) - lock.amount
  BY <1>2, <1>4, RemoveExpiredLockOK
<1>6. /\ f.nonce = m.nonce /\ f.transferred = m.transferred
      /\ f.pending_locks = compute_locks_without(q.pending_locks, lock)
      /\ f.contract_balance = q.contract_balance /\ f.total_withdraw = q.total_withdraw
  BY <1>2 DEF RemoveExpiredLock, EndOK, NettingChannelEndState
<1> HIDE DEF f
<1>7. Signs(m, f)
  BY <1>3, <1>5, <1>6 DEF Signs
<1>8. IsSolvent(f, e) /\ IsSolvent(e, f)
  <2>1. lock \in HashTimeLockState
    BY <1>2, EndTypes DEF Locks
  <2>2. /\ get_amount_locked(q) \in Nat /\ get_amount_locked(e) \in Nat
        /\ lock.amount \in Nat /\ UINT256_MAX \in Nat
        /\ e.contract_balance \in Nat /\ e.total_withdraw \in Nat /\ e.transferred \in Nat
        /\ q.contract_balance \in Nat /\ q.total_withdraw \in Nat /\ q.transferred \in Nat
    BY <1>2, <2>1, EndTypes, LockTypes, ChannelStateAssumption DEF ChannelStateAssumption
  <2>3. /\ get_balance(f, e) = get_balance(q, e) /\ get_balance(e, f) = get_balance(e, q)
        /\ get_balance(q, e) \in Int /\ get_balance(e, q) \in Int
    BY <1>3, <1>6, <2>2 DEF get_balance
  <2>4. IsSolvent(e, f)
    BY <1>2, <2>3 DEF IsSolvent
  <2>5. IsSolvent(f, e)
    BY <1>2, <1>3, <1>5, <1>6, <2>2, <2>3, SMTT(30) DEF IsSolvent
  <2> QED
    BY <2>4, <2>5
<1> QED
  BY <1>1, <1>3, <1>5, <1>7, <1>8, ReceiveStep, Zenon DEF f

-----------------------------------------------------------------------------
(* The deposit and the locks move, the owner stays solvent.                *)
LEMMA StillSolvent ==
    ASSUME NEW e, NEW q, NEW f, NEW g, EndOK(e), EndOK(q), EndOK(f), EndOK(g),
           SameSignedState(e, f), SameSignedState(q, g),
           f.contract_balance >= e.contract_balance,
           f.total_withdraw = e.total_withdraw,
           IsSolvent(e, q)
    PROVE  IsSolvent(f, g)
<1>1. /\ get_amount_locked(f) \in Nat /\ f.transferred = e.transferred
      /\ get_amount_locked(f) = get_amount_locked(e) /\ g.transferred = q.transferred
      /\ e.contract_balance \in Nat /\ e.total_withdraw \in Nat /\ e.transferred \in Nat
      /\ f.contract_balance \in Nat /\ q.transferred \in Nat
  BY EndTypes DEF SameSignedState
<1>2. get_balance(f, g) \in Int /\ get_balance(e, q) \in Int /\ get_balance(f, g) >= get_balance(e, q)
  BY <1>1 DEF get_balance
<1> QED
  BY <1>1, <1>2 DEF IsSolvent

LEMMA ContractEventsOK ==
    ASSUME NEW e, EndOK(e), NEW d \in Nat, NEW hashes
    PROVE  LET f == ContractEvents(e, d, hashes)
           IN  /\ EndOK(f) /\ SameSignedState(e, f)
               /\ f.contract_balance >= e.contract_balance
               /\ f.total_withdraw = e.total_withdraw
<1> DEFINE u == update_contract_balance(e, d)
           f == register_onchain_secret_endstate(u, hashes, registered)
<1>1. EndOK(u) /\ get_amount_locked(u) = get_amount_locked(e)
  BY UpdateBalanceOK
<1>2. /\ u.nonce = e.nonce /\ u.transferred = e.transferred
      /\ u.pending_locks = e.pending_locks /\ u.total_withdraw = e.total_withdraw
      /\ u.contract_balance >= e.contract_balance
  BY DEF update_contract_balance, EndOK, NettingChannelEndState, AtLeast
<1> HIDE DEF u
<1>3. EndOK(f) /\ get_amount_locked(f) = get_amount_locked(u)
  BY <1>1, RegisterOnchainOK
<1>4. /\ f.nonce = u.nonce /\ f.transferred = u.transferred
      /\ f.pending_locks = u.pending_locks /\ f.total_withdraw = u.total_withdraw
      /\ f.contract_balance = u.contract_balance
  BY <1>1 DEF register_onchain_secret_endstate, EndOK, NettingChannelEndState
<1>5. ContractEvents(e, d, hashes) = f
  BY DEF ContractEvents, u
<1> HIDE DEF f
<1> QED
  BY <1>1, <1>2, <1>3, <1>4, <1>5 DEF SameSignedState

LEMMA SynchronizeInv ==
    ASSUME IInv, NEW n \in Node, NEW b \in block[n] + 1 .. head, Synchronize(n, b)
    PROVE  IInv'
<1> DEFINE f == ContractEvents(our[n], total_deposit[n][b], NewlyRegistered(n, b))
           g == ContractEvents(partner[n], total_deposit[Other(n)][b], NewlyRegistered(n, b))
<1>1. /\ block[n] < b /\ b <= head - Confirmations
      /\ block' = [block EXCEPT ![n] = b]
      /\ our' = [our EXCEPT ![n] = f]
      /\ partner' = [partner EXCEPT ![n] = g]
      /\ UNCHANGED <<head, registered, total_deposit, sent>>
  BY DEF Synchronize
<1>2. total_deposit[n][b] \in Nat /\ total_deposit[Other(n)][b] \in Nat
  <2>1. block[n] \in Nat /\ head \in Nat /\ b \in 1 .. head
    BY DEF IInv, ChainOK
  <2>2. \A k \in Node : total_deposit[k] \in Seq(Nat) /\ Len(total_deposit[k]) = head
    BY DEF IInv, ChainOK
  <2> QED
    BY <2>1, <2>2, OtherNode
<1>3. EndOK(our[n]) /\ EndOK(partner[n])
      /\ IsSolvent(our[n], partner[n]) /\ IsSolvent(partner[n], our[n])
  BY DEF IInv, EndsOK
<1>4. /\ EndOK(f) /\ SameSignedState(our[n], f)
      /\ f.contract_balance >= our[n].contract_balance
      /\ f.total_withdraw = our[n].total_withdraw
  BY <1>2, <1>3, ContractEventsOK, SMTT(30)
<1>5. /\ EndOK(g) /\ SameSignedState(partner[n], g)
      /\ g.contract_balance >= partner[n].contract_balance
      /\ g.total_withdraw = partner[n].total_withdraw
  BY <1>2, <1>3, ContractEventsOK
<1>6. ChainOK'
  BY <1>1, ChannelStateAssumption, SMTT(30) DEF IInv, ChainOK, ChannelStateAssumption
<1> HIDE DEF f, g
<1>7. IsSolvent(f, g) /\ IsSolvent(g, f)
  BY <1>3, <1>4, <1>5, StillSolvent
<1> QED
  BY <1>1, <1>4, <1>5, <1>6, <1>7, LocalStep, Zenon

LEMMA LearnedSecretOK ==
    ASSUME NEW e, EndOK(e), NEW h
    PROVE  LET f == register_secret_endstate(e, h)
           IN  /\ EndOK(f) /\ SameSignedState(e, f)
               /\ f.contract_balance = e.contract_balance
               /\ f.total_withdraw = e.total_withdraw
<1> DEFINE f == register_secret_endstate(e, h)
<1>1. EndOK(f) /\ get_amount_locked(f) = get_amount_locked(e)
  BY RegisterSecretOK
<1>2. /\ f.nonce = e.nonce /\ f.transferred = e.transferred
      /\ f.pending_locks = e.pending_locks
      /\ f.contract_balance = e.contract_balance /\ f.total_withdraw = e.total_withdraw
  BY DEF register_secret_endstate, EndOK, NettingChannelEndState
<1> HIDE DEF f
<1> QED
  BY <1>1, <1>2 DEF SameSignedState, f

LEMMA RegisterOffchainSecretInv ==
    ASSUME IInv, NEW n \in Node, NEW h \in SecretHash, RegisterOffchainSecret(n, h)
    PROVE  IInv'
<1> DEFINE f == register_secret_endstate(our[n], h)
           g == register_secret_endstate(partner[n], h)
<1>1. /\ our' = [our EXCEPT ![n] = f]
      /\ partner' = [partner EXCEPT ![n] = g]
      /\ UNCHANGED <<head, registered, total_deposit, block, sent>>
  BY DEF RegisterOffchainSecret
<1>2. EndOK(our[n]) /\ EndOK(partner[n])
      /\ IsSolvent(our[n], partner[n]) /\ IsSolvent(partner[n], our[n])
  BY DEF IInv, EndsOK
<1>3. EndOK(f) /\ SameSignedState(our[n], f)
      /\ f.contract_balance = our[n].contract_balance
      /\ f.total_withdraw = our[n].total_withdraw
  BY <1>2, LearnedSecretOK
<1>4. EndOK(g) /\ SameSignedState(partner[n], g)
      /\ g.contract_balance = partner[n].contract_balance
      /\ g.total_withdraw = partner[n].total_withdraw
  BY <1>2, LearnedSecretOK
<1>5. ChainOK'
  BY <1>1 DEF IInv, ChainOK
<1> HIDE DEF f, g
<1>6. f.contract_balance >= our[n].contract_balance
      /\ g.contract_balance >= partner[n].contract_balance
  BY <1>2, <1>3, <1>4, EndTypes
<1>7. IsSolvent(f, g) /\ IsSolvent(g, f)
  BY <1>2, <1>3, <1>4, <1>6, StillSolvent
<1> QED
  BY <1>1, <1>3, <1>4, <1>5, <1>7, LocalStep, Zenon

LEMMA ChainInv ==
    ASSUME IInv, ChainNext
    PROVE  IInv'
<1>1. UNCHANGED <<our, partner, sent>>
  BY DEF ChainNext, MineEmptyBlock, MineSecretReveal, MineDeposit
<1>2. ChainOK'
  <2>1. /\ head' = head + 1 /\ block' = block
        /\ registered' \in [SecretHash -> Nat]
    BY DEF IInv, ChainOK, ChainNext, MineEmptyBlock, MineSecretReveal, MineDeposit
  <2>2. PICK add \in [Node -> Nat] :
          total_deposit' = [n \in Node |->
              Append(total_deposit[n], total_deposit[n][head] + add[n])]
    <3>1. \A n \in Node : total_deposit[n][head] \in Nat
      <4>1. head \in Nat /\ head # 0
        BY ChannelStateAssumption DEF IInv, ChainOK, Node, ChannelStateAssumption
      <4> QED
        BY <4>1 DEF IInv, ChainOK
    <3>2. CASE total_deposit' = [n \in Node |-> Append(total_deposit[n], total_deposit[n][head])]
      <4> PICK add : add = [k \in Node |-> 0]
        BY Zenon
      <4>1. add \in [Node -> Nat]
        BY Zenon, 0 \in Nat
      <4>2. \A n \in Node : total_deposit[n][head] + add[n] = total_deposit[n][head]
        BY <3>1
      <4>3. total_deposit' = [n \in Node |-> Append(total_deposit[n], total_deposit[n][head] + add[n])]
        BY <3>2, <4>2
      <4> QED
        BY Zenon, <4>1, <4>3
    <3>3. CASE \E m \in Node, amount \in DepositAmount : MineDeposit(m, amount)
      <4>1. PICK m \in Node, amount \in DepositAmount : MineDeposit(m, amount)
        BY <3>3
      <4> PICK add : add = [k \in Node |-> IF k = m THEN amount ELSE 0]
        BY Zenon
      <4>2. add \in [Node -> Nat]
        BY Zenon, 0 \in Nat, amount \in Nat
      <4>3. total_deposit' = [n \in Node |-> Append(total_deposit[n], total_deposit[n][head] + add[n])]
        BY <4>1 DEF MineDeposit
      <4> QED
        BY Zenon, <4>2, <4>3
    <3> QED
      BY <3>2, <3>3, Zenon DEF ChainNext, MineEmptyBlock, MineSecretReveal
  <2>3. \A n \in Node : total_deposit'[n] \in Seq(Nat) /\ Len(total_deposit'[n]) = head + 1
    <3> SUFFICES ASSUME NEW n \in Node
                 PROVE  total_deposit'[n] \in Seq(Nat) /\ Len(total_deposit'[n]) = head + 1
      OBVIOUS
    <3>1. total_deposit[n] \in Seq(Nat) /\ Len(total_deposit[n]) = head /\ head \in Nat /\ head # 0
      BY ChannelStateAssumption DEF IInv, ChainOK, ChannelStateAssumption
    <3>2. total_deposit[n][head] + add[n] \in Nat
      BY <3>1
    <3>3. total_deposit'[n] = Append(total_deposit[n], total_deposit[n][head] + add[n])
      BY <2>2
    <3> QED
      BY <3>1, <3>2, <3>3
  <2>4. total_deposit' \in [Node -> Seq(Nat)]
    BY <2>2, <2>3
  <2>5. \A n \in Node : block'[n] \in 1 .. head' - Confirmations
    BY <2>1, ChannelStateAssumption DEF IInv, ChainOK, ChannelStateAssumption
  <2>6. head' \in Nat /\ block' \in [Node -> Nat]
    BY <2>1 DEF IInv, ChainOK
  <2>7. \A n \in Node : Len(total_deposit'[n]) = head'
    BY <2>1, <2>3
  <2> QED
    BY <2>1, <2>4, <2>5, <2>6, <2>7 DEF ChainOK
<1>3. EndsOK' /\ MessagesWellFormed'
  BY <1>1, SMTT(30) DEF IInv, EndsOK, MessagesWellFormed
<1>4. ViewsAgree'
  BY Zenon, <1>1 DEF IInv, ViewsAgree, IsSignedState, get_amount_locked
<1> QED
  BY <1>2, <1>3, <1>4 DEF IInv

LEMMA NextInv == IInv /\ [Next]_vars => IInv'
<1> SUFFICES ASSUME IInv, [Next]_vars PROVE IInv'
  OBVIOUS
<1>1. CASE ChainNext
  BY <1>1, ChainInv
<1>2. ASSUME NEW n \in Node, NEW b \in block[n] + 1 .. head, Synchronize(n, b) PROVE IInv'
  BY <1>2, SynchronizeInv
<1>3. ASSUME NEW n \in Node, NEW h \in SecretHash, RegisterOffchainSecret(n, h) PROVE IInv'
  BY <1>3, RegisterOffchainSecretInv
<1>4. ASSUME NEW n \in Node, SendNext(n) PROVE IInv'
  <2>1. ASSUME NEW h \in SecretHash, NEW amount \in Amount,
               SendLockedTransfer(n, HashTimeLock(amount, h))
        PROVE  IInv'
    <3>1. HashTimeLock(amount, h) \in HashTimeLockState
      BY ChannelStateAssumption DEF HashTimeLock, HashTimeLockState, ChannelStateAssumption
    <3> QED
      BY <2>1, <3>1, SendLockedTransferInv
  <2> QED
    BY <1>4, <2>1, SendUnlockInv, SendLockExpiredInv DEF SendNext
<1>5. ASSUME NEW n \in Node, ReceiveNext(n) PROVE IInv'
  <2>1. PICK m \in Messages(Other(n)) :
          \/ ReceiveLockedTransfer(n, m) \/ ReceiveUnlock(n, m)
          \/ ReceiveLockExpired(n, m) \/ RejectMessage(n, m)
    BY <1>5, SMTT(30) DEF ReceiveNext
  <2>2. CASE RejectMessage(n, m)
    BY <2>2, ZenonT(40) DEF RejectMessage, vars, IInv, ChainOK, EndsOK, MessagesWellFormed,
                ViewsAgree, IsSignedState, get_amount_locked
  <2> QED
    BY <2>1, <2>2, ReceiveLockedTransferInv, ReceiveUnlockInv, ReceiveLockExpiredInv
<1>6. CASE UNCHANGED vars
  BY <1>6, Zenon DEF vars, IInv, ChainOK, EndsOK, MessagesWellFormed,
              ViewsAgree, IsSignedState, get_amount_locked
<1> QED
  BY <1>1, <1>2, <1>3, <1>4, <1>5, <1>6 DEF Next

LEMMA Invariance == Spec => []IInv
BY InitInv, NextInv, PTL DEF Spec

-----------------------------------------------------------------------------
(* Type correctness of the channel, of both nodes' copies and of the       *)
(* message history.                                                        *)
THEOREM TypeCorrectness == Spec => []TypeOK
<1>1. IInv => TypeOK
  BY Zenon DEF IInv, ChainOK, EndsOK, EndOK, MessagesWellFormed, TypeOK
<1> QED
  BY <1>1, Invariance, PTL

(* Whatever is lost, delayed, repeated or reordered, each node's copy of   *)
(* its partner's end is a state the partner signed: the checks of          *)
(* valid_lockedtransfer_check, is_valid_unlock and is_valid_lock_expired   *)
(* suffice to keep the two copies of a channel consistent.                 *)
THEOREM ViewsAlwaysAgree == Spec => []ViewsAgree
<1>1. IInv => ViewsAgree
  BY DEF IInv
<1> QED
  BY <1>1, Invariance, PTL

(* The assertion of sanity_check that the lock dictionaries and the list   *)
(* of pending locks are synchronized never fails, in either node.          *)
THEOREM LocksAlwaysSynchronized == Spec => []LocksSynchronized
<1>1. IInv => LocksSynchronized
  BY DEF IInv, EndsOK, EndOK, LocksSynchronized
<1> QED
  BY <1>1, Invariance, PTL

(* No sequence of transfers, unlocks, expirations and deposits makes a     *)
(* balance negative or a balance proof overflow, in either node's view.    *)
THEOREM BalancesAlwaysCovered == Spec => []BalancesCovered
<1>1. IInv => BalancesCovered
  BY DEF IInv, EndsOK, BalancesCovered
<1> QED
  BY <1>1, Invariance, PTL

-----------------------------------------------------------------------------
(* RegisteredLockNeverExpires.  A node must not forget a registration it   *)
(* has processed: the locks it may still expire are those it knows to be   *)
(* registered too late, or not at all, and those that it sent after the    *)
(* registration, which the partner drops (LockHistory).  A payment that    *)
(* was cancelled stays cancelled: a registration that comes later is later *)
(* than the expiration (ExpiredHistory).  And a lock the partner drops is  *)
(* dropped for ever: its nonce is never reached (HistoryStays).            *)

Expirable(e) == e.locked \cup e.unlocked

IsLockDropped(n, h) == \E i \in DOMAIN sent[n] : DroppedLock(n, h, i)

LockHistory ==
    \A n \in Node : \A l \in Expirable(our[n]) :
        /\ l.expiration = PaymentExpiration[l.secrethash]
        /\ registered[l.secrethash] \in 1 .. block[n]
             => registered[l.secrethash] > l.expiration \/ IsLockDropped(n, l.secrethash)

ExpiredForGood(h) ==
    /\ registered[h] = 0 => head >= PaymentExpiration[h]
    /\ registered[h] # 0 => registered[h] > PaymentExpiration[h]

CancelledInOrder(n, h, i) == ExpiredForGood(h) \/ DroppedLock(n, h, i)

ExpiredHistory ==
    \A n \in Node : \A i \in DOMAIN sent[n] :
        sent[n][i].type = "LockExpired" => CancelledInOrder(n, sent[n][i].secrethash, i)

JInv == IInv /\ LockHistory /\ ExpiredHistory

(* What no step takes back. *)
HistoryStays ==
    \A n \in Node : \A i \in DOMAIN sent[n] :
        /\ i \in DOMAIN sent'[n] /\ sent'[n][i] = sent[n][i]
        /\ \A h \in SecretHash : DroppedLock(n, h, i) => DroppedLock(n, h, i)'

LEMMA JInit == Init => JInv
<1> SUFFICES ASSUME Init PROVE JInv
  OBVIOUS
<1>1. LockHistory
  <2>1. \A n \in Node : Expirable(our[n]) = {}
    BY DEF Init, EmptyEndState, Expirable
  <2> QED
    BY <2>1 DEF LockHistory
<1>2. ExpiredHistory
  <2>1. \A n \in Node : sent[n] = << >>
    BY DEF Init
  <2> QED
    BY <2>1 DEF ExpiredHistory
<1> QED
  BY <1>1, <1>2, InitInv DEF JInv

(* The types the arithmetic below needs. *)
LEMMA JTypes ==
    ASSUME IInv
    PROVE  /\ head \in Nat /\ registered \in [SecretHash -> Nat]
           /\ block \in [Node -> Nat] /\ \A n \in Node : block[n] \in 1 .. head
           /\ PaymentExpiration \in [SecretHash -> Nat]
           /\ Confirmations \in Nat
           /\ \A n \in Node : \A l \in Expirable(our[n]) :
                l.expiration \in Nat /\ l.secrethash \in SecretHash
           /\ \A n \in Node : sent[n] \in Seq(EnvelopeMessage)
           /\ \A n \in Node : our[n] \in NettingChannelEndState
<1>1. \A n \in Node : our[n] \in NettingChannelEndState
  BY DEF IInv, EndsOK
<1>2. \A n \in Node : \A l \in Expirable(our[n]) : l \in HashTimeLockState
  BY <1>1 DEF Expirable, NettingChannelEndState
<1> QED
  BY <1>1, <1>2, ChannelStateAssumption
     DEF IInv, ChainOK, MessagesWellFormed, ChannelStateAssumption, HashTimeLockState

(* A step keeps a dropped lock dropped when it takes back no message and   *)
(* no registration, and the partner does not take the lock.                *)
LEMMA DroppedStays ==
    ASSUME IInv,
           \A n \in Node : \A i \in DOMAIN sent[n] : i \in DOMAIN sent'[n] /\ sent'[n][i] = sent[n][i],
           \A h \in SecretHash : registered[h] # 0 => registered'[h] # 0,
           \A n \in Node : \A j \in DOMAIN sent[n] :
              partner[Other(n)].nonce < j /\ IsDropped(sent[n][j]) => partner'[Other(n)].nonce < j
    PROVE  HistoryStays
<1> SUFFICES ASSUME NEW n \in Node, NEW i \in DOMAIN sent[n], NEW h \in SecretHash, DroppedLock(n, h, i)
             PROVE  DroppedLock(n, h, i)'
  BY Zenon DEF HistoryStays
<1>1. PICK j \in DOMAIN sent[n] :
         /\ partner[Other(n)].nonce < j /\ j <= i
         /\ IsDropped(sent[n][j]) /\ sent[n][j].lock.secrethash = h
  BY Zenon DEF DroppedLock
<1>2. j \in DOMAIN sent'[n] /\ sent'[n][j] = sent[n][j] /\ partner'[Other(n)].nonce < j
  BY Zenon, <1>1
<1>3. sent'[n][j].type = "LockedTransfer" /\ registered'[sent'[n][j].lock.secrethash] # 0
  BY Zenon, <1>1, <1>2 DEF IsDropped
<1> QED
  BY Zenon, <1>1, <1>2, <1>3 DEF DroppedLock, IsDropped

(* The partner takes its next message, which is not one it drops. *)
LEMMA ReceiveDropped ==
    ASSUME IInv, NEW n \in Node, ReceiveNext(n)
    PROVE  HistoryStays
<1>1. PICK m \in Messages(Other(n)) :
         \/ ReceiveLockedTransfer(n, m)
         \/ ReceiveUnlock(n, m)
         \/ ReceiveLockExpired(n, m)
         \/ RejectMessage(n, m)
  BY Zenon DEF ReceiveNext
<1>2. UNCHANGED <<sent, registered>>
  BY Zenon, <1>1 DEF ReceiveLockedTransfer, ReceiveUnlock, ReceiveLockExpired, RejectMessage, vars
<1>3. Other(n) \in Node /\ Other(Other(n)) = n /\ partner \in [Node -> NettingChannelEndState]
  BY OtherNode DEF IInv, EndsOK
<1>4. PICK x \in DOMAIN sent[Other(n)] : m = sent[Other(n)][x]
  BY Zenon DEF Messages
<1>5. m.nonce = x /\ x \in Nat
  BY <1>3, <1>4 DEF IInv, MessagesWellFormed
<1>6. /\ \A k \in Node : k # n => partner'[k] = partner[k]
      /\ \/ partner'[n] = partner[n]
         \/ partner'[n].nonce = x /\ x = partner[n].nonce + 1 /\ ~IsDropped(m)
  <2>1. CASE ReceiveLockedTransfer(n, m)
    <3>1. /\ partner' = [partner EXCEPT ![n] = AddLock(@, m)] /\ ~IsDropped(m)
          /\ m.nonce = partner[n].nonce + 1
      BY <2>1 DEF ReceiveLockedTransfer, AcceptsLockedTransfer, IsDropped, is_valid_lockedtransfer,
                  is_balance_proof_usable_onchain
    <3> QED
      BY <1>3, <1>5, <3>1 DEF AddLock, NettingChannelEndState
  <2>2. CASE ReceiveUnlock(n, m)
    <3>1. PICK lock \in Locks(partner[n]) :
             AcceptsUnlock(n, m, lock) /\ partner' = [partner EXCEPT ![n] = ClaimLock(@, m, lock)]
      BY Zenon, <2>2 DEF ReceiveUnlock
    <3>2. ~IsDropped(m) /\ m.nonce = partner[n].nonce + 1
      BY <3>1 DEF AcceptsUnlock, IsDropped, is_valid_unlock, is_balance_proof_usable_onchain
    <3> QED
      BY <1>3, <1>5, <3>1, <3>2 DEF ClaimLock, NettingChannelEndState
  <2>3. CASE ReceiveLockExpired(n, m)
    <3>1. PICK lock \in partner[n].locked \cup partner[n].unlocked :
             /\ AcceptsLockExpired(n, m, lock)
             /\ partner' = [partner EXCEPT ![n] = RemoveExpiredLock(@, m, lock)]
      BY Zenon, <2>3 DEF ReceiveLockExpired
    <3>2. ~IsDropped(m) /\ m.nonce = partner[n].nonce + 1
      BY <3>1 DEF AcceptsLockExpired, IsDropped, is_valid_lock_expired, is_balance_proof_usable_onchain
    <3> QED
      BY <1>3, <1>5, <3>1, <3>2 DEF RemoveExpiredLock, NettingChannelEndState
  <2>4. CASE RejectMessage(n, m)
    BY Zenon, <2>4 DEF RejectMessage, vars
  <2> QED
    BY Zenon, <1>1, <2>1, <2>2, <2>3, <2>4
<1>7. ASSUME NEW k \in Node, NEW j \in DOMAIN sent[k],
             partner[Other(k)].nonce < j, IsDropped(sent[k][j])
      PROVE  partner'[Other(k)].nonce < j
  <2>1. CASE k # Other(n)
    BY <1>3, <1>6, <1>7, <2>1, OtherNode
  <2>2. CASE k = Other(n) /\ partner'[n] = partner[n]
    BY <1>3, <1>7, <2>2
  <2>3. CASE k = Other(n) /\ partner'[n].nonce = x /\ x = partner[n].nonce + 1 /\ ~IsDropped(m)
    <3>1. j # x /\ Other(k) = n
      BY Zenon, <1>3, <1>4, <1>7, <2>3
    <3>2. j \in Nat /\ partner[n].nonce \in Nat
      <4>1. sent[k] \in Seq(EnvelopeMessage)
        BY DEF IInv, MessagesWellFormed
      <4>2. j \in Nat
        BY <4>1
      <4>3. partner[n].nonce \in Nat
        BY <1>3 DEF NettingChannelEndState
      <4> QED
        BY <4>2, <4>3
    <3> QED
      BY <1>7, <2>3, <3>1, <3>2
  <2> QED
    BY Zenon, <1>6, <2>1, <2>2, <2>3
<1> QED
  BY Zenon, <1>2, <1>7, DroppedStays

(* Nothing is taken back in any other step: messages are appended, and a   *)
(* registration stays.                                                     *)
LEMMA SameNonces ==
    ASSUME IInv, \A k \in Node : partner'[k].nonce = partner[k].nonce,
           \A h \in SecretHash : registered[h] # 0 => registered'[h] # 0,
           \/ sent' = sent
           \/ \E n \in Node : \E m : sent' = [sent EXCEPT ![n] = Append(@, m)]
    PROVE  HistoryStays
<1>1. \A n \in Node : \A i \in DOMAIN sent[n] : i \in DOMAIN sent'[n] /\ sent'[n][i] = sent[n][i]
  <2>1. CASE sent' = sent
    BY Zenon, <2>1
  <2>2. ASSUME NEW n \in Node, NEW m, sent' = [sent EXCEPT ![n] = Append(@, m)],
               NEW k \in Node, NEW i \in DOMAIN sent[k]
        PROVE  i \in DOMAIN sent'[k] /\ sent'[k][i] = sent[k][i]
    <3>1. sent \in [Node -> Seq(EnvelopeMessage)]
      BY DEF IInv, MessagesWellFormed
    <3>2. CASE k # n
      BY <2>2, <3>1, <3>2
    <3>3. CASE k = n
      <4>1. sent[k] \in Seq(EnvelopeMessage) /\ sent'[k] = Append(sent[k], m)
        BY <2>2, <3>1, <3>3
      <4>2. DOMAIN Append(sent[k], m) = 1 .. Len(sent[k]) + 1 /\ i \in 1 .. Len(sent[k]) /\ Len(sent[k]) \in Nat
        BY <4>1
      <4>3. Append(sent[k], m)[i] = sent[k][i]
        BY <4>1, <4>2
      <4> QED
        BY <4>1, <4>2, <4>3
    <3> QED
      BY <3>2, <3>3
  <2> QED
    BY Zenon, <2>1, <2>2
<1>2. \A n \in Node : Other(n) \in Node
  BY OtherNode
<1> QED
  BY Zenon, <1>1, <1>2, DroppedStays

(* The same for a lock of which any message may be the dropped one. *)
LEMMA StillDropped ==
    ASSUME HistoryStays, NEW n \in Node, NEW h \in SecretHash, IsLockDropped(n, h)
    PROVE  IsLockDropped(n, h)'
BY Zenon DEF HistoryStays, IsLockDropped

(* A step of node n that processes no block and sends at most a message    *)
(* that cancels nothing.                                                   *)
LEMMA SubsetStep ==
    ASSUME JInv, HistoryStays, NEW n \in Node, NEW f, Expirable(f) \subseteq Expirable(our[n]),
           our' = [our EXCEPT ![n] = f],
           UNCHANGED <<head, registered, block>>
    PROVE  LockHistory'
<1> SUFFICES ASSUME NEW k \in Node, NEW l \in Expirable(our'[k])
             PROVE  /\ l.expiration = PaymentExpiration[l.secrethash]
                    /\ registered[l.secrethash] \in 1 .. block[k]
                         => registered[l.secrethash] > l.expiration \/ IsLockDropped(k, l.secrethash)'
  BY Zenon DEF LockHistory, Expirable
<1>1. our'[n] = f /\ (k # n => our'[k] = our[k])
  BY DEF JInv, IInv, EndsOK
<1>2. l \in Expirable(our[k])
  BY <1>1
<1>3. l.secrethash \in SecretHash
  BY <1>2, JTypes DEF JInv
<1> QED
  BY Zenon, <1>2, <1>3, StillDropped DEF JInv, LockHistory

LEMMA AppendStep ==
    ASSUME JInv, HistoryStays, NEW n \in Node, NEW m \in EnvelopeMessage,
           m.type = "LockExpired" => ExpiredForGood(m.secrethash) \/ IsLockDropped(n, m.secrethash),
           sent' = [sent EXCEPT ![n] = Append(@, m)],
           UNCHANGED <<head, registered>>
    PROVE  ExpiredHistory'
<1> SUFFICES ASSUME NEW k \in Node, NEW i \in DOMAIN sent'[k], NEW h, h = sent'[k][i].secrethash,
                    sent'[k][i].type = "LockExpired"
             PROVE  CancelledInOrder(k, h, i)'
  BY Zenon DEF ExpiredHistory
<1>1. sent[k] \in Seq(EnvelopeMessage) /\ sent[n] \in Seq(EnvelopeMessage)
  BY JTypes DEF JInv
<1>2. ExpiredForGood(h) => ExpiredForGood(h)'
  BY Zenon DEF ExpiredForGood
<1>3. CASE i \in DOMAIN sent[k]
  <2>1. sent[k][i] = sent'[k][i] /\ sent[k][i] \in EnvelopeMessage
    BY <1>1, <1>3 DEF HistoryStays
  <2>2. h \in SecretHash
    BY <2>1 DEF EnvelopeMessage, LockedTransferMessage, UnlockMessage, LockExpiredMessage
  <2> QED
    BY Zenon, <1>2, <1>3, <2>1, <2>2 DEF JInv, ExpiredHistory, CancelledInOrder, HistoryStays
<1>4. CASE i \notin DOMAIN sent[k]
  <2>1. k = n /\ i = Len(sent[n]) + 1 /\ sent'[n][i] = m
    <3>1. k # n => sent'[k] = sent[k]
      BY DEF JInv, IInv, MessagesWellFormed
    <3>2. k = n
      BY Zenon, <1>4, <3>1
    <3>3. sent'[n] = Append(sent[n], m)
      BY DEF JInv, IInv, MessagesWellFormed
    <3>4. DOMAIN Append(sent[n], m) = 1 .. Len(sent[n]) + 1 /\ Len(sent[n]) \in Nat
          /\ DOMAIN sent[n] = 1 .. Len(sent[n])
      BY <1>1
    <3>5. i = Len(sent[n]) + 1
      BY <1>4, <3>2, <3>3, <3>4
    <3>6. Append(sent[n], m)[Len(sent[n]) + 1] = m
      BY <1>1
    <3> QED
      BY Zenon, <3>2, <3>3, <3>5, <3>6
  <2>2. h \in SecretHash /\ h = m.secrethash
    BY <2>1 DEF EnvelopeMessage, LockedTransferMessage, UnlockMessage, LockExpiredMessage
  <2>3. CASE ExpiredForGood(h)
    BY Zenon, <1>2, <2>3 DEF CancelledInOrder
  <2>4. CASE IsLockDropped(n, h)
    <3>1. IsLockDropped(n, h)'
      BY Zenon, <2>2, <2>4, StillDropped
    <3>2. i \in Nat /\ \A j \in DOMAIN sent'[n] : j <= i
      <4>1. sent'[n] = Append(sent[n], m)
        BY DEF JInv, IInv, MessagesWellFormed
      <4>2. DOMAIN Append(sent[n], m) = 1 .. Len(sent[n]) + 1 /\ Len(sent[n]) \in Nat
        BY <1>1
      <4> QED
        BY <2>1, <4>1, <4>2
    <3>3. DroppedLock(n, h, i)'
      BY Zenon, <3>1, <3>2 DEF IsLockDropped, DroppedLock
    <3> QED
      BY Zenon, <2>1, <3>3 DEF CancelledInOrder
  <2> QED
    BY Zenon, <2>1, <2>2, <2>3, <2>4
<1> QED
  BY Zenon, <1>3, <1>4

(* A step that neither sends nor mines cancels nothing. *)
LEMMA SameCancelled ==
    ASSUME JInv, HistoryStays, UNCHANGED <<head, registered, sent>>
    PROVE  ExpiredHistory'
<1> SUFFICES ASSUME NEW k \in Node, NEW i \in DOMAIN sent[k], sent[k][i].type = "LockExpired",
                    NEW h, h = sent[k][i].secrethash
             PROVE  CancelledInOrder(k, h, i)'
  BY Zenon DEF ExpiredHistory
<1>1. sent[k][i] \in EnvelopeMessage
  BY JTypes DEF JInv
<1>2. h \in SecretHash
  BY <1>1 DEF EnvelopeMessage, LockedTransferMessage, UnlockMessage, LockExpiredMessage
<1> QED
  BY Zenon, <1>2 DEF JInv, ExpiredHistory, CancelledInOrder, ExpiredForGood, HistoryStays

(* Type and secrethash of the messages that take a lock away               *)
(* (create_unlock, create_sendexpiredlock).                                *)
LEMMA MessageFields ==
    \A e, lock : /\ create_unlock(e, lock).type = "Unlock"
                 /\ create_sendexpiredlock(e, lock).secrethash = lock.secrethash
BY DEF create_unlock, create_sendexpiredlock

LEMMA JSend ==
    ASSUME JInv, HistoryStays, NEW n \in Node, SendNext(n)
    PROVE  LockHistory' /\ ExpiredHistory'
<1>1. ASSUME NEW h \in SecretHash, NEW amount \in Amount,
             SendLockedTransfer(n, HashTimeLock(amount, h))
      PROVE  LockHistory' /\ ExpiredHistory'
  <2> DEFINE lock == HashTimeLock(amount, h)
             m == create_sendlockedtransfer(our[n], lock)
             f == AddLock(our[n], m)
  <2>1. /\ IsNewPayment(n, lock.secrethash)
        /\ our' = [our EXCEPT ![n] = f]
        /\ sent' = [sent EXCEPT ![n] = Append(@, m)]
        /\ UNCHANGED <<head, registered, total_deposit, block, partner>>
    BY <1>1 DEF SendLockedTransfer
  <2>2. lock \in HashTimeLockState /\ lock.secrethash = h /\ lock.expiration = PaymentExpiration[h]
    BY ChannelStateAssumption DEF HashTimeLock, HashTimeLockState, ChannelStateAssumption
  <2>3. \A l \in Expirable(f) : l \in Expirable(our[n]) \/ l = lock
    BY JTypes DEF JInv, Expirable, AddLock, Insert, create_sendlockedtransfer, NettingChannelEndState
  <2>4. m \in EnvelopeMessage /\ m.type # "LockExpired"
    <3>1. EndOK(our[n])
      BY DEF JInv, IInv, EndsOK
    <3>2. compute_locks_with(our[n].pending_locks, lock) \in Seq(HashTimeLockState)
      BY <2>2, <3>1, EndTypes DEF compute_locks_with
    <3> HIDE DEF lock
    <3> QED
      BY <2>2, <3>1, <3>2, EndTypes, LockTypes, SMTT(30)
         DEF create_sendlockedtransfer, EnvelopeMessage, LockedTransferMessage
  <2>7. m.type = "LockedTransfer" /\ m.lock = lock
    BY DEF create_sendlockedtransfer
  <2> HIDE DEF m, f, lock
  <2>5. ExpiredHistory'
    BY <2>1, <2>4, AppendStep, Zenon
  <2>6. LockHistory'
    <3> SUFFICES ASSUME NEW k \in Node, NEW l \in Expirable(our'[k])
                 PROVE  /\ l.expiration = PaymentExpiration[l.secrethash]
                        /\ registered[l.secrethash] \in 1 .. block[k]
                             => registered[l.secrethash] > l.expiration \/ IsLockDropped(k, l.secrethash)'
      BY Zenon, <2>1 DEF LockHistory, Expirable
    <3>1. our'[n] = f /\ (k # n => our'[k] = our[k])
      BY <2>1 DEF JInv, IInv, EndsOK
    <3>2. l \in Expirable(our[k]) \/ (k = n /\ l = lock)
      BY <2>3, <3>1
    <3>3. CASE l \in Expirable(our[k])
      <4>1. l.secrethash \in SecretHash
        BY <3>3, JTypes DEF JInv
      <4> QED
        BY Zenon, <3>3, <4>1, StillDropped DEF JInv, LockHistory
    <3>4. CASE k = n /\ l = lock
      <4>1. ASSUME registered[h] \in 1 .. block[n] PROVE IsLockDropped(n, h)'
        <5>1. sent[n] \in Seq(EnvelopeMessage) /\ sent'[n] = Append(sent[n], m)
          BY <2>1, JTypes DEF JInv, IInv, MessagesWellFormed
        <5>2. PICK i \in Nat : i = Len(sent[n]) + 1
          BY <5>1
        <5>3. i \in DOMAIN sent'[n] /\ sent'[n][i] = m
          <6>1. DOMAIN Append(sent[n], m) = 1 .. Len(sent[n]) + 1 /\ Len(sent[n]) \in Nat
            BY <5>1
          <6>2. Append(sent[n], m)[Len(sent[n]) + 1] = m
            BY <5>1
          <6>3. i \in 1 .. Len(sent[n]) + 1
            BY <5>2, <6>1
          <6> QED
            BY Zenon, <5>1, <5>2, <6>1, <6>2, <6>3
        <5>4. partner'[Other(n)].nonce < i /\ i <= i
          <6>1. partner[Other(n)].nonce <= our[n].nonce /\ our[n].nonce = Len(sent[n])
            BY DEF JInv, IInv, ViewsAgree
          <6>2. Len(sent[n]) \in Nat /\ partner[Other(n)].nonce \in Nat
            <7>1. partner[Other(n)] \in NettingChannelEndState
              BY Zenon, OtherNode DEF JInv, IInv, EndsOK
            <7> QED
              BY <5>1, <7>1 DEF NettingChannelEndState
          <6>3. partner[Other(n)].nonce < i /\ i <= i
            BY <5>2, <6>1, <6>2
          <6> QED
            BY Zenon, <2>1, <6>3
        <5>5. m.type = "LockedTransfer" /\ m.lock.secrethash = h
          BY <2>2, <2>7
        <5>6. registered'[h] # 0
          BY <2>1, <4>1, JTypes DEF JInv
        <5> QED
          BY Zenon, <5>3, <5>4, <5>5, <5>6 DEF IsLockDropped, DroppedLock, IsDropped
      <4> QED
        BY Zenon, <2>2, <3>4, <4>1
    <3> QED
      BY <3>2, <3>3, <3>4
  <2> QED
    BY <2>5, <2>6
<1>2. ASSUME NEW lock \in Locks(our[n]), SendUnlock(n, lock)
      PROVE  LockHistory' /\ ExpiredHistory'
  <2> DEFINE m == create_unlock(our[n], lock)
             f == ClaimLock(our[n], m, lock)
  <2>1. /\ our' = [our EXCEPT ![n] = f]
        /\ sent' = [sent EXCEPT ![n] = Append(@, m)]
        /\ UNCHANGED <<head, registered, block>>
    BY <1>2 DEF SendUnlock
  <2>2. Expirable(f) \subseteq Expirable(our[n])
    BY JTypes DEF JInv, Expirable, ClaimLock, Without, NettingChannelEndState
  <2>3. m \in EnvelopeMessage /\ m.type = "Unlock"
    <3>1. IInv' /\ sent[n] \in Seq(EnvelopeMessage)
      BY <1>2, SendUnlockInv, JTypes DEF JInv
    <3>2. sent'[n] = Append(sent[n], m) /\ sent'[n] \in Seq(EnvelopeMessage)
      BY <2>1, <3>1 DEF JInv, IInv, MessagesWellFormed
    <3>3. m.type = "Unlock"
      BY Zenon, MessageFields
    <3> HIDE DEF m, f
    <3>4. sent'[n][Len(sent[n]) + 1] = m /\ Len(sent[n]) + 1 \in DOMAIN sent'[n]
      BY ONLY <3>1, <3>2, SMTT(30)
    <3> QED
      BY <3>2, <3>3, <3>4
  <2> HIDE DEF m, f
  <2> QED
    BY <2>1, <2>2, <2>3, SubsetStep, AppendStep, ZenonT(40)
<1>3. ASSUME NEW lock \in Locks(our[n]), SendLockExpired(n, lock)
      PROVE  LockHistory' /\ ExpiredHistory'
  <2> DEFINE m == create_sendexpiredlock(our[n], lock)
             f == RemoveExpiredLock(our[n], m, lock)
  <2>1. /\ lock \in Expirable(our[n])
        /\ block[n] >= lock.expiration + 2 * Confirmations
        /\ our' = [our EXCEPT ![n] = f]
        /\ sent' = [sent EXCEPT ![n] = Append(@, m)]
        /\ UNCHANGED <<head, registered, block>>
    BY <1>3 DEF SendLockExpired, is_lock_expired, get_sender_expiration_threshold, Expirable
  <2>2. Expirable(f) \subseteq Expirable(our[n])
    BY JTypes DEF JInv, Expirable, RemoveExpiredLock, Without, NettingChannelEndState
  <2>3. m \in EnvelopeMessage /\ m.secrethash = lock.secrethash
    <3>1. IInv' /\ sent[n] \in Seq(EnvelopeMessage)
      BY <1>3, SendLockExpiredInv, JTypes DEF JInv
    <3>2. sent'[n] = Append(sent[n], m) /\ sent'[n] \in Seq(EnvelopeMessage)
      BY <2>1, <3>1 DEF JInv, IInv, MessagesWellFormed
    <3>3. m.secrethash = lock.secrethash
      BY Zenon, MessageFields
    <3> HIDE DEF m, f
    <3>4. sent'[n][Len(sent[n]) + 1] = m /\ Len(sent[n]) + 1 \in DOMAIN sent'[n]
      BY ONLY <3>1, <3>2, SMTT(30)
    <3> QED
      BY <3>2, <3>3, <3>4
  <2>4. ExpiredForGood(lock.secrethash) \/ IsLockDropped(n, lock.secrethash)
    <3>1. /\ lock.expiration = PaymentExpiration[lock.secrethash]
          /\ registered[lock.secrethash] \in 1 .. block[n]
               => registered[lock.secrethash] > lock.expiration \/ IsLockDropped(n, lock.secrethash)
      BY Zenon, <2>1 DEF JInv, LockHistory
    <3>2. /\ lock.expiration \in Nat /\ registered[lock.secrethash] \in Nat
          /\ block[n] \in Nat /\ head \in Nat /\ block[n] <= head /\ Confirmations \in Nat
      BY <2>1, JTypes DEF JInv
    <3>3. block[n] >= lock.expiration + 2 * Confirmations
      BY <2>1
    <3> HIDE DEF m, f
    <3> QED
      BY ONLY <3>1, <3>2, <3>3, SMTT(30) DEF ExpiredForGood
  <2> HIDE DEF m, f
  <2> QED
    BY <2>1, <2>2, <2>3, <2>4, SubsetStep, AppendStep, ZenonT(40)
<1> QED
  BY <1>1, <1>2, <1>3 DEF SendNext

LEMMA JSynchronize ==
    ASSUME JInv, HistoryStays, NEW n \in Node, NEW b \in block[n] + 1 .. head, Synchronize(n, b)
    PROVE  LockHistory' /\ ExpiredHistory'
<1> DEFINE f == ContractEvents(our[n], total_deposit[n][b], NewlyRegistered(n, b))
<1>1. /\ block' = [block EXCEPT ![n] = b]
      /\ our' = [our EXCEPT ![n] = f]
      /\ UNCHANGED <<head, registered, sent>>
  BY DEF Synchronize
<1>2. ExpiredHistory'
  BY Zenon, <1>1, SameCancelled
<1>3. \A l \in Expirable(f) :
        /\ l \in Expirable(our[n])
        /\ ~ (l.secrethash \in NewlyRegistered(n, b) /\ registered[l.secrethash] <= l.expiration)
  BY JTypes DEF JInv, Expirable, ContractEvents, update_contract_balance,
                register_onchain_secret_endstate, NettingChannelEndState
<1> HIDE DEF f
<1>4. LockHistory'
  <2> SUFFICES ASSUME NEW k \in Node, NEW l \in Expirable(our'[k])
               PROVE  /\ l.expiration = PaymentExpiration[l.secrethash]
                      /\ registered[l.secrethash] \in 1 .. block'[k]
                           => registered[l.secrethash] > l.expiration \/ IsLockDropped(k, l.secrethash)'
    BY Zenon, <1>1 DEF LockHistory, Expirable
  <2>1. our'[n] = f /\ (k # n => our'[k] = our[k])
    BY <1>1 DEF JInv, IInv, EndsOK
  <2>2. block'[n] = b /\ (k # n => block'[k] = block[k])
    BY <1>1, JTypes DEF JInv
  <2>5. l.secrethash \in SecretHash
    <3>1. l \in Expirable(our[k])
      BY <1>3, <2>1
    <3> QED
      BY <3>1, JTypes DEF JInv
  <2>6. IsLockDropped(k, l.secrethash) => IsLockDropped(k, l.secrethash)'
    BY Zenon, <2>5, StillDropped
  <2>3. CASE k # n
    BY Zenon, <2>1, <2>2, <2>3, <2>6 DEF JInv, LockHistory
  <2>4. CASE k = n
    <3>1. l \in Expirable(our[n])
      BY <1>3, <2>1, <2>4, SMTT(30)
    <3>2. /\ l.expiration = PaymentExpiration[l.secrethash]
          /\ registered[l.secrethash] \in 1 .. block[n]
               => registered[l.secrethash] > l.expiration \/ IsLockDropped(k, l.secrethash)'
      BY Zenon, <2>4, <2>6, <3>1 DEF JInv, LockHistory
    <3>3. l.expiration \in Nat /\ registered[l.secrethash] \in Nat /\ block[n] \in Nat /\ b \in Nat
          /\ l.secrethash \in SecretHash
      BY <3>1, JTypes, SMTT(30) DEF JInv
    <3>4. registered[l.secrethash] \in block[n] + 1 .. b => registered[l.secrethash] > l.expiration
      BY <1>3, <2>1, <2>4, <3>3, SMTT(30) DEF NewlyRegistered
    <3> QED
      BY <2>2, <2>4, <3>2, <3>3, <3>4, SMTT(30)
  <2> QED
    BY <2>3, <2>4, SMTT(30)
<1> QED
  BY <1>2, <1>4

LEMMA JChain ==
    ASSUME JInv, HistoryStays, ChainNext
    PROVE  LockHistory' /\ ExpiredHistory'
<1>1. /\ UNCHANGED <<our, sent, block>> /\ head' = head + 1
      /\ \A h \in SecretHash : registered'[h] = registered[h]
            \/ (registered[h] = 0 /\ registered'[h] = head + 1)
  BY JTypes DEF JInv, ChainNext, MineEmptyBlock, MineSecretReveal, MineDeposit
<1>2. LockHistory'
  <2> SUFFICES ASSUME NEW k \in Node, NEW l \in Expirable(our[k])
               PROVE  /\ l.expiration = PaymentExpiration[l.secrethash]
                      /\ registered'[l.secrethash] \in 1 .. block[k]
                           => registered'[l.secrethash] > l.expiration \/ IsLockDropped(k, l.secrethash)'
    BY Zenon, <1>1 DEF LockHistory, Expirable
  <2>1. l.secrethash \in SecretHash /\ block[k] \in 1 .. head /\ head \in Nat
    BY JTypes DEF JInv
  <2>2. registered'[l.secrethash] \in 1 .. block[k] => registered'[l.secrethash] = registered[l.secrethash]
    BY <1>1, <2>1
  <2> QED
    BY Zenon, <2>1, <2>2, StillDropped DEF JInv, LockHistory
<1>3. ExpiredHistory'
  <2> SUFFICES ASSUME NEW k \in Node, NEW i \in DOMAIN sent[k], sent[k][i].type = "LockExpired",
                      NEW h, h = sent[k][i].secrethash
               PROVE  CancelledInOrder(k, h, i)'
    BY Zenon, <1>1 DEF ExpiredHistory
  <2>1. h \in SecretHash
    <3>1. sent[k][i] \in EnvelopeMessage
      BY JTypes DEF JInv
    <3> QED
      BY <3>1 DEF EnvelopeMessage, LockedTransferMessage, UnlockMessage, LockExpiredMessage
  <2>5. DroppedLock(k, h, i) => DroppedLock(k, h, i)'
    BY Zenon, <2>1 DEF HistoryStays
  <2>3. /\ head \in Nat /\ registered[h] \in Nat /\ PaymentExpiration[h] \in Nat
        /\ (registered'[h] = registered[h] \/ (registered[h] = 0 /\ registered'[h] = head + 1))
    BY <1>1, <2>1, JTypes, SMTT(30) DEF JInv
  <2>4. ASSUME ExpiredForGood(h)
        PROVE  /\ registered'[h] = 0 => head' >= PaymentExpiration[h]
               /\ registered'[h] # 0 => registered'[h] > PaymentExpiration[h]
    BY <1>1, <2>3, <2>4, SMTT(30) DEF ExpiredForGood
  <2> QED
    BY Zenon, <2>4, <2>5 DEF JInv, ExpiredHistory, CancelledInOrder, ExpiredForGood
<1> QED
  BY <1>2, <1>3, SMTT(30)

(* No step takes a message or a registration back, and none makes the      *)
(* partner take a lock it has dropped.                                     *)
LEMMA NextDropped == IInv /\ [Next]_vars => HistoryStays
<1> SUFFICES ASSUME IInv, [Next]_vars PROVE HistoryStays
  OBVIOUS
<1>1. /\ partner \in [Node -> NettingChannelEndState] /\ registered \in [SecretHash -> Nat]
      /\ head \in Nat
  BY DEF IInv, EndsOK, EndOK, ChainOK
<1>2. CASE UNCHANGED vars
  BY Zenon, <1>2, SameNonces DEF vars
<1>3. CASE ChainNext
  <2>1. UNCHANGED <<sent, partner>>
    BY Zenon, <1>3 DEF ChainNext, MineEmptyBlock, MineSecretReveal, MineDeposit
  <2>2. \A h \in SecretHash : registered[h] # 0 => registered'[h] # 0
    BY <1>1, <1>3 DEF ChainNext, MineEmptyBlock, MineSecretReveal, MineDeposit
  <2> QED
    BY Zenon, <2>1, <2>2, SameNonces
<1>4. ASSUME NEW n \in Node, NEW b \in block[n] + 1 .. head, Synchronize(n, b) PROVE HistoryStays
  <2>1. UNCHANGED <<sent, registered>>
    BY Zenon, <1>4 DEF Synchronize
  <2>2. \A k \in Node : partner'[k].nonce = partner[k].nonce
    BY <1>1, <1>4 DEF Synchronize, ContractEvents, update_contract_balance,
                      register_onchain_secret_endstate, NettingChannelEndState
  <2> QED
    BY Zenon, <2>1, <2>2, SameNonces
<1>5. ASSUME NEW n \in Node, NEW h \in SecretHash, RegisterOffchainSecret(n, h) PROVE HistoryStays
  <2>1. UNCHANGED <<sent, registered>>
    BY Zenon, <1>5 DEF RegisterOffchainSecret
  <2>2. \A k \in Node : partner'[k].nonce = partner[k].nonce
    BY <1>1, <1>5 DEF RegisterOffchainSecret, register_secret_endstate, NettingChannelEndState
  <2> QED
    BY Zenon, <2>1, <2>2, SameNonces
<1>6. ASSUME NEW n \in Node, SendNext(n) PROVE HistoryStays
  <2>1. /\ UNCHANGED <<registered, partner>>
        /\ \E m : sent' = [sent EXCEPT ![n] = Append(@, m)]
    BY Zenon, <1>6 DEF SendNext, SendLockedTransfer, SendUnlock, SendLockExpired
  <2> QED
    BY Zenon, <2>1, SameNonces
<1>7. ASSUME NEW n \in Node, ReceiveNext(n) PROVE HistoryStays
  BY Zenon, <1>7, ReceiveDropped
<1> QED
  BY Zenon, <1>2, <1>3, <1>4, <1>5, <1>6, <1>7 DEF Next

LEMMA JNext == JInv /\ [Next]_vars => JInv'
<1> SUFFICES ASSUME JInv, [Next]_vars PROVE LockHistory' /\ ExpiredHistory'
  BY NextInv DEF JInv
<1>0. HistoryStays
  BY Zenon, NextDropped DEF JInv
<1>1. ASSUME UNCHANGED <<head, registered, block, our, sent>>
      PROVE  LockHistory' /\ ExpiredHistory'
  <2>1. ASSUME NEW n \in Node, NEW l \in Expirable(our[n]), IsLockDropped(n, l.secrethash)
        PROVE  IsLockDropped(n, l.secrethash)'
    <3>1. PICK h \in SecretHash : h = l.secrethash
      BY Zenon, JTypes DEF JInv
    <3> QED
      BY Zenon, <1>0, <2>1, <3>1, StillDropped DEF IsLockDropped
  <2>2. LockHistory'
    BY Zenon, <1>1, <2>1 DEF JInv, LockHistory, Expirable
  <2> QED
    BY Zenon, <1>0, <1>1, <2>2, SameCancelled
<1>2. CASE ChainNext
  BY Zenon, <1>0, <1>2, JChain
<1>3. ASSUME NEW n \in Node, NEW b \in block[n] + 1 .. head, Synchronize(n, b)
      PROVE  LockHistory' /\ ExpiredHistory'
  BY Zenon, <1>0, <1>3, JSynchronize
<1>4. ASSUME NEW n \in Node, NEW h \in SecretHash, RegisterOffchainSecret(n, h)
      PROVE  LockHistory' /\ ExpiredHistory'
  <2> DEFINE f == register_secret_endstate(our[n], h)
  <2>1. our' = [our EXCEPT ![n] = f] /\ UNCHANGED <<head, registered, block, sent>>
    BY <1>4 DEF RegisterOffchainSecret
  <2>2. Expirable(f) \subseteq Expirable(our[n])
    BY JTypes DEF JInv, Expirable, register_secret_endstate, Without, NettingChannelEndState
  <2> HIDE DEF f
  <2> QED
    BY Zenon, <1>0, <2>1, <2>2, SubsetStep, SameCancelled
<1>5. ASSUME NEW n \in Node, SendNext(n)
      PROVE  LockHistory' /\ ExpiredHistory'
  BY Zenon, <1>0, <1>5, JSend
<1>6. ASSUME NEW n \in Node, ReceiveNext(n)
      PROVE  LockHistory' /\ ExpiredHistory'
  BY Zenon, <1>1, <1>6 DEF ReceiveNext, ReceiveLockedTransfer, ReceiveUnlock, ReceiveLockExpired,
                    RejectMessage, vars
<1> QED
  BY <1>1, <1>2, <1>3, <1>4, <1>5, <1>6 DEF Next, vars

(* A payment whose secret was registered on chain in time is never         *)
(* cancelled by its sender once the partner has the lock, however far      *)
(* behind the chain the sender is: the threshold of                        *)
(* get_sender_expiration_threshold suffices.                               *)
THEOREM RegisteredLocksNeverExpire == Spec => []RegisteredLockNeverExpires
<1>1. JInv => RegisteredLockNeverExpires
  <2> SUFFICES ASSUME JInv, NEW n \in Node, NEW i \in DOMAIN sent[n], sent[n][i].type = "LockExpired"
               PROVE  \/ registered[sent[n][i].secrethash] = 0
                      \/ registered[sent[n][i].secrethash] > PaymentExpiration[sent[n][i].secrethash]
                      \/ DroppedLock(n, sent[n][i].secrethash, i)
    BY Zenon DEF RegisteredLockNeverExpires
  <2> QED
    BY Zenon DEF JInv, ExpiredHistory, CancelledInOrder, ExpiredForGood
<1>2. Spec => []JInv
  BY JInit, JNext, PTL DEF Spec
<1> QED
  BY <1>1, <1>2, PTL
=============================================================================
