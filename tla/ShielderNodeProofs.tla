------------------------- MODULE ShielderNodeProofs -------------------------
(***************************************************************************)
(* The app follows the chain, no message is applied twice and the mempool  *)
(* stays within its limits, for any blocks, crashes and files, whether a   *)
(* keyper observes the node or not; and a keyper that does handles each of *)
(* the events it has to handle once.  Proofs about ShielderNode and        *)
(* KeyperObserver.                                                         *)
(***************************************************************************)
EXTENDS KeyperObserver, FiniteSetTheorems, SequenceTheorems, TLAPS

AppFields == {"Keypers", "Applied", "NonceTracker", "CheckTxState", "LastBlockHeight"}

-----------------------------------------------------------------------------
(* Recursive functions.  A set of numbers has a least one: this is all the *)
(* induction there is.                                                     *)
LEMMA LeastNat ==
    ASSUME NEW T \in SUBSET Nat, T # {}
    PROVE  \E n \in T : \A m \in T : n <= m
<1> DEFINE R == OpToRel(<, Nat)
<1>1. PICK n \in T : \A m \in T : ~(<<m, n>> \in R)
  BY NatLessThanWellFounded, WFMin
<1>2. \A m \in T : <<m, n>> \in R <=> m < n
  BY DEF OpToRel
<1> HIDE DEF R
<1>3. \A m \in T : ~(m < n)
  BY <1>1, <1>2
<1> QED
  BY <1>3

(* If there is a number without the property that T lacks, there is a      *)
(* first one: it is 0, or the one before has the property.                 *)
LEMMA FirstFailure ==
    ASSUME NEW T \in SUBSET Nat, 0 \notin T,
           \A n \in Nat : n \notin T => n + 1 \notin T
    PROVE  T = {}
<1> SUFFICES ASSUME T # {} PROVE FALSE
  OBVIOUS
<1>1. PICK n \in T : \A m \in T : n <= m
  BY LeastNat
<1>2. n - 1 \in Nat /\ n - 1 \notin T /\ n = (n - 1) + 1
  BY <1>1
<1> QED
  BY <1>1, <1>2

LEMMA ExecutedIs ==
    ASSUME NEW a, NEW txs \in Seq(Tx)
    PROVE  /\ Executed(a, txs)[0] = a
           /\ \A n \in 1 .. Len(txs) :
                Executed(a, txs)[n] = DeliverTx(Executed(a, txs)[n - 1], txs[n])
<1> DEFINE Steps(n, g) ==
             g = [i \in 0 .. n |-> IF i = 0 THEN a ELSE DeliverTx(g[i - 1], txs[i])]
           T == {n \in Nat : \A g : ~Steps(n, g)}
<1>1. 0 \notin T
  <2>1. Steps(0, [i \in 0 .. 0 |-> a])
    OBVIOUS
  <2> QED
    BY <2>1
<1>2. ASSUME NEW n \in Nat, n \notin T PROVE n + 1 \notin T
  <2>1. PICK g : Steps(n, g)
    BY <1>2
  <2> DEFINE h == [i \in 0 .. n + 1 |->
                     IF i = n + 1 THEN DeliverTx(g[n], txs[n + 1]) ELSE g[i]]
             k == [i \in 0 .. n + 1 |-> IF i = 0 THEN a ELSE DeliverTx(h[i - 1], txs[i])]
  <2>2. \A i \in 0 .. n : g[i] = IF i = 0 THEN a ELSE DeliverTx(g[i - 1], txs[i])
    BY <2>1
  <2>3. \A i \in 0 .. n + 1 : h[i] = k[i]
    <3> SUFFICES ASSUME NEW i \in 0 .. n + 1 PROVE h[i] = k[i]
      OBVIOUS
    <3>1. CASE i = n + 1
      <4>1. h[i] = DeliverTx(g[n], txs[n + 1]) /\ h[n] = g[n]
        BY <3>1
      <4>2. k[i] = DeliverTx(h[n], txs[n + 1])
        BY <3>1
      <4> QED
        BY <4>1, <4>2
    <3>2. CASE i # n + 1 /\ i # 0
      <4>1. i \in 0 .. n /\ i - 1 \in 0 .. n
        BY <3>2
      <4>2. h[i] = g[i] /\ h[i - 1] = g[i - 1] /\ k[i] = DeliverTx(h[i - 1], txs[i])
        BY <3>2, <4>1
      <4> QED
        BY <2>2, <3>2, <4>1, <4>2
    <3>3. CASE i = 0
      BY <2>2, <3>3
    <3> QED
      BY <3>1, <3>2, <3>3
  <2>4. h = k
    BY <2>3
  <2>5. Steps(n + 1, h)
    BY <2>4
  <2> QED
    BY <2>5
<1>3. T = {}
  BY <1>1, <1>2, FirstFailure
<1>4. \E g : Steps(Len(txs), g)
  <2>1. Len(txs) \in Nat
    OBVIOUS
  <2> QED
    BY <1>3, <2>1
<1> DEFINE f == Executed(a, txs)
<1>5. f = CHOOSE g : Steps(Len(txs), g)
  BY DEF Executed
<1>6. Steps(Len(txs), f)
  BY <1>4, <1>5
<1> HIDE DEF f
<1>7. \A n \in 0 .. Len(txs) : f[n] = IF n = 0 THEN a ELSE DeliverTx(f[n - 1], txs[n])
  BY <1>6
<1>8. Len(txs) \in Nat
  OBVIOUS
<1>9. f[0] = a /\ \A n \in 1 .. Len(txs) : f[n] = DeliverTx(f[n - 1], txs[n])
  BY <1>7, <1>8
<1> QED
  BY <1>9 DEF f

LEMMA AppAfterIs ==
    ASSUME NEW chain \in Seq(Seq(Tx))
    PROVE  /\ AppAfter(chain)[0] = InitChain(NewShielderApp)
           /\ \A n \in 1 .. Len(chain) :
                AppAfter(chain)[n]
                  = Executed(AppAfter(chain)[n - 1], chain[n])[Len(chain[n])]
<1> DEFINE a == InitChain(NewShielderApp)
           After(b, n) == Executed(b, chain[n])[Len(chain[n])]
           Steps(n, g) ==
             g = [i \in 0 .. n |-> IF i = 0 THEN a ELSE After(g[i - 1], i)]
           T == {n \in Nat : \A g : ~Steps(n, g)}
<1> HIDE DEF a, After
<1>1. 0 \notin T
  <2>1. Steps(0, [i \in 0 .. 0 |-> a])
    OBVIOUS
  <2> QED
    BY <2>1
<1>2. ASSUME NEW n \in Nat, n \notin T PROVE n + 1 \notin T
  <2>1. PICK g : Steps(n, g)
    BY <1>2
  <2> DEFINE h == [i \in 0 .. n + 1 |-> IF i = n + 1 THEN After(g[n], n + 1) ELSE g[i]]
             k == [i \in 0 .. n + 1 |-> IF i = 0 THEN a ELSE After(h[i - 1], i)]
  <2>2. \A i \in 0 .. n : g[i] = IF i = 0 THEN a ELSE After(g[i - 1], i)
    BY <2>1
  <2>3. \A i \in 0 .. n + 1 : h[i] = k[i]
    <3> SUFFICES ASSUME NEW i \in 0 .. n + 1 PROVE h[i] = k[i]
      OBVIOUS
    <3>1. CASE i = n + 1
      <4>1. h[i] = After(g[n], n + 1) /\ h[n] = g[n]
        BY <3>1
      <4>2. k[i] = After(h[n], n + 1)
        BY <3>1
      <4> QED
        BY <4>1, <4>2
    <3>2. CASE i # n + 1 /\ i # 0
      <4>1. i \in 0 .. n /\ i - 1 \in 0 .. n
        BY <3>2
      <4>2. h[i] = g[i] /\ h[i - 1] = g[i - 1] /\ k[i] = After(h[i - 1], i)
        BY <3>2, <4>1
      <4> QED
        BY <2>2, <3>2, <4>1, <4>2
    <3>3. CASE i = 0
      BY <2>2, <3>3
    <3> QED
      BY <3>1, <3>2, <3>3
  <2>4. h = k
    BY <2>3
  <2>5. Steps(n + 1, h)
    BY <2>4
  <2> QED
    BY <2>5
<1>3. T = {}
  BY <1>1, <1>2, FirstFailure
<1>4. \E g : Steps(Len(chain), g)
  <2>1. Len(chain) \in Nat
    OBVIOUS
  <2> QED
    BY <1>3, <2>1
<1> DEFINE f == AppAfter(chain)
<1>5. f = CHOOSE g : Steps(Len(chain), g)
  BY DEF AppAfter, a, After
<1>6. Steps(Len(chain), f)
  BY <1>4, <1>5
<1> HIDE DEF f
<1>7. \A n \in 0 .. Len(chain) : f[n] = IF n = 0 THEN a ELSE After(f[n - 1], n)
  BY <1>6
<1>8. Len(chain) \in Nat
  OBVIOUS
<1>9. f[0] = a /\ \A n \in 1 .. Len(chain) : f[n] = After(f[n - 1], n)
  BY <1>7, <1>8
<1> QED
  BY <1>9 DEF f, a, After

(* What a block makes of the app does not depend on later blocks.          *)
LEMMA AppAfterAppend ==
    ASSUME NEW chain \in Seq(Seq(Tx)), NEW block \in Seq(Tx)
    PROVE  \A h \in 0 .. Len(chain) :
             AppAfter(Append(chain, block))[h] = AppAfter(chain)[h]
<1> DEFINE longer == Append(chain, block)
           f == AppAfter(chain)
           g == AppAfter(longer)
           T == {n \in Nat : n <= Len(chain) /\ g[n] # f[n]}
<1>1. /\ longer \in Seq(Seq(Tx)) /\ Len(longer) = Len(chain) + 1 /\ Len(chain) \in Nat
      /\ \A n \in 1 .. Len(chain) : longer[n] = chain[n]
  OBVIOUS
<1>2. /\ f[0] = InitChain(NewShielderApp)
      /\ \A n \in 1 .. Len(chain) : f[n] = Executed(f[n - 1], chain[n])[Len(chain[n])]
  BY AppAfterIs
<1> HIDE DEF longer
<1>3. /\ g[0] = InitChain(NewShielderApp)
      /\ \A n \in 1 .. Len(longer) : g[n] = Executed(g[n - 1], longer[n])[Len(longer[n])]
  BY <1>1, AppAfterIs
<1> HIDE DEF f, g
<1>4. 0 \notin T
  BY <1>2, <1>3
<1>5. ASSUME NEW n \in Nat, n \notin T PROVE n + 1 \notin T
  <2> SUFFICES ASSUME n + 1 <= Len(chain) PROVE g[n + 1] = f[n + 1]
    OBVIOUS
  <2>1. /\ n + 1 \in 1 .. Len(chain) /\ n + 1 \in 1 .. Len(longer) /\ (n + 1) - 1 = n
        /\ g[n] = f[n]
    BY <1>1, <1>5
  <2>2. f[n + 1] = Executed(f[n], chain[n + 1])[Len(chain[n + 1])]
    BY <1>2, <2>1
  <2>3. g[n + 1] = Executed(g[n], longer[n + 1])[Len(longer[n + 1])]
    BY <1>3, <2>1
  <2> QED
    BY <1>1, <2>1, <2>2, <2>3
<1>6. T = {}
  <2> HIDE DEF T
  <2>1. T \in SUBSET Nat
    BY DEF T
  <2> QED
    BY <1>4, <1>5, <2>1, FirstFailure
<1> QED
  BY <1>1, <1>6 DEF f, g, longer
-----------------------------------------------------------------------------
(* The app.                                                                *)

(* The members that CheckTx knows are the keypers.                         *)
IsApp(a) ==
    /\ DOMAIN a = AppFields
    /\ a.CheckTxState = [Members |-> a.Keypers, TxCounts |-> a.CheckTxState.TxCounts,
                         NonceTracker |-> a.CheckTxState.NonceTracker]
    /\ a.Keypers # {}

LEMMA SetMembers ==
    ASSUME NEW m, NEW t, NEW n, NEW x
    PROVE  [[Members |-> m, TxCounts |-> t, NonceTracker |-> n] EXCEPT !.Members = x]
             = [Members |-> x, TxCounts |-> t, NonceTracker |-> n]
OBVIOUS

LEMMA DeliverTxFields ==
    ASSUME NEW a, IsApp(a), NEW tx
    PROVE  LET d     == DeliverTx(a, tx)
               heard == Id(tx) \notin a.NonceTracker /\ tx.Sender \in a.Keypers
           IN  /\ IsApp(d)
               /\ d.Applied = IF heard THEN Append(a.Applied, tx) ELSE a.Applied
               /\ d.Keypers = IF heard /\ tx.Msg = "config"
                                THEN a.Keypers \cup NewKeypers ELSE a.Keypers
               /\ d.NonceTracker = a.NonceTracker \cup {Id(tx)}
               /\ d.LastBlockHeight = a.LastBlockHeight
               /\ d.CheckTxState.TxCounts = a.CheckTxState.TxCounts
               /\ d.CheckTxState.NonceTracker = a.CheckTxState.NonceTracker
<1> DEFINE b == [a EXCEPT !.NonceTracker = @ \cup {Id(tx)}]
           c == [b EXCEPT !.Applied = Append(@, tx), !.Keypers = @ \cup NewKeypers]
           d == DeliverTx(a, tx)
<1>1. CASE Id(tx) \in a.NonceTracker
  BY <1>1 DEF DeliverTx
<1>2. CASE Id(tx) \notin a.NonceTracker
  <2>1. /\ IsApp(b) /\ b.Applied = a.Applied /\ b.Keypers = a.Keypers
        /\ b.NonceTracker = a.NonceTracker \cup {Id(tx)}
        /\ b.LastBlockHeight = a.LastBlockHeight
        /\ b.CheckTxState = a.CheckTxState
    BY DEF IsApp, AppFields
  <2>2. d = deliverMessage(b, tx)
    BY <1>2 DEF DeliverTx
  <2> HIDE DEF b, d
  <2>3. CASE tx.Sender \notin b.Keypers
    <3>1. d = b
      BY <2>2, <2>3 DEF deliverMessage
    <3> QED
      BY <1>2, <2>1, <2>3, <3>1 DEF d
  <2>4. CASE tx.Sender \in b.Keypers /\ tx.Msg = "config"
    <3>1. d = updateCheckTxMembers(c)
      BY <2>2, <2>4 DEF deliverMessage
    <3>2. /\ DOMAIN c = AppFields /\ c.Applied = Append(b.Applied, tx)
          /\ c.Keypers = b.Keypers \cup NewKeypers
          /\ c.NonceTracker = b.NonceTracker /\ c.LastBlockHeight = b.LastBlockHeight
          /\ c.CheckTxState = b.CheckTxState
      BY <2>1 DEF IsApp, AppFields
    <3> HIDE DEF c
    <3>3. /\ DOMAIN d = AppFields /\ d.Applied = c.Applied /\ d.Keypers = c.Keypers
          /\ d.NonceTracker = c.NonceTracker /\ d.LastBlockHeight = c.LastBlockHeight
          /\ d.CheckTxState = [c.CheckTxState EXCEPT !.Members = c.Keypers]
      BY <3>1, <3>2 DEF updateCheckTxMembers, AppFields
    <3>4. /\ d.CheckTxState = [Members |-> d.Keypers, TxCounts |-> b.CheckTxState.TxCounts,
                               NonceTracker |-> b.CheckTxState.NonceTracker]
      <4> DEFINE st == b.CheckTxState
                 lit == [Members |-> b.Keypers, TxCounts |-> st.TxCounts,
                         NonceTracker |-> st.NonceTracker]
      <4>1. st = lit
        BY <2>1 DEF IsApp
      <4>2. d.CheckTxState = [st EXCEPT !.Members = d.Keypers]
        BY <3>2, <3>3
      <4>3. [lit EXCEPT !.Members = d.Keypers]
              = [Members |-> d.Keypers, TxCounts |-> st.TxCounts,
                 NonceTracker |-> st.NonceTracker]
        BY SetMembers
      <4> HIDE DEF lit
      <4>4. d.CheckTxState = [lit EXCEPT !.Members = d.Keypers]
        <5> HIDE DEF st
        <5> QED
          BY <4>1, <4>2
      <4> QED
        BY <4>3, <4>4
    <3> QED
      BY <1>2, <2>1, <2>4, <3>2, <3>3, <3>4 DEF IsApp, d
  <2>5. CASE tx.Sender \in b.Keypers /\ tx.Msg # "config"
    <3>1. d = [b EXCEPT !.Applied = Append(@, tx)]
      BY <2>2, <2>5 DEF deliverMessage
    <3>2. /\ DOMAIN d = AppFields /\ d.Applied = Append(b.Applied, tx)
          /\ d.Keypers = b.Keypers
          /\ d.NonceTracker = b.NonceTracker /\ d.LastBlockHeight = b.LastBlockHeight
          /\ d.CheckTxState = b.CheckTxState
      BY <2>1, <3>1 DEF IsApp, AppFields
    <3> QED
      BY <1>2, <2>1, <2>5, <3>2 DEF IsApp, d
  <2> QED
    BY <2>3, <2>4, <2>5
<1> QED
  BY <1>1, <1>2

(* Two apps that are the same but for what CheckTx has let through.        *)
Same(a, b) == IsApp(a) /\ IsApp(b) /\ SameState(a, b)

LEMMA SameAfterDeliverTx ==
    ASSUME NEW a, NEW b, Same(a, b), NEW tx
    PROVE  Same(DeliverTx(a, tx), DeliverTx(b, tx))
<1> DEFINE d == DeliverTx(a, tx)
           e == DeliverTx(b, tx)
           heard == Id(tx) \notin a.NonceTracker /\ tx.Sender \in a.Keypers
<1>1. /\ IsApp(a) /\ IsApp(b)
      /\ a.Applied = b.Applied /\ a.Keypers = b.Keypers /\ a.NonceTracker = b.NonceTracker
  BY DEF Same, SameState
<1>2. /\ IsApp(d)
      /\ d.Applied = IF heard THEN Append(a.Applied, tx) ELSE a.Applied
      /\ d.Keypers = IF heard /\ tx.Msg = "config"
                       THEN a.Keypers \cup NewKeypers ELSE a.Keypers
      /\ d.NonceTracker = a.NonceTracker \cup {Id(tx)}
  BY <1>1, DeliverTxFields
<1>3. /\ IsApp(e)
      /\ e.Applied = IF heard THEN Append(a.Applied, tx) ELSE a.Applied
      /\ e.Keypers = IF heard /\ tx.Msg = "config"
                       THEN a.Keypers \cup NewKeypers ELSE a.Keypers
      /\ e.NonceTracker = a.NonceTracker \cup {Id(tx)}
  <2> DEFINE heardByB == Id(tx) \notin b.NonceTracker /\ tx.Sender \in b.Keypers
  <2>1. /\ IsApp(e)
        /\ e.Applied = IF heardByB THEN Append(b.Applied, tx) ELSE b.Applied
        /\ e.Keypers = IF heardByB /\ tx.Msg = "config"
                         THEN b.Keypers \cup NewKeypers ELSE b.Keypers
        /\ e.NonceTracker = b.NonceTracker \cup {Id(tx)}
    BY <1>1, DeliverTxFields
  <2>2. heardByB = heard
    BY <1>1
  <2> HIDE DEF e, heard, heardByB
  <2> QED
    BY <1>1, <2>1, <2>2
<1> HIDE DEF d, e, heard
<1>4. SameState(d, e)
  BY <1>2, <1>3 DEF SameState, IsApp
<1> QED
  BY <1>2, <1>3, <1>4 DEF Same, d, e

LEMMA NewAppIs ==
    LET a == InitChain(NewShielderApp)
    IN  /\ IsApp(a) /\ a.LastBlockHeight = 0
        /\ a.CheckTxState.TxCounts = [s \in Sender |-> 0]
        /\ a.CheckTxState.NonceTracker = {}
<1> DEFINE a == InitChain(NewShielderApp)
           b == [NewShielderApp EXCEPT !.Keypers = GenesisKeypers,
                                       !.CheckTxState = NewCheckTxState]
<1>1. NewCheckTxState = [Members |-> {}, TxCounts |-> [s \in Sender |-> 0],
                         NonceTracker |-> {}]
  <2> DEFINE st == [Members |-> {}, TxCounts |-> <<>>, NonceTracker |-> {}]
             zero == [s \in Sender |-> 0]
  <2>1. NewCheckTxState = [st EXCEPT !.TxCounts = zero, !.NonceTracker = {}]
    BY DEF NewCheckTxState, Reset
  <2> HIDE DEF zero
  <2> QED
    BY <2>1 DEF zero
<1>2. /\ DOMAIN b = AppFields /\ b.Keypers = GenesisKeypers /\ b.LastBlockHeight = 0
      /\ b.CheckTxState = NewCheckTxState
  BY DEF NewShielderApp, AppFields
<1>3. a = [b EXCEPT !.CheckTxState.Members = b.Keypers]
  BY DEF InitChain, updateCheckTxMembers
<1> HIDE DEF a, b
<1>4. /\ DOMAIN a = AppFields /\ a.Keypers = b.Keypers /\ a.LastBlockHeight = 0
      /\ a.CheckTxState = [b.CheckTxState EXCEPT !.Members = b.Keypers]
  BY <1>2, <1>3 DEF AppFields
<1>5. a.CheckTxState = [Members |-> a.Keypers, TxCounts |-> [s \in Sender |-> 0],
                        NonceTracker |-> {}]
  BY <1>1, <1>2, <1>4
<1> QED
  BY <1>2, <1>4, <1>5, GenesisAssumption DEF IsApp, a
-----------------------------------------------------------------------------
(* The mempool.                                                            *)

SentBy(pool, s) == {i \in DOMAIN pool : pool[i].Sender = s}

(* CheckTx has counted the transactions that are in the mempool.           *)
PoolOK(a, pool) ==
    /\ pool \in Seq(Tx)
    /\ a.CheckTxState.TxCounts \in [Sender -> 0 .. MaxTxsPerBlock]
    /\ \A s \in Sender : Cardinality(SentBy(pool, s)) <= a.CheckTxState.TxCounts[s]
    /\ \A i \in DOMAIN pool :
          /\ pool[i].Sender \in a.Keypers
          /\ Id(pool[i]) \in a.CheckTxState.NonceTracker
          /\ \A j \in DOMAIN pool : Id(pool[i]) = Id(pool[j]) => i = j

(* Nothing in the mempool has been delivered.                              *)
Fresh(a, pool) == \A i \in DOMAIN pool : Id(pool[i]) \notin a.NonceTracker

LEMMA SentByFinite ==
    ASSUME NEW pool \in Seq(Tx), NEW s
    PROVE  /\ IsFiniteSet(SentBy(pool, s))
           /\ Cardinality(SentBy(pool, s)) \in Nat
<1>1. IsFiniteSet(1 .. Len(pool))
  BY FS_Interval
<1>2. SentBy(pool, s) \subseteq 1 .. Len(pool)
  BY DEF SentBy
<1> QED
  BY <1>1, <1>2, FS_Subset, FS_CardinalityType

LEMMA SentByAppend ==
    ASSUME NEW pool \in Seq(Tx), NEW tx \in Tx, NEW s
    PROVE  Cardinality(SentBy(Append(pool, tx), s))
             = Cardinality(SentBy(pool, s)) + IF tx.Sender = s THEN 1 ELSE 0
<1> DEFINE p == Append(pool, tx)
           n == Len(pool) + 1
<1>1. /\ DOMAIN p = DOMAIN pool \cup {n} /\ n \notin DOMAIN pool
      /\ p[n] = tx /\ \A i \in DOMAIN pool : p[i] = pool[i]
  OBVIOUS
<1>2. IsFiniteSet(SentBy(pool, s)) /\ Cardinality(SentBy(pool, s)) \in Nat
  BY SentByFinite
<1> HIDE DEF p, n
<1>3. CASE tx.Sender = s
  <2>1. SentBy(p, s) = SentBy(pool, s) \cup {n} /\ n \notin SentBy(pool, s)
    BY <1>1, <1>3 DEF SentBy
  <2>2. Cardinality(SentBy(p, s)) = Cardinality(SentBy(pool, s)) + 1
    BY <1>2, <2>1, FS_AddElement
  <2> QED
    BY <1>3, <2>2 DEF p
<1>4. CASE tx.Sender # s
  <2>1. SentBy(p, s) = SentBy(pool, s)
    BY <1>1, <1>4 DEF SentBy
  <2> QED
    BY <1>2, <1>4, <2>1 DEF p
<1> QED
  BY <1>3, <1>4

LEMMA AddTxIs ==
    ASSUME NEW m, NEW t, NEW n, NEW tx
    PROVE  AddTx([Members |-> m, TxCounts |-> t, NonceTracker |-> n], tx)
             = [Members |-> m, TxCounts |-> [t EXCEPT ![tx.Sender] = t[tx.Sender] + 1],
                NonceTracker |-> n \cup {Id(tx)}]
<1> DEFINE st == [Members |-> m, TxCounts |-> t, NonceTracker |-> n]
           u == [t EXCEPT ![tx.Sender] = t[tx.Sender] + 1]
           v == n \cup {Id(tx)}
<1>1. AddTx(st, tx) = [st EXCEPT !.TxCounts = u, !.NonceTracker = v]
  BY DEF AddTx
<1> HIDE DEF u, v
<1>2. AddTx(st, tx) = [Members |-> m, TxCounts |-> u, NonceTracker |-> v]
  BY <1>1
<1> QED
  BY <1>2 DEF u, v

(* What CheckTx lets into the mempool is new, from a keyper, and within    *)
(* the limit.                                                              *)
LEMMA CheckedTx ==
    ASSUME NEW a, IsApp(a), NEW pool, PoolOK(a, pool), NEW tx \in Tx,
           PassesCheckTx(a, tx)
    PROVE  LET c == CheckTx(a, tx)
               p == Append(pool, tx)
           IN  /\ IsApp(c)
               /\ c.Applied = a.Applied /\ c.Keypers = a.Keypers
               /\ c.NonceTracker = a.NonceTracker
               /\ c.LastBlockHeight = a.LastBlockHeight
               /\ PoolOK(c, p)
               /\ Fresh(a, pool) => Fresh(c, p)
<1> DEFINE st == a.CheckTxState
           c == CheckTx(a, tx)
           p == Append(pool, tx)
           t == st.TxCounts
<1>1. /\ st = [Members |-> a.Keypers, TxCounts |-> t, NonceTracker |-> st.NonceTracker]
      /\ a.Keypers # {} /\ DOMAIN a = AppFields
  BY DEF IsApp
<1>2. /\ tx.Sender \in a.Keypers
      /\ t[tx.Sender] < MaxTxsPerBlock
      /\ Id(tx) \notin st.NonceTracker /\ Id(tx) \notin a.NonceTracker
  <2>1. st.Members = a.Keypers
    BY <1>1
  <2> QED
    BY <1>1, <2>1 DEF PassesCheckTx, CanAddTx
<1>3. /\ pool \in Seq(Tx) /\ t \in [Sender -> 0 .. MaxTxsPerBlock]
      /\ \A s \in Sender : Cardinality(SentBy(pool, s)) <= t[s]
      /\ \A i \in DOMAIN pool :
            /\ pool[i].Sender \in a.Keypers
            /\ Id(pool[i]) \in st.NonceTracker
            /\ \A j \in DOMAIN pool : Id(pool[i]) = Id(pool[j]) => i = j
  BY DEF PoolOK
<1>4. tx.Sender \in Sender
  BY DEF Sender
<1>5. AddTx(st, tx) = [Members |-> a.Keypers,
                       TxCounts |-> [t EXCEPT ![tx.Sender] = t[tx.Sender] + 1],
                       NonceTracker |-> st.NonceTracker \cup {Id(tx)}]
  <2> DEFINE n   == st.NonceTracker
             lit == [Members |-> a.Keypers, TxCounts |-> t, NonceTracker |-> n]
  <2> HIDE DEF st, t, n
  <2>1. st = lit
    BY <1>1 DEF n
  <2>2. AddTx(lit, tx) = [Members |-> a.Keypers,
                          TxCounts |-> [t EXCEPT ![tx.Sender] = t[tx.Sender] + 1],
                          NonceTracker |-> n \cup {Id(tx)}]
    BY AddTxIs
  <2> HIDE DEF lit
  <2> QED
    BY <2>1, <2>2 DEF n
<1>6. /\ DOMAIN c = AppFields
      /\ c.Applied = a.Applied /\ c.Keypers = a.Keypers
      /\ c.NonceTracker = a.NonceTracker
      /\ c.LastBlockHeight = a.LastBlockHeight
      /\ c.CheckTxState = AddTx(st, tx)
  BY <1>1 DEF CheckTx, AppFields
<1> HIDE DEF c, st, t
<1>7. /\ c.CheckTxState.TxCounts = [t EXCEPT ![tx.Sender] = t[tx.Sender] + 1]
      /\ c.CheckTxState.NonceTracker = st.NonceTracker \cup {Id(tx)}
      /\ c.CheckTxState.Members = a.Keypers
  BY <1>5, <1>6
<1>8. IsApp(c)
  <2>1. c.CheckTxState = [Members |-> c.Keypers, TxCounts |-> c.CheckTxState.TxCounts,
                          NonceTracker |-> c.CheckTxState.NonceTracker]
    BY <1>5, <1>6, <1>7, Zenon
  <2> QED
    BY <1>1, <1>6, <2>1 DEF IsApp
<1>9. /\ p \in Seq(Tx) /\ DOMAIN p = DOMAIN pool \cup {Len(pool) + 1}
      /\ p[Len(pool) + 1] = tx /\ \A i \in DOMAIN pool : p[i] = pool[i]
  BY <1>3
<1>10. \A s \in Sender : Cardinality(SentBy(p, s)) <= c.CheckTxState.TxCounts[s]
  <2> SUFFICES ASSUME NEW s \in Sender
               PROVE  Cardinality(SentBy(p, s)) <= c.CheckTxState.TxCounts[s]
    OBVIOUS
  <2>1. Cardinality(SentBy(p, s))
          = Cardinality(SentBy(pool, s)) + IF tx.Sender = s THEN 1 ELSE 0
    BY <1>3, SentByAppend
  <2>2. Cardinality(SentBy(pool, s)) \in Nat /\ Cardinality(SentBy(pool, s)) <= t[s]
        /\ t[s] \in Nat
    BY <1>3, SentByFinite, BoundsAssumption
  <2>3. c.CheckTxState.TxCounts[s] = t[s] + IF tx.Sender = s THEN 1 ELSE 0
    BY <1>3, <1>7, <2>2
  <2> HIDE DEF p
  <2> QED
    BY <2>1, <2>2, <2>3
<1>11. c.CheckTxState.TxCounts \in [Sender -> 0 .. MaxTxsPerBlock]
  BY <1>2, <1>3, <1>4, <1>7, BoundsAssumption
<1> HIDE DEF p
<1>12. \A i \in DOMAIN p :
          /\ p[i].Sender \in c.Keypers
          /\ Id(p[i]) \in c.CheckTxState.NonceTracker
          /\ \A j \in DOMAIN p : Id(p[i]) = Id(p[j]) => i = j
  BY <1>2, <1>3, <1>6, <1>7, <1>9
<1>13. PoolOK(c, p)
  BY <1>9, <1>10, <1>11, <1>12 DEF PoolOK
<1>14. Fresh(a, pool) => Fresh(c, p)
  BY <1>2, <1>6, <1>9 DEF Fresh
<1> QED
  BY <1>6, <1>8, <1>13, <1>14 DEF c, p

(* One step of a recheck.                                                  *)
RecheckTx(r, block, tx) ==
    IF ~Contains(block, tx) /\ PassesCheckTx(r.app, tx)
      THEN [app |-> CheckTx(r.app, tx), mempool |-> Append(r.mempool, tx)]
      ELSE r

LEMMA RecheckIs ==
    ASSUME NEW a, NEW block, NEW txs \in Seq(Tx)
    PROVE  /\ Recheck(a, block, txs)[0] = [app |-> a, mempool |-> <<>>]
           /\ \A n \in 1 .. Len(txs) :
                Recheck(a, block, txs)[n]
                  = RecheckTx(Recheck(a, block, txs)[n - 1], block, txs[n])
<1> DEFINE b == [app |-> a, mempool |-> <<>>]
           After(r, n) == RecheckTx(r, block, txs[n])
           Steps(n, g) ==
             g = [i \in 0 .. n |-> IF i = 0 THEN b ELSE After(g[i - 1], i)]
           T == {n \in Nat : \A g : ~Steps(n, g)}
<1> HIDE DEF b, After
<1>1. 0 \notin T
  <2>1. Steps(0, [i \in 0 .. 0 |-> b])
    OBVIOUS
  <2> QED
    BY <2>1
<1>2. ASSUME NEW n \in Nat, n \notin T PROVE n + 1 \notin T
  <2>1. PICK g : Steps(n, g)
    BY <1>2
  <2> DEFINE h == [i \in 0 .. n + 1 |-> IF i = n + 1 THEN After(g[n], n + 1) ELSE g[i]]
             k == [i \in 0 .. n + 1 |-> IF i = 0 THEN b ELSE After(h[i - 1], i)]
  <2>2. \A i \in 0 .. n : g[i] = IF i = 0 THEN b ELSE After(g[i - 1], i)
    BY <2>1
  <2>3. \A i \in 0 .. n + 1 : h[i] = k[i]
    <3> SUFFICES ASSUME NEW i \in 0 .. n + 1 PROVE h[i] = k[i]
      OBVIOUS
    <3>1. CASE i = n + 1
      <4>1. h[i] = After(g[n], n + 1) /\ h[n] = g[n]
        BY <3>1
      <4>2. k[i] = After(h[n], n + 1)
        BY <3>1
      <4> QED
        BY <4>1, <4>2
    <3>2. CASE i # n + 1 /\ i # 0
      <4>1. i \in 0 .. n /\ i - 1 \in 0 .. n
        BY <3>2
      <4>2. h[i] = g[i] /\ h[i - 1] = g[i - 1] /\ k[i] = After(h[i - 1], i)
        BY <3>2, <4>1
      <4> QED
        BY <2>2, <3>2, <4>1, <4>2
    <3>3. CASE i = 0
      BY <2>2, <3>3
    <3> QED
      BY <3>1, <3>2, <3>3
  <2>4. h = k
    BY <2>3
  <2>5. Steps(n + 1, h)
    BY <2>4
  <2> QED
    BY <2>5
<1>3. T = {}
  BY <1>1, <1>2, FirstFailure
<1>4. \E g : Steps(Len(txs), g)
  <2>1. Len(txs) \in Nat
    OBVIOUS
  <2> QED
    BY <1>3, <2>1
<1> DEFINE f == Recheck(a, block, txs)
<1>5. f = CHOOSE g : Steps(Len(txs), g)
  BY DEF Recheck, b, After, RecheckTx
<1>6. Steps(Len(txs), f)
  BY <1>4, <1>5
<1> HIDE DEF f
<1>7. \A n \in 0 .. Len(txs) : f[n] = IF n = 0 THEN b ELSE After(f[n - 1], n)
  BY <1>6
<1>8. Len(txs) \in Nat
  OBVIOUS
<1>9. f[0] = b /\ \A n \in 1 .. Len(txs) : f[n] = After(f[n - 1], n)
  BY <1>7, <1>8
<1> QED
  BY <1>9 DEF f, b, After

(* A recheck leaves a mempool that CheckTx has let through, and the app as *)
(* it was otherwise.                                                       *)
Rechecked(a, r) ==
    /\ IsApp(r.app)
    /\ r.app.Applied = a.Applied /\ r.app.Keypers = a.Keypers
    /\ r.app.NonceTracker = a.NonceTracker
    /\ r.app.LastBlockHeight = a.LastBlockHeight
    /\ PoolOK(r.app, r.mempool)
    /\ Fresh(r.app, r.mempool)

LEMMA RecheckOK ==
    ASSUME NEW a, IsApp(a), PoolOK(a, <<>>), NEW block, NEW txs \in Seq(Tx)
    PROVE  Rechecked(a, Recheck(a, block, txs)[Len(txs)])
<1> DEFINE f == Recheck(a, block, txs)
           T == {n \in Nat : n <= Len(txs) /\ ~Rechecked(a, f[n])}
<1>1. /\ f[0] = [app |-> a, mempool |-> <<>>]
      /\ \A n \in 1 .. Len(txs) : f[n] = RecheckTx(f[n - 1], block, txs[n])
  BY RecheckIs
<1> HIDE DEF f
<1>2. Fresh(a, <<>>)
  BY DEF Fresh
<1>3. 0 \notin T
  BY <1>1, <1>2 DEF Rechecked
<1>4. ASSUME NEW n \in Nat, n \notin T PROVE n + 1 \notin T
  <2> SUFFICES ASSUME n + 1 <= Len(txs) PROVE Rechecked(a, f[n + 1])
    OBVIOUS
  <2> DEFINE r  == f[n]
             tx == txs[n + 1]
             c  == [app |-> CheckTx(r.app, tx), mempool |-> Append(r.mempool, tx)]
  <2>1. Rechecked(a, r) /\ n + 1 \in 1 .. Len(txs) /\ (n + 1) - 1 = n /\ tx \in Tx
    BY <1>4
  <2>2. f[n + 1] = RecheckTx(r, block, tx)
    BY <1>1, <2>1
  <2> HIDE DEF r, tx
  <2>3. CASE f[n + 1] = r
    BY <2>1, <2>3
  <2>4. CASE PassesCheckTx(r.app, tx) /\ f[n + 1] = c
    <3> DEFINE b == r.app
               p == r.mempool
    <3>1. IsApp(b) /\ PoolOK(b, p) /\ Fresh(b, p)
      BY <2>1 DEF Rechecked
    <3>2. /\ IsApp(CheckTx(b, tx))
          /\ CheckTx(b, tx).Applied = b.Applied /\ CheckTx(b, tx).Keypers = b.Keypers
          /\ CheckTx(b, tx).NonceTracker = b.NonceTracker
          /\ CheckTx(b, tx).LastBlockHeight = b.LastBlockHeight
          /\ PoolOK(CheckTx(b, tx), Append(p, tx))
          /\ Fresh(CheckTx(b, tx), Append(p, tx))
      BY <2>1, <2>4, <3>1, CheckedTx
    <3>3. c.app = CheckTx(b, tx) /\ c.mempool = Append(p, tx)
      OBVIOUS
    <3> QED
      BY <2>1, <2>4, <3>2, <3>3 DEF Rechecked
  <2> QED
    BY <2>2, <2>3, <2>4 DEF RecheckTx
<1>5. T = {}
  <2> HIDE DEF T
  <2>1. T \in SUBSET Nat
    BY DEF T
  <2> QED
    BY <1>3, <1>4, <2>1, FirstFailure
<1>6. Len(txs) \in Nat
  OBVIOUS
<1> QED
  BY <1>5, <1>6 DEF f
-----------------------------------------------------------------------------
(* The node.                                                               *)

ExecOK ==
    /\ blocks \in Seq(Seq(Tx))
    /\ exec \in [pc : {"ready", "deliver", "commit"}, height : Nat, i : Nat,
                 replay : BOOLEAN]
    /\ exec.pc # "ready" => exec.height \in 1 .. Len(blocks)
    /\ exec.pc = "deliver" => exec.i <= Len(blocks[exec.height])
    /\ exec.pc = "commit" => app.LastBlockHeight = exec.height

(* The app is what the blocks make it, up to the last transaction that was *)
(* delivered,                                                              *)
AppFollows ==
    /\ exec.pc = "ready" => Same(app, AppAt(Len(blocks)))
    /\ exec.pc = "deliver" =>
         Same(app, Executed(AppAt(exec.height - 1), blocks[exec.height])[exec.i])
    /\ exec.pc = "commit" => Same(app, AppAt(exec.height))

(* and the file is an app after a block, with nothing in the mempool.      *)
FileOK ==
    gob # NoFile =>
      /\ gob.LastBlockHeight \in 0 .. Len(blocks)
      /\ Same(gob, AppAt(gob.LastBlockHeight))
      /\ PoolOK(gob, <<>>)

MempoolOK ==
    /\ PoolOK(app, mempool)
    /\ exec.pc = "ready" => Fresh(app, mempool)

NodeInv == ExecOK /\ AppFollows /\ FileOK /\ MempoolOK

LEMMA SameSame ==
    ASSUME NEW a, NEW b, Same(a, b), NEW c, IsApp(c),
           c.Applied = a.Applied, c.Keypers = a.Keypers, c.NonceTracker = a.NonceTracker
    PROVE  Same(c, b)
BY DEF Same, SameState, IsApp

LEMMA EmptyPool ==
    ASSUME NEW a, a.CheckTxState.TxCounts = [s \in Sender |-> 0]
    PROVE  PoolOK(a, <<>>)
<1>1. \A s : SentBy(<<>>, s) = {}
  BY DEF SentBy
<1>2. a.CheckTxState.TxCounts \in [Sender -> 0 .. MaxTxsPerBlock]
  BY BoundsAssumption
<1>3. \A s \in Sender : Cardinality(SentBy(<<>>, s)) <= a.CheckTxState.TxCounts[s]
  BY <1>1, FS_EmptySet
<1> QED
  BY <1>2, <1>3 DEF PoolOK

LEMMA CommitResetIs ==
    ASSUME NEW a, IsApp(a)
    PROVE  LET c == CommitReset(a)
           IN  /\ IsApp(c)
               /\ c.Applied = a.Applied /\ c.Keypers = a.Keypers
               /\ c.NonceTracker = a.NonceTracker
               /\ c.LastBlockHeight = a.LastBlockHeight
               /\ PoolOK(c, <<>>)
<1> DEFINE c  == CommitReset(a)
           st == a.CheckTxState
           z  == [s \in Sender |-> 0]
           n  == st.NonceTracker
           t  == st.TxCounts
<1>1. st = [Members |-> a.Keypers, TxCounts |-> t, NonceTracker |-> n]
  BY DEF IsApp
<1>2. /\ DOMAIN c = AppFields
      /\ c.Applied = a.Applied /\ c.Keypers = a.Keypers
      /\ c.NonceTracker = a.NonceTracker
      /\ c.LastBlockHeight = a.LastBlockHeight
      /\ c.CheckTxState = Reset(st)
  BY DEF CommitReset, IsApp, AppFields
<1> HIDE DEF c, t, n, st
<1>3. Reset(st) = [st EXCEPT !.TxCounts = z, !.NonceTracker = {}]
  BY DEF Reset
<1> HIDE DEF z
<1>4. Reset(st) = [Members |-> a.Keypers, TxCounts |-> z, NonceTracker |-> {}]
  BY <1>1, <1>3
<1>5. IsApp(c)
  BY <1>2, <1>4 DEF IsApp, st
<1>6. PoolOK(c, <<>>)
  BY <1>2, <1>4, EmptyPool DEF z
<1> QED
  BY <1>2, <1>5, <1>6 DEF c

(* A block is about to be delivered to an app that the ones before made.   *)
LEMMA BeforeBlock ==
    ASSUME NEW chain \in Seq(Seq(Tx)), NEW h \in Nat, h < Len(chain),
           NEW a, Same(a, AppAfter(chain)[h])
    PROVE  Same(a, Executed(AppAfter(chain)[(h + 1) - 1], chain[h + 1])[0])
<1>1. (h + 1) - 1 = h /\ chain[h + 1] \in Seq(Tx)
  OBVIOUS
<1>2. \A b : Executed(b, chain[h + 1])[0] = b
  BY <1>1, ExecutedIs
<1> QED
  BY <1>1, <1>2

LEMMA AfterBlock ==
    ASSUME blocks \in Seq(Seq(Tx)), NEW h \in 1 .. Len(blocks)
    PROVE  AppAt(h) = Executed(AppAt(h - 1), blocks[h])[Len(blocks[h])]
BY AppAfterIs DEF AppAt

LEMMA InitNodeInv == NodeInit => NodeInv
<1> SUFFICES ASSUME NodeInit PROVE NodeInv
  OBVIOUS
<1> DEFINE a == InitChain(NewShielderApp)
<1>1. /\ blocks = <<>> /\ app = a /\ gob = NoFile /\ mempool = <<>> /\ exec = Ready
  BY DEF NodeInit
<1>2. IsApp(a) /\ PoolOK(a, <<>>)
  BY NewAppIs, EmptyPool
<1>3. blocks \in Seq(Seq(Tx)) /\ Len(blocks) = 0
  BY <1>1
<1>4. AppAt(0) = a
  BY <1>3, AppAfterIs DEF AppAt
<1> HIDE DEF a
<1>5. Same(a, a)
  BY <1>2 DEF Same, SameState
<1>6. exec = [pc |-> "ready", height |-> 0, i |-> 0, replay |-> FALSE]
  BY <1>1 DEF Ready
<1>7. ExecOK
  BY <1>3, <1>6 DEF ExecOK
<1>8. AppFollows
  BY <1>1, <1>3, <1>4, <1>5, <1>6 DEF AppFollows
<1>9. FileOK
  BY <1>1 DEF FileOK
<1>10. MempoolOK
  BY <1>1, <1>2 DEF MempoolOK, Fresh
<1> QED
  BY <1>7, <1>8, <1>9, <1>10 DEF NodeInv

LEMMA ReceiveTxInv ==
    ASSUME NodeInv, NEW tx \in Tx, ReceiveTx(tx)
    PROVE  NodeInv'
<1> DEFINE c == CheckTx(app, tx)
<1>1. /\ app' = c /\ mempool' = Append(mempool, tx) /\ UNCHANGED <<blocks, gob, exec>>
      /\ PassesCheckTx(app, tx)
  BY DEF ReceiveTx
<1>2. IsApp(app) /\ PoolOK(app, mempool)
  BY DEF NodeInv, ExecOK, AppFollows, MempoolOK, Same
<1>3. /\ IsApp(c)
      /\ c.Applied = app.Applied /\ c.Keypers = app.Keypers
      /\ c.NonceTracker = app.NonceTracker
      /\ c.LastBlockHeight = app.LastBlockHeight
      /\ PoolOK(c, Append(mempool, tx))
      /\ Fresh(app, mempool) => Fresh(c, Append(mempool, tx))
  BY <1>1, <1>2, CheckedTx
<1> HIDE DEF c
<1>4. \A h : AppAt(h)' = AppAt(h)
  BY <1>1 DEF AppAt
<1>5. \A b : Same(app, b) => Same(c, b)
  BY <1>3, SameSame
<1>6. ExecOK'
  BY <1>1, <1>3 DEF NodeInv, ExecOK
<1>7. AppFollows'
  BY <1>1, <1>4, <1>5 DEF NodeInv, AppFollows, AppAt
<1>8. FileOK'
  BY <1>1 DEF NodeInv, FileOK, AppAt
<1>9. MempoolOK'
  BY <1>1, <1>3 DEF NodeInv, MempoolOK
<1> QED
  BY <1>6, <1>7, <1>8, <1>9 DEF NodeInv

LEMMA NewBlockInv ==
    ASSUME NodeInv, NEW block \in Seq(Tx), NewBlock(block)
    PROVE  NodeInv'
<1>1. /\ blocks' = Append(blocks, block) /\ exec = Ready
      /\ exec' = Execute(Len(blocks) + 1, FALSE) /\ UNCHANGED <<app, gob, mempool>>
  BY DEF NewBlock
<1>2. blocks \in Seq(Seq(Tx)) /\ Len(blocks) \in Nat /\ exec.pc = "ready"
  BY <1>1 DEF NodeInv, ExecOK, Ready
<1>3. /\ blocks' \in Seq(Seq(Tx)) /\ Len(blocks') = Len(blocks) + 1
      /\ Len(blocks) < Len(blocks')
  BY <1>1, <1>2
<1>4. \A h \in 0 .. Len(blocks) : AppAfter(blocks')[h] = AppAfter(blocks)[h]
  BY <1>1, <1>2, AppAfterAppend
<1>5. /\ exec' = [pc |-> "deliver", height |-> Len(blocks) + 1, i |-> 0, replay |-> FALSE]
      /\ exec'.pc = "deliver" /\ exec'.height = Len(blocks) + 1 /\ exec'.i = 0
  BY <1>1 DEF Execute
<1>6. ExecOK'
  <2>1. blocks'[Len(blocks) + 1] \in Seq(Tx)
    BY <1>2, <1>3
  <2>2. 0 <= Len(blocks'[Len(blocks) + 1])
    BY <2>1
  <2> QED
    BY <1>2, <1>3, <1>5, <2>2 DEF ExecOK
<1>7. AppFollows'
  <2>1. PICK n \in Nat : n = Len(blocks)
    BY <1>2
  <2>2. Same(app, AppAfter(blocks)[n])
    BY <1>2, <2>1 DEF NodeInv, AppFollows, AppAt
  <2>3. Same(app, AppAfter(blocks')[n])
    BY <1>4, <2>1, <2>2
  <2>4. Same(app, Executed(AppAfter(blocks')[(n + 1) - 1], blocks'[n + 1])[0])
    BY <1>3, <2>1, <2>3, BeforeBlock
  <2> QED
    BY <1>1, <1>5, <2>1, <2>4 DEF AppFollows, AppAt
<1>8. FileOK'
  <2> SUFFICES ASSUME gob # NoFile
               PROVE  /\ gob.LastBlockHeight \in 0 .. Len(blocks')
                      /\ Same(gob, AppAfter(blocks')[gob.LastBlockHeight])
                      /\ PoolOK(gob, <<>>)
    BY <1>1 DEF FileOK, AppAt
  <2>1. /\ gob.LastBlockHeight \in 0 .. Len(blocks)
        /\ Same(gob, AppAfter(blocks)[gob.LastBlockHeight])
        /\ PoolOK(gob, <<>>)
    BY DEF NodeInv, FileOK, AppAt
  <2> QED
    BY <1>2, <1>3, <1>4, <2>1
<1>9. MempoolOK'
  <2>1. PoolOK(app', mempool')
    BY <1>1 DEF NodeInv, MempoolOK
  <2> QED
    BY <1>5, <2>1 DEF MempoolOK
<1> QED
  BY <1>6, <1>7, <1>8, <1>9 DEF NodeInv

LEMMA DeliverInv ==
    ASSUME NodeInv, Deliver
    PROVE  NodeInv'
<1> DEFINE h  == exec.height
           i  == exec.i
           tx == blocks[h][i + 1]
           d  == DeliverTx(app, tx)
           x  == Executed(AppAt(h - 1), blocks[h])
<1>1. /\ exec.pc = "deliver" /\ i < Len(blocks[h]) /\ app' = d
      /\ exec' = [exec EXCEPT !.i = @ + 1]
      /\ UNCHANGED <<blocks, gob, mempool>>
  BY DEF Deliver
<1>2. /\ blocks \in Seq(Seq(Tx)) /\ h \in 1 .. Len(blocks) /\ i \in Nat
      /\ blocks[h] \in Seq(Tx)
  BY <1>1 DEF NodeInv, ExecOK
<1>3. exec' \in [pc : {"ready", "deliver", "commit"}, height : Nat, i : Nat,
                 replay : BOOLEAN]
      /\ exec'.pc = "deliver" /\ exec'.height = h /\ exec'.i = i + 1
  <2>1. exec \in [pc : {"ready", "deliver", "commit"}, height : Nat, i : Nat,
                  replay : BOOLEAN]
    BY DEF NodeInv, ExecOK
  <2>2. exec.pc = "deliver" /\ exec' = [exec EXCEPT !.i = @ + 1]
    BY <1>1
  <2> QED
    BY <2>1, <2>2
<1>4. Same(app, x[i]) /\ IsApp(app) /\ PoolOK(app, mempool)
  BY <1>1 DEF NodeInv, AppFollows, MempoolOK, Same
<1>5. x[i + 1] = DeliverTx(x[i], tx)
  <2> DEFINE a == AppAt(h - 1)
             txs == blocks[h]
  <2>1. i + 1 \in 1 .. Len(txs) /\ (i + 1) - 1 = i /\ txs \in Seq(Tx)
    <3>1. i < Len(txs) /\ i \in Nat /\ txs \in Seq(Tx)
      BY <1>1, <1>2
    <3> HIDE DEF i, txs
    <3> QED
      BY <3>1
  <2> HIDE DEF a, txs
  <2>2. Executed(a, txs)[i + 1] = DeliverTx(Executed(a, txs)[(i + 1) - 1], txs[i + 1])
    BY <2>1, ExecutedIs
  <2> QED
    BY <2>1, <2>2 DEF a, txs
<1>6. Same(d, x[i + 1])
  BY <1>4, <1>5, SameAfterDeliverTx
<1>7. /\ d.CheckTxState.TxCounts = app.CheckTxState.TxCounts
      /\ d.CheckTxState.NonceTracker = app.CheckTxState.NonceTracker
      /\ app.Keypers \subseteq d.Keypers
  BY <1>4, DeliverTxFields
<1> HIDE DEF d, tx
<1>8. PoolOK(d, mempool)
  BY <1>4, <1>7 DEF PoolOK
<1>9. ExecOK'
  BY <1>1, <1>2, <1>3 DEF ExecOK
<1>10. AppFollows'
  BY <1>1, <1>3, <1>6 DEF AppFollows, AppAt
<1>11. FileOK'
  BY <1>1 DEF NodeInv, FileOK, AppAt
<1>12. MempoolOK'
  BY <1>1, <1>3, <1>8 DEF MempoolOK
<1> QED
  BY <1>9, <1>10, <1>11, <1>12 DEF NodeInv

LEMMA EndTheBlockInv ==
    ASSUME NodeInv, EndTheBlock
    PROVE  NodeInv'
<1> DEFINE h == exec.height
           d == EndBlock(app, h)
<1>1. /\ exec.pc = "deliver" /\ exec.i = Len(blocks[h]) /\ app' = d
      /\ exec' = [exec EXCEPT !.pc = "commit"]
      /\ UNCHANGED <<blocks, gob, mempool>>
  BY DEF EndTheBlock
<1>2. blocks \in Seq(Seq(Tx)) /\ h \in 1 .. Len(blocks)
  BY <1>1 DEF NodeInv, ExecOK
<1>3. exec' \in [pc : {"ready", "deliver", "commit"}, height : Nat, i : Nat,
                 replay : BOOLEAN]
      /\ exec'.pc = "commit" /\ exec'.height = h
  <2>1. exec \in [pc : {"ready", "deliver", "commit"}, height : Nat, i : Nat,
                  replay : BOOLEAN]
    BY DEF NodeInv, ExecOK
  <2>2. exec' = [exec EXCEPT !.pc = "commit"]
    BY <1>1
  <2> QED
    BY <2>1, <2>2
<1>4. Same(app, AppAt(h)) /\ IsApp(app) /\ PoolOK(app, mempool)
  <2>1. Same(app, Executed(AppAt(h - 1), blocks[h])[Len(blocks[h])])
    BY <1>1 DEF NodeInv, AppFollows
  <2> QED
    BY <1>2, <2>1, AfterBlock DEF NodeInv, MempoolOK, Same
<1>5. /\ IsApp(d) /\ d.LastBlockHeight = h
      /\ d.Applied = app.Applied /\ d.Keypers = app.Keypers
      /\ d.NonceTracker = app.NonceTracker
      /\ d.CheckTxState = app.CheckTxState
  BY <1>4 DEF EndBlock, IsApp, AppFields
<1> HIDE DEF d
<1>6. Same(d, AppAt(h))
  BY <1>4, <1>5, SameSame
<1>7. PoolOK(d, mempool)
  BY <1>4, <1>5 DEF PoolOK
<1>8. ExecOK'
  BY <1>1, <1>2, <1>3, <1>5 DEF ExecOK
<1>9. AppFollows'
  BY <1>1, <1>3, <1>6 DEF AppFollows, AppAt
<1>10. FileOK'
  BY <1>1 DEF NodeInv, FileOK, AppAt
<1>11. MempoolOK'
  BY <1>1, <1>3, <1>7 DEF MempoolOK
<1> QED
  BY <1>8, <1>9, <1>10, <1>11 DEF NodeInv

(* The next block, if there is one, is executed.                           *)
LEMMA NextOrReady ==
    ASSUME blocks \in Seq(Seq(Tx)), UNCHANGED blocks, NEW h \in 0 .. Len(blocks),
           NEW replay \in BOOLEAN, Same(app', AppAt(h)),
           exec' = IF h = Len(blocks) THEN Ready ELSE Execute(h + 1, replay)
    PROVE  /\ ExecOK' /\ AppFollows'
           /\ exec'.pc # "commit"
<1>1. blocks' = blocks /\ Len(blocks) \in Nat /\ h \in Nat
  OBVIOUS
<1>2. CASE h = Len(blocks)
  <2>1. exec' = [pc |-> "ready", height |-> 0, i |-> 0, replay |-> FALSE]
    BY <1>2 DEF Ready
  <2>2. exec'.pc = "ready"
    BY <2>1
  <2>3. ExecOK'
    <3>1. exec' \in [pc : {"ready", "deliver", "commit"}, height : Nat, i : Nat,
                     replay : BOOLEAN]
      <4>1. [pc |-> "ready", height |-> 0, i |-> 0, replay |-> FALSE]
              \in [pc : {"ready", "deliver", "commit"}, height : Nat, i : Nat,
                   replay : BOOLEAN]
        OBVIOUS
      <4> QED
        BY <2>1, <4>1, Zenon
    <3> QED
      BY <1>1, <2>2, <3>1 DEF ExecOK
  <2>4. AppFollows'
    BY <1>1, <1>2, <2>2 DEF AppFollows, AppAt
  <2> QED
    BY <2>2, <2>3, <2>4
<1>3. CASE h # Len(blocks)
  <2>1. /\ exec' = [pc |-> "deliver", height |-> h + 1, i |-> 0, replay |-> replay]
        /\ h < Len(blocks)
    BY <1>1, <1>3 DEF Execute
  <2>2. exec'.pc = "deliver" /\ exec'.height = h + 1 /\ exec'.i = 0
    BY <2>1
  <2>3. h + 1 \in 1 .. Len(blocks) /\ blocks[h + 1] \in Seq(Tx)
    BY <1>1, <2>1
  <2>4. 0 <= Len(blocks[h + 1])
    BY <2>3
  <2>5. ExecOK'
    BY <1>1, <2>1, <2>3, <2>4 DEF ExecOK
  <2>6. Same(app', Executed(AppAfter(blocks)[(h + 1) - 1], blocks[h + 1])[0])
    BY <1>1, <2>1, BeforeBlock DEF AppAt
  <2>7. AppFollows'
    BY <1>1, <2>2, <2>6 DEF AppFollows, AppAt
  <2> QED
    BY <2>2, <2>5, <2>7
<1> QED
  BY <1>2, <1>3

LEMMA CommitInv ==
    ASSUME NodeInv, NEW persist \in BOOLEAN, Commit(persist)
    PROVE  NodeInv'
<1> DEFINE h == exec.height
           c == CommitReset(app)
           r == Recheck(c, blocks[h], mempool)[Len(mempool)]
<1>1. /\ exec.pc = "commit"
      /\ gob' = IF persist THEN c ELSE gob
      /\ app' = r.app /\ mempool' = r.mempool
      /\ exec' = IF h = Len(blocks) THEN Ready ELSE Execute(h + 1, exec.replay)
      /\ UNCHANGED blocks
  BY DEF Commit
<1>2. /\ blocks \in Seq(Seq(Tx)) /\ h \in 1 .. Len(blocks) /\ exec.replay \in BOOLEAN
      /\ app.LastBlockHeight = h
  BY <1>1 DEF NodeInv, ExecOK
<1>3. Same(app, AppAt(h)) /\ IsApp(app) /\ mempool \in Seq(Tx)
  BY <1>1 DEF NodeInv, AppFollows, MempoolOK, PoolOK, Same
<1>4. /\ IsApp(c)
      /\ c.Applied = app.Applied /\ c.Keypers = app.Keypers
      /\ c.NonceTracker = app.NonceTracker
      /\ c.LastBlockHeight = app.LastBlockHeight
      /\ PoolOK(c, <<>>)
  BY <1>3, CommitResetIs
<1> HIDE DEF c
<1>5. Rechecked(c, r)
  BY <1>3, <1>4, RecheckOK
<1> HIDE DEF r, h
<1>6. Same(c, AppAt(h)) /\ Same(r.app, AppAt(h))
  <2>1. Same(c, AppAt(h))
    BY <1>3, <1>4, SameSame
  <2> QED
    BY <1>5, <2>1, SameSame DEF Rechecked
<1>7. ExecOK' /\ AppFollows'
  BY <1>1, <1>2, <1>6, NextOrReady
<1>8. FileOK'
  <2>1. CASE persist
    BY <1>1, <1>2, <1>4, <1>6, <2>1 DEF FileOK, AppAt
  <2>2. CASE ~persist
    BY <1>1, <2>2 DEF NodeInv, FileOK, AppAt
  <2> QED
    BY <2>1, <2>2
<1>9. MempoolOK'
  BY <1>1, <1>5 DEF MempoolOK, Rechecked
<1> QED
  BY <1>7, <1>8, <1>9 DEF NodeInv

LEMMA CrashAndRestartInv ==
    ASSUME NodeInv, CrashAndRestart
    PROVE  NodeInv'
<1> DEFINE a == LoadShielderAppFromFile(gob)
           h == a.LastBlockHeight
<1>1. /\ app' = a /\ mempool' = <<>>
      /\ exec' = IF h = Len(blocks) THEN Ready ELSE Execute(h + 1, TRUE)
      /\ UNCHANGED <<blocks, gob>>
  BY DEF CrashAndRestart
<1>2. blocks \in Seq(Seq(Tx)) /\ Len(blocks) \in Nat
  BY DEF NodeInv, ExecOK
<1>3. h \in 0 .. Len(blocks) /\ Same(a, AppAt(h)) /\ PoolOK(a, <<>>)
  <2>1. CASE gob = NoFile
    <3>1. a = InitChain(NewShielderApp)
      BY <2>1 DEF LoadShielderAppFromFile
    <3>2. IsApp(a) /\ h = 0 /\ PoolOK(a, <<>>)
      BY <3>1, NewAppIs, EmptyPool
    <3>3. AppAt(0) = a
      BY <1>2, <3>1, AppAfterIs DEF AppAt
    <3> HIDE DEF a
    <3>4. Same(a, a)
      BY <3>2 DEF Same, SameState
    <3> QED
      BY <1>2, <3>2, <3>3, <3>4
  <2>2. CASE gob # NoFile
    <3>1. a = gob
      BY <2>2 DEF LoadShielderAppFromFile
    <3> QED
      BY <2>2, <3>1 DEF NodeInv, FileOK
  <2> QED
    BY <2>1, <2>2
<1> HIDE DEF a
<1>4. ExecOK' /\ AppFollows'
  <2>1. PICK n \in 0 .. Len(blocks) : n = h
    BY <1>3
  <2>2. Same(app', AppAt(n)) /\ UNCHANGED blocks
        /\ exec' = IF n = Len(blocks) THEN Ready ELSE Execute(n + 1, TRUE)
    BY <1>1, <1>3, <2>1
  <2> QED
    BY <1>2, <2>2, NextOrReady
<1>5. FileOK'
  BY <1>1 DEF NodeInv, FileOK, AppAt
<1>6. MempoolOK'
  BY <1>1, <1>3 DEF MempoolOK, Fresh
<1> QED
  BY <1>4, <1>5, <1>6 DEF NodeInv

LEMMA NextNodeInv == NodeInv /\ [NodeNext]_nodeVars => NodeInv'
<1> SUFFICES ASSUME NodeInv, [NodeNext]_nodeVars PROVE NodeInv'
  OBVIOUS
<1>1. ASSUME NEW tx \in Tx, ReceiveTx(tx)
      PROVE  NodeInv'
  BY <1>1, ReceiveTxInv
<1>2. ASSUME NEW block \in Proposed, NewBlock(block)
      PROVE  NodeInv'
  <2>1. mempool \in Seq(Tx)
    BY DEF NodeInv, MempoolOK, PoolOK
  <2>2. \A n \in 1 .. Len(mempool) : SubSeq(mempool, 1, n) \in Seq(Tx)
    BY <2>1
  <2>3. block \in Seq(Tx)
    BY <2>2, ProposalsAssumption DEF Proposed
  <2> QED
    BY <1>2, <2>3, NewBlockInv
<1>3. CASE Deliver
  BY <1>3, DeliverInv
<1>4. CASE EndTheBlock
  BY <1>4, EndTheBlockInv
<1>5. ASSUME NEW persist \in BOOLEAN, Commit(persist)
      PROVE  NodeInv'
  BY <1>5, CommitInv
<1>6. CASE CrashAndRestart
  BY <1>6, CrashAndRestartInv
<1>7. CASE UNCHANGED nodeVars
  BY <1>7 DEF nodeVars, NodeInv, ExecOK, AppFollows, FileOK, MempoolOK, AppAt
<1> QED
  BY <1>1, <1>2, <1>3, <1>4, <1>5, <1>6, <1>7 DEF NodeNext

LEMMA NodeSpecInv == NodeSpec => []NodeInv
BY InitNodeInv, NextNodeInv, PTL DEF NodeSpec

(* After every block the app, and the one in the file, is what the blocks  *)
(* up to there make it, wherever the node crashed and however old the file *)
(* was: Commit, LoadShielderAppFromFile and Info (app/app.go).             *)
THEOREM EveryNodeFollowsTheChain == NodeSpec => []AppFollowsChain
<1>1. NodeInv => AppFollowsChain
  BY DEF NodeInv, AppFollows, FileOK, AppFollowsChain, Same
<1> QED
  BY <1>1, NodeSpecInv, PTL

(* What a node that waits for the next block has in its mempool, and may   *)
(* propose, is new, from keypers and within the limit per keyper: CheckTx  *)
(* (app/app.go) and AddTx (app/checktx.go).                                *)
THEOREM MempoolStaysWithinLimits == NodeSpec => []MempoolWithinLimits
<1>1. NodeInv => MempoolWithinLimits
  <2> SUFFICES ASSUME NodeInv, exec.pc = "ready"
               PROVE  /\ \A i \in DOMAIN mempool :
                           /\ mempool[i].Sender \in app.Keypers
                           /\ Id(mempool[i]) \notin app.NonceTracker
                           /\ \A j \in DOMAIN mempool :
                                Id(mempool[i]) = Id(mempool[j]) => i = j
                      /\ \A s \in Sender :
                           Cardinality({i \in DOMAIN mempool : mempool[i].Sender = s})
                             <= MaxTxsPerBlock
    BY DEF MempoolWithinLimits
  <2>1. PoolOK(app, mempool) /\ Fresh(app, mempool)
    BY DEF NodeInv, MempoolOK
  <2>2. ASSUME NEW s \in Sender
        PROVE  Cardinality({i \in DOMAIN mempool : mempool[i].Sender = s})
                 <= MaxTxsPerBlock
    <3> DEFINE n == Cardinality(SentBy(mempool, s))
               m == app.CheckTxState.TxCounts[s]
    <3>1. n \in Nat /\ n <= m /\ m \in 0 .. MaxTxsPerBlock
      BY <2>1, SentByFinite DEF PoolOK
    <3>2. n <= MaxTxsPerBlock
      <4> HIDE DEF n, m
      <4> QED
        BY <3>1, BoundsAssumption
    <3> QED
      BY <3>2 DEF SentBy
  <2> QED
    BY <2>1, <2>2 DEF PoolOK, Fresh
<1> QED
  BY <1>1, NodeSpecInv, PTL

-----------------------------------------------------------------------------
(* What was applied.                                                       *)

(* What was applied, at most once each, has a nonce that is remembered.    *)
NoncesRemembered(a) ==
    /\ a.Applied \in Seq({a.Applied[i] : i \in DOMAIN a.Applied})
    /\ \A i \in DOMAIN a.Applied : Id(a.Applied[i]) \in a.NonceTracker
    /\ \A i, j \in DOMAIN a.Applied :
          Id(a.Applied[i]) = Id(a.Applied[j]) => i = j

(* So it is for the app in memory and the one in the file.                 *)
AppliedInv ==
    /\ NoncesRemembered(app)
    /\ gob # NoFile => NoncesRemembered(gob)

(* A sequence keeps its elements when one is appended.                     *)
LEMMA AppendElements ==
    ASSUME NEW s, s \in Seq({s[i] : i \in DOMAIN s}), NEW e
    PROVE  LET t == Append(s, e)
           IN  /\ t \in Seq({t[i] : i \in DOMAIN t})
               /\ DOMAIN t = DOMAIN s \cup {Len(s) + 1}
               /\ Len(s) + 1 \notin DOMAIN s
               /\ \A i \in DOMAIN s : t[i] = s[i]
               /\ t[Len(s) + 1] = e
<1> DEFINE S == {s[i] : i \in DOMAIN s}
           t == Append(s, e)
<1>1. s \in Seq(S \cup {e}) /\ e \in S \cup {e} /\ DOMAIN s = 1 .. Len(s) /\ Len(s) \in Nat
  BY SMT
<1> HIDE DEF S
<1>2. /\ t \in Seq(S \cup {e}) /\ Len(t) = Len(s) + 1 /\ DOMAIN t = 1 .. Len(t)
      /\ \A i \in 1 .. Len(s) : t[i] = s[i]
      /\ t[Len(s) + 1] = e
  BY <1>1, SMT
<1>3. t \in [1 .. Len(t) -> {t[i] : i \in DOMAIN t}] /\ Len(t) \in Nat
  <2> HIDE DEF t
  <2>1. t = [i \in 1 .. Len(t) |-> t[i]]
    BY <1>2
  <2> QED
    BY <1>1, <1>2, <2>1
<1>4. t \in Seq({t[i] : i \in DOMAIN t})
  <2> HIDE DEF t
  <2> QED
    BY <1>3
<1> QED
  BY <1>1, <1>2, <1>4

(* Only the fields Applied and NonceTracker matter.                        *)
LEMMA OtherFields ==
    ASSUME NEW a, NoncesRemembered(a), NEW b,
           b.Applied = a.Applied, b.NonceTracker = a.NonceTracker
    PROVE  NoncesRemembered(b)
BY DEF NoncesRemembered

LEMMA NewAppRemembers == NoncesRemembered(InitChain(NewShielderApp))
<1> DEFINE a == InitChain(NewShielderApp)
<1>1. a.Applied = <<>>
  BY DEF InitChain, NewShielderApp, updateCheckTxMembers
<1> HIDE DEF a
<1>2. a.Applied \in Seq({a.Applied[i] : i \in DOMAIN a.Applied})
  BY <1>1
<1> QED
  BY <1>1, <1>2 DEF NoncesRemembered, a

(* A message is applied only with a nonce that is new, and remembered.     *)
LEMMA DeliverTxRemembers ==
    ASSUME NEW a, IsApp(a), NoncesRemembered(a), NEW tx
    PROVE  NoncesRemembered(DeliverTx(a, tx))
<1> DEFINE d == DeliverTx(a, tx)
           s == a.Applied
           t == d.Applied
<1>1. /\ \/ t = s
         \/ t = Append(s, tx) /\ Id(tx) \notin a.NonceTracker
      /\ d.NonceTracker = a.NonceTracker \cup {Id(tx)}
  BY DeliverTxFields
<1>2. /\ s \in Seq({s[i] : i \in DOMAIN s})
      /\ \A i \in DOMAIN s : Id(s[i]) \in a.NonceTracker
      /\ \A i, j \in DOMAIN s : Id(s[i]) = Id(s[j]) => i = j
  BY DEF NoncesRemembered
<1> HIDE DEF d
<1>3. CASE t = s
  BY <1>1, <1>2, <1>3 DEF NoncesRemembered, d
<1>4. CASE t = Append(s, tx) /\ Id(tx) \notin a.NonceTracker
  <2> HIDE DEF s, t
  <2>1. /\ t \in Seq({t[i] : i \in DOMAIN t})
        /\ DOMAIN t = DOMAIN s \cup {Len(s) + 1}
        /\ \A i \in DOMAIN s : t[i] = s[i]
        /\ t[Len(s) + 1] = tx
    BY <1>2, <1>4, AppendElements
  <2>2. \A i \in DOMAIN t : Id(t[i]) \in d.NonceTracker
    BY <1>1, <1>2, <2>1
  <2>3. \A i, j \in DOMAIN t : Id(t[i]) = Id(t[j]) => i = j
    BY <1>2, <1>4, <2>1
  <2> QED
    BY <2>1, <2>2, <2>3 DEF NoncesRemembered, d, t
<1> QED
  BY <1>1, <1>3, <1>4

LEMMA NextAppliedInv ==
    NodeInv /\ AppliedInv /\ [NodeNext]_nodeVars => AppliedInv'
<1> SUFFICES ASSUME NodeInv, AppliedInv, [NodeNext]_nodeVars
             PROVE  AppliedInv'
  OBVIOUS
<1>1. IsApp(app)
  BY DEF NodeInv, ExecOK, AppFollows, Same
<1>2. ASSUME NEW tx \in Tx, ReceiveTx(tx)
      PROVE  AppliedInv'
  <2>1. app'.Applied = app.Applied /\ app'.NonceTracker = app.NonceTracker
        /\ UNCHANGED gob
    BY <1>1, <1>2 DEF ReceiveTx, CheckTx, IsApp, AppFields
  <2> QED
    BY <2>1, OtherFields DEF AppliedInv
<1>3. ASSUME NEW b \in Proposed, NewBlock(b)
      PROVE  AppliedInv'
  BY <1>3 DEF NewBlock, AppliedInv
<1>4. CASE Deliver
  BY <1>1, <1>4, DeliverTxRemembers DEF Deliver, AppliedInv
<1>5. CASE EndTheBlock
  <2>1. app'.Applied = app.Applied /\ app'.NonceTracker = app.NonceTracker
        /\ UNCHANGED gob
    BY <1>1, <1>5 DEF EndTheBlock, EndBlock, IsApp, AppFields
  <2> QED
    BY <2>1, OtherFields DEF AppliedInv
<1>6. ASSUME NEW persist \in BOOLEAN, Commit(persist)
      PROVE  AppliedInv'
  <2> DEFINE c == CommitReset(app)
             r == Recheck(c, blocks[exec.height], mempool)[Len(mempool)]
  <2>1. app' = r.app /\ (gob' = c \/ gob' = gob)
    BY <1>6 DEF Commit
  <2>2. /\ IsApp(c) /\ PoolOK(c, <<>>)
        /\ c.Applied = app.Applied /\ c.NonceTracker = app.NonceTracker
    BY <1>1, CommitResetIs
  <2>3. mempool \in Seq(Tx)
    BY DEF NodeInv, MempoolOK, PoolOK
  <2> HIDE DEF c
  <2>4. r.app.Applied = c.Applied /\ r.app.NonceTracker = c.NonceTracker
    BY <2>2, <2>3, RecheckOK DEF Rechecked
  <2> HIDE DEF r
  <2>5. NoncesRemembered(c) /\ NoncesRemembered(app')
    BY <2>1, <2>2, <2>4, OtherFields DEF AppliedInv
  <2> QED
    BY <2>1, <2>5 DEF AppliedInv
<1>7. CASE CrashAndRestart
  <2>1. app' = LoadShielderAppFromFile(gob) /\ UNCHANGED gob
    BY <1>7 DEF CrashAndRestart
  <2> QED
    BY <2>1, NewAppRemembers DEF AppliedInv, LoadShielderAppFromFile
<1>8. CASE UNCHANGED nodeVars
  BY <1>8 DEF nodeVars, AppliedInv
<1> QED
  BY <1>2, <1>3, <1>4, <1>5, <1>6, <1>7, <1>8 DEF NodeNext

(* No keyper's message is applied twice, though a proposer may put it into *)
(* two blocks, a keyper may send it again and blocks are replayed from an  *)
(* old file: DeliverTx, Commit and LoadShielderAppFromFile (app/app.go).   *)
THEOREM EachAppliedOnce == NodeSpec => []AppliedOnce
<1>1. NodeInit => AppliedInv
  BY NewAppRemembers DEF NodeInit, AppliedInv
<1>2. AppliedInv => AppliedOnce
  BY DEF AppliedInv, NoncesRemembered, AppliedOnce
<1> QED
  BY <1>1, <1>2, NextAppliedInv, NodeSpecInv, PTL DEF NodeSpec

-----------------------------------------------------------------------------
(* What the node does while a keyper observes it, it may do anyway.        *)
LEMMA NodeStepOfObserver == NextOfNode => NodeNext
<1>1. CASE watched /\ (Deliver \/ EndTheBlock \/ Commit(FALSE))
  BY <1>1 DEF NodeNext
<1>2. ASSUME NEW block \in Proposals, NewBlock(block)
      PROVE  NodeNext
  BY <1>2 DEF NodeNext, Proposed
<1> QED
  BY <1>1, <1>2 DEF NextOfNode

(* A keyper that observes the node does not disturb it: SyncToHead, the    *)
(* filters and restarts of the keyper (keyper/keyper.go) only read what    *)
(* the node has executed, so its node is a node of ShielderNode.           *)
THEOREM ObserverDoesNotDisturb == Spec => NodeSpec
<1>1. Init => NodeInit
  BY DEF Init
<1>2. [Next]_vars => [NodeNext]_nodeVars
  <2> SUFFICES ASSUME [Next]_vars
               PROVE  [NodeNext]_nodeVars
    OBVIOUS
  <2>1. CASE NextOfNode
    BY <2>1, NodeStepOfObserver
  <2>2. CASE UNCHANGED nodeVars
    BY <2>2
  <2>3. CASE UNCHANGED vars
    BY <2>3 DEF vars, nodeVars
  <2> QED
    BY <2>1, <2>2, <2>3 DEF Next
<1> QED
  BY <1>1, <1>2, PTL DEF Spec, NodeSpec

(* So all this holds of a keyper's node, too: the app follows the chain    *)
(* (Commit, LoadShielderAppFromFile, app/app.go),                          *)
THEOREM FollowsTheChainObserved == Spec => []AppFollowsChain
BY EveryNodeFollowsTheChain, ObserverDoesNotDisturb, PTL

(* its mempool is within the limits (AddTx, app/checktx.go),               *)
THEOREM MempoolObserved == Spec => []MempoolWithinLimits
BY MempoolStaysWithinLimits, ObserverDoesNotDisturb, PTL

(* and nothing is applied twice (DeliverTx, app/app.go).                   *)
THEOREM EachAppliedOnceObserved == Spec => []AppliedOnce
BY EachAppliedOnce, ObserverDoesNotDisturb, PTL

-----------------------------------------------------------------------------
(* What an observer makes of the log: Since and FlattenSeq.                *)

(* What holds for the empty sequence, and for one with an element more,    *)
(* holds for all.                                                          *)
LEMMA SeqInduction ==
    ASSUME NEW X, NEW T \in SUBSET Seq(X), <<>> \in T,
           \A s \in T : \A e \in X : Append(s, e) \in T
    PROVE  \A s \in Seq(X) : s \in T
<1> DEFINE Failed == {n \in Nat : \E s \in Seq(X) : Len(s) = n /\ s \notin T}
<1>1. 0 \notin Failed
  <2>1. \A s \in Seq(X) : Len(s) = 0 => s = <<>>
    OBVIOUS
  <2> QED
    BY <2>1
<1>2. ASSUME NEW n \in Nat, n \notin Failed PROVE n + 1 \notin Failed
  <2> SUFFICES ASSUME NEW s \in Seq(X), Len(s) = n + 1 PROVE s \in T
    OBVIOUS
  <2> DEFINE t == [i \in 1 .. n |-> s[i]]
  <2>1. t \in Seq(X) /\ Len(t) = n /\ s[n + 1] \in X /\ \A i \in 1 .. n : t[i] = s[i]
    OBVIOUS
  <2>2. s = Append(t, s[n + 1])
    <3> HIDE DEF t
    <3> DEFINE u == Append(t, s[n + 1])
    <3>1. /\ u \in Seq(X) /\ Len(u) = n + 1
          /\ \A i \in 1 .. n + 1 : u[i] = s[i]
      BY <2>1
    <3> HIDE DEF u
    <3>2. u = s
      BY <3>1
    <3> QED
      BY <3>2 DEF u
  <2>3. t \in T
    BY <1>2, <2>1
  <2> HIDE DEF t
  <2> QED
    BY <2>1, <2>2, <2>3
<1>3. Failed = {}
  <2>1. Failed \in SUBSET Nat
    OBVIOUS
  <2> HIDE DEF Failed
  <2> QED
    BY <1>1, <1>2, <2>1, FirstFailure
<1> SUFFICES ASSUME NEW s \in Seq(X), s \notin T PROVE FALSE
  OBVIOUS
<1>4. Len(s) \in Failed
  OBVIOUS
<1> QED
  BY <1>3, <1>4

(* An event that Since keeps.                                              *)
Selects(e, height, msgs) == e.Height >= height /\ e.Msg.Msg \in msgs

(* Since, element by element.                                              *)
LEMMA SinceIs ==
    ASSUME NEW X, NEW s \in Seq(X), NEW height, NEW msgs
    PROVE  \E f :
             /\ Since(s, height, msgs) = f[Len(s)]
             /\ f[0] = <<>>
             /\ \A n \in 1 .. Len(s) :
                  f[n] = IF Selects(s[n], height, msgs)
                           THEN Append(f[n - 1], s[n]) ELSE f[n - 1]
<1> DEFINE After(r, n) == IF Selects(s[n], height, msgs) THEN Append(r, s[n]) ELSE r
           Steps(n, g) ==
             g = [i \in 0 .. n |-> IF i = 0 THEN <<>> ELSE After(g[i - 1], i)]
           T == {n \in Nat : \A g : ~Steps(n, g)}
<1> HIDE DEF After
<1>1. 0 \notin T
  <2> DEFINE g == [i \in 0 .. 0 |-> <<>>]
             k == [i \in 0 .. 0 |-> IF i = 0 THEN <<>> ELSE After(g[i - 1], i)]
  <2>1. \A i \in 0 .. 0 : g[i] = k[i]
    OBVIOUS
  <2>2. g = k
    BY <2>1
  <2>3. Steps(0, g)
    BY <2>2
  <2> QED
    BY <2>3
<1>2. ASSUME NEW n \in Nat, n \notin T PROVE n + 1 \notin T
  <2>1. PICK g : Steps(n, g)
    BY <1>2
  <2> DEFINE h == [i \in 0 .. n + 1 |-> IF i = n + 1 THEN After(g[n], n + 1) ELSE g[i]]
             k == [i \in 0 .. n + 1 |-> IF i = 0 THEN <<>> ELSE After(h[i - 1], i)]
  <2>2. \A i \in 0 .. n : g[i] = IF i = 0 THEN <<>> ELSE After(g[i - 1], i)
    BY <2>1
  <2>3. \A i \in 0 .. n + 1 : h[i] = k[i]
    <3> SUFFICES ASSUME NEW i \in 0 .. n + 1 PROVE h[i] = k[i]
      OBVIOUS
    <3>1. CASE i = n + 1
      <4>1. h[i] = After(g[n], n + 1) /\ h[n] = g[n]
        BY <3>1
      <4>2. k[i] = After(h[n], n + 1)
        BY <3>1
      <4> QED
        BY <4>1, <4>2
    <3>2. CASE i # n + 1 /\ i # 0
      <4>1. i \in 0 .. n /\ i - 1 \in 0 .. n
        BY <3>2
      <4>2. h[i] = g[i] /\ h[i - 1] = g[i - 1] /\ k[i] = After(h[i - 1], i)
        BY <3>2, <4>1
      <4> QED
        BY <2>2, <3>2, <4>1, <4>2
    <3>3. CASE i = 0
      BY <2>2, <3>3
    <3> QED
      BY <3>1, <3>2, <3>3
  <2>4. h = k
    BY <2>3
  <2>5. Steps(n + 1, h)
    BY <2>4
  <2> QED
    BY <2>5
<1>3. T = {}
  <2>1. T \in SUBSET Nat
    OBVIOUS
  <2> HIDE DEF T
  <2> QED
    BY <1>1, <1>2, <2>1, FirstFailure
<1>4. Len(s) \in Nat
  OBVIOUS
<1>5. \E g : Steps(Len(s), g)
  BY <1>3, <1>4
<1> DEFINE f == CHOOSE g : Steps(Len(s), g)
<1>6. Since(s, height, msgs) = f[Len(s)]
  BY Zenon DEF Since, After, Selects
<1>7. Steps(Len(s), f)
  BY <1>5
<1> HIDE DEF f
<1>8. \A n \in 0 .. Len(s) : f[n] = IF n = 0 THEN <<>> ELSE After(f[n - 1], n)
  BY <1>7
<1>9. f[0] = <<>> /\ \A n \in 1 .. Len(s) : f[n] = After(f[n - 1], n)
  BY <1>4, <1>8
<1> QED
  BY <1>6, <1>9, Zenon DEF After

(* Since of nothing, and of one event more.                                *)
LEMMA SinceEmpty ==
    ASSUME NEW height, NEW msgs
    PROVE  Since(<<>>, height, msgs) = <<>>
<1>1. <<>> \in Seq({}) /\ Len(<<>>) = 0
  OBVIOUS
<1> DEFINE s == <<>>
<1> HIDE DEF s
<1>2. PICK f : /\ Since(s, height, msgs) = f[Len(s)]
               /\ f[0] = <<>>
               /\ \A n \in 1 .. Len(s) :
                    f[n] = IF Selects(s[n], height, msgs)
                             THEN Append(f[n - 1], s[n]) ELSE f[n - 1]
  <2>1. s \in Seq({})
    BY <1>1 DEF s
  <2> QED
    BY <2>1, SinceIs
<1> QED
  BY <1>1, <1>2 DEF s

LEMMA SinceAppend ==
    ASSUME NEW X, NEW s \in Seq(X), NEW e \in X, NEW height, NEW msgs
    PROVE  Since(Append(s, e), height, msgs)
             = IF Selects(e, height, msgs)
                 THEN Append(Since(s, height, msgs), e)
                 ELSE Since(s, height, msgs)
<1> DEFINE t == Append(s, e)
           L == Len(s)
<1>1. /\ t \in Seq(X) /\ L \in Nat /\ Len(t) = L + 1 /\ t[L + 1] = e
      /\ \A n \in 1 .. L : t[n] = s[n]
  OBVIOUS
<1>2. PICK f : /\ Since(s, height, msgs) = f[Len(s)]
               /\ f[0] = <<>>
               /\ \A n \in 1 .. Len(s) :
                    f[n] = IF Selects(s[n], height, msgs)
                             THEN Append(f[n - 1], s[n]) ELSE f[n - 1]
  BY SinceIs
<1> HIDE DEF t
<1>3. PICK g : /\ Since(t, height, msgs) = g[Len(t)]
               /\ g[0] = <<>>
               /\ \A n \in 1 .. Len(t) :
                    g[n] = IF Selects(t[n], height, msgs)
                             THEN Append(g[n - 1], t[n]) ELSE g[n - 1]
  BY <1>1, SinceIs
<1> DEFINE T == {n \in Nat : n <= L /\ g[n] # f[n]}
<1>4. 0 \notin T
  BY <1>2, <1>3
<1>5. ASSUME NEW n \in Nat, n \notin T PROVE n + 1 \notin T
  <2> SUFFICES ASSUME n + 1 <= L PROVE g[n + 1] = f[n + 1]
    OBVIOUS
  <2>1. /\ n + 1 \in 1 .. L /\ n + 1 \in 1 .. Len(t) /\ (n + 1) - 1 = n
        /\ g[n] = f[n]
    BY <1>1, <1>5
  <2> QED
    BY <1>1, <1>2, <1>3, <2>1
<1>6. T = {}
  <2>1. T \in SUBSET Nat
    OBVIOUS
  <2> HIDE DEF T
  <2> QED
    BY <1>4, <1>5, <2>1, FirstFailure
<1>7. g[L] = f[L]
  BY <1>1, <1>6
<1>8. L + 1 \in 1 .. Len(t) /\ (L + 1) - 1 = L
  BY <1>1
<1>9. g[L + 1] = IF Selects(e, height, msgs) THEN Append(g[L], e) ELSE g[L]
  BY <1>1, <1>3, <1>8
<1> QED
  BY <1>1, <1>2, <1>3, <1>7, <1>9 DEF t

(* All that Since keeps is in the sequence, and is asked for.              *)
LEMMA SinceIn ==
    ASSUME NEW X, NEW s \in Seq(X), NEW height, NEW msgs
    PROVE  Since(s, height, msgs) \in Seq({e \in X : Selects(e, height, msgs)})
<1> DEFINE Y == {e \in X : Selects(e, height, msgs)}
           T == {t \in Seq(X) : Since(t, height, msgs) \in Seq(Y)}
<1>1. <<>> \in T
  <2>1. <<>> \in Seq(X) /\ \A Z : <<>> \in Seq(Z)
    OBVIOUS
  <2>2. Since(<<>>, height, msgs) \in Seq(Y)
    <3> HIDE DEF Y
    <3> QED
      BY <2>1, SinceEmpty
  <2> QED
    BY <2>1, <2>2
<1>2. \A t \in T : \A e \in X : Append(t, e) \in T
  <2> SUFFICES ASSUME NEW t \in T, NEW e \in X PROVE Append(t, e) \in T
    OBVIOUS
  <2>1. /\ t \in Seq(X) /\ Append(t, e) \in Seq(X) /\ Since(t, height, msgs) \in Seq(Y)
        /\ Selects(e, height, msgs) => e \in Y
    OBVIOUS
  <2>2. Since(Append(t, e), height, msgs)
          = IF Selects(e, height, msgs) THEN Append(Since(t, height, msgs), e)
              ELSE Since(t, height, msgs)
    BY <2>1, SinceAppend
  <2> HIDE DEF Y
  <2>3. Since(Append(t, e), height, msgs) \in Seq(Y)
    BY <2>1, <2>2
  <2> QED
    BY <2>1, <2>3
<1>3. T \in SUBSET Seq(X)
  OBVIOUS
<1>4. \A t \in Seq(X) : t \in T
  <2> HIDE DEF T
  <2> QED
    BY <1>1, <1>2, <1>3, SeqInduction
<1> QED
  BY <1>4

(* Since of two sequences, one after the other.                            *)
LEMMA SinceOfBoth ==
    ASSUME NEW X, NEW s \in Seq(X), NEW t \in Seq(X), NEW height, NEW msgs
    PROVE  Since(s \o t, height, msgs)
             = Since(s, height, msgs) \o Since(t, height, msgs)
<1> DEFINE F(u) == Since(u, height, msgs)
           T == {u \in Seq(X) : F(s \o u) = F(s) \o F(u)}
<1>0. \A u \in Seq(X) : \E Y : F(u) \in Seq(Y) /\ Y \subseteq X
  <2> SUFFICES ASSUME NEW u \in Seq(X) PROVE \E Y : F(u) \in Seq(Y) /\ Y \subseteq X
    OBVIOUS
  <2>1. F(u) \in Seq({e \in X : Selects(e, height, msgs)})
    BY SinceIn
  <2>2. {e \in X : Selects(e, height, msgs)} \subseteq X
    OBVIOUS
  <2> QED
    BY <2>1, <2>2
<1>1. \A u \in Seq(X) : F(u) \in Seq(X)
  <2> HIDE DEF F
  <2>1. \A Y : Y \subseteq X => Seq(Y) \subseteq Seq(X)
    OBVIOUS
  <2> QED
    BY <1>0, <2>1
<1>2. \A u \in Seq(X) : \A e \in X :
        F(Append(u, e)) = IF Selects(e, height, msgs) THEN Append(F(u), e) ELSE F(u)
  BY SinceAppend
<1>3. F(<<>>) = <<>>
  BY SinceEmpty
<1> HIDE DEF F
<1>4. <<>> \in T
  <2>1. s \o <<>> = s /\ F(s) \o <<>> = F(s) /\ <<>> \in Seq(X)
    BY <1>1
  <2> QED
    BY <1>3, <2>1
<1>5. \A u \in T : \A e \in X : Append(u, e) \in T
  <2> SUFFICES ASSUME NEW u \in T, NEW e \in X PROVE Append(u, e) \in T
    OBVIOUS
  <2>1. /\ u \in Seq(X) /\ Append(u, e) \in Seq(X) /\ s \o u \in Seq(X)
        /\ F(s \o u) = F(s) \o F(u)
        /\ F(s) \in Seq(X) /\ F(u) \in Seq(X)
    BY <1>1
  <2>2. s \o Append(u, e) = Append(s \o u, e)
    BY <2>1
  <2>3. F(s) \o Append(F(u), e) = Append(F(s) \o F(u), e)
    BY <2>1
  <2>4. F(Append(u, e)) = IF Selects(e, height, msgs) THEN Append(F(u), e) ELSE F(u)
    BY <1>2, <2>1
  <2>5. F(Append(s \o u, e))
          = IF Selects(e, height, msgs) THEN Append(F(s \o u), e) ELSE F(s \o u)
    BY <1>2, <2>1
  <2>6. F(s \o Append(u, e)) = F(s) \o F(Append(u, e))
    BY <2>1, <2>2, <2>3, <2>4, <2>5
  <2> QED
    BY <2>1, <2>6
<1>6. T \in SUBSET Seq(X)
  OBVIOUS
<1>7. \A u \in Seq(X) : u \in T
  <2> HIDE DEF T
  <2> QED
    BY <1>4, <1>5, <1>6, SeqInduction
<1> QED
  BY <1>7 DEF F

(* What Since keeps of what Since has kept.                                *)
LEMMA SinceTwice ==
    ASSUME NEW X, NEW s \in Seq(X), NEW height, NEW msgs, NEW h1, NEW m1, NEW h2, NEW m2,
           \A e \in X : Selects(e, h1, m1) /\ Selects(e, h2, m2)
                          <=> Selects(e, height, msgs)
    PROVE  Since(Since(s, h1, m1), h2, m2) = Since(s, height, msgs)
<1> DEFINE F(u) == Since(u, height, msgs)
           F1(u) == Since(u, h1, m1)
           F2(u) == Since(u, h2, m2)
           T == {u \in Seq(X) : F2(F1(u)) = F(u)}
<1>1. \A u \in Seq(X) : F1(u) \in Seq(X)
  <2> SUFFICES ASSUME NEW u \in Seq(X) PROVE F1(u) \in Seq(X)
    OBVIOUS
  <2> DEFINE Y == {e \in X : Selects(e, h1, m1)}
  <2>1. F1(u) \in Seq(Y)
    BY SinceIn
  <2>2. Y \subseteq X
    OBVIOUS
  <2> HIDE DEF Y, F1
  <2> QED
    BY <2>1, <2>2
<1>2. \A u \in Seq(X) : \A e \in X :
        /\ F(Append(u, e)) = IF Selects(e, height, msgs) THEN Append(F(u), e) ELSE F(u)
        /\ F1(Append(u, e)) = IF Selects(e, h1, m1) THEN Append(F1(u), e) ELSE F1(u)
        /\ F2(Append(u, e)) = IF Selects(e, h2, m2) THEN Append(F2(u), e) ELSE F2(u)
  BY SinceAppend
<1>3. F(<<>>) = <<>> /\ F1(<<>>) = <<>> /\ F2(<<>>) = <<>>
  BY SinceEmpty
<1> HIDE DEF F, F1, F2
<1>4. <<>> \in T
  BY <1>3
<1>5. \A u \in T : \A e \in X : Append(u, e) \in T
  <2> SUFFICES ASSUME NEW u \in T, NEW e \in X PROVE Append(u, e) \in T
    OBVIOUS
  <2>1. /\ u \in Seq(X) /\ Append(u, e) \in Seq(X) /\ F1(u) \in Seq(X)
        /\ F2(F1(u)) = F(u)
    BY <1>1
  <2>2. F2(F1(Append(u, e))) = F(Append(u, e))
    <3>1. CASE Selects(e, h1, m1)
      BY <1>2, <2>1, <3>1
    <3>2. CASE ~Selects(e, h1, m1)
      BY <1>2, <2>1, <3>2
    <3> QED
      BY <3>1, <3>2
  <2> QED
    BY <2>1, <2>2
<1>6. T \in SUBSET Seq(X)
  OBVIOUS
<1>7. \A u \in Seq(X) : u \in T
  <2> HIDE DEF T
  <2> QED
    BY <1>4, <1>5, <1>6, SeqInduction
<1> QED
  BY <1>7 DEF F, F1, F2

(* If all is asked for, all is kept; if nothing is, nothing is.            *)
LEMMA SinceAll ==
    ASSUME NEW X, NEW s \in Seq(X), NEW height, NEW msgs,
           \A e \in X : Selects(e, height, msgs)
    PROVE  Since(s, height, msgs) = s
<1> DEFINE T == {t \in Seq(X) : Since(t, height, msgs) = t}
<1>1. <<>> \in T
  BY SinceEmpty
<1>2. \A t \in T : \A e \in X : Append(t, e) \in T
  <2> SUFFICES ASSUME NEW t \in T, NEW e \in X PROVE Append(t, e) \in T
    OBVIOUS
  <2>1. t \in Seq(X) /\ Append(t, e) \in Seq(X) /\ Since(t, height, msgs) = t
    OBVIOUS
  <2> QED
    BY <2>1, SinceAppend
<1>3. T \in SUBSET Seq(X)
  OBVIOUS
<1>4. \A t \in Seq(X) : t \in T
  <2> HIDE DEF T
  <2> QED
    BY <1>1, <1>2, <1>3, SeqInduction
<1> QED
  BY <1>4

LEMMA SinceNone ==
    ASSUME NEW X, NEW s \in Seq(X), NEW height, NEW msgs,
           \A e \in X : ~Selects(e, height, msgs)
    PROVE  Since(s, height, msgs) = <<>>
<1>1. {e \in X : Selects(e, height, msgs)} = {}
  OBVIOUS
<1>2. Since(s, height, msgs) \in Seq({})
  BY <1>1, SinceIn
<1> QED
  BY <1>2

(* Who asks for the same events is given the same.                        *)
LEMMA SinceSame ==
    ASSUME NEW X, NEW s \in Seq(X), NEW h1, NEW m1, NEW h2, NEW m2,
           \A e \in X : Selects(e, h1, m1) <=> Selects(e, h2, m2)
    PROVE  Since(s, h1, m1) = Since(s, h2, m2)
<1>1. Since(Since(s, h1, m1), h1, m1) = Since(s, h1, m1)
  BY SinceTwice
<1>2. Since(Since(s, h1, m1), h1, m1) = Since(s, h2, m2)
  BY SinceTwice
<1> QED
  BY <1>1, <1>2

(* FlattenSeq, element by element.                                         *)
LEMMA FlattenIs ==
    ASSUME NEW X, NEW seqs \in Seq(Seq(X)), seqs # <<>>
    PROVE  \E f :
             /\ FlattenSeq(seqs) = f[Len(seqs)]
             /\ f[1] = seqs[1]
             /\ \A n \in 2 .. Len(seqs) : f[n] = f[n - 1] \o seqs[n]
<1> DEFINE L == Len(seqs)
           Add(r, n) == r \o seqs[n]
           Steps(n, g) ==
             g = [i \in 1 .. n |-> IF i = 1 THEN seqs[i] ELSE Add(g[i - 1], i)]
           T == {n \in Nat : \A g : ~Steps(n, g)}
<1>0. L \in Nat /\ L # 0
  OBVIOUS
<1> HIDE DEF L, Add
<1>1. 0 \notin T
  <2> DEFINE g == [i \in 1 .. 0 |-> <<>>]
             k == [i \in 1 .. 0 |-> IF i = 1 THEN seqs[i] ELSE Add(g[i - 1], i)]
  <2>1. \A i \in 1 .. 0 : g[i] = k[i]
    OBVIOUS
  <2>2. g = k
    BY <2>1
  <2>3. Steps(0, g)
    BY <2>2
  <2> QED
    BY <2>3
<1>2. ASSUME NEW n \in Nat, n \notin T PROVE n + 1 \notin T
  <2>1. PICK g : Steps(n, g)
    BY <1>2
  <2> DEFINE x == IF n = 0 THEN seqs[n + 1] ELSE Add(g[n], n + 1)
             h == [i \in 1 .. n + 1 |-> IF i = n + 1 THEN x ELSE g[i]]
             k == [i \in 1 .. n + 1 |-> IF i = 1 THEN seqs[i] ELSE Add(h[i - 1], i)]
  <2>2. \A i \in 1 .. n : g[i] = IF i = 1 THEN seqs[i] ELSE Add(g[i - 1], i)
    BY <2>1
  <2>3. \A i \in 1 .. n + 1 : h[i] = k[i]
    <3> SUFFICES ASSUME NEW i \in 1 .. n + 1 PROVE h[i] = k[i]
      OBVIOUS
    <3>1. CASE i = n + 1 /\ i # 1
      <4>1. n # 0 /\ i - 1 = n /\ n \in 1 .. n + 1 /\ n # n + 1
        BY <3>1
      <4>2. h[i] = x /\ h[n] = g[n] /\ x = Add(g[n], n + 1)
        BY <3>1, <4>1
      <4>3. k[i] = Add(h[n], n + 1)
        BY <3>1, <4>1
      <4> QED
        BY <4>2, <4>3
    <3>2. CASE i # n + 1 /\ i # 1
      <4>1. i \in 1 .. n /\ i - 1 \in 1 .. n /\ i - 1 \in 1 .. n + 1 /\ i - 1 # n + 1
        BY <3>2
      <4>2. h[i] = g[i] /\ h[i - 1] = g[i - 1]
        BY <3>2, <4>1
      <4>3. k[i] = Add(h[i - 1], i)
        BY <3>2
      <4> QED
        BY <2>2, <3>2, <4>1, <4>2, <4>3
    <3>3. CASE i = 1
      <4>1. k[i] = seqs[i]
        BY <3>3
      <4>2. CASE n = 0
        BY <3>3, <4>1, <4>2
      <4>3. CASE n # 0
        <5>1. i \in 1 .. n /\ i # n + 1
          BY <3>3, <4>3
        <5> QED
          BY <2>2, <3>3, <4>1, <5>1
      <4> QED
        BY <4>2, <4>3
    <3> QED
      BY <3>1, <3>2, <3>3
  <2>4. h = k
    BY <2>3
  <2>5. Steps(n + 1, h)
    BY <2>4
  <2> QED
    BY <2>5
<1>3. T = {}
  <2>1. T \in SUBSET Nat
    OBVIOUS
  <2> HIDE DEF T
  <2> QED
    BY <1>1, <1>2, <2>1, FirstFailure
<1>4. \E g : Steps(L, g)
  <2>1. L \notin T
    <3> HIDE DEF T
    <3> QED
      BY <1>3
  <2> HIDE DEF Steps
  <2> QED
    BY <1>0, <2>1
<1> DEFINE f == CHOOSE g : Steps(L, g)
<1>5. FlattenSeq(seqs) = f[L]
  BY <1>0, Zenon DEF FlattenSeq, L, Add
<1>6. Steps(L, f)
  BY <1>4
<1> HIDE DEF f
<1>7. \A n \in 1 .. L : f[n] = IF n = 1 THEN seqs[n] ELSE Add(f[n - 1], n)
  BY <1>6
<1>8. f[1] = seqs[1]
  BY <1>0, <1>7
<1>9. \A n \in 2 .. L : f[n] = Add(f[n - 1], n)
  BY <1>0, <1>7
<1> QED
  BY <1>5, <1>8, <1>9, Zenon DEF L, Add

LEMMA FlattenEmpty == FlattenSeq(<<>>) = <<>>
<1>1. Len(<<>>) = 0
  OBVIOUS
<1> QED
  BY <1>1, Zenon DEF FlattenSeq

(* One sequence more.                                                      *)
LEMMA FlattenAppend ==
    ASSUME NEW X, NEW seqs \in Seq(Seq(X)), NEW s \in Seq(X)
    PROVE  FlattenSeq(Append(seqs, s)) = FlattenSeq(seqs) \o s
<1> DEFINE L == Len(seqs)
           more == Append(seqs, s)
<1>1. /\ more \in Seq(Seq(X)) /\ more # <<>> /\ L \in Nat /\ Len(more) = L + 1
      /\ more[L + 1] = s /\ \A n \in 1 .. L : more[n] = seqs[n]
  <2> DEFINE S == Seq(X)
  <2>1. seqs \in Seq(S) /\ s \in S
    OBVIOUS
  <2> HIDE DEF S
  <2>2. /\ more \in Seq(S) /\ L \in Nat /\ Len(more) = L + 1
        /\ more[L + 1] = s /\ \A n \in 1 .. L : more[n] = seqs[n]
    BY <2>1
  <2> HIDE DEF L, more
  <2>3. more # <<>>
    BY <2>2
  <2> QED
    BY <2>2, <2>3 DEF S
<1> HIDE DEF more
<1>2. PICK g : /\ FlattenSeq(more) = g[Len(more)]
               /\ g[1] = more[1]
               /\ \A n \in 2 .. Len(more) : g[n] = g[n - 1] \o more[n]
  BY <1>1, FlattenIs
<1>3. CASE seqs = <<>>
  <2>1. L = 0 /\ FlattenSeq(seqs) = <<>>
    BY <1>3, FlattenEmpty
  <2>2. FlattenSeq(more) = s
    BY <1>1, <1>2, <2>1
  <2>3. <<>> \o s = s
    OBVIOUS
  <2> QED
    BY <2>1, <2>2, <2>3 DEF more
<1>4. CASE seqs # <<>>
  <2>1. PICK f : /\ FlattenSeq(seqs) = f[L]
                 /\ f[1] = seqs[1]
                 /\ \A n \in 2 .. L : f[n] = f[n - 1] \o seqs[n]
    BY <1>4, FlattenIs
  <2>2. L >= 1
    BY <1>4
  <2> DEFINE T == {n \in Nat : n \in 1 .. L /\ g[n] # f[n]}
  <2>3. ASSUME NEW n \in Nat, n \notin T PROVE n + 1 \notin T
    <3> SUFFICES ASSUME n + 1 <= L PROVE g[n + 1] = f[n + 1]
      OBVIOUS
    <3>1. CASE n = 0
      BY <1>1, <1>2, <2>1, <2>2, <3>1
    <3>2. CASE n # 0
      <4>1. n + 1 \in 2 .. L /\ n + 1 \in 2 .. Len(more) /\ (n + 1) - 1 = n
            /\ n + 1 \in 1 .. L
        BY <1>1, <3>2
      <4>2. g[n] = f[n]
        BY <2>3, <3>2, <4>1
      <4> QED
        BY <1>1, <1>2, <2>1, <4>1, <4>2
    <3> QED
      BY <3>1, <3>2
  <2>4. T = {}
    <3>1. T \in SUBSET Nat /\ 0 \notin T
      OBVIOUS
    <3> HIDE DEF T
    <3> QED
      BY <2>3, <3>1, FirstFailure
  <2>5. g[L] = f[L]
    <3>1. L \notin T
      <4> HIDE DEF T
      <4> QED
        BY <2>4
    <3> HIDE DEF L
    <3> QED
      BY <1>1, <2>2, <3>1
  <2>6. L + 1 \in 2 .. Len(more) /\ (L + 1) - 1 = L
    BY <1>1, <2>2
  <2>7. g[L + 1] = g[L] \o s
    BY <1>1, <1>2, <2>6
  <2> QED
    BY <1>1, <1>2, <2>1, <2>5, <2>7 DEF more
<1> QED
  BY <1>3, <1>4

-----------------------------------------------------------------------------
(* The log: what is in it, and that it only grows.                         *)

(* The messages applied are transactions, in the app and after each        *)
(* transaction of a block.                                                 *)
AppliesTx(a) == IsApp(a) /\ a.Applied \in Seq(Tx)

LEMMA ExecutedAppliesTx ==
    ASSUME NEW a, AppliesTx(a), NEW txs \in Seq(Tx)
    PROVE  \A n \in 0 .. Len(txs) : AppliesTx(Executed(a, txs)[n])
<1> DEFINE f == Executed(a, txs)
           T == {n \in Nat : n <= Len(txs) /\ ~AppliesTx(f[n])}
<1>1. f[0] = a /\ \A n \in 1 .. Len(txs) : f[n] = DeliverTx(f[n - 1], txs[n])
  BY ExecutedIs
<1>2. Len(txs) \in Nat /\ \A n \in 1 .. Len(txs) : txs[n] \in Tx
  OBVIOUS
<1> HIDE DEF f
<1>3. 0 \notin T
  BY <1>1
<1>4. ASSUME NEW n \in Nat, n \notin T PROVE n + 1 \notin T
  <2> SUFFICES ASSUME n + 1 <= Len(txs) PROVE AppliesTx(f[n + 1])
    OBVIOUS
  <2>1. n + 1 \in 1 .. Len(txs) /\ (n + 1) - 1 = n /\ AppliesTx(f[n])
    BY <1>2, <1>4
  <2>2. f[n + 1] = DeliverTx(f[n], txs[n + 1]) /\ txs[n + 1] \in Tx
    BY <1>1, <1>2, <2>1
  <2> DEFINE b == f[n]
             tx == txs[n + 1]
             d == DeliverTx(b, tx)
  <2>3. IsApp(d) /\ (d.Applied = b.Applied \/ d.Applied = Append(b.Applied, tx))
    BY <2>1, DeliverTxFields DEF AppliesTx
  <2> HIDE DEF d, tx, b
  <2>4. AppliesTx(d)
    <3>1. b.Applied \in Seq(Tx) /\ tx \in Tx
      BY <2>1, <2>2 DEF b, tx, AppliesTx
    <3>2. d.Applied \in Seq(Tx)
      <4> DEFINE x == b.Applied
                 y == d.Applied
      <4>1. x \in Seq(Tx) /\ (y = x \/ y = Append(x, tx))
        BY <2>3, <3>1
      <4> HIDE DEF x, y
      <4>2. y \in Seq(Tx)
        BY <3>1, <4>1
      <4> QED
        BY <4>2 DEF y
    <3> QED
      BY <2>3, <3>2 DEF AppliesTx
  <2> QED
    BY <2>2, <2>4 DEF d, b, tx
<1>5. T = {}
  <2>1. T \in SUBSET Nat
    OBVIOUS
  <2> HIDE DEF T
  <2> QED
    BY <1>3, <1>4, <2>1, FirstFailure
<1> QED
  BY <1>2, <1>5 DEF f

(* So they are after each block.                                           *)
LEMMA AppAtAppliesTx ==
    ASSUME blocks \in Seq(Seq(Tx))
    PROVE  \A h \in 0 .. Len(blocks) : AppliesTx(AppAt(h))
<1> DEFINE f == AppAfter(blocks)
           T == {n \in Nat : n <= Len(blocks) /\ ~AppliesTx(f[n])}
<1>1. /\ f[0] = InitChain(NewShielderApp)
      /\ \A n \in 1 .. Len(blocks) : f[n] = Executed(f[n - 1], blocks[n])[Len(blocks[n])]
  BY AppAfterIs
<1>2. Len(blocks) \in Nat /\ \A n \in 1 .. Len(blocks) : blocks[n] \in Seq(Tx)
  OBVIOUS
<1> HIDE DEF f
<1>3. 0 \notin T
  <2> DEFINE a == InitChain(NewShielderApp)
  <2>1. IsApp(a) /\ a.Applied = <<>>
    BY NewAppIs DEF InitChain, NewShielderApp, updateCheckTxMembers
  <2> HIDE DEF a
  <2>2. AppliesTx(a)
    BY <2>1 DEF AppliesTx
  <2> QED
    BY <1>1, <2>2 DEF a
<1>4. ASSUME NEW n \in Nat, n \notin T PROVE n + 1 \notin T
  <2> SUFFICES ASSUME n + 1 <= Len(blocks) PROVE AppliesTx(f[n + 1])
    OBVIOUS
  <2>1. n + 1 \in 1 .. Len(blocks) /\ (n + 1) - 1 = n /\ AppliesTx(f[n])
    BY <1>2, <1>4
  <2> DEFINE block == blocks[n + 1]
  <2>2. f[n + 1] = Executed(f[n], block)[Len(block)] /\ block \in Seq(Tx)
    BY <1>1, <1>2, <2>1
  <2> HIDE DEF block
  <2>3. Len(block) \in 0 .. Len(block)
    BY <2>2
  <2> QED
    BY <2>1, <2>2, <2>3, ExecutedAppliesTx
<1>5. T = {}
  <2>1. T \in SUBSET Nat
    OBVIOUS
  <2> HIDE DEF T
  <2> QED
    BY <1>3, <1>4, <2>1, FirstFailure
<1> SUFFICES ASSUME NEW h \in 0 .. Len(blocks) PROVE AppliesTx(AppAt(h))
  OBVIOUS
<1>6. h \in Nat /\ h <= Len(blocks)
  BY <1>2
<1>7. h \notin T
  <2> HIDE DEF T
  <2> QED
    BY <1>5
<1>8. AppliesTx(f[h])
  BY <1>6, <1>7
<1> QED
  BY <1>8 DEF f, AppAt

(* The events of the blocks between from and to.                           *)
Event(from, to) == [Height : from .. to, Msg : Tx]

(* The events of one block.                                                *)
LEMMA EventsAtIn ==
    ASSUME blocks \in Seq(Seq(Tx)), NEW h \in 1 .. Len(blocks)
    PROVE  EventsAt(h) \in Seq(Event(h, h))
<1> DEFINE before == AppAt(h - 1).Applied
           after  == AppAt(h).Applied
           k == Len(after) - Len(before)
           ev == [i \in 1 .. k |-> [Height |-> h, Msg |-> after[Len(before) + i]]]
<1>1. h - 1 \in 0 .. Len(blocks) /\ h \in 0 .. Len(blocks) /\ h \in Nat
  OBVIOUS
<1>2. before \in Seq(Tx) /\ after \in Seq(Tx)
  BY <1>1, AppAtAppliesTx DEF AppliesTx
<1>3. EventsAt(h) = ev
  BY DEF EventsAt
<1> HIDE DEF before, after
<1>4. Len(before) \in Nat /\ Len(after) \in Nat /\ k \in Int
  BY <1>2
<1>5. \A i \in 1 .. k : after[Len(before) + i] \in Tx
  <2> SUFFICES ASSUME NEW i \in 1 .. k PROVE after[Len(before) + i] \in Tx
    OBVIOUS
  <2>1. Len(before) + i \in 1 .. Len(after)
    BY <1>4
  <2> QED
    BY <1>2, <2>1
<1>6. \A i \in 1 .. k : ev[i] \in Event(h, h)
  <2> SUFFICES ASSUME NEW i \in 1 .. k PROVE ev[i] \in Event(h, h)
    OBVIOUS
  <2> DEFINE m == after[Len(before) + i]
  <2> HIDE DEF k
  <2>1. ev[i] = [Height |-> h, Msg |-> m]
    OBVIOUS
  <2>2. m \in Tx
    BY <1>5
  <2>3. h \in h .. h
    BY <1>1
  <2> HIDE DEF ev, m
  <2> QED
    BY <2>1, <2>2, <2>3 DEF Event
<1>7. \E n \in Nat : 1 .. k = 1 .. n
  <2>1. CASE k >= 0
    <3>1. k \in Nat
      BY <1>4, <2>1
    <3> QED
      BY <3>1
  <2>2. CASE k < 0
    <3>1. \A x \in Int : x < 0 => 1 .. x = 1 .. 0
      OBVIOUS
    <3>2. 1 .. k = 1 .. 0
      BY <1>4, <2>2, <3>1
    <3> QED
      BY <3>2
  <2> QED
    BY <1>4, <2>1, <2>2
<1> HIDE DEF k
<1>8. PICK n \in Nat : 1 .. k = 1 .. n
  BY <1>7
<1>9. ev \in [1 .. n -> Event(h, h)]
  BY <1>6, <1>8
<1> HIDE DEF ev
<1> QED
  BY <1>3, <1>9

(* What FlattenSeq makes of the events of each block.                      *)
Flat(from, to) == FlattenSeq([i \in 1 .. to |-> IF i < from THEN <<>> ELSE EventsAt(i)])

(* More blocks have more events.                                           *)
LEMMA EventSets ==
    ASSUME NEW a \in Int, NEW b \in Int, NEW c \in Int, NEW d \in Int, c <= a, b <= d
    PROVE  /\ Event(a, b) \subseteq Event(c, d)
           /\ Seq(Event(a, b)) \subseteq Seq(Event(c, d))
<1>1. Event(a, b) \subseteq Event(c, d)
  BY DEF Event
<1> HIDE DEF Event
<1> QED
  BY <1>1

(* One block more, no block, and what kind of events these are.            *)
LEMMA FlatStep ==
    ASSUME blocks \in Seq(Seq(Tx)), NEW from \in Int, NEW to \in Nat, to + 1 <= Len(blocks)
    PROVE  Flat(from, to + 1)
             = Flat(from, to) \o (IF to + 1 < from THEN <<>> ELSE EventsAt(to + 1))
<1> DEFINE X == Event(1, Len(blocks))
           x(i) == IF i < from THEN <<>> ELSE EventsAt(i)
           seqs == [i \in 1 .. to |-> x(i)]
           more == [i \in 1 .. to + 1 |-> x(i)]
<1>1. Len(blocks) \in Nat
  OBVIOUS
<1>2. \A i \in 1 .. to + 1 : x(i) \in Seq(X)
  <2> SUFFICES ASSUME NEW i \in 1 .. to + 1 PROVE x(i) \in Seq(X)
    OBVIOUS
  <2>1. i \in 1 .. Len(blocks) /\ i \in Int /\ 1 <= i /\ i <= Len(blocks)
    BY <1>1
  <2>2. EventsAt(i) \in Seq(Event(i, i))
    BY <2>1, EventsAtIn
  <2>3. EventsAt(i) \in Seq(X)
    BY <1>1, <2>1, <2>2, EventSets
  <2> HIDE DEF X
  <2> QED
    BY <2>3
<1> HIDE DEF X, x
<1>3. seqs \in Seq(Seq(X)) /\ x(to + 1) \in Seq(X)
  <2> DEFINE S == Seq(X)
  <2>1. \A i \in 1 .. to + 1 : x(i) \in S
    BY <1>2
  <2> HIDE DEF S
  <2>2. seqs \in Seq(S) /\ x(to + 1) \in S
    BY <2>1
  <2> QED
    BY <2>2 DEF S
<1>4. more = Append(seqs, x(to + 1))
  OBVIOUS
<1>5. FlattenSeq(more) = FlattenSeq(seqs) \o x(to + 1)
  BY <1>3, <1>4, FlattenAppend
<1> QED
  BY <1>5 DEF Flat, x

LEMMA FlatZero == ASSUME NEW from PROVE Flat(from, 0) = <<>>
<1>1. [i \in 1 .. 0 |-> IF i < from THEN <<>> ELSE EventsAt(i)] = <<>>
  OBVIOUS
<1> QED
  BY <1>1, FlattenEmpty DEF Flat

LEMMA FlatIn ==
    ASSUME blocks \in Seq(Seq(Tx)), NEW from \in Int, 0 <= from
    PROVE  \A to \in 0 .. Len(blocks) : Flat(from, to) \in Seq(Event(from, to))
<1> DEFINE T == {n \in Nat : n <= Len(blocks) /\ Flat(from, n) \notin Seq(Event(from, n))}
<1>1. 0 \notin T
  <2>1. \A X : <<>> \in Seq(X)
    OBVIOUS
  <2> QED
    BY <2>1, FlatZero
<1>2. ASSUME NEW n \in Nat, n \notin T PROVE n + 1 \notin T
  <2> SUFFICES ASSUME n + 1 <= Len(blocks)
               PROVE  Flat(from, n + 1) \in Seq(Event(from, n + 1))
    OBVIOUS
  <2> DEFINE E == Event(from, n + 1)
             last == IF n + 1 < from THEN <<>> ELSE EventsAt(n + 1)
  <2>1. Len(blocks) \in Nat
    OBVIOUS
  <2>2. Flat(from, n) \in Seq(E)
    <3>1. Flat(from, n) \in Seq(Event(from, n))
      BY <1>2, <2>1
    <3> QED
      BY <3>1, EventSets
  <2>3. last \in Seq(E)
    <3>1. CASE n + 1 < from
      <4>1. \A X : <<>> \in Seq(X)
        OBVIOUS
      <4> QED
        BY <3>1, <4>1
    <3>2. CASE ~(n + 1 < from)
      <4>1. n + 1 \in 1 .. Len(blocks) /\ n + 1 \in Int /\ from <= n + 1
        BY <2>1, <3>2
      <4>2. EventsAt(n + 1) \in Seq(Event(n + 1, n + 1))
        BY <4>1, EventsAtIn
      <4>3. EventsAt(n + 1) \in Seq(E)
        BY <4>1, <4>2, EventSets
      <4> HIDE DEF E
      <4> QED
        BY <3>2, <4>3
    <3> QED
      BY <3>1, <3>2
  <2>4. Flat(from, n + 1) = Flat(from, n) \o last
    BY FlatStep
  <2> HIDE DEF E, last
  <2>5. \A u, v \in Seq(E) : u \o v \in Seq(E)
    OBVIOUS
  <2>6. Flat(from, n + 1) \in Seq(E)
    BY <2>2, <2>3, <2>4, <2>5
  <2> QED
    BY <2>6 DEF E
<1>3. T = {}
  <2>1. T \in SUBSET Nat
    OBVIOUS
  <2> HIDE DEF T
  <2> QED
    BY <1>1, <1>2, <2>1, FirstFailure
<1> SUFFICES ASSUME NEW n \in 0 .. Len(blocks) PROVE Flat(from, n) \in Seq(Event(from, n))
  OBVIOUS
<1>4. n \in Nat /\ n <= Len(blocks)
  OBVIOUS
<1>5. n \notin T
  <2> HIDE DEF T
  <2> QED
    BY <1>3
<1> QED
  BY <1>4, <1>5

(* Nothing is between from and a block before from.                        *)
LEMMA FlatBelow ==
    ASSUME blocks \in Seq(Seq(Tx)), NEW from \in Nat, NEW to \in 0 .. Len(blocks), to < from
    PROVE  Flat(from, to) = <<>>
<1>1. Event(from, to) = {}
  BY DEF Event
<1>2. Flat(from, to) \in Seq({})
  BY <1>1, FlatIn
<1> QED
  BY <1>2

(* EventsBetween is Flat, or empty.                                        *)
LEMMA BetweenIsFlat ==
    ASSUME blocks \in Seq(Seq(Tx)), NEW from \in Nat, NEW to \in 0 .. Len(blocks)
    PROVE  EventsBetween(from, to) = Flat(from, to)
<1>1. CASE to < from
  BY <1>1, FlatBelow DEF EventsBetween
<1>2. CASE ~(to < from)
  BY <1>2 DEF EventsBetween, Flat
<1> QED
  BY <1>1, <1>2

LEMMA BetweenIn ==
    ASSUME blocks \in Seq(Seq(Tx)), NEW from \in Nat, NEW to \in -1 .. Len(blocks)
    PROVE  EventsBetween(from, to) \in Seq(Event(from, to))
<1>1. CASE to = -1
  <2>1. EventsBetween(from, to) = <<>>
    BY <1>1 DEF EventsBetween
  <2>2. \A X : <<>> \in Seq(X)
    OBVIOUS
  <2> QED
    BY <2>1, <2>2
<1>2. CASE to \in 0 .. Len(blocks)
  BY <1>2, BetweenIsFlat, FlatIn
<1> QED
  BY <1>1, <1>2

(* The events of the first n blocks.                                       *)
Logged(n) == EventsBetween(1, n)

(* It is a sequence of their events.                                       *)
LEMMA LoggedIn ==
    ASSUME blocks \in Seq(Seq(Tx)), NEW n \in -1 .. Len(blocks)
    PROVE  Logged(n) \in Seq(Event(1, n))
BY BetweenIn DEF Logged

(* The log of the first b blocks is that of the first a, then the rest.    *)
LEMMA FlatSplit ==
    ASSUME blocks \in Seq(Seq(Tx)), NEW a \in Nat, NEW b \in Nat, a <= b, b <= Len(blocks)
    PROVE  Flat(1, b) = Flat(1, a) \o Flat(a + 1, b)
<1> DEFINE X == Event(1, Len(blocks))
           T == {n \in Nat : /\ a + n <= Len(blocks)
                             /\ Flat(1, a + n) # Flat(1, a) \o Flat(a + 1, a + n)}
<1>0. Len(blocks) \in Nat
  OBVIOUS
<1>1. \A m \in 0 .. Len(blocks) : Flat(1, m) \in Seq(X) /\ Flat(a + 1, m) \in Seq(X)
  <2> SUFFICES ASSUME NEW m \in 0 .. Len(blocks)
               PROVE  Flat(1, m) \in Seq(X) /\ Flat(a + 1, m) \in Seq(X)
    OBVIOUS
  <2>1. Flat(1, m) \in Seq(Event(1, m)) /\ Flat(a + 1, m) \in Seq(Event(a + 1, m))
    BY FlatIn
  <2>2. Seq(Event(1, m)) \subseteq Seq(X) /\ Seq(Event(a + 1, m)) \subseteq Seq(X)
    BY <1>0, EventSets
  <2> QED
    BY <2>1, <2>2
<1>2. \A m \in 1 .. Len(blocks) : EventsAt(m) \in Seq(X)
  <2> SUFFICES ASSUME NEW m \in 1 .. Len(blocks) PROVE EventsAt(m) \in Seq(X)
    OBVIOUS
  <2>1. EventsAt(m) \in Seq(Event(m, m))
    BY EventsAtIn
  <2>2. Seq(Event(m, m)) \subseteq Seq(X)
    BY <1>0, EventSets
  <2> QED
    BY <2>1, <2>2
<1> HIDE DEF X
<1>3. 0 \notin T
  <2>1. Flat(a + 1, a) = <<>>
    BY FlatBelow
  <2>2. Flat(1, a) \o <<>> = Flat(1, a)
    BY <1>1
  <2>3. a + 0 = a
    OBVIOUS
  <2> QED
    BY <2>1, <2>2, <2>3
<1>4. ASSUME NEW n \in Nat, n \notin T PROVE n + 1 \notin T
  <2> SUFFICES ASSUME a + (n + 1) <= Len(blocks)
               PROVE  Flat(1, a + (n + 1)) = Flat(1, a) \o Flat(a + 1, a + (n + 1))
    OBVIOUS
  <2> DEFINE m == a + n
  <2>1. /\ m \in Nat /\ m + 1 <= Len(blocks) /\ a + (n + 1) = m + 1
        /\ ~(m + 1 < 1) /\ ~(m + 1 < a + 1) /\ a + 1 \in Int
        /\ m \in 0 .. Len(blocks) /\ m + 1 \in 1 .. Len(blocks) /\ a \in 0 .. Len(blocks)
    BY <1>0
  <2>2. Flat(1, m) = Flat(1, a) \o Flat(a + 1, m)
    BY <1>4, <2>1
  <2> HIDE DEF m
  <2>3. Flat(1, m + 1) = Flat(1, m) \o EventsAt(m + 1)
    BY <2>1, FlatStep
  <2>4. Flat(a + 1, m + 1) = Flat(a + 1, m) \o EventsAt(m + 1)
    BY <2>1, FlatStep
  <2>5. /\ Flat(1, a) \in Seq(X) /\ Flat(a + 1, m) \in Seq(X)
        /\ EventsAt(m + 1) \in Seq(X)
    BY <1>1, <1>2, <2>1
  <2>6. (Flat(1, a) \o Flat(a + 1, m)) \o EventsAt(m + 1)
          = Flat(1, a) \o (Flat(a + 1, m) \o EventsAt(m + 1))
    <3>1. \A u, v, w \in Seq(X) : (u \o v) \o w = u \o (v \o w)
      BY ConcatAssociative
    <3> DEFINE u == Flat(1, a)
               v == Flat(a + 1, m)
               w == EventsAt(m + 1)
    <3>2. u \in Seq(X) /\ v \in Seq(X) /\ w \in Seq(X)
      BY <2>5
    <3> HIDE DEF u, v, w
    <3>3. (u \o v) \o w = u \o (v \o w)
      BY <3>1, <3>2
    <3> QED
      BY <3>3, Zenon DEF u, v, w
  <2>7. Flat(1, m + 1) = Flat(1, a) \o Flat(a + 1, m + 1)
    BY <2>2, <2>3, <2>4, <2>6
  <2> QED
    BY <2>1, <2>7
<1>5. T = {}
  <2>1. T \in SUBSET Nat
    OBVIOUS
  <2> HIDE DEF T
  <2> QED
    BY <1>3, <1>4, <2>1, FirstFailure
<1>6. b - a \in Nat /\ a + (b - a) = b
  OBVIOUS
<1>7. b - a \notin T
  <2> HIDE DEF T
  <2> QED
    BY <1>5
<1> QED
  BY <1>6, <1>7

LEMMA LoggedSplit ==
    ASSUME blocks \in Seq(Seq(Tx)), NEW b \in -1 .. Len(blocks), NEW a \in -1 .. b
    PROVE  Logged(b) = Logged(a) \o EventsBetween(a + 1, b)
<1>0. Len(blocks) \in Nat
  OBVIOUS
<1>1. CASE a = -1
  <2>1. a + 1 = 0 /\ Logged(a) = <<>>
    BY <1>1 DEF Logged, EventsBetween
  <2>2. EventsBetween(0, b) = Logged(b)
    <3>1. CASE b = -1
      BY <3>1 DEF Logged, EventsBetween
    <3>2. CASE b = 0
      <4>1. Flat(0, 0) = <<>>
        BY FlatZero
      <4>2. EventsBetween(0, 0) = Flat(0, 0)
        BY <1>0, BetweenIsFlat
      <4>3. Logged(0) = <<>>
        BY DEF Logged, EventsBetween
      <4> QED
        BY <3>2, <4>1, <4>2, <4>3
    <3>3. CASE b >= 1
      <4>1. [i \in 1 .. b |-> IF i < 0 THEN <<>> ELSE EventsAt(i)]
              = [i \in 1 .. b |-> IF i < 1 THEN <<>> ELSE EventsAt(i)]
        OBVIOUS
      <4> QED
        BY <3>3, <4>1 DEF Logged, EventsBetween
    <3> QED
      BY <3>1, <3>2, <3>3, <1>0
  <2>3. Logged(b) \in Seq(Event(1, b))
    BY LoggedIn
  <2>4. <<>> \o Logged(b) = Logged(b)
    BY <2>3
  <2> QED
    BY <2>1, <2>2, <2>4
<1>2. CASE a # -1
  <2>1. /\ a \in Nat /\ b \in Nat /\ a <= b /\ b <= Len(blocks) /\ a + 1 \in Nat
        /\ a \in 0 .. Len(blocks) /\ b \in 0 .. Len(blocks) /\ 1 \in Nat
    BY <1>0, <1>2
  <2>2. Logged(b) = Flat(1, b) /\ Logged(a) = Flat(1, a)
        /\ EventsBetween(a + 1, b) = Flat(a + 1, b)
    BY <2>1, BetweenIsFlat DEF Logged
  <2> QED
    BY <2>1, <2>2, FlatSplit
<1> QED
  BY <1>1, <1>2

(* A block that is added changes nothing of what was logged before.        *)
LEMMA LoggedStays ==
    ASSUME blocks \in Seq(Seq(Tx)), NEW block \in Seq(Tx), blocks' = Append(blocks, block)
    PROVE  \A n \in -1 .. Len(blocks) : Logged(n)' = Logged(n)
<1>1. \A h \in 0 .. Len(blocks) : AppAt(h)' = AppAt(h)
  BY AppAfterAppend DEF AppAt
<1>2. \A h \in 1 .. Len(blocks) : EventsAt(h)' = EventsAt(h)
  <2> SUFFICES ASSUME NEW h \in 1 .. Len(blocks) PROVE EventsAt(h)' = EventsAt(h)
    OBVIOUS
  <2>1. h \in 0 .. Len(blocks) /\ h - 1 \in 0 .. Len(blocks)
    OBVIOUS
  <2>2. AppAt(h)' = AppAt(h) /\ AppAt(h - 1)' = AppAt(h - 1)
    BY <1>1, <2>1
  <2> QED
    BY <2>2 DEF EventsAt
<1> SUFFICES ASSUME NEW n \in -1 .. Len(blocks) PROVE Logged(n)' = Logged(n)
  OBVIOUS
<1>3. CASE n < 1
  BY <1>3 DEF Logged, EventsBetween
<1>4. CASE n >= 1
  <2>1. \A i \in 1 .. n : (IF i < 1 THEN <<>> ELSE EventsAt(i)')
                           = (IF i < 1 THEN <<>> ELSE EventsAt(i))
    BY <1>2
  <2> DEFINE f == [i \in 1 .. n |-> IF i < 1 THEN <<>> ELSE EventsAt(i)]
             g == [i \in 1 .. n |-> IF i < 1 THEN <<>> ELSE EventsAt(i)']
  <2>2. f = g
    BY <2>1
  <2>3. Logged(n) = FlattenSeq(f) /\ Logged(n)' = FlattenSeq(g)
    BY <1>4 DEF Logged, EventsBetween
  <2> QED
    BY <2>2, <2>3
<1> QED
  BY <1>3, <1>4

(* When the keyper was registered.                                         *)
LEMMA RegisteredAtIs ==
    blocks \in Seq(Seq(Tx)) =>
      /\ RegisteredAt \in 1 .. Len(blocks) + 1
      /\ \A n \in -1 .. Len(blocks) :
            RegisteredAt <= n <=> OfMsg(Logged(n), "config") # <<>>
<1> SUFFICES ASSUME blocks \in Seq(Seq(Tx))
             PROVE  /\ RegisteredAt \in 1 .. Len(blocks) + 1
                    /\ \A n \in -1 .. Len(blocks) :
                          RegisteredAt <= n <=> OfMsg(Logged(n), "config") # <<>>
  OBVIOUS
<1> DEFINE L == Len(blocks)
           C(n) == OfMsg(Logged(n), "config")
           S == {e.Height : e \in ToSet(C(L))} \cup {L + 1}
<1>0. L \in Nat /\ L \in -1 .. L
  OBVIOUS
<1>1. \A n \in -1 .. L : C(n) \in Seq(Event(1, n))
  <2> SUFFICES ASSUME NEW n \in -1 .. L PROVE C(n) \in Seq(Event(1, n))
    OBVIOUS
  <2>1. Logged(n) \in Seq(Event(1, n))
    BY LoggedIn
  <2> DEFINE X == Event(1, n)
             Y == {e \in X : Selects(e, 0, {"config"})}
  <2>2. C(n) \in Seq(Y) /\ Y \subseteq X
    BY <2>1, SinceIn DEF OfMsg
  <2> HIDE DEF X, Y, C
  <2>3. C(n) \in Seq(X)
    BY <2>2
  <2> QED
    BY <2>3 DEF X
<1>2. RegisteredAt = CHOOSE x \in S : \A y \in S : x <= y
  BY DEF RegisteredAt, Min, Logged
<1>3. \A n \in -1 .. L : \E rest \in Seq(Event(n + 1, L)) : C(L) = C(n) \o rest
  <2> SUFFICES ASSUME NEW n \in -1 .. L
               PROVE  \E rest \in Seq(Event(n + 1, L)) : C(L) = C(n) \o rest
    OBVIOUS
  <2> DEFINE X == Event(0, L)
             Z == Event(n + 1, L)
             more == EventsBetween(n + 1, L)
             rest == OfMsg(more, "config")
             Y == {e \in Z : Selects(e, 0, {"config"})}
  <2>1. Logged(L) = Logged(n) \o more
    BY <1>0, LoggedSplit
  <2>2. Logged(n) \in Seq(Event(1, n)) /\ more \in Seq(Z) /\ n + 1 \in Nat
    BY <1>0, LoggedIn, BetweenIn
  <2>3. Logged(n) \in Seq(X) /\ more \in Seq(X)
    BY <1>0, <2>2, EventSets
  <2> HIDE DEF X, Z, more, Y
  <2>4. C(L) = C(n) \o rest
    BY <2>1, <2>3, SinceOfBoth DEF OfMsg
  <2>5. rest \in Seq(Y) /\ Y \subseteq Z
    BY <2>2, SinceIn DEF OfMsg, Y
  <2> HIDE DEF rest, C
  <2>6. rest \in Seq(Z)
    BY <2>5
  <2> QED
    BY <2>4, <2>6 DEF Z
<1> HIDE DEF C
<1>4. \A i \in DOMAIN C(L) : C(L)[i].Height \in 1 .. L /\ C(L)[i].Height \in S
  <2>1. C(L) \in Seq(Event(1, L))
    BY <1>0, <1>1
  <2>2. \A i \in DOMAIN C(L) : C(L)[i] \in Event(1, L) /\ C(L)[i] \in ToSet(C(L))
    BY <2>1 DEF ToSet
  <2>3. \A e \in Event(1, L) : e.Height \in 1 .. L
    BY DEF Event
  <2> QED
    BY <2>2, <2>3
<1>5. \A x \in S : x = L + 1 \/ \E i \in DOMAIN C(L) : x = C(L)[i].Height
  BY DEF ToSet
<1>6. L + 1 \in S
  OBVIOUS
<1> HIDE DEF S
<1> DEFINE R == RegisteredAt
<1>7. R \in S /\ \A y \in S : R <= y
  <2>1. S \in SUBSET Nat /\ S # {}
    BY <1>0, <1>4, <1>5, <1>6
  <2>2. \E x \in S : \A y \in S : x <= y
    BY <2>1, LeastNat
  <2> QED
    BY <1>2, <2>2
<1> HIDE DEF R
<1>8. R \in 1 .. L + 1
  BY <1>0, <1>4, <1>5, <1>7
<1>9. ASSUME NEW n \in -1 .. L PROVE R <= n <=> C(n) # <<>>
  <2>1. PICK rest \in Seq(Event(n + 1, L)) : C(L) = C(n) \o rest
    BY <1>3
  <2>2. C(n) \in Seq(Event(1, n))
    BY <1>1
  <2>3. ASSUME R <= n PROVE C(n) # <<>>
    <3> SUFFICES ASSUME C(n) = <<>> PROVE FALSE
      OBVIOUS
    <3>1. R # L + 1
      BY <1>0, <2>3
    <3>2. PICK i \in DOMAIN C(L) : R = C(L)[i].Height
      BY <1>5, <1>7, <3>1
    <3>3. C(L) = rest
      <4>1. <<>> \o rest = rest
        OBVIOUS
      <4> QED
        BY <2>1, <4>1
    <3>4. C(L)[i] \in Event(n + 1, L)
      BY <3>2, <3>3
    <3>5. \A e \in Event(n + 1, L) : e.Height >= n + 1
      BY DEF Event
    <3> QED
      BY <1>8, <2>3, <3>2, <3>4, <3>5
  <2>4. ASSUME C(n) # <<>> PROVE R <= n
    <3>1. 1 \in DOMAIN C(n) /\ C(n)[1] \in Event(1, n)
      BY <2>2, <2>4
    <3>2. C(L)[1] = C(n)[1] /\ 1 \in DOMAIN C(L)
      BY <2>1, <2>2, <3>1
    <3>3. C(n)[1].Height <= n /\ C(n)[1].Height \in Int
      <4>1. \A e \in Event(1, n) : e.Height <= n /\ e.Height \in Int
        BY DEF Event
      <4> QED
        BY <3>1, <4>1
    <3>4. R <= C(n)[1].Height
      BY <1>4, <1>7, <3>2
    <3> QED
      BY <1>8, <3>3, <3>4
  <2> QED
    BY <2>3, <2>4
<1> QED
  BY <1>8, <1>9 DEF R, C

-----------------------------------------------------------------------------
(* What the keyper has of a log: log[n] is what the first n of its blocks  *)
(* contain.                                                                *)

(* log is the log of n blocks: it only grows.                              *)
IsLog(log, n) ==
    /\ n \in Nat
    /\ \A b \in -1 .. n : log[b] \in Seq(Event(1, b))
    /\ \A b \in -1 .. n : \A a \in -1 .. b :
          \E rest \in Seq(Event(a + 1, b)) : log[b] = log[a] \o rest

(* Of the kinds M and the blocks from r to n, events has what is logged,   *)
(* each once and in order.                                                 *)
AsLogged(log, events, n, r, M) == Since(events, r, M) = Since(log[n], r, M)

(* The larger one of two heights.                                          *)
Larger(a, b) == IF a >= b THEN a ELSE b

(* The fields of an event.                                                 *)
LEMMA EventHeights ==
    ASSUME NEW a \in Int, NEW b \in Int
    PROVE  \A e \in Event(a, b) : /\ e.Height \in Int /\ a <= e.Height /\ e.Height <= b
                                  /\ e.Msg.Msg \in Msg
<1> SUFFICES ASSUME NEW e \in Event(a, b)
             PROVE  /\ e.Height \in Int /\ a <= e.Height /\ e.Height <= b
                    /\ e.Msg.Msg \in Msg
  OBVIOUS
<1>1. e.Height \in a .. b /\ e.Msg \in Tx
  BY DEF Event
<1>2. e.Msg.Msg \in Msg
  BY <1>1, TxAssumption
<1> QED
  BY <1>1, <1>2

(* What is logged is not above its block.                                  *)
LEMMA LoggedBelow ==
    ASSUME NEW log, NEW n, IsLog(log, n), NEW b \in -1 .. n
    PROVE  log[b] \in Seq(Event(0, b))
<1>1. log[b] \in Seq(Event(1, b))
  BY DEF IsLog
<1>2. Seq(Event(1, b)) \subseteq Seq(Event(0, b))
  BY EventSets
<1> QED
  BY <1>1, <1>2

(* Nothing is logged after the last block.                                 *)
LEMMA NothingLater ==
    ASSUME NEW b \in Int, NEW events \in Seq(Event(0, b)), NEW r \in Int, r > b, NEW msgs
    PROVE  Since(events, r, msgs) = <<>>
<1>1. \A e \in Event(0, b) : ~Selects(e, r, msgs)
  BY EventHeights DEF Selects
<1> QED
  BY <1>1, SinceNone

(* What is as logged since r is so since any later block, and after the    *)
(* last block nothing is missing.                                          *)
LEMMA AsLoggedLater ==
    ASSUME NEW log, NEW n, IsLog(log, n), NEW b \in -1 .. n,
           NEW events \in Seq(Event(0, b)),
           NEW r \in Int, NEW q \in Int, r <= q, NEW M, AsLogged(log, events, b, r, M)
    PROVE  AsLogged(log, events, b, q, M)
<1> DEFINE X == Event(0, b)
<1>1. \A e \in X : Selects(e, r, M) /\ Selects(e, q, M) <=> Selects(e, q, M)
  BY EventHeights DEF Selects
<1>2. log[b] \in Seq(X)
  BY LoggedBelow
<1> HIDE DEF X
<1>3. Since(Since(events, r, M), q, M) = Since(events, q, M)
  BY <1>1, SinceTwice DEF X
<1>4. Since(Since(log[b], r, M), q, M) = Since(log[b], q, M)
  BY <1>1, <1>2, SinceTwice
<1> QED
  BY <1>3, <1>4 DEF AsLogged

LEMMA AsLoggedAfterAll ==
    ASSUME NEW log, NEW n, IsLog(log, n), NEW b \in -1 .. n,
           NEW events \in Seq(Event(0, b)), NEW r \in Int, r > b, NEW M
    PROVE  AsLogged(log, events, b, r, M)
<1>1. log[b] \in Seq(Event(0, b))
  BY LoggedBelow
<1>2. Since(events, r, M) = <<>> /\ Since(log[b], r, M) = <<>>
  BY <1>1, NothingLater
<1> QED
  BY <1>2 DEF AsLogged

(* The events of more blocks are fetched, all but the configs.             *)
LEMMA AsLoggedFetched ==
    ASSUME NEW log, NEW n, IsLog(log, n), NEW b \in -1 .. n, NEW a \in -1 .. b,
           NEW events \in Seq(Event(0, a)), NEW new \in Seq(Event(a + 1, b)),
           log[b] = log[a] \o new,
           NEW r \in Int, NEW M \in SUBSET Msg, "config" \notin M, AsLogged(log, events, a, r, M)
    PROVE  LET more == events \o Since(new, 0, Msg \ {"config"})
           IN  more \in Seq(Event(0, b)) /\ AsLogged(log, more, b, r, M)
<1> DEFINE X == Event(0, b)
           kinds == Msg \ {"config"}
           kept == Since(new, 0, kinds)
           Y == {e \in X : Selects(e, 0, kinds)}
<1>0. \A x : x \in kinds <=> x \in Msg /\ x # "config"
  OBVIOUS
<1> HIDE DEF kinds
<1>1. events \in Seq(X) /\ new \in Seq(X) /\ log[a] \in Seq(X)
  <2>1. /\ Seq(Event(0, a)) \subseteq Seq(X)
        /\ Seq(Event(a + 1, b)) \subseteq Seq(X)
    BY EventSets
  <2>2. a \in -1 .. n
    BY DEF IsLog
  <2>3. log[a] \in Seq(Event(0, a))
    BY <2>2, LoggedBelow
  <2> QED
    BY <2>1, <2>3
<1>2. \A e \in X : e.Height >= 0
  BY EventHeights
<1>3. \A e \in X : Selects(e, 0, kinds) /\ Selects(e, r, M) <=> Selects(e, r, M)
  BY <1>0, <1>2 DEF Selects
<1>4. Y \subseteq X
  OBVIOUS
<1> HIDE DEF X
<1>5. kept \in Seq(Y)
  BY <1>1, SinceIn
<1> HIDE DEF Y
<1>6. kept \in Seq(X)
  <2> HIDE DEF kept
  <2> QED
    BY <1>4, <1>5
<1>7. Since(kept, r, M) = Since(new, r, M)
  BY <1>1, <1>3, SinceTwice
<1> HIDE DEF kept
<1>8. Since(events \o kept, r, M) = Since(events, r, M) \o Since(kept, r, M)
  BY <1>1, <1>6, SinceOfBoth
<1>9. Since(log[a] \o new, r, M) = Since(log[a], r, M) \o Since(new, r, M)
  <2> DEFINE u == log[a]
  <2>1. u \in Seq(X)
    BY <1>1
  <2> HIDE DEF u
  <2>2. Since(u \o new, r, M) = Since(u, r, M) \o Since(new, r, M)
    BY <1>1, <2>1, SinceOfBoth
  <2> QED
    BY <2>2 DEF u
<1>10. AsLogged(log, events \o kept, b, r, M)
  BY <1>7, <1>8, <1>9 DEF AsLogged
<1>11. events \o kept \in Seq(X)
  BY <1>1, <1>6
<1> QED
  BY <1>10, <1>11 DEF X, kept, kinds

(* A filter: the DKG's events at its height and later stay.                *)
LEMMA AsLoggedFiltered ==
    ASSUME NEW log, NEW b \in Int, NEW events \in Seq(Event(0, b)),
           NEW height \in Int, NEW r \in Int, height <= r, NEW M \in SUBSET Msg, "share" \notin M,
           AsLogged(log, events, b, r, M)
    PROVE  AsLogged(log, FilterSyncHeight(events, height), b, r, M)
<1> DEFINE X == Event(0, b)
           kinds == Msg \ {"share"}
<1>0. \A x : x \in kinds <=> x \in Msg /\ x # "share"
  OBVIOUS
<1> HIDE DEF kinds
<1>1. \A e \in X : Selects(e, height, kinds) /\ Selects(e, r, M) <=> Selects(e, r, M)
  BY <1>0, EventHeights DEF Selects
<1> HIDE DEF X
<1>2. Since(Since(events, height, kinds), r, M) = Since(events, r, M)
  BY <1>1, SinceTwice DEF X
<1> QED
  BY <1>2 DEF AsLogged, FilterSyncHeight, kinds

(* A filter adds nothing.                                                  *)
LEMMA FilteredIn ==
    ASSUME NEW X, NEW events \in Seq(X), NEW height
    PROVE  FilterSyncHeight(events, height) \in Seq(X)
<1> DEFINE kinds == Msg \ {"share"}
           Y == {e \in X : Selects(e, height, kinds)}
           s == Since(events, height, kinds)
<1> HIDE DEF kinds
<1>1. s \in Seq(Y) /\ Y \subseteq X
  BY SinceIn
<1> HIDE DEF s, Y
<1>2. s \in Seq(X)
  BY <1>1
<1> QED
  BY <1>2 DEF s, FilterSyncHeight, kinds

(* The events from the block at next on are handled.                       *)
LEMMA AsLoggedHandled ==
    ASSUME NEW log, NEW n, IsLog(log, n), NEW b \in -1 .. n, NEW next \in 0 .. b + 1,
           NEW handled \in Seq(Event(0, next - 1)), NEW events \in Seq(Event(0, b)),
           NEW r \in Nat, NEW M \in SUBSET Msg,
           AsLogged(log, handled, next - 1, r, M),
           AsLogged(log, events, b, Larger(next, r), M)
    PROVE  LET all == handled \o From(events, next)
           IN  all \in Seq(Event(0, b)) /\ AsLogged(log, all, b, r, M)
<1> DEFINE X == Event(0, b)
           Y == {e \in X : Selects(e, next, Msg)}
           new == Since(events, next, Msg)
           q == Larger(next, r)
           a == next - 1
<1>1. a \in Int /\ a \in -1 .. b /\ a \in -1 .. n /\ a + 1 = next /\ q \in Int
  BY DEF IsLog, Larger
<1>2. PICK rest \in Seq(Event(next, b)) : log[b] = log[a] \o rest
  BY <1>1 DEF IsLog
<1>3. handled \in Seq(X) /\ log[a] \in Seq(X) /\ rest \in Seq(X) /\ log[b] \in Seq(X)
  <2>1. Seq(Event(0, a)) \subseteq Seq(X) /\ Seq(Event(next, b)) \subseteq Seq(X)
    BY <1>1, EventSets
  <2>2. log[a] \in Seq(Event(0, a)) /\ log[b] \in Seq(X)
    BY <1>1, LoggedBelow
  <2> QED
    BY <2>1, <2>2
<1>4. \A e \in X : e.Height \in Int /\ e.Msg.Msg \in Msg
  BY EventHeights
<1>5. \A e \in X : Selects(e, next, Msg) /\ Selects(e, r, M) <=> Selects(e, q, M)
  BY <1>4 DEF Selects, Larger
<1>6. \A e \in Event(next, b) : Selects(e, r, M) <=> Selects(e, q, M)
  <2>1. \A e \in Event(next, b) : e.Height \in Int /\ next <= e.Height
    BY EventHeights
  <2> QED
    BY <2>1 DEF Selects, Larger
<1>7. Since(log[a], q, M) = <<>>
  <2>1. log[a] \in Seq(Event(0, a)) /\ q > a
    BY <1>1, LoggedBelow DEF Larger
  <2> QED
    BY <1>1, <2>1, NothingLater
<1>8. new \in Seq(X)
  <2>1. new \in Seq(Y) /\ Y \subseteq X
    BY SinceIn
  <2> HIDE DEF new, Y, X
  <2> QED
    BY <2>1
<1> HIDE DEF q, a
<1>9. Since(new, r, M) = Since(events, q, M)
  BY <1>5, SinceTwice
<1>10. Since(rest, q, M) = Since(rest, r, M)
  BY <1>6, SinceSame
<1> HIDE DEF X, Y, new
<1>11. Since(handled \o new, r, M) = Since(handled, r, M) \o Since(new, r, M)
  <2>1. handled \in Seq(X) /\ new \in Seq(X)
    BY <1>3, <1>8
  <2> QED
    BY <2>1, SinceOfBoth
<1>12. /\ Since(log[b], r, M) = Since(log[a], r, M) \o Since(rest, r, M)
       /\ Since(log[b], q, M) = Since(log[a], q, M) \o Since(rest, q, M)
  <2> DEFINE u == log[a]
  <2>1. u \in Seq(X) /\ rest \in Seq(X) /\ log[b] = u \o rest
    BY <1>2, <1>3
  <2> HIDE DEF u
  <2>2. \A h : Since(u \o rest, h, M) = Since(u, h, M) \o Since(rest, h, M)
    BY <2>1, SinceOfBoth
  <2> QED
    BY <2>1, <2>2 DEF u
<1>13. <<>> \o Since(rest, q, M) = Since(rest, q, M)
  <2>1. Since(rest, q, M) \in Seq({e \in X : Selects(e, q, M)})
    BY <1>3, SinceIn
  <2> QED
    BY <2>1
<1>14. Since(handled, r, M) = Since(log[a], r, M)
       /\ Since(events, q, M) = Since(log[b], q, M)
  BY DEF AsLogged, a, q
<1>15. AsLogged(log, handled \o new, b, r, M)
  BY <1>7, <1>9, <1>10, <1>11, <1>12, <1>13, <1>14 DEF AsLogged
<1>16. handled \o new \in Seq(X)
  BY <1>3, <1>8
<1> QED
  BY <1>15, <1>16 DEF X, new, From

(* The log of the chain.                                                   *)
Log == [n \in -1 .. Len(blocks) |-> Logged(n)]

LEMMA LogIsLog ==
    ASSUME blocks \in Seq(Seq(Tx))
    PROVE  IsLog(Log, Len(blocks)) /\ \A n \in -1 .. Len(blocks) : Log[n] = Logged(n)
<1>1. Len(blocks) \in Nat
  OBVIOUS
<1>2. \A n \in -1 .. Len(blocks) : Log[n] = Logged(n)
  BY DEF Log
<1>3. \A n \in -1 .. Len(blocks) : Log[n] \in Seq(Event(1, n))
  BY <1>2, LoggedIn
<1>4. ASSUME NEW b \in -1 .. Len(blocks), NEW a \in -1 .. b
      PROVE  \E rest \in Seq(Event(a + 1, b)) : Log[b] = Log[a] \o rest
  <2>1. a \in -1 .. Len(blocks) /\ a + 1 \in Nat
    BY <1>1
  <2>2. Logged(b) = Logged(a) \o EventsBetween(a + 1, b)
    BY LoggedSplit
  <2>3. EventsBetween(a + 1, b) \in Seq(Event(a + 1, b))
    BY <2>1, BetweenIn
  <2> QED
    BY <1>2, <2>1, <2>2, <2>3
<1> QED
  BY <1>1, <1>2, <1>3, <1>4 DEF IsLog

(* What a Shielder is like when there are n blocks and the keyper is       *)
(* registered in block reg, and a state of the keyper.                     *)
ShielderOK(n, reg, s) ==
    /\ s = [CurrentBlock |-> s.CurrentBlock, Registered |-> s.Registered,
            Events |-> s.Events, Filter |-> s.Filter]
    /\ s.CurrentBlock \in -1 .. n - 1
    /\ s.Events \in Seq(Event(0, s.CurrentBlock))
    /\ s.Registered \in BOOLEAN
    /\ s.Registered <=> reg <= s.CurrentBlock

StateOK(n, st) ==
    /\ st = [SyncHeight |-> st.SyncHeight, Handled |-> st.Handled]
    /\ st.SyncHeight \in 0 .. n
    /\ st.Handled \in Seq(Event(0, st.SyncHeight - 1))

(* The kinds of events that have to be handled, and since when.            *)
Key == [from : Nat, kinds : SUBSET (Msg \ {"config"})]

(* The Shielder has all that is to be handled yet, and all before has been *)
(* handled.                                                                *)
Fits(log, keys, st, s) ==
    /\ st.SyncHeight <= s.CurrentBlock + 1
    /\ \A k \in keys :
          AsLogged(log, s.Events, s.CurrentBlock, Larger(st.SyncHeight, k.from), k.kinds)

Handles(log, keys, st) ==
    \A k \in keys : AsLogged(log, st.Handled, st.SyncHeight - 1, k.from, k.kinds)

-----------------------------------------------------------------------------
(* What the main loop, the filters and the goroutine make of a state and a *)
(* Shielder, for any log.                                                  *)

(* The fields of a key.                                                    *)
LEMMA KeyFields ==
    ASSUME NEW keys \in SUBSET Key, NEW k \in keys
    PROVE  k.from \in Nat /\ k.kinds \in SUBSET Msg /\ "config" \notin k.kinds
<1>1. k \in Key
  OBVIOUS
<1>2. k.from \in Nat /\ k.kinds \in SUBSET (Msg \ {"config"})
  BY <1>1 DEF Key
<1> DEFINE K == k.kinds
<1>3. K \subseteq Msg /\ "config" \notin K
  <2>1. K \in SUBSET (Msg \ {"config"})
    BY <1>2
  <2> HIDE DEF K
  <2> QED
    BY <2>1
<1> QED
  BY <1>2, <1>3

(* Decide handles what is left, if it decides at all.                      *)
LEMMA DecideFits ==
    ASSUME NEW log, NEW n, IsLog(log, n), NEW reg, NEW keys \in SUBSET Key,
           NEW st, StateOK(n, st), NEW w, ShielderOK(n, reg, w.Shielder),
           Fits(log, keys, st, w.Shielder)
    PROVE  LET state == Decide(st, w)
           IN  /\ StateOK(n, state)
               /\ Handles(log, keys, st) => Handles(log, keys, state)
               /\ st.SyncHeight <= state.SyncHeight
               /\ state.SyncHeight <= w.Shielder.CurrentBlock + 1
               /\ w.InSync /\ w.Shielder.Registered
                    => state.SyncHeight = w.Shielder.CurrentBlock + 1
<1> DEFINE s == w.Shielder
           state == Decide(st, w)
<1>0. n \in Nat
  BY DEF IsLog
<1>1. CASE ~(w.InSync /\ s.Registered)
  <2>1. state = st
    BY <1>1 DEF Decide
  <2>2. st.SyncHeight <= s.CurrentBlock + 1 /\ st.SyncHeight \in Int
    BY DEF Fits, StateOK
  <2> HIDE DEF state, s
  <2>3. \A x \in Int : x <= x
    OBVIOUS
  <2>4. /\ StateOK(n, state)
        /\ Handles(log, keys, st) => Handles(log, keys, state)
        /\ st.SyncHeight <= state.SyncHeight
        /\ state.SyncHeight <= s.CurrentBlock + 1
        /\ w.InSync /\ s.Registered => state.SyncHeight = s.CurrentBlock + 1
    BY <1>1, <2>1, <2>2, <2>3
  <2> QED
    BY <2>4 DEF state, s
<1>2. CASE w.InSync /\ s.Registered
  <2> DEFINE next == st.SyncHeight
             handled == st.Handled
             events == s.Events
             b == s.CurrentBlock
             all == handled \o From(events, next)
  <2>1. state = [SyncHeight |-> b + 1, Handled |-> all]
    BY <1>2 DEF Decide
  <2>2. /\ next \in 0 .. n /\ next <= b + 1 /\ b \in -1 .. n - 1
        /\ handled \in Seq(Event(0, next - 1)) /\ events \in Seq(Event(0, b))
    BY DEF StateOK, Fits, ShielderOK
  <2>3. /\ b \in -1 .. n /\ next \in 0 .. b + 1 /\ b \in Int /\ b + 1 \in 0 .. n
        /\ (b + 1) - 1 = b
    BY <1>0, <2>2
  <2>4. \A k \in keys : AsLogged(log, events, b, Larger(next, k.from), k.kinds)
    BY DEF Fits
  <2>5. Handles(log, keys, st) =>
          \A k \in keys : AsLogged(log, handled, next - 1, k.from, k.kinds)
    BY DEF Handles
  <2> HIDE DEF next, handled, events, b, s, state
  <2>6. all \in Seq(Event(0, b))
    <3> DEFINE none == {}
    <3>0. none \in SUBSET Msg /\ \A e : ~Selects(e, 0, none)
      BY DEF Selects
    <3> HIDE DEF none
    <3>1. b \in -1 .. n /\ next \in 0 .. b + 1 /\ handled \in Seq(Event(0, next - 1))
          /\ events \in Seq(Event(0, b)) /\ 0 \in Nat
      BY <2>2, <2>3
    <3>2. \A X : \A x \in Seq(X) : \A h : Since(x, h, none) = <<>>
      <4> SUFFICES ASSUME NEW X, NEW x \in Seq(X), NEW h PROVE Since(x, h, none) = <<>>
        OBVIOUS
      <4>1. \A e \in X : ~Selects(e, h, none)
        BY DEF Selects, none
      <4> QED
        BY <4>1, SinceNone
    <3>3. /\ log[b] \in Seq(Event(0, b))
          /\ log[next - 1] \in Seq(Event(0, next - 1))
      <4>1. next - 1 \in -1 .. n
        BY <1>0, <2>2, <2>3
      <4> QED
        BY <2>3, <4>1, LoggedBelow
    <3>4. /\ AsLogged(log, handled, next - 1, 0, none)
          /\ AsLogged(log, events, b, Larger(next, 0), none)
      BY <3>1, <3>2, <3>3 DEF AsLogged
    <3> QED
      BY <3>0, <3>1, <3>4, AsLoggedHandled
  <2>7. ASSUME Handles(log, keys, st), NEW k \in keys
        PROVE  AsLogged(log, all, b, k.from, k.kinds)
    <3> DEFINE r == k.from
               M == k.kinds
    <3>1. r \in Nat /\ M \in SUBSET Msg
      BY KeyFields
    <3>2. AsLogged(log, handled, next - 1, r, M) /\ AsLogged(log, events, b, Larger(next, r), M)
      BY <2>4, <2>5, <2>7
    <3> HIDE DEF r, M
    <3>3. AsLogged(log, all, b, r, M)
      BY <2>2, <2>3, <3>1, <3>2, AsLoggedHandled
    <3> QED
      BY <3>3 DEF r, M
  <2> HIDE DEF all
  <2>8. state.SyncHeight = b + 1 /\ state.Handled = all
        /\ state = [SyncHeight |-> state.SyncHeight, Handled |-> state.Handled]
    BY <2>1
  <2>9. StateOK(n, state)
    BY <2>3, <2>6, <2>8 DEF StateOK
  <2>10. Handles(log, keys, st) => Handles(log, keys, state)
    BY <2>3, <2>7, <2>8 DEF Handles
  <2>11. next <= state.SyncHeight /\ state.SyncHeight <= b + 1
    BY <2>3, <2>8
  <2> QED
    BY <2>8, <2>9, <2>10, <2>11 DEF state, s, next, b
<1> QED
  BY <1>1, <1>2

(* A newer state needs less of a Shielder.                                 *)
LEMMA FitsLater ==
    ASSUME NEW log, NEW n, IsLog(log, n), NEW reg, NEW keys \in SUBSET Key,
           NEW s, ShielderOK(n, reg, s), NEW st, Fits(log, keys, st, s),
           NEW later, st.SyncHeight \in Int, later.SyncHeight \in Int,
           st.SyncHeight <= later.SyncHeight, later.SyncHeight <= s.CurrentBlock + 1
    PROVE  Fits(log, keys, later, s)
<1> DEFINE next == st.SyncHeight
           after == later.SyncHeight
           b == s.CurrentBlock
           events == s.Events
<1>0. n \in Nat
  BY DEF IsLog
<1>1. /\ next \in Int /\ after \in Int /\ next <= after
      /\ b \in -1 .. n - 1 /\ events \in Seq(Event(0, b))
      /\ \A k \in keys : AsLogged(log, events, b, Larger(next, k.from), k.kinds)
  BY DEF ShielderOK, Fits
<1>2. b \in -1 .. n
  BY <1>0, <1>1
<1> HIDE DEF next, after, b, events
<1>3. ASSUME NEW k \in keys
      PROVE  AsLogged(log, events, b, Larger(after, k.from), k.kinds)
  <2> DEFINE r == k.from
             M == k.kinds
  <2>1. r \in Nat /\ AsLogged(log, events, b, Larger(next, r), M)
    BY <1>1, KeyFields
  <2> HIDE DEF r, M
  <2>2. Larger(next, r) \in Int /\ Larger(after, r) \in Int /\ Larger(next, r) <= Larger(after, r)
    BY <1>1, <2>1 DEF Larger
  <2>3. AsLogged(log, events, b, Larger(after, r), M)
    BY <1>1, <1>2, <2>1, <2>2, AsLoggedLater
  <2> QED
    BY <2>3 DEF r, M
<1> QED
  BY <1>3 DEF Fits, after, b, events

(* ApplyFilter, field by field.                                            *)
LEMMA ApplyFilterIs ==
    ASSUME NEW s, NEW filter, NeedsUpdate(s.Filter, filter),
           s = [CurrentBlock |-> s.CurrentBlock, Registered |-> s.Registered,
                Events |-> s.Events, Filter |-> s.Filter]
    PROVE  ApplyFilter(s, filter)
             = [CurrentBlock |-> s.CurrentBlock, Registered |-> s.Registered,
                Events |-> FilterSyncHeight(s.Events, filter.SyncHeight),
                Filter |-> filter]
<1> DEFINE b == s.CurrentBlock
           g == s.Registered
           events == s.Events
           old == s.Filter
           x == FilterSyncHeight(s.Events, filter.SyncHeight)
           r == [CurrentBlock |-> b, Registered |-> g, Events |-> events, Filter |-> old]
           t == [CurrentBlock |-> b, Registered |-> g, Events |-> events, Filter |-> filter]
           u == [CurrentBlock |-> b, Registered |-> g, Events |-> x, Filter |-> filter]
<1>1. ApplyFilter(s, filter) = [s EXCEPT !.Filter = filter, !.Events = x]
  BY DEF ApplyFilter
<1>2. s = r
  OBVIOUS
<1> HIDE DEF b, g, events, old, x
<1>3. [r EXCEPT !.Filter = filter] = t
  OBVIOUS
<1>4. [t EXCEPT !.Events = x] = u
  OBVIOUS
<1> HIDE DEF r, t, u
<1>5. [s EXCEPT !.Filter = filter] = t
  BY <1>2, <1>3, Zenon
<1>6. [[s EXCEPT !.Filter = filter] EXCEPT !.Events = x] = u
  BY <1>4, <1>5, Zenon
<1> QED
  BY <1>1, <1>6, Zenon DEF u, b, g, x

(* No share in the Shielder is asked for by keys.                          *)
NoShares(keys, st, s) ==
    \A k \in keys : \/ "share" \notin k.kinds
                    \/ Larger(st.SyncHeight, k.from) > s.CurrentBlock

(* A filter that is not newer than the keyper's state takes nothing that   *)
(* is to be handled yet.                                                   *)
LEMMA FilterFits ==
    ASSUME NEW log, NEW n, IsLog(log, n), NEW reg, NEW keys \in SUBSET Key,
           NEW s, ShielderOK(n, reg, s), NEW st, st.SyncHeight \in Int, Fits(log, keys, st, s),
           NEW filter, filter.SyncHeight \in Int, filter.SyncHeight <= st.SyncHeight,
           NoShares(keys, st, s)
    PROVE  LET t == ApplyFilter(s, filter)
           IN  /\ ShielderOK(n, reg, t) /\ Fits(log, keys, st, t)
               /\ t.CurrentBlock = s.CurrentBlock /\ t.Registered = s.Registered
<1> DEFINE t == ApplyFilter(s, filter)
           x == FilterSyncHeight(s.Events, filter.SyncHeight)
<1>1. CASE ~NeedsUpdate(s.Filter, filter)
  <2>1. t = s
    BY <1>1 DEF ApplyFilter
  <2> QED
    BY <2>1
<1>2. CASE NeedsUpdate(s.Filter, filter)
  <2> DEFINE b == s.CurrentBlock
             events == s.Events
             next == st.SyncHeight
             f == filter.SyncHeight
             g == s.Registered
  <2>2. t = [CurrentBlock |-> b, Registered |-> g, Events |-> x, Filter |-> filter]
    BY <1>2, ApplyFilterIs DEF ShielderOK
  <2>3. /\ b \in -1 .. n - 1 /\ events \in Seq(Event(0, b)) /\ g \in BOOLEAN
        /\ g <=> reg <= b
        /\ next <= b + 1 /\ next \in Int /\ f \in Int /\ f <= next
        /\ \A k \in keys : AsLogged(log, events, b, Larger(next, k.from), k.kinds)
        /\ \A k \in keys : "share" \notin k.kinds \/ Larger(next, k.from) > b
    BY DEF ShielderOK, Fits, NoShares
  <2>4. n \in Nat /\ b \in Int /\ b \in -1 .. n
    BY <2>3 DEF IsLog
  <2>5. x = FilterSyncHeight(events, f)
    OBVIOUS
  <2> HIDE DEF x, t, b, events, next, f, g
  <2>6. x \in Seq(Event(0, b))
    BY <2>3, <2>5, FilteredIn
  <2>7. ASSUME NEW k \in keys
        PROVE  AsLogged(log, x, b, Larger(next, k.from), k.kinds)
    <3> DEFINE r == Larger(next, k.from)
               M == k.kinds
    <3>1. M \in SUBSET Msg /\ r \in Int /\ next <= r
      <4> DEFINE q == k.from
      <4>1. q \in Nat /\ M \in SUBSET Msg
        BY KeyFields
      <4> HIDE DEF q, M
      <4>2. Larger(next, q) \in Int /\ next <= Larger(next, q)
        BY <2>3, <4>1 DEF Larger
      <4> QED
        BY <4>1, <4>2 DEF q
    <3>2. AsLogged(log, events, b, r, M)
      BY <2>3
    <3>3. "share" \notin M \/ r > b
      BY <2>3
    <3> HIDE DEF r, M
    <3>4. CASE "share" \notin M
      <4>1. f <= r
        BY <2>3, <3>1
      <4>2. AsLogged(log, x, b, r, M)
        BY <2>3, <2>4, <2>5, <3>1, <3>2, <3>4, <4>1, AsLoggedFiltered
      <4> QED
        BY <4>2 DEF r, M
    <3>5. CASE r > b
      <4>1. AsLogged(log, x, b, r, M)
        BY <2>4, <2>6, <3>1, <3>5, AsLoggedAfterAll
      <4> QED
        BY <4>1 DEF r, M
    <3> QED
      BY <3>3, <3>4, <3>5
  <2>8. /\ t.CurrentBlock = b /\ t.Registered = g /\ t.Events = x
        /\ t = [CurrentBlock |-> t.CurrentBlock, Registered |-> t.Registered,
                Events |-> t.Events, Filter |-> t.Filter]
    BY <2>2
  <2>9. ShielderOK(n, reg, t)
    BY <2>3, <2>6, <2>8 DEF ShielderOK
  <2>10. Fits(log, keys, st, t)
    BY <2>3, <2>7, <2>8 DEF Fits, next
  <2> QED
    BY <2>8, <2>9, <2>10 DEF t, b, g
<1> QED
  BY <1>1, <1>2

(* fetchAndApplyEvents, field by field.                                    *)
LEMMA FetchIs ==
    ASSUME NEW s, NEW height,
           s = [CurrentBlock |-> s.CurrentBlock, Registered |-> s.Registered,
                Events |-> s.Events, Filter |-> s.Filter]
    PROVE  LET new == EventsBetween(s.CurrentBlock + 1, height)
           IN  fetchAndApplyEvents(s, height)
                 = [CurrentBlock |-> height,
                    Registered |-> s.Registered \/ OfMsg(new, "config") # <<>>,
                    Events |-> s.Events \o Since(new, 0, Msg \ {"config"}),
                    Filter |-> s.Filter]
<1> DEFINE new == EventsBetween(s.CurrentBlock + 1, height)
           b == s.CurrentBlock
           g == s.Registered
           events == s.Events
           f == s.Filter
           h == s.Registered \/ OfMsg(new, "config") # <<>>
           x == s.Events \o Since(new, 0, Msg \ {"config"})
           r == [CurrentBlock |-> b, Registered |-> g, Events |-> events, Filter |-> f]
           t == [CurrentBlock |-> b, Registered |-> h, Events |-> events, Filter |-> f]
           u == [CurrentBlock |-> b, Registered |-> h, Events |-> x, Filter |-> f]
           v == [CurrentBlock |-> height, Registered |-> h, Events |-> x, Filter |-> f]
<1>1. fetchAndApplyEvents(s, height)
        = [s EXCEPT !.Registered = h, !.Events = x, !.CurrentBlock = height]
  BY Zenon DEF fetchAndApplyEvents
<1>2. s = r
  OBVIOUS
<1> HIDE DEF b, g, events, f, h, x
<1>3. [r EXCEPT !.Registered = h] = t
  OBVIOUS
<1>4. [t EXCEPT !.Events = x] = u
  OBVIOUS
<1>5. [u EXCEPT !.CurrentBlock = height] = v
  OBVIOUS
<1> HIDE DEF r, t, u, v
<1>6. [s EXCEPT !.Registered = h] = t
  BY <1>2, <1>3, Zenon
<1>7. [[s EXCEPT !.Registered = h] EXCEPT !.Events = x] = u
  BY <1>4, <1>6, Zenon
<1>8. [[[s EXCEPT !.Registered = h] EXCEPT !.Events = x] EXCEPT !.CurrentBlock = height] = v
  BY <1>5, <1>7, Zenon
<1> QED
  BY <1>1, <1>8, Zenon DEF v, h, x, f

(* What is fetched is all that is to be handled since the last block.      *)
LEMMA FetchFits ==
    ASSUME blocks \in Seq(Seq(Tx)), NEW keys \in SUBSET Key, NEW st, st.SyncHeight \in Int,
           NEW s, ShielderOK(Len(blocks), RegisteredAt, s), Fits(Log, keys, st, s),
           NEW height \in Int, height = Len(blocks) - 1, s.CurrentBlock <= height
    PROVE  LET t == fetchAndApplyEvents(s, height)
           IN  /\ ShielderOK(Len(blocks), RegisteredAt, t) /\ Fits(Log, keys, st, t)
               /\ t.CurrentBlock = height
<1> DEFINE n == Len(blocks)
           reg == RegisteredAt
           log == Log
           t == fetchAndApplyEvents(s, height)
           a == s.CurrentBlock
           g == s.Registered
           events == s.Events
           next == st.SyncHeight
           new == EventsBetween(a + 1, height)
           more == events \o Since(new, 0, Msg \ {"config"})
           found == OfMsg(new, "config")
           h == g \/ found # <<>>
<1>1. a \in -1 .. n - 1 /\ a <= height /\ height = n - 1
  BY DEF ShielderOK
<1>17. events \in Seq(Event(0, a))
  BY DEF ShielderOK
<1>18. g \in BOOLEAN /\ (g <=> reg <= a)
  BY DEF ShielderOK
<1>19. next <= a + 1 /\ next \in Int
  BY DEF Fits
<1>20. \A k \in keys : AsLogged(log, events, a, Larger(next, k.from), k.kinds)
  BY DEF Fits
<1>2. n \in Nat
  OBVIOUS
<1>3. t = [CurrentBlock |-> height, Registered |-> h, Events |-> more, Filter |-> s.Filter]
  BY FetchIs DEF ShielderOK
<1>4. IsLog(log, n) /\ \A m \in -1 .. n : log[m] = Logged(m)
  BY LogIsLog
<1>5. /\ reg \in 1 .. n + 1
      /\ \A m \in -1 .. n : reg <= m <=> OfMsg(log[m], "config") # <<>>
  <2>1. /\ reg \in 1 .. n + 1
        /\ \A m \in -1 .. n : reg <= m <=> OfMsg(Logged(m), "config") # <<>>
    BY RegisteredAtIs
  <2> HIDE DEF n, reg, log
  <2> QED
    BY <1>4, <2>1
<1> HIDE DEF a, n
<1>6. height \in -1 .. n /\ a \in -1 .. height /\ a \in -1 .. n /\ a + 1 \in Nat
  BY <1>1, <1>2
<1>7. log[height] = log[a] \o new
  <2>1. Logged(height) = Logged(a) \o new
    BY <1>6, LoggedSplit DEF n
  <2>2. log[height] = Logged(height) /\ log[a] = Logged(a)
    BY <1>4, <1>6
  <2> HIDE DEF log, new
  <2> QED
    BY <2>1, <2>2
<1>8. new \in Seq(Event(a + 1, height))
  BY <1>6, BetweenIn DEF n
<1> HIDE DEF n, reg, log, new, found, events, next, g
<1>9. ASSUME NEW r \in Int, NEW M \in SUBSET Msg, "config" \notin M,
             AsLogged(log, events, a, r, M)
      PROVE  more \in Seq(Event(0, height)) /\ AsLogged(log, more, height, r, M)
  <2>1. /\ IsLog(log, n) /\ height \in -1 .. n /\ a \in -1 .. height
        /\ events \in Seq(Event(0, a)) /\ new \in Seq(Event(a + 1, height))
        /\ log[height] = log[a] \o new
    BY <1>4, <1>6, <1>7, <1>8, <1>17
  <2> QED
    BY <1>9, <2>1, AsLoggedFetched, Zenon
<1> HIDE DEF more
<1>10. more \in Seq(Event(0, height))
  <2> DEFINE none == {}
  <2>1. none \in SUBSET Msg /\ "config" \notin none
    OBVIOUS
  <2> HIDE DEF none
  <2>2. \A X : \A x \in Seq(X) : Since(x, 0, none) = <<>>
    <3> SUFFICES ASSUME NEW X, NEW x \in Seq(X) PROVE Since(x, 0, none) = <<>>
      OBVIOUS
    <3>1. \A e \in X : ~Selects(e, 0, none)
      BY DEF Selects, none
    <3> QED
      BY <3>1, SinceNone
  <2>3. log[a] \in Seq(Event(0, a))
    BY <1>4, <1>6, LoggedBelow
  <2>4. AsLogged(log, events, a, 0, none)
    <3> DEFINE la == log[a]
    <3>1. events \in Seq(Event(0, a)) /\ la \in Seq(Event(0, a))
      BY <1>17, <2>3
    <3> HIDE DEF la
    <3>2. Since(events, 0, none) = <<>> /\ Since(la, 0, none) = <<>>
      BY <2>2, <3>1
    <3> QED
      BY <3>2 DEF AsLogged, la
  <2> QED
    BY <1>9, <2>1, <2>4
<1>11. ASSUME NEW k \in keys
       PROVE  AsLogged(log, more, height, Larger(next, k.from), k.kinds)
  <2> DEFINE q == k.from
             r == Larger(next, q)
             M == k.kinds
  <2>1. q \in Nat /\ M \in SUBSET Msg /\ "config" \notin M
    BY KeyFields
  <2>2. AsLogged(log, events, a, r, M)
    BY <1>20
  <2> HIDE DEF q, M
  <2>3. r \in Int
    BY <1>19, <2>1 DEF Larger
  <2> HIDE DEF r
  <2>4. AsLogged(log, more, height, r, M)
    BY <1>9, <2>1, <2>2, <2>3
  <2> QED
    BY <2>4 DEF r, q, M
<1>12. h <=> reg <= height
  <2> DEFINE c == OfMsg(log[height], "config")
             d == OfMsg(log[a], "config")
             X == Event(0, n)
  <2>1. log[a] \in Seq(X) /\ new \in Seq(X)
    <3>1. log[a] \in Seq(Event(0, a))
      BY <1>4, <1>6, LoggedBelow
    <3>2. Seq(Event(0, a)) \subseteq Seq(X) /\ Seq(Event(a + 1, height)) \subseteq Seq(X)
      BY <1>1, <1>2, <1>6, EventSets
    <3> QED
      BY <1>8, <3>1, <3>2
  <2>2. c = d \o found
    <3> DEFINE la == log[a]
               lb == log[height]
               M == {"config"}
    <3>1. la \in Seq(X) /\ new \in Seq(X) /\ lb = la \o new
      BY <1>7, <2>1
    <3> HIDE DEF la, lb, M, X
    <3>2. Since(lb, 0, M) = Since(la, 0, M) \o Since(new, 0, M)
      BY <3>1, SinceOfBoth
    <3> QED
      BY <3>2, Zenon DEF OfMsg, la, lb, M, found
  <2>3. \E Y : d \in Seq(Y) /\ found \in Seq(Y)
    <3> DEFINE Y == {e \in X : Selects(e, 0, {"config"})}
    <3>1. d \in Seq(Y) /\ found \in Seq(Y)
      BY <2>1, SinceIn DEF OfMsg, found
    <3> QED
      BY <3>1
  <2>4. (d \o found = <<>>) <=> (d = <<>> /\ found = <<>>)
    <3> HIDE DEF c, d
    <3> QED
      BY <2>3, ConcatEqualIffEmpty
  <2>5. (reg <= height <=> c # <<>>) /\ (reg <= a <=> d # <<>>)
    BY <1>5, <1>6
  <2> HIDE DEF c, d
  <2>6. g <=> reg <= a
    BY <1>18
  <2> QED
    BY <2>2, <2>4, <2>5, <2>6 DEF h
<1> HIDE DEF h
<1>13. h \in BOOLEAN
  BY <1>18 DEF h
<1> HIDE DEF t
<1>14. /\ t.CurrentBlock = height /\ t.Registered = h /\ t.Events = more
       /\ t = [CurrentBlock |-> t.CurrentBlock, Registered |-> t.Registered,
               Events |-> t.Events, Filter |-> t.Filter]
  BY <1>3
<1>15. ShielderOK(n, reg, t)
  BY <1>1, <1>6, <1>10, <1>12, <1>13, <1>14 DEF ShielderOK
<1>16. Fits(log, keys, st, t)
  BY <1>1, <1>6, <1>11, <1>14, <1>19 DEF Fits, next
<1> QED
  BY <1>14, <1>15, <1>16 DEF n, reg, log, t

-----------------------------------------------------------------------------
(* The inductive invariant of a keyper that observes its node.             *)

Deals == {"deal"}
Shares == {"share"}
DealKey == [from |-> 0, kinds |-> Deals]
ShareKey(reg) == [from |-> reg, kinds |-> Shares]

(* What has to be handled: the DKG's events, and the shares since the      *)
(* keyper is registered, unless a decision was put off.                    *)
Wanted == {k \in {DealKey, ShareKey(RegisteredAt)} : skipped => k = DealKey}

(* The filters that the main loop has sent when the next block to be       *)
(* handled is next.                                                        *)
Filters(next) == [SyncHeight : 0 .. next, BatchIndex : Nat]

(* The Shielder of the goroutine has all that the main loop needs yet.     *)
SyncOK ==
    /\ sync = [Shielder |-> sync.Shielder, sending |-> sync.sending]
    /\ sync.sending \in BOOLEAN
    /\ ShielderOK(Len(blocks), RegisteredAt, sync.Shielder)
    /\ Fits(Log, Wanted, State, sync.Shielder)

(* The main loop's Shielder is not newer than that of the goroutine, and   *)
(* is the same as long as no other is handed over.                         *)
WorldOK ==
    IF world = None
      THEN filters = <<>>
      ELSE /\ ShielderOK(Len(blocks), RegisteredAt, world.Shielder)
           /\ Fits(Log, Wanted, State, world.Shielder)
           /\ world.BatchIndex \in Nat
           /\ world.Shielder.CurrentBlock <= sync.Shielder.CurrentBlock
           /\ ~sync.sending =>
                /\ world.Shielder.CurrentBlock = sync.Shielder.CurrentBlock
                /\ world.Shielder.Registered = sync.Shielder.Registered

(* What a restart finds: a state, and a Shielder that fits it.             *)
StoredOK ==
    stored # None =>
      /\ StateOK(Len(blocks), stored.State)
      /\ ~repaired => Handles(Log, Wanted, stored.State)
      /\ ShielderOK(Len(blocks), RegisteredAt, stored.world.Shielder)
      /\ Fits(Log, Wanted, stored.State, stored.world.Shielder)

(* A filter is taken after all has been handled, or before the keyper is   *)
(* one.                                                                    *)
FiltersOK ==
    /\ filters \in Seq(Filters(State.SyncHeight))
    /\ filters # <<>> /\ ~sync.sending /\ ~skipped /\ sync.Shielder.Registered
         => State.SyncHeight = sync.Shielder.CurrentBlock + 1

(* What is wanted has been handled up to SyncHeight.                       *)
HandledSoFar ==
    /\ StateOK(Len(blocks), State)
    /\ ~repaired => Handles(Log, Wanted, State)

(* The inductive invariant.  HandledOnce says of the two states what has   *)
(* been handled; that a step keeps it so depends on what the Shielders of  *)
(* both goroutines, and the one in the file, still contain, and this on    *)
(* how old the filters in the channel are.                                 *)
ObserverInv ==
    /\ HandledSoFar
    /\ SyncOK
    /\ WorldOK
    /\ StoredOK
    /\ FiltersOK

(* The keys wanted are deals since the beginning and shares since the      *)
(* keyper is one.                                                          *)
LEMMA WantedKeys ==
    ASSUME blocks \in Seq(Seq(Tx))
    PROVE  /\ Wanted \in SUBSET Key
           /\ \A k \in Wanted : \/ k.from = 0 /\ k.kinds = Deals
                                \/ k.from = RegisteredAt /\ k.kinds = Shares /\ ~skipped
<1>1. RegisteredAt \in Nat
  <2>1. Len(blocks) \in Nat
    OBVIOUS
  <2>2. RegisteredAt \in 1 .. Len(blocks) + 1
    BY RegisteredAtIs
  <2> QED
    BY <2>1, <2>2
<1>2. Deals \in SUBSET (Msg \ {"config"}) /\ Shares \in SUBSET (Msg \ {"config"})
  BY DEF Deals, Shares, Msg
<1>3. DealKey \in Key /\ ShareKey(RegisteredAt) \in Key
  <2> DEFINE K == SUBSET (Msg \ {"config"})
             reg == RegisteredAt
  <2>1. reg \in Nat /\ Deals \in K /\ Shares \in K
    BY <1>1, <1>2
  <2> HIDE DEF K, reg
  <2>2. /\ [from |-> 0, kinds |-> Deals] \in [from : Nat, kinds : K]
        /\ [from |-> reg, kinds |-> Shares] \in [from : Nat, kinds : K]
    BY <2>1
  <2> QED
    BY <2>2 DEF DealKey, ShareKey, Key, K, reg
<1>4. DealKey.from = 0 /\ DealKey.kinds = Deals
  BY DEF DealKey
<1>5. ShareKey(RegisteredAt).from = RegisteredAt /\ ShareKey(RegisteredAt).kinds = Shares
  BY DEF ShareKey
<1>6. Wanted \in SUBSET Key
  BY <1>3 DEF Wanted
<1>7. \A k \in Wanted : \/ k = DealKey
                        \/ k = ShareKey(RegisteredAt) /\ ~skipped
  BY DEF Wanted
<1> QED
  BY <1>4, <1>5, <1>6, <1>7

(* The log depends on the blocks only.                                     *)
LEMMA SameChain ==
    ASSUME blocks' = blocks
    PROVE  Log' = Log /\ RegisteredAt' = RegisteredAt
<1>1. \A h : AppAt(h)' = AppAt(h)
  BY DEF AppAt
<1>2. \A h : EventsAt(h)' = EventsAt(h)
  BY <1>1 DEF EventsAt
<1>3. \A a, b : EventsBetween(a, b)' = EventsBetween(a, b)
  BY <1>2 DEF EventsBetween
<1>4. \A n : Logged(n)' = Logged(n)
  BY <1>3 DEF Logged
<1>5. Log' = Log
  BY <1>4 DEF Log
<1>6. RegisteredAt' = RegisteredAt
  BY <1>3 DEF RegisteredAt
<1> QED
  BY <1>5, <1>6

(* What is true of more keys is true of fewer.  A decision put off makes   *)
(* them fewer.                                                             *)
LEMMA FewerKeys ==
    ASSUME NEW log, NEW keys, NEW fewer \in SUBSET keys, NEW st
    PROVE  /\ Handles(log, keys, st) => Handles(log, fewer, st)
           /\ \A s : Fits(log, keys, st, s) => Fits(log, fewer, st, s)
BY DEF Handles, Fits

LEMMA FewerWanted ==
    ASSUME blocks' = blocks, skipped => skipped'
    PROVE  Wanted' \in SUBSET Wanted
BY SameChain DEF Wanted

(* The events handled are those that the log contains.                     *)
LEMMA HandledIsLogged ==
    ASSUME blocks \in Seq(Seq(Tx)), NEW st, StateOK(Len(blocks), st),
           Handles(Log, Wanted, st)
    PROVE  /\ OfMsg(st.Handled, "deal") = Expected(st, "deal")
           /\ ~skipped => AsKeyper(OfMsg(st.Handled, "share")) = AsKeyper(Expected(st, "share"))
<1> DEFINE n == st.SyncHeight - 1
           hd == st.Handled
           X == Event(0, n)
           reg == RegisteredAt
           lg == Logged(n)
<1>0. IsLog(Log, Len(blocks)) /\ \A m \in -1 .. Len(blocks) : Log[m] = Logged(m)
  BY LogIsLog
<1>1. /\ n \in Int /\ n \in -1 .. Len(blocks) /\ hd \in Seq(X)
  <2>1. st.SyncHeight \in 0 .. Len(blocks) /\ Len(blocks) \in Nat
    BY DEF StateOK
  <2> QED
    BY <2>1 DEF StateOK
<1>2. Log[n] = lg /\ lg \in Seq(X)
  <2> HIDE DEF n
  <2>1. Log[n] \in Seq(X)
    BY <1>0, <1>1, LoggedBelow
  <2> QED
    BY <1>0, <1>1, <2>1
<1>3. reg \in Nat
  <2>1. reg \in 1 .. Len(blocks) + 1 /\ Len(blocks) \in Nat
    BY RegisteredAtIs
  <2> QED
    BY <2>1
<1>4. \A k \in Wanted : AsLogged(Log, hd, n, k.from, k.kinds)
  BY DEF Handles
<1>5. AsLogged(Log, hd, n, 0, Deals)
  <2>1. DealKey \in Wanted /\ DealKey.from = 0 /\ DealKey.kinds = Deals
    BY DEF Wanted, DealKey
  <2> HIDE DEF hd, n
  <2> QED
    BY <1>4, <2>1
<1>6. Since(hd, 0, Deals) = Since(lg, 0, Deals)
  BY <1>2, <1>5 DEF AsLogged
<1>7. OfMsg(hd, "deal") = Expected(st, "deal")
  BY <1>6, Zenon DEF OfMsg, Expected, Deals, Logged
<1>8. ASSUME ~skipped PROVE AsKeyper(OfMsg(hd, "share")) = AsKeyper(Expected(st, "share"))
  <2>1. AsLogged(Log, hd, n, reg, Shares)
    <3> DEFINE k == ShareKey(reg)
    <3>1. k \in Wanted
      BY <1>8 DEF Wanted
    <3>2. k.from = reg /\ k.kinds = Shares
      BY DEF ShareKey
    <3> HIDE DEF k, hd, n, reg
    <3> QED
      BY <1>4, <3>1, <3>2
  <2>2. Since(hd, reg, Shares) = Since(lg, reg, Shares)
    BY <1>2, <2>1 DEF AsLogged
  <2>3. \A e \in X : Selects(e, 0, Shares) /\ Selects(e, reg, Msg) <=> Selects(e, reg, Shares)
    <3>1. \A x \in Shares : x \in Msg
      BY DEF Shares, Msg
    <3>2. \A e \in X : e.Height \in Int /\ 0 <= e.Height
      BY <1>1, EventHeights
    <3> HIDE DEF X, reg
    <3> QED
      BY <1>3, <3>1, <3>2 DEF Selects
  <2> HIDE DEF X, hd, lg, reg, n
  <2>4. /\ Since(Since(hd, 0, Shares), reg, Msg) = Since(hd, reg, Shares)
        /\ Since(Since(lg, 0, Shares), reg, Msg) = Since(lg, reg, Shares)
    BY <1>1, <1>2, <2>3, SinceTwice
  <2>5. Since(Since(hd, 0, Shares), reg, Msg) = Since(Since(lg, 0, Shares), reg, Msg)
    BY <2>2, <2>4
  <2> QED
    BY <2>5, Zenon DEF AsKeyper, From, OfMsg, Expected, Shares, Logged, reg, lg, n
<1> QED
  BY <1>7, <1>8

(* So the invariant is strong enough.                                      *)
LEMMA ObserverInvHandledOnce ==
    ASSUME blocks \in Seq(Seq(Tx)), ObserverInv
    PROVE  HandledOnce
<1> SUFFICES ASSUME ~repaired, NEW st \in {State} \cup {f.State : f \in {stored} \ {None}}
             PROVE  /\ OfMsg(st.Handled, "deal") = Expected(st, "deal")
                    /\ ~skipped => AsKeyper(OfMsg(st.Handled, "share"))
                                     = AsKeyper(Expected(st, "share"))
  BY Zenon DEF HandledOnce
<1>1. st = State \/ (stored # None /\ st = stored.State)
  OBVIOUS
<1>2. StateOK(Len(blocks), st) /\ Handles(Log, Wanted, st)
  BY <1>1 DEF ObserverInv, HandledSoFar, StoredOK
<1> QED
  BY <1>2, HandledIsLogged

-----------------------------------------------------------------------------
(* It holds when the keyper starts, and all steps of the keyper keep it.   *)

(* A keyper that starts has nothing and has missed nothing.                *)
LEMMA NewFits ==
    ASSUME blocks \in Seq(Seq(Tx))
    PROVE  /\ ShielderOK(Len(blocks), RegisteredAt, NewShielder)
           /\ StateOK(Len(blocks), NewState)
           /\ Handles(Log, Wanted, NewState)
           /\ Fits(Log, Wanted, NewState, NewShielder)
<1> DEFINE n == Len(blocks)
           reg == RegisteredAt
<1>1. n \in Nat /\ reg \in 1 .. n + 1 /\ IsLog(Log, n)
  BY RegisteredAtIs, LogIsLog
<1>2. \A X : <<>> \in Seq(X)
  OBVIOUS
<1> HIDE DEF n, reg
<1>3. ShielderOK(n, reg, NewShielder)
  <2>1. /\ NewShielder.CurrentBlock = -1 /\ NewShielder.Registered = FALSE
        /\ NewShielder.Events = <<>>
        /\ NewShielder = [CurrentBlock |-> NewShielder.CurrentBlock,
                          Registered |-> NewShielder.Registered,
                          Events |-> NewShielder.Events, Filter |-> NewShielder.Filter]
    BY DEF NewShielder
  <2>2. -1 \in -1 .. n - 1 /\ ~(reg <= -1)
    BY <1>1
  <2> QED
    BY <1>2, <2>1, <2>2 DEF ShielderOK
<1>4. StateOK(n, NewState)
  <2>1. /\ NewState.SyncHeight = 0 /\ NewState.Handled = <<>>
        /\ NewState = [SyncHeight |-> NewState.SyncHeight, Handled |-> NewState.Handled]
    BY DEF NewState
  <2> QED
    BY <1>1, <1>2, <2>1 DEF StateOK
<1>5. ASSUME NEW r \in Int, r >= 0, NEW M
      PROVE  AsLogged(Log, <<>>, -1, r, M)
  <2>1. -1 \in -1 .. n /\ <<>> \in Seq(Event(0, -1)) /\ r > -1
    BY <1>1, <1>2, <1>5
  <2> DEFINE empty == <<>>
  <2> HIDE DEF empty
  <2>2. AsLogged(Log, empty, -1, r, M)
    BY <1>1, <2>1, AsLoggedAfterAll DEF empty
  <2> QED
    BY <2>2 DEF empty
<1>6. \A k \in Wanted : k.from \in Int /\ k.from >= 0
  BY WantedKeys, <1>1 DEF reg
<1>7. Handles(Log, Wanted, NewState)
  <2>1. NewState.SyncHeight - 1 = -1 /\ NewState.Handled = <<>>
    BY DEF NewState
  <2> QED
    BY <1>5, <1>6, <2>1 DEF Handles
<1>8. Fits(Log, Wanted, NewState, NewShielder)
  <2>1. /\ NewState.SyncHeight = 0 /\ NewShielder.CurrentBlock = -1
        /\ NewShielder.Events = <<>>
    BY DEF NewState, NewShielder
  <2>2. \A k \in Wanted : Larger(0, k.from) \in Int /\ Larger(0, k.from) >= 0
    <3> SUFFICES ASSUME NEW k \in Wanted
                 PROVE  Larger(0, k.from) \in Int /\ Larger(0, k.from) >= 0
      OBVIOUS
    <3> DEFINE f == k.from
    <3>1. f \in Int /\ f >= 0
      BY <1>6
    <3> HIDE DEF f
    <3>2. Larger(0, f) \in Int /\ Larger(0, f) >= 0
      BY <3>1 DEF Larger
    <3> QED
      BY <3>2 DEF f
  <2> QED
    BY <1>5, <2>1, <2>2 DEF Fits
<1> QED
  BY <1>3, <1>4, <1>7, <1>8 DEF n, reg

(* The initial state.                                                      *)
LEMMA InitObserverInv == Init => ObserverInv
<1> SUFFICES ASSUME Init PROVE ObserverInv
  OBVIOUS
<1>1. /\ blocks = <<>> /\ sync = [Shielder |-> NewShielder, sending |-> FALSE]
      /\ filters = <<>> /\ world = None /\ State = NewState /\ stored = None
  BY DEF Init, NodeInit, KeyperInit
<1>2. blocks \in Seq(Seq(Tx))
  BY <1>1
<1>3. /\ ShielderOK(Len(blocks), RegisteredAt, NewShielder)
      /\ StateOK(Len(blocks), NewState)
      /\ Handles(Log, Wanted, NewState)
      /\ Fits(Log, Wanted, NewState, NewShielder)
  BY <1>2, NewFits
<1>4. HandledSoFar
  BY <1>1, <1>3 DEF HandledSoFar
<1>5. SyncOK
  BY <1>1, <1>3 DEF SyncOK
<1>6. WorldOK /\ StoredOK
  BY <1>1 DEF WorldOK, StoredOK
<1>7. FiltersOK
  <2>1. filters = <<>> /\ \A X : <<>> \in Seq(X)
    BY <1>1
  <2> QED
    BY <2>1 DEF FiltersOK
<1> QED
  BY <1>4, <1>5, <1>6, <1>7 DEF ObserverInv

(* SyncToHead: more events are fetched.                                    *)
LEMMA SyncToHeadInv ==
    ASSUME blocks \in Seq(Seq(Tx)), ObserverInv, SyncToHead, UNCHANGED nodeVars
    PROVE  ObserverInv'
<1> DEFINE height == Len(blocks) - 1
           s == sync.Shielder
           t == fetchAndApplyEvents(s, height)
<1>1. /\ sync' = [Shielder |-> t, sending |-> TRUE]
      /\ UNCHANGED <<filters, world, State, stored, repaired, skipped>>
      /\ blocks' = blocks
  BY DEF SyncToHead, nodeVars
<1>2. Log' = Log /\ RegisteredAt' = RegisteredAt /\ Wanted' = Wanted
  BY <1>1, SameChain DEF Wanted
<1>3. /\ HandledSoFar /\ SyncOK /\ WorldOK /\ StoredOK /\ FiltersOK
  BY DEF ObserverInv
<1>4. height \in Int /\ s.CurrentBlock \in Int /\ s.CurrentBlock <= height
  <2>1. Len(blocks) \in Nat /\ s.CurrentBlock \in -1 .. Len(blocks) - 1
    BY <1>3 DEF SyncOK, ShielderOK
  <2> QED
    BY <2>1
<1>5. State.SyncHeight \in Int
  BY <1>3 DEF HandledSoFar, StateOK
<1>6. /\ ShielderOK(Len(blocks), RegisteredAt, t) /\ Fits(Log, Wanted, State, t)
      /\ t.CurrentBlock = height
  BY <1>3, <1>4, <1>5, WantedKeys, FetchFits DEF SyncOK
<1> HIDE DEF t, s, height
<1>7. HandledSoFar'
  BY <1>1, <1>2, <1>3 DEF HandledSoFar
<1>8. sync'.Shielder = t /\ sync'.sending = TRUE
  BY <1>1
<1>9. SyncOK'
  BY <1>1, <1>2, <1>6, <1>8 DEF SyncOK
<1>10. WorldOK'
  <2>1. CASE world = None
    BY <1>1, <1>3, <2>1 DEF WorldOK, None
  <2>2. CASE world # None
    <3>1. /\ ShielderOK(Len(blocks), RegisteredAt, world.Shielder)
          /\ Fits(Log, Wanted, State, world.Shielder)
          /\ world.BatchIndex \in Nat
          /\ world.Shielder.CurrentBlock <= sync.Shielder.CurrentBlock
      BY <1>3, <2>2 DEF WorldOK
    <3>2. world.Shielder.CurrentBlock <= t.CurrentBlock
      <4>1. world.Shielder.CurrentBlock \in Int
        BY <3>1 DEF ShielderOK
      <4> QED
        BY <1>4, <1>6, <3>1, <4>1 DEF s
    <3> QED
      BY <1>1, <1>2, <1>8, <2>2, <3>1, <3>2 DEF WorldOK, None
  <2> QED
    BY <2>1, <2>2
<1>11. StoredOK'
  BY <1>1, <1>2, <1>3 DEF StoredOK, None
<1>12. FiltersOK'
  BY <1>1, <1>3, <1>8 DEF FiltersOK
<1> QED
  BY <1>7, <1>9, <1>10, <1>11, <1>12 DEF ObserverInv

(* TakeFilter: what the filter removes is not wanted.  Shares it may       *)
(* remove only if the next Shielder to be handed over has none that are    *)
(* wanted: all before have been handled.                                   *)
LEMMA WantedStay ==
    ASSUME NEW n, NEW s, NEW f, IsLog(Log, n), ShielderOK(n, RegisteredAt, s),
           Wanted \in SUBSET Key, Fits(Log, Wanted, State, s), NoShares(Wanted, State, s),
           State.SyncHeight \in Int, f.SyncHeight \in Int, f.SyncHeight <= State.SyncHeight
    PROVE  LET t == ApplyFilter(s, f)
           IN  /\ ShielderOK(n, RegisteredAt, t) /\ Fits(Log, Wanted, State, t)
               /\ t.CurrentBlock = s.CurrentBlock /\ t.Registered = s.Registered
BY FilterFits

LEMMA TakeFilterInv ==
    ASSUME blocks \in Seq(Seq(Tx)), ObserverInv, TakeFilter, UNCHANGED nodeVars
    PROVE  ObserverInv'
<1> DEFINE s == sync.Shielder
           f == Head(filters)
           t == ApplyFilter(s, f)
           F == Filters(State.SyncHeight)
<1>1. /\ ~sync.sending /\ filters # <<>>
      /\ sync' = [sync EXCEPT !.Shielder = t] /\ filters' = Tail(filters)
      /\ UNCHANGED <<world, State, stored, repaired, skipped>>
      /\ blocks' = blocks
  BY DEF TakeFilter, nodeVars
<1>2. Log' = Log /\ RegisteredAt' = RegisteredAt /\ Wanted' = Wanted
  BY <1>1, SameChain DEF Wanted
<1>3. /\ HandledSoFar /\ SyncOK /\ WorldOK /\ StoredOK /\ FiltersOK
  BY DEF ObserverInv
<1>4. /\ filters \in Seq(F) /\ Tail(filters) \in Seq(F) /\ f \in F
  BY <1>1, <1>3 DEF FiltersOK
<1>5. f.SyncHeight \in Int /\ f.SyncHeight <= State.SyncHeight /\ State.SyncHeight \in Nat
  <2>1. State.SyncHeight \in 0 .. Len(blocks) /\ Len(blocks) \in Nat
    BY <1>3 DEF HandledSoFar, StateOK
  <2>2. f.SyncHeight \in 0 .. State.SyncHeight
    <3> HIDE DEF f
    <3> QED
      BY <1>4 DEF Filters
  <2> QED
    BY <2>1, <2>2
<1>6. /\ ShielderOK(Len(blocks), RegisteredAt, s) /\ Fits(Log, Wanted, State, s)
      /\ IsLog(Log, Len(blocks)) /\ Wanted \in SUBSET Key
  BY <1>3, LogIsLog, WantedKeys DEF SyncOK
<1>7. ASSUME NEW k \in Wanted
      PROVE  "share" \notin k.kinds \/ Larger(State.SyncHeight, k.from) > s.CurrentBlock
  <2>1. CASE k.kinds = Deals
    <3>1. "share" \notin Deals
      BY DEF Deals
    <3> QED
      BY <2>1, <3>1
  <2>2. CASE k.from = RegisteredAt /\ ~skipped
    <3> DEFINE b == s.CurrentBlock
               reg == RegisteredAt
               next == State.SyncHeight
    <3>1. b \in Int /\ reg \in Int /\ (s.Registered <=> reg <= b) /\ next \in Int
      <4>1. Len(blocks) \in Nat /\ reg \in 1 .. Len(blocks) + 1
        BY RegisteredAtIs
      <4> QED
        BY <1>5, <1>6, <4>1 DEF ShielderOK
    <3>2. s.Registered => next = b + 1
      BY <1>1, <1>3, <2>2 DEF FiltersOK
    <3> HIDE DEF b, reg, next
    <3>3. Larger(next, reg) > b
      BY <3>1, <3>2 DEF Larger
    <3> QED
      BY <2>2, <3>3 DEF next, reg, b
  <2> QED
    BY <2>1, <2>2, WantedKeys
<1>8. /\ ShielderOK(Len(blocks), RegisteredAt, t) /\ Fits(Log, Wanted, State, t)
      /\ t.CurrentBlock = s.CurrentBlock /\ t.Registered = s.Registered
  <2>1. /\ State.SyncHeight \in Int /\ f.SyncHeight \in Int
        /\ f.SyncHeight <= State.SyncHeight /\ NoShares(Wanted, State, s)
    BY <1>5, <1>7 DEF NoShares
  <2> HIDE DEF s, f
  <2>2. ASSUME NEW n, n = Len(blocks)
        PROVE  /\ ShielderOK(n, RegisteredAt, t) /\ Fits(Log, Wanted, State, t)
               /\ t.CurrentBlock = s.CurrentBlock /\ t.Registered = s.Registered
    <3>1. IsLog(Log, n) /\ ShielderOK(n, RegisteredAt, s)
      BY <1>6, <2>2
    <3> QED
      BY <1>6, <2>1, <3>1, WantedStay
  <2> QED
    BY <2>2
<1> HIDE DEF t, f
<1>9. /\ sync'.Shielder = t /\ sync'.sending = sync.sending
      /\ sync' = [Shielder |-> sync'.Shielder, sending |-> sync'.sending]
  <2> DEFINE g == sync.sending
  <2>1. sync = [Shielder |-> s, sending |-> g]
    BY <1>3 DEF SyncOK
  <2> HIDE DEF s, g
  <2>2. sync' = [Shielder |-> t, sending |-> g]
    BY <1>1, <2>1
  <2> QED
    BY <2>2 DEF g
<1>10. HandledSoFar'
  BY <1>1, <1>2, <1>3 DEF HandledSoFar
<1>11. SyncOK'
  <2>1. sync.sending \in BOOLEAN
    BY <1>3 DEF SyncOK
  <2> QED
    BY <1>1, <1>2, <1>8, <1>9, <2>1 DEF SyncOK
<1>12. WorldOK'
  <2>1. world # None
    BY <1>1, <1>3 DEF WorldOK
  <2>2. /\ ShielderOK(Len(blocks), RegisteredAt, world.Shielder)
        /\ Fits(Log, Wanted, State, world.Shielder)
        /\ world.BatchIndex \in Nat
        /\ world.Shielder.CurrentBlock <= sync.Shielder.CurrentBlock
        /\ ~sync.sending =>
             /\ world.Shielder.CurrentBlock = sync.Shielder.CurrentBlock
             /\ world.Shielder.Registered = sync.Shielder.Registered
    BY <1>3, <2>1 DEF WorldOK
  <2>3. None' = None
    BY DEF None
  <2> QED
    BY <1>1, <1>2, <1>8, <1>9, <2>1, <2>2, <2>3 DEF WorldOK
<1>13. StoredOK'
  BY <1>1, <1>2, <1>3 DEF StoredOK, None
<1>14. FiltersOK'
  <2>1. filters' \in Seq(Filters(State'.SyncHeight))
    BY <1>1, <1>4
  <2>2. filters # <<>> /\ ~sync.sending /\ ~skipped /\ sync.Shielder.Registered
         => State.SyncHeight = sync.Shielder.CurrentBlock + 1
    BY <1>3 DEF FiltersOK
  <2> QED
    BY <1>1, <1>8, <1>9, <2>1, <2>2 DEF FiltersOK
<1> QED
  BY <1>10, <1>11, <1>12, <1>13, <1>14 DEF ObserverInv

(* A step of the main loop: what was handled, and what the Shielders have  *)
(* for the new state.                                                      *)
LEMMA StepFits ==
    ASSUME NEW log, NEW n, IsLog(log, n), NEW reg, NEW keys \in SUBSET Key,
           NEW fewer \in SUBSET keys,
           NEW st, StateOK(n, st), NEW w, ShielderOK(n, reg, w.Shielder),
           Fits(log, keys, st, w.Shielder),
           NEW s, ShielderOK(n, reg, s), Fits(log, keys, st, s),
           w.Shielder.CurrentBlock <= s.CurrentBlock
    PROVE  LET state == Decide(st, w)
           IN  /\ StateOK(n, state)
               /\ Handles(log, keys, st) => Handles(log, fewer, state)
               /\ Fits(log, fewer, state, w.Shielder) /\ Fits(log, fewer, state, s)
               /\ st.SyncHeight <= state.SyncHeight
               /\ w.InSync /\ w.Shielder.Registered
                    => state.SyncHeight = w.Shielder.CurrentBlock + 1
<1> DEFINE state == Decide(st, w)
           v == w.Shielder
           next == st.SyncHeight
           later == state.SyncHeight
           b == v.CurrentBlock
           c == s.CurrentBlock
<1>1. /\ StateOK(n, state)
      /\ Handles(log, keys, st) => Handles(log, keys, state)
      /\ next <= later /\ later <= b + 1
      /\ w.InSync /\ v.Registered => later = b + 1
  BY DecideFits
<1>2. next \in Int /\ later \in Int /\ b \in Int /\ c \in Int /\ b <= c
  <2>1. n \in Nat /\ next \in 0 .. n /\ b \in -1 .. n - 1 /\ c \in -1 .. n - 1
    BY DEF StateOK, ShielderOK, IsLog
  <2>2. later \in 0 .. n
    BY <1>1 DEF StateOK
  <2> QED
    BY <2>1, <2>2
<1>3. later <= b + 1 /\ later <= c + 1
  <2> HIDE DEF later, b, c, next
  <2> QED
    BY <1>1, <1>2
<1>4. Fits(log, keys, state, v)
  <2> HIDE DEF state, v
  <2> QED
    BY <1>1, <1>2, <1>3, FitsLater DEF v
<1>5. Fits(log, keys, state, s)
  <2> HIDE DEF state, v
  <2> QED
    BY <1>1, <1>2, <1>3, FitsLater
<1> HIDE DEF state, v
<1>6. Fits(log, fewer, state, v) /\ Fits(log, fewer, state, s)
  BY <1>4, <1>5, FewerKeys
<1>7. Handles(log, keys, st) => Handles(log, fewer, state)
  BY <1>1, FewerKeys
<1> QED
  BY <1>1, <1>6, <1>7 DEF state, v

(* The same, of what is wanted.                                            *)
LEMMA WantedStayWithStep ==
    ASSUME NEW n, IsLog(Log, n), Wanted \in SUBSET Key, Wanted' \in SUBSET Wanted,
           StateOK(n, State),
           NEW w, ShielderOK(n, RegisteredAt, w.Shielder), Fits(Log, Wanted, State, w.Shielder),
           NEW s, ShielderOK(n, RegisteredAt, s), Fits(Log, Wanted, State, s),
           w.Shielder.CurrentBlock <= s.CurrentBlock
    PROVE  LET state == Decide(State, w)
           IN  /\ StateOK(n, state)
               /\ Handles(Log, Wanted, State) => Handles(Log, Wanted', state)
               /\ Fits(Log, Wanted', state, w.Shielder) /\ Fits(Log, Wanted', state, s)
               /\ State.SyncHeight <= state.SyncHeight
               /\ w.InSync /\ w.Shielder.Registered
                    => state.SyncHeight = w.Shielder.CurrentBlock + 1
BY StepFits

(* A filter that is not newer than a state is not newer than the next one. *)
LEMMA MoreFilters ==
    ASSUME NEW a \in Nat, NEW b \in Nat, a <= b
    PROVE  Filters(a) \subseteq Filters(b)
<1>1. 0 .. a \subseteq 0 .. b
  OBVIOUS
<1> DEFINE A == 0 .. a
           B == 0 .. b
<1> HIDE DEF A, B
<1>2. \A f \in [SyncHeight : A, BatchIndex : Nat] : f \in [SyncHeight : B, BatchIndex : Nat]
  BY <1>1 DEF A, B
<1> QED
  BY <1>2 DEF Filters, A, B

(* runOneStep, with either what the goroutine hands over or the Shielder   *)
(* that the main loop has.                                                 *)
LEMMA RunOneStepInv ==
    ASSUME blocks \in Seq(Seq(Tx)), blocks' = blocks, repaired' = repaired, ObserverInv,
           world # None,
           NEW w, runOneStep(w), w # None, w.BatchIndex \in Nat,
           ShielderOK(Len(blocks), RegisteredAt, w.Shielder),
           Fits(Log, Wanted, State, w.Shielder),
           w.Shielder.CurrentBlock <= sync.Shielder.CurrentBlock,
           sync' = [Shielder |-> sync.Shielder, sending |-> sync'.sending],
           sync'.sending \in BOOLEAN,
           ~sync'.sending => /\ w.Shielder.CurrentBlock = sync.Shielder.CurrentBlock
                             /\ w.Shielder.Registered = sync.Shielder.Registered
    PROVE  ObserverInv'
<1> DEFINE state == Decide(State, w)
           s == sync.Shielder
           v == w.Shielder
           filter == GetShielderFilter(state, w)
<1>1. /\ world' = w /\ State' = state /\ stored' = [State |-> state, world |-> w]
      /\ skipped' = (skipped \/ ~w.InSync)
      /\ filters' = IF Len(filters) < 3 THEN Append(filters, filter) ELSE filters
  BY DEF runOneStep
<1>2. /\ Log' = Log /\ RegisteredAt' = RegisteredAt /\ Wanted' \in SUBSET Wanted
  BY <1>1, SameChain, FewerWanted
<1>3. /\ HandledSoFar /\ SyncOK /\ FiltersOK
  BY DEF ObserverInv
<1>4. /\ IsLog(Log, Len(blocks)) /\ Wanted \in SUBSET Key
      /\ StateOK(Len(blocks), State) /\ Len(blocks) \in Nat
      /\ ShielderOK(Len(blocks), RegisteredAt, s) /\ Fits(Log, Wanted, State, s)
  BY <1>3, LogIsLog, WantedKeys DEF HandledSoFar, SyncOK
<1>5. /\ StateOK(Len(blocks), state)
      /\ Handles(Log, Wanted, State) => Handles(Log, Wanted', state)
      /\ Fits(Log, Wanted', state, v) /\ Fits(Log, Wanted', state, s)
      /\ State.SyncHeight <= state.SyncHeight
      /\ w.InSync /\ v.Registered => state.SyncHeight = v.CurrentBlock + 1
  <2> HIDE DEF s
  <2>1. ASSUME NEW n, n = Len(blocks)
        PROVE  /\ StateOK(n, state)
               /\ Handles(Log, Wanted, State) => Handles(Log, Wanted', state)
               /\ Fits(Log, Wanted', state, v) /\ Fits(Log, Wanted', state, s)
               /\ State.SyncHeight <= state.SyncHeight
               /\ w.InSync /\ v.Registered => state.SyncHeight = v.CurrentBlock + 1
    <3>1. /\ IsLog(Log, n) /\ StateOK(n, State) /\ ShielderOK(n, RegisteredAt, s)
          /\ ShielderOK(n, RegisteredAt, w.Shielder)
      BY <1>4, <2>1
    <3>2. w.Shielder.CurrentBlock <= s.CurrentBlock
      BY DEF s
    <3> QED
      BY <1>2, <1>4, <3>1, <3>2, WantedStayWithStep
  <2> QED
    BY <2>1
<1>6. /\ state.SyncHeight \in Nat /\ State.SyncHeight \in Nat
  BY <1>4, <1>5 DEF StateOK
<1> HIDE DEF state, s, v, filter
<1>7. sync'.Shielder = s /\ sync' = [Shielder |-> sync'.Shielder, sending |-> sync'.sending]
  BY DEF s
<1>8. HandledSoFar'
  BY <1>1, <1>2, <1>3, <1>5 DEF HandledSoFar
<1>9. SyncOK'
  BY <1>1, <1>2, <1>4, <1>5, <1>7 DEF SyncOK
<1>10. WorldOK'
  <2>1. world'.Shielder = v /\ world' # None /\ None' = None /\ world'.BatchIndex \in Nat
    BY <1>1 DEF v, None
  <2>2. ShielderOK(Len(blocks), RegisteredAt, v)
    BY DEF v
  <2>3. v.CurrentBlock <= sync'.Shielder.CurrentBlock
    BY <1>7 DEF v, s
  <2>4. ~sync'.sending => /\ v.CurrentBlock = sync'.Shielder.CurrentBlock
                          /\ v.Registered = sync'.Shielder.Registered
    BY <1>7 DEF v, s
  <2> QED
    BY <1>1, <1>2, <1>5, <2>1, <2>2, <2>3, <2>4 DEF WorldOK
<1>11. StoredOK'
  <2>1. stored'.State = state /\ stored'.world.Shielder = v
    BY <1>1 DEF v
  <2>2. ShielderOK(Len(blocks), RegisteredAt, v)
    BY DEF v
  <2>3. ~repaired' => Handles(Log, Wanted', state)
    BY <1>3, <1>5 DEF HandledSoFar
  <2> QED
    BY <1>1, <1>2, <1>5, <2>1, <2>2, <2>3 DEF StoredOK
<1>12. FiltersOK'
  <2> DEFINE a == State.SyncHeight
             c == state.SyncHeight
             F == Filters(c)
  <2>1. filters \in Seq(F)
    <3>1. Filters(a) \subseteq F /\ filters \in Seq(Filters(a))
      BY <1>3, <1>5, <1>6, MoreFilters DEF FiltersOK
    <3> DEFINE E == Filters(a)
    <3> HIDE DEF E, F
    <3> QED
      BY <3>1 DEF E
  <2>2. filter \in F
    <3>1. filter = [SyncHeight |-> c, BatchIndex |-> w.BatchIndex]
      BY DEF filter, GetShielderFilter
    <3> HIDE DEF c
    <3>2. c \in 0 .. c
      BY <1>6 DEF c
    <3> QED
      BY <3>1, <3>2 DEF Filters
  <2>3. filters' \in Seq(F)
    <3> HIDE DEF F
    <3> QED
      BY <1>1, <2>1, <2>2
  <2>4. State'.SyncHeight = c
    BY <1>1
  <2>5. ~sync'.sending /\ ~skipped' /\ sync'.Shielder.Registered
          => c = sync'.Shielder.CurrentBlock + 1
    BY <1>1, <1>5, <1>7 DEF s, v
  <2> HIDE DEF c
  <2> QED
    BY <2>3, <2>4, <2>5 DEF FiltersOK, F
<1> QED
  BY <1>8, <1>9, <1>10, <1>11, <1>12 DEF ObserverInv

(* A Shielder is handed over: the first one after a start is not decided   *)
(* on.                                                                     *)
LEMMA ReceiveShielderInv ==
    ASSUME blocks \in Seq(Seq(Tx)), ObserverInv, UNCHANGED nodeVars,
           NEW mainChain \in MainChain(world), ReceiveShielder(mainChain)
    PROVE  ObserverInv'
<1> DEFINE w == WorldOf(sync.Shielder, mainChain)
<1>1. mainChain[1] \in Nat
  <2>1. mainChain \in (0 .. MaxBatchIndex) \X BOOLEAN
    BY DEF MainChain
  <2> QED
    BY <2>1, ObserverAssumption
<1>2. /\ w.Shielder = sync.Shielder /\ w.BatchIndex \in Nat /\ w # None
  <2>1. /\ "Shielder" \in DOMAIN w
        /\ "Shielder" \notin DOMAIN None
        /\ w.Shielder = sync.Shielder /\ w.BatchIndex = mainChain[1]
    BY DEF WorldOf, None
  <2> HIDE DEF w
  <2> QED
    BY <1>1, <2>1
<1>3. /\ HandledSoFar /\ SyncOK /\ WorldOK /\ StoredOK /\ FiltersOK
  BY DEF ObserverInv
<1>4. /\ sync' = [Shielder |-> sync.Shielder, sending |-> FALSE]
      /\ sync'.Shielder = sync.Shielder /\ sync'.sending = FALSE
  <2> DEFINE s == sync.Shielder
             g == sync.sending
  <2>1. sync = [Shielder |-> s, sending |-> g] /\ sync' = [sync EXCEPT !.sending = FALSE]
    BY <1>3 DEF SyncOK, ReceiveShielder
  <2> HIDE DEF s, g
  <2>2. sync' = [Shielder |-> s, sending |-> FALSE]
    BY <2>1
  <2> QED
    BY <2>2 DEF s
<1>5. blocks' = blocks /\ repaired' = repaired
  BY DEF ReceiveShielder, nodeVars
<1>6. sync.Shielder.CurrentBlock <= sync.Shielder.CurrentBlock
  <2> DEFINE b == sync.Shielder.CurrentBlock
  <2>1. b \in Int
    BY <1>3 DEF SyncOK, ShielderOK
  <2> HIDE DEF b
  <2>2. b <= b
    BY <2>1
  <2> QED
    BY <2>2 DEF b
<1>7. CASE world = None
  <2>1. world' = w /\ UNCHANGED <<filters, State, stored, skipped>>
    BY <1>7 DEF ReceiveShielder
  <2>2. Log' = Log /\ RegisteredAt' = RegisteredAt /\ Wanted' = Wanted
    BY <1>5, <2>1, SameChain DEF Wanted
  <2> HIDE DEF w
  <2>3. HandledSoFar'
    BY <1>3, <1>5, <2>1, <2>2 DEF HandledSoFar
  <2>4. SyncOK'
    BY <1>3, <1>4, <1>5, <2>1, <2>2 DEF SyncOK
  <2>5. WorldOK'
    <3>1. world' # None /\ None' = None /\ world'.BatchIndex \in Nat
          /\ world'.Shielder = sync.Shielder
      BY <1>2, <2>1 DEF None
    <3> QED
      BY <1>3, <1>4, <1>5, <1>6, <2>1, <2>2, <3>1 DEF SyncOK, WorldOK
  <2>6. StoredOK'
    BY <1>3, <1>5, <2>1, <2>2 DEF StoredOK, None
  <2>7. FiltersOK'
    <3>1. filters = <<>>
      BY <1>3, <1>7 DEF WorldOK
    <3> QED
      BY <1>3, <2>1, <3>1 DEF FiltersOK
  <2> QED
    BY <2>3, <2>4, <2>5, <2>6, <2>7 DEF ObserverInv
<1>8. CASE world # None
  <2>1. runOneStep(w)
    BY <1>8 DEF ReceiveShielder
  <2>2. /\ ShielderOK(Len(blocks), RegisteredAt, w.Shielder)
        /\ Fits(Log, Wanted, State, w.Shielder)
        /\ w.Shielder.CurrentBlock <= sync.Shielder.CurrentBlock
        /\ w.Shielder.CurrentBlock = sync.Shielder.CurrentBlock
        /\ w.Shielder.Registered = sync.Shielder.Registered
    BY <1>2, <1>3, <1>6 DEF SyncOK
  <2>3. /\ sync' = [Shielder |-> sync.Shielder, sending |-> sync'.sending]
        /\ sync'.sending \in BOOLEAN
    BY <1>4
  <2> HIDE DEF w
  <2> QED
    BY <1>2, <1>5, <1>8, <2>1, <2>2, <2>3, RunOneStepInv
<1> QED
  BY <1>7, <1>8

(* The main chain has changed: the Shielder is the same.                   *)
LEMMA ReceiveMainChainInv ==
    ASSUME blocks \in Seq(Seq(Tx)), ObserverInv, UNCHANGED nodeVars,
           NEW mainChain \in MainChain(world), ReceiveMainChain(mainChain)
    PROVE  ObserverInv'
<1> DEFINE w == WorldOf(world.Shielder, mainChain)
<1>1. mainChain[1] \in Nat
  <2>1. mainChain \in (0 .. MaxBatchIndex) \X BOOLEAN
    BY DEF MainChain
  <2> QED
    BY <2>1, ObserverAssumption
<1>2. /\ w.Shielder = world.Shielder /\ w.BatchIndex \in Nat /\ w # None
  <2>1. /\ "Shielder" \in DOMAIN w
        /\ "Shielder" \notin DOMAIN None
        /\ w.Shielder = world.Shielder /\ w.BatchIndex = mainChain[1]
    BY DEF WorldOf, None
  <2> HIDE DEF w
  <2> QED
    BY <1>1, <2>1
<1>3. SyncOK /\ WorldOK
  BY DEF ObserverInv
<1>4. /\ sync' = sync /\ blocks' = blocks /\ repaired' = repaired
      /\ world # None /\ runOneStep(w)
  BY DEF ReceiveMainChain, nodeVars
<1>5. /\ sync = [Shielder |-> sync.Shielder, sending |-> sync.sending]
      /\ sync.sending \in BOOLEAN
  BY <1>3 DEF SyncOK
<1>6. /\ sync' = [Shielder |-> sync.Shielder, sending |-> sync'.sending]
      /\ sync'.sending \in BOOLEAN
  BY <1>4, <1>5
<1> HIDE DEF w
<1>7. /\ ShielderOK(Len(blocks), RegisteredAt, w.Shielder)
      /\ Fits(Log, Wanted, State, w.Shielder)
      /\ w.Shielder.CurrentBlock <= sync.Shielder.CurrentBlock
      /\ ~sync'.sending => /\ w.Shielder.CurrentBlock = sync.Shielder.CurrentBlock
                           /\ w.Shielder.Registered = sync.Shielder.Registered
  BY <1>2, <1>3, <1>4 DEF WorldOK
<1> QED
  BY <1>2, <1>4, <1>6, <1>7, RunOneStepInv

(* LoadState sets SyncHeight: what was not handled before is lost, the     *)
(* rest fits.                                                              *)
LEMMA FixedFits ==
    ASSUME NEW log, NEW n, IsLog(log, n), NEW reg, NEW keys \in SUBSET Key,
           NEW st, StateOK(n, st), NEW s, ShielderOK(n, reg, s), Fits(log, keys, st, s),
           st.SyncHeight = 0, s.CurrentBlock > 0
    PROVE  LET state == [st EXCEPT !.SyncHeight = s.CurrentBlock]
           IN  StateOK(n, state) /\ Fits(log, keys, state, s)
<1> DEFINE state == [st EXCEPT !.SyncHeight = s.CurrentBlock]
           c == s.CurrentBlock
           h == st.Handled
           z == st.SyncHeight
<1>1. /\ st = [SyncHeight |-> z, Handled |-> h] /\ h \in Seq(Event(0, z - 1)) /\ z = 0
      /\ c \in -1 .. n - 1 /\ c > 0 /\ n \in Nat /\ state = [st EXCEPT !.SyncHeight = c]
  BY DEF StateOK, ShielderOK, IsLog
<1> HIDE DEF state, c, h, z
<1>2. state = [SyncHeight |-> c, Handled |-> h]
  BY <1>1
<1>3. c \in Int /\ c \in 0 .. n /\ c <= c + 1 /\ z <= c /\ z \in Int
  BY <1>1
<1>4. h \in Seq(Event(0, c - 1))
  <2> DEFINE a == z - 1
             b == c - 1
  <2>1. a \in Int /\ b \in Int /\ a <= b
    BY <1>1, <1>3
  <2>2. h \in Seq(Event(0, a))
    BY <1>1
  <2> HIDE DEF a, b
  <2>3. Seq(Event(0, a)) \subseteq Seq(Event(0, b))
    BY <2>1, EventSets
  <2> QED
    BY <2>2, <2>3 DEF b
<1>5. state.SyncHeight = c /\ state.Handled = h
  BY <1>2
<1>6. StateOK(n, state)
  BY <1>2, <1>3, <1>4, <1>5 DEF StateOK
<1>7. /\ st.SyncHeight \in Int /\ state.SyncHeight \in Int
      /\ st.SyncHeight <= state.SyncHeight /\ state.SyncHeight <= s.CurrentBlock + 1
  BY <1>3, <1>5 DEF c, z
<1>8. Fits(log, keys, state, s)
  BY <1>7, FitsLater
<1> QED
  BY <1>6, <1>8 DEF state

(* The same, of what is wanted.                                            *)
LEMMA WantedFixed ==
    ASSUME NEW n, IsLog(Log, n), Wanted \in SUBSET Key, NEW st, StateOK(n, st),
           NEW s, ShielderOK(n, RegisteredAt, s), Fits(Log, Wanted, st, s),
           st.SyncHeight = 0, s.CurrentBlock > 0
    PROVE  LET state == [st EXCEPT !.SyncHeight = s.CurrentBlock]
           IN  StateOK(n, state) /\ Fits(Log, Wanted, state, s)
BY FixedFits

(* Restart: what is in the file fits, or the keyper starts anew.           *)
LEMMA RestartInv ==
    ASSUME blocks \in Seq(Seq(Tx)), ObserverInv, Restart, UNCHANGED nodeVars
    PROVE  ObserverInv'
<1>1. /\ filters' = <<>> /\ world' = None /\ stored' = stored /\ skipped' = skipped
      /\ blocks' = blocks
  BY DEF Restart, nodeVars
<1>2. Log' = Log /\ RegisteredAt' = RegisteredAt /\ Wanted' = Wanted
  BY <1>1, SameChain DEF Wanted
<1>3. StoredOK
  BY DEF ObserverInv
<1>4. repaired => repaired'
  BY DEF Restart
<1>5. StoredOK'
  BY <1>1, <1>2, <1>3, <1>4 DEF StoredOK, None
<1>6. WorldOK'
  BY <1>1 DEF WorldOK, None
<1>7. FiltersOK'
  <2>1. filters' = <<>> /\ \A X : <<>> \in Seq(X)
    BY <1>1
  <2> QED
    BY <2>1 DEF FiltersOK
<1>8. PICK s :
        /\ sync' = [Shielder |-> s, sending |-> FALSE]
        /\ ShielderOK(Len(blocks), RegisteredAt, s) /\ StateOK(Len(blocks), State')
        /\ Fits(Log, Wanted, State', s)
        /\ ~repaired' => Handles(Log, Wanted, State')
  <2>1. CASE stored = None
    <3>1. State' = NewState /\ sync' = [Shielder |-> NewShielder, sending |-> FALSE]
      BY <2>1 DEF Restart
    <3> QED
      BY <3>1, NewFits
  <2>2. CASE stored # None /\ ~NeedsFixing(stored)
    <3>1. /\ State' = stored.State
          /\ sync' = [Shielder |-> stored.world.Shielder, sending |-> FALSE]
      BY <2>2 DEF Restart, LoadState
    <3> QED
      BY <1>3, <1>4, <2>2, <3>1 DEF StoredOK
  <2>3. CASE stored # None /\ NeedsFixing(stored)
    <3> DEFINE st == stored.State
               s == stored.world.Shielder
    <3>1. /\ State' = [st EXCEPT !.SyncHeight = s.CurrentBlock] /\ repaired'
          /\ sync' = [Shielder |-> s, sending |-> FALSE]
          /\ st.SyncHeight = 0 /\ s.CurrentBlock > 0
      BY <2>3 DEF Restart, LoadState, NeedsFixing
    <3>2. /\ StateOK(Len(blocks), st) /\ ShielderOK(Len(blocks), RegisteredAt, s)
          /\ Fits(Log, Wanted, st, s)
      BY <1>3, <2>3 DEF StoredOK
    <3>3. IsLog(Log, Len(blocks)) /\ Wanted \in SUBSET Key
      BY LogIsLog, WantedKeys
    <3> HIDE DEF st, s
    <3>4. ASSUME NEW n, n = Len(blocks)
          PROVE  StateOK(n, State') /\ Fits(Log, Wanted, State', s)
      <4>1. /\ IsLog(Log, n) /\ StateOK(n, st) /\ ShielderOK(n, RegisteredAt, s)
        BY <3>2, <3>3, <3>4
      <4>2. LET state == [st EXCEPT !.SyncHeight = s.CurrentBlock]
            IN  StateOK(n, state) /\ Fits(Log, Wanted, state, s)
        BY <3>1, <3>2, <3>3, <4>1, WantedFixed
      <4> QED
        BY <3>1, <4>2
    <3> QED
      BY <3>1, <3>2, <3>4
  <2> QED
    BY <2>1, <2>2, <2>3
<1>9. sync'.Shielder = s /\ sync'.sending = FALSE
  BY <1>8
<1>10. HandledSoFar'
  BY <1>1, <1>2, <1>8 DEF HandledSoFar
<1>11. SyncOK'
  BY <1>1, <1>2, <1>8, <1>9 DEF SyncOK
<1> QED
  BY <1>5, <1>6, <1>7, <1>10, <1>11 DEF ObserverInv

(* The node does something else than to add a block.                       *)
LEMMA SameBlocksInv ==
    ASSUME ObserverInv, UNCHANGED keyperVars, blocks' = blocks
    PROVE  ObserverInv'
<1>1. /\ UNCHANGED <<sync, filters, world, State, stored, skipped, repaired>>
  BY DEF keyperVars
<1>2. Log' = Log /\ RegisteredAt' = RegisteredAt /\ Wanted' = Wanted
  BY <1>1, SameChain DEF Wanted
<1>3. /\ HandledSoFar /\ SyncOK /\ WorldOK /\ StoredOK /\ FiltersOK
  BY DEF ObserverInv
<1>4. HandledSoFar'
  BY <1>1, <1>2, <1>3 DEF HandledSoFar
<1>5. SyncOK'
  BY <1>1, <1>2, <1>3 DEF SyncOK
<1>6. WorldOK'
  BY <1>1, <1>2, <1>3 DEF WorldOK, None
<1>7. StoredOK'
  BY <1>1, <1>2, <1>3 DEF StoredOK, None
<1>8. FiltersOK'
  BY <1>1, <1>3 DEF FiltersOK
<1> QED
  BY <1>4, <1>5, <1>6, <1>7, <1>8 DEF ObserverInv

-----------------------------------------------------------------------------
(* The steps of the node keep it.                                          *)

(* A block is added.  The log of the blocks before is the same;            *)
Longer(log, longer, n) == \A m \in -1 .. n : longer[m] = log[m]

(* two heights are the same for the blocks up to n;                        *)
SameFor(n, a, b) == \A h \in 0 .. n : h >= a <=> h >= b

(* and the kinds wanted are the same.  Only a keyper that has not been     *)
(* registered yet may have its height changed.                             *)
SameKeys(n, keys, more) ==
    \A k \in more : \E q \in keys : q.kinds = k.kinds /\ SameFor(n, q.from, k.from)

(* What was as logged still is.                                            *)
LEMMA AsLoggedGrown ==
    ASSUME NEW log, NEW n, IsLog(log, n), NEW longer, Longer(log, longer, n),
           NEW b \in -1 .. n, NEW events \in Seq(Event(0, b)),
           NEW q, NEW r, SameFor(b, q, r), NEW M, AsLogged(log, events, b, q, M)
    PROVE  AsLogged(longer, events, b, r, M)
<1> DEFINE X == Event(0, b)
<1>1. n \in Nat /\ b \in Int
  BY DEF IsLog
<1>2. log[b] \in Seq(X) /\ longer[b] = log[b]
  BY LoggedBelow DEF Longer
<1>3. \A e \in X : Selects(e, q, M) <=> Selects(e, r, M)
  <2>1. \A e \in X : e.Height \in 0 .. b
    BY DEF Event
  <2> QED
    BY <2>1 DEF Selects, SameFor
<1> HIDE DEF X
<1>4. Since(events, q, M) = Since(events, r, M)
  <2>1. events \in Seq(X)
    BY DEF X
  <2> QED
    BY <1>3, <2>1, SinceSame
<1>5. Since(log[b], q, M) = Since(log[b], r, M)
  <2> DEFINE u == log[b]
  <2>1. u \in Seq(X)
    BY <1>2
  <2> HIDE DEF u
  <2>2. Since(u, q, M) = Since(u, r, M)
    BY <1>3, <2>1, SinceSame
  <2> QED
    BY <2>2 DEF u
<1> QED
  BY <1>2, <1>4, <1>5 DEF AsLogged

(* So what has been handled is as logged,                                  *)
LEMMA HandlesGrown ==
    ASSUME NEW log, NEW n, IsLog(log, n), NEW longer, Longer(log, longer, n),
           NEW keys, NEW more, SameKeys(n, keys, more),
           NEW st, StateOK(n, st), Handles(log, keys, st)
    PROVE  Handles(longer, more, st)
<1> SUFFICES ASSUME NEW k \in more
             PROVE  AsLogged(longer, st.Handled, st.SyncHeight - 1, k.from, k.kinds)
  BY DEF Handles
<1>1. PICK p \in keys : p.kinds = k.kinds /\ SameFor(n, p.from, k.from)
  BY DEF SameKeys
<1> DEFINE b == st.SyncHeight - 1
           events == st.Handled
           q == p.from
           r == k.from
           M == k.kinds
<1>2. b \in -1 .. n /\ b <= n /\ events \in Seq(Event(0, b))
  <2>1. n \in Nat /\ st.SyncHeight \in 0 .. n
    BY DEF StateOK, IsLog
  <2> QED
    BY <2>1 DEF StateOK
<1>3. AsLogged(log, events, b, q, M)
  BY <1>1 DEF Handles
<1>4. SameFor(b, q, r)
  <2>1. SameFor(n, q, r) /\ 0 .. b \subseteq 0 .. n
    <3> HIDE DEF b
    <3>1. n \in Nat /\ b \in Int
      BY <1>2 DEF IsLog
    <3> QED
      BY <1>1, <1>2, <3>1
  <2> HIDE DEF b, q, r
  <2> QED
    BY <2>1 DEF SameFor
<1> HIDE DEF b, events, q, r, M
<1>5. AsLogged(longer, events, b, r, M)
  BY <1>2, <1>3, <1>4, AsLoggedGrown
<1> QED
  BY <1>5 DEF b, events, r, M

(* and the Shielder fits.                                                  *)
LEMMA FitsGrown ==
    ASSUME NEW log, NEW n, IsLog(log, n), NEW longer, Longer(log, longer, n),
           NEW keys \in SUBSET Key, NEW more \in SUBSET Key, SameKeys(n, keys, more),
           NEW st, st.SyncHeight \in Int,
           NEW reg, NEW s, ShielderOK(n, reg, s), Fits(log, keys, st, s)
    PROVE  Fits(longer, more, st, s)
<1> DEFINE b == s.CurrentBlock
           events == s.Events
           next == st.SyncHeight
<1>1. next <= b + 1
  BY DEF Fits
<1>2. n \in Nat /\ b \in -1 .. n /\ events \in Seq(Event(0, b))
  <2>1. n \in Nat /\ b \in -1 .. n - 1
    BY DEF IsLog, ShielderOK
  <2> QED
    BY <2>1 DEF ShielderOK
<1> HIDE DEF b, events, next
<1>3. ASSUME NEW k \in more
      PROVE  AsLogged(longer, events, b, Larger(next, k.from), k.kinds)
  <2>1. PICK p \in keys : p.kinds = k.kinds /\ SameFor(n, p.from, k.from)
    BY DEF SameKeys
  <2> DEFINE q == p.from
             r == k.from
             M == k.kinds
             lq == Larger(next, q)
             lr == Larger(next, r)
  <2>2. AsLogged(log, events, b, lq, M)
    BY <2>1 DEF Fits, events, b, next
  <2>3. q \in Nat /\ r \in Nat /\ next \in Int
    BY KeyFields DEF next
  <2>4. SameFor(b, lq, lr)
    <3>1. SameFor(n, q, r)
      BY <2>1
    <3> HIDE DEF q, r
    <3>2. ASSUME NEW h \in 0 .. b
          PROVE  h >= lq <=> h >= lr
      <4>1. h \in Int /\ h \in 0 .. n
        BY <1>2
      <4>2. h >= q <=> h >= r
        BY <3>1, <4>1 DEF SameFor
      <4> QED
        BY <2>3, <4>1, <4>2 DEF Larger
    <3> HIDE DEF lq, lr
    <3> QED
      BY <3>2 DEF SameFor
  <2> HIDE DEF lq, lr, M
  <2>5. AsLogged(longer, events, b, lr, M)
    BY <1>2, <2>2, <2>4, AsLoggedGrown
  <2> QED
    BY <2>5 DEF lr, M
<1> QED
  BY <1>1, <1>3 DEF Fits, b, events, next

(* A state and a Shielder of n blocks are so of one more.                  *)
LEMMA StillOK ==
    ASSUME NEW n \in Nat, NEW reg \in Int, NEW later \in Int,
           \A m \in -1 .. n : later <= m <=> reg <= m
    PROVE  /\ \A st : StateOK(n, st) => StateOK(n + 1, st)
           /\ \A s : ShielderOK(n, reg, s) => ShielderOK(n + 1, later, s)
<1>1. ASSUME NEW st, StateOK(n, st) PROVE StateOK(n + 1, st)
  <2>1. \A h \in 0 .. n : h \in 0 .. n + 1
    OBVIOUS
  <2> QED
    BY <1>1, <2>1 DEF StateOK
<1>2. ASSUME NEW s, ShielderOK(n, reg, s) PROVE ShielderOK(n + 1, later, s)
  <2> DEFINE b == s.CurrentBlock
             g == s.Registered
             w == n + 1
  <2>1. b \in -1 .. n - 1 /\ g \in BOOLEAN /\ (g <=> reg <= b)
    BY <1>2 DEF ShielderOK
  <2>2. s.Events \in Seq(Event(0, b)) /\ s = [CurrentBlock |-> s.CurrentBlock,
                   Registered |-> s.Registered, Events |-> s.Events, Filter |-> s.Filter]
    BY <1>2 DEF ShielderOK
  <2> HIDE DEF b, g
  <2>3. b \in -1 .. w - 1 /\ (g <=> later <= b)
    BY <2>1
  <2> HIDE DEF w
  <2>4. ShielderOK(w, later, s)
    BY <2>1, <2>2, <2>3 DEF ShielderOK, b, g
  <2> QED
    BY <2>4 DEF w
<1> QED
  BY <1>1, <1>2

(* When the keyper was registered, after the step.                         *)
LEMMA RegisteredAtIsThen ==
  (blocks \in Seq(Seq(Tx)) =>
      /\ RegisteredAt \in 1 .. Len(blocks) + 1
      /\ \A n \in -1 .. Len(blocks) :
            RegisteredAt <= n <=> OfMsg(Logged(n), "config") # <<>>)'
BY RegisteredAtIs, PTL

(* A block that is added registers nobody in a block before.               *)
LEMMA RegisteredLater ==
    ASSUME blocks \in Seq(Seq(Tx)), NEW block \in Seq(Tx), blocks' = Append(blocks, block)
    PROVE  /\ RegisteredAt' \in Nat
           /\ \A m \in -1 .. Len(blocks) : RegisteredAt' <= m <=> RegisteredAt <= m
           /\ Longer(Log, Log', Len(blocks))
<1> DEFINE n == Len(blocks)
<1>1. n \in Nat /\ blocks' \in Seq(Seq(Tx)) /\ Len(blocks') = n + 1
  OBVIOUS
<1>2. \A m \in -1 .. n : m \in -1 .. Len(blocks')
  BY <1>1
<1>3. \A m \in -1 .. n : Logged(m)' = Logged(m)
  BY LoggedStays
<1>4. \A m \in -1 .. n : RegisteredAt <= m <=> OfMsg(Logged(m), "config") # <<>>
  BY RegisteredAtIs
<1>6. /\ RegisteredAt' \in 1 .. Len(blocks') + 1
      /\ \A m \in -1 .. Len(blocks') :
            RegisteredAt' <= m <=> OfMsg(Logged(m)', "config") # <<>>
  <2> HIDE DEF n
  <2> QED
    BY <1>1, RegisteredAtIsThen
<1>7. RegisteredAt' \in Nat
  BY <1>1, <1>6
<1>8. ASSUME NEW m \in -1 .. n
      PROVE  RegisteredAt' <= m <=> RegisteredAt <= m
  <2>1. Logged(m)' = Logged(m)
    BY <1>3
  <2>2. RegisteredAt' <= m <=> OfMsg(Logged(m)', "config") # <<>>
    BY <1>2, <1>6
  <2>3. RegisteredAt <= m <=> OfMsg(Logged(m), "config") # <<>>
    BY <1>4
  <2> QED
    BY <2>1, <2>2, <2>3
<1>9. ASSUME NEW m \in -1 .. n
      PROVE  Log'[m] = Log[m]
  <2>1. Log'[m] = Logged(m)'
    BY <1>2 DEF Log
  <2>2. Log[m] = Logged(m)
    BY DEF Log
  <2> QED
    BY <1>3, <2>1, <2>2
<1> QED
  BY <1>7, <1>8, <1>9 DEF Longer

(* What is wanted of the blocks before is the same.                        *)
LEMMA WantedLater ==
    ASSUME blocks \in Seq(Seq(Tx)), blocks' \in Seq(Seq(Tx)), skipped' = skipped,
           \A m \in -1 .. Len(blocks) : RegisteredAt' <= m <=> RegisteredAt <= m,
           RegisteredAt' \in Nat
    PROVE  Wanted' \in SUBSET Key /\ SameKeys(Len(blocks), Wanted, Wanted')
<1> DEFINE n == Len(blocks)
           reg == RegisteredAt
           later == RegisteredAt'
<1>1. n \in Nat /\ reg \in Int
  BY RegisteredAtIs
<1>2. SameFor(n, reg, later)
  <2> HIDE DEF n, reg, later
  <2>1. ASSUME NEW h \in 0 .. n
        PROVE  h >= reg <=> h >= later
    <3>1. h \in -1 .. n /\ h \in Int
      BY <1>1
    <3>2. later <= h <=> reg <= h
      BY <3>1 DEF n, reg, later
    <3>3. later \in Int
      BY DEF later
    <3> QED
      BY <1>1, <3>1, <3>2, <3>3
  <2> QED
    BY <2>1 DEF SameFor
<1>3. SameFor(n, 0, 0)
  BY DEF SameFor
<1>4. Wanted' = {k \in {DealKey, ShareKey(later)} : skipped => k = DealKey}
  BY DEF Wanted, DealKey, Deals, ShareKey, Shares
<1>5. DealKey \in Key /\ ShareKey(later) \in Key
  BY DEF DealKey, ShareKey, Deals, Shares, Key, Msg
<1>6. DealKey.from = 0 /\ ShareKey(reg).from = reg /\ ShareKey(later).from = later
      /\ ShareKey(reg).kinds = ShareKey(later).kinds /\ ShareKey(reg) # DealKey
      /\ ShareKey(later) # DealKey
  BY DEF DealKey, ShareKey, Deals, Shares
<1> HIDE DEF n, reg, later
<1>7. ASSUME NEW k \in Wanted'
      PROVE  \E q \in Wanted : q.kinds = k.kinds /\ SameFor(n, q.from, k.from)
  <2>1. CASE k = DealKey
    BY <1>3, <1>6, <2>1 DEF Wanted
  <2>2. CASE k = ShareKey(later) /\ ~skipped
    <3>1. ShareKey(reg) \in Wanted
      BY <2>2 DEF Wanted, reg
    <3> QED
      BY <1>2, <1>6, <2>2, <3>1
  <2> QED
    BY <1>4, <1>6, <2>1, <2>2
<1> QED
  BY <1>4, <1>5, <1>7 DEF SameKeys, n

(* All of this together, for a state of the keyper,                        *)
LEMMA StateLater ==
    ASSUME blocks \in Seq(Seq(Tx)), NEW block \in Seq(Tx), blocks' = Append(blocks, block),
           skipped' = skipped, NEW st, StateOK(Len(blocks), st)
    PROVE  /\ StateOK(Len(blocks'), st)
           /\ Handles(Log, Wanted, st) => Handles(Log', Wanted', st)
<1>1. ASSUME NEW n, n = Len(blocks), NEW reg, reg = RegisteredAt,
             NEW later, later = RegisteredAt'
      PROVE  /\ StateOK(n + 1, st)
             /\ Handles(Log, Wanted, st) => Handles(Log', Wanted', st)
  <2>1. n \in Nat /\ IsLog(Log, n) /\ StateOK(n, st)
    BY <1>1, LogIsLog
  <2>2. blocks' \in Seq(Seq(Tx))
    OBVIOUS
  <2>3. later \in Nat /\ Longer(Log, Log', n) /\ \A m \in -1 .. n : later <= m <=> reg <= m
    BY <1>1, RegisteredLater
  <2>4. SameKeys(n, Wanted, Wanted')
    BY <1>1, <2>2, <2>3, WantedLater
  <2>5. reg \in Int
    BY <1>1, RegisteredAtIs
  <2>6. StateOK(n + 1, st)
    BY <2>1, <2>3, <2>5, StillOK
  <2>7. Handles(Log, Wanted, st) => Handles(Log', Wanted', st)
    BY <2>1, <2>3, <2>4, HandlesGrown
  <2> QED
    BY <2>6, <2>7
<1>2. Len(blocks') = Len(blocks) + 1
  OBVIOUS
<1> QED
  BY <1>1, <1>2

(* and for a Shielder.                                                     *)
LEMMA ShielderLater ==
    ASSUME blocks \in Seq(Seq(Tx)), NEW block \in Seq(Tx), blocks' = Append(blocks, block),
           skipped' = skipped, NEW st, st.SyncHeight \in Int,
           NEW s, ShielderOK(Len(blocks), RegisteredAt, s), Fits(Log, Wanted, st, s)
    PROVE  ShielderOK(Len(blocks'), RegisteredAt', s) /\ Fits(Log', Wanted', st, s)
<1>1. ASSUME NEW n, n = Len(blocks), NEW reg, reg = RegisteredAt,
             NEW later, later = RegisteredAt'
      PROVE  ShielderOK(n + 1, later, s) /\ Fits(Log', Wanted', st, s)
  <2>1. n \in Nat /\ IsLog(Log, n) /\ ShielderOK(n, reg, s) /\ Wanted \in SUBSET Key
    BY <1>1, LogIsLog, WantedKeys
  <2>2. blocks' \in Seq(Seq(Tx))
    OBVIOUS
  <2>3. later \in Nat /\ Longer(Log, Log', n) /\ \A m \in -1 .. n : later <= m <=> reg <= m
    BY <1>1, RegisteredLater
  <2>4. Wanted' \in SUBSET Key /\ SameKeys(n, Wanted, Wanted')
    BY <1>1, <2>2, <2>3, WantedLater
  <2>5. reg \in Int
    BY <1>1, RegisteredAtIs
  <2>6. ShielderOK(n + 1, later, s)
    <3>1. \A t : ShielderOK(n, reg, t) => ShielderOK(n + 1, later, t)
      <4>1. n \in Nat /\ later \in Int /\ \A m \in -1 .. n : later <= m <=> reg <= m
        BY <2>1, <2>3
      <4> QED
        BY <2>5, <4>1, StillOK
    <3> QED
      BY <2>1, <3>1
  <2>7. Fits(Log', Wanted', st, s)
    BY <2>1, <2>3, <2>4, FitsGrown
  <2> QED
    BY <2>6, <2>7
<1>2. Len(blocks') = Len(blocks) + 1
  OBVIOUS
<1> QED
  BY <1>1, <1>2

(* The node adds a block.                                                  *)
LEMMA LongerChainInv ==
    ASSUME blocks \in Seq(Seq(Tx)), ObserverInv, UNCHANGED keyperVars,
           NEW block \in Seq(Tx), blocks' = Append(blocks, block)
    PROVE  ObserverInv'
<1>1. /\ UNCHANGED <<sync, filters, world, State, stored, skipped, repaired>>
  BY DEF keyperVars
<1>2. /\ HandledSoFar /\ SyncOK /\ WorldOK /\ StoredOK /\ FiltersOK
  BY DEF ObserverInv
<1>3. \A st : StateOK(Len(blocks), st) =>
         /\ StateOK(Len(blocks'), st)
         /\ Handles(Log, Wanted, st) => Handles(Log', Wanted', st)
         /\ st.SyncHeight \in Int
  <2>1. ASSUME NEW st, StateOK(Len(blocks), st)
        PROVE  /\ StateOK(Len(blocks'), st)
               /\ Handles(Log, Wanted, st) => Handles(Log', Wanted', st)
    BY <1>1, <2>1, StateLater
  <2>2. ASSUME NEW st, StateOK(Len(blocks), st)
        PROVE  st.SyncHeight \in Int
    BY <2>2 DEF StateOK
  <2> QED
    BY <2>1, <2>2
<1>4. \A st, s : st.SyncHeight \in Int /\ ShielderOK(Len(blocks), RegisteredAt, s)
                    /\ Fits(Log, Wanted, st, s)
         => ShielderOK(Len(blocks'), RegisteredAt', s) /\ Fits(Log', Wanted', st, s)
  <2> SUFFICES ASSUME NEW st, NEW s, st.SyncHeight \in Int,
                      ShielderOK(Len(blocks), RegisteredAt, s), Fits(Log, Wanted, st, s)
               PROVE  ShielderOK(Len(blocks'), RegisteredAt', s) /\ Fits(Log', Wanted', st, s)
    OBVIOUS
  <2> QED
    BY <1>1, ShielderLater
<1>5. StateOK(Len(blocks), State)
  BY <1>2 DEF HandledSoFar
<1>6. HandledSoFar'
  BY <1>1, <1>2, <1>3 DEF HandledSoFar
<1>7. SyncOK'
  BY <1>1, <1>2, <1>3, <1>4, <1>5 DEF SyncOK
<1>8. WorldOK'
  BY <1>1, <1>2, <1>3, <1>4, <1>5 DEF WorldOK, None
<1>9. StoredOK'
  BY <1>1, <1>2, <1>3, <1>4 DEF StoredOK, None
<1>10. FiltersOK'
  BY <1>1, <1>2 DEF FiltersOK
<1> QED
  BY <1>6, <1>7, <1>8, <1>9, <1>10 DEF ObserverInv

(* Every step keeps the invariant.                                         *)
LEMMA NextObserverInv ==
    NodeInv /\ ObserverInv /\ [Next]_vars => ObserverInv'
<1> SUFFICES ASSUME NodeInv, ObserverInv, [Next]_vars
             PROVE  ObserverInv'
  OBVIOUS
<1>1. blocks \in Seq(Seq(Tx)) /\ mempool \in Seq(Tx)
  BY DEF NodeInv, ExecOK, MempoolOK, PoolOK
<1>2. CASE watched /\ exec = Ready /\ KeyperNext /\ UNCHANGED nodeVars
  <2>1. CASE SyncToHead
    BY <1>1, <1>2, <2>1, SyncToHeadInv
  <2>2. CASE TakeFilter
    BY <1>1, <1>2, <2>2, TakeFilterInv
  <2>3. ASSUME NEW mainChain \in MainChain(world), ReceiveShielder(mainChain)
        PROVE  ObserverInv'
    BY <1>1, <1>2, <2>3, ReceiveShielderInv
  <2>4. ASSUME NEW mainChain \in MainChain(world), ReceiveMainChain(mainChain)
        PROVE  ObserverInv'
    BY <1>1, <1>2, <2>4, ReceiveMainChainInv
  <2>5. CASE Restart
    BY <1>1, <1>2, <2>5, RestartInv
  <2> QED
    BY <1>2, <2>1, <2>2, <2>3, <2>4, <2>5 DEF KeyperNext
<1>3. CASE NextOfNode /\ UNCHANGED keyperVars
  <2>1. ASSUME NEW block \in Proposed, NewBlock(block)
        PROVE  ObserverInv'
    <3>1. \A n \in 1 .. Len(mempool) : SubSeq(mempool, 1, n) \in Seq(Tx)
      BY <1>1
    <3>2. block \in Seq(Tx)
      BY <3>1, ProposalsAssumption DEF Proposed
    <3>3. blocks' = Append(blocks, block)
      BY <2>1 DEF NewBlock
    <3> QED
      BY <1>1, <1>3, <3>2, <3>3, LongerChainInv
  <2>2. CASE blocks' = blocks
    BY <1>3, <2>2, SameBlocksInv
  <2>3. [NodeNext]_nodeVars
    BY <1>3, NodeStepOfObserver
  <2>4. \/ blocks' = blocks
        \/ \E block \in Proposed : NewBlock(block)
    BY <2>3 DEF NodeNext, ReceiveTx, Deliver, EndTheBlock, Commit, CrashAndRestart, nodeVars
  <2> QED
    BY <2>1, <2>2, <2>4
<1>4. CASE UNCHANGED vars
  BY <1>4, SameBlocksInv DEF vars, nodeVars
<1> QED
  BY <1>2, <1>3, <1>4 DEF Next

(* A keyper handles every event of the DKG once, in order, wherever it     *)
(* crashed and whatever SyncShielder, Eon.ApplyFilter                      *)
(* (keyper/observe/shutter.go) and the main loop (keyper/keyper.go) did in *)
(* between, and the shares, too, as long as no decision was put off;       *)
(* unless LoadState had to set SyncHeight.                                 *)
THEOREM EventsHandledOnce == Spec => []HandledOnce
<1>1. NodeInv /\ ObserverInv => HandledOnce
  <2> SUFFICES ASSUME NodeInv, ObserverInv PROVE HandledOnce
    OBVIOUS
  <2>1. blocks \in Seq(Seq(Tx))
    BY DEF NodeInv, ExecOK
  <2> QED
    BY <2>1, ObserverInvHandledOnce
<1> QED
  BY <1>1, InitObserverInv, NextObserverInv, NodeSpecInv, ObserverDoesNotDisturb, PTL DEF Spec
=============================================================================
