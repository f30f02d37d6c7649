------------------------- MODULE KeyperEpochsProofs -------------------------
(***************************************************************************)
(* No epoch secret key is known before its batch is closed, there is one   *)
(* key per batch, what honest keypers execute is what it decrypts the batch*)
(* to, and they do not accuse one another: proofs about KeyperEpochs.      *)
(***************************************************************************)
EXTENDS KeyperEpochs, FiniteSetTheorems, TLAPS

-----------------------------------------------------------------------------
(* Induction: a set of numbers has a least one.                            *)
LEMMA LeastNat ==
    ASSUME NEW T \in SUBSET Nat, T # {}
    PROVE  \E n \in T : \A m \in T : n <= m
<1> DEFINE R == OpToRel(<, Nat)
<1>1. PICK n \in T : \A m \in T : ~(<<m, n>> \in R)
  BY NatLessThanWellFounded, WFMin
<1>2. \A m \in T : <<m, n>> \in R <=> m < n
  BY DEF OpToRel
<1> HIDE DEF R
<1>3. \A m \in T : ~(m < n)
  BY <1>1, <1>2
<1> QED
  BY <1>3

LEMMA FirstFailure ==
    ASSUME NEW T \in SUBSET Nat, 0 \notin T,
           \A n \in Nat : n \notin T => n + 1 \notin T
    PROVE  T = {}
<1> SUFFICES ASSUME T # {} PROVE FALSE
  OBVIOUS
<1>1. PICK n \in T : \A m \in T : n <= m
  BY LeastNat
<1>2. n - 1 \in Nat /\ n - 1 \notin T /\ n = (n - 1) + 1
  BY <1>1
<1> QED
  BY <1>1, <1>2

(* A bounded set of numbers has a greatest one.                            *)
LEMMA GreatestNat ==
    ASSUME NEW n \in Nat, NEW T \in SUBSET (0 .. n), T # {}
    PROVE  \E x \in T : \A y \in T : y <= x
<1> DEFINE D == {d \in Nat : \E x \in T : d = n - x}
<1>1. PICK x \in T : TRUE
  OBVIOUS
<1>2. n - x \in D
  BY <1>1
<1>3. PICK d \in D : \A m \in D : d <= m
  BY <1>2, LeastNat
<1>4. PICK y \in T : d = n - y
  BY <1>3
<1>5. ASSUME NEW z \in T PROVE z <= y
  <2>1. n - z \in D
    OBVIOUS
  <2> QED
    BY <2>1, <1>3, <1>4
<1> QED
  BY <1>5

LEMMA MaxIs ==
    ASSUME NEW n \in Nat, NEW T \in SUBSET (0 .. n), T # {}
    PROVE  Max(T) \in T /\ \A y \in T : y <= Max(T)
<1>1. PICK x \in T : \A y \in T : y <= x
  BY GreatestNat
<1>2. \A y \in T : x >= y
  BY <1>1
<1> QED
  BY <1>2 DEF Max

-----------------------------------------------------------------------------
(* The configs and the boundaries of batches.                              *)

ConfigType ==
    [StartBatchIndex : Nat, StartBlockNumber : Nat, BatchSpan : Nat,
     ExecutionTimeout : Nat, Threshold : Nat, Keypers : Seq(Keypers)]

LEMMA ConfigFields ==
    ASSUME NEW c \in ConfigType
    PROVE  /\ c.StartBatchIndex \in Nat /\ c.StartBlockNumber \in Nat
           /\ c.BatchSpan \in Nat /\ c.ExecutionTimeout \in Nat /\ c.Threshold \in Nat
           /\ IsActive(c) <=> c.BatchSpan \in Nat \ {0}
BY DEF ConfigType, IsActive

LEMMA ConfigTypes ==
    /\ Len(BatchConfigs) \in Nat \ {0}
    /\ DOMAIN BatchConfigs = 1 .. Len(BatchConfigs)
    /\ \A i \in 1 .. Len(BatchConfigs) : BatchConfigs[i] \in ConfigType
<1>1. BatchConfigs \in Seq(ConfigType) /\ BatchConfigs # <<>>
  BY ConfigsAssumption DEF ConfigType
<1> QED
  BY <1>1

(* The config at an index that is the last one to start by then.           *)
LEMMA ActiveConfigIs ==
    ASSUME NEW v \in Nat
    PROVE  /\ ActiveConfigIndex(v) \in 1 .. Len(BatchConfigs)
           /\ BatchConfigs[ActiveConfigIndex(v)].StartBlockNumber <= v
           /\ \A j \in 1 .. Len(BatchConfigs) :
                j > ActiveConfigIndex(v) => BatchConfigs[j].StartBlockNumber > v
           /\ ActiveConfig(v) \in ConfigType
<1> DEFINE started == {i \in 1 .. Len(BatchConfigs) : BatchConfigs[i].StartBlockNumber <= v}
<1>1. 1 \in started /\ started \subseteq 0 .. Len(BatchConfigs)
  BY ConfigsAssumption, ConfigTypes
<1>2. PICK i \in started : \A j \in started : j <= i
  BY <1>1, ConfigTypes, GreatestNat
<1>3. \A j \in 1 .. Len(BatchConfigs) : j > i => BatchConfigs[j].StartBlockNumber > v
  <2> SUFFICES ASSUME NEW j \in 1 .. Len(BatchConfigs), j > i
               PROVE  BatchConfigs[j].StartBlockNumber > v
    OBVIOUS
  <2>1. j \notin started
    BY <1>2
  <2>2. BatchConfigs[j].StartBlockNumber \in Nat
    BY ConfigTypes DEF ConfigType
  <2> QED
    BY <2>1, <2>2
<1> QED
  BY <1>2, <1>3, ConfigTypes DEF ActiveConfigIndex, ActiveConfig

ConfigIndex(b) ==
    CHOOSE i \in DOMAIN BatchConfigs :
       /\ BatchConfigs[i].StartBatchIndex <= b
       /\ \A j \in DOMAIN BatchConfigs : j > i => BatchConfigs[j].StartBatchIndex > b

LEMMA ConfigForBatchIndexIs ==
    ASSUME NEW b \in Nat
    PROVE  /\ ConfigIndex(b) \in 1 .. Len(BatchConfigs)
           /\ ConfigForBatchIndex(b) = BatchConfigs[ConfigIndex(b)]
           /\ ConfigForBatchIndex(b) \in ConfigType
           /\ ConfigForBatchIndex(b).StartBatchIndex <= b
           /\ \A j \in 1 .. Len(BatchConfigs) :
                j > ConfigIndex(b) => BatchConfigs[j].StartBatchIndex > b
<1> DEFINE started == {i \in 1 .. Len(BatchConfigs) : BatchConfigs[i].StartBatchIndex <= b}
<1>1. 1 \in started /\ started \subseteq 0 .. Len(BatchConfigs)
  BY ConfigsAssumption, ConfigTypes
<1>2. PICK i \in started : \A j \in started : j <= i
  BY <1>1, ConfigTypes, GreatestNat
<1>3. \A j \in 1 .. Len(BatchConfigs) : j > i => BatchConfigs[j].StartBatchIndex > b
  <2> SUFFICES ASSUME NEW j \in 1 .. Len(BatchConfigs), j > i
               PROVE  BatchConfigs[j].StartBatchIndex > b
    OBVIOUS
  <2>1. j \notin started
    BY <1>2
  <2>2. BatchConfigs[j].StartBatchIndex \in Nat
    BY ConfigTypes DEF ConfigType
  <2> QED
    BY <2>1, <2>2
<1> QED
  BY <1>2, <1>3, ConfigTypes DEF ConfigIndex, ConfigForBatchIndex

(* Later configs start at later batches, or the same.                      *)
LEMMA StartBatchIndexGrows ==
    ASSUME NEW i \in 1 .. Len(BatchConfigs), NEW j \in 1 .. Len(BatchConfigs), i <= j
    PROVE  BatchConfigs[i].StartBatchIndex <= BatchConfigs[j].StartBatchIndex
<1> DEFINE Start(n) == BatchConfigs[n].StartBatchIndex
           T == {d \in Nat : i + d <= Len(BatchConfigs) /\ ~(Start(i) <= Start(i + d))}
<1>1. \A n \in 1 .. Len(BatchConfigs) : Start(n) \in Nat
  BY ConfigTypes DEF ConfigType
<1>2. \A n \in 1 .. Len(BatchConfigs) - 1 : Start(n) <= Start(n + 1)
  <2> SUFFICES ASSUME NEW n \in 1 .. Len(BatchConfigs) - 1 PROVE Start(n) <= Start(n + 1)
    OBVIOUS
  <2>1. IsSeamless(BatchConfigs[n], BatchConfigs[n + 1])
    BY ConfigsAssumption
  <2>2. n \in 1 .. Len(BatchConfigs) /\ n + 1 \in 1 .. Len(BatchConfigs)
    BY ConfigTypes
  <2> QED
    BY <1>1, <2>1, <2>2 DEF IsSeamless
<1> HIDE DEF Start
<1>3. 0 \notin T
  BY <1>1, ConfigTypes
<1>4. ASSUME NEW n \in Nat, n \notin T PROVE n + 1 \notin T
  <2> SUFFICES ASSUME i + (n + 1) <= Len(BatchConfigs) PROVE Start(i) <= Start(i + (n + 1))
    OBVIOUS
  <2>1. i + n \in 1 .. Len(BatchConfigs) - 1 /\ i + (n + 1) = (i + n) + 1
    BY ConfigTypes
  <2>2. Start(i) <= Start(i + n)
    BY <1>4, <2>1, ConfigTypes
  <2>3. Start(i + n) <= Start((i + n) + 1)
    BY <1>2, <2>1
  <2>4. i + n \in 1 .. Len(BatchConfigs) /\ (i + n) + 1 \in 1 .. Len(BatchConfigs)
    BY <2>1, ConfigTypes
  <2>5. Start(i) \in Nat /\ Start(i + n) \in Nat /\ Start((i + n) + 1) \in Nat
    BY <2>4, <1>1
  <2> QED
    BY <2>1, <2>2, <2>3, <2>5
<1>5. T = {}
  BY <1>3, <1>4, FirstFailure
<1>6. j - i \in Nat /\ i + (j - i) = j
  OBVIOUS
<1>7. i + (j - i) <= Len(BatchConfigs)
  BY <1>6
<1>8. Start(i) <= Start(i + (j - i))
  BY <1>5, <1>6, <1>7
<1> QED
  BY <1>6, <1>8 DEF Start

(* Arithmetic of batches of d blocks.                                      *)
LEMMA Products ==
    ASSUME NEW x \in Nat, NEW y \in Nat, NEW d \in Nat, x < y
    PROVE  x * d + d <= y * d
<1>1. PICK z \in Nat : y = x + 1 + z
  <2>1. y - (x + 1) \in Nat
    OBVIOUS
  <2> QED
    BY <2>1
<1>2. y * d = x * d + d + z * d
  BY <1>1
<1>3. z * d \in Nat /\ x * d \in Nat
  OBVIOUS
<1> QED
  BY <1>2, <1>3

LEMMA Quotients ==
    ASSUME NEW n \in Nat, NEW d \in Nat \ {0}
    PROVE  n \div d \in Nat /\ (n \div d) * d <= n /\ n < (n \div d) * d + d
<1>1. n = (d * (n \div d)) + (n % d) /\ n % d \in 0 .. d - 1 /\ n \div d \in Nat
  OBVIOUS
<1> QED
  BY <1>1

LEMMA QuotientBelow ==
    ASSUME NEW n \in Nat, NEW d \in Nat \ {0}, NEW m \in Nat, n < m * d
    PROVE  n \div d < m
<1>1. n \div d \in Nat /\ (n \div d) * d <= n
  BY Quotients
<1>2. SUFFICES ASSUME m <= n \div d PROVE FALSE
  BY <1>1
<1>3. m * d <= (n \div d) * d
  <2>1. CASE m = n \div d
    BY <2>1, <1>1
  <2>2. CASE m < n \div d
    <3>1. m * d + d <= (n \div d) * d
      BY <2>2, <1>1, Products
    <3>2. m * d \in Nat /\ (n \div d) * d \in Nat
      BY <1>1
    <3> QED
      BY <3>1, <3>2
  <2> QED
    BY <1>2, <1>1, <2>1, <2>2
<1>4. m * d \in Nat /\ (n \div d) * d \in Nat
  BY <1>1
<1> QED
  BY <1>1, <1>3, <1>4

LEMMA QuotientGrows ==
    ASSUME NEW n \in Nat, NEW m \in Nat, NEW d \in Nat \ {0}, n <= m
    PROVE  n \div d <= m \div d
<1>1. m \div d \in Nat /\ m < (m \div d) * d + d
  BY Quotients
<1>2. n < (m \div d + 1) * d
  BY <1>1
<1>3. n \div d < m \div d + 1
  BY <1>1, <1>2, QuotientBelow
<1> QED
  BY <1>1, <1>3, Quotients

(* Until the next config starts, the batch is one before its first one.    *)
LEMMA BeforeNextConfig ==
    ASSUME NEW i \in 1 .. Len(BatchConfigs) - 1, NEW v \in Nat,
           BatchConfigs[i].StartBlockNumber <= v,
           v < BatchConfigs[i + 1].StartBlockNumber
    PROVE  /\ BatchIndex(BatchConfigs[i], v) <= BatchConfigs[i + 1].StartBatchIndex
           /\ IsActive(BatchConfigs[i]) =>
                BatchIndex(BatchConfigs[i], v) < BatchConfigs[i + 1].StartBatchIndex
<1> DEFINE c == BatchConfigs[i]
           next == BatchConfigs[i + 1]
<1>1. IsSeamless(c, next)
  BY ConfigsAssumption
<1>2. c \in ConfigType /\ next \in ConfigType
  BY ConfigTypes
<1>f. /\ c.StartBatchIndex \in Nat /\ c.StartBlockNumber \in Nat /\ c.BatchSpan \in Nat
      /\ next.StartBatchIndex \in Nat /\ next.StartBlockNumber \in Nat
      /\ IsActive(c) <=> c.BatchSpan \in Nat \ {0}
  BY <1>2, ConfigFields
<1>s. c.StartBlockNumber <= v /\ v < next.StartBlockNumber
  OBVIOUS
<1> HIDE DEF c, next
<1>3. CASE ~IsActive(c)
  <2>1. BatchIndex(c, v) <= next.StartBatchIndex
    BY <1>1, <1>f, <1>3 DEF IsSeamless, BatchIndex
  <2> QED
    BY <2>1, <1>3 DEF c, next
<1>4. CASE IsActive(c)
  <2> DEFINE n == v - c.StartBlockNumber
             m == next.StartBatchIndex - c.StartBatchIndex
             d == c.BatchSpan
  <2>1. n \in Nat /\ m \in Nat /\ d \in Nat \ {0}
    <3>1. next.StartBatchIndex > c.StartBatchIndex
      BY <1>1, <1>4 DEF IsSeamless
    <3> QED
      BY <3>1, <1>f, <1>s, <1>4
  <2>2. next.StartBlockNumber = c.StartBlockNumber + m * d
    BY <1>1, <1>4 DEF IsSeamless
  <2>3. m * d \in Nat
    BY <2>1
  <2>4. n < m * d
    <3> HIDE DEF m, d
    <3> QED
      BY <2>2, <2>3, <1>s, <1>f
  <2>5. n \div d < m
    BY <2>1, <2>4, QuotientBelow
  <2>6. BatchIndex(c, v) = c.StartBatchIndex + n \div d
    BY <1>4 DEF BatchIndex
  <2>7. n \div d \in Nat
    BY <2>1, Quotients
  <2> HIDE DEF n, d
  <2>8. BatchIndex(c, v) < next.StartBatchIndex /\ BatchIndex(c, v) \in Nat
    BY <2>5, <2>6, <2>7, <1>f
  <2>9. BatchIndex(c, v) <= next.StartBatchIndex
    BY <2>8, <1>f
  <2> QED
    BY <2>8, <2>9 DEF c, next
<1> QED
  BY <1>3, <1>4

LEMMA BatchIndexType ==
    ASSUME NEW c \in ConfigType, NEW v \in Nat, c.StartBlockNumber <= v
    PROVE  BatchIndex(c, v) \in Nat /\ c.StartBatchIndex <= BatchIndex(c, v)
<1>1. CASE ~IsActive(c)
  BY <1>1 DEF BatchIndex, ConfigType
<1>2. CASE IsActive(c)
  <2>1. v - c.StartBlockNumber \in Nat /\ c.BatchSpan \in Nat \ {0}
    BY <1>2 DEF IsActive, ConfigType
  <2>2. (v - c.StartBlockNumber) \div c.BatchSpan \in Nat
    BY <2>1, Quotients
  <2>3. BatchIndex(c, v) = c.StartBatchIndex + (v - c.StartBlockNumber) \div c.BatchSpan
    BY <1>2 DEF BatchIndex
  <2> QED
    BY <2>2, <2>3 DEF ConfigType
<1> QED
  BY <1>1, <1>2

(* The batch that is current at a block.                                   *)
Current(v) == BatchIndex(ActiveConfig(v), v)

LEMMA CurrentType ==
    ASSUME NEW v \in Nat
    PROVE  Current(v) \in Nat
BY ActiveConfigIs, BatchIndexType DEF Current, ActiveConfig

(* It never goes back.                                                     *)
LEMMA CurrentGrows ==
    ASSUME NEW v \in Nat, NEW w \in Nat, v <= w
    PROVE  Current(v) <= Current(w)
<1> DEFINE i == ActiveConfigIndex(v)
           j == ActiveConfigIndex(w)
           c == BatchConfigs[i]
           d == BatchConfigs[j]
<1>1. /\ i \in 1 .. Len(BatchConfigs) /\ c.StartBlockNumber <= v /\ c \in ConfigType
      /\ \A n \in 1 .. Len(BatchConfigs) : n > i => BatchConfigs[n].StartBlockNumber > v
  BY ActiveConfigIs DEF ActiveConfig
<1>2. /\ j \in 1 .. Len(BatchConfigs) /\ d.StartBlockNumber <= w /\ d \in ConfigType
      /\ \A n \in 1 .. Len(BatchConfigs) : n > j => BatchConfigs[n].StartBlockNumber > w
  BY ActiveConfigIs DEF ActiveConfig
<1>3. Current(v) = BatchIndex(c, v) /\ Current(w) = BatchIndex(d, w)
  BY DEF Current, ActiveConfig
<1> HIDE DEF i, j
<1>4. i <= j
  <2> SUFFICES ASSUME i > j PROVE FALSE
    BY <1>1, <1>2
  <2>1. c.StartBlockNumber > w
    BY <1>1, <1>2
  <2> QED
    BY <2>1, <1>1 DEF ConfigType
<1>5. CASE i = j
  <2>1. CASE ~IsActive(c)
    BY <1>3, <1>5, <1>1, <2>1 DEF BatchIndex, ConfigType
  <2>2. CASE IsActive(c)
    <3> DEFINE n == v - c.StartBlockNumber
               m == w - c.StartBlockNumber
    <3>1. n \in Nat /\ m \in Nat /\ n <= m /\ c.BatchSpan \in Nat \ {0}
      BY <1>1, <2>2 DEF IsActive, ConfigType
    <3>2. n \div c.BatchSpan <= m \div c.BatchSpan
      BY <3>1, QuotientGrows
    <3>3. n \div c.BatchSpan \in Nat /\ m \div c.BatchSpan \in Nat
      BY <3>1, Quotients
    <3>4. /\ Current(v) = c.StartBatchIndex + n \div c.BatchSpan
          /\ Current(w) = c.StartBatchIndex + m \div c.BatchSpan
      BY <1>3, <1>5, <2>2 DEF BatchIndex
    <3> QED
      BY <3>2, <3>3, <3>4, <1>1 DEF ConfigType
  <2> QED
    BY <2>1, <2>2
<1>6. CASE i < j
  <2>1. i \in 1 .. Len(BatchConfigs) - 1 /\ i + 1 \in 1 .. Len(BatchConfigs) /\ i + 1 <= j
    BY <1>1, <1>2, <1>6, ConfigTypes
  <2>2. v < BatchConfigs[i + 1].StartBlockNumber
    <3>1. i + 1 > i
      BY <1>1
    <3>2. BatchConfigs[i + 1].StartBlockNumber \in Nat
      BY <2>1, ConfigTypes DEF ConfigType
    <3> QED
      BY <3>1, <3>2, <2>1, <1>1
  <2>3. BatchIndex(c, v) <= BatchConfigs[i + 1].StartBatchIndex
    <3> HIDE DEF c
    <3>1. c = BatchConfigs[i]
      BY DEF c
    <3> QED
      BY <2>1, <2>2, <1>1, <3>1, BeforeNextConfig
  <2>4. BatchConfigs[i + 1].StartBatchIndex <= d.StartBatchIndex
    BY <2>1, <1>2, StartBatchIndexGrows
  <2>5. d.StartBatchIndex <= BatchIndex(d, w) /\ BatchIndex(d, w) \in Nat
    BY <1>2, BatchIndexType
  <2>6. BatchIndex(c, v) \in Nat
    BY <1>1, BatchIndexType
  <2>7. BatchConfigs[i + 1].StartBatchIndex \in Nat /\ d.StartBatchIndex \in Nat
    BY <2>1, <1>2, ConfigTypes DEF ConfigType
  <2> QED
    BY <1>3, <2>3, <2>4, <2>5, <2>6, <2>7
<1> QED
  BY <1>1, <1>2, <1>4, <1>5, <1>6

(* A config that starts with a later batch has started.                    *)
PassedOver(b, v) ==
    \E i \in 1 .. Len(BatchConfigs) :
       BatchConfigs[i].StartBatchIndex > b /\ BatchConfigs[i].StartBlockNumber <= v

(* A batch before the current one is closed, or was passed over.           *)
LEMMA ClosedBeforeCurrent ==
    ASSUME NEW v \in Nat, NEW b \in Nat, b < Current(v)
    PROVE  BatchEndBlock(ConfigForBatchIndex(b), b) <= v \/ PassedOver(b, v)
<1> DEFINE a == ActiveConfigIndex(v)
           j == ConfigIndex(b)
           c == BatchConfigs[a]
           e == BatchConfigs[j]
<1>1. /\ a \in 1 .. Len(BatchConfigs) /\ c.StartBlockNumber <= v /\ c \in ConfigType
      /\ \A n \in 1 .. Len(BatchConfigs) : n > a => BatchConfigs[n].StartBlockNumber > v
  BY ActiveConfigIs DEF ActiveConfig
<1>2. /\ j \in 1 .. Len(BatchConfigs) /\ e.StartBatchIndex <= b /\ e \in ConfigType
      /\ \A n \in 1 .. Len(BatchConfigs) : n > j => BatchConfigs[n].StartBatchIndex > b
      /\ ConfigForBatchIndex(b) = e
  BY ConfigForBatchIndexIs
<1>3. b < BatchIndex(c, v)
  BY DEF Current, ActiveConfig
<1> HIDE DEF a, j
<1>4. BatchIndex(c, v) \in Nat
  BY <1>1, BatchIndexType
<1>c. c = BatchConfigs[a] /\ e = BatchConfigs[j]
  OBVIOUS
<1>f. /\ c.StartBatchIndex \in Nat /\ c.StartBlockNumber \in Nat /\ c.BatchSpan \in Nat
      /\ e.StartBatchIndex \in Nat /\ e.StartBlockNumber \in Nat /\ e.BatchSpan \in Nat
      /\ IsActive(c) <=> c.BatchSpan \in Nat \ {0}
  BY <1>1, <1>2, ConfigFields
<1> HIDE DEF c, e
<1>5. CASE j < a
  <2>1. c.StartBatchIndex > b
    BY <1>1, <1>2, <1>5, <1>c
  <2> QED
    BY <2>1, <1>1, <1>c DEF PassedOver
<1>6. CASE j = a
  <2>1. IsActive(c)
    <3>1. c.StartBatchIndex <= b
      BY <1>2, <1>6, <1>c
    <3> QED
      BY <3>1, <1>3, <1>f DEF BatchIndex
  <2> DEFINE n == v - c.StartBlockNumber
             x == b - c.StartBatchIndex
             d == c.BatchSpan
  <2>2. n \in Nat /\ x \in Nat /\ d \in Nat \ {0}
    BY <1>1, <1>2, <1>6, <1>c, <2>1, <1>f
  <2>3. BatchIndex(c, v) = c.StartBatchIndex + n \div d
    BY <2>1 DEF BatchIndex
  <2>4. n \div d \in Nat /\ (n \div d) * d <= n
    BY <2>2, Quotients
  <2>5. BatchEndBlock(c, b) = c.StartBlockNumber + x * d + d
    BY DEF BatchEndBlock
  <2>6. n = v - c.StartBlockNumber /\ x = b - c.StartBatchIndex
    OBVIOUS
  <2> HIDE DEF n, x, d
  <2>7. x < n \div d
    BY <2>2, <2>3, <2>4, <2>6, <1>3, <1>f
  <2>8. x * d + d <= (n \div d) * d
    BY <2>2, <2>4, <2>7, Products
  <2>9. x * d \in Nat /\ (n \div d) * d \in Nat
    BY <2>2, <2>4
  <2>10. x * d + d <= n
    BY <2>2, <2>4, <2>8, <2>9
  <2>11. BatchEndBlock(c, b) <= v
    BY <2>2, <2>5, <2>6, <2>9, <2>10, <1>f
  <2> QED
    BY <2>11, <1>2, <1>6, <1>c
<1>7. CASE j > a
  <2>1. a \in 1 .. Len(BatchConfigs) - 1 /\ a + 1 \in 1 .. Len(BatchConfigs) /\ a + 1 <= j
    BY <1>1, <1>2, <1>7, ConfigTypes
  <2>2. BatchConfigs[a + 1].StartBatchIndex \in Nat
    BY <2>1, ConfigTypes, ConfigFields
  <2>3. v < BatchConfigs[a + 1].StartBlockNumber
    <3>1. a + 1 > a
      BY <2>1
    <3> QED
      BY <2>1, <1>1, <3>1
  <2>4. BatchIndex(c, v) <= BatchConfigs[a + 1].StartBatchIndex
    BY <2>1, <2>3, <1>1, <1>c, BeforeNextConfig
  <2>5. BatchConfigs[a + 1].StartBatchIndex <= e.StartBatchIndex
    BY <2>1, <1>2, <1>c, StartBatchIndexGrows
  <2> QED
    BY <1>2, <1>3, <1>4, <2>2, <2>4, <2>5, <1>f
<1> QED
  BY <1>1, <1>2, <1>5, <1>6, <1>7

-----------------------------------------------------------------------------
(* The invariant.                                                          *)

EonStarts == [type : {"EonStarted"}, Eon : 1 .. MaxEons, BatchIndex : Batches]
ConfigEvents == [type : {"BatchConfig"}, ConfigIndex : Nat]
Finalizations ==
    [type : {"DKGFinalized"}, Eon : 1 .. MaxEons, Failed : SUBSET Slow]
Shares ==
    [type : {"EpochSecretKeyShare"}, Eon : 1 .. MaxEons, Epoch : Batches,
     Sender : Keypers, Verifies : BOOLEAN]
Signatures ==
    [type : {"DecryptionSignature"}, BatchIndex : Batches, Sender : Keypers,
     Hash : Nat \X SUBSET Nat]
Event == ConfigEvents \cup EonStarts \cup Finalizations \cup Shares \cup Signatures

EKGType == [Eon : 1 .. MaxEons, EpochKG : KG!EpochKGState]

TXType ==
    [type : {"cipher"}, halfStep : Nat, hash : Nat, result : SUBSET Nat]
    \cup [type : {"skip", "plain", "accuse"}, halfStep : Nat]

KeyperState ==
    [main : Nat, SyncHeight : Nat \ {0}, EKGs : Seq(EKGType),
     Batches : [Batches -> Batch], PendingHalfStep : SUBSET (0 .. 2 * MaxBatch + 1),
     NextEpochSecretShare : Nat, HalfStepsChecked : Nat,
     messages : Seq(Shares \cup Signatures), mainChainTXs : Seq(TXType)]

HalfStep ==
    [kind : {"cipher", "skip", "plain"}, block : Nat, executor : SUBSET Keypers,
     result : SUBSET Nat]

(* What is on the chains.                                                  *)
ChainOK ==
    /\ block \in 1 .. MaxBlock
    /\ log \in Seq(Event)
    /\ txs \in [Batches -> Seq([block : Nat, eon : Nat])]
    /\ \A b \in Batches : Len(txs[b]) <= MaxTxs
    /\ halfSteps \in Seq(HalfStep)
    /\ \A i \in DOMAIN halfSteps : halfSteps[i].block \in 1 .. block

(* The shares a keyper has kept for a key are on the chain, and so are     *)
(* those of the keys it has computed.                                      *)
EKGOK(ekg) ==
    /\ ekg \in EKGType
    /\ \A b \in Batches : ekg.EpochKG.SecretShares[b] \subseteq SharesOnChain(ekg.Eon, b)
    /\ \A b \in ekg.EpochKG.SecretKeys : HasKey(ekg.Eon, b)

KeyperOK(kp) ==
    /\ kp \in KeyperState
    /\ kp.main < block
    /\ kp.SyncHeight <= Len(log) + 1
    /\ kp.NextEpochSecretShare <= Current(kp.main)
    /\ \A i \in DOMAIN kp.EKGs : EKGOK(kp.EKGs[i])

(* The shares a keyper has sent: each is for a batch before the next one,  *)
(* and there are no two for a batch and different eons.                    *)
IsShareOf(m, k) == m.type = "EpochSecretKeyShare" /\ m.Sender = k

SharesOf(k) ==
    {m \in Elements(log) \cup Elements(keypers[k].messages) : IsShareOf(m, k)}

SharesOK(k) ==
    /\ \A m \in Elements(keypers[k].messages) : m.Sender = k
    /\ \A m \in SharesOf(k) : m.Epoch < keypers[k].NextEpochSecretShare
    /\ \A m, n \in SharesOf(k) : m.Epoch = n.Epoch => m.Eon = n.Eon

EpochsInv ==
    /\ ChainOK
    /\ keypers \in [Honest -> KeyperState]
    /\ \A k \in Honest : KeyperOK(keypers[k])
    /\ \A k \in Honest : SharesOK(k)

-----------------------------------------------------------------------------
(* What follows from it.                                                   *)

LEMMA SharesOnChainAre ==
    ASSUME log \in Seq(Event), NEW eon, NEW b
    PROVE  /\ SharesOnChain(eon, b) \subseteq Keypers
           /\ \A k \in SharesOnChain(eon, b) :
                 EpochSecretKeyShare(eon, b, k, TRUE) \in Elements(log)
<1> SUFFICES ASSUME NEW k \in SharesOnChain(eon, b)
             PROVE  k \in Keypers /\ EpochSecretKeyShare(eon, b, k, TRUE) \in Elements(log)
  OBVIOUS
<1>1. PICK n \in DOMAIN log : /\ log[n].type = "EpochSecretKeyShare" /\ log[n].Eon = eon
                              /\ log[n].Epoch = b /\ log[n].Verifies /\ log[n].Sender = k
  BY DEF SharesOnChain, EpochSecretKeyShares
<1>2. log[n] \in Shares
  BY <1>1 DEF Event, ConfigEvents, EonStarts, Finalizations, Shares, Signatures
<1>3. log[n].Verifies = TRUE /\ k \in Keypers
  BY <1>1, <1>2 DEF Shares
<1>4. log[n] = EpochSecretKeyShare(eon, b, k, TRUE)
  BY <1>1, <1>2, <1>3 DEF Shares, EpochSecretKeyShare
<1> QED
  BY <1>3, <1>4 DEF Elements

LEMMA SharesOnChainFinite ==
    ASSUME log \in Seq(Event), NEW eon, NEW b
    PROVE  IsFiniteSet(SharesOnChain(eon, b)) /\ Cardinality(SharesOnChain(eon, b)) \in Nat
<1>1. SharesOnChain(eon, b) \subseteq Keypers /\ IsFiniteSet(Keypers)
  BY FewFaulty, SharesOnChainAre
<1> QED
  BY <1>1, FS_Subset, FS_CardinalityType

LEMMA FaultyFinite ==
    /\ IsFiniteSet(Faulty) /\ IsFiniteSet(Faulty \cup Lagging)
    /\ Cardinality(Faulty) \in Nat /\ Cardinality(Faulty \cup Lagging) \in Nat
    /\ Cardinality(Keypers) \in Nat
<1>1. Faulty \subseteq Keypers /\ Faulty \cup Lagging \subseteq Keypers /\ IsFiniteSet(Keypers)
  BY FewFaulty, ConstantsAssumption DEF Faulty
<1> QED
  BY <1>1, FS_Subset, FS_CardinalityType

(* A threshold of keypers has an honest one in it that is not behind.      *)
LEMMA HonestSender ==
    ASSUME NEW S \in SUBSET Keypers, Cardinality(S) >= Threshold
    PROVE  \E k \in S : k \in Honest /\ k \notin Lagging
<1> SUFFICES ASSUME S \subseteq Faulty \cup Lagging PROVE FALSE
  BY DEF Faulty
<1>1. Cardinality(S) <= Cardinality(Faulty \cup Lagging) /\ Cardinality(S) \in Nat
  BY FaultyFinite, FS_Subset, FS_CardinalityType
<1> QED
  BY <1>1, FewFaulty, FaultyFinite, ConstantsAssumption

(* Two thresholds have an honest one in common.                            *)
LEMMA HonestInCommon ==
    ASSUME NEW S \in SUBSET Keypers, Cardinality(S) >= Threshold,
           NEW T \in SUBSET Keypers, Cardinality(T) >= Threshold
    PROVE  \E k \in S \cap T : k \in Honest
<1> SUFFICES ASSUME S \cap T \subseteq Faulty PROVE FALSE
  BY DEF Faulty
<1>1. IsFiniteSet(S) /\ IsFiniteSet(T) /\ IsFiniteSet(Keypers)
  BY FewFaulty, FS_Subset
<1>2. /\ Cardinality(S \cup T) = Cardinality(S) + Cardinality(T) - Cardinality(S \cap T)
  BY <1>1, FS_Union
<1>3. S \cup T \subseteq Keypers /\ IsFiniteSet(S \cup T) /\ IsFiniteSet(S \cap T)
  BY <1>1, FS_Subset
<1>4. Cardinality(S \cup T) <= Cardinality(Keypers)
  BY <1>1, <1>3, FS_Subset
<1>5. Cardinality(S \cap T) <= Cardinality(Faulty)
  BY FaultyFinite, FS_Subset
<1>6. /\ Cardinality(S) \in Nat /\ Cardinality(T) \in Nat /\ Cardinality(S \cap T) \in Nat
      /\ Cardinality(S \cup T) \in Nat
  BY <1>1, <1>3, FS_CardinalityType
<1>7. Threshold \in Nat
  BY ConstantsAssumption
<1> QED
  BY <1>2, <1>4, <1>5, <1>6, <1>7, FewFaulty, FaultyFinite

(* The key of a batch is made of shares for closed batches only.           *)
LEMMA SenderIsPast ==
    ASSUME EpochsInv, NEW eon, NEW b \in Batches,
           NEW k \in SharesOnChain(eon, b) \cap Honest
    PROVE  b < Current(keypers[k].main) /\ keypers[k].main \in Nat /\ keypers[k].main < block
<1> DEFINE share == EpochSecretKeyShare(eon, b, k, TRUE)
<1>1. share \in Elements(log) /\ IsShareOf(share, k) /\ share.Epoch = b
  BY SharesOnChainAre DEF EpochsInv, ChainOK, IsShareOf, EpochSecretKeyShare
<1>2. share \in SharesOf(k)
  BY <1>1 DEF SharesOf
<1>3. b < keypers[k].NextEpochSecretShare
  BY <1>1, <1>2 DEF EpochsInv, SharesOK
<1>4. KeyperOK(keypers[k])
  BY DEF EpochsInv
<1>5. /\ keypers[k].main \in Nat /\ keypers[k].NextEpochSecretShare \in Nat
      /\ keypers[k].main < block /\ keypers[k].NextEpochSecretShare <= Current(keypers[k].main)
  BY <1>4 DEF KeyperOK, KeyperState
<1>6. Current(keypers[k].main) \in Nat /\ b \in Nat
  BY <1>5, CurrentType DEF Batches
<1> QED
  BY <1>3, <1>5, <1>6

LEMMA BatchEndBlockType ==
    ASSUME NEW b \in Nat
    PROVE  BatchEndBlock(ConfigForBatchIndex(b), b) \in Nat
<1> DEFINE c == ConfigForBatchIndex(b)
<1>1. /\ c.StartBatchIndex \in Nat /\ c.StartBlockNumber \in Nat /\ c.BatchSpan \in Nat
      /\ c.StartBatchIndex <= b
  BY ConfigForBatchIndexIs, ConfigFields
<1> HIDE DEF c
<1>2. b - c.StartBatchIndex \in Nat
  BY <1>1
<1>3. (b - c.StartBatchIndex) * c.BatchSpan \in Nat
  BY <1>1, <1>2
<1>4. BatchEndBlock(c, b) \in Nat
  BY <1>1, <1>3 DEF BatchEndBlock
<1> QED
  BY <1>4 DEF c

LEMMA InvSecret ==
    ASSUME EpochsInv, NEW eon, NEW b \in Batches, HasKey(eon, b)
    PROVE  \/ BatchEndBlock(ConfigForBatchIndex(b), b) < block
           \/ PassedOver(b, block - 1)
<1>1. PICK k \in SharesOnChain(eon, b) : k \in Honest
  <2>1. SharesOnChain(eon, b) \subseteq Keypers
    BY SharesOnChainAre DEF EpochsInv, ChainOK
  <2> QED
    BY <2>1, HonestSender DEF HasKey
<1> DEFINE v == keypers[k].main
           end == BatchEndBlock(ConfigForBatchIndex(b), b)
<1>2. b < Current(v) /\ v \in Nat /\ v < block
  BY <1>1, SenderIsPast
<1>3. b \in Nat /\ block \in Nat
  BY DEF Batches, EpochsInv, ChainOK
<1>4. end <= v \/ PassedOver(b, v)
  BY <1>2, <1>3, ClosedBeforeCurrent
<1>5. end \in Nat
  BY <1>3, BatchEndBlockType
<1> HIDE DEF v, end
<1>6. CASE end <= v
  BY <1>2, <1>3, <1>5, <1>6 DEF end
<1>7. CASE PassedOver(b, v)
  <2>1. PICK i \in 1 .. Len(BatchConfigs) :
          BatchConfigs[i].StartBatchIndex > b /\ BatchConfigs[i].StartBlockNumber <= v
    BY <1>7 DEF PassedOver
  <2>2. BatchConfigs[i].StartBlockNumber \in Nat
    BY ConfigTypes, ConfigFields
  <2>3. BatchConfigs[i].StartBlockNumber <= block - 1
    BY <1>2, <1>3, <2>1, <2>2
  <2> QED
    BY <2>1, <2>3 DEF PassedOver
<1> QED
  BY <1>4, <1>6, <1>7

(* A batch that is not overtaken is closed when it has a key.              *)
LEMMA InvClosed ==
    ASSUME EpochsInv, NEW eon, NEW b \in Batches, HasKey(eon, b), ~Overtaken(b)
    PROVE  /\ BatchEndBlock(ConfigForBatchIndex(b), b) < block
           /\ BatchEndBlock(ConfigForBatchIndex(b), b) \in Nat
<1> DEFINE end == BatchEndBlock(ConfigForBatchIndex(b), b)
<1>1. b \in Nat /\ block \in Nat
  BY DEF Batches, EpochsInv, ChainOK
<1>2. end \in Nat
  BY <1>1, BatchEndBlockType
<1>3. ASSUME PassedOver(b, block - 1) PROVE end < block
  <2>1. PICK i \in 1 .. Len(BatchConfigs) :
          /\ BatchConfigs[i].StartBatchIndex > b
          /\ BatchConfigs[i].StartBlockNumber <= block - 1
    BY <1>3 DEF PassedOver
  <2>2. BatchConfigs[i].StartBlockNumber \in Nat /\ i \in DOMAIN BatchConfigs
    BY ConfigTypes, ConfigFields
  <2>3. ~(BatchConfigs[i].StartBlockNumber < end)
    BY <2>1, <2>2 DEF Overtaken
  <2> HIDE DEF end
  <2> QED
    BY <1>1, <1>2, <2>1, <2>2, <2>3
<1> QED
  BY <1>2, <1>3, InvSecret

LEMMA InvOneEon ==
    ASSUME EpochsInv, NEW b \in Batches, NEW eon, HasKey(eon, b),
           NEW other, HasKey(other, b)
    PROVE  eon = other
<1>1. PICK k \in SharesOnChain(eon, b) \cap SharesOnChain(other, b) : k \in Honest
  <2>1. SharesOnChain(eon, b) \subseteq Keypers /\ SharesOnChain(other, b) \subseteq Keypers
    BY SharesOnChainAre DEF EpochsInv, ChainOK
  <2> QED
    BY <2>1, HonestInCommon DEF HasKey
<1> DEFINE m == EpochSecretKeyShare(eon, b, k, TRUE)
           n == EpochSecretKeyShare(other, b, k, TRUE)
<1>2. m \in Elements(log) /\ n \in Elements(log)
  BY <1>1, SharesOnChainAre DEF EpochsInv, ChainOK
<1>3. /\ IsShareOf(m, k) /\ IsShareOf(n, k) /\ m.Epoch = b /\ n.Epoch = b
      /\ m.Eon = eon /\ n.Eon = other
  BY DEF IsShareOf, EpochSecretKeyShare
<1>4. m \in SharesOf(k) /\ n \in SharesOf(k)
  BY <1>2, <1>3 DEF SharesOf
<1>5. m.Eon = n.Eon
  BY <1>1, <1>3, <1>4 DEF EpochsInv, SharesOK
<1> QED
  BY <1>3, <1>5

-----------------------------------------------------------------------------
(* The loops: what their recursive functions are.                          *)

LEMMA CollectedIs ==
    ASSUME NEW parts, NEW from \in Nat, NEW to \in Nat
    PROVE  \E upto :
             /\ Collected(parts, from, to) = upto[to]
             /\ \A n \in 0 .. to :
                  upto[n] = IF n <= from THEN <<>> ELSE upto[n - 1] \o parts[n - 1]
<1> DEFINE Steps(n, g) ==
             g = [i \in 0 .. n |-> IF i <= from THEN <<>> ELSE g[i - 1] \o parts[i - 1]]
           T == {n \in Nat : \A g : ~Steps(n, g)}
<1>1. 0 \notin T
  <2>1. Steps(0, [i \in 0 .. 0 |-> <<>>])
    OBVIOUS
  <2> QED
    BY <2>1
<1>2. ASSUME NEW n \in Nat, n \notin T PROVE n + 1 \notin T
  <2>1. PICK g : Steps(n, g)
    BY <1>2
  <2> DEFINE last == IF n + 1 <= from THEN <<>> ELSE g[n] \o parts[n]
             h == [i \in 0 .. n + 1 |-> IF i = n + 1 THEN last ELSE g[i]]
             k == [i \in 0 .. n + 1 |-> IF i <= from THEN <<>> ELSE h[i - 1] \o parts[i - 1]]
  <2>2. \A i \in 0 .. n : g[i] = IF i <= from THEN <<>> ELSE g[i - 1] \o parts[i - 1]
    BY <2>1
  <2>3. \A i \in 0 .. n + 1 : h[i] = k[i]
    <3> SUFFICES ASSUME NEW i \in 0 .. n + 1 PROVE h[i] = k[i]
      OBVIOUS
    <3>1. CASE i = n + 1
      <4>1. h[i] = last /\ h[n] = g[n] /\ i - 1 = n
        BY <3>1
      <4>2. k[i] = IF i <= from THEN <<>> ELSE h[i - 1] \o parts[i - 1]
        OBVIOUS
      <4> HIDE DEF h, k
      <4> QED
        BY <3>1, <4>1, <4>2
    <3>2. CASE i # n + 1 /\ ~(i <= from)
      <4>1. i \in 0 .. n /\ i - 1 \in 0 .. n
        BY <3>2
      <4>2. h[i] = g[i] /\ h[i - 1] = g[i - 1] /\ k[i] = h[i - 1] \o parts[i - 1]
        BY <3>2, <4>1
      <4> QED
        BY <2>2, <3>2, <4>1, <4>2
    <3>3. CASE i # n + 1 /\ i <= from
      <4>1. i \in 0 .. n
        BY <3>3
      <4>2. h[i] = g[i] /\ k[i] = <<>>
        BY <3>3, <4>1
      <4> QED
        BY <2>2, <3>3, <4>1, <4>2
    <3> QED
      BY <3>1, <3>2, <3>3
  <2>4. h = k
    BY <2>3
  <2>5. Steps(n + 1, h)
    BY <2>4
  <2> QED
    BY <2>5
<1>3. T = {}
  BY <1>1, <1>2, FirstFailure
<1>4. \E g : Steps(to, g)
  BY <1>3
<1> DEFINE f == CHOOSE g : Steps(to, g)
<1>5. Collected(parts, from, to) = f[to]
  BY DEF Collected
<1>6. Steps(to, f)
  BY <1>4
<1> HIDE DEF f
<1>7. \A n \in 0 .. to : f[n] = IF n <= from THEN <<>> ELSE f[n - 1] \o parts[n - 1]
  BY <1>6
<1> QED
  BY <1>5, <1>7

LEMMA SharesHandledIs ==
    ASSUME NEW kp, NEW k, NEW i, NEW height \in Nat, 0 < kp.SyncHeight
    PROVE  \A n \in 0 .. height :
             SharesHandled(kp, k, i, height)[n]
               = IF n < kp.SyncHeight THEN kp
                 ELSE IF n \in EpochSecretKeyShares(kp.EKGs[i].Eon)
                   THEN HandleShare(SharesHandled(kp, k, i, height)[n - 1], k, i, log[n],
                                    height)
                 ELSE SharesHandled(kp, k, i, height)[n - 1]
<1> DEFINE Next1(a, n) ==
             IF n < kp.SyncHeight THEN kp
             ELSE IF n \in EpochSecretKeyShares(kp.EKGs[i].Eon)
               THEN HandleShare(a, k, i, log[n], height)
             ELSE a
           Steps(n, g) == g = [j \in 0 .. n |-> Next1(g[j - 1], j)]
           T == {n \in Nat : \A g : ~Steps(n, g)}
<1>1. 0 \notin T
  <2> DEFINE g == [j \in 0 .. 0 |-> kp]
  <2>1. \A j \in 0 .. 0 : Next1(g[j - 1], j) = kp
    OBVIOUS
  <2>2. g = [j \in 0 .. 0 |-> Next1(g[j - 1], j)]
    <3> HIDE DEF Next1
    <3> QED
      BY <2>1
  <2> QED
    BY <2>2
<1> HIDE DEF Next1
<1>2. ASSUME NEW n \in Nat, n \notin T PROVE n + 1 \notin T
  <2>1. PICK g : Steps(n, g)
    BY <1>2
  <2> DEFINE h == [j \in 0 .. n + 1 |-> IF j = n + 1 THEN Next1(g[n], n + 1) ELSE g[j]]
             m == [j \in 0 .. n + 1 |-> Next1(h[j - 1], j)]
  <2>2. \A j \in 0 .. n : g[j] = Next1(g[j - 1], j)
    BY <2>1
  <2>3. \A j \in 0 .. n + 1 : h[j] = m[j]
    <3> SUFFICES ASSUME NEW j \in 0 .. n + 1 PROVE h[j] = m[j]
      OBVIOUS
    <3>1. CASE j = n + 1
      <4>1. h[j] = Next1(g[n], n + 1) /\ h[n] = g[n] /\ j - 1 = n
        BY <3>1
      <4>2. m[j] = Next1(h[j - 1], j)
        OBVIOUS
      <4> HIDE DEF h, m
      <4> QED
        BY <3>1, <4>1, <4>2
    <3>2. CASE j # n + 1 /\ j # 0
      <4>1. j \in 0 .. n /\ j - 1 \in 0 .. n
        BY <3>2
      <4>2. h[j] = g[j] /\ h[j - 1] = g[j - 1] /\ m[j] = Next1(h[j - 1], j)
        BY <3>2, <4>1
      <4> QED
        BY <2>2, <3>2, <4>1, <4>2
    <3>3. CASE j = 0
      <4>1. \A a : Next1(a, 0) = kp
        BY DEF Next1
      <4>2. g[0] = kp
        BY <4>1, <2>2
      <4> QED
        BY <3>3, <4>1, <4>2
    <3> QED
      BY <3>1, <3>2, <3>3
  <2>4. h = m
    BY <2>3
  <2>5. Steps(n + 1, h)
    BY <2>4
  <2> QED
    BY <2>5
<1>3. T = {}
  BY <1>1, <1>2, FirstFailure
<1>4. \E g : Steps(height, g)
  BY <1>3
<1> DEFINE f == SharesHandled(kp, k, i, height)
<1>5. f = CHOOSE g : Steps(height, g)
  BY DEF SharesHandled, Next1
<1>6. Steps(height, f)
  BY <1>4, <1>5
<1> HIDE DEF f
<1>7. \A n \in 0 .. height : f[n] = Next1(f[n - 1], n)
  BY <1>6
<1> QED
  BY <1>7 DEF f, Next1

LEMMA EKGsSyncedIs ==
    ASSUME NEW kp, NEW k, NEW height, Len(kp.EKGs) \in Nat
    PROVE  /\ EKGsSynced(kp, k, height)[0] = kp
           /\ \A i \in 1 .. Len(kp.EKGs) :
                EKGsSynced(kp, k, height)[i]
                  = syncEKGWithEon(EKGsSynced(kp, k, height)[i - 1], k, i, height)
<1> DEFINE After(a, i) == IF i = 0 THEN kp ELSE syncEKGWithEon(a, k, i, height)
           Steps(n, g) == g = [j \in 0 .. n |-> After(g[j - 1], j)]
           T == {n \in Nat : \A g : ~Steps(n, g)}
<1>a. \A a : After(a, 0) = kp
  OBVIOUS
<1>b. \A a, i : i # 0 => After(a, i) = syncEKGWithEon(a, k, i, height)
  OBVIOUS
<1>c. EKGsSynced(kp, k, height) = CHOOSE g : Steps(Len(kp.EKGs), g)
  BY DEF EKGsSynced
<1> HIDE DEF After
<1>1. 0 \notin T
  <2> DEFINE g == [j \in 0 .. 0 |-> kp]
  <2>1. g = [j \in 0 .. 0 |-> After(g[j - 1], j)]
    BY <1>a
  <2> QED
    BY <2>1
<1>2. ASSUME NEW n \in Nat, n \notin T PROVE n + 1 \notin T
  <2>1. PICK g : Steps(n, g)
    BY <1>2
  <2> DEFINE h == [j \in 0 .. n + 1 |-> IF j = n + 1 THEN After(g[n], n + 1) ELSE g[j]]
             m == [j \in 0 .. n + 1 |-> After(h[j - 1], j)]
  <2>2. \A j \in 0 .. n : g[j] = After(g[j - 1], j)
    BY <2>1
  <2>3. \A j \in 0 .. n + 1 : h[j] = m[j]
    <3> SUFFICES ASSUME NEW j \in 0 .. n + 1 PROVE h[j] = m[j]
      OBVIOUS
    <3>1. CASE j = n + 1
      <4>1. h[j] = After(g[n], n + 1) /\ h[n] = g[n] /\ j - 1 = n
        BY <3>1
      <4>2. m[j] = After(h[j - 1], j)
        OBVIOUS
      <4> HIDE DEF h, m
      <4> QED
        BY <3>1, <4>1, <4>2
    <3>2. CASE j # n + 1 /\ j # 0
      <4>1. j \in 0 .. n /\ j - 1 \in 0 .. n
        BY <3>2
      <4>2. h[j] = g[j] /\ h[j - 1] = g[j - 1] /\ m[j] = After(h[j - 1], j)
        BY <3>2, <4>1
      <4> QED
        BY <2>2, <3>2, <4>1, <4>2
    <3>3. CASE j = 0
      BY <1>a, <2>2, <3>3
    <3> QED
      BY <3>1, <3>2, <3>3
  <2>4. h = m
    BY <2>3
  <2>5. Steps(n + 1, h)
    BY <2>4
  <2> QED
    BY <2>5
<1>3. T = {}
  BY <1>1, <1>2, FirstFailure
<1>4. \E g : Steps(Len(kp.EKGs), g)
  BY <1>3
<1> DEFINE f == EKGsSynced(kp, k, height)
<1>6. Steps(Len(kp.EKGs), f)
  BY <1>4, <1>c
<1> HIDE DEF f
<1>7. \A n \in 0 .. Len(kp.EKGs) : f[n] = After(f[n - 1], n)
  BY <1>6
<1>8. f[0] = kp
  BY <1>7, <1>a
<1>9. \A n \in 1 .. Len(kp.EKGs) : f[n] = syncEKGWithEon(f[n - 1], k, n, height)
  BY <1>7, <1>b
<1> QED
  BY <1>8, <1>9 DEF f

LEMMA ElementsOfConcat ==
    ASSUME NEW S, NEW p \in Seq(S), NEW q \in Seq(S)
    PROVE  Elements(p \o q) = Elements(p) \cup Elements(q)
<1>1. /\ Len(p) \in Nat /\ Len(q) \in Nat
      /\ DOMAIN (p \o q) = 1 .. Len(p) + Len(q)
      /\ DOMAIN p = 1 .. Len(p) /\ DOMAIN q = 1 .. Len(q)
  OBVIOUS
<1>2. ASSUME NEW i \in DOMAIN (p \o q)
      PROVE  (p \o q)[i] \in Elements(p) \cup Elements(q)
  <2>1. CASE i <= Len(p)
    <3>1. i \in DOMAIN p /\ (p \o q)[i] = p[i]
      BY <1>1, <2>1
    <3> QED
      BY <3>1 DEF Elements
  <2>2. CASE ~(i <= Len(p))
    <3>1. i - Len(p) \in DOMAIN q /\ (p \o q)[i] = q[i - Len(p)]
      BY <1>1, <2>2
    <3> QED
      BY <3>1 DEF Elements
  <2> QED
    BY <2>1, <2>2
<1>3. ASSUME NEW i \in DOMAIN p PROVE p[i] \in Elements(p \o q)
  <2>1. i \in DOMAIN (p \o q) /\ (p \o q)[i] = p[i]
    BY <1>1
  <2> QED
    BY <2>1 DEF Elements
<1>4. ASSUME NEW i \in DOMAIN q PROVE q[i] \in Elements(p \o q)
  <2>1. i + Len(p) \in DOMAIN (p \o q) /\ (p \o q)[i + Len(p)] = q[i]
    BY <1>1
  <2> QED
    BY <2>1 DEF Elements
<1> QED
  BY <1>2, <1>3, <1>4 DEF Elements

LEMMA ElementsOfAppend ==
    ASSUME NEW S, NEW p \in Seq(S), NEW x \in S
    PROVE  Elements(Append(p, x)) = Elements(p) \cup {x}
<1>1. Append(p, x) = p \o <<x>> /\ <<x>> \in Seq(S)
  OBVIOUS
<1>2. Elements(<<x>>) = {x}
  BY DEF Elements
<1>3. Elements(p \o <<x>>) = Elements(p) \cup Elements(<<x>>)
  BY <1>1, ElementsOfConcat
<1> QED
  BY <1>1, <1>2, <1>3

LEMMA ElementsOfTail ==
    ASSUME NEW S, NEW p \in Seq(S), p # <<>>
    PROVE  Head(p) \in Elements(p) /\ Elements(Tail(p)) \subseteq Elements(p)
<1>1. 1 \in DOMAIN p /\ Head(p) = p[1]
  OBVIOUS
<1>2. \A i \in DOMAIN Tail(p) : i + 1 \in DOMAIN p /\ Tail(p)[i] = p[i + 1]
  OBVIOUS
<1> QED
  BY <1>1, <1>2 DEF Elements

(* What a loop collects are the elements of its parts.                     *)
LEMMA CollectedElements ==
    ASSUME NEW S, NEW parts, NEW from \in Nat, NEW to \in Nat,
           \A n \in from .. to - 1 : parts[n] \in Seq(S)
    PROVE  /\ Collected(parts, from, to) \in Seq(S)
           /\ \A x \in Elements(Collected(parts, from, to)) :
                \E n \in from .. to - 1 : x \in Elements(parts[n])
<1>1. PICK upto :
        /\ Collected(parts, from, to) = upto[to]
        /\ \A n \in 0 .. to :
             upto[n] = IF n <= from THEN <<>> ELSE upto[n - 1] \o parts[n - 1]
  BY CollectedIs
<1> DEFINE In(seq) == /\ seq \in Seq(S)
                      /\ \A x \in Elements(seq) :
                           \E n \in from .. to - 1 : x \in Elements(parts[n])
           T == {n \in Nat : n <= to /\ ~In(upto[n])}
<1>2. In(<<>>)
  BY DEF Elements
<1>3. 0 \notin T
  <2>1. upto[0] = <<>>
    BY <1>1
  <2> HIDE DEF In
  <2> QED
    BY <1>2, <2>1
<1>4. ASSUME NEW n \in Nat, n \notin T PROVE n + 1 \notin T
  <2> SUFFICES ASSUME n + 1 <= to PROVE In(upto[n + 1])
    OBVIOUS
  <2>1. In(upto[n])
    BY <1>4
  <2>2. upto[n + 1] = IF n + 1 <= from THEN <<>> ELSE upto[n] \o parts[n]
    <3>1. n + 1 \in 0 .. to /\ (n + 1) - 1 = n
      OBVIOUS
    <3> QED
      BY <1>1, <3>1
  <2>3. CASE n + 1 <= from
    <3>1. upto[n + 1] = <<>>
      BY <2>2, <2>3
    <3> HIDE DEF In
    <3> QED
      BY <3>1, <1>2
  <2>4. CASE ~(n + 1 <= from)
    <3>1. n \in from .. to - 1
      BY <2>4
    <3> DEFINE p == upto[n]
               q == parts[n]
    <3>2. upto[n + 1] = p \o q
      BY <2>2, <2>4
    <3>3. p \in Seq(S) /\ q \in Seq(S)
      BY <2>1, <3>1
    <3>4. \A x \in Elements(p \o q) : x \in Elements(p) \/ x \in Elements(q)
      <4> HIDE DEF p, q
      <4> QED
        BY <3>3, ElementsOfConcat
    <3>5. p \o q \in Seq(S)
      BY <3>3
    <3> QED
      BY <2>1, <3>1, <3>2, <3>4, <3>5
  <2> QED
    BY <2>3, <2>4
<1>5. T = {}
  <2> HIDE DEF In
  <2> QED
    BY <1>3, <1>4, FirstFailure
<1>6. In(upto[to])
  BY <1>5
<1> QED
  BY <1>1, <1>6

-----------------------------------------------------------------------------
(* What a keyper does with the shares on the chain.                        *)

LEMMA SharesOnLog ==
    ASSUME ChainOK, NEW eon \in Nat, NEW n \in EpochSecretKeyShares(eon)
    PROVE  /\ log[n] \in Shares /\ log[n].Eon = eon /\ eon \in 1 .. MaxEons
           /\ log[n].Verifies =>
                log[n].Sender \in SharesOnChain(eon, log[n].Epoch)
<1>1. n \in DOMAIN log /\ log[n] \in Event /\ log[n].type = "EpochSecretKeyShare"
      /\ log[n].Eon = eon
  BY DEF EpochSecretKeyShares, ChainOK
<1>2. log[n] \in Shares
  BY <1>1 DEF Event, ConfigEvents, EonStarts, Finalizations, Shares, Signatures
<1>3. log[n].Eon \in 1 .. MaxEons /\ log[n].Sender \in Keypers
  BY <1>2 DEF Shares
<1>4. ASSUME log[n].Verifies
      PROVE  log[n] = EpochSecretKeyShare(eon, log[n].Epoch, log[n].Sender, TRUE)
  <2>1. log[n].Verifies = TRUE
    BY <1>2, <1>4 DEF Shares
  <2> QED
    BY <1>1, <1>2, <2>1 DEF Shares, EpochSecretKeyShare
<1> QED
  BY <1>1, <1>2, <1>3, <1>4 DEF SharesOnChain

LEMMA EnoughSharesIs ==
    ASSUME NEW senders
    PROVE  KG!EnoughShares(senders) <=> Cardinality(senders) >= Threshold
BY DEF KG!EnoughShares, KG!Cardinality, Cardinality

(* A share is added to those on the chain; with a threshold of them there  *)
(* is a key.                                                               *)
LEMMA HandledShare ==
    ASSUME ChainOK, NEW ekg, EKGOK(ekg), NEW n \in EpochSecretKeyShares(ekg.Eon),
           NEW new, new = KG!HandleEpochSecretKeyShare(ekg.EpochKG, log[n])
    PROVE  /\ EKGOK([ekg EXCEPT !.EpochKG = new])
           /\ new.SecretKeys # ekg.EpochKG.SecretKeys => HasKey(ekg.Eon, log[n].Epoch)
<1> DEFINE share == log[n]
           b == share.Epoch
           old == ekg.EpochKG
           eon == ekg.Eon
           senders == old.SecretShares[b] \cup {share.Sender}
<1>1. /\ ekg \in EKGType /\ eon \in 1 .. MaxEons
      /\ old \in KG!EpochKGState
      /\ \A c \in Batches : old.SecretShares[c] \subseteq SharesOnChain(eon, c)
      /\ \A c \in old.SecretKeys : HasKey(eon, c)
  BY DEF EKGOK, EKGType
<1>2. /\ share \in Shares /\ share.Eon = eon
      /\ share.Verifies => share.Sender \in SharesOnChain(eon, b)
  BY <1>1, SharesOnLog
<1>3. b \in Batches /\ share.Sender \in Keypers
  BY <1>2 DEF Shares
<1>4. /\ old.SecretShares \in [Batches -> SUBSET Keypers]
      /\ old.SecretKeys \subseteq Batches
      /\ old = [SecretShares |-> old.SecretShares, SecretKeys |-> old.SecretKeys]
  BY <1>1 DEF KG!EpochKGState
<1>5. ekg = [Eon |-> eon, EpochKG |-> old]
  BY <1>1 DEF EKGType
<1> DEFINE Fine(x) ==
             /\ x \in KG!EpochKGState
             /\ \A c \in Batches : x.SecretShares[c] \subseteq SharesOnChain(eon, c)
             /\ \A c \in x.SecretKeys : HasKey(eon, c)
<1>6. ASSUME NEW x, Fine(x) PROVE EKGOK([ekg EXCEPT !.EpochKG = x])
  <2>1. [ekg EXCEPT !.EpochKG = x] = [Eon |-> eon, EpochKG |-> x]
    BY <1>5
  <2>2. [Eon |-> eon, EpochKG |-> x] \in EKGType
    BY <1>1, <1>6 DEF EKGType
  <2> QED
    BY <2>1, <2>2, <1>6 DEF EKGOK
<1>7. CASE new = old
  BY <1>1, <1>6, <1>7
<1>8. CASE new # old
  <2>1. /\ new = KG!addEpochSecretKeyShare(old, share)
        /\ share.Verifies
    BY <1>8 DEF KG!HandleEpochSecretKeyShare
  <2>2. senders \subseteq SharesOnChain(eon, b) /\ senders \subseteq Keypers
    BY <2>1, <1>1, <1>2, <1>3, <1>4
  <2>3. CASE KG!EnoughShares(senders)
    <3>1. HasKey(eon, b)
      <4>1. Cardinality(senders) <= Cardinality(SharesOnChain(eon, b))
            /\ Cardinality(senders) \in Nat
        BY <2>2, SharesOnChainFinite, FS_Subset, FS_CardinalityType DEF ChainOK
      <4>2. Cardinality(senders) >= Threshold
        BY <2>3, EnoughSharesIs
      <4>3. Threshold \in Nat /\ Cardinality(SharesOnChain(eon, b)) \in Nat
        BY ConstantsAssumption, SharesOnChainFinite DEF ChainOK
      <4> HIDE DEF senders, eon, b
      <4> QED
        BY <4>1, <4>2, <4>3 DEF HasKey
    <3> DEFINE shares == [old.SecretShares EXCEPT ![b] = {}]
               keys == old.SecretKeys \cup {b}
    <3>2. new = [SecretShares |-> shares, SecretKeys |-> keys]
      BY <2>1, <2>3 DEF KG!addEpochSecretKeyShare
    <3>3. shares \in [Batches -> SUBSET Keypers] /\ keys \subseteq Batches
      BY <1>3, <1>4
    <3>4. \A c \in Batches : shares[c] \subseteq SharesOnChain(eon, c)
      BY <1>1, <1>3, <1>4
    <3>5. \A c \in keys : HasKey(eon, c)
      BY <1>1, <3>1
    <3> HIDE DEF shares, keys
    <3>6. Fine(new)
      BY <3>2, <3>3, <3>4, <3>5 DEF KG!EpochKGState
    <3> QED
      BY <3>1, <3>6, <1>6
  <2>4. CASE ~KG!EnoughShares(senders)
    <3> DEFINE shares == [old.SecretShares EXCEPT ![b] = senders]
    <3>1. new = [old EXCEPT !.SecretShares[b] = senders]
      BY <2>1, <2>4 DEF KG!addEpochSecretKeyShare
    <3>2. new = [SecretShares |-> shares, SecretKeys |-> old.SecretKeys]
      BY <3>1, <1>4
    <3>3. shares \in [Batches -> SUBSET Keypers]
      BY <1>3, <1>4, <2>2
    <3>4. \A c \in Batches : shares[c] \subseteq SharesOnChain(eon, c)
      BY <1>1, <1>3, <1>4, <2>2
    <3> HIDE DEF shares
    <3>5. Fine(new)
      BY <3>2, <3>3, <3>4, <1>1, <1>4 DEF KG!EpochKGState
    <3> QED
      BY <3>2, <3>5, <1>6
  <2> QED
    BY <2>3, <2>4
<1> QED
  BY <1>7, <1>8

LEMMA EncryptedTransactionsFinite ==
    ASSUME ChainOK, NEW b \in Batches, NEW v
    PROVE  /\ EncryptedTransactions(b, v) \subseteq 1 .. MaxTxs
           /\ EncryptedBatchHash(b, v) \in 0 .. MaxTxs
<1>1. /\ Len(txs[b]) \in Nat /\ Len(txs[b]) <= MaxTxs /\ DOMAIN txs[b] = 1 .. Len(txs[b])
      /\ MaxTxs \in Nat
  BY ConstantsAssumption DEF ChainOK
<1>2. EncryptedTransactions(b, v) \subseteq 1 .. Len(txs[b])
  BY <1>1 DEF EncryptedTransactions
<1>3. IsFiniteSet(1 .. Len(txs[b])) /\ Cardinality(1 .. Len(txs[b])) = Len(txs[b])
  <2>1. \A n \in Nat : IsFiniteSet(1 .. n) /\ Cardinality(1 .. n) = n
    BY FS_Interval
  <2> QED
    BY <1>1, <2>1
<1>4. /\ Cardinality(EncryptedTransactions(b, v)) <= Len(txs[b])
      /\ Cardinality(EncryptedTransactions(b, v)) \in Nat
  BY <1>2, <1>3, FS_Subset, FS_CardinalityType
<1> QED
  BY <1>1, <1>2, <1>4 DEF EncryptedBatchHash

BatchData ==
    [present : {TRUE}, DecryptedTransactions : SUBSET (1 .. MaxTxs),
     DecryptionSignatureHash : (0 .. MaxTxs) \X SUBSET (1 .. MaxTxs),
     DecryptionSignatureIndex : Nat, SignatureCount : Nat]

LEMMA PresentBatch ==
    ASSUME NEW batch \in Batch
    PROVE  /\ batch.present => batch \in BatchData
           /\ ~batch.present => batch = NoBatch
<1>1. batch = NoBatch \/ batch \in BatchData
  BY DEF Batch, BatchData
<1>2. CASE batch = NoBatch
  BY <1>2 DEF NoBatch
<1>3. CASE batch \in BatchData
  <2>1. batch.present = TRUE
    BY <1>3 DEF BatchData
  <2> QED
    BY <2>1, <1>3
<1> QED
  BY <1>1, <1>2, <1>3

LEMMA DecryptedBatchIs ==
    ASSUME ChainOK, NEW kp, NEW b \in Batches, NEW eon
    PROVE  /\ DecryptedBatch(kp, b, eon) \in BatchData
           /\ DecryptedBatch(kp, b, eon).DecryptedTransactions
                = DecryptTransactions(b, kp.main, eon)
           /\ DecryptedBatch(kp, b, eon).DecryptionSignatureHash
                = <<EncryptedBatchHash(b, kp.main), DecryptTransactions(b, kp.main, eon)>>
           /\ DecryptedBatch(kp, b, eon).DecryptionSignatureIndex = 0
           /\ DecryptedBatch(kp, b, eon).SignatureCount = 0
<1>1. DecryptTransactions(b, kp.main, eon) \subseteq 1 .. MaxTxs
  BY EncryptedTransactionsFinite DEF DecryptTransactions
<1>2. EncryptedBatchHash(b, kp.main) \in 0 .. MaxTxs
  BY EncryptedTransactionsFinite
<1> QED
  BY <1>1, <1>2 DEF DecryptedBatch, BatchData

(* The signatures on the chain up to some height that are counted.         *)
Counted(batch, b, from, to) ==
    {n \in DecryptionSignatures(b, to) :
       n > from /\ IsKeyper(ConfigForBatchIndex(b), log[n].Sender)
       /\ VerifySignature(batch, log[n])}

LEMMA CountedFinite ==
    ASSUME NEW batch, NEW b, NEW from, NEW to \in Nat
    PROVE  IsFiniteSet(Counted(batch, b, from, to))
           /\ Cardinality(Counted(batch, b, from, to)) \in Nat
<1>1. Counted(batch, b, from, to) \subseteq 1 .. to
  BY DEF Counted, DecryptionSignatures
<1>2. IsFiniteSet(1 .. to)
  BY FS_Interval
<1> QED
  BY <1>1, <1>2, FS_Subset, FS_CardinalityType

LEMMA syncBatchIs ==
    ASSUME NEW batch \in Batch, NEW b, NEW height \in Nat
    PROVE  /\ batch \notin BatchData => syncBatch(batch, b, height) = batch
           /\ batch \in BatchData /\ batch.DecryptedTransactions = {}
                => syncBatch(batch, b, height) = batch
           /\ batch \in BatchData /\ batch.DecryptedTransactions # {}
                => syncBatch(batch, b, height)
                     = [present |-> TRUE,
                        DecryptedTransactions |-> batch.DecryptedTransactions,
                        DecryptionSignatureHash |-> batch.DecryptionSignatureHash,
                        DecryptionSignatureIndex |-> height,
                        SignatureCount |-> batch.SignatureCount + Cardinality(
                          Counted(batch, b, batch.DecryptionSignatureIndex, height))]
           /\ batch \in BatchData => syncBatch(batch, b, height) \in BatchData
           /\ syncBatch(batch, b, height) \in Batch
<1> DEFINE new == Counted(batch, b, batch.DecryptionSignatureIndex, height)
<1>1. Cardinality(new) \in Nat
  BY CountedFinite
<1>2. syncBatch(batch, b, height)
        = IF ~batch.present \/ batch.DecryptedTransactions = {}
            THEN batch
            ELSE [batch EXCEPT !.SignatureCount = @ + Cardinality(new),
                               !.DecryptionSignatureIndex = height]
  BY DEF syncBatch, Counted
<1> HIDE DEF new
<1>3. CASE batch \notin BatchData
  <2>1. batch = NoBatch
    BY <1>3 DEF Batch, BatchData
  <2>2. ~batch.present
    BY <2>1 DEF NoBatch
  <2> QED
    BY <1>2, <1>3, <2>2
<1>4. CASE batch \in BatchData /\ batch.DecryptedTransactions = {}
  BY <1>2, <1>4
<1>5. CASE batch \in BatchData /\ batch.DecryptedTransactions # {}
  <2>1. batch = [present |-> TRUE,
                 DecryptedTransactions |-> batch.DecryptedTransactions,
                 DecryptionSignatureHash |-> batch.DecryptionSignatureHash,
                 DecryptionSignatureIndex |-> batch.DecryptionSignatureIndex,
                 SignatureCount |-> batch.SignatureCount]
        /\ batch.present = TRUE
    BY <1>5 DEF BatchData
  <2>2. syncBatch(batch, b, height)
          = [batch EXCEPT !.SignatureCount = @ + Cardinality(new),
                          !.DecryptionSignatureIndex = height]
    BY <1>2, <1>5, <2>1
  <2> DEFINE count == batch.SignatureCount + Cardinality(new)
  <2>3. syncBatch(batch, b, height)
          = [present |-> TRUE,
             DecryptedTransactions |-> batch.DecryptedTransactions,
             DecryptionSignatureHash |-> batch.DecryptionSignatureHash,
             DecryptionSignatureIndex |-> height,
             SignatureCount |-> count]
    BY <2>1, <2>2
  <2>4. count \in Nat
    BY <1>1, <1>5 DEF BatchData
  <2>5. syncBatch(batch, b, height) \in BatchData
    <3> HIDE DEF count
    <3> QED
      BY <1>5, <2>3, <2>4 DEF BatchData
  <2>6. BatchData \subseteq Batch
    BY DEF Batch, BatchData
  <2> QED
    BY <1>5, <2>3, <2>5, <2>6 DEF new
<1> QED
  BY <1>3, <1>4, <1>5

(* The state kp that a keyper k comes to from its state old, by handling   *)
(* shares up to some height.                                               *)
Decrypted(old, b, eon) == DecryptedBatch(old, b, eon)

SignatureFor(old, k, b, eon) ==
    DecryptionSignature(b, k, Decrypted(old, b, eon).DecryptionSignatureHash)

Reached(old, kp, k, height) ==
    /\ kp \in KeyperState
    /\ kp.main = old.main /\ kp.SyncHeight = old.SyncHeight
    /\ kp.PendingHalfStep = old.PendingHalfStep
    /\ kp.NextEpochSecretShare = old.NextEpochSecretShare
    /\ kp.HalfStepsChecked = old.HalfStepsChecked
    /\ kp.mainChainTXs = old.mainChainTXs
    /\ DOMAIN kp.EKGs = DOMAIN old.EKGs
    /\ \A i \in DOMAIN kp.EKGs : kp.EKGs[i].Eon = old.EKGs[i].Eon /\ EKGOK(kp.EKGs[i])
    /\ \A b \in Batches :
         \/ kp.Batches[b] = old.Batches[b]
         \/ \E eon \in 1 .. MaxEons :
              /\ HasKey(eon, b)
              /\ kp.Batches[b] \in {Decrypted(old, b, eon),
                                    syncBatch(Decrypted(old, b, eon), b, height)}
    /\ \A m \in Elements(kp.messages) :
         \/ m \in Elements(old.messages)
         \/ \E b \in Batches, eon \in 1 .. MaxEons :
              HasKey(eon, b) /\ m = SignatureFor(old, k, b, eon)

LEMMA DecryptAndSignReached ==
    ASSUME ChainOK, NEW old, NEW k \in Honest, NEW height \in Nat,
           NEW kp, Reached(old, kp, k, height),
           NEW b \in Batches, NEW eon \in 1 .. MaxEons, HasKey(eon, b)
    PROVE  Reached(old, DecryptAndSign(kp, k, b, eon, height), k, height)
<1> DEFINE decrypted == DecryptedBatch(kp, b, eon)
           synced == syncBatch(decrypted, b, height)
           signature == DecryptionSignature(b, k, synced.DecryptionSignatureHash)
           messages == IF SignaturesMissing(synced, b) /\ synced.DecryptedTransactions # {}
                         THEN Append(kp.messages, signature) ELSE kp.messages
           with(batch, sent) == [kp EXCEPT !.Batches[b] = batch, !.messages = sent]
<1>1. decrypted = Decrypted(old, b, eon)
  BY DEF Reached, Decrypted, DecryptedBatch
<1>2. decrypted \in BatchData /\ synced \in BatchData /\ decrypted \in Batch
      /\ synced.DecryptionSignatureHash = decrypted.DecryptionSignatureHash
  <2>1. decrypted \in BatchData
    BY DecryptedBatchIs
  <2>2. BatchData \subseteq Batch
    BY DEF Batch, BatchData
  <2> HIDE DEF decrypted
  <2> QED
    BY <2>1, <2>2, syncBatchIs
<1>3. signature = SignatureFor(old, k, b, eon) /\ signature \in Signatures
  <2>1. signature = SignatureFor(old, k, b, eon)
    BY <1>1, <1>2 DEF SignatureFor
  <2>2. k \in Keypers /\ MaxTxs \in Nat
    BY ConstantsAssumption
  <2>3. synced.DecryptionSignatureHash \in Nat \X SUBSET Nat
    <3> HIDE DEF synced
    <3>1. synced.DecryptionSignatureHash \in (0 .. MaxTxs) \X SUBSET (1 .. MaxTxs)
      BY <1>2 DEF BatchData
    <3>2. 0 .. MaxTxs \subseteq Nat /\ 1 .. MaxTxs \subseteq Nat
      BY <2>2
    <3> QED
      BY <3>1, <3>2
  <2>4. signature \in Signatures
    <3> HIDE DEF synced
    <3> QED
      BY <2>2, <2>3 DEF Signatures, DecryptionSignature
  <2> QED
    BY <2>1, <2>4
<1>4. /\ kp \in KeyperState /\ kp.Batches \in [Batches -> Batch]
      /\ kp.messages \in Seq(Shares \cup Signatures)
  BY DEF Reached, KeyperState
<1> HIDE DEF decrypted, synced, signature
<1>5. /\ messages \in Seq(Shares \cup Signatures)
      /\ \A m \in Elements(messages) : m \in Elements(kp.messages) \/ m = signature
  BY <1>3, <1>4, ElementsOfAppend
<1>6. ASSUME NEW batch \in {decrypted, synced}, NEW sent \in Seq(Shares \cup Signatures),
             \A m \in Elements(sent) : m \in Elements(kp.messages) \/ m = signature
      PROVE  Reached(old, with(batch, sent), k, height)
  <2> DEFINE new == with(batch, sent)
  <2>1. /\ new.main = kp.main /\ new.SyncHeight = kp.SyncHeight
        /\ new.PendingHalfStep = kp.PendingHalfStep
        /\ new.NextEpochSecretShare = kp.NextEpochSecretShare
        /\ new.HalfStepsChecked = kp.HalfStepsChecked
        /\ new.mainChainTXs = kp.mainChainTXs /\ new.EKGs = kp.EKGs
        /\ new.Batches = [kp.Batches EXCEPT ![b] = batch]
        /\ new.messages = sent
    BY <1>4 DEF KeyperState
  <2>2. batch \in Batch
    <3>1. BatchData \subseteq Batch
      BY DEF Batch, BatchData
    <3> QED
      BY <3>1, <1>2
  <2>3. new.Batches \in [Batches -> Batch]
    BY <2>1, <2>2, <1>4
  <2>4. new \in KeyperState
    <3> DEFINE batches == [kp.Batches EXCEPT ![b] = batch]
    <3>1. batches \in [Batches -> Batch]
      BY <2>2, <1>4
    <3>2. new = [kp EXCEPT !.Batches = batches, !.messages = sent]
      BY <1>4 DEF KeyperState
    <3> HIDE DEF batches, new
    <3> QED
      BY <3>1, <3>2, <1>4 DEF KeyperState
  <2>5. \A c \in Batches : new.Batches[c] = IF c = b THEN batch ELSE kp.Batches[c]
    BY <2>1, <1>4
  <2> HIDE DEF new
  <2>6. \A c \in Batches :
          \/ new.Batches[c] = old.Batches[c]
          \/ \E e \in 1 .. MaxEons :
               /\ HasKey(e, c)
               /\ new.Batches[c] \in {Decrypted(old, c, e),
                                     syncBatch(Decrypted(old, c, e), c, height)}
    <3> SUFFICES ASSUME NEW c \in Batches
                 PROVE  \/ new.Batches[c] = old.Batches[c]
                        \/ \E e \in 1 .. MaxEons :
                             /\ HasKey(e, c)
                             /\ new.Batches[c] \in {Decrypted(old, c, e),
                                                   syncBatch(Decrypted(old, c, e), c, height)}
      OBVIOUS
    <3>1. CASE c = b
      BY <3>1, <2>5, <1>1 DEF synced
    <3>2. CASE c # b
      BY <3>2, <2>5 DEF Reached
    <3> QED
      BY <3>1, <3>2
  <2>7. \A m \in Elements(new.messages) :
          \/ m \in Elements(old.messages)
          \/ \E c \in Batches, e \in 1 .. MaxEons :
               HasKey(e, c) /\ m = SignatureFor(old, k, c, e)
    BY <1>3, <1>6, <2>1 DEF Reached
  <2>8. Reached(old, new, k, height)
    BY <2>1, <2>4, <2>6, <2>7 DEF Reached
  <2> QED
    BY <2>8 DEF new
<1>7. \A m \in Elements(kp.messages) : m \in Elements(kp.messages) \/ m = signature
  OBVIOUS
<1>8. DecryptAndSign(kp, k, b, eon, height)
        = IF executionTimeoutReachedOrInactive(kp, b)
            THEN [kp EXCEPT !.Batches[b] = decrypted]
            ELSE with(synced, messages)
  <2>1. DecryptAndSign(kp, k, b, eon, height)
          = IF executionTimeoutReachedOrInactive(kp, b)
              THEN [kp EXCEPT !.Batches[b] = decrypted]
              ELSE [kp EXCEPT !.Batches[b] = synced,
                              !.messages = IF /\ SignaturesMissing(synced, b)
                                              /\ synced.DecryptedTransactions # {}
                                             THEN Append(@, signature) ELSE @]
    BY DEF DecryptAndSign, decrypted, synced, signature
  <2> QED
    BY <2>1, <1>4 DEF KeyperState
<1>9. [kp EXCEPT !.Batches[b] = decrypted] = with(decrypted, kp.messages)
  BY <1>4 DEF KeyperState
<1> HIDE DEF with, messages
<1>10. Reached(old, with(decrypted, kp.messages), k, height)
  BY <1>4, <1>6, <1>7
<1>11. Reached(old, with(synced, messages), k, height)
  BY <1>5, <1>6
<1> QED
  BY <1>8, <1>9, <1>10, <1>11


LEMMA HandleShareReached ==
    ASSUME ChainOK, NEW old, NEW k \in Honest, NEW height \in Nat,
           NEW kp, Reached(old, kp, k, height), NEW i \in DOMAIN kp.EKGs,
           NEW n \in EpochSecretKeyShares(kp.EKGs[i].Eon)
    PROVE  Reached(old, HandleShare(kp, k, i, log[n], height), k, height)
<1> DEFINE share == log[n]
           ekg == kp.EKGs[i]
           new == KG!HandleEpochSecretKeyShare(ekg.EpochKG, share)
           kp2 == [kp EXCEPT !.EKGs[i].EpochKG = new]
<1>1. /\ kp \in KeyperState /\ kp.EKGs \in Seq(EKGType) /\ EKGOK(ekg) /\ ekg \in EKGType
  BY DEF Reached, KeyperState, EKGOK
<1>2. /\ EKGOK([ekg EXCEPT !.EpochKG = new])
      /\ new.SecretKeys # ekg.EpochKG.SecretKeys => HasKey(ekg.Eon, share.Epoch)
  BY <1>1, HandledShare
<1>3. /\ share \in Shares /\ share.Eon = ekg.Eon
  <2>1. ekg.Eon \in Nat
    BY <1>1 DEF EKGType
  <2> QED
    BY <2>1, SharesOnLog
<1>4. share.Epoch \in Batches /\ share.Eon \in 1 .. MaxEons
  BY <1>3 DEF Shares
<1>5. HandleShare(kp, k, i, share, height)
        = IF new.SecretKeys = ekg.EpochKG.SecretKeys
            THEN kp2
            ELSE DecryptAndSign(kp2, k, share.Epoch, share.Eon, height)
  BY DEF HandleShare
<1> DEFINE ekg2 == [ekg EXCEPT !.EpochKG = new]
           ekgs == [kp.EKGs EXCEPT ![i] = ekg2]
<1>6. kp2 = [kp EXCEPT !.EKGs = ekgs]
  BY <1>1 DEF KeyperState
<1>7. ekg2.Eon = ekg.Eon /\ ekg2 \in EKGType
  BY <1>1, <1>2 DEF EKGType, EKGOK
<1> HIDE DEF ekg2, new
<1>8. ekgs \in Seq(EKGType) /\ DOMAIN ekgs = DOMAIN kp.EKGs
      /\ \A j \in DOMAIN ekgs : ekgs[j] = IF j = i THEN ekg2 ELSE kp.EKGs[j]
  BY <1>1, <1>7
<1> HIDE DEF ekgs, kp2
<1>9. kp2 \in KeyperState /\ kp2.EKGs = ekgs
      /\ kp2.main = kp.main /\ kp2.SyncHeight = kp.SyncHeight
      /\ kp2.PendingHalfStep = kp.PendingHalfStep
      /\ kp2.NextEpochSecretShare = kp.NextEpochSecretShare
      /\ kp2.HalfStepsChecked = kp.HalfStepsChecked
      /\ kp2.mainChainTXs = kp.mainChainTXs
      /\ kp2.Batches = kp.Batches /\ kp2.messages = kp.messages
  BY <1>1, <1>6, <1>8 DEF KeyperState
<1>10. \A j \in DOMAIN kp2.EKGs : kp2.EKGs[j].Eon = old.EKGs[j].Eon /\ EKGOK(kp2.EKGs[j])
  <2> SUFFICES ASSUME NEW j \in DOMAIN ekgs
               PROVE  ekgs[j].Eon = old.EKGs[j].Eon /\ EKGOK(ekgs[j])
    BY <1>9
  <2>1. kp.EKGs[j].Eon = old.EKGs[j].Eon /\ EKGOK(kp.EKGs[j])
    BY <1>8 DEF Reached
  <2>2. EKGOK(ekg2)
    BY <1>2 DEF ekg2
  <2> QED
    BY <2>1, <2>2, <1>7, <1>8
<1> HIDE DEF ekg
<1>11. Reached(old, kp2, k, height)
  BY <1>8, <1>9, <1>10 DEF Reached
<1>12. CASE new.SecretKeys = ekg.EpochKG.SecretKeys
  BY <1>5, <1>11, <1>12
<1>13. CASE new.SecretKeys # ekg.EpochKG.SecretKeys
  <2>1. HasKey(share.Eon, share.Epoch)
    BY <1>2, <1>3, <1>13
  <2>2. Reached(old, DecryptAndSign(kp2, k, share.Epoch, share.Eon, height), k, height)
    BY <1>4, <1>11, <2>1, DecryptAndSignReached
  <2> QED
    BY <1>5, <1>13, <2>2
<1> QED
  BY <1>12, <1>13

LEMMA syncEKGWithEonReached ==
    ASSUME ChainOK, NEW old, NEW k \in Honest, NEW height \in Nat,
           NEW kp, Reached(old, kp, k, height), NEW i \in DOMAIN kp.EKGs
    PROVE  Reached(old, syncEKGWithEon(kp, k, i, height), k, height)
<1> DEFINE f == SharesHandled(kp, k, i, height)
           eon == kp.EKGs[i].Eon
           Good(a) == /\ Reached(old, a, k, height)
                      /\ i \in DOMAIN a.EKGs /\ a.EKGs[i].Eon = eon
           T == {n \in Nat : n <= height /\ ~Good(f[n])}
<1>1. 0 < kp.SyncHeight /\ kp.SyncHeight \in Nat
  BY DEF Reached, KeyperState
<1>2. \A n \in 0 .. height :
        f[n] = IF n < kp.SyncHeight THEN kp
               ELSE IF n \in EpochSecretKeyShares(eon)
                 THEN HandleShare(f[n - 1], k, i, log[n], height)
               ELSE f[n - 1]
  BY <1>1, SharesHandledIs
<1> HIDE DEF f
<1>3. Good(kp)
  OBVIOUS
<1>4. ASSUME NEW a, Good(a), NEW n \in EpochSecretKeyShares(eon)
      PROVE  Good(HandleShare(a, k, i, log[n], height))
  <2>1. Reached(old, HandleShare(a, k, i, log[n], height), k, height)
    BY <1>4, HandleShareReached
  <2> QED
    BY <2>1, <1>4 DEF Reached
<1>5. 0 \notin T
  BY <1>1, <1>2, <1>3
<1> HIDE DEF Good, eon
<1>6. ASSUME NEW n \in Nat, n \notin T PROVE n + 1 \notin T
  <2> SUFFICES ASSUME n + 1 <= height PROVE Good(f[n + 1])
    OBVIOUS
  <2>1. Good(f[n])
    BY <1>6
  <2>2. f[n + 1] = IF n + 1 < kp.SyncHeight THEN kp
                   ELSE IF n + 1 \in EpochSecretKeyShares(eon)
                     THEN HandleShare(f[n], k, i, log[n + 1], height)
                   ELSE f[n]
    <3>1. n + 1 \in 0 .. height /\ (n + 1) - 1 = n
      OBVIOUS
    <3> QED
      BY <1>2, <3>1
  <2> QED
    BY <2>1, <2>2, <1>3, <1>4
<1>7. T = {}
  BY <1>5, <1>6, FirstFailure
<1>8. Good(f[height])
  BY <1>7
<1> QED
  BY <1>8 DEF Good, f, syncEKGWithEon

LEMMA syncEKGsReached ==
    ASSUME ChainOK, NEW old, NEW k \in Honest, NEW height \in Nat,
           Reached(old, old, k, height)
    PROVE  Reached(old, syncEKGs(old, k, height), k, height)
<1> DEFINE f == EKGsSynced(old, k, height)
           Good(a) == Reached(old, a, k, height)
           T == {n \in Nat : n <= Len(old.EKGs) /\ ~Good(f[n])}
<1>1. old.EKGs \in Seq(EKGType) /\ Len(old.EKGs) \in Nat
      /\ DOMAIN old.EKGs = 1 .. Len(old.EKGs)
  BY DEF Reached, KeyperState
<1>2. f[0] = old
      /\ \A i \in 1 .. Len(old.EKGs) : f[i] = syncEKGWithEon(f[i - 1], k, i, height)
  BY <1>1, EKGsSyncedIs
<1> HIDE DEF f
<1>3. 0 \notin T
  BY <1>2
<1>4. ASSUME NEW n \in Nat, n \notin T PROVE n + 1 \notin T
  <2> SUFFICES ASSUME n + 1 <= Len(old.EKGs) PROVE Good(f[n + 1])
    OBVIOUS
  <2>1. Good(f[n])
    BY <1>1, <1>4
  <2>2. n + 1 \in 1 .. Len(old.EKGs) /\ (n + 1) - 1 = n
    BY <1>1
  <2>3. f[n + 1] = syncEKGWithEon(f[n], k, n + 1, height)
    BY <1>2, <2>2
  <2>4. n + 1 \in DOMAIN f[n].EKGs
    BY <2>1, <2>2, <1>1 DEF Reached
  <2> QED
    BY <2>1, <2>3, <2>4, syncEKGWithEonReached
<1>5. T = {}
  <2> HIDE DEF Good
  <2> QED
    BY <1>3, <1>4, FirstFailure
<1>6. Good(f[Len(old.EKGs)])
  BY <1>1, <1>5
<1> QED
  BY <1>6 DEF f, syncEKGs

-----------------------------------------------------------------------------
(* The parts of Decided.                                                   *)

LEMMA NewEpochKGOK ==
    ASSUME NEW eon \in 1 .. MaxEons
    PROVE  EKGOK([Eon |-> eon, EpochKG |-> KG!NewEpochKG])
<1> DEFINE none == [epoch \in Batches |-> {}]
<1>1. KG!NewEpochKG = [SecretShares |-> none, SecretKeys |-> {}]
  BY DEF KG!NewEpochKG
<1>2. none \in [Batches -> SUBSET Keypers] /\ \A b \in Batches : none[b] = {}
  OBVIOUS
<1> HIDE DEF none
<1>3. KG!NewEpochKG \in KG!EpochKGState
  BY <1>1, <1>2 DEF KG!EpochKGState
<1> QED
  BY <1>1, <1>2, <1>3 DEF EKGOK, EKGType

LEMMA GetEonKeysReached ==
    ASSUME ChainOK, NEW kp, KeyperOK(kp), NEW k, NEW height \in Nat, height <= Len(log)
    PROVE  /\ Reached(GetEonKeys(kp, k, height), GetEonKeys(kp, k, height), k, height)
           /\ \E ekgs : GetEonKeys(kp, k, height) = [kp EXCEPT !.EKGs = ekgs]
<1> DEFINE found == [n \in kp.SyncHeight .. height |->
                       IF log[n].type = "DKGFinalized" /\ k \notin log[n].Failed
                         THEN <<[Eon |-> log[n].Eon, EpochKG |-> KG!NewEpochKG]>>
                         ELSE <<>>]
           new == Collected(found, kp.SyncHeight, height + 1)
           ekgs == kp.EKGs \o new
           OK == {ekg \in EKGType : EKGOK(ekg)}
<1>1. kp \in KeyperState /\ kp.SyncHeight \in Nat /\ 0 < kp.SyncHeight
      /\ kp.EKGs \in Seq(EKGType)
  BY DEF KeyperOK, KeyperState
<1>2. \A i \in DOMAIN kp.EKGs : EKGOK(kp.EKGs[i])
  BY DEF KeyperOK
<1>3. \A n \in kp.SyncHeight .. height : found[n] \in Seq(OK)
  <2> SUFFICES ASSUME NEW n \in kp.SyncHeight .. height PROVE found[n] \in Seq(OK)
    OBVIOUS
  <2>1. log[n] \in Event
    BY <1>1 DEF ChainOK
  <2>2. CASE log[n].type = "DKGFinalized" /\ k \notin log[n].Failed
    <3>1. log[n].Eon \in 1 .. MaxEons
      BY <2>1, <2>2 DEF Event, ConfigEvents, EonStarts, Finalizations, Shares, Signatures
    <3> DEFINE ekg == [Eon |-> log[n].Eon, EpochKG |-> KG!NewEpochKG]
    <3>2. EKGOK(ekg) /\ found[n] = <<ekg>>
      BY <2>2, <3>1, NewEpochKGOK
    <3> HIDE DEF ekg, found
    <3>3. ekg \in OK
      BY <3>2 DEF EKGOK
    <3> QED
      BY <3>2, <3>3
  <2>3. CASE ~(log[n].type = "DKGFinalized" /\ k \notin log[n].Failed)
    BY <2>3
  <2> QED
    BY <2>2, <2>3
<1> HIDE DEF found, OK
<1>4. new \in Seq(OK)
  <2>1. height + 1 \in Nat /\ (height + 1) - 1 = height
    OBVIOUS
  <2>2. \A n \in kp.SyncHeight .. (height + 1) - 1 : found[n] \in Seq(OK)
    BY <1>3, <2>1
  <2> QED
    BY <1>1, <2>1, <2>2, CollectedElements
<1> HIDE DEF new
<1>5. kp.EKGs \in Seq(OK)
  <2>1. \A i \in DOMAIN kp.EKGs : kp.EKGs[i] \in OK
    BY <1>1, <1>2 DEF OK
  <2> QED
    BY <1>1, <2>1
<1>6. ekgs \in Seq(OK)
  BY <1>4, <1>5
<1> HIDE DEF ekgs
<1>7. ekgs \in Seq(EKGType) /\ \A i \in DOMAIN ekgs : EKGOK(ekgs[i])
  BY <1>6 DEF OK
<1>8. GetEonKeys(kp, k, height) = [kp EXCEPT !.EKGs = ekgs]
  <2>1. GetEonKeys(kp, k, height) = [kp EXCEPT !.EKGs = @ \o new]
    BY DEF GetEonKeys, new, found
  <2> QED
    BY <1>1, <2>1 DEF KeyperState, ekgs
<1> DEFINE kp1 == [kp EXCEPT !.EKGs = ekgs]
<1>9. kp1 \in KeyperState /\ kp1.EKGs = ekgs
  BY <1>1, <1>7 DEF KeyperState
<1> HIDE DEF kp1
<1>10. Reached(kp1, kp1, k, height)
  BY <1>7, <1>9 DEF Reached
<1> QED
  BY <1>8, <1>10 DEF kp1

(* The shares that are published are for batches that have closed since    *)
(* the last time, each in one eon.                                         *)
EonOf(kp, b, height) == CHOOSE e \in PublishedIn(kp, b, height) : TRUE

FreshShare(kp, k, b, height) == EpochSecretKeyShare(EonOf(kp, b, height), b, k, TRUE)

LEMMA PublishedIs ==
    ASSUME NEW kp \in KeyperState, NEW k \in Honest, NEW height
    PROVE  \E sent \in Seq(Shares),
              next \in {kp.NextEpochSecretShare, Current(kp.main)} :
             /\ publishEpochSecretKeyShares(kp, k, height)
                  = [kp EXCEPT !.messages = kp.messages \o sent,
                               !.NextEpochSecretShare = next]
             /\ \A m \in Elements(sent) :
                  \E b \in Batches :
                    /\ kp.NextEpochSecretShare <= b /\ b < next
                    /\ m = FreshShare(kp, k, b, height)
<1> DEFINE closed == ClosedBatches(kp)
           Sent(b) == /\ b \in NewlyClosed(kp) \cap Batches
                      /\ ~executionTimeoutReachedOrInactive(kp, b)
                      /\ PublishedIn(kp, b, height) # {}
           published == [b \in 0 .. closed - 1 |->
                           IF Sent(b) THEN <<FreshShare(kp, k, b, height)>> ELSE <<>>]
           sent == Collected(published, 0, closed)
           known == FindBatchConfigByConfigIndex(ActiveConfigIndex(kp.main), height)
<1>1. closed = Current(kp.main) /\ closed \in Nat
  <2>1. closed = Current(kp.main)
    BY DEF ClosedBatches, Current
  <2>2. kp.main \in Nat
    BY DEF KeyperState
  <2> QED
    BY <2>1, <2>2, CurrentType
<1>2. publishEpochSecretKeyShares(kp, k, height)
        = IF ~known THEN kp
          ELSE [kp EXCEPT !.messages = @ \o sent, !.NextEpochSecretShare = closed]
  BY DEF publishEpochSecretKeyShares, FreshShare, EonOf
<1>3. [kp EXCEPT !.messages = @ \o sent, !.NextEpochSecretShare = closed]
        = [kp EXCEPT !.messages = kp.messages \o sent, !.NextEpochSecretShare = closed]
  <2> HIDE DEF sent, closed
  <2> QED
    BY DEF KeyperState
<1>4. ASSUME NEW b \in 0 .. closed - 1, Sent(b)
      PROVE  /\ FreshShare(kp, k, b, height) \in Shares
             /\ b \in Batches /\ kp.NextEpochSecretShare <= b /\ b < closed
  <2>1. EonOf(kp, b, height) \in PublishedIn(kp, b, height)
    BY <1>4 DEF EonOf
  <2>2. EonOf(kp, b, height) \in 1 .. MaxEons
    <3>1. PICK j \in DOMAIN kp.EKGs : EonOf(kp, b, height) = kp.EKGs[j].Eon
      BY <2>1 DEF PublishedIn
    <3>2. kp.EKGs \in Seq(EKGType)
      BY DEF KeyperState
    <3>3. kp.EKGs[j] \in EKGType
      BY <3>2
    <3> QED
      BY <3>1, <3>3 DEF EKGType
  <2>3. k \in Keypers
    BY ConstantsAssumption
  <2>4. b \in Batches /\ b \in NewlyClosed(kp)
    BY <1>4
  <2>5. b \in kp.NextEpochSecretShare .. closed - 1
    BY <2>4 DEF NewlyClosed
  <2>6. kp.NextEpochSecretShare \in Nat
    BY DEF KeyperState
  <2>7. kp.NextEpochSecretShare <= b /\ b < closed
    <3> HIDE DEF closed
    <3> QED
      BY <1>1, <2>5, <2>6
  <2> QED
    BY <2>2, <2>3, <2>4, <2>7 DEF FreshShare, EpochSecretKeyShare, Shares
<1> HIDE DEF Sent
<1>5. \A b \in 0 .. closed - 1 : published[b] \in Seq(Shares)
  <2> SUFFICES ASSUME NEW b \in 0 .. closed - 1 PROVE published[b] \in Seq(Shares)
    OBVIOUS
  <2> HIDE DEF closed
  <2> DEFINE m == FreshShare(kp, k, b, height)
  <2>1. Sent(b) => m \in Shares
    BY <1>4
  <2> HIDE DEF m
  <2>2. published[b] = IF Sent(b) THEN <<m>> ELSE <<>>
    BY DEF m
  <2> HIDE DEF published
  <2> QED
    BY <2>1, <2>2
<1>6. /\ sent \in Seq(Shares)
      /\ \A m \in Elements(sent) : \E b \in 0 .. closed - 1 : m \in Elements(published[b])
  <2> HIDE DEF closed, published
  <2> QED
    BY <1>1, <1>5, CollectedElements
<1>7. \A m \in Elements(sent) :
        \E b \in Batches :
          /\ kp.NextEpochSecretShare <= b /\ b < Current(kp.main)
          /\ m = FreshShare(kp, k, b, height)
  <2> SUFFICES ASSUME NEW m \in Elements(sent)
               PROVE  \E b \in Batches :
                        /\ kp.NextEpochSecretShare <= b /\ b < Current(kp.main)
                        /\ m = FreshShare(kp, k, b, height)
    OBVIOUS
  <2> HIDE DEF closed
  <2>1. PICK b \in 0 .. closed - 1 : m \in Elements(published[b])
    BY <1>6
  <2>2. published[b] = IF Sent(b) THEN <<FreshShare(kp, k, b, height)>> ELSE <<>>
    OBVIOUS
  <2> HIDE DEF published
  <2>3. Sent(b) /\ m = FreshShare(kp, k, b, height)
    BY <2>1, <2>2 DEF Elements
  <2> QED
    BY <2>3, <1>1, <1>4
<1> HIDE DEF sent, closed, known
<1>8. CASE known
  BY <1>1, <1>2, <1>3, <1>6, <1>7, <1>8
<1>9. CASE ~known
  <2>1. kp = [kp EXCEPT !.messages = kp.messages \o <<>>,
                        !.NextEpochSecretShare = kp.NextEpochSecretShare]
    <3>1. kp.messages \in Seq(Shares \cup Signatures)
      BY DEF KeyperState
    <3>2. kp.messages \o <<>> = kp.messages
      BY <3>1
    <3> QED
      BY <3>2 DEF KeyperState
  <2>2. Elements(<<>>) = {} /\ <<>> \in Seq(Shares)
    BY DEF Elements
  <2> QED
    BY <1>2, <1>9, <2>1, <2>2
<1> QED
  BY <1>8, <1>9

LEMMA HalfStepCount ==
    ASSUME ChainOK, NEW v
    PROVE  /\ NumExecutionHalfSteps(v) \in Nat
           /\ NumExecutionHalfSteps(v) <= Len(halfSteps)
<1>1. halfSteps \in Seq(HalfStep) /\ Len(halfSteps) \in Nat
      /\ DOMAIN halfSteps = 1 .. Len(halfSteps)
  BY DEF ChainOK
<1>2. \A n \in Nat : IsFiniteSet(1 .. n) /\ Cardinality(1 .. n) = n
  BY FS_Interval
<1> DEFINE seen == {i \in DOMAIN halfSteps : halfSteps[i].block <= v}
<1>3. seen \subseteq 1 .. Len(halfSteps)
  BY <1>1
<1> HIDE DEF seen
<1>4. Cardinality(seen) \in Nat /\ Cardinality(seen) <= Len(halfSteps)
  <2>1. IsFiniteSet(1 .. Len(halfSteps))
        /\ Cardinality(1 .. Len(halfSteps)) = Len(halfSteps)
    BY <1>1, <1>2
  <2> QED
    BY <1>3, <2>1, FS_Subset, FS_CardinalityType
<1> QED
  BY <1>4 DEF NumExecutionHalfSteps, seen

(* What a keyper sends for a half step.                                    *)
SentFor(kp, h, t) ==
    /\ h <= 2 * MaxBatch + 1
    /\ \/ t = TX("skip", h)
       \/ t = TX("plain", h)
       \/ \E b \in Batches :
            /\ h = 2 * b
            /\ MayExecuteCipherBatch(kp.Batches[b], b)
            /\ t = CipherTX(2 * b, EncryptedBatchHash(b, kp.main),
                            kp.Batches[b].DecryptedTransactions)

LEMMA HalfStepSent ==
    ASSUME NEW kp, NEW k, NEW h \in 0 .. 2 * MaxBatch + 1,
           NEW t \in maybeExecuteHalfStep(kp, k, h)
    PROVE  SentFor(kp, h, t)
<1> DEFINE b == h \div 2
<1>1. MaxBatch \in Nat
  BY ConfigsAssumption
<1>2. b \in Batches
  BY <1>1 DEF Batches
<1>3. h % 2 = 0 => h = 2 * b
  OBVIOUS
<1> DEFINE c == ConfigForBatchIndex(b)
           delay == executionDelay(c, k, h)
           late == h % 2 = 0 /\ kp.main >= ExecutionTimeoutBlock(c, b)
<1>4. maybeExecuteHalfStep(kp, k, h)
        = IF ~IsActive(c) THEN {}
          ELSE IF late
            THEN IF kp.main >= ExecutionTimeoutBlock(c, b) + delay
                   THEN {TX("skip", h)} ELSE {}
          ELSE IF ~IsKeyper(c, k) \/ kp.main < BatchEndBlock(c, b) + delay THEN {}
          ELSE IF h % 2 = 0 THEN executeCipherBatch(kp, b)
          ELSE {TX("plain", h)}
  BY DEF maybeExecuteHalfStep
<1>5. t \in {TX("skip", h), TX("plain", h)} \/ (h % 2 = 0 /\ t \in executeCipherBatch(kp, b))
  <2> HIDE DEF late, delay, c
  <2> QED
    BY <1>4
<1> HIDE DEF b
<1>6. CASE h % 2 = 0 /\ t \in executeCipherBatch(kp, b)
  <2>1. /\ MayExecuteCipherBatch(kp.Batches[b], b)
        /\ t = CipherTX(2 * b, EncryptedBatchHash(b, kp.main),
                        kp.Batches[b].DecryptedTransactions)
    BY <1>6 DEF executeCipherBatch
  <2> QED
    BY <1>2, <1>3, <1>6, <2>1 DEF SentFor
<1> QED
  BY <1>5, <1>6 DEF SentFor

LEMMA SentForType ==
    ASSUME ChainOK, NEW kp \in KeyperState, NEW h \in Nat, NEW t, SentFor(kp, h, t)
    PROVE  t \in TXType
<1>1. CASE t \in {TX("skip", h), TX("plain", h)}
  BY <1>1 DEF TX, TXType
<1>2. ASSUME NEW b \in Batches, h = 2 * b, MayExecuteCipherBatch(kp.Batches[b], b),
             t = CipherTX(2 * b, EncryptedBatchHash(b, kp.main),
                          kp.Batches[b].DecryptedTransactions)
      PROVE  t \in TXType
  <2>1. EncryptedBatchHash(b, kp.main) \in Nat
    BY EncryptedTransactionsFinite, ConstantsAssumption
  <2>2. kp.Batches[b] \in Batch /\ kp.Batches[b].present
    BY <1>2 DEF KeyperState, MayExecuteCipherBatch
  <2>3. kp.Batches[b] \in BatchData
    BY <2>2, PresentBatch
  <2>4. kp.Batches[b].DecryptedTransactions \in SUBSET Nat
    <3>1. kp.Batches[b].DecryptedTransactions \in SUBSET (1 .. MaxTxs)
      BY <2>3 DEF BatchData
    <3>2. 1 .. MaxTxs \subseteq Nat
      BY ConstantsAssumption
    <3> QED
      BY <3>1, <3>2
  <2> QED
    BY <1>2, <2>1, <2>4 DEF CipherTX, TXType
<1> QED
  BY <1>1, <1>2 DEF SentFor


LEMMA maybeExecuteBatchIs ==
    ASSUME ChainOK, NEW kp \in KeyperState, NEW k
    PROVE  \E sent \in Seq(TXType), pending \in SUBSET (0 .. 2 * MaxBatch + 1) :
             /\ maybeExecuteBatch(kp, k)
                  = [kp EXCEPT !.PendingHalfStep = pending,
                               !.mainChainTXs = kp.mainChainTXs \o sent]
             /\ \A t \in Elements(sent) : \E h \in Nat : SentFor(kp, h, t)
<1> DEFINE next == NumExecutionHalfSteps(kp.main)
           steps == HalfStepsToExecute(kp, k, next)
           tx(h) == CHOOSE t \in maybeExecuteHalfStep(kp, k, h) : TRUE
           pending == {h \in kp.PendingHalfStep : next <= h}
           with(p, sent) == [kp EXCEPT !.PendingHalfStep = p,
                                       !.mainChainTXs = kp.mainChainTXs \o sent]
           sent == [i \in 1 .. Max(steps) - next + 1 |-> tx(next + i - 1)]
           result == maybeExecuteBatch(kp, k)
<1>1. /\ kp.main \in Nat /\ kp.PendingHalfStep \subseteq 0 .. 2 * MaxBatch + 1
      /\ kp.mainChainTXs \in Seq(TXType)
  BY DEF KeyperState
<1>2. next \in Nat /\ MaxBatch \in Nat
  BY HalfStepCount, ConfigsAssumption
<1>3. result
        = IF ~IsActive(ActiveConfig(kp.main)) THEN kp
          ELSE IF pending # {} \/ steps = {} THEN [kp EXCEPT !.PendingHalfStep = pending]
          ELSE [kp EXCEPT !.PendingHalfStep = {Max(steps)},
                          !.mainChainTXs = @ \o sent]
  BY DEF maybeExecuteBatch
<1>4. steps \subseteq 0 .. 2 * MaxBatch + 1
      /\ \A h \in steps : next <= h /\ \A g \in next .. h : maybeExecuteHalfStep(kp, k, g) # {}
  <2> DEFINE closed == 2 * LesserOf(BatchIndex(ActiveConfig(kp.main), kp.main), MaxBatch + 1)
  <2>1. BatchIndex(ActiveConfig(kp.main), kp.main) \in Nat
    BY <1>1, CurrentType DEF Current
  <2>2. closed \in Nat /\ closed <= 2 * MaxBatch + 2
    BY <2>1, <1>2 DEF LesserOf
  <2> HIDE DEF closed, next
  <2>3. LesserOf(next + MaxParallel, closed) <= closed
        /\ LesserOf(next + MaxParallel, closed) \in Nat
    BY <1>2, <2>2, ConstantsAssumption DEF LesserOf
  <2>4. HalfStepsToExecute(kp, k, next)
          = {h \in next .. LesserOf(next + MaxParallel, closed) - 1 :
               \A g \in next .. h : maybeExecuteHalfStep(kp, k, g) # {}}
    BY DEF HalfStepsToExecute, closed
  <2> QED
    BY <1>2, <2>2, <2>3, <2>4
<1>5. \A p : with(p, <<>>) = [kp EXCEPT !.PendingHalfStep = p]
  <2>1. kp.mainChainTXs \o <<>> = kp.mainChainTXs
    BY <1>1
  <2> QED
    BY <2>1 DEF KeyperState
<1>6. with(kp.PendingHalfStep, <<>>) = kp
  <2>1. [kp EXCEPT !.PendingHalfStep = kp.PendingHalfStep] = kp
    BY DEF KeyperState
  <2> QED
    BY <1>5, <2>1
<1>7. <<>> \in Seq(TXType) /\ Elements(<<>>) = {}
  BY DEF Elements
<1>8. CASE ~IsActive(ActiveConfig(kp.main))
  <2>1. result = with(kp.PendingHalfStep, <<>>)
    BY <1>3, <1>6, <1>8
  <2> HIDE DEF result
  <2> QED
    BY <1>1, <1>7, <2>1 DEF result
<1>9. CASE IsActive(ActiveConfig(kp.main)) /\ (pending # {} \/ steps = {})
  <2>1. result = with(pending, <<>>)
    BY <1>3, <1>5, <1>9
  <2>2. pending \in SUBSET (0 .. 2 * MaxBatch + 1)
    BY <1>1
  <2> HIDE DEF result, pending
  <2> QED
    BY <2>2, <1>7, <2>1 DEF result
<1>10. CASE IsActive(ActiveConfig(kp.main)) /\ ~(pending # {} \/ steps = {})
  <2> DEFINE last == Max(steps)
  <2>1. last \in steps
    <3> HIDE DEF steps
    <3>1. 2 * MaxBatch + 1 \in Nat
      BY <1>2
    <3> QED
      BY <1>4, <1>10, <3>1, MaxIs
  <2>2. result = with({last}, sent)
    <3>1. result = [kp EXCEPT !.PendingHalfStep = {Max(steps)},
                              !.mainChainTXs = @ \o sent]
      BY <1>3, <1>10
    <3> HIDE DEF result, sent, steps
    <3> QED
      BY <3>1 DEF KeyperState
  <2>3. last \in 0 .. 2 * MaxBatch + 1 /\ next <= last
        /\ \A g \in next .. last : maybeExecuteHalfStep(kp, k, g) # {}
    BY <1>4, <2>1
  <2>4. sent = [i \in 1 .. last - next + 1 |-> tx(next + i - 1)]
    OBVIOUS
  <2> HIDE DEF last, sent, result, steps, next
  <2>5. \A i \in 1 .. last - next + 1 :
          SentFor(kp, next + i - 1, tx(next + i - 1)) /\ next + i - 1 \in Nat
    <3> SUFFICES ASSUME NEW i \in 1 .. last - next + 1
                 PROVE  SentFor(kp, next + i - 1, tx(next + i - 1)) /\ next + i - 1 \in Nat
      OBVIOUS
    <3> DEFINE h == next + i - 1
    <3>1. h \in next .. last /\ h \in 0 .. 2 * MaxBatch + 1
      BY <1>2, <2>3
    <3> HIDE DEF h
    <3>2. tx(h) \in maybeExecuteHalfStep(kp, k, h)
      BY <2>3, <3>1
    <3> HIDE DEF tx
    <3>3. SentFor(kp, h, tx(h)) /\ h \in Nat
      BY <3>1, <3>2, HalfStepSent
    <3> QED
      BY <3>3 DEF h
  <2> HIDE DEF tx
  <2>6. \A i \in 1 .. last - next + 1 : tx(next + i - 1) \in TXType
    BY <2>5, SentForType
  <2>7. last - next + 1 \in Nat
    BY <1>2, <2>3
  <2>8. sent \in Seq(TXType) /\ DOMAIN sent = 1 .. last - next + 1
    BY <2>4, <2>6, <2>7
  <2>9. \A t \in Elements(sent) : \E h \in Nat : SentFor(kp, h, t)
    <3> SUFFICES ASSUME NEW i \in DOMAIN sent PROVE \E h \in Nat : SentFor(kp, h, sent[i])
      BY DEF Elements
    <3>1. i \in 1 .. last - next + 1 /\ sent[i] = tx(next + i - 1)
      BY <2>4, <2>8
    <3> QED
      BY <2>5, <3>1
  <2>10. {last} \in SUBSET (0 .. 2 * MaxBatch + 1)
    BY <2>3
  <2> QED
    BY <2>2, <2>8, <2>9, <2>10 DEF result
<1> QED
  BY <1>8, <1>9, <1>10

LEMMA maybeAccuseIs ==
    ASSUME ChainOK, NEW kp \in KeyperState
    PROVE  \E sent \in Seq(TXType) :
             /\ maybeAccuse(kp)
                  = [kp EXCEPT !.mainChainTXs = kp.mainChainTXs \o sent,
                               !.HalfStepsChecked = NumExecutionHalfSteps(kp.main)]
             /\ \A t \in Elements(sent) :
                  \E h \in ToAccuse(kp) :
                    h \in Nat /\ h < NumExecutionHalfSteps(kp.main) /\ t = TX("accuse", h)
<1> DEFINE num == NumExecutionHalfSteps(kp.main)
           accused == [h \in 0 .. num - 1 |->
                         IF h \in ToAccuse(kp) THEN <<TX("accuse", h)>> ELSE <<>>]
           sent == Collected(accused, 0, num)
<1>1. num \in Nat
  BY HalfStepCount
<1>2. maybeAccuse(kp) = [kp EXCEPT !.mainChainTXs = @ \o sent, !.HalfStepsChecked = num]
  BY DEF maybeAccuse
<1>3. [kp EXCEPT !.mainChainTXs = @ \o sent, !.HalfStepsChecked = num]
        = [kp EXCEPT !.mainChainTXs = kp.mainChainTXs \o sent, !.HalfStepsChecked = num]
  <2> HIDE DEF sent, num
  <2> QED
    BY DEF KeyperState
<1>4. \A h \in 0 .. num - 1 :
        /\ accused[h] \in Seq(TXType)
        /\ \A t \in Elements(accused[h]) : h \in ToAccuse(kp) /\ t = TX("accuse", h)
  <2> SUFFICES ASSUME NEW h \in 0 .. num - 1
               PROVE  /\ accused[h] \in Seq(TXType)
                      /\ \A t \in Elements(accused[h]) :
                           h \in ToAccuse(kp) /\ t = TX("accuse", h)
    OBVIOUS
  <2> DEFINE t == TX("accuse", h)
  <2>1. t \in TXType
    BY <1>1 DEF TX, TXType
  <2>2. accused[h] = IF h \in ToAccuse(kp) THEN <<t>> ELSE <<>>
    OBVIOUS
  <2> HIDE DEF accused, t
  <2>3. accused[h] \in Seq(TXType)
    BY <2>1, <2>2
  <2>4. \A u \in Elements(accused[h]) : h \in ToAccuse(kp) /\ u = t
    BY <2>2 DEF Elements
  <2> QED
    BY <2>3, <2>4 DEF t
<1>5. /\ sent \in Seq(TXType)
      /\ \A t \in Elements(sent) : \E h \in 0 .. num - 1 : t \in Elements(accused[h])
  <2> HIDE DEF accused, num
  <2> QED
    BY <1>1, <1>4, CollectedElements
<1>6. \A t \in Elements(sent) :
        \E h \in ToAccuse(kp) : h \in Nat /\ h < num /\ t = TX("accuse", h)
  <2> HIDE DEF accused, num, sent
  <2> SUFFICES ASSUME NEW t \in Elements(sent)
               PROVE  \E h \in ToAccuse(kp) : h \in Nat /\ h < num /\ t = TX("accuse", h)
    OBVIOUS
  <2>1. PICK h \in 0 .. num - 1 : t \in Elements(accused[h])
    BY <1>5
  <2>2. h \in ToAccuse(kp) /\ t = TX("accuse", h)
    BY <1>4, <2>1
  <2>3. h \in Nat /\ h < num
    BY <1>1, <2>1
  <2> QED
    BY <2>2, <2>3
<1> HIDE DEF sent
<1> QED
  BY <1>2, <1>3, <1>5, <1>6


(* Decide as a whole: the keyper k comes from state kp to state new.       *)
EonKnown(kp, k, b, height) == EonOf(syncEKGs(GetEonKeys(kp, k, height), k, height), b, height)

NewMessage(kp, next, k, m, height) ==
    \/ \E b \in Batches, eon \in 1 .. MaxEons :
         HasKey(eon, b) /\ m = SignatureFor(kp, k, b, eon)
    \/ \E b \in Batches :
         /\ kp.NextEpochSecretShare <= b /\ b < next
         /\ m = EpochSecretKeyShare(EonKnown(kp, k, b, height), b, k, TRUE)

NewBatch(kp, b, batch, height) ==
    \E old :
       /\ \/ old = kp.Batches[b]
          \/ \E eon \in 1 .. MaxEons :
               /\ HasKey(eon, b)
               /\ old \in {Decrypted(kp, b, eon),
                           syncBatch(Decrypted(kp, b, eon), b, height)}
       /\ batch = syncBatch(old, b, height)

ToBeAccused(kp, new, h) ==
    \E same : /\ same.HalfStepsChecked = kp.HalfStepsChecked
              /\ same.main = kp.main /\ same.Batches = new.Batches
              /\ h \in ToAccuse(same)

NewTX(kp, new, t) ==
    \/ \E h \in Nat : SentFor(new, h, t)
    \/ \E h \in Nat : /\ h < NumExecutionHalfSteps(kp.main)
                      /\ ToBeAccused(kp, new, h) /\ t = TX("accuse", h)

IsDecided(kp, new, k, height) ==
    /\ new \in KeyperState
    /\ new.main = kp.main
    /\ new.SyncHeight = height + 1
    /\ new.NextEpochSecretShare \in {kp.NextEpochSecretShare, Current(kp.main)}
    /\ new.HalfStepsChecked = NumExecutionHalfSteps(kp.main)
    /\ \A i \in DOMAIN new.EKGs : EKGOK(new.EKGs[i])
    /\ \A m \in Elements(new.messages) :
         \/ m \in Elements(kp.messages)
         \/ NewMessage(kp, new.NextEpochSecretShare, k, m, height)
    /\ \A b \in Batches : NewBatch(kp, b, new.Batches[b], height)
    /\ \A t \in Elements(new.mainChainTXs) :
         t \in Elements(kp.mainChainTXs) \/ NewTX(kp, new, t)

LEMMA DecidedIs ==
    ASSUME ChainOK, NEW k \in Honest, NEW kp, KeyperOK(kp),
           NEW height \in Nat, height <= Len(log)
    PROVE  IsDecided(kp, Decided(kp, k, height), k, height)
<1> DEFINE kp1 == GetEonKeys(kp, k, height)
           kp2 == syncEKGs(kp1, k, height)
           kp3 == publishEpochSecretKeyShares(kp2, k, height)
           kp4 == handleDecryptionSignatures(kp3, height)
           kp5 == maybeExecuteBatch(kp4, k)
           kp6 == maybeAccuse(kp5)
           new == [kp6 EXCEPT !.SyncHeight = height + 1]
<1>1. Decided(kp, k, height) = new
  BY DEF Decided
<1>2. kp \in KeyperState
  BY DEF KeyperOK
<1>3. Reached(kp1, kp1, k, height) /\ \E ekgs : kp1 = [kp EXCEPT !.EKGs = ekgs]
  BY GetEonKeysReached
<1> HIDE DEF kp1
<1>4. Reached(kp1, kp2, k, height)
  BY <1>3, syncEKGsReached
<1> HIDE DEF kp2
<1>5. kp2 \in KeyperState
  BY <1>4 DEF Reached
<1>6. PICK shares \in Seq(Shares),
           next \in {kp2.NextEpochSecretShare, Current(kp2.main)} :
        /\ kp3 = [kp2 EXCEPT !.messages = kp2.messages \o shares,
                             !.NextEpochSecretShare = next]
        /\ \A m \in Elements(shares) :
             \E b \in Batches :
               /\ kp2.NextEpochSecretShare <= b /\ b < next
               /\ m = FreshShare(kp2, k, b, height)
  BY <1>5, PublishedIs
<1> HIDE DEF kp3
<1>7. kp.messages \in Seq(Shares \cup Signatures) /\ kp2.messages \in Seq(Shares \cup Signatures)
      /\ shares \in Seq(Shares \cup Signatures)
  BY <1>2, <1>5, <1>6 DEF KeyperState
<1> DEFINE messages == kp2.messages \o shares
<1>8. next \in Nat
  BY <1>5, CurrentType DEF KeyperState
<1>9. messages \in Seq(Shares \cup Signatures)
  BY <1>7
<1>10. Elements(messages) = Elements(kp2.messages) \cup Elements(shares)
  BY <1>7, ElementsOfConcat
<1> HIDE DEF messages
<1>11. kp3 = [kp2 EXCEPT !.messages = messages, !.NextEpochSecretShare = next]
  BY <1>6 DEF messages
<1> DEFINE batches == [b \in Batches |-> syncBatch(kp2.Batches[b], b, height)]
<1>12. kp4 = [kp2 EXCEPT !.messages = messages, !.NextEpochSecretShare = next,
                         !.Batches = batches]
  <2>1. kp3.Batches = kp2.Batches
    BY <1>5, <1>11 DEF KeyperState
  <2>2. kp4 = [kp3 EXCEPT !.Batches = [b \in Batches |-> syncBatch(@[b], b, height)]]
    BY DEF handleDecryptionSignatures
  <2>3. kp4 = [kp3 EXCEPT !.Batches = batches]
    <3>1. kp3 \in [{"main", "SyncHeight", "EKGs", "Batches", "PendingHalfStep",
                    "NextEpochSecretShare", "HalfStepsChecked", "messages",
                    "mainChainTXs"} -> {kp3[f] : f \in DOMAIN kp3}]
      BY <1>5, <1>11 DEF KeyperState
    <3> QED
      BY <2>1, <2>2, <3>1
  <2> HIDE DEF kp4, batches
  <2> QED
    BY <2>3, <1>5, <1>11 DEF KeyperState
<1>13. batches \in [Batches -> Batch]
  <2> SUFFICES ASSUME NEW b \in Batches PROVE syncBatch(kp2.Batches[b], b, height) \in Batch
    OBVIOUS
  <2>1. kp2.Batches[b] \in Batch
    BY <1>5 DEF KeyperState
  <2> QED
    BY <2>1, syncBatchIs
<1>14. \A b \in Batches : batches[b] = syncBatch(kp2.Batches[b], b, height)
  OBVIOUS
<1> HIDE DEF kp4, batches
<1>15. /\ kp4 \in KeyperState
       /\ kp4.messages = messages /\ kp4.NextEpochSecretShare = next /\ kp4.Batches = batches
       /\ kp4.main = kp2.main /\ kp4.EKGs = kp2.EKGs /\ kp4.mainChainTXs = kp2.mainChainTXs
       /\ kp4.HalfStepsChecked = kp2.HalfStepsChecked
  BY <1>5, <1>8, <1>9, <1>12, <1>13 DEF KeyperState
<1>16. PICK executed \in Seq(TXType), pending \in SUBSET (0 .. 2 * MaxBatch + 1) :
         /\ kp5 = [kp4 EXCEPT !.PendingHalfStep = pending,
                              !.mainChainTXs = kp4.mainChainTXs \o executed]
         /\ \A t \in Elements(executed) : \E h \in Nat : SentFor(kp4, h, t)
  BY <1>15, maybeExecuteBatchIs
<1> HIDE DEF kp5
<1>17. kp4.mainChainTXs \in Seq(TXType)
  BY <1>15 DEF KeyperState
<1> DEFINE txs5 == kp4.mainChainTXs \o executed
<1>18. txs5 \in Seq(TXType) /\ Elements(txs5) = Elements(kp4.mainChainTXs) \cup Elements(executed)
  BY <1>16, <1>17, ElementsOfConcat
<1> HIDE DEF txs5
<1>19. /\ kp5 \in KeyperState
       /\ kp5.messages = messages /\ kp5.NextEpochSecretShare = next /\ kp5.Batches = batches
       /\ kp5.main = kp2.main /\ kp5.EKGs = kp2.EKGs /\ kp5.mainChainTXs = txs5
       /\ kp5.HalfStepsChecked = kp2.HalfStepsChecked
  <2>1. kp5 = [kp4 EXCEPT !.PendingHalfStep = pending, !.mainChainTXs = txs5]
    BY <1>16 DEF txs5
  <2> QED
    BY <2>1, <1>15, <1>16, <1>18 DEF KeyperState
<1> DEFINE num == NumExecutionHalfSteps(kp5.main)
<1>20. PICK accused \in Seq(TXType) :
         /\ kp6 = [kp5 EXCEPT !.mainChainTXs = kp5.mainChainTXs \o accused,
                              !.HalfStepsChecked = num]
         /\ \A t \in Elements(accused) :
              \E h \in ToAccuse(kp5) : h \in Nat /\ h < num /\ t = TX("accuse", h)
  BY <1>19, maybeAccuseIs
<1> HIDE DEF kp6
<1> DEFINE txs6 == txs5 \o accused
<1>21. txs6 \in Seq(TXType) /\ Elements(txs6) = Elements(txs5) \cup Elements(accused)
  BY <1>18, <1>20, ElementsOfConcat
<1>22. num \in Nat
  BY HalfStepCount
<1> HIDE DEF txs6, num
<1>23. /\ new \in KeyperState
       /\ new.messages = messages /\ new.NextEpochSecretShare = next /\ new.Batches = batches
       /\ new.main = kp2.main /\ new.EKGs = kp2.EKGs /\ new.mainChainTXs = txs6
       /\ new.HalfStepsChecked = num /\ new.SyncHeight = height + 1
  <2>1. kp6 = [kp5 EXCEPT !.mainChainTXs = txs6, !.HalfStepsChecked = num]
    BY <1>19, <1>20 DEF txs6
  <2>2. height + 1 \in Nat \ {0}
    OBVIOUS
  <2>3. /\ kp6 \in KeyperState
        /\ kp6.messages = messages /\ kp6.NextEpochSecretShare = next /\ kp6.Batches = batches
        /\ kp6.main = kp2.main /\ kp6.EKGs = kp2.EKGs /\ kp6.mainChainTXs = txs6
        /\ kp6.HalfStepsChecked = num
    BY <2>1, <1>19, <1>21, <1>22 DEF KeyperState
  <2> QED
    BY <2>2, <2>3 DEF KeyperState
<1> HIDE DEF new
<1>24. /\ kp1.main = kp.main /\ kp1.NextEpochSecretShare = kp.NextEpochSecretShare
       /\ kp1.HalfStepsChecked = kp.HalfStepsChecked /\ kp1.Batches = kp.Batches
       /\ kp1.messages = kp.messages /\ kp1.mainChainTXs = kp.mainChainTXs
  BY <1>2, <1>3 DEF KeyperState
<1>25. /\ kp2.main = kp.main /\ kp2.NextEpochSecretShare = kp.NextEpochSecretShare
       /\ kp2.HalfStepsChecked = kp.HalfStepsChecked /\ kp2.mainChainTXs = kp.mainChainTXs
  BY <1>4, <1>24 DEF Reached
<1>26. \A b, eon : Decrypted(kp1, b, eon) = Decrypted(kp, b, eon)
  BY <1>24 DEF Decrypted, DecryptedBatch
<1>27. ASSUME NEW m \in Elements(new.messages), m \notin Elements(kp.messages)
       PROVE  NewMessage(kp, next, k, m, height)
  <2>1. m \in Elements(kp2.messages) \/ m \in Elements(shares)
    BY <1>10, <1>23, <1>27
  <2>2. CASE m \in Elements(kp2.messages)
    <3>1. PICK b \in Batches, eon \in 1 .. MaxEons :
            HasKey(eon, b) /\ m = SignatureFor(kp1, k, b, eon)
      BY <2>2, <1>4, <1>24, <1>27 DEF Reached
    <3>2. SignatureFor(kp1, k, b, eon) = SignatureFor(kp, k, b, eon)
      BY <1>26 DEF SignatureFor
    <3> QED
      BY <3>1, <3>2 DEF NewMessage
  <2>3. CASE m \in Elements(shares)
    <3>1. PICK b \in Batches : /\ kp2.NextEpochSecretShare <= b /\ b < next
                               /\ m = FreshShare(kp2, k, b, height)
      BY <2>3, <1>6
    <3>2. FreshShare(kp2, k, b, height)
            = EpochSecretKeyShare(EonKnown(kp, k, b, height), b, k, TRUE)
      BY DEF FreshShare, EonKnown, kp2, kp1
    <3> QED
      BY <3>1, <3>2, <1>25 DEF NewMessage
  <2> QED
    BY <2>1, <2>2, <2>3
<1>28. ASSUME NEW b \in Batches PROVE NewBatch(kp, b, new.Batches[b], height)
  <2>1. new.Batches[b] = syncBatch(kp2.Batches[b], b, height)
    BY <1>14, <1>23
  <2>2. \/ kp2.Batches[b] = kp.Batches[b]
        \/ \E eon \in 1 .. MaxEons :
             /\ HasKey(eon, b)
             /\ kp2.Batches[b] \in {Decrypted(kp, b, eon),
                                    syncBatch(Decrypted(kp, b, eon), b, height)}
    BY <1>4, <1>24, <1>26 DEF Reached
  <2> QED
    BY <2>1, <2>2 DEF NewBatch
<1>29. ASSUME NEW t \in Elements(new.mainChainTXs), t \notin Elements(kp.mainChainTXs)
       PROVE  NewTX(kp, new, t)
  <2>1. t \in Elements(executed) \/ t \in Elements(accused)
    BY <1>15, <1>18, <1>21, <1>23, <1>25, <1>29
  <2>2. CASE t \in Elements(executed)
    <3>1. PICK h \in Nat : SentFor(kp4, h, t)
      BY <2>2, <1>16
    <3>2. SentFor(new, h, t)
      BY <3>1, <1>15, <1>23 DEF SentFor
    <3> QED
      BY <3>2 DEF NewTX
  <2>3. CASE t \in Elements(accused)
    <3>1. PICK h \in ToAccuse(kp5) : h \in Nat /\ h < num /\ t = TX("accuse", h)
      BY <2>3, <1>20
    <3>2. ToBeAccused(kp, new, h)
      BY <3>1, <1>19, <1>23, <1>25 DEF ToBeAccused
    <3>3. num = NumExecutionHalfSteps(kp.main)
      BY <1>19, <1>25 DEF num
    <3> QED
      BY <3>1, <3>2, <3>3 DEF NewTX
  <2> QED
    BY <2>1, <2>2, <2>3
<1>30. \A i \in DOMAIN new.EKGs : EKGOK(new.EKGs[i])
  BY <1>4, <1>23 DEF Reached
<1>31. /\ new.main = kp.main /\ new.NextEpochSecretShare = next
       /\ next \in {kp.NextEpochSecretShare, Current(kp.main)}
       /\ new.HalfStepsChecked = NumExecutionHalfSteps(kp.main)
  BY <1>6, <1>19, <1>23, <1>25 DEF num
<1> QED
  BY <1>1, <1>23, <1>27, <1>28, <1>29, <1>30, <1>31 DEF IsDecided


-----------------------------------------------------------------------------
(* What stays when the chains grow.                                        *)

Grows == \/ log' = log
         \/ \E m \in Event : log' = Append(log, m)

LEMMA LogGrows ==
    ASSUME log \in Seq(Event), Grows
    PROVE  /\ log' \in Seq(Event)
           /\ Len(log) \in Nat /\ Len(log') \in Nat /\ Len(log) <= Len(log')
           /\ \A i \in DOMAIN log : i \in DOMAIN log' /\ log'[i] = log[i]
BY DEF Grows

LEMMA SharesStay ==
    ASSUME log \in Seq(Event), Grows, NEW eon, NEW b
    PROVE  /\ SharesOnChain(eon, b) \subseteq SharesOnChain(eon, b)'
           /\ HasKey(eon, b) => HasKey(eon, b)'
<1>1. SharesOnChain(eon, b) \subseteq SharesOnChain(eon, b)'
  BY LogGrows DEF SharesOnChain, EpochSecretKeyShares
<1> DEFINE S == SharesOnChain(eon, b)
           T == {log'[n].Sender : n \in {m \in DOMAIN log' :
                   /\ log'[m].type = "EpochSecretKeyShare" /\ log'[m].Eon = eon
                   /\ log'[m].Epoch = b /\ log'[m].Verifies}}
<1>2. SharesOnChain(eon, b)' = T
  BY DEF SharesOnChain, EpochSecretKeyShares
<1>3. S \subseteq T
  BY <1>1, <1>2
<1>4. T \subseteq Keypers /\ IsFiniteSet(Keypers)
  <2>1. ASSUME NEW m \in DOMAIN log', log'[m].type = "EpochSecretKeyShare"
        PROVE  log'[m].Sender \in Keypers
    <3>1. log'[m] \in Event
      BY <2>1, LogGrows
    <3> QED
      BY <2>1, <3>1 DEF Event, ConfigEvents, EonStarts, Finalizations, Shares, Signatures
  <2> QED
    BY <2>1, FewFaulty
<1> HIDE DEF S, T
<1>5. /\ IsFiniteSet(T) /\ Cardinality(S) <= Cardinality(T)
      /\ Cardinality(S) \in Nat /\ Cardinality(T) \in Nat
  BY <1>3, <1>4, FS_Subset, FS_CardinalityType
<1>6. HasKey(eon, b) <=> Cardinality(S) >= Threshold
  BY DEF HasKey, S
<1>7. HasKey(eon, b)' <=> Cardinality(T) >= Threshold
  BY <1>2 DEF HasKey
<1>8. Threshold \in Nat
  BY ConstantsAssumption
<1> QED
  BY <1>1, <1>5, <1>6, <1>7, <1>8

LEMMA EKGStays ==
    ASSUME log \in Seq(Event), Grows, NEW ekg, EKGOK(ekg)
    PROVE  EKGOK(ekg)'
<1>1. \A b \in Batches :
        ekg.EpochKG.SecretShares[b] \subseteq SharesOnChain(ekg.Eon, b)'
  BY SharesStay DEF EKGOK
<1>2. \A b \in ekg.EpochKG.SecretKeys : HasKey(ekg.Eon, b)'
  BY SharesStay DEF EKGOK
<1>3. ekg \in EKGType
  BY DEF EKGOK
<1> QED
  BY <1>1, <1>2, <1>3 DEF EKGOK

LEMMA KeyperStays ==
    ASSUME log \in Seq(Event), Grows, block \in Nat, block' \in Nat, block <= block',
           NEW kp, KeyperOK(kp)
    PROVE  KeyperOK(kp)'
<1>1. \A i \in DOMAIN kp.EKGs : EKGOK(kp.EKGs[i])'
  BY EKGStays DEF KeyperOK
<1>2. Len(log) \in Nat /\ Len(log') \in Nat /\ Len(log) <= Len(log')
  BY LogGrows
<1>3. kp.main \in Nat /\ kp.SyncHeight \in Nat
  BY DEF KeyperOK, KeyperState
<1>4. kp.main < block' /\ kp.SyncHeight <= Len(log') + 1
  BY <1>2, <1>3 DEF KeyperOK
<1> QED
  BY <1>1, <1>4 DEF KeyperOK


(* An event of no honest keyper, or one it has sent, which the app takes.  *)
IsMessageOf(m, k) ==
    m.type \in {"EpochSecretKeyShare", "DecryptionSignature"} /\ m.Sender = k

Appended(m) ==
    /\ \A k \in Honest : IsMessageOf(m, k) => m \in Elements(keypers[k].messages)
    /\ Accepted(m)

LogStep ==
    \/ log' = log
    \/ \E m \in Event : log' = Append(log, m) /\ Appended(m)

(* A keyper's messages and transactions get through.                       *)
Sent(k) ==
    \E messages \in Seq(Shares \cup Signatures), sent \in Seq(TXType) :
       /\ Elements(messages) \subseteq Elements(keypers[k].messages)
       /\ Elements(sent) \subseteq Elements(keypers[k].mainChainTXs)
       /\ keypers'[k] = [keypers[k] EXCEPT !.messages = messages, !.mainChainTXs = sent]

(* A step in which no keyper decides.                                      *)
NothingDecided ==
    /\ LogStep /\ block <= block' /\ ChainOK'
    /\ keypers' = [k \in Honest |-> keypers'[k]]
    /\ \A k \in Honest : Sent(k)

LEMMA SentShares ==
    ASSUME log \in Seq(Event), LogStep, NEW k \in Honest, SharesOK(k),
           keypers[k] \in KeyperState, Sent(k)
    PROVE  SharesOK(k)'
<1>1. PICK messages \in Seq(Shares \cup Signatures), sent \in Seq(TXType) :
        /\ Elements(messages) \subseteq Elements(keypers[k].messages)
        /\ keypers'[k] = [keypers[k] EXCEPT !.messages = messages, !.mainChainTXs = sent]
  BY DEF Sent
<1>2. /\ keypers'[k].messages = messages
      /\ keypers'[k].NextEpochSecretShare = keypers[k].NextEpochSecretShare
  BY <1>1 DEF KeyperState
<1>3. ASSUME NEW m \in Elements(log'), IsShareOf(m, k)
      PROVE  m \in Elements(log) \cup Elements(keypers[k].messages)
  <2>1. CASE log' = log
    BY <2>1, <1>3
  <2>2. CASE \E e \in Event : log' = Append(log, e) /\ Appended(e)
    <3>1. PICK e \in Event : log' = Append(log, e) /\ Appended(e)
      BY <2>2
    <3>2. Elements(Append(log, e)) = Elements(log) \cup {e}
      BY ElementsOfAppend
    <3>3. CASE m = e
      BY <3>1, <3>3, <1>3 DEF Appended, IsMessageOf, IsShareOf
    <3> QED
      BY <3>1, <3>2, <3>3, <1>3
  <2> QED
    BY <2>1, <2>2 DEF LogStep
<1> DEFINE old == {m \in Elements(log) \cup Elements(keypers[k].messages) : IsShareOf(m, k)}
           new == {m \in Elements(log') \cup Elements(keypers'[k].messages) : IsShareOf(m, k)}
<1>4. new \subseteq old
  BY <1>1, <1>2, <1>3
<1>5. SharesOf(k) = old
  BY DEF SharesOf
<1>6. SharesOf(k)' = new
  BY DEF SharesOf, IsShareOf, Elements
<1> HIDE DEF old, new
<1>7. \A m \in new : m.Epoch < keypers'[k].NextEpochSecretShare
  BY <1>2, <1>4, <1>5 DEF SharesOK
<1>8. \A m, n \in new : m.Epoch = n.Epoch => m.Eon = n.Eon
  BY <1>4, <1>5 DEF SharesOK
<1>9. \A m \in Elements(messages) : m.Sender = k
  BY <1>1 DEF SharesOK
<1>10. Elements(keypers[k].messages)' = Elements(messages)
  BY <1>2 DEF Elements
<1> QED
  BY <1>6, <1>7, <1>8, <1>9, <1>10 DEF SharesOK

LEMMA SentKeyper ==
    ASSUME log \in Seq(Event), LogStep, block \in Nat, block' \in Nat, block <= block',
           NEW k \in Honest, KeyperOK(keypers[k]), Sent(k)
    PROVE  KeyperOK(keypers[k])' /\ keypers'[k] \in KeyperState
<1>1. PICK messages \in Seq(Shares \cup Signatures), sent \in Seq(TXType) :
        keypers'[k] = [keypers[k] EXCEPT !.messages = messages, !.mainChainTXs = sent]
  BY DEF Sent
<1>2. Grows
  BY DEF LogStep, Grows
<1>3. PICK kp : kp = keypers[k]
  OBVIOUS
<1>4. KeyperOK(kp) /\ kp \in KeyperState
  BY <1>3 DEF KeyperOK
<1>5. KeyperOK(kp)'
  BY <1>2, <1>4, KeyperStays
<1> DEFINE new == [kp EXCEPT !.messages = messages, !.mainChainTXs = sent]
<1>6. /\ new \in KeyperState /\ new.main = kp.main /\ new.SyncHeight = kp.SyncHeight
      /\ new.NextEpochSecretShare = kp.NextEpochSecretShare /\ new.EKGs = kp.EKGs
  BY <1>4 DEF KeyperState
<1> HIDE DEF new
<1>7. KeyperOK(new)'
  BY <1>5, <1>6 DEF KeyperOK
<1>8. keypers'[k] = new
  BY <1>1, <1>3 DEF new
<1> QED
  BY <1>6, <1>7, <1>8 DEF KeyperOK


LEMMA SentInv ==
    ASSUME EpochsInv, NothingDecided
    PROVE  EpochsInv'
<1>1. log \in Seq(Event) /\ block \in Nat /\ block' \in Nat
      /\ LogStep /\ block <= block' /\ ChainOK'
  BY DEF EpochsInv, ChainOK, NothingDecided
<1>2. ASSUME NEW k \in Honest
      PROVE  KeyperOK(keypers[k])' /\ keypers'[k] \in KeyperState /\ SharesOK(k)'
  <2>1. KeyperOK(keypers[k]) /\ SharesOK(k) /\ Sent(k) /\ keypers[k] \in KeyperState
    BY DEF EpochsInv, NothingDecided
  <2> QED
    BY <1>1, <2>1, SentKeyper, SentShares
<1>3. keypers' \in [Honest -> KeyperState]
  BY <1>2 DEF NothingDecided
<1> QED
  BY <1>1, <1>2, <1>3 DEF EpochsInv

LEMMA KeptSent ==
    ASSUME NEW k, keypers[k] \in KeyperState, keypers'[k] = keypers[k]
    PROVE  Sent(k)
<1>1. keypers[k] = [keypers[k] EXCEPT !.messages = keypers[k].messages,
                                      !.mainChainTXs = keypers[k].mainChainTXs]
  BY DEF KeyperState
<1>2. keypers[k].messages \in Seq(Shares \cup Signatures) /\ keypers[k].mainChainTXs \in Seq(TXType)
  BY DEF KeyperState
<1> QED
  BY <1>1, <1>2 DEF Sent

(* What is written on shuttermint changes nothing for keypers.             *)
LEMMA LoggedSent ==
    ASSUME EpochsInv, NEW m \in Event, Appended(m), log' = Append(log, m),
           UNCHANGED <<chainVars, keypers>>
    PROVE  NothingDecided
<1>1. LogStep
  BY DEF LogStep
<1>2. log' \in Seq(Event)
  BY DEF EpochsInv, ChainOK
<1>3. ChainOK'
  BY <1>2 DEF EpochsInv, ChainOK, chainVars
<1>4. \A k \in Honest : Sent(k)
  BY KeptSent DEF EpochsInv
<1>5. block <= block'
  BY DEF EpochsInv, ChainOK, chainVars
<1>6. keypers' = [k \in Honest |-> keypers'[k]]
  BY DEF EpochsInv
<1> QED
  BY <1>1, <1>3, <1>4, <1>5, <1>6 DEF NothingDecided

LEMMA DeliverSent ==
    ASSUME EpochsInv, NEW k \in Honest, Deliver(k)
    PROVE  NothingDecided
<1> DEFINE messages == keypers[k].messages
           m == Head(messages)
<1>1. /\ keypers \in [Honest -> KeyperState] /\ keypers[k] \in KeyperState
      /\ messages \in Seq(Shares \cup Signatures) /\ messages # <<>>
  BY DEF EpochsInv, KeyperState, Deliver
<1>2. /\ m \in Elements(messages) /\ Elements(Tail(messages)) \subseteq Elements(messages)
      /\ m \in Shares \cup Signatures /\ Tail(messages) \in Seq(Shares \cup Signatures)
  BY <1>1, ElementsOfTail
<1>3. m \in Event /\ m.Sender = k
  BY <1>2 DEF Event, EpochsInv, SharesOK
<1>4. Accepted(m) => Appended(m)
  BY <1>2, <1>3 DEF Appended, IsMessageOf
<1>5. LogStep
  BY <1>3, <1>4 DEF Deliver, LogStep
<1>6. ChainOK' /\ block <= block'
  BY <1>3 DEF EpochsInv, ChainOK, Deliver, chainVars
<1>7. keypers' = [keypers EXCEPT ![k].messages = Tail(messages)]
  BY DEF Deliver
<1>8. Sent(k)
  <2>1. keypers'[k] = [keypers[k] EXCEPT !.messages = Tail(messages)]
    BY <1>1, <1>7
  <2>2. keypers'[k] = [keypers[k] EXCEPT !.messages = Tail(messages),
                                         !.mainChainTXs = keypers[k].mainChainTXs]
    BY <1>1, <2>1 DEF KeyperState
  <2>3. keypers[k].mainChainTXs \in Seq(TXType)
    BY <1>1 DEF KeyperState
  <2> QED
    BY <1>2, <2>2, <2>3 DEF Sent
<1>9. \A j \in Honest : Sent(j)
  <2> SUFFICES ASSUME NEW j \in Honest, j # k PROVE Sent(j)
    BY <1>8
  <2>1. keypers'[j] = keypers[j] /\ keypers[j] \in KeyperState
    BY <1>1, <1>7
  <2> QED
    BY <2>1, KeptSent
<1>10. keypers' = [j \in Honest |-> keypers'[j]]
  BY <1>1, <1>7
<1> QED
  BY <1>5, <1>6, <1>9, <1>10 DEF NothingDecided

LEMMA EonEventsType ==
    ASSUME ChainOK
    PROVE  /\ EonEvents("EonStarted") \subseteq 1 .. MaxEons
           /\ EonEvents("DKGFinalized") \subseteq 1 .. MaxEons
           /\ Cardinality(EonEvents("EonStarted")) \in Nat
<1>1. \A i \in DOMAIN log : log[i] \in Event
  BY DEF ChainOK
<1>2. /\ EonEvents("EonStarted") \subseteq 1 .. MaxEons
      /\ EonEvents("DKGFinalized") \subseteq 1 .. MaxEons
  BY <1>1 DEF EonEvents, Event, ConfigEvents, EonStarts, Finalizations, Shares, Signatures
<1>3. IsFiniteSet(1 .. MaxEons)
  BY ConstantsAssumption, FS_Interval
<1> QED
  BY <1>2, <1>3, FS_Subset, FS_CardinalityType

LEMMA StartEonSent ==
    ASSUME EpochsInv, NEW b \in Batches, StartEon(b)
    PROVE  NothingDecided
<1> DEFINE eon == Cardinality(EonEvents("EonStarted")) + 1
<1>1. eon \in 1 .. MaxEons
  BY EonEventsType, ConstantsAssumption DEF StartEon, EpochsInv
<1>2. log' = Append(log, EonStarted(eon, b)) /\ UNCHANGED <<chainVars, keypers>>
  BY DEF StartEon
<1> HIDE DEF eon
<1>3. EonStarted(eon, b) \in Event /\ Appended(EonStarted(eon, b))
  BY <1>1 DEF Event, EonStarts, EonStarted, Appended, IsMessageOf, Accepted
<1> QED
  BY <1>2, <1>3, LoggedSent

LEMMA EndDKGSent ==
    ASSUME EpochsInv, NEW eon \in 1 .. MaxEons, NEW failed \in SUBSET Slow,
           EndDKG(eon, failed)
    PROVE  NothingDecided
<1>1. DKGFinalized(eon, failed) \in Event /\ Appended(DKGFinalized(eon, failed))
  BY DEF Event, Finalizations, DKGFinalized, Appended, IsMessageOf, Accepted
<1> QED
  BY <1>1, LoggedSent DEF EndDKG

LEMMA AddBatchConfigSent ==
    ASSUME EpochsInv, NEW i \in DOMAIN BatchConfigs, AddBatchConfig(i)
    PROVE  NothingDecided
<1>1. i \in Nat
  BY ConfigTypes
<1>2. BatchConfigAdded(i) \in Event /\ Appended(BatchConfigAdded(i))
  BY <1>1 DEF Event, ConfigEvents, BatchConfigAdded, Appended, IsMessageOf, Accepted
<1> QED
  BY <1>2, LoggedSent DEF AddBatchConfig

LEMMA SendFaultySent ==
    ASSUME EpochsInv, NEW m \in Misbehaviour, SendFaulty(m)
    PROVE  NothingDecided
<1>1. m.Sender \in Faulty /\ m.Sender \in Keypers /\ m.Sender \notin Honest
  BY MisbehaviourAssumption DEF Faulty
<1>2. Appended(m)
  BY <1>1 DEF Appended, IsMessageOf, SendFaulty
<1>3. m \in Event
  <2>1. CASE m.type = "EpochSecretKeyShare"
    <3>1. m.Eon \in 1 .. MaxEons
      BY <2>1, EonEventsType DEF SendFaulty, EpochsInv
    <3>2. m \in [type : {"EpochSecretKeyShare"}, Eon : Nat, Epoch : Batches, Sender : Faulty,
                 Verifies : BOOLEAN]
      BY <2>1, MisbehaviourAssumption
    <3>3. m \in Shares
      BY <1>1, <3>1, <3>2 DEF Shares
    <3> QED
      BY <3>3 DEF Event
  <2>2. CASE m.type # "EpochSecretKeyShare"
    <3>1. m \in [type : {"DecryptionSignature"}, BatchIndex : Batches, Sender : Faulty,
                 Hash : Nat \X SUBSET Nat]
      BY <2>2, MisbehaviourAssumption
    <3>2. m \in Signatures
      BY <1>1, <3>1 DEF Signatures
    <3> QED
      BY <3>2 DEF Event
  <2> QED
    BY <2>1, <2>2
<1> QED
  BY <1>2, <1>3, LoggedSent DEF SendFaulty


(* Steps of the main chain.                                                *)
LEMMA HalfStepDoneOK ==
    ASSUME ChainOK, NEW kind \in {"cipher", "skip", "plain"},
           NEW executor \in SUBSET Keypers, NEW result \in SUBSET Nat,
           HalfStepDone(kind, executor, result), UNCHANGED <<block, txs, log>>
    PROVE  ChainOK'
<1> DEFINE step == [kind |-> kind, block |-> block, executor |-> executor, result |-> result]
<1>1. halfSteps' = Append(halfSteps, step)
  BY DEF HalfStepDone
<1>2. step \in HalfStep /\ step.block = block /\ block \in 1 .. block
  BY DEF ChainOK, HalfStep
<1> HIDE DEF step
<1>3. halfSteps \in Seq(HalfStep) /\ \A i \in DOMAIN halfSteps : halfSteps[i].block \in 1 .. block
  BY DEF ChainOK
<1>4. halfSteps' \in Seq(HalfStep) /\ \A i \in DOMAIN halfSteps' : halfSteps'[i].block \in 1 .. block
  <2>1. /\ Len(halfSteps) \in Nat
        /\ DOMAIN halfSteps = 1 .. Len(halfSteps)
        /\ DOMAIN halfSteps' = 1 .. Len(halfSteps) + 1
        /\ halfSteps'[Len(halfSteps) + 1] = step
        /\ \A i \in 1 .. Len(halfSteps) : halfSteps'[i] = halfSteps[i]
    BY <1>1, <1>2, <1>3
  <2> QED
    BY <1>1, <1>2, <1>3, <2>1
<1> QED
  BY <1>4 DEF ChainOK

LEMMA MinedSent ==
    ASSUME EpochsInv, NEW k \in Honest, Mined(k), ChainOK'
    PROVE  NothingDecided
<1> DEFINE sent == keypers[k].mainChainTXs
<1>1. /\ keypers \in [Honest -> KeyperState] /\ keypers[k] \in KeyperState
      /\ keypers[k].messages \in Seq(Shares \cup Signatures)
      /\ sent \in Seq(TXType) /\ sent # <<>> /\ Tail(sent) \in Seq(TXType)
  BY DEF EpochsInv, KeyperState, Mined
<1>0. Elements(Tail(sent)) \subseteq Elements(sent)
  BY <1>1, ElementsOfTail
<1>2. keypers' = [keypers EXCEPT ![k].mainChainTXs = Tail(sent)]
  BY DEF Mined
<1>3. Sent(k)
  <2>1. keypers'[k] = [keypers[k] EXCEPT !.mainChainTXs = Tail(sent)]
    BY <1>1, <1>2
  <2>2. keypers'[k] = [keypers[k] EXCEPT !.messages = keypers[k].messages,
                                         !.mainChainTXs = Tail(sent)]
    BY <1>1, <2>1 DEF KeyperState
  <2> QED
    BY <1>0, <1>1, <2>2 DEF Sent
<1>4. \A j \in Honest : Sent(j)
  <2> SUFFICES ASSUME NEW j \in Honest, j # k PROVE Sent(j)
    BY <1>3
  <2>1. keypers'[j] = keypers[j] /\ keypers[j] \in KeyperState
    BY <1>1, <1>2
  <2> QED
    BY <2>1, KeptSent
<1>5. keypers' = [j \in Honest |-> keypers'[j]]
  BY <1>1, <1>2
<1>6. LogStep /\ block <= block'
  BY DEF LogStep, Mined, EpochsInv, ChainOK
<1> QED
  BY <1>4, <1>5, <1>6 DEF NothingDecided

LEMMA NextTXType ==
    ASSUME EpochsInv, NEW k \in Honest, keypers[k].mainChainTXs # <<>>
    PROVE  /\ NextTX(k) \in TXType
           /\ NextTX(k).type = "cipher" => NextTX(k).result \in SUBSET Nat
<1>1. keypers[k].mainChainTXs \in Seq(TXType)
  BY DEF EpochsInv, KeyperState
<1> QED
  BY <1>1 DEF NextTX, TXType

LEMMA MainChainSent ==
    ASSUME EpochsInv, NEW k \in Honest,
           \/ ExecuteCipherBatch(k) \/ SkipCipherBatch(k) \/ ExecutePlainBatch(k)
           \/ Accuse(k) \/ Revert(k)
    PROVE  NothingDecided
<1>1. ChainOK /\ k \in Keypers
  BY ConstantsAssumption DEF EpochsInv
<1>2. CASE ExecuteCipherBatch(k)
  <2>1. NextTX(k).result \in SUBSET Nat
    BY <1>2, NextTXType DEF ExecuteCipherBatch, Mined, Executes, Turn
  <2>2. ChainOK'
    BY <1>1, <1>2, <2>1, HalfStepDoneOK DEF ExecuteCipherBatch, Mined
  <2> QED
    BY <1>2, <2>2, MinedSent DEF ExecuteCipherBatch
<1>3. CASE SkipCipherBatch(k)
  <2>1. ChainOK'
    BY <1>1, <1>3, HalfStepDoneOK DEF SkipCipherBatch, Mined
  <2> QED
    BY <1>3, <2>1, MinedSent DEF SkipCipherBatch
<1>4. CASE ExecutePlainBatch(k)
  <2>1. ChainOK'
    BY <1>1, <1>4, HalfStepDoneOK DEF ExecutePlainBatch, Mined
  <2> QED
    BY <1>4, <2>1, MinedSent DEF ExecutePlainBatch
<1>5. CASE Accuse(k)
  <2>1. ChainOK'
    BY <1>1, <1>5 DEF Accuse, Mined, ChainOK
  <2> QED
    BY <1>5, <2>1, MinedSent DEF Accuse
<1>6. CASE Revert(k)
  <2>1. ChainOK'
    BY <1>1, <1>6 DEF Revert, Mined, ChainOK
  <2> QED
    BY <1>6, <2>1, MinedSent DEF Revert
<1> QED
  BY <1>2, <1>3, <1>4, <1>5, <1>6

LEMMA ChainSent ==
    ASSUME EpochsInv, ChainOK', block <= block', UNCHANGED <<log, keypers>>
    PROVE  NothingDecided
<1>1. \A k \in Honest : Sent(k)
  BY KeptSent DEF EpochsInv
<1>2. keypers' = [k \in Honest |-> keypers'[k]] /\ LogStep
  BY DEF EpochsInv, LogStep
<1> QED
  BY <1>1, <1>2 DEF NothingDecided

LEMMA ExecuteFaultySent ==
    ASSUME EpochsInv, NEW k \in Faulty, NEW result \in FaultyResults, ExecuteFaulty(k, result)
    PROVE  NothingDecided
<1>1. {k} \in SUBSET Keypers /\ result \in SUBSET Nat
  BY ConstantsAssumption DEF Faulty
<1>2. ChainOK'
  BY <1>1, HalfStepDoneOK DEF ExecuteFaulty, EpochsInv
<1>3. block <= block'
  BY DEF ExecuteFaulty, EpochsInv, ChainOK
<1> QED
  BY <1>2, <1>3, ChainSent DEF ExecuteFaulty

LEMMA AddTransactionSent ==
    ASSUME EpochsInv, NEW b \in Batches, NEW eon \in 1 .. MaxEons, AddTransaction(b, eon)
    PROVE  NothingDecided
<1> DEFINE tx == [block |-> block, eon |-> eon]
<1>1. /\ txs' = [txs EXCEPT ![b] = Append(txs[b], tx)]
      /\ Len(txs[b]) < MaxTxs
      /\ UNCHANGED <<block, halfSteps, accusations, log, keypers>>
  BY DEF AddTransaction
<1>2. tx \in [block : Nat, eon : Nat]
  BY DEF EpochsInv, ChainOK
<1> HIDE DEF tx
<1>3. /\ txs \in [Batches -> Seq([block : Nat, eon : Nat])]
      /\ \A c \in Batches : Len(txs[c]) <= MaxTxs
  BY DEF EpochsInv, ChainOK
<1>4. txs' \in [Batches -> Seq([block : Nat, eon : Nat])]
  BY <1>1, <1>2, <1>3
<1>5. Len(Append(txs[b], tx)) = Len(txs[b]) + 1 /\ Len(txs[b]) \in Nat /\ MaxTxs \in Nat
  BY <1>2, <1>3, ConstantsAssumption
<1>6. \A c \in Batches : Len(txs'[c]) <= MaxTxs
  BY <1>1, <1>3, <1>5
<1>7. ChainOK' /\ block <= block'
  BY <1>1, <1>4, <1>6 DEF EpochsInv, ChainOK
<1> QED
  BY <1>1, <1>7, ChainSent

LEMMA NextBlockSent ==
    ASSUME EpochsInv, NextBlock
    PROVE  NothingDecided
<1>1. \A eons : LastBlock(eons) <= MaxBlock /\ LastBlock(eons) \in Int /\ MaxBlock \in Nat
  BY ConstantsAssumption DEF LastBlock
<1>2. block \in Nat /\ block' = block + 1 /\ block' \in 1 .. MaxBlock
  BY <1>1 DEF NextBlock, EpochsInv, ChainOK
<1>3. \A i \in DOMAIN halfSteps : halfSteps[i].block \in 1 .. block'
  BY <1>2 DEF EpochsInv, ChainOK
<1>4. ChainOK' /\ block <= block'
  BY <1>2, <1>3 DEF NextBlock, EpochsInv, ChainOK
<1> QED
  BY <1>4, ChainSent DEF NextBlock


-----------------------------------------------------------------------------
(* Deciding.                                                               *)

LEMMA DecidedShares ==
    ASSUME EpochsInv, NEW k \in Honest, log' = log,
           NEW kp, NEW new, NEW height,
           kp.messages = keypers[k].messages, kp.main \in Nat,
           kp.NextEpochSecretShare = keypers[k].NextEpochSecretShare,
           kp.NextEpochSecretShare \in Nat, kp.NextEpochSecretShare <= Current(kp.main),
           IsDecided(kp, new, k, height), keypers'[k] = new
    PROVE  SharesOK(k)'
<1> DEFINE next == kp.NextEpochSecretShare
           now == new.NextEpochSecretShare
           old == SharesOf(k)
           all == {m \in Elements(log) \cup Elements(new.messages) : IsShareOf(m, k)}
           Fresh(m) == \E b \in Batches :
                         /\ next <= b /\ b < now
                         /\ m = EpochSecretKeyShare(EonKnown(kp, k, b, height), b, k, TRUE)
<1>1. now \in Nat /\ next \in Nat /\ next <= now
  <2>1. Current(kp.main) \in Nat /\ now \in {next, Current(kp.main)}
    BY CurrentType DEF IsDecided
  <2> QED
    BY <2>1
<1>2. /\ \A m \in Elements(kp.messages) : m.Sender = k
      /\ \A m \in old : m.Epoch < next
      /\ \A m, n \in old : m.Epoch = n.Epoch => m.Eon = n.Eon
  BY DEF EpochsInv, SharesOK
<1>3. \A m \in Elements(new.messages) :
        m \in Elements(kp.messages) \/ NewMessage(kp, now, k, m, height)
  BY DEF IsDecided
<1>4. ASSUME NEW m \in Elements(new.messages), m \notin Elements(kp.messages)
      PROVE  m.Sender = k /\ (IsShareOf(m, k) => Fresh(m))
  <2>1. NewMessage(kp, now, k, m, height)
    BY <1>3, <1>4
  <2>2. CASE \E b \in Batches, eon \in 1 .. MaxEons :
               HasKey(eon, b) /\ m = SignatureFor(kp, k, b, eon)
    BY <2>2 DEF SignatureFor, DecryptionSignature, IsShareOf
  <2>3. CASE Fresh(m)
    <3>1. PICK b \in Batches : m = EpochSecretKeyShare(EonKnown(kp, k, b, height), b, k, TRUE)
      BY <2>3
    <3>2. m.Sender = k
      BY <3>1 DEF EpochSecretKeyShare
    <3> HIDE DEF Fresh
    <3> QED
      BY <2>3, <3>2
  <2> HIDE DEF next, now
  <2> QED
    BY <2>1, <2>2, <2>3 DEF NewMessage, next
<1>5. \A m \in Elements(new.messages) : m.Sender = k
  BY <1>2, <1>4
<1>6. \A m \in all : m \in old \/ Fresh(m)
  BY <1>4 DEF SharesOf
<1>7. \A b \in Batches : b \in Nat
  BY DEF Batches
<1> HIDE DEF next, now, old
<1>8. \A m \in all : m.Epoch \in Int /\ m.Epoch < now /\ (m \in old <=> m.Epoch < next)
  <2> SUFFICES ASSUME NEW m \in all
               PROVE  m.Epoch \in Int /\ m.Epoch < now /\ (m \in old <=> m.Epoch < next)
    OBVIOUS
  <2>1. CASE m \in old
    <3>1. m.Epoch \in Int
      <4>1. m \in Elements(log) \cup Elements(keypers[k].messages) /\ IsShareOf(m, k)
        BY <2>1 DEF old, SharesOf
      <4>2. log \in Seq(Event) /\ keypers[k].messages \in Seq(Shares \cup Signatures)
        BY DEF EpochsInv, ChainOK, KeyperState
      <4>3. m \in Event
        BY <4>1, <4>2 DEF Elements, Event
      <4>4. m \in Shares
        BY <4>1, <4>3 DEF IsShareOf, Event, ConfigEvents, EonStarts, Finalizations, Signatures
      <4> QED
        BY <4>4, <1>7 DEF Shares
    <3> QED
      BY <2>1, <3>1, <1>1, <1>2
  <2>2. CASE Fresh(m)
    <3>1. PICK b \in Batches : /\ next <= b /\ b < now
                               /\ m = EpochSecretKeyShare(EonKnown(kp, k, b, height), b, k, TRUE)
      BY <2>2
    <3>2. m.Epoch = b
      BY <3>1 DEF EpochSecretKeyShare
    <3>3. b \in Nat /\ m.Epoch \in Int /\ m.Epoch < now /\ ~(m.Epoch < next)
      <4>1. next <= b /\ b < now /\ b \in Nat
        BY <3>1, <1>7
      <4>2. PICK e : e = m.Epoch
        OBVIOUS
      <4>3. e = b
        BY <3>2, <4>2
      <4>4. e \in Int /\ e < now /\ ~(e < next)
        BY <4>1, <4>3, <1>1
      <4> QED
        BY <4>1, <4>2, <4>4
    <3>4. m \in old => m.Epoch < next
      BY <1>2
    <3> HIDE DEF all
    <3> QED
      BY <3>3, <3>4
  <2> QED
    BY <2>1, <2>2, <1>6
<1>9. \A m, n \in all : m.Epoch = n.Epoch => m.Eon = n.Eon
  <2> SUFFICES ASSUME NEW m \in all, NEW n \in all, m.Epoch = n.Epoch PROVE m.Eon = n.Eon
    OBVIOUS
  <2>1. m \in old <=> n \in old
    BY <1>8
  <2>2. CASE m \in old
    BY <2>1, <2>2, <1>2
  <2>3. CASE m \notin old
    <3>1. Fresh(m) /\ Fresh(n)
      BY <2>1, <2>3, <1>6
    <3> QED
      BY <3>1 DEF EpochSecretKeyShare
  <2> QED
    BY <2>2, <2>3
<1>10. SharesOf(k)' = all
  BY DEF SharesOf, IsShareOf, Elements
<1>11. new.NextEpochSecretShare = now
  BY DEF now
<1>12. Elements(keypers[k].messages)' = Elements(new.messages)
  BY DEF Elements
<1> HIDE DEF all
<1>13. \A m \in all : m.Epoch < keypers'[k].NextEpochSecretShare
  BY <1>8, <1>11
<1> QED
  BY <1>5, <1>9, <1>10, <1>12, <1>13 DEF SharesOK

(* A keyper k decides: it comes from state kp, in which it has seen the    *)
(* main chain up to some block, to state new.                              *)
Decides(k, kp, new, height) ==
    /\ UNCHANGED <<chainVars, log>>
    /\ KeyperOK(kp) /\ kp = [keypers[k] EXCEPT !.main = kp.main]
    /\ height \in Nat /\ height <= Len(log) /\ kp.SyncHeight <= height + 1
    /\ keypers[k].main <= kp.main
    /\ k \notin Lagging => /\ kp.main + 2 >= block
                          /\ kp.main \in {keypers[k].main, block - 1}
    /\ IsDecided(kp, new, k, height)
    /\ keypers' = [keypers EXCEPT ![k] = new]

LEMMA DecidedInv ==
    ASSUME EpochsInv, NEW k \in Honest, NEW kp, NEW new, NEW height, Decides(k, kp, new, height)
    PROVE  EpochsInv'
<1>1. /\ UNCHANGED <<chainVars, log>> /\ KeyperOK(kp) /\ height \in Nat /\ height <= Len(log)
      /\ keypers' = [keypers EXCEPT ![k] = new]
      /\ keypers[k] \in KeyperState /\ kp = [keypers[k] EXCEPT !.main = kp.main]
  BY DEF Decides, EpochsInv
<1>0. /\ kp.messages = keypers[k].messages
      /\ kp.NextEpochSecretShare = keypers[k].NextEpochSecretShare
  BY <1>1 DEF KeyperState
<1>2. IsDecided(kp, new, k, height)
  BY DEF Decides
<1>3. keypers \in [Honest -> KeyperState] /\ keypers' = [keypers EXCEPT ![k] = new]
  BY <1>1 DEF EpochsInv
<1>4. new \in KeyperState
  BY <1>2 DEF IsDecided
<1>5. keypers' \in [Honest -> KeyperState] /\ keypers'[k] = new
  BY <1>3, <1>4
<1>6. /\ kp.main \in Nat /\ kp.NextEpochSecretShare \in Nat
      /\ kp.NextEpochSecretShare <= Current(kp.main) /\ kp.main < block
  BY <1>1 DEF KeyperOK, KeyperState
<1>7. SharesOK(k)'
  BY <1>0, <1>1, <1>2, <1>5, <1>6, DecidedShares
<1>8. KeyperOK(new)
  <2>1. new.main < block /\ new.SyncHeight <= Len(log) + 1
    BY <1>1, <1>2, <1>6 DEF IsDecided, EpochsInv, ChainOK
  <2>2. Current(kp.main) \in Nat
    BY <1>6, CurrentType
  <2>3. new.NextEpochSecretShare <= Current(new.main)
    <3>1. /\ new.NextEpochSecretShare \in {kp.NextEpochSecretShare, Current(kp.main)}
          /\ new.main = kp.main
      BY <1>2 DEF IsDecided
    <3> QED
      BY <1>6, <2>2, <3>1
  <2>4. \A i \in DOMAIN new.EKGs : EKGOK(new.EKGs[i])
    BY <1>2 DEF IsDecided
  <2> QED
    BY <1>4, <2>1, <2>3, <2>4 DEF KeyperOK
<1>9. log \in Seq(Event) /\ block \in Nat /\ block' = block /\ log' = log /\ Grows
  BY <1>1 DEF EpochsInv, ChainOK, chainVars, Grows
<1>10. KeyperOK(new)'
  BY <1>8, <1>9, KeyperStays
<1>11. ASSUME NEW j \in Honest PROVE KeyperOK(keypers[j])' /\ SharesOK(j)'
  <2>1. CASE j = k
    BY <2>1, <1>5, <1>7, <1>10 DEF KeyperOK
  <2>2. CASE j # k
    <3>1. keypers'[j] = keypers[j] /\ keypers[j] \in KeyperState
      BY <2>2, <1>3
    <3>2. Sent(j) /\ LogStep
      BY <3>1, <1>9, KeptSent DEF LogStep
    <3>3. KeyperOK(keypers[j]) /\ SharesOK(j)
      BY DEF EpochsInv
    <3> QED
      BY <3>1, <3>2, <3>3, <1>9, SentKeyper, SentShares
  <2> QED
    BY <2>1, <2>2
<1>12. ChainOK'
  BY <1>1 DEF EpochsInv, ChainOK, chainVars
<1> QED
  BY <1>5, <1>11, <1>12 DEF EpochsInv

LEMMA DecideOnMainChainIs ==
    ASSUME EpochsInv, NEW k \in Honest, NEW v \in 1 .. block - 1, DecideOnMainChain(k, v)
    PROVE  \E kp, new, height : Decides(k, kp, new, height)
<1>1. PICK old : old = keypers[k]
  OBVIOUS
<1> DEFINE kp == [old EXCEPT !.main = v]
<1>2. KeyperOK(old) /\ old \in KeyperState
  BY <1>1 DEF EpochsInv
<1>3. v \in Nat /\ v < block /\ old.main \in Nat /\ old.main <= v /\ block \in Nat
  BY <1>1, <1>2 DEF DecideOnMainChain, EpochsInv, ChainOK, KeyperState
<1>4. /\ kp \in KeyperState /\ kp.main = v /\ kp.SyncHeight = old.SyncHeight
      /\ kp.NextEpochSecretShare = old.NextEpochSecretShare /\ kp.EKGs = old.EKGs
  BY <1>2, <1>3 DEF KeyperState
<1> DEFINE height == old.SyncHeight - 1
           new == Decided(kp, k, height)
<1>5. keypers' = [keypers EXCEPT ![k] = new] /\ UNCHANGED <<chainVars, log>>
  BY <1>1 DEF DecideOnMainChain, EpochsInv
<1>6. kp = [keypers[k] EXCEPT !.main = kp.main]
  BY <1>1, <1>4
<1> HIDE DEF kp
<1>7. KeyperOK(kp)
  <2>1. Current(old.main) <= Current(v) /\ Current(old.main) \in Nat /\ Current(v) \in Nat
    BY <1>3, CurrentGrows, CurrentType
  <2>2. old.NextEpochSecretShare \in Nat
    BY <1>2 DEF KeyperState
  <2> QED
    BY <1>2, <1>3, <1>4, <2>1, <2>2 DEF KeyperOK
<1>8. height \in Nat /\ height <= Len(log) /\ kp.SyncHeight <= height + 1
  <2>1. old.SyncHeight \in Nat \ {0} /\ old.SyncHeight <= Len(log) + 1 /\ Len(log) \in Nat
    BY <1>2 DEF KeyperOK, KeyperState, EpochsInv, ChainOK
  <2> QED
    BY <1>4, <2>1
<1> HIDE DEF height
<1>9. IsDecided(kp, new, k, height)
  BY <1>7, <1>8, DecidedIs DEF EpochsInv
<1>10. k \notin Lagging => kp.main + 2 >= block /\ kp.main \in {keypers[k].main, block - 1}
  <2>1. k \notin Lagging => v = block - 1
    BY DEF DecideOnMainChain, Late
  <2> QED
    BY <1>3, <1>4, <2>1
<1>11. keypers[k].main <= kp.main
  BY <1>1, <1>3, <1>4
<1> HIDE DEF new
<1> QED
  BY <1>5, <1>6, <1>7, <1>8, <1>9, <1>10, <1>11 DEF Decides

LEMMA DecideOnShielderIs ==
    ASSUME EpochsInv, NEW k \in Honest, DecideOnShielder(k)
    PROVE  \E kp, new, height : Decides(k, kp, new, height)
<1>1. PICK kp, height : kp = keypers[k] /\ height = Len(log)
  OBVIOUS
<1> DEFINE new == Decided(kp, k, height)
<1>2. keypers' = [keypers EXCEPT ![k] = new] /\ UNCHANGED <<chainVars, log>>
  BY <1>1 DEF DecideOnShielder, EpochsInv
<1>3. /\ KeyperOK(kp) /\ kp \in KeyperState /\ height \in Nat /\ height <= Len(log)
      /\ kp.main \in Nat
  BY <1>1 DEF EpochsInv, ChainOK, KeyperState
<1>4. kp.SyncHeight <= height + 1
  BY <1>1, <1>3 DEF KeyperOK
<1>5. kp = [keypers[k] EXCEPT !.main = kp.main]
  BY <1>1, <1>3 DEF KeyperState
<1>6. IsDecided(kp, new, k, height)
  BY <1>3, DecidedIs DEF EpochsInv
<1>7. k \notin Lagging => kp.main + 2 >= block /\ kp.main \in {keypers[k].main, block - 1}
  BY <1>1 DEF DecideOnShielder, InTime, Late
<1>8. keypers[k].main <= kp.main
  BY <1>1, <1>3
<1> HIDE DEF new
<1> QED
  BY <1>2, <1>3, <1>4, <1>5, <1>6, <1>7, <1>8 DEF Decides

LEMMA DecideIs ==
    ASSUME EpochsInv, NEW k \in Honest, Decide(k)
    PROVE  \E kp, new, height : Decides(k, kp, new, height)
BY DecideOnMainChainIs, DecideOnShielderIs DEF Decide

-----------------------------------------------------------------------------
(* The theorems.                                                           *)

LEMMA InitInv ==
    ASSUME Init
    PROVE  EpochsInv
<1>1. 0 \in Batches /\ MaxBlock \in Nat \ {0} /\ MaxEons \in Nat \ {0} /\ MaxTxs \in Nat
  BY ConfigsAssumption, ConstantsAssumption DEF Batches
<1>2. log = <<BatchConfigAdded(2), EonStarted(1, 0), DKGFinalized(1, {})>>
  BY DEF Init
<1>3. /\ BatchConfigAdded(2) \in ConfigEvents
      /\ EonStarted(1, 0) \in EonStarts /\ DKGFinalized(1, {}) \in Finalizations
  BY <1>1 DEF ConfigEvents, EonStarts, Finalizations, BatchConfigAdded, EonStarted,
              DKGFinalized
<1>4. log \in Seq(Event) /\ Len(log) = 3
  <2>1. /\ BatchConfigAdded(2) \in Event
        /\ EonStarted(1, 0) \in Event /\ DKGFinalized(1, {}) \in Event
    BY <1>3 DEF Event
  <2> QED
    BY <1>2, <2>1
<1>5. \A m \in Elements(log) : m.type # "EpochSecretKeyShare"
  BY <1>2, <1>4 DEF Elements, BatchConfigAdded, EonStarted, DKGFinalized
<1>6. ChainOK
  BY <1>1, <1>4 DEF Init, ChainOK
<1>7. NewKeyper \in KeyperState
  <2>1. NoBatch \in Batch
    BY DEF Batch
  <2> DEFINE none == [b \in Batches |-> NoBatch]
  <2>2. none \in [Batches -> Batch]
    BY <2>1
  <2> HIDE DEF none
  <2>3. NewKeyper = [main |-> 0, SyncHeight |-> 1, EKGs |-> <<>>, Batches |-> none,
                     PendingHalfStep |-> {}, NextEpochSecretShare |-> 0,
                     HalfStepsChecked |-> 0, messages |-> <<>>, mainChainTXs |-> <<>>]
    BY DEF NewKeyper, none
  <2> QED
    BY <2>2, <2>3 DEF KeyperState
<1>8. /\ NewKeyper.main = 0 /\ NewKeyper.SyncHeight = 1 /\ NewKeyper.EKGs = <<>>
      /\ NewKeyper.messages = <<>> /\ NewKeyper.NextEpochSecretShare = 0
  BY DEF NewKeyper
<1>9. Current(0) \in Nat
  BY CurrentType
<1>10. block = 1
  BY DEF Init
<1>11. KeyperOK(NewKeyper)
  BY <1>4, <1>7, <1>8, <1>9, <1>10 DEF KeyperOK
<1>12. keypers = [k \in Honest |-> NewKeyper]
  BY DEF Init
<1>13. ASSUME NEW k \in Honest PROVE SharesOK(k)
  <2>1. keypers[k].messages = <<>> /\ Elements(keypers[k].messages) = {}
    BY <1>8, <1>12 DEF Elements
  <2>2. SharesOf(k) = {}
    BY <1>5, <2>1 DEF SharesOf, IsShareOf
  <2> QED
    BY <2>1, <2>2 DEF SharesOK
<1> QED
  BY <1>6, <1>7, <1>11, <1>12, <1>13 DEF EpochsInv

LEMMA StutterSent ==
    ASSUME EpochsInv, UNCHANGED vars
    PROVE  NothingDecided
<1>1. UNCHANGED <<chainVars, log, keypers>>
  BY DEF vars, chainVars
<1>2. ChainOK' /\ block <= block'
  BY <1>1 DEF EpochsInv, ChainOK, chainVars
<1> QED
  BY <1>1, <1>2, ChainSent

(* Every step is one of these: no keyper decides, or one does.             *)
LEMMA Steps ==
    ASSUME EpochsInv, [Next]_vars
    PROVE  \/ NothingDecided
           \/ \E k \in Honest : \E kp, new, height : Decides(k, kp, new, height)
<1>1. CASE UNCHANGED vars
  BY <1>1, StutterSent
<1>2. CASE \E k \in Honest : Arrive(k)
  <2>1. PICK k \in Honest : Arrive(k)
    BY <1>2
  <2> QED
    BY <2>1, DeliverSent, MainChainSent DEF Arrive
<1>3. CASE \E k \in Honest : Decide(k)
  BY <1>3, DecideIs
<1>4. Slow \subseteq Honest
  BY ConstantsAssumption
<1>5. CASE NextBlock
  BY <1>5, NextBlockSent
<1>6. CASE \E b \in Batches, eon \in 1 .. MaxEons : AddTransaction(b, eon)
  BY <1>6, AddTransactionSent
<1>7. CASE \E b \in Batches : StartEon(b)
  BY <1>7, StartEonSent
<1>8. CASE \E eon \in 1 .. MaxEons, failed \in SUBSET Slow : EndDKG(eon, failed)
  BY <1>8, EndDKGSent
<1>11. CASE \E i \in DOMAIN BatchConfigs : AddBatchConfig(i)
  BY <1>11, AddBatchConfigSent
<1>9. CASE \E message \in Misbehaviour : SendFaulty(message)
  BY <1>9, SendFaultySent
<1>10. CASE \E k \in Faulty, result \in FaultyResults : ExecuteFaulty(k, result)
  BY <1>10, ExecuteFaultySent
<1> QED
  BY <1>1, <1>2, <1>3, <1>4, <1>5, <1>6, <1>7, <1>8, <1>9, <1>10, <1>11 DEF Next

LEMMA NextInv ==
    ASSUME EpochsInv, [Next]_vars
    PROVE  EpochsInv'
BY Steps, SentInv, DecidedInv

(* The shares that honest keypers publish are for closed batches, each in  *)
(* one eon, and a keyper has a key only from a threshold of shares on the  *)
(* chain.                                                                  *)
THEOREM EpochsInvariant == Spec => []EpochsInv
<1>1. Init => EpochsInv
  BY InitInv
<1>2. EpochsInv /\ [Next]_vars => EpochsInv'
  BY NextInv
<1> QED
  BY <1>1, <1>2, PTL DEF Spec

(* Types, and a keyper decrypts a batch only with an epoch's key           *)
(* (KeyperEpochs!TypeOK): what a keyper keeps stays what the program has   *)
(* there, whatever the chains, the other keypers and the delays.           *)
THEOREM KeypersHaveTheKeys == Spec => []TypeOK
<1>1. ASSUME EpochsInv PROVE TypeOK
  <2>1. ChainOK /\ block \in 1 .. MaxBlock /\ block \in Nat /\ Len(log) \in Nat
    BY <1>1 DEF EpochsInv, ChainOK
  <2>2. ASSUME NEW k \in Honest
        PROVE  LET kp == keypers[k] IN
               /\ kp.main \in 0 .. block - 1
               /\ kp.SyncHeight \in 1 .. Len(log) + 1
               /\ kp.Batches \in [Batches -> Batch]
               /\ kp.PendingHalfStep \subseteq 0 .. 2 * MaxBatch + 1
               /\ {kp.NextEpochSecretShare, kp.HalfStepsChecked} \subseteq Nat
               /\ \A i \in DOMAIN kp.EKGs :
                    /\ kp.EKGs[i].EpochKG \in KG!EpochKGState
                    /\ \A b \in kp.EKGs[i].EpochKG.SecretKeys : HasKey(kp.EKGs[i].Eon, b)
    <3>1. PICK kp : kp = keypers[k]
      OBVIOUS
    <3>2. KeyperOK(kp) /\ kp \in KeyperState
      BY <1>1, <3>1 DEF EpochsInv
    <3>3. /\ kp.main \in Nat /\ kp.main < block
          /\ kp.SyncHeight \in Nat \ {0} /\ kp.SyncHeight <= Len(log) + 1
      BY <3>2 DEF KeyperOK, KeyperState
    <3>4. kp.main \in 0 .. block - 1 /\ kp.SyncHeight \in 1 .. Len(log) + 1
      BY <2>1, <3>3
    <3>5. /\ kp.Batches \in [Batches -> Batch]
          /\ kp.PendingHalfStep \subseteq 0 .. 2 * MaxBatch + 1
          /\ kp.NextEpochSecretShare \in Nat /\ kp.HalfStepsChecked \in Nat
      BY <3>2 DEF KeyperState
    <3>6. \A i \in DOMAIN kp.EKGs :
            /\ kp.EKGs[i].EpochKG \in KG!EpochKGState
            /\ \A b \in kp.EKGs[i].EpochKG.SecretKeys : HasKey(kp.EKGs[i].Eon, b)
      BY <3>2 DEF KeyperOK, EKGOK, EKGType
    <3> QED
      BY <3>1, <3>4, <3>5, <3>6
  <2> QED
    BY <2>1, <2>2 DEF TypeOK, ChainOK
<1> QED
  BY <1>1, EpochsInvariant, PTL

(* Nobody can decrypt a batch before it is closed                          *)
(* (KeyperEpochs!SecretUntilClosed, publishEpochSecretKeyShares), but for  *)
(* one of which a config that starts with a later batch has started: for   *)
(* any configs that the config contract accepts.                           *)
THEOREM BatchesAreSecretUntilClosed ==
    Spec => []SecretUntilClosed
<1>1. ASSUME EpochsInv PROVE SecretUntilClosed
  <2> SUFFICES ASSUME NEW eon \in 1 .. MaxEons, NEW b \in Batches, HasKey(eon, b)
               PROVE  \/ block >= BatchEndBlock(ConfigForBatchIndex(b), b)
                      \/ \E i \in DOMAIN BatchConfigs :
                            /\ BatchConfigs[i].StartBatchIndex > b
                            /\ BatchConfigs[i].StartBlockNumber < block
    BY DEF SecretUntilClosed
  <2>1. block \in Nat /\ b \in Nat
    BY <1>1 DEF EpochsInv, ChainOK, Batches
  <2>2. BatchEndBlock(ConfigForBatchIndex(b), b) \in Nat
    BY <2>1, BatchEndBlockType
  <2>3. CASE PassedOver(b, block - 1)
    <3>1. PICK i \in 1 .. Len(BatchConfigs) :
            /\ BatchConfigs[i].StartBatchIndex > b
            /\ BatchConfigs[i].StartBlockNumber <= block - 1
      BY <2>3 DEF PassedOver
    <3>2. BatchConfigs[i].StartBlockNumber \in Nat /\ i \in DOMAIN BatchConfigs
      BY ConfigTypes, ConfigFields
    <3>3. BatchConfigs[i].StartBlockNumber < block
      BY <2>1, <3>1, <3>2
    <3> QED
      BY <3>1, <3>2, <3>3
  <2> QED
    BY <1>1, <2>1, <2>2, <2>3, InvSecret
<1> QED
  BY <1>1, EpochsInvariant, PTL

(* There is one key per batch (KeyperEpochs!OneKeyPerEpoch): an honest     *)
(* keyper publishes one share for a batch, whatever eons it learns of and  *)
(* when, and two keys need one of them twice.                              *)
THEOREM OneKeyPerBatch == Spec => []OneKeyPerEpoch
<1>1. ASSUME EpochsInv PROVE OneKeyPerEpoch
  <2> SUFFICES ASSUME NEW b \in Batches
               PROVE  Cardinality({eon \in 1 .. MaxEons : HasKey(eon, b)}) <= 1
    BY DEF OneKeyPerEpoch
  <2> DEFINE eons == {eon \in 1 .. MaxEons : HasKey(eon, b)}
  <2>1. \A e, f \in eons : e = f
    BY <1>1, InvOneEon
  <2> HIDE DEF eons
  <2>2. CASE eons = {}
    BY <2>2, FS_EmptySet DEF eons
  <2>3. CASE eons # {}
    <3>1. PICK e \in eons : eons = {e}
      BY <2>1, <2>3
    <3>2. Cardinality(eons) = 1
      BY <3>1, FS_Singleton
    <3> QED
      BY <3>2 DEF eons
  <2> QED
    BY <2>2, <2>3
<1> QED
  BY <1>1, EpochsInvariant, PTL


-----------------------------------------------------------------------------
(* Results.  With a key of batch b there is one result it decrypts to; what*)
(* keypers that do not lag have computed, what they have signed, and what  *)
(* honest keypers execute is this.                                         *)

KeyExists(b) == \E eon \in 1 .. MaxEons : HasKey(eon, b)

Right(b, eon) == {j \in DOMAIN txs[b] : txs[b][j].eon = eon}

(* Of a batch that was overtaken any result will do: it may have got more  *)
(* transactions after it was decrypted.                                    *)
IsResult(b, D) ==
    \/ Overtaken(b)
    \/ \E eon \in 1 .. MaxEons : HasKey(eon, b) /\ D = Right(b, eon)

TransactionsInTime ==
    \A b \in Batches : \A i \in DOMAIN txs[b] :
       txs[b][i].block < BatchEndBlock(ConfigForBatchIndex(b), b)

IsSignature(m) == m.type = "DecryptionSignature"

OneSignature ==
    \A i, j \in DOMAIN log :
       /\ IsSignature(log[i]) /\ IsSignature(log[j])
       /\ log[i].BatchIndex = log[j].BatchIndex /\ log[i].Sender = log[j].Sender
       => i = j

SignaturesOf(k) ==
    {m \in Elements(log) \cup Elements(keypers[k].messages) : IsSignature(m) /\ m.Sender = k}

SignaturesOK(k) ==
    k \notin Lagging => \A m \in SignaturesOf(k) : IsResult(m.BatchIndex, m.Hash[2])

(* A copy of batch b that has as many transactions as the batch is right.  *)
CopyOK(b, batch) ==
    ~Overtaken(b) =>
       /\ batch.DecryptionSignatureHash[1] <= Len(txs[b])
       /\ batch.DecryptionSignatureHash[1] = Len(txs[b])
            => IsResult(b, batch.DecryptedTransactions)

(* The batch b of a keyper that has seen shuttermint up to some height: it *)
(* has counted every signature of its result up to the index.              *)
BatchOK(k, b, batch, height) ==
    batch.present =>
       /\ KeyExists(b)
       /\ batch.DecryptionSignatureHash[2] = batch.DecryptedTransactions
       /\ batch.DecryptionSignatureIndex <= height
       /\ batch.SignatureCount
            = Cardinality(Counted(batch, b, 0, batch.DecryptionSignatureIndex))
       /\ CopyOK(b, batch)
       /\ k \notin Lagging => IsResult(b, batch.DecryptedTransactions)

BatchesOK(k, kp) == \A b \in Batches : BatchOK(k, b, kp.Batches[b], kp.SyncHeight - 1)

TransactionOK(t) ==
    /\ t.type # "accuse" => t.halfStep <= 2 * MaxBatch + 1
    /\ t.type = "cipher" =>
         \E b \in Batches :
           /\ t.halfStep = 2 * b /\ KeyExists(b)
           /\ IsActive(ConfigForBatchIndex(b)) /\ t.result # {} => IsResult(b, t.result)

ResultsInv ==
    /\ TransactionsInTime /\ OneSignature
    /\ \A k \in Honest : SignaturesOK(k)
    /\ \A k \in Honest : BatchesOK(k, keypers[k])
    /\ \A k \in Honest : \A t \in Elements(keypers[k].mainChainTXs) : TransactionOK(t)
    /\ Len(halfSteps) <= 2 * MaxBatch + 2
    /\ ExecutedResultsRight

(* What stays: a batch whose key exists is complete.                       *)
Steady == \A b \in Batches : KeyExists(b) /\ ~Overtaken(b) => txs'[b] = txs[b]

LEMMA KeyExistsStays ==
    ASSUME log \in Seq(Event), Grows, NEW b, KeyExists(b)
    PROVE  KeyExists(b)'
<1>1. PICK eon \in 1 .. MaxEons : HasKey(eon, b)
  BY DEF KeyExists
<1>2. HasKey(eon, b)'
  BY <1>1, SharesStay
<1> QED
  BY <1>2 DEF KeyExists

LEMMA ResultStays ==
    ASSUME log \in Seq(Event), Grows, Steady, NEW b \in Batches, NEW D, IsResult(b, D)
    PROVE  IsResult(b, D)'
<1> SUFFICES ASSUME ~Overtaken(b) PROVE IsResult(b, D)'
  BY DEF IsResult
<1>1. PICK eon \in 1 .. MaxEons : HasKey(eon, b) /\ D = Right(b, eon)
  BY DEF IsResult
<1>2. HasKey(eon, b)'
  BY <1>1, SharesStay
<1>3. txs'[b] = txs[b]
  BY <1>1 DEF Steady, KeyExists
<1>4. Right(b, eon)' = Right(b, eon)
  BY <1>3 DEF Right
<1> QED
  BY <1>1, <1>2, <1>4 DEF IsResult

LEMMA CountedStays ==
    ASSUME log \in Seq(Event), Grows, NEW batch, NEW b, NEW from, NEW to \in Nat, to <= Len(log)
    PROVE  Counted(batch, b, from, to)' = Counted(batch, b, from, to)
<1>1. \A n \in 1 .. to : n \in DOMAIN log /\ log'[n] = log[n]
  BY LogGrows
<1> DEFINE old == {n \in 1 .. to : /\ log[n].type = "DecryptionSignature"
                                   /\ log[n].BatchIndex = b /\ n > from
                                   /\ IsKeyper(ConfigForBatchIndex(b), log[n].Sender)
                                   /\ VerifySignature(batch, log[n])}
           new == {n \in 1 .. to : /\ log'[n].type = "DecryptionSignature"
                                   /\ log'[n].BatchIndex = b /\ n > from
                                   /\ IsKeyper(ConfigForBatchIndex(b), log'[n].Sender)
                                   /\ VerifySignature(batch, log'[n])}
<1>2. Counted(batch, b, from, to) = old
  BY DEF Counted, DecryptionSignatures
<1>3. Counted(batch, b, from, to)' = new
  BY DEF Counted, DecryptionSignatures, VerifySignature
<1>4. old = new
  BY <1>1
<1> QED
  BY <1>2, <1>3, <1>4

LEMMA BatchStays ==
    ASSUME log \in Seq(Event), Grows, Steady, NEW k, NEW b \in Batches, NEW batch \in Batch,
           NEW height \in Nat, height <= Len(log), BatchOK(k, b, batch, height)
    PROVE  BatchOK(k, b, batch, height)'
<1> SUFFICES ASSUME batch.present PROVE BatchOK(k, b, batch, height)'
  BY DEF BatchOK
<1> DEFINE index == batch.DecryptionSignatureIndex
<1>1. batch \in BatchData /\ index \in Nat
  BY PresentBatch DEF BatchData
<1>2. /\ KeyExists(b) /\ batch.DecryptionSignatureHash[2] = batch.DecryptedTransactions
      /\ index <= height
      /\ batch.SignatureCount = Cardinality(Counted(batch, b, 0, index))
      /\ CopyOK(b, batch)
      /\ k \notin Lagging => IsResult(b, batch.DecryptedTransactions)
  BY DEF BatchOK
<1>3. Len(log) \in Nat
  BY LogGrows
<1> HIDE DEF index
<1>4. Counted(batch, b, 0, index)' = Counted(batch, b, 0, index)
  BY <1>1, <1>2, <1>3, CountedStays
<1>5. KeyExists(b)' /\ (k \notin Lagging => IsResult(b, batch.DecryptedTransactions)')
  BY <1>2, KeyExistsStays, ResultStays
<1>6. batch.SignatureCount = Cardinality(Counted(batch, b, 0, index)')
  BY <1>2, <1>4
<1>7. CopyOK(b, batch)'
  <2> SUFFICES ASSUME ~Overtaken(b) PROVE CopyOK(b, batch)'
    BY DEF CopyOK
  <2>1. txs'[b] = txs[b]
    BY <1>2 DEF Steady
  <2>2. PICK D : D = batch.DecryptedTransactions
    OBVIOUS
  <2>3. IsResult(b, D) => IsResult(b, D)'
    BY ResultStays
  <2> QED
    BY <1>2, <2>1, <2>2, <2>3 DEF CopyOK
<1> QED
  BY <1>2, <1>5, <1>6, <1>7 DEF BatchOK, index

LEMMA TransactionStays ==
    ASSUME log \in Seq(Event), Grows, Steady, NEW t, TransactionOK(t)
    PROVE  TransactionOK(t)'
<1>1. CASE t.type # "cipher"
  BY <1>1 DEF TransactionOK
<1>2. CASE t.type = "cipher"
  <2>1. PICK b \in Batches :
          /\ t.halfStep = 2 * b /\ KeyExists(b)
          /\ IsActive(ConfigForBatchIndex(b)) /\ t.result # {} => IsResult(b, t.result)
    BY <1>2 DEF TransactionOK
  <2>2. KeyExists(b)'
    BY <2>1, KeyExistsStays
  <2>3. IsActive(ConfigForBatchIndex(b)) /\ t.result # {} => IsResult(b, t.result)'
    BY <2>1, ResultStays
  <2> QED
    BY <1>2, <2>1, <2>2, <2>3 DEF TransactionOK
<1> QED
  BY <1>1, <1>2


LEMMA SteadyStep ==
    ASSUME EpochsInv, [Next]_vars
    PROVE  Steady
<1>1. CASE UNCHANGED txs
  BY <1>1 DEF Steady
<1>2. CASE \E c \in Batches, eon \in 1 .. MaxEons : AddTransaction(c, eon)
  <2>1. PICK c \in Batches, eon \in 1 .. MaxEons : AddTransaction(c, eon)
    BY <1>2
  <2>2. /\ txs \in [Batches -> Seq([block : Nat, eon : Nat])] /\ block \in Nat
    BY DEF EpochsInv, ChainOK
  <2>3. \A b \in Batches : b # c => txs'[b] = txs[b]
    BY <2>1, <2>2 DEF AddTransaction
  <2>4. block < BatchEndBlock(ConfigForBatchIndex(c), c)
    BY <2>1 DEF AddTransaction
  <2>5. ~KeyExists(c) \/ Overtaken(c)
    <3> SUFFICES ASSUME KeyExists(c), ~Overtaken(c) PROVE FALSE
      OBVIOUS
    <3>1. PICK e : HasKey(e, c)
      BY DEF KeyExists
    <3>2. /\ BatchEndBlock(ConfigForBatchIndex(c), c) < block
          /\ BatchEndBlock(ConfigForBatchIndex(c), c) \in Nat
      BY <3>1, InvClosed
    <3> QED
      BY <2>2, <2>4, <3>2
  <2> QED
    BY <2>3, <2>5 DEF Steady
<1>3. ASSUME NEW k \in Honest, Arrive(k) PROVE UNCHANGED txs
  BY <1>3 DEF Arrive, Deliver, chainVars, Mined, ExecuteCipherBatch, SkipCipherBatch,
              ExecutePlainBatch, Accuse, Revert
<1>4. ASSUME NEW k \in Honest, Decide(k) PROVE UNCHANGED txs
  BY <1>4 DEF Decide, DecideOnMainChain, DecideOnShielder, chainVars
<1>5. CASE NextBlock
  BY <1>1, <1>5 DEF NextBlock
<1>6. CASE \E b \in Batches : StartEon(b)
  BY <1>1, <1>6 DEF StartEon, chainVars
<1>7. CASE \/ (\E eon \in 1 .. MaxEons, failed \in SUBSET Slow : EndDKG(eon, failed))
           \/ (\E i \in DOMAIN BatchConfigs : AddBatchConfig(i))
  BY <1>1, <1>7 DEF EndDKG, AddBatchConfig, chainVars
<1>8. CASE \E message \in Misbehaviour : SendFaulty(message)
  BY <1>1, <1>8 DEF SendFaulty, chainVars
<1>9. CASE \E k \in Faulty, result \in FaultyResults : ExecuteFaulty(k, result)
  BY <1>1, <1>9 DEF ExecuteFaulty
<1>10. CASE UNCHANGED vars
  BY <1>1, <1>10 DEF vars
<1>11. Slow \subseteq Honest
  BY ConstantsAssumption
<1> QED
  BY <1>1, <1>2, <1>3, <1>4, <1>5, <1>6, <1>7, <1>8, <1>9, <1>10, <1>11 DEF Next

LEMMA OneSignatureStays ==
    ASSUME log \in Seq(Event), LogStep, OneSignature
    PROVE  OneSignature'
<1>1. CASE log' = log
  BY <1>1 DEF OneSignature, IsSignature
<1>2. CASE \E m \in Event : log' = Append(log, m) /\ Appended(m)
  <2>1. PICK m \in Event : log' = Append(log, m) /\ Appended(m)
    BY <1>2
  <2>2. /\ DOMAIN log' = 1 .. Len(log) + 1 /\ DOMAIN log = 1 .. Len(log) /\ Len(log) \in Nat
        /\ log'[Len(log) + 1] = m
        /\ \A i \in DOMAIN log : log'[i] = log[i]
    BY <2>1
  <2>3. \A i \in DOMAIN log :
          ~ /\ IsSignature(log[i]) /\ IsSignature(m)
            /\ log[i].BatchIndex = m.BatchIndex /\ log[i].Sender = m.Sender
    BY <2>1 DEF Appended, Accepted, IsSignature
  <2> SUFFICES ASSUME NEW i \in DOMAIN log', NEW j \in DOMAIN log',
                      IsSignature(log'[i]), IsSignature(log'[j]),
                      log'[i].BatchIndex = log'[j].BatchIndex,
                      log'[i].Sender = log'[j].Sender
               PROVE  i = j
    BY DEF OneSignature, IsSignature
  <2>4. CASE i \in DOMAIN log /\ j \in DOMAIN log
    BY <2>2, <2>4 DEF OneSignature
  <2>5. CASE i = Len(log) + 1 /\ j \in DOMAIN log
    BY <2>2, <2>3, <2>5
  <2>6. CASE j = Len(log) + 1 /\ i \in DOMAIN log
    BY <2>2, <2>3, <2>6
  <2>7. CASE i = Len(log) + 1 /\ j = Len(log) + 1
    BY <2>7
  <2> QED
    BY <2>2, <2>4, <2>5, <2>6, <2>7
<1> QED
  BY <1>1, <1>2 DEF LogStep

LEMMA SignaturesStay ==
    ASSUME log \in Seq(Event), LogStep, Steady, NEW k \in Honest, keypers[k] \in KeyperState,
           Sent(k), SignaturesOK(k)
    PROVE  SignaturesOK(k)'
<1> SUFFICES ASSUME k \notin Lagging PROVE SignaturesOK(k)'
  BY DEF SignaturesOK
<1>1. PICK messages \in Seq(Shares \cup Signatures), sent \in Seq(TXType) :
        /\ Elements(messages) \subseteq Elements(keypers[k].messages)
        /\ keypers'[k] = [keypers[k] EXCEPT !.messages = messages, !.mainChainTXs = sent]
  BY DEF Sent
<1>2. keypers'[k].messages = messages
  BY <1>1 DEF KeyperState
<1>3. Grows
  BY DEF LogStep, Grows
<1> DEFINE new == {m \in Elements(log') \cup Elements(messages) :
                     IsSignature(m) /\ m.Sender = k}
<1>4. SignaturesOf(k)' = new
  BY <1>2 DEF SignaturesOf, IsSignature, Elements
<1>5. ASSUME NEW m \in new PROVE m \in SignaturesOf(k)
  <2>1. CASE m \in Elements(messages)
    BY <1>1, <2>1 DEF SignaturesOf
  <2>2. CASE m \in Elements(log') /\ log' = log
    BY <2>2 DEF SignaturesOf
  <2>3. CASE m \in Elements(log') /\ \E e \in Event : log' = Append(log, e) /\ Appended(e)
    <3>1. PICK e \in Event : log' = Append(log, e) /\ Appended(e)
      BY <2>3
    <3>2. Elements(Append(log, e)) = Elements(log) \cup {e}
      BY ElementsOfAppend
    <3>3. m = e => m \in Elements(keypers[k].messages)
      BY <3>1 DEF Appended, IsMessageOf, IsSignature
    <3> QED
      BY <2>3, <3>1, <3>2, <3>3 DEF SignaturesOf
  <2> QED
    BY <2>1, <2>2, <2>3 DEF LogStep
<1>6. ASSUME NEW m \in new PROVE IsResult(m.BatchIndex, m.Hash[2])'
  <2>1. m \in SignaturesOf(k) /\ IsResult(m.BatchIndex, m.Hash[2])
    BY <1>5, <1>6 DEF SignaturesOK
  <2>2. m \in Signatures
    <3>1. keypers[k].messages \in Seq(Shares \cup Signatures)
      BY DEF KeyperState
    <3>2. m \in Event
      BY <2>1, <3>1 DEF SignaturesOf, Elements, Event
    <3> QED
      BY <2>1, <3>2 DEF SignaturesOf, IsSignature, Event, ConfigEvents, EonStarts,
         Finalizations, Shares
  <2>3. m.BatchIndex \in Batches
    BY <2>2 DEF Signatures
  <2> QED
    BY <1>3, <2>1, <2>3, ResultStays
<1> QED
  BY <1>4, <1>6 DEF SignaturesOK


LEMMA BatchesStay ==
    ASSUME log \in Seq(Event), Grows, Steady, NEW k, NEW kp, KeyperOK(kp), BatchesOK(k, kp)
    PROVE  BatchesOK(k, kp)'
<1> DEFINE height == kp.SyncHeight - 1
<1>1. height \in Nat /\ height <= Len(log) /\ \A b \in Batches : kp.Batches[b] \in Batch
  <2>1. Len(log) \in Nat
    BY LogGrows
  <2>2. kp.SyncHeight \in Nat \ {0} /\ kp.SyncHeight <= Len(log) + 1
    BY DEF KeyperOK, KeyperState
  <2> QED
    BY <2>1, <2>2 DEF KeyperOK, KeyperState
<1>2. \A b \in Batches : BatchOK(k, b, kp.Batches[b], height)
  BY DEF BatchesOK
<1> HIDE DEF height
<1>3. ASSUME NEW b \in Batches PROVE BatchOK(k, b, kp.Batches[b], height)'
  <2>1. PICK batch : batch = kp.Batches[b]
    OBVIOUS
  <2>2. batch \in Batch /\ BatchOK(k, b, batch, height)
    BY <1>1, <1>2, <2>1
  <2>3. BatchOK(k, b, batch, height)'
    BY <1>1, <2>2, BatchStays
  <2> QED
    BY <2>1, <2>3
<1> QED
  BY <1>3 DEF BatchesOK, height

(* When no keyper decides, what keypers have stays right.                  *)
LEMMA SentResults ==
    ASSUME EpochsInv, ResultsInv, NothingDecided, Steady
    PROVE  /\ OneSignature'
           /\ \A k \in Honest : SignaturesOK(k)'
           /\ \A k \in Honest : BatchesOK(k, keypers[k])'
           /\ \A k \in Honest : \A t \in Elements(keypers'[k].mainChainTXs) : TransactionOK(t)'
<1>1. log \in Seq(Event) /\ LogStep /\ Grows
  BY DEF EpochsInv, ChainOK, NothingDecided, LogStep, Grows
<1>2. OneSignature'
  BY <1>1, OneSignatureStays DEF ResultsInv
<1>3. ASSUME NEW k \in Honest
      PROVE  /\ SignaturesOK(k)' /\ BatchesOK(k, keypers[k])'
             /\ \A t \in Elements(keypers'[k].mainChainTXs) : TransactionOK(t)'
  <2>1. PICK kp : kp = keypers[k]
    OBVIOUS
  <2>2. /\ KeyperOK(kp) /\ kp \in KeyperState /\ Sent(k)
        /\ BatchesOK(k, kp) /\ SignaturesOK(k)
        /\ \A t \in Elements(kp.mainChainTXs) : TransactionOK(t)
    BY <2>1 DEF EpochsInv, ResultsInv, NothingDecided
  <2>3. SignaturesOK(k)'
    BY <1>1, <2>1, <2>2, SignaturesStay
  <2>4. PICK messages, sent :
          /\ Elements(sent) \subseteq Elements(kp.mainChainTXs)
          /\ keypers'[k] = [kp EXCEPT !.messages = messages, !.mainChainTXs = sent]
    BY <2>1, <2>2 DEF Sent
  <2> DEFINE new == [kp EXCEPT !.messages = messages, !.mainChainTXs = sent]
  <2>5. new.Batches = kp.Batches /\ new.SyncHeight = kp.SyncHeight /\ new.mainChainTXs = sent
    BY <2>2 DEF KeyperState
  <2> HIDE DEF new
  <2>6. keypers'[k] = new
    BY <2>4 DEF new
  <2>7. BatchesOK(k, kp)'
    BY <1>1, <2>2, BatchesStay
  <2>8. BatchesOK(k, new)'
    BY <2>5, <2>7 DEF BatchesOK
  <2>9. BatchesOK(k, keypers[k])'
    BY <2>6, <2>8 DEF BatchesOK
  <2>10. ASSUME NEW t \in Elements(sent) PROVE TransactionOK(t)'
    BY <1>1, <2>2, <2>4, TransactionStays
  <2> QED
    BY <2>3, <2>5, <2>6, <2>9, <2>10
<1> QED
  BY <1>2, <1>3


(* The chain: which transactions a batch has and what is executed.         *)
LEMMA InTimeStays ==
    ASSUME EpochsInv, TransactionsInTime, [Next]_vars
    PROVE  TransactionsInTime'
<1>1. CASE UNCHANGED txs
  BY <1>1 DEF TransactionsInTime
<1>2. CASE \E c \in Batches, eon \in 1 .. MaxEons : AddTransaction(c, eon)
  <2>1. PICK c \in Batches, eon \in 1 .. MaxEons : AddTransaction(c, eon)
    BY <1>2
  <2> DEFINE tx == [block |-> block, eon |-> eon]
  <2>2. /\ txs' = [txs EXCEPT ![c] = Append(txs[c], tx)]
        /\ block < BatchEndBlock(ConfigForBatchIndex(c), c)
    BY <2>1 DEF AddTransaction
  <2>3. tx \in [block : Nat, eon : Nat] /\ tx.block = block
    BY DEF EpochsInv, ChainOK
  <2>4. txs \in [Batches -> Seq([block : Nat, eon : Nat])]
    BY DEF EpochsInv, ChainOK
  <2> HIDE DEF tx
  <2> SUFFICES ASSUME NEW b \in Batches, NEW i \in DOMAIN txs'[b]
               PROVE  txs'[b][i].block < BatchEndBlock(ConfigForBatchIndex(b), b)
    BY DEF TransactionsInTime
  <2>5. CASE b # c
    BY <2>2, <2>4, <2>5 DEF TransactionsInTime
  <2>6. CASE b = c
    <3>1. txs'[b] = Append(txs[c], tx) /\ txs[c] \in Seq([block : Nat, eon : Nat])
      BY <2>2, <2>4, <2>6
    <3>2. (i \in DOMAIN txs[c] /\ txs'[b][i] = txs[c][i]) \/ txs'[b][i] = tx
      BY <2>3, <3>1
    <3> QED
      BY <2>2, <2>3, <2>6, <3>2 DEF TransactionsInTime
  <2> QED
    BY <2>5, <2>6
<1>3. ASSUME NEW k \in Honest, Arrive(k) PROVE UNCHANGED txs
  BY <1>3 DEF Arrive, Deliver, chainVars, Mined, ExecuteCipherBatch, SkipCipherBatch,
              ExecutePlainBatch, Accuse, Revert
<1>4. ASSUME NEW k \in Honest, Decide(k) PROVE UNCHANGED txs
  BY <1>4 DEF Decide, DecideOnMainChain, DecideOnShielder, chainVars
<1>5. CASE NextBlock
  BY <1>1, <1>5 DEF NextBlock
<1>6. CASE \E b \in Batches : StartEon(b)
  BY <1>1, <1>6 DEF StartEon, chainVars
<1>7. CASE \/ (\E eon \in 1 .. MaxEons, failed \in SUBSET Slow : EndDKG(eon, failed))
           \/ (\E i \in DOMAIN BatchConfigs : AddBatchConfig(i))
  BY <1>1, <1>7 DEF EndDKG, AddBatchConfig, chainVars
<1>8. CASE \E message \in Misbehaviour : SendFaulty(message)
  BY <1>1, <1>8 DEF SendFaulty, chainVars
<1>9. CASE \E k \in Faulty, result \in FaultyResults : ExecuteFaulty(k, result)
  BY <1>1, <1>9 DEF ExecuteFaulty
<1>10. CASE UNCHANGED vars
  BY <1>1, <1>10 DEF vars
<1>11. Slow \subseteq Honest
  BY ConstantsAssumption
<1> QED
  BY <1>1, <1>2, <1>3, <1>4, <1>5, <1>6, <1>7, <1>8, <1>9, <1>10, <1>11 DEF Next

ExecutedRight ==
    \A i \in DOMAIN halfSteps :
       halfSteps[i].kind = "cipher" /\ halfSteps[i].executor \subseteq Honest =>
          IsResult((i - 1) \div 2, halfSteps[i].result)

LEMMA ExecutedRightIs == ExecutedResultsRight <=> ExecutedRight
BY DEF ExecutedResultsRight, ExecutedRight, IsResult, Right

LEMMA HalfStepsUpTo ==
    ASSUME EpochsInv, Len(halfSteps) <= 2 * MaxBatch + 2
    PROVE  \A i \in DOMAIN halfSteps : (i - 1) \div 2 \in Batches
<1>1. DOMAIN halfSteps = 1 .. Len(halfSteps) /\ Len(halfSteps) \in Nat /\ MaxBatch \in Nat
  BY ConfigsAssumption DEF EpochsInv, ChainOK
<1> QED
  BY <1>1 DEF Batches

LEMMA ExecutedStays ==
    ASSUME EpochsInv, ResultsInv, Steady, Grows, UNCHANGED halfSteps
    PROVE  ExecutedResultsRight' /\ Len(halfSteps') <= 2 * MaxBatch + 2
<1>1. log \in Seq(Event)
  BY DEF EpochsInv, ChainOK
<1>2. \A i \in DOMAIN halfSteps : (i - 1) \div 2 \in Batches
  BY HalfStepsUpTo DEF ResultsInv
<1>3. ExecutedRight
  BY ExecutedRightIs DEF ResultsInv
<1>4. ASSUME NEW i \in DOMAIN halfSteps,
             halfSteps[i].kind = "cipher", halfSteps[i].executor \subseteq Honest
      PROVE  IsResult((i - 1) \div 2, halfSteps[i].result)'
  <2>1. PICK D : D = halfSteps[i].result /\ halfSteps'[i].result = D
    OBVIOUS
  <2>2. IsResult((i - 1) \div 2, D) /\ (i - 1) \div 2 \in Batches
    BY <1>2, <1>3, <1>4, <2>1 DEF ExecutedRight
  <2>3. IsResult((i - 1) \div 2, D)'
    BY <1>1, <2>2, ResultStays
  <2> QED
    BY <2>1, <2>3 DEF IsResult
<1>5. ExecutedRight'
  BY <1>4 DEF ExecutedRight
<1>6. ExecutedResultsRight'
  BY <1>5, ExecutedRightIs, PTL
<1> QED
  BY <1>6 DEF ResultsInv


LEMMA HalfStepAdded ==
    ASSUME EpochsInv, ResultsInv, Steady, Grows,
           NEW kind \in {"cipher", "skip", "plain"},
           NEW executor \in SUBSET Keypers, NEW result \in SUBSET Nat,
           HalfStepDone(kind, executor, result),
           Len(halfSteps) <= 2 * MaxBatch + 1,
           kind = "cipher" /\ executor \subseteq Honest =>
             IsResult(Len(halfSteps) \div 2, result)
    PROVE  ExecutedResultsRight' /\ Len(halfSteps') <= 2 * MaxBatch + 2
<1> DEFINE step == [kind |-> kind, block |-> block, executor |-> executor, result |-> result]
           last == Len(halfSteps) + 1
<1>1. /\ halfSteps' = Append(halfSteps, step) /\ step \in HalfStep
      /\ step.kind = kind /\ step.executor = executor /\ step.result = result
  BY DEF HalfStepDone, HalfStep, EpochsInv, ChainOK
<1> HIDE DEF step
<1>2. /\ log \in Seq(Event) /\ halfSteps \in Seq(HalfStep) /\ MaxBatch \in Nat
      /\ Len(halfSteps) \in Nat /\ DOMAIN halfSteps = 1 .. Len(halfSteps)
  BY ConfigsAssumption DEF EpochsInv, ChainOK
<1>3. /\ DOMAIN halfSteps' = 1 .. last /\ Len(halfSteps') = last /\ halfSteps'[last] = step
      /\ \A i \in DOMAIN halfSteps : halfSteps'[i] = halfSteps[i]
  BY <1>1, <1>2
<1>4. Len(halfSteps') <= 2 * MaxBatch + 2
  BY <1>2, <1>3
<1>5. ExecutedRight
  BY ExecutedRightIs DEF ResultsInv
<1>6. ASSUME NEW i \in DOMAIN halfSteps',
             halfSteps'[i].kind = "cipher", halfSteps'[i].executor \subseteq Honest
      PROVE  IsResult((i - 1) \div 2, halfSteps[i].result)'
  <2>1. PICK D : D = halfSteps'[i].result
    OBVIOUS
  <2>2. (i - 1) \div 2 \in Batches
    BY <1>2, <1>3, <1>4 DEF Batches
  <2>3. IsResult((i - 1) \div 2, D)
    <3>1. CASE i \in DOMAIN halfSteps
      <4>1. halfSteps'[i] = halfSteps[i]
        BY <1>3, <3>1
      <4> QED
        BY <3>1, <4>1, <1>5, <1>6, <2>1 DEF ExecutedRight
    <3>2. CASE i = last
      <4>1. i - 1 = Len(halfSteps) /\ halfSteps'[i] = step
        BY <1>2, <1>3, <3>2
      <4> QED
        BY <4>1, <1>1, <1>6, <2>1
    <3> QED
      BY <1>2, <1>3, <3>1, <3>2
  <2>4. IsResult((i - 1) \div 2, D)'
    BY <1>2, <2>2, <2>3, ResultStays
  <2> QED
    BY <2>1, <2>4 DEF IsResult
<1>7. ExecutedRight'
  BY <1>6 DEF ExecutedRight
<1>8. ExecutedResultsRight'
  BY <1>7, ExecutedRightIs, PTL
<1> QED
  BY <1>4, <1>8

LEMMA ExecutedResults ==
    ASSUME EpochsInv, ResultsInv, Steady, NEW k \in Honest,
           \/ ExecuteCipherBatch(k) \/ SkipCipherBatch(k) \/ ExecutePlainBatch(k)
    PROVE  ExecutedResultsRight' /\ Len(halfSteps') <= 2 * MaxBatch + 2
<1> DEFINE t == NextTX(k)
<1>1. Mined(k) /\ Grows
  BY DEF ExecuteCipherBatch, SkipCipherBatch, ExecutePlainBatch, Mined, Grows
<1>2. /\ keypers[k].mainChainTXs \in Seq(TXType) /\ keypers[k].mainChainTXs # <<>>
  BY <1>1 DEF Mined, EpochsInv, KeyperState
<1>3. t \in Elements(keypers[k].mainChainTXs) /\ t \in TXType
      /\ (t.type = "cipher" => t.result \in SUBSET Nat)
  BY <1>2, ElementsOfTail, NextTXType DEF NextTX
<1>4. TransactionOK(t)
  BY <1>3 DEF ResultsInv
<1>5. Len(halfSteps) \in Nat /\ MaxBatch \in Nat /\ {k} \in SUBSET Keypers /\ {} \in SUBSET Nat
      /\ {} \in SUBSET Keypers
  BY ConfigsAssumption, ConstantsAssumption DEF EpochsInv, ChainOK
<1>6. /\ t.halfStep = Len(halfSteps) /\ t.type \in {"cipher", "skip", "plain"}
  BY DEF ExecuteCipherBatch, SkipCipherBatch, ExecutePlainBatch, Executes, Skips,
         ExecutesPlain, Turn
<1>7. Len(halfSteps) <= 2 * MaxBatch + 1
  BY <1>4, <1>6 DEF TransactionOK
<1>8. CASE SkipCipherBatch(k)
  <2>1. HalfStepDone("skip", {}, {})
    BY <1>8 DEF SkipCipherBatch
  <2> QED
    BY <2>1, <1>1, <1>5, <1>7, HalfStepAdded
<1>9. CASE ExecutePlainBatch(k)
  <2>1. HalfStepDone("plain", {}, {})
    BY <1>9 DEF ExecutePlainBatch
  <2> QED
    BY <2>1, <1>1, <1>5, <1>7, HalfStepAdded
<1>10. CASE ExecuteCipherBatch(k)
  <2>1. /\ HalfStepDone("cipher", {k}, t.result) /\ t.type = "cipher"
        /\ IsActive(CurrentConfig)
        /\ t.hash = Len(txs[CurrentBatch]) /\ (t.hash = 0 <=> t.result = {})
    BY <1>10 DEF ExecuteCipherBatch, Executes, Turn, MayBeExecuted
  <2>2. PICK b \in Batches :
          /\ t.halfStep = 2 * b /\ KeyExists(b)
          /\ IsActive(ConfigForBatchIndex(b)) /\ t.result # {} => IsResult(b, t.result)
    BY <1>4, <2>1 DEF TransactionOK
  <2>3. Len(halfSteps) \div 2 = b
    BY <1>6, <2>2 DEF Batches
  <2>4. IsActive(ConfigForBatchIndex(b)) /\ t.hash = Len(txs[b])
    BY <2>1, <2>3 DEF CurrentConfig, CurrentBatch
  <2> HIDE DEF t
  <2>5. IsResult(b, t.result)
    <3>1. CASE t.result # {}
      BY <2>2, <2>4, <3>1
    <3>2. CASE t.result = {}
      <4>1. Len(txs[b]) = 0 /\ txs[b] \in Seq([block : Nat, eon : Nat])
        BY <2>1, <2>4, <3>2 DEF EpochsInv, ChainOK
      <4>2. DOMAIN txs[b] = {}
        BY <4>1
      <4>3. \A eon : Right(b, eon) = {}
        BY <4>2 DEF Right
      <4> QED
        BY <3>2, <4>3, <2>2 DEF KeyExists, IsResult
    <3> QED
      BY <3>1, <3>2
  <2>6. t.result \in SUBSET Nat
    BY <1>3, <2>1
  <2> QED
    BY <2>1, <2>3, <2>5, <2>6, <1>1, <1>5, <1>7, HalfStepAdded
<1> QED
  BY <1>8, <1>9, <1>10

LEMMA ExecuteFaultyResults ==
    ASSUME EpochsInv, ResultsInv, Steady, NEW k \in Faulty, NEW result \in FaultyResults,
           ExecuteFaulty(k, result)
    PROVE  ExecutedResultsRight' /\ Len(halfSteps') <= 2 * MaxBatch + 2
<1>1. {k} \in SUBSET Keypers /\ result \in SUBSET Nat /\ ~({k} \subseteq Honest)
  BY ConstantsAssumption DEF Faulty
<1>2. Len(halfSteps) \in Nat /\ MaxBatch \in Nat
  BY ConfigsAssumption DEF EpochsInv, ChainOK
<1>3. Len(halfSteps) <= 2 * MaxBatch + 1
  <2>1. Len(halfSteps) \div 2 <= MaxBatch
    BY DEF ExecuteFaulty, CurrentBatch, Batches
  <2> QED
    BY <1>2, <2>1
<1>4. HalfStepDone("cipher", {k}, result) /\ Grows
  BY DEF ExecuteFaulty, Grows
<1> QED
  BY <1>1, <1>3, <1>4, HalfStepAdded

LEMMA ChainResults ==
    ASSUME EpochsInv, ResultsInv, Steady, [Next]_vars
    PROVE  ExecutedResultsRight' /\ Len(halfSteps') <= 2 * MaxBatch + 2
<1>1. log \in Seq(Event)
  BY DEF EpochsInv, ChainOK
<1>2. Grows
  <2>1. CASE NothingDecided
    BY <2>1 DEF NothingDecided, LogStep, Grows
  <2>2. CASE \E k \in Honest : \E kp, new, height : Decides(k, kp, new, height)
    BY <2>2 DEF Decides, Grows
  <2> QED
    BY <2>1, <2>2, Steps
<1>3. CASE UNCHANGED halfSteps
  BY <1>2, <1>3, ExecutedStays
<1>4. ASSUME NEW k \in Honest, Arrive(k)
      PROVE  ExecutedResultsRight' /\ Len(halfSteps') <= 2 * MaxBatch + 2
  <2>1. CASE Deliver(k) \/ Accuse(k) \/ Revert(k)
    BY <1>3, <2>1 DEF Deliver, chainVars, Accuse, Revert
  <2> QED
    BY <1>4, <2>1, ExecutedResults DEF Arrive
<1>5. ASSUME NEW k \in Honest, Decide(k) PROVE UNCHANGED halfSteps
  BY <1>5 DEF Decide, DecideOnMainChain, DecideOnShielder, chainVars
<1>6. CASE \E k \in Faulty, result \in FaultyResults : ExecuteFaulty(k, result)
  BY <1>6, ExecuteFaultyResults
<1>7. CASE NextBlock \/ (\E c \in Batches, eon \in 1 .. MaxEons : AddTransaction(c, eon))
  BY <1>3, <1>7 DEF NextBlock, AddTransaction
<1>8. CASE \/ (\E b \in Batches : StartEon(b))
           \/ (\E eon \in 1 .. MaxEons, failed \in SUBSET Slow : EndDKG(eon, failed))
           \/ (\E i \in DOMAIN BatchConfigs : AddBatchConfig(i))
           \/ (\E message \in Misbehaviour : SendFaulty(message))
  BY <1>3, <1>8 DEF StartEon, EndDKG, AddBatchConfig, SendFaulty, chainVars
<1>9. CASE UNCHANGED vars
  BY <1>3, <1>9 DEF vars
<1>10. Slow \subseteq Honest
  BY ConstantsAssumption
<1> QED
  BY <1>3, <1>4, <1>5, <1>6, <1>7, <1>8, <1>9, <1>10 DEF Next

-----------------------------------------------------------------------------
(* What a keyper decides.  One that does not lag sees every transaction of *)
(* a batch when there is a key.                                            *)
LEMMA SeesAll ==
    ASSUME EpochsInv, TransactionsInTime, NEW b \in Batches, ~Overtaken(b),
           NEW eon \in 1 .. MaxEons, HasKey(eon, b), NEW main \in Nat, main + 2 >= block
    PROVE  DecryptTransactions(b, main, eon) = Right(b, eon)
<1>1. PICK end : end = BatchEndBlock(ConfigForBatchIndex(b), b)
  OBVIOUS
<1>2. end < block /\ end \in Nat /\ block \in Nat
  BY <1>1, InvClosed DEF EpochsInv, ChainOK
<1>3. txs[b] \in Seq([block : Nat, eon : Nat])
  BY DEF EpochsInv, ChainOK
<1>4. \A i \in DOMAIN txs[b] : txs[b][i].block \in Nat /\ txs[b][i].block < end
  <2>1. \A i \in DOMAIN txs[b] : txs[b][i] \in [block : Nat, eon : Nat]
    <3>1. PICK T : T = [block : Nat, eon : Nat]
      OBVIOUS
    <3>2. PICK s \in Seq(T) : s = txs[b]
      BY <1>3, <3>1
    <3>3. \A i \in DOMAIN s : s[i] \in T
      BY <3>2
    <3> QED
      BY <3>1, <3>2, <3>3
  <2>2. \A i \in DOMAIN txs[b] : txs[b][i].block < end
    BY <1>1 DEF TransactionsInTime
  <2> QED
    BY <2>1, <2>2
<1>5. \A i \in DOMAIN txs[b] : txs[b][i].block <= main
  BY <1>2, <1>4
<1> QED
  BY <1>5 DEF DecryptTransactions, EncryptedTransactions, Right

LEMMA CopySize ==
    ASSUME NEW b, NEW main, NEW T, txs[b] \in Seq(T)
    PROVE  /\ EncryptedBatchHash(b, main) \in Nat
           /\ EncryptedBatchHash(b, main) <= Len(txs[b])
           /\ EncryptedBatchHash(b, main) = Len(txs[b]) =>
                \A eon : DecryptTransactions(b, main, eon) = Right(b, eon)
<1> DEFINE seen == EncryptedTransactions(b, main)
           all == 1 .. Len(txs[b])
<1>1. DOMAIN txs[b] = all /\ Len(txs[b]) \in Nat /\ seen \subseteq all
  BY DEF EncryptedTransactions
<1>2. IsFiniteSet(all) /\ Cardinality(all) = Len(txs[b])
  BY <1>1, FS_Interval
<1> HIDE DEF seen, all
<1>3. /\ IsFiniteSet(seen) /\ Cardinality(seen) <= Cardinality(all)
      /\ Cardinality(all) = Cardinality(seen) => all = seen
  BY <1>1, <1>2, FS_Subset
<1>4. Cardinality(seen) \in Nat /\ EncryptedBatchHash(b, main) = Cardinality(seen)
  BY <1>3, FS_CardinalityType DEF EncryptedBatchHash, seen
<1>5. ASSUME all = seen, NEW eon
      PROVE  DecryptTransactions(b, main, eon) = Right(b, eon)
  BY <1>1, <1>5 DEF DecryptTransactions, Right, seen
<1> QED
  BY <1>2, <1>3, <1>4, <1>5

LEMMA DecryptedBatchOK ==
    ASSUME EpochsInv, TransactionsInTime,
           NEW k, NEW kp, KeyperOK(kp), k \notin Lagging => kp.main + 2 >= block,
           NEW b \in Batches, NEW eon \in 1 .. MaxEons, HasKey(eon, b), NEW height \in Nat
    PROVE  Decrypted(kp, b, eon) \in Batch /\ BatchOK(k, b, Decrypted(kp, b, eon), height)
<1>1. PICK batch : batch = Decrypted(kp, b, eon)
  OBVIOUS
<1>2. ChainOK
  BY DEF EpochsInv
<1>3. /\ batch \in BatchData
      /\ batch.DecryptedTransactions = DecryptTransactions(b, kp.main, eon)
      /\ batch.DecryptionSignatureHash
           = <<EncryptedBatchHash(b, kp.main), DecryptTransactions(b, kp.main, eon)>>
      /\ batch.DecryptionSignatureIndex = 0 /\ batch.SignatureCount = 0
  BY <1>1, <1>2, DecryptedBatchIs DEF Decrypted
<1>4. Counted(batch, b, 0, 0) = {}
  BY DEF Counted, DecryptionSignatures
<1>5. Cardinality(Counted(batch, b, 0, 0)) = 0
  BY <1>4, FS_EmptySet
<1>6. KeyExists(b)
  BY DEF KeyExists
<1>7. ASSUME k \notin Lagging PROVE IsResult(b, batch.DecryptedTransactions)
  <2> SUFFICES ASSUME ~Overtaken(b) PROVE IsResult(b, batch.DecryptedTransactions)
    BY DEF IsResult
  <2>1. kp.main \in Nat
    BY DEF KeyperOK, KeyperState
  <2>2. DecryptTransactions(b, kp.main, eon) = Right(b, eon)
    BY <1>7, <2>1, SeesAll
  <2> QED
    BY <1>3, <2>2 DEF IsResult
<1>8. batch.DecryptionSignatureHash[2] = batch.DecryptedTransactions
  BY <1>3
<1>9. batch \in Batch
  BY <1>3 DEF Batch, BatchData
<1>10. CopyOK(b, batch)
  <2>1. txs[b] \in Seq([block : Nat, eon : Nat])
    BY <1>2 DEF ChainOK
  <2>2. PICK T : T = [block : Nat, eon : Nat]
    OBVIOUS
  <2>3. PICK hash : hash = EncryptedBatchHash(b, kp.main)
    OBVIOUS
  <2>4. /\ hash <= Len(txs[b])
        /\ hash = Len(txs[b]) => DecryptTransactions(b, kp.main, eon) = Right(b, eon)
    BY <2>1, <2>2, <2>3, CopySize
  <2>5. batch.DecryptionSignatureHash[1] = hash
    BY <1>3, <2>3
  <2> QED
    BY <1>3, <2>4, <2>5 DEF CopyOK, IsResult
<1> QED
  BY <1>1, <1>3, <1>5, <1>6, <1>7, <1>8, <1>9, <1>10 DEF BatchOK

(* Counting goes on where it stopped.                                      *)
LEMMA CountedUpTo ==
    ASSUME NEW batch, NEW b, NEW index \in Nat, NEW to \in Nat, index <= to
    PROVE  Cardinality(Counted(batch, b, 0, to))
             = Cardinality(Counted(batch, b, 0, index)) + Cardinality(Counted(batch, b, index, to))
<1> DEFINE S == Counted(batch, b, 0, index)
           T == Counted(batch, b, index, to)
<1>1. Counted(batch, b, 0, to) = S \cup T
  BY DEF Counted, DecryptionSignatures
<1>2. S \cap T = {}
  BY DEF Counted, DecryptionSignatures
<1>3. /\ IsFiniteSet(S) /\ IsFiniteSet(T)
      /\ Cardinality(S) \in Nat /\ Cardinality(T) \in Nat
  BY CountedFinite
<1> HIDE DEF S, T
<1>4. Cardinality(S \cup T) = Cardinality(S) + Cardinality(T) - Cardinality(S \cap T)
  BY <1>3, FS_Union
<1>5. Cardinality(S \cap T) = 0
  BY <1>2, FS_EmptySet
<1>6. Cardinality(S \cup T) = Cardinality(S) + Cardinality(T)
  BY <1>3, <1>4, <1>5
<1> QED
  BY <1>1, <1>6 DEF S, T

LEMMA SyncedBatchOK ==
    ASSUME NEW k, NEW b \in Batches, NEW batch \in Batch, NEW height \in Nat,
           BatchOK(k, b, batch, height)
    PROVE  BatchOK(k, b, syncBatch(batch, b, height), height)
<1>1. CASE syncBatch(batch, b, height) = batch
  BY <1>1
<1>2. CASE batch \in BatchData /\ batch.DecryptedTransactions # {}
  <2>1. PICK index : index = batch.DecryptionSignatureIndex
    OBVIOUS
  <2>2. PICK new : new = syncBatch(batch, b, height)
    OBVIOUS
  <2> DEFINE count == batch.SignatureCount + Cardinality(Counted(batch, b, index, height))
  <2>3. new = [present |-> TRUE,
               DecryptedTransactions |-> batch.DecryptedTransactions,
               DecryptionSignatureHash |-> batch.DecryptionSignatureHash,
               DecryptionSignatureIndex |-> height,
               SignatureCount |-> count]
    BY <1>2, <2>1, <2>2, syncBatchIs
  <2> HIDE DEF count
  <2>4. /\ new.DecryptedTransactions = batch.DecryptedTransactions
        /\ new.DecryptionSignatureHash = batch.DecryptionSignatureHash
        /\ new.DecryptionSignatureIndex = height
        /\ new.SignatureCount = count
    BY <2>3
  <2>5. batch.present = TRUE /\ index \in Nat
    BY <1>2, <2>1 DEF BatchData
  <2>6. /\ KeyExists(b) /\ batch.DecryptionSignatureHash[2] = batch.DecryptedTransactions
        /\ index <= height
        /\ batch.SignatureCount = Cardinality(Counted(batch, b, 0, index))
        /\ CopyOK(b, batch)
        /\ k \notin Lagging => IsResult(b, batch.DecryptedTransactions)
    BY <2>1, <2>5 DEF BatchOK
  <2>7. Counted(new, b, 0, height) = Counted(batch, b, 0, height)
    BY <2>4 DEF Counted, VerifySignature
  <2>8. count = Cardinality(Counted(new, b, 0, height))
    BY <2>5, <2>6, <2>7, CountedUpTo DEF count
  <2>9. CopyOK(b, new)
    BY <2>4, <2>6 DEF CopyOK
  <2>10. BatchOK(k, b, new, height)
    BY <2>4, <2>6, <2>8, <2>9 DEF BatchOK
  <2> QED
    BY <2>2, <2>10
<1> QED
  BY <1>1, <1>2, syncBatchIs

LEMMA NewBatchOK ==
    ASSUME EpochsInv, TransactionsInTime,
           NEW k, NEW kp, KeyperOK(kp), k \notin Lagging => kp.main + 2 >= block,
           NEW height \in Nat, kp.SyncHeight <= height + 1,
           NEW b \in Batches, BatchOK(k, b, kp.Batches[b], kp.SyncHeight - 1),
           NEW batch, NewBatch(kp, b, batch, height)
    PROVE  BatchOK(k, b, batch, height)
<1>1. PICK old :
        /\ \/ old = kp.Batches[b]
           \/ \E eon \in 1 .. MaxEons :
                /\ HasKey(eon, b)
                /\ old \in {Decrypted(kp, b, eon),
                            syncBatch(Decrypted(kp, b, eon), b, height)}
        /\ batch = syncBatch(old, b, height)
  BY DEF NewBatch
<1>2. CASE old = kp.Batches[b]
  <2>1. old \in Batch /\ kp.SyncHeight \in Nat \ {0}
    BY <1>2 DEF KeyperOK, KeyperState
  <2>2. BatchOK(k, b, old, height)
    <3>1. BatchOK(k, b, old, kp.SyncHeight - 1)
      BY <1>2
    <3>2. old.present => old.DecryptionSignatureIndex \in Nat
      BY <2>1, PresentBatch DEF BatchData
    <3> QED
      BY <2>1, <3>1, <3>2 DEF BatchOK
  <2> QED
    BY <1>1, <2>1, <2>2, SyncedBatchOK
<1>3. ASSUME NEW eon \in 1 .. MaxEons, HasKey(eon, b), old = Decrypted(kp, b, eon)
      PROVE  BatchOK(k, b, batch, height)
  BY <1>1, <1>3, DecryptedBatchOK, SyncedBatchOK
<1>4. ASSUME NEW eon \in 1 .. MaxEons, HasKey(eon, b),
             old = syncBatch(Decrypted(kp, b, eon), b, height)
      PROVE  BatchOK(k, b, batch, height)
  <2>1. PICK first : first = Decrypted(kp, b, eon)
    OBVIOUS
  <2>2. first \in Batch /\ BatchOK(k, b, first, height)
    BY <1>4, <2>1, DecryptedBatchOK
  <2>3. old \in Batch /\ BatchOK(k, b, old, height)
    BY <1>4, <2>1, <2>2, SyncedBatchOK, syncBatchIs
  <2> QED
    BY <1>1, <2>3, SyncedBatchOK
<1> QED
  BY <1>1, <1>2, <1>3, <1>4

(* A threshold of signatures for a batch has one in it of an honest keyper *)
(* that does not lag, so they are for the right result.                    *)
LEMMA EnoughSignatures ==
    ASSUME EpochsInv, OneSignature, \A j \in Honest : SignaturesOK(j),
           NEW k, NEW b \in Batches, NEW batch \in Batch,
           NEW height \in Nat, height <= Len(log), BatchOK(k, b, batch, height),
           batch.present, ~SignaturesMissing(batch, b), IsActive(ConfigForBatchIndex(b))
    PROVE  IsResult(b, batch.DecryptedTransactions)
<1>1. PICK index : index = batch.DecryptionSignatureIndex
  OBVIOUS
<1>2. index \in Nat /\ batch.SignatureCount \in Nat
  BY <1>1, PresentBatch DEF BatchData
<1>3. PICK C : C = Counted(batch, b, 0, index)
  OBVIOUS
<1>4. /\ batch.DecryptionSignatureHash[2] = batch.DecryptedTransactions
      /\ index <= height /\ batch.SignatureCount = Cardinality(C)
  BY <1>1, <1>3 DEF BatchOK
<1>5. Cardinality(C) >= Threshold
  <2>1. PICK c : c = ConfigForBatchIndex(b)
    OBVIOUS
  <2>2. PICK i \in DOMAIN BatchConfigs : c = BatchConfigs[i]
    BY <2>1, ConfigForBatchIndexIs, ConfigTypes DEF Batches
  <2>3. c.Threshold >= Threshold /\ c.Threshold \in Nat /\ Threshold \in Nat
    BY <2>1, <2>2, FewFaulty, ConfigTypes, ConstantsAssumption DEF ConfigType
  <2>4. ~(Cardinality(C) < c.Threshold)
    BY <1>4, <2>1 DEF SignaturesMissing
  <2> QED
    BY <1>2, <1>4, <2>3, <2>4
<1>6. Len(log) \in Nat /\ DOMAIN log = 1 .. Len(log) /\ log \in Seq(Event)
  BY DEF EpochsInv, ChainOK
<1>7. \A n \in C : /\ n \in DOMAIN log /\ IsSignature(log[n]) /\ log[n].BatchIndex = b
                   /\ log[n].Hash = batch.DecryptionSignatureHash
  BY <1>2, <1>3, <1>4, <1>6 DEF Counted, DecryptionSignatures, VerifySignature, IsSignature
<1>8. \A n \in C : log[n].Sender \in Keypers
  <2>1. \A n \in C : log[n] \in Event
    BY <1>6, <1>7
  <2>2. \A m \in Event : IsSignature(m) => m \in Signatures
    BY DEF IsSignature, Event, ConfigEvents, EonStarts, Finalizations, Shares
  <2> QED
    BY <1>7, <2>1, <2>2 DEF Signatures
<1> DEFINE f == [n \in C |-> log[n].Sender]
           S == {log[n].Sender : n \in C}
<1>9. S \subseteq Keypers
  BY <1>8
<1>10. f \in [C -> S]
  OBVIOUS
<1>11. \A m, n \in C : f[m] = f[n] => m = n
  BY <1>7 DEF OneSignature
<1> HIDE DEF f
<1>12. f \in Injection(C, S)
  BY <1>10, <1>11 DEF Injection, IsInjective
<1> HIDE DEF S
<1>13. IsFiniteSet(S) /\ Cardinality(S) \in Nat
  BY <1>9, FewFaulty, FS_Subset, FS_CardinalityType
<1>14. Cardinality(C) <= Cardinality(S)
  BY <1>12, <1>13, FS_Injection
<1>15. Cardinality(S) >= Threshold
  BY <1>2, <1>4, <1>5, <1>13, <1>14, ConstantsAssumption
<1>16. PICK n \in C : log[n].Sender \in Honest /\ log[n].Sender \notin Lagging
  BY <1>9, <1>15, HonestSender DEF S
<1>17. log[n] \in SignaturesOf(log[n].Sender)
  BY <1>7 DEF SignaturesOf, Elements
<1>18. IsResult(log[n].BatchIndex, log[n].Hash[2])
  BY <1>16, <1>17 DEF SignaturesOK
<1> QED
  BY <1>4, <1>7, <1>18

LEMMA DecidedBatches ==
    ASSUME EpochsInv, ResultsInv, NEW k \in Honest,
           NEW kp, NEW new, NEW height, Decides(k, kp, new, height)
    PROVE  \A b \in Batches : new.Batches[b] \in Batch /\ BatchOK(k, b, new.Batches[b], height)
<1>1. /\ KeyperOK(kp) /\ kp = [keypers[k] EXCEPT !.main = kp.main]
      /\ height \in Nat /\ kp.SyncHeight <= height + 1
      /\ k \notin Lagging => kp.main + 2 >= block
      /\ IsDecided(kp, new, k, height)
  BY DEF Decides
<1>2. keypers[k] \in KeyperState
  BY DEF EpochsInv
<1>3. kp.Batches = keypers[k].Batches /\ kp.SyncHeight = keypers[k].SyncHeight
  BY <1>1, <1>2 DEF KeyperState
<1>4. BatchesOK(k, kp) /\ TransactionsInTime
  BY <1>3 DEF ResultsInv, BatchesOK
<1>5. ASSUME NEW b \in Batches PROVE BatchOK(k, b, new.Batches[b], height)
  <2>1. PICK batch : batch = new.Batches[b]
    OBVIOUS
  <2>2. NewBatch(kp, b, batch, height)
    BY <1>1, <2>1 DEF IsDecided
  <2>3. BatchOK(k, b, kp.Batches[b], kp.SyncHeight - 1)
    BY <1>4 DEF BatchesOK
  <2>4. BatchOK(k, b, batch, height)
    BY <1>1, <1>4, <2>2, <2>3, NewBatchOK
  <2> QED
    BY <2>1, <2>4
<1>6. new \in KeyperState
  BY <1>1 DEF IsDecided
<1> QED
  BY <1>5, <1>6 DEF KeyperState

LEMMA DecidedMessages ==
    ASSUME EpochsInv, ResultsInv, NEW k \in Honest, k \notin Lagging,
           NEW kp, NEW new, NEW height, Decides(k, kp, new, height),
           NEW m \in Elements(new.messages), IsSignature(m), m.Sender = k
    PROVE  IsResult(m.BatchIndex, m.Hash[2])
<1>1. /\ KeyperOK(kp) /\ kp = [keypers[k] EXCEPT !.main = kp.main]
      /\ kp.main + 2 >= block /\ IsDecided(kp, new, k, height)
  BY DEF Decides
<1>2. kp.messages = keypers[k].messages /\ kp.main \in Nat /\ ChainOK
  <2>1. keypers[k] \in KeyperState
    BY DEF EpochsInv
  <2> QED
    BY <1>1, <2>1 DEF EpochsInv, KeyperOK, KeyperState
<1>3. m \in Elements(kp.messages) \/ NewMessage(kp, new.NextEpochSecretShare, k, m, height)
  BY <1>1 DEF IsDecided
<1>4. CASE m \in Elements(kp.messages)
  <2>1. m \in SignaturesOf(k)
    BY <1>2, <1>4 DEF SignaturesOf
  <2> QED
    BY <2>1 DEF ResultsInv, SignaturesOK
<1>5. ASSUME NEW b \in Batches, NEW eon \in 1 .. MaxEons, HasKey(eon, b),
             m = SignatureFor(kp, k, b, eon)
      PROVE  IsResult(m.BatchIndex, m.Hash[2])
  <2>1. /\ m.BatchIndex = b
        /\ m.Hash = Decrypted(kp, b, eon).DecryptionSignatureHash
    BY <1>5 DEF SignatureFor, DecryptionSignature
  <2>2. m.Hash[2] = DecryptTransactions(b, kp.main, eon)
    BY <1>2, <2>1, DecryptedBatchIs DEF Decrypted
  <2> SUFFICES ASSUME ~Overtaken(b) PROVE IsResult(b, m.Hash[2])
    BY <2>1 DEF IsResult
  <2>3. DecryptTransactions(b, kp.main, eon) = Right(b, eon)
    BY <1>1, <1>2, <1>5, SeesAll DEF ResultsInv
  <2> QED
    BY <1>5, <2>1, <2>2, <2>3 DEF IsResult
<1>6. ASSUME NEW b, NEW e, m = EpochSecretKeyShare(e, b, k, TRUE) PROVE FALSE
  BY <1>6 DEF IsSignature, EpochSecretKeyShare
<1> QED
  BY <1>3, <1>4, <1>5, <1>6 DEF NewMessage

LEMMA DecidedTransactions ==
    ASSUME EpochsInv, ResultsInv, NEW k \in Honest,
           NEW kp, NEW new, NEW height, Decides(k, kp, new, height),
           NEW t \in Elements(new.mainChainTXs)
    PROVE  TransactionOK(t)
<1>1. /\ kp = [keypers[k] EXCEPT !.main = kp.main] /\ height \in Nat /\ height <= Len(log)
      /\ IsDecided(kp, new, k, height)
  BY DEF Decides
<1>2. kp.mainChainTXs = keypers[k].mainChainTXs
  <2>1. keypers[k] \in KeyperState
    BY DEF EpochsInv
  <2> QED
    BY <1>1, <2>1 DEF KeyperState
<1>3. t \in Elements(kp.mainChainTXs) \/ NewTX(kp, new, t)
  BY <1>1 DEF IsDecided
<1>4. CASE t \in Elements(kp.mainChainTXs)
  BY <1>2, <1>4 DEF ResultsInv
<1>5. ASSUME NEW h \in Nat, t = TX("accuse", h) PROVE TransactionOK(t)
  BY <1>5 DEF TX, TransactionOK
<1>6. ASSUME NEW h \in Nat, h <= 2 * MaxBatch + 1, t \in {TX("skip", h), TX("plain", h)}
      PROVE  TransactionOK(t)
  BY <1>6 DEF TX, TransactionOK
<1>7. ASSUME NEW h \in Nat, h <= 2 * MaxBatch + 1, NEW b \in Batches, h = 2 * b,
             MayExecuteCipherBatch(new.Batches[b], b),
             t = CipherTX(2 * b, EncryptedBatchHash(b, new.main),
                          new.Batches[b].DecryptedTransactions)
      PROVE  TransactionOK(t)
  <2>1. PICK batch : batch = new.Batches[b]
    OBVIOUS
  <2>2. batch \in Batch /\ BatchOK(k, b, batch, height)
    BY <2>1, DecidedBatches
  <2>3. /\ batch.present
        /\ batch.DecryptedTransactions # {} => ~SignaturesMissing(batch, b)
        /\ t.type = "cipher" /\ t.halfStep = 2 * b /\ t.halfStep <= 2 * MaxBatch + 1
        /\ t.result = batch.DecryptedTransactions
    BY <1>7, <2>1 DEF MayExecuteCipherBatch, CipherTX
  <2>4. KeyExists(b)
    BY <2>2, <2>3 DEF BatchOK
  <2>5. ASSUME IsActive(ConfigForBatchIndex(b)), t.result # {}
        PROVE  IsResult(b, t.result)
    BY <1>1, <2>2, <2>3, <2>5, EnoughSignatures DEF ResultsInv
  <2> QED
    BY <2>3, <2>4, <2>5 DEF TransactionOK
<1>8. ASSUME NEW h \in Nat, SentFor(new, h, t) PROVE TransactionOK(t)
  BY <1>6, <1>7, <1>8 DEF SentFor
<1> QED
  BY <1>3, <1>4, <1>5, <1>8 DEF NewTX

LEMMA DecidedResults ==
    ASSUME EpochsInv, ResultsInv, NEW k \in Honest,
           NEW kp, NEW new, NEW height, Decides(k, kp, new, height)
    PROVE  /\ OneSignature'
           /\ \A j \in Honest : SignaturesOK(j)'
           /\ \A j \in Honest : BatchesOK(j, keypers[j])'
           /\ \A j \in Honest : \A t \in Elements(keypers'[j].mainChainTXs) : TransactionOK(t)'
<1>1. /\ UNCHANGED <<chainVars, log>> /\ IsDecided(kp, new, k, height)
      /\ keypers' = [keypers EXCEPT ![k] = new] /\ height \in Nat
  BY DEF Decides
<1>2. log' = log /\ txs' = txs /\ Grows /\ Steady /\ LogStep /\ log \in Seq(Event)
  BY <1>1 DEF chainVars, Grows, Steady, LogStep, EpochsInv, ChainOK
<1>3. keypers \in [Honest -> KeyperState] /\ keypers'[k] = new
      /\ \A j \in Honest : j # k => keypers'[j] = keypers[j]
  BY <1>1 DEF EpochsInv
<1>4. OneSignature'
  BY <1>2 DEF ResultsInv, OneSignature
<1>5. ASSUME NEW j \in Honest PROVE SignaturesOK(j)'
  <2>1. CASE j = k
    <3> SUFFICES ASSUME k \notin Lagging PROVE SignaturesOK(j)'
      BY <2>1 DEF SignaturesOK
    <3> DEFINE all == {m \in Elements(log) \cup Elements(new.messages) :
                         IsSignature(m) /\ m.Sender = k}
    <3>1. SignaturesOf(k)' = all
      BY <1>2, <1>3 DEF SignaturesOf, IsSignature, Elements
    <3>2. ASSUME NEW m \in all PROVE IsResult(m.BatchIndex, m.Hash[2])'
      <4>1. CASE m \in Elements(new.messages)
        <5>1. IsResult(m.BatchIndex, m.Hash[2])
          BY <4>1, DecidedMessages
        <5> QED
          BY <1>2, <5>1, SharesStay DEF IsResult, Right
      <4>2. CASE m \in Elements(log)
        <5>1. m \in SignaturesOf(k)
          BY <4>2 DEF SignaturesOf
        <5>2. IsResult(m.BatchIndex, m.Hash[2])
          BY <5>1 DEF ResultsInv, SignaturesOK
        <5> QED
          BY <1>2, <5>2, SharesStay DEF IsResult, Right
      <4> QED
        BY <4>1, <4>2
    <3> HIDE DEF all
    <3> QED
      BY <2>1, <3>1, <3>2 DEF SignaturesOK
  <2>2. CASE j # k
    <3>1. Sent(j) /\ keypers[j] \in KeyperState
      BY <1>3, <2>2, KeptSent
    <3> QED
      BY <1>2, <3>1, SignaturesStay DEF ResultsInv
  <2> QED
    BY <2>1, <2>2
<1>6. ASSUME NEW j \in Honest PROVE BatchesOK(j, keypers[j])'
  <2>1. PICK kj : kj = keypers'[j]
    OBVIOUS
  <2>2. BatchesOK(j, kj)
    <3>1. CASE j = k
      <4>1. new.SyncHeight - 1 = height
        BY <1>1 DEF IsDecided
      <4>2. \A b \in Batches : BatchOK(k, b, new.Batches[b], height)
        BY DecidedBatches
      <4> QED
        BY <1>3, <2>1, <3>1, <4>1, <4>2 DEF BatchesOK
    <3>2. CASE j # k
      BY <1>3, <2>1, <3>2 DEF ResultsInv
    <3> QED
      BY <3>1, <3>2
  <2>3. BatchesOK(j, kj)'
    <3>1. KeyperOK(kj)
      <4>1. CASE j # k
        BY <1>3, <2>1, <4>1 DEF EpochsInv
      <4>2. CASE j = k
        <5>1. KeyperOK(kj)'
          BY <2>1, DecidedInv DEF EpochsInv, KeyperOK
        <5>2. \A eon, b : SharesOnChain(eon, b)' = SharesOnChain(eon, b)
          BY <1>2 DEF SharesOnChain, EpochSecretKeyShares
        <5> QED
          BY <1>1, <1>2, <5>1, <5>2 DEF KeyperOK, chainVars, EKGOK, HasKey
      <4> QED
        BY <4>1, <4>2
    <3> QED
      BY <1>2, <2>2, <3>1, BatchesStay
  <2> QED
    BY <2>1, <2>3 DEF BatchesOK
<1>7. ASSUME NEW j \in Honest, NEW t \in Elements(keypers'[j].mainChainTXs)
      PROVE  TransactionOK(t)'
  <2>1. TransactionOK(t)
    BY <1>3, DecidedTransactions DEF ResultsInv
  <2> QED
    BY <1>2, <2>1, TransactionStays
<1> QED
  BY <1>4, <1>5, <1>6, <1>7

LEMMA ResultsInit ==
    ASSUME Init
    PROVE  ResultsInv
<1>1. /\ log = <<BatchConfigAdded(2), EonStarted(1, 0), DKGFinalized(1, {})>>
      /\ halfSteps = <<>> /\ txs = [b \in Batches |-> <<>>] /\ keypers = [k \in Honest |-> NewKeyper]
  BY DEF Init
<1>2. \A m \in Elements(log) : ~IsSignature(m)
  BY <1>1 DEF Elements, IsSignature, BatchConfigAdded, EonStarted, DKGFinalized
<1>3. TransactionsInTime
  BY <1>1 DEF TransactionsInTime
<1>4. OneSignature
  BY <1>2 DEF OneSignature, Elements
<1>5. /\ NewKeyper.messages = <<>> /\ NewKeyper.mainChainTXs = <<>>
      /\ NewKeyper.Batches = [b \in Batches |-> NoBatch]
  BY DEF NewKeyper
<1>6. ASSUME NEW k \in Honest
      PROVE  /\ SignaturesOK(k) /\ BatchesOK(k, keypers[k])
             /\ \A t \in Elements(keypers[k].mainChainTXs) : TransactionOK(t)
  <2>1. keypers[k] = NewKeyper
    BY <1>1
  <2>2. Elements(keypers[k].messages) = {} /\ Elements(keypers[k].mainChainTXs) = {}
    BY <1>5, <2>1 DEF Elements
  <2>3. SignaturesOf(k) = {}
    BY <1>2, <2>2 DEF SignaturesOf
  <2>4. \A b \in Batches : ~keypers[k].Batches[b].present
    BY <1>5, <2>1 DEF NoBatch
  <2> QED
    BY <2>2, <2>3, <2>4 DEF SignaturesOK, BatchesOK, BatchOK
<1>7. Len(halfSteps) <= 2 * MaxBatch + 2 /\ ExecutedResultsRight
  BY <1>1, ConfigsAssumption DEF ExecutedResultsRight
<1> QED
  BY <1>3, <1>4, <1>6, <1>7 DEF ResultsInv

LEMMA ResultsNext ==
    ASSUME EpochsInv, ResultsInv, [Next]_vars
    PROVE  ResultsInv'
<1>1. Steady /\ TransactionsInTime' /\ ExecutedResultsRight'
      /\ Len(halfSteps') <= 2 * MaxBatch + 2
  BY SteadyStep, InTimeStays, ChainResults DEF ResultsInv
<1>2. \/ NothingDecided
      \/ \E k \in Honest : \E kp, new, height : Decides(k, kp, new, height)
  BY Steps
<1>3. /\ OneSignature'
      /\ \A k \in Honest : SignaturesOK(k)'
      /\ \A k \in Honest : BatchesOK(k, keypers[k])'
      /\ \A k \in Honest : \A t \in Elements(keypers'[k].mainChainTXs) : TransactionOK(t)'
  BY <1>1, <1>2, SentResults, DecidedResults
<1> QED
  BY <1>1, <1>3 DEF ResultsInv, Elements

(* What an honest keyper executes is what the key decrypts the batch to    *)
(* (KeyperEpochs!ExecutedResultsRight, executeCipherBatch), even if the    *)
(* keyper decrypted it when its main chain node was behind: a threshold of *)
(* signatures has an honest one in it of a keyper that was not.            *)
THEOREM ExecutedResultsAreRight == Spec => []ExecutedResultsRight
<1>1. Init => ResultsInv
  BY ResultsInit
<1>2. EpochsInv /\ ResultsInv /\ [Next]_vars => ResultsInv'
  BY ResultsNext
<1>3. ResultsInv => ExecutedResultsRight
  BY DEF ResultsInv
<1> QED
  BY <1>1, <1>2, <1>3, EpochsInvariant, PTL DEF Spec

-----------------------------------------------------------------------------
(* Accusations.  A keyper compares every receipt once, as soon as it can   *)
(* see it.  One that is not slow sees at most one block at a time, so the  *)
(* receipt of half step 0 can only have been overwritten in the same block.*)
StepsInOrder ==
    \A i, j \in DOMAIN halfSteps : i <= j => halfSteps[i].block <= halfSteps[j].block

NeverBehind(k) ==
    /\ keypers[k].main + 2 >= block
    /\ keypers[k].HalfStepsChecked = NumExecutionHalfSteps(keypers[k].main)

AccusationsInv ==
    /\ StepsInOrder
    /\ \A k \in Honest : k \notin Slow => NeverBehind(k)

(* The half steps seen at some block are the first ones.                   *)
LEMMA HalfStepsSeen ==
    ASSUME ChainOK, StepsInOrder, NEW v \in Nat
    PROVE  \A i \in DOMAIN halfSteps :
              i <= NumExecutionHalfSteps(v) <=> halfSteps[i].block <= v
<1> DEFINE seen == {i \in DOMAIN halfSteps : halfSteps[i].block <= v}
<1>1. /\ DOMAIN halfSteps = 1 .. Len(halfSteps) /\ Len(halfSteps) \in Nat
      /\ \A i \in DOMAIN halfSteps : halfSteps[i].block \in Nat
  BY DEF ChainOK
<1>2. PICK n \in {0} \cup seen : \A i \in {0} \cup seen : i <= n
  <2>1. 0 \in {0} \cup seen /\ {0} \cup seen \subseteq 0 .. Len(halfSteps)
    BY <1>1
  <2> HIDE DEF seen
  <2> QED
    BY <1>1, <2>1, GreatestNat
<1>3. n \in Nat /\ n <= Len(halfSteps)
  BY <1>1, <1>2
<1>4. \A i \in DOMAIN halfSteps : i <= n => halfSteps[i].block <= v
  <2> SUFFICES ASSUME NEW i \in DOMAIN halfSteps, i <= n PROVE halfSteps[i].block <= v
    OBVIOUS
  <2>1. n \in seen
    BY <1>1, <1>2
  <2>2. halfSteps[i].block <= halfSteps[n].block /\ halfSteps[n].block <= v
    BY <2>1 DEF StepsInOrder
  <2> QED
    BY <1>1, <2>1, <2>2
<1>5. seen = 1 .. n
  BY <1>1, <1>2, <1>3, <1>4
<1>6. \A m \in Nat : Cardinality(1 .. m) = m
  BY FS_Interval
<1>7. NumExecutionHalfSteps(v) = n
  BY <1>3, <1>5, <1>6 DEF NumExecutionHalfSteps
<1> QED
  BY <1>1, <1>3, <1>4, <1>5, <1>7

(* Every new half step is done in the block that is being built.           *)
HalfStepAdds ==
    \/ halfSteps' = halfSteps
    \/ \E kind, executor, result : HalfStepDone(kind, executor, result)

LEMMA HalfStepAddsNext ==
    ASSUME [Next]_vars
    PROVE  HalfStepAdds
<1>1. ASSUME NEW k, ExecuteCipherBatch(k) PROVE HalfStepAdds
  BY <1>1 DEF ExecuteCipherBatch, HalfStepAdds
<1>2. ASSUME NEW k, SkipCipherBatch(k) PROVE HalfStepAdds
  BY <1>2 DEF SkipCipherBatch, HalfStepAdds
<1>3. ASSUME NEW k, ExecutePlainBatch(k) PROVE HalfStepAdds
  BY <1>3 DEF ExecutePlainBatch, HalfStepAdds
<1>4. ASSUME NEW k, NEW result, ExecuteFaulty(k, result) PROVE HalfStepAdds
  BY <1>4 DEF ExecuteFaulty, HalfStepAdds
<1>5. ASSUME NEW k, Deliver(k) \/ Accuse(k) \/ Revert(k) \/ Decide(k) PROVE HalfStepAdds
  BY <1>5 DEF Deliver, Accuse, Revert, Decide, DecideOnMainChain, DecideOnShielder, chainVars,
              HalfStepAdds
<1>6. CASE NextBlock \/ (\E c \in Batches, eon \in 1 .. MaxEons : AddTransaction(c, eon))
  BY <1>6 DEF NextBlock, AddTransaction, HalfStepAdds
<1>7. CASE \/ (\E b \in Batches : StartEon(b))
           \/ (\E eon \in 1 .. MaxEons, failed \in SUBSET Slow : EndDKG(eon, failed))
           \/ (\E i \in DOMAIN BatchConfigs : AddBatchConfig(i))
           \/ (\E message \in Misbehaviour : SendFaulty(message))
  BY <1>7 DEF StartEon, EndDKG, AddBatchConfig, SendFaulty, chainVars, HalfStepAdds
<1>8. CASE UNCHANGED vars
  BY <1>8 DEF vars, HalfStepAdds
<1> QED
  BY <1>1, <1>2, <1>3, <1>4, <1>5, <1>6, <1>7, <1>8 DEF Next, Arrive

LEMMA HalfStepsStay ==
    ASSUME ChainOK, HalfStepAdds
    PROVE  /\ Len(halfSteps') \in Nat /\ DOMAIN halfSteps' = 1 .. Len(halfSteps')
           /\ DOMAIN halfSteps \subseteq DOMAIN halfSteps'
           /\ \A i \in DOMAIN halfSteps : halfSteps'[i] = halfSteps[i]
           /\ \A i \in DOMAIN halfSteps' : i \notin DOMAIN halfSteps =>
                i = Len(halfSteps) + 1 /\ halfSteps'[i].block = block
<1>1. halfSteps \in Seq(HalfStep) /\ Len(halfSteps) \in Nat
      /\ DOMAIN halfSteps = 1 .. Len(halfSteps)
  BY DEF ChainOK
<1>2. CASE halfSteps' = halfSteps
  BY <1>1, <1>2
<1>3. ASSUME NEW kind, NEW executor, NEW result, HalfStepDone(kind, executor, result)
      PROVE  /\ Len(halfSteps') \in Nat /\ DOMAIN halfSteps' = 1 .. Len(halfSteps')
             /\ DOMAIN halfSteps \subseteq DOMAIN halfSteps'
             /\ \A i \in DOMAIN halfSteps : halfSteps'[i] = halfSteps[i]
             /\ \A i \in DOMAIN halfSteps' : i \notin DOMAIN halfSteps =>
                  i = Len(halfSteps) + 1 /\ halfSteps'[i].block = block
  <2> DEFINE hs == [kind |-> kind, block |-> block, executor |-> executor, result |-> result]
  <2>1. halfSteps' = Append(halfSteps, hs) /\ hs.kind = kind /\ hs.block = block
    BY <1>3 DEF HalfStepDone
  <2> HIDE DEF hs
  <2>2. PICK n \in Nat : n = Len(halfSteps)
    BY <1>1
  <2>3. /\ Len(halfSteps') = n + 1 /\ DOMAIN halfSteps' = 1 .. n + 1
        /\ halfSteps'[n + 1] = hs
        /\ \A i \in DOMAIN halfSteps : halfSteps'[i] = halfSteps[i]
    BY <1>1, <2>1, <2>2
  <2>4. \A i \in DOMAIN halfSteps' : i \notin DOMAIN halfSteps => i = n + 1
    BY <1>1, <2>2, <2>3
  <2> QED
    BY <1>1, <1>3, <2>1, <2>2, <2>3, <2>4
<1> QED
  BY <1>2, <1>3 DEF HalfStepAdds

LEMMA StepsStayInOrder ==
    ASSUME ChainOK, StepsInOrder, HalfStepAdds
    PROVE  StepsInOrder'
<1>1. \A i \in DOMAIN halfSteps : halfSteps[i].block \in Nat /\ halfSteps[i].block <= block
  BY DEF ChainOK
<1>2. DOMAIN halfSteps = 1 .. Len(halfSteps) /\ Len(halfSteps) \in Nat /\ block \in Nat
  BY DEF ChainOK
<1> SUFFICES ASSUME NEW i \in DOMAIN halfSteps', NEW j \in DOMAIN halfSteps', i <= j
             PROVE  halfSteps'[i].block <= halfSteps'[j].block
  BY DEF StepsInOrder
<1>3. CASE j \in DOMAIN halfSteps
  <2>1. i \in DOMAIN halfSteps
    BY <1>2, <1>3, HalfStepsStay
  <2> QED
    BY <1>3, <2>1, HalfStepsStay DEF StepsInOrder
<1>4. CASE j \notin DOMAIN halfSteps
  <2>1. halfSteps'[j].block = block
    BY <1>4, HalfStepsStay
  <2>2. halfSteps'[i].block <= block
    BY <1>1, <1>2, HalfStepsStay
  <2> QED
    BY <2>1, <2>2
<1> QED
  BY <1>3, <1>4

(* A keyper sees none of the block that is being built.                    *)
LEMMA SeenStays ==
    ASSUME ChainOK, HalfStepAdds, NEW v \in Nat, v < block
    PROVE  NumExecutionHalfSteps(v)' = NumExecutionHalfSteps(v)
<1>1. block \in Nat
  BY DEF ChainOK
<1>2. {i \in DOMAIN halfSteps' : halfSteps'[i].block <= v}
        = {i \in DOMAIN halfSteps : halfSteps[i].block <= v}
  BY <1>1, HalfStepsStay
<1> QED
  BY <1>2 DEF NumExecutionHalfSteps

(* The receipt of half step 0 is lost: a keyper that is not slow has seen  *)
(* none of the half steps before, and those of at most one block now.      *)
LEMMA LostReceipt ==
    ASSUME EpochsInv, AccusationsInv, NEW k \in Honest,
           NEW kp, NEW new, NEW height, Decides(k, kp, new, height),
           kp.HalfStepsChecked = 0, 0 < NumExecutionHalfSteps(kp.main),
           SkippedCipherSteps(kp.main) # {}
    PROVE  ReceiptLost(k)
<1>1. PICK v, m : v = kp.main /\ m = keypers[k].main
  OBVIOUS
<1>2. /\ KeyperOK(kp) /\ kp = [keypers[k] EXCEPT !.main = kp.main] /\ m <= v
  BY <1>1 DEF Decides
<1>3. keypers[k] \in KeyperState /\ ChainOK /\ block \in Nat /\ StepsInOrder
  BY DEF EpochsInv, AccusationsInv, ChainOK
<1>4. /\ NumExecutionHalfSteps(v) \in Nat /\ NumExecutionHalfSteps(v) <= Len(halfSteps)
      /\ DOMAIN halfSteps = 1 .. Len(halfSteps) /\ Len(halfSteps) \in Nat
  BY <1>3, HalfStepCount DEF ChainOK
<1>5. PICK g \in 0 .. NumExecutionHalfSteps(v) - 1 : halfSteps[g + 1].kind = "skip"
  BY <1>1 DEF SkippedCipherSteps
<1>6. g + 1 \in DOMAIN halfSteps /\ g + 1 <= NumExecutionHalfSteps(v)
      /\ 1 \in DOMAIN halfSteps /\ 1 <= g + 1
  BY <1>1, <1>4, <1>5
<1>7. CASE k \in Slow
  BY <1>5, <1>6, <1>7 DEF ReceiptLost
<1>8. CASE k \notin Slow
  <2>1. NeverBehind(k)
    BY <1>8 DEF AccusationsInv
  <2>2. kp.HalfStepsChecked = keypers[k].HalfStepsChecked
    BY <1>2, <1>3 DEF KeyperState
  <2>3. NumExecutionHalfSteps(m) = 0 /\ m + 2 >= block
    BY <1>1, <2>1, <2>2 DEF NeverBehind
  <2>4. m \in Nat /\ v \in Nat /\ v < block
    BY <1>1, <1>2, <1>3 DEF KeyperOK, KeyperState
  <2>5. PICK first, skipped : first = halfSteps[1].block /\ skipped = halfSteps[g + 1].block
    OBVIOUS
  <2>6. first \in Nat /\ skipped \in Nat
    BY <1>3, <1>6, <2>5 DEF ChainOK
  <2>7. skipped <= v
    BY <1>3, <1>6, <2>4, <2>5, HalfStepsSeen
  <2>8. ~(first <= m)
    <3>1. ~(1 <= NumExecutionHalfSteps(m))
      BY <2>3
    <3> QED
      BY <1>3, <1>6, <2>4, <2>5, <3>1, HalfStepsSeen
  <2>9. first <= skipped
    BY <1>6, <2>5, <1>3 DEF StepsInOrder
  <2>10. skipped = first
    BY <1>2, <1>3, <2>3, <2>4, <2>6, <2>7, <2>8, <2>9
  <2> QED
    BY <1>5, <1>6, <2>5, <2>10 DEF ReceiptLost
<1> QED
  BY <1>7, <1>8

(* Why a keyper decides to accuse an honest one.                           *)
LEMMA AccusedByRight ==
    ASSUME EpochsInv, ResultsInv, AccusationsInv, NEW k \in Honest,
           NEW kp, NEW new, NEW height, Decides(k, kp, new, height),
           NEW h \in Nat, h < NumExecutionHalfSteps(kp.main), ToBeAccused(kp, new, h),
           halfSteps[h + 1].kind = "cipher", halfSteps[h + 1].executor \subseteq Honest
    PROVE  \/ CopyIncomplete(k, h \div 2)'
           \/ h = 0 /\ ReceiptLost(k)
           \/ Overtaken(h \div 2)
<1>1. PICK same : /\ same.HalfStepsChecked = kp.HalfStepsChecked
                  /\ same.main = kp.main /\ same.Batches = new.Batches
                  /\ h \in ToAccuse(same)
  BY DEF ToBeAccused
<1>2. PICK v : v = kp.main
  OBVIOUS
<1>3. /\ KeyperOK(kp) /\ IsDecided(kp, new, k, height) /\ height \in Nat
      /\ UNCHANGED <<chainVars, log>> /\ keypers' = [keypers EXCEPT ![k] = new]
  BY DEF Decides
<1>4. ChainOK /\ keypers \in [Honest -> KeyperState] /\ kp.HalfStepsChecked \in Nat
      /\ v \in Nat
  BY <1>2, <1>3 DEF EpochsInv, KeyperOK, KeyperState
<1>5. /\ NumExecutionHalfSteps(v) \in Nat /\ NumExecutionHalfSteps(v) <= Len(halfSteps)
      /\ DOMAIN halfSteps = 1 .. Len(halfSteps) /\ Len(halfSteps) \in Nat
  BY <1>4, HalfStepCount DEF ChainOK
<1>6. PICK b : b = h \div 2 /\ b = ((h + 1) - 1) \div 2
  OBVIOUS
<1>7. /\ h >= kp.HalfStepsChecked
      /\ new.Batches[b].present
      /\ new.Batches[b].DecryptedTransactions # ReceiptBatchHash(h, v)
  BY <1>1, <1>2, <1>6 DEF ToAccuse
<1>8. h + 1 \in DOMAIN halfSteps
  BY <1>2, <1>5
<1>9. b \in Batches
  BY <1>6, <1>8, HalfStepsUpTo DEF ResultsInv
<1>10. CASE h = 0 /\ SkippedCipherSteps(v) # {}
  <2>1. kp.HalfStepsChecked = 0
    BY <1>4, <1>7, <1>10
  <2> QED
    BY <1>2, <1>10, <2>1, LostReceipt
<1>11. CASE ~(h = 0 /\ SkippedCipherSteps(v) # {}) /\ ~Overtaken(b)
  <2>1. PICK result : result = halfSteps[h + 1].result
    OBVIOUS
  <2>2. PICK batch : batch = new.Batches[b]
    OBVIOUS
  <2>3. ReceiptBatchHash(h, v) = result
    BY <1>11, <2>1 DEF ReceiptBatchHash
  <2>4. IsResult(b, result)
    <3>1. ExecutedRight
      BY ExecutedRightIs DEF ResultsInv
    <3> QED
      BY <1>6, <1>8, <2>1, <3>1 DEF ExecutedRight
  <2>5. batch \in Batch /\ BatchOK(k, b, batch, height)
    BY <1>9, <2>2, DecidedBatches
  <2>6. ~IsResult(b, batch.DecryptedTransactions)
    <3>1. \A e, f \in 1 .. MaxEons : HasKey(e, b) /\ HasKey(f, b) => e = f
      BY <1>9, InvOneEon
    <3>2. batch.DecryptedTransactions # result
      BY <1>7, <2>2, <2>3
    <3> QED
      BY <1>11, <2>4, <3>1, <3>2 DEF IsResult
  <2>7. /\ k \in Lagging
        /\ batch.DecryptionSignatureHash[1] <= Len(txs[b])
        /\ batch.DecryptionSignatureHash[1] # Len(txs[b])
    BY <1>7, <1>11, <2>2, <2>5, <2>6 DEF BatchOK, CopyOK
  <2>8. batch.DecryptionSignatureHash[1] < Len(txs[b])
    <3>1. batch.DecryptionSignatureHash[1] \in Nat
      <4>1. batch \in BatchData /\ MaxTxs \in Nat
        BY <1>7, <2>2, <2>5, PresentBatch, ConstantsAssumption
      <4>2. batch.DecryptionSignatureHash \in (0 .. MaxTxs) \X SUBSET (1 .. MaxTxs)
        BY <4>1 DEF BatchData
      <4> QED
        BY <4>1, <4>2
    <3>2. Len(txs[b]) \in Nat
      BY <1>4, <1>9 DEF ChainOK
    <3> QED
      BY <2>7, <3>1, <3>2
  <2>9. keypers'[k].Batches[b] = batch /\ txs' = txs
    BY <1>3, <1>4, <2>2 DEF chainVars
  <2> QED
    BY <1>6, <2>7, <2>8, <2>9 DEF CopyIncomplete
<1> QED
  BY <1>6, <1>10, <1>11

LEMMA AccusationsDecided ==
    ASSUME EpochsInv, ResultsInv, AccusationsInv, [Next]_vars,
           NEW k \in Honest, NEW h \in Accusing(k),
           halfSteps[h + 1].kind = "cipher", halfSteps[h + 1].executor \subseteq Honest
    PROVE  \/ CopyIncomplete(k, h \div 2)'
           \/ h = 0 /\ ReceiptLost(k)
           \/ Overtaken(h \div 2)
<1> DEFINE t == TX("accuse", h)
<1>1. /\ t \in Elements(keypers'[k].mainChainTXs) /\ t \notin Elements(keypers[k].mainChainTXs)
      /\ t.type = "accuse" /\ t.halfStep = h
  BY DEF Accusing, TX
<1> HIDE DEF t
<1>2. keypers \in [Honest -> KeyperState] /\ Len(halfSteps) \in Nat
  BY DEF EpochsInv, ChainOK
<1>3. ~NothingDecided
  <2> SUFFICES ASSUME NothingDecided PROVE FALSE
    OBVIOUS
  <2>1. Sent(k) /\ keypers[k] \in KeyperState
    BY <1>2 DEF NothingDecided
  <2>2. PICK messages, sent :
          /\ Elements(sent) \subseteq Elements(keypers[k].mainChainTXs)
          /\ keypers'[k] = [keypers[k] EXCEPT !.messages = messages, !.mainChainTXs = sent]
    BY <2>1 DEF Sent
  <2>3. keypers'[k].mainChainTXs = sent
    BY <2>1, <2>2 DEF KeyperState
  <2> QED
    BY <1>1, <2>2, <2>3
<1>4. PICK j \in Honest : \E kp, new, height : Decides(j, kp, new, height)
  BY <1>3, Steps
<1>5. PICK kp, new, height : Decides(j, kp, new, height)
  BY <1>4
<1>6. /\ keypers' = [keypers EXCEPT ![j] = new] /\ IsDecided(kp, new, j, height)
      /\ kp = [keypers[j] EXCEPT !.main = kp.main]
  BY <1>5 DEF Decides
<1>7. j = k
  <2>1. j # k => keypers'[k] = keypers[k]
    BY <1>2, <1>6
  <2> QED
    BY <1>1, <2>1
<1>8. keypers'[k] = new /\ kp.mainChainTXs = keypers[k].mainChainTXs
  <2>1. keypers[k] \in KeyperState
    BY <1>2
  <2> QED
    BY <1>2, <1>6, <1>7, <2>1 DEF KeyperState
<1>9. NewTX(kp, new, t)
  BY <1>1, <1>6, <1>8 DEF IsDecided
<1>10. ASSUME NEW g \in Nat, SentFor(new, g, t) PROVE FALSE
  BY <1>1, <1>10 DEF SentFor, TX, CipherTX
<1>11. PICK g \in Nat : /\ g < NumExecutionHalfSteps(kp.main)
                        /\ ToBeAccused(kp, new, g) /\ t = TX("accuse", g)
  BY <1>9, <1>10 DEF NewTX
<1>12. g = h
  BY <1>1, <1>11 DEF TX
<1>13. h \in Nat /\ h < NumExecutionHalfSteps(kp.main) /\ ToBeAccused(kp, new, h)
  BY <1>11, <1>12
<1> QED
  BY <1>5, <1>7, <1>13, AccusedByRight

(* The next block comes when every keyper that is not slow has decided.    *)
LEMMA BlockStep ==
    ASSUME EpochsInv, [Next]_vars
    PROVE  \/ block' = block
           \/ /\ block' = block + 1 /\ UNCHANGED keypers
              /\ \A k \in Honest : k \notin Slow => keypers[k].main = block - 1
<1>1. CASE Quiet /\ NextBlock
  BY <1>1 DEF NextBlock, Quiet, UpToDate
<1>2. ASSUME NEW k, Arrive(k) \/ Decide(k) PROVE block' = block
  BY <1>2 DEF Arrive, Deliver, ExecuteCipherBatch, SkipCipherBatch, ExecutePlainBatch, Accuse,
              Revert, Mined, Decide, DecideOnMainChain, DecideOnShielder, chainVars
<1>3. CASE \E c \in Batches, eon \in 1 .. MaxEons : AddTransaction(c, eon)
  BY <1>3 DEF AddTransaction
<1>4. CASE \/ (\E b \in Batches : StartEon(b))
           \/ (\E eon \in 1 .. MaxEons, failed \in SUBSET Slow : EndDKG(eon, failed))
           \/ (\E i \in DOMAIN BatchConfigs : AddBatchConfig(i))
           \/ (\E message \in Misbehaviour : SendFaulty(message))
  BY <1>4 DEF StartEon, EndDKG, AddBatchConfig, SendFaulty, chainVars
<1>5. CASE \E k \in Faulty, result \in FaultyResults : ExecuteFaulty(k, result)
  BY <1>5 DEF ExecuteFaulty
<1>6. CASE UNCHANGED vars
  BY <1>6 DEF vars
<1> QED
  BY <1>1, <1>2, <1>3, <1>4, <1>5, <1>6 DEF Next

LEMMA NeverBehindSent ==
    ASSUME EpochsInv, NothingDecided, HalfStepAdds, [Next]_vars,
           NEW k \in Honest, k \notin Slow, NeverBehind(k)
    PROVE  NeverBehind(k)'
<1>1. PICK kp : kp = keypers[k]
  OBVIOUS
<1>2. /\ kp \in KeyperState /\ kp.main \in Nat /\ kp.main < block /\ block \in Nat /\ ChainOK
  BY <1>1 DEF EpochsInv, KeyperOK, KeyperState, ChainOK
<1>3. PICK messages, sent :
        keypers'[k] = [kp EXCEPT !.messages = messages, !.mainChainTXs = sent]
  BY <1>1 DEF NothingDecided, Sent
<1> DEFINE new == [kp EXCEPT !.messages = messages, !.mainChainTXs = sent]
<1>4. new.main = kp.main /\ new.HalfStepsChecked = kp.HalfStepsChecked
  BY <1>2 DEF KeyperState
<1> HIDE DEF new
<1>5. keypers'[k] = new
  BY <1>3 DEF new
<1>6. kp.main + 2 >= block'
  <2>1. CASE block' = block
    BY <1>1, <2>1 DEF NeverBehind
  <2>2. CASE block' = block + 1 /\ kp.main = block - 1
    BY <1>2, <2>2
  <2> QED
    BY <1>1, <2>1, <2>2, BlockStep
<1>7. PICK v \in Nat : v = kp.main
  BY <1>2
<1>8. NumExecutionHalfSteps(v)' = NumExecutionHalfSteps(v)
  BY <1>2, <1>7, SeenStays
<1>9. kp.HalfStepsChecked = NumExecutionHalfSteps(v)'
  BY <1>1, <1>7, <1>8 DEF NeverBehind
<1>10. keypers'[k].main = v /\ keypers'[k].HalfStepsChecked = NumExecutionHalfSteps(v)'
       /\ v + 2 >= block'
  BY <1>4, <1>5, <1>6, <1>7, <1>9
<1> QED
  BY <1>10 DEF NeverBehind, NumExecutionHalfSteps

LEMMA NeverBehindDecided ==
    ASSUME EpochsInv, AccusationsInv,
           NEW k \in Honest, NEW kp, NEW new, NEW height, Decides(k, kp, new, height),
           NEW j \in Honest, j \notin Slow
    PROVE  NeverBehind(j)'
<1>1. /\ UNCHANGED <<chainVars, log>> /\ IsDecided(kp, new, k, height)
      /\ keypers' = [keypers EXCEPT ![k] = new]
      /\ KeyperOK(kp) /\ keypers[k].main <= kp.main
  BY DEF Decides
<1>2. block' = block /\ halfSteps' = halfSteps
  BY <1>1 DEF chainVars
<1>3. keypers \in [Honest -> KeyperState] /\ keypers[k] \in KeyperState
      /\ keypers'[k] = new /\ (j # k => keypers'[j] = keypers[j])
  BY <1>1 DEF EpochsInv
<1>4. NeverBehind(j)
  BY DEF AccusationsInv
<1>5. CASE j # k
  BY <1>2, <1>3, <1>4, <1>5 DEF NeverBehind, NumExecutionHalfSteps
<1>6. CASE j = k
  <2>1. kp.main + 2 >= block
    <3>1. keypers[k].main \in Nat /\ kp.main \in Nat /\ block \in Nat
      BY <1>1, <1>3 DEF KeyperOK, KeyperState, EpochsInv, ChainOK
    <3> QED
      BY <1>1, <1>4, <1>6, <3>1 DEF NeverBehind
  <2>2. new.main = kp.main /\ new.HalfStepsChecked = NumExecutionHalfSteps(kp.main)
    BY <1>1 DEF IsDecided
  <2> QED
    BY <1>2, <1>3, <1>6, <2>1, <2>2 DEF NeverBehind, NumExecutionHalfSteps
<1> QED
  BY <1>5, <1>6

LEMMA AccusationsNext ==
    ASSUME EpochsInv, AccusationsInv, [Next]_vars
    PROVE  AccusationsInv'
<1>1. ChainOK /\ HalfStepAdds
  BY HalfStepAddsNext DEF EpochsInv
<1>2. StepsInOrder'
  BY <1>1, StepsStayInOrder DEF AccusationsInv
<1>3. ASSUME NEW k \in Honest, k \notin Slow PROVE NeverBehind(k)'
  <2>1. NeverBehind(k)
    BY <1>3 DEF AccusationsInv
  <2>2. CASE NothingDecided
    BY <1>1, <1>3, <2>1, <2>2, NeverBehindSent
  <2>3. CASE \E j \in Honest : \E kp, new, height : Decides(j, kp, new, height)
    BY <1>3, <2>3, NeverBehindDecided
  <2> QED
    BY <2>2, <2>3, Steps
<1> QED
  BY <1>2, <1>3 DEF AccusationsInv

LEMMA AccusationsInit ==
    ASSUME Init
    PROVE  AccusationsInv
<1>1. /\ halfSteps = <<>> /\ block = 1
      /\ keypers = [k \in Honest |-> NewKeyper]
  BY DEF Init
<1>2. NewKeyper.main = 0 /\ NewKeyper.HalfStepsChecked = 0
  BY DEF NewKeyper
<1>3. NumExecutionHalfSteps(0) = 0
  <2>1. {i \in DOMAIN halfSteps : halfSteps[i].block <= 0} = {}
    BY <1>1
  <2> QED
    BY <2>1, FS_EmptySet DEF NumExecutionHalfSteps
<1>4. ASSUME NEW k \in Honest PROVE NeverBehind(k)
  BY <1>1, <1>2, <1>3 DEF NeverBehind
<1>5. StepsInOrder
  BY <1>1 DEF StepsInOrder
<1> QED
  BY <1>4, <1>5 DEF AccusationsInv

(* A keyper that runs the program accuses another one that runs it only if *)
(* its copy of the batch is incomplete, or the receipt of half step 0 is   *)
(* lost to it, or the batch was overtaken (KeyperEpochs!HonestNotAccused,  *)
(* maybeAccuse).                                                           *)
THEOREM HonestAreNotAccused == Spec => HonestNotAccused
<1>1. Init => ResultsInv /\ AccusationsInv
  BY ResultsInit, AccusationsInit
<1>2. EpochsInv /\ ResultsInv /\ AccusationsInv /\ [Next]_vars
        => ResultsInv' /\ AccusationsInv'
  BY ResultsNext, AccusationsNext
<1> DEFINE OnlyFor ==
             \A k \in Honest : \A h \in Accusing(k) :
                halfSteps[h + 1].kind = "cipher" /\ halfSteps[h + 1].executor \subseteq Honest =>
                   \/ CopyIncomplete(k, h \div 2)'
                   \/ h = 0 /\ ReceiptLost(k)
                   \/ Overtaken(h \div 2)
<1>3. EpochsInv /\ ResultsInv /\ AccusationsInv /\ [Next]_vars => [OnlyFor]_vars
  BY AccusationsDecided
<1>4. HonestNotAccused <=> [][OnlyFor]_vars
  BY DEF HonestNotAccused
<1> HIDE DEF OnlyFor
<1> QED
  BY <1>1, <1>2, <1>3, <1>4, EpochsInvariant, PTL DEF Spec
=============================================================================
