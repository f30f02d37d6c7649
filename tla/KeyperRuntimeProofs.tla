------------------------ MODULE KeyperRuntimeProofs ------------------------
(***************************************************************************)
(* No action of a keyper is lost, sent again or sent in the wrong order,   *)
(* and it does not compete with itself, at whatever moment it crashes:     *)
(* proofs about KeyperRuntime.                                             *)
(***************************************************************************)
EXTENDS KeyperRuntime, FiniteSetTheorems, TLAPS

ActionMap == Pending.ActionMap
TXHashes  == Pending.MainChainTXHashes

StateType == [ActionCounter : Nat, Actions : Seq(Action), PendingHalfStep : SUBSET Nat]

PendingOK(p) ==
    /\ DOMAIN p = {"ActionMap", "MainChainTXHashes", "CurrentID"}
    /\ p.CurrentID \in Nat
    /\ \A id \in DOMAIN p.ActionMap :
          id \in Nat /\ id < p.CurrentID /\ p.ActionMap[id] \in Action
    /\ DOMAIN p.MainChainTXHashes \subseteq DOMAIN p.ActionMap

TypesOK ==
    /\ State \in StateType /\ stored \in StateType
    /\ PendingOK(Pending)
    /\ main \in [pc : {"decide", "add", "schedule", "load"}, ids : Seq(Nat),
                 havePendingActions : BOOLEAN]
    /\ msgWorker \in {Idle} \cup [pc : {"send", "remove"}, id : Nat]
    /\ mainChainTXs \in Seq(Nat)
    /\ txWorker \in {Idle} \cup [pc : {"send", "sent", "pass"}, id : Nat]
    /\ inFlight \subseteq Nat
    /\ world \in Nat
    /\ chain \in [NumExecutionHalfSteps : Nat,
                  txs : Seq([id : Nat, HalfStep : Nat,
                             status : {"pending", "success", "reverted"}])]
    /\ world <= chain.NumExecutionHalfSteps
    /\ delivered \in Seq(Nat)
    /\ decided \in Seq(Action)

(* The actions decided on are those added before, and those saved with the *)
(* state, which overlap if the keyper crashed before it saved again.       *)
Counters ==
    /\ stored.ActionCounter + Len(stored.Actions) = Len(decided)
    /\ \A i \in DOMAIN stored.Actions :
          stored.Actions[i] = decided[stored.ActionCounter + i]
    /\ stored.ActionCounter <= Pending.CurrentID
    /\ Pending.CurrentID <= Len(decided)
    /\ main.pc # "decide" => /\ State.ActionCounter = stored.ActionCounter
                             /\ State.Actions = stored.Actions
    /\ main.pc \in {"schedule", "decide"} => Pending.CurrentID = Len(decided)
    /\ main.pc = "decide" => /\ State.ActionCounter = Len(decided)
                             /\ State.Actions = <<>>
    /\ main.pc \in {"decide", "add"} => main.ids = <<>>

(* The ids that have been scheduled.                                       *)
Held ==
    ToSet(mainChainTXs) \cup inFlight
       \cup (IF msgWorker.pc = "idle" THEN {} ELSE {msgWorker.id})
       \cup (IF txWorker.pc = "idle" THEN {} ELSE {txWorker.id})

(* Every id is in one place, is a pending action of the right type, and    *)
(* has a transaction's hash if and only if it is past the worker that      *)
(* sends it.  The main loop schedules in increasing order.                 *)
Places ==
    /\ ToSet(main.ids) \subseteq DOMAIN ActionMap
    /\ \A i, j \in DOMAIN main.ids : i < j => main.ids[i] < main.ids[j]
    /\ \A id \in ToSet(main.ids), held \in Held : held < id
    /\ Held \subseteq DOMAIN ActionMap
    /\ msgWorker.pc # "idle" => ActionMap[msgWorker.id] = Message
    /\ txWorker.pc # "idle" => ActionMap[txWorker.id].type = "tx"
    /\ txWorker.pc \in {"send", "sent"} => txWorker.id \notin DOMAIN TXHashes
    /\ txWorker.pc = "pass" => /\ txWorker.id \in DOMAIN TXHashes
                               /\ txWorker.id \notin inFlight
    /\ \A id \in inFlight : id \in DOMAIN TXHashes /\ ActionMap[id].type = "tx"
    /\ \A i \in DOMAIN mainChainTXs :
          /\ mainChainTXs[i] \notin DOMAIN TXHashes
          /\ ActionMap[mainChainTXs[i]].type = "tx"
          /\ txWorker.pc # "idle" => txWorker.id # mainChainTXs[i]
          /\ \A j \in DOMAIN mainChainTXs : mainChainTXs[i] = mainChainTXs[j] => i = j

Sent(id) == \E i \in DOMAIN chain.txs : chain.txs[i].id = id

(* What a worker has sent has reached its chain.                           *)
SentFirst ==
    /\ msgWorker.pc = "remove" => msgWorker.id \in ToSet(delivered)
    /\ txWorker.pc \in {"sent", "pass"} => Sent(txWorker.id)
    /\ \A id \in DOMAIN TXHashes : Sent(id)
    /\ \A i \in DOMAIN delivered : delivered[i] < Pending.CurrentID

(* A message that shuttermint does not have yet is still to be scheduled,  *)
(* unless it is the one at hand, before which all others were delivered.   *)
InOrder ==
    /\ \A id \in ActionID :
          id < Pending.CurrentID /\ decided[id + 1] = Message =>
             \/ id \in ToSet(delivered)
             \/ id \in ToSet(main.ids)
             \/ msgWorker.pc # "idle" /\ msgWorker.id = id
    /\ msgWorker.pc # "idle" =>
          \A id \in ActionID :
             id < msgWorker.id /\ decided[id + 1] = Message => id \in ToSet(delivered)

IInv ==
    /\ TypesOK
    /\ Counters
    /\ Places
    /\ SentFirst
    /\ NothingLost
    /\ InOrder
    /\ MessagesInOrder

-----------------------------------------------------------------------------
(* Facts about the pending actions.                                        *)

LEMMA RemoveActionFacts ==
    ASSUME PendingOK(Pending), NEW id
    PROVE  LET p == RemoveAction(id)
           IN  /\ PendingOK(p)
               /\ p.CurrentID = Pending.CurrentID
               /\ DOMAIN p.ActionMap = DOMAIN ActionMap \ {id}
               /\ \A i \in DOMAIN p.ActionMap : p.ActionMap[i] = ActionMap[i]
               /\ DOMAIN p.MainChainTXHashes = DOMAIN TXHashes \ {id}
<1> DEFINE p == RemoveAction(id)
           a == [i \in DOMAIN ActionMap \ {id} |-> ActionMap[i]]
           h == [i \in DOMAIN TXHashes \ {id} |-> TXHashes[i]]
<1>1. /\ DOMAIN p = {"ActionMap", "MainChainTXHashes", "CurrentID"}
      /\ p.ActionMap = a /\ p.MainChainTXHashes = h
      /\ p.CurrentID = Pending.CurrentID
  BY DEF PendingOK, RemoveAction, ActionMap, TXHashes
<1> HIDE DEF p
<1> QED
  BY <1>1 DEF PendingOK, ActionMap, TXHashes, p

LEMMA SetMainChainTXHashFacts ==
    ASSUME PendingOK(Pending), NEW id \in DOMAIN ActionMap, NEW hash
    PROVE  LET p == SetMainChainTXHash(id, hash)
           IN  /\ PendingOK(p)
               /\ p.CurrentID = Pending.CurrentID
               /\ p.ActionMap = ActionMap
               /\ DOMAIN p.MainChainTXHashes = DOMAIN TXHashes \cup {id}
<1> DEFINE p == SetMainChainTXHash(id, hash)
           h == [i \in DOMAIN TXHashes \cup {id} |-> IF i = id THEN hash ELSE TXHashes[i]]
<1>1. /\ DOMAIN p = {"ActionMap", "MainChainTXHashes", "CurrentID"}
      /\ p.ActionMap = ActionMap /\ p.MainChainTXHashes = h
      /\ p.CurrentID = Pending.CurrentID
  BY DEF PendingOK, SetMainChainTXHash, ActionMap, TXHashes
<1> HIDE DEF p
<1> QED
  BY <1>1 DEF PendingOK, ActionMap, TXHashes, p

(* Add: the actions that were not added before a crash get the next ids.   *)
LEMMA AddActionsFacts ==
    ASSUME PendingOK(Pending), NEW from \in Nat, NEW actions \in Seq(Action),
           from <= Pending.CurrentID, Pending.CurrentID <= from + Len(actions)
    PROVE  LET p   == AddActions(from, actions)
               new == Pending.CurrentID .. from + Len(actions) - 1
           IN  /\ PendingOK(p)
               /\ p.CurrentID = from + Len(actions)
               /\ DOMAIN p.ActionMap = DOMAIN ActionMap \cup new
               /\ \A i \in DOMAIN ActionMap : p.ActionMap[i] = ActionMap[i]
               /\ \A i \in new : p.ActionMap[i] = actions[i - from + 1]
               /\ p.MainChainTXHashes = TXHashes
<1> DEFINE p   == AddActions(from, actions)
           c   == Pending.CurrentID
           new == c .. from + Len(actions) - 1
           a   == [i \in DOMAIN ActionMap \cup new |->
                     IF i < c THEN ActionMap[i] ELSE actions[i - from + 1]]
<1>1. c \in Nat /\ Len(actions) \in Nat
  BY DEF PendingOK
<1>2. CASE c >= from + Len(actions)
  <2>1. p = Pending /\ c = from + Len(actions) /\ new = {}
    BY <1>1, <1>2 DEF AddActions
  <2> QED
    BY <2>1 DEF ActionMap, TXHashes
<1>3. CASE c < from + Len(actions)
  <2>1. /\ DOMAIN p = {"ActionMap", "MainChainTXHashes", "CurrentID"}
        /\ p.ActionMap = a /\ p.MainChainTXHashes = TXHashes
        /\ p.CurrentID = from + Len(actions)
    BY <1>1, <1>3 DEF PendingOK, AddActions, ActionMap, TXHashes
  <2>2. \A i \in new : i - from + 1 \in DOMAIN actions /\ ~(i < c)
                          /\ i \in Nat /\ i < from + Len(actions)
    BY <1>1
  <2>3. \A i \in DOMAIN ActionMap :
          i \in Nat /\ i < c /\ i < from + Len(actions) /\ ActionMap[i] \in Action
    BY <1>1, <1>3 DEF PendingOK, ActionMap
  <2>4. \A i \in new : actions[i - from + 1] \in Action
    BY <2>2
  <2>5. DOMAIN TXHashes \subseteq DOMAIN ActionMap
    BY DEF PendingOK, ActionMap, TXHashes
  <2> HIDE DEF p, new, c
  <2>6. /\ DOMAIN p.ActionMap = DOMAIN ActionMap \cup new
        /\ \A i \in DOMAIN ActionMap : p.ActionMap[i] = ActionMap[i]
        /\ \A i \in new : p.ActionMap[i] = actions[i - from + 1]
    BY <2>1, <2>2, <2>3
  <2>7. PendingOK(p)
    BY <1>1, <2>1, <2>2, <2>3, <2>4, <2>5, <2>6 DEF PendingOK
  <2> QED
    BY <2>1, <2>6, <2>7 DEF p, new, c
<1> QED
  BY <1>1, <1>2, <1>3

(* The pending ids in increasing order: all of them, each once.  The       *)
(* position of an id is the number of ids up to it.                        *)
LEMMA SortedIDsFacts ==
    ASSUME PendingOK(Pending)
    PROVE  /\ SortedIDs \in Seq(Nat)
           /\ ToSet(SortedIDs) = DOMAIN ActionMap
           /\ \A i, j \in DOMAIN SortedIDs : i < j => SortedIDs[i] < SortedIDs[j]
<1> DEFINE ids == DOMAIN ActionMap
           n   == Cardinality(ids)
           upTo(x) == {y \in ids : y <= x}
           pos == [x \in ids |-> Cardinality(upTo(x))]
           Sorted(s) == \A i, j \in DOMAIN s : i < j => s[i] < s[j]
<1>1. /\ ids \subseteq Nat /\ IsFiniteSet(ids) /\ n \in Nat
  <2>1. ids \subseteq 0 .. Pending.CurrentID /\ Pending.CurrentID \in Nat
    BY DEF PendingOK, ActionMap
  <2>2. IsFiniteSet(0 .. Pending.CurrentID)
    BY <2>1, FS_Interval
  <2> QED
    BY <2>1, <2>2, FS_Subset, FS_CardinalityType
<1> HIDE DEF ids
<1>2. \A x \in ids : IsFiniteSet(upTo(x)) /\ Cardinality(upTo(x)) \in 1 .. n
  <2> SUFFICES ASSUME NEW x \in ids
               PROVE  IsFiniteSet(upTo(x)) /\ Cardinality(upTo(x)) \in 1 .. n
    OBVIOUS
  <2>1. IsFiniteSet(upTo(x)) /\ Cardinality(upTo(x)) <= n
    BY <1>1, FS_Subset
  <2>2. x \in upTo(x)
    BY <1>1
  <2>3. Cardinality(upTo(x)) # 0 /\ Cardinality(upTo(x)) \in Nat
    BY <2>1, <2>2, FS_EmptySet, FS_CardinalityType
  <2> QED
    BY <1>1, <2>1, <2>3
<1>3. \A x, y \in ids : x < y => pos[x] < pos[y]
  <2> SUFFICES ASSUME NEW x \in ids, NEW y \in ids, x < y
               PROVE  Cardinality(upTo(x)) < Cardinality(upTo(y))
    OBVIOUS
  <2>1. upTo(x) \subseteq upTo(y) /\ y \in upTo(y) /\ y \notin upTo(x)
    <3>1. x \in Nat /\ y \in Nat /\ \A z \in ids : z \in Nat
      BY <1>1
    <3>2. ~(y <= x) /\ y <= y /\ \A z \in ids : z <= x => z <= y
      BY <3>1
    <3>3. upTo(x) \subseteq upTo(y)
      BY <3>2, Zenon
    <3>4. y \in upTo(y) /\ y \notin upTo(x)
      BY <3>2, Zenon
    <3> QED
      BY <3>3, <3>4, Zenon
  <2>2. /\ Cardinality(upTo(x)) <= Cardinality(upTo(y))
        /\ Cardinality(upTo(x)) # Cardinality(upTo(y))
    BY <1>2, <2>1, FS_Subset
  <2> QED
    BY <1>2, <2>2
<1>4. pos \in Bijection(ids, 1 .. n)
  <2>1. pos \in [ids -> 1 .. n]
    BY <1>2
  <2>2. \A x, y \in ids : pos[x] = pos[y] => x = y
    <3> SUFFICES ASSUME NEW x \in ids, NEW y \in ids, x # y
                 PROVE  pos[x] # pos[y]
      OBVIOUS
    <3>1. pos[x] \in Nat /\ pos[y] \in Nat
      BY <1>1, <2>1
    <3>2. x < y \/ y < x
      BY <1>1
    <3> HIDE DEF pos
    <3> QED
      BY <1>3, <3>1, <3>2
  <2> HIDE DEF pos
  <2>3. pos \in Injection(ids, 1 .. n)
    BY <2>1, <2>2 DEF Injection, IsInjective
  <2>4. IsFiniteSet(1 .. n) /\ Cardinality(1 .. n) = n
    BY <1>1, FS_Interval
  <2>5. pos \in Surjection(ids, 1 .. n)
    BY <2>3, <2>4, FS_Injection
  <2> QED
    BY <2>3, <2>5 DEF Bijection
<1> HIDE DEF pos
<1>5. \E s \in [1 .. n -> ids] : Sorted(s)
  <2> DEFINE s == [i \in 1 .. n |-> CHOOSE x \in ids : pos[x] = i]
  <2>1. \A i \in 1 .. n : \E x \in ids : pos[x] = i
    BY <1>4 DEF Bijection, Surjection
  <2>2. \A i \in 1 .. n : s[i] \in ids /\ pos[s[i]] = i
    BY <2>1
  <2>3. s \in [1 .. n -> ids]
    BY <2>2
  <2> HIDE DEF s
  <2>4. \A i, j \in 1 .. n : i < j => s[i] < s[j]
    <3> SUFFICES ASSUME NEW i \in 1 .. n, NEW j \in 1 .. n, i < j
                 PROVE  s[i] < s[j]
      OBVIOUS
    <3>1. s[i] \in ids /\ s[j] \in ids /\ pos[s[i]] = i /\ pos[s[j]] = j
      BY <2>2
    <3>2. i \in Nat /\ j \in Nat /\ s[i] \in Nat /\ s[j] \in Nat
      <4>1. n \in Nat /\ i \in 1 .. n /\ j \in 1 .. n
        BY <1>1
      <4>2. s[i] \in Nat /\ s[j] \in Nat
        BY <1>1, <3>1, Zenon
      <4> HIDE DEF n
      <4> QED
        BY <4>1, <4>2
    <3>3. s[i] # s[j]
      BY <3>1, <3>2
    <3>4. CASE s[j] < s[i]
      <4>1. pos[s[j]] < pos[s[i]]
        BY <1>3, <3>1, <3>4
      <4> QED
        BY <3>1, <3>2, <4>1
    <3> QED
      BY <3>2, <3>3, <3>4
  <2> QED
    BY <2>3, <2>4
<1>6. SortedIDs \in [1 .. n -> ids] /\ Sorted(SortedIDs)
  BY <1>5 DEF SortedIDs, ids, ActionMap
<1> DEFINE s == SortedIDs
<1> HIDE DEF s
<1>7. s \in [1 .. n -> ids] /\ DOMAIN s = 1 .. n
       /\ \A i, j \in 1 .. n : i < j => s[i] < s[j]
  BY <1>6 DEF s
<1>8. s \in Surjection(1 .. n, ids)
  <2>1. \A i, j \in 1 .. n : s[i] = s[j] => i = j
    <3> SUFFICES ASSUME NEW i \in 1 .. n, NEW j \in 1 .. n, i # j
                 PROVE  s[i] # s[j]
      OBVIOUS
    <3>1. s[i] \in Nat /\ s[j] \in Nat
      BY <1>1, <1>7
    <3>2. i < j \/ j < i
      BY <1>1
    <3> QED
      BY <1>7, <3>1, <3>2
  <2>2. s \in Injection(1 .. n, ids)
    BY <1>7, <2>1 DEF Injection, IsInjective
  <2>3. Cardinality(1 .. n) = n
    BY <1>1, FS_Interval
  <2> QED
    BY <1>1, <2>2, <2>3, FS_Injection
<1>9. s \in Seq(Nat)
  <2>1. s \in [1 .. n -> Nat] /\ n \in Nat
    BY <1>1, <1>7
  <2> HIDE DEF n
  <2> QED
    BY <2>1
<1>10. ToSet(s) = ids
  BY <1>7, <1>8 DEF ToSet, Surjection
<1> QED
  BY <1>7, <1>9, <1>10 DEF s, ids

-----------------------------------------------------------------------------
(* Types.                                                                  *)

LEMMA ActionFacts ==
    /\ Message \in Action /\ Message.type # "tx"
    /\ \A a \in Action : a = Message \/ (a.type = "tx" /\ a.HalfStep \in Nat)
    /\ \A h \in 0 .. MaxHalfSteps : Execute(h) \in Action
<1>1. \A h \in 0 .. MaxHalfSteps : h \in Nat
  BY ConstantsAssumption
<1>2. Message \in Action /\ \A h \in 0 .. MaxHalfSteps : Execute(h) \in Action
  BY Zenon DEF Action
<1>3. Message.type # "tx"
  BY DEF Message
<1>4. \A a \in Action : a = Message \/ \E h \in 0 .. MaxHalfSteps : a = Execute(h)
  BY Zenon DEF Action
<1>5. \A h : Execute(h).type = "tx" /\ Execute(h).HalfStep = h
  BY DEF Execute
<1> QED
  BY <1>1, <1>2, <1>3, <1>4, <1>5, Zenon

LEMMA DecisionTypes ==
    ASSUME NEW m \in Nat, NEW n \in Nat, NEW h \in Nat, h + n <= MaxHalfSteps \/ n = 0
    PROVE  [i \in 1 .. m |-> Message] \o Executions(h, n) \in Seq(Action)
<1>1. [i \in 1 .. m |-> Message] \in Seq(Action)
  BY ActionFacts
<1>2. Executions(h, n) \in Seq(Action)
  <2>1. MaxHalfSteps \in Nat
    BY ConstantsAssumption
  <2>2. \A i \in 1 .. n : Execute(h + i - 1) \in Action
    BY <2>1, ActionFacts
  <2> QED
    BY <2>2 DEF Executions
<1> QED
  BY <1>1, <1>2

(* One of the actions, with its parameters, or a step that changes nothing.*)
LEMMA StepKinds ==
    ASSUME [Next]_vars
    PROVE  \/ \E h \in world .. chain.NumExecutionHalfSteps, m \in 0 .. MaxMessages,
                 n \in 0 .. MaxParallel, active \in BOOLEAN : DecideAndSave(h, m, n, active)
           \/ Add \/ Schedule \/ Scheduled \/ Loaded
           \/ \E answered \in BOOLEAN : SendMessage(answered)
           \/ \E answered \in BOOLEAN : SendTX(answered)
           \/ MessageSent \/ TakeTX \/ Expire \/ RecordTX \/ PassTX
           \/ \E id \in inFlight, error \in BOOLEAN : TXMined(id, error)
           \/ OtherExecutes
           \/ \E success \in BOOLEAN : Mine(success)
           \/ CrashAndRestart
           \/ UNCHANGED vars
BY DEF Next, MainLoop, Worker, MainChain

LEMMA MainLoopTypes ==
    ASSUME TypesOK, Counters,
           \/ \E h \in world .. chain.NumExecutionHalfSteps, m \in 0 .. MaxMessages,
                 n \in 0 .. MaxParallel, active \in BOOLEAN : DecideAndSave(h, m, n, active)
           \/ Add \/ Schedule \/ Scheduled \/ Loaded
    PROVE  TypesOK'
<1>1. ASSUME NEW h \in world .. chain.NumExecutionHalfSteps, NEW m \in 0 .. MaxMessages,
             NEW n \in 0 .. MaxParallel, NEW active \in BOOLEAN,
             DecideAndSave(h, m, n, active)
      PROVE  TypesOK'
  <2> DEFINE actions == [i \in 1 .. m |-> Message] \o Executions(h, n)
             waiting == IF active THEN StillPending(h) ELSE State.PendingHalfStep
  <2>1. /\ h \in Nat /\ m \in Nat /\ n \in Nat /\ h <= chain.NumExecutionHalfSteps
        /\ h + n <= MaxHalfSteps \/ n = 0
    <3>1. world \in Nat /\ chain.NumExecutionHalfSteps \in Nat
      BY DEF TypesOK
    <3>2. n > 0 => h + n <= MaxHalfSteps
      BY <1>1 DEF DecideAndSave
    <3> QED
      BY <3>1, <3>2, ConstantsAssumption
  <2>2. actions \in Seq(Action)
    BY <2>1, DecisionTypes
  <2>3. waiting \subseteq Nat
    BY DEF TypesOK, StateType, StillPending
  <2> HIDE DEF actions, waiting
  <2>4. State' = [State EXCEPT !.Actions = actions,
                               !.PendingHalfStep = IF n > 0 THEN {h + n - 1} ELSE waiting]
    BY <1>1 DEF DecideAndSave, actions, waiting
  <2>5. State' \in StateType
    <3>1. (IF n > 0 THEN {h + n - 1} ELSE waiting) \in SUBSET Nat
      BY <2>1, <2>3
    <3>2. State \in StateType
      BY DEF TypesOK
    <3> QED
      BY <2>2, <2>4, <3>1, <3>2 DEF StateType
  <2>6. stored' \in StateType
    <3>1. stored' = GobCopy(State')
      BY <1>1 DEF DecideAndSave
    <3> QED
      BY <2>5, <3>1 DEF GobCopy, StateType
  <2>7. decided' \in Seq(Action)
    <3>1. decided' = decided \o actions
      BY <1>1 DEF DecideAndSave, actions
    <3> QED
      BY <2>2, <3>1 DEF TypesOK
  <2>8. main' \in [pc : {"decide", "add", "schedule", "load"}, ids : Seq(Nat),
                   havePendingActions : BOOLEAN]
    BY <1>1 DEF DecideAndSave, TypesOK
  <2>9. world' = h /\ UNCHANGED <<Pending, workers, chain, delivered>>
    BY <1>1 DEF DecideAndSave
  <2> QED
    BY <2>1, <2>5, <2>6, <2>7, <2>8, <2>9 DEF TypesOK, workers
<1>2. CASE Add
  <2>1. /\ State.ActionCounter \in Nat /\ State.Actions \in Seq(Action)
        /\ State.ActionCounter <= Pending.CurrentID
        /\ Pending.CurrentID <= State.ActionCounter + Len(State.Actions)
    BY <1>2 DEF Add, TypesOK, StateType, Counters
  <2>2. PendingOK(Pending') /\ Pending'.CurrentID \in Nat /\ Pending.CurrentID \in Nat
    BY <1>2, <2>1, AddActionsFacts DEF Add, TypesOK, PendingOK
  <2>3. [i \in 1 .. Pending'.CurrentID - Pending.CurrentID |-> Pending.CurrentID + i - 1]
           \in Seq(Nat)
    <3>1. Pending'.CurrentID >= Pending.CurrentID
      BY <1>2, <2>1, AddActionsFacts DEF Add, TypesOK
    <3> DEFINE k == Pending'.CurrentID - Pending.CurrentID
    <3>2. k \in Nat /\ \A i \in 1 .. k : Pending.CurrentID + i - 1 \in Nat
      BY <2>2, <3>1
    <3> HIDE DEF k
    <3>3. [i \in 1 .. k |-> Pending.CurrentID + i - 1] \in Seq(Nat)
      BY <3>2
    <3> QED
      BY <3>3 DEF k
  <2> QED
    BY <1>2, <2>2, <2>3 DEF Add, TypesOK, workers, history
<1>3. CASE Schedule
  <2>1. main.ids \in Seq(Nat) /\ main.ids # <<>>
    BY <1>3 DEF Schedule, TypesOK
  <2>2. Head(main.ids) \in Nat /\ Tail(main.ids) \in Seq(Nat)
    BY <2>1
  <2>3. main' \in [pc : {"decide", "add", "schedule", "load"}, ids : Seq(Nat),
                   havePendingActions : BOOLEAN]
    BY <1>3, <2>2 DEF Schedule, TypesOK
  <2>4. /\ msgWorker' \in {Idle} \cup [pc : {"send", "remove"}, id : Nat]
        /\ mainChainTXs' \in Seq(Nat)
        /\ inFlight' \subseteq Nat
    <3> DEFINE id == Head(main.ids)
    <3>1. /\ msgWorker' = msgWorker \/ msgWorker' = Busy("send", id)
          /\ mainChainTXs' = mainChainTXs \/ mainChainTXs' = Append(mainChainTXs, id)
          /\ inFlight' = inFlight \/ inFlight' = inFlight \cup {id}
      BY <1>3 DEF Schedule
    <3>2. id \in Nat
      BY <2>2
    <3> HIDE DEF id
    <3>3. Busy("send", id) \in [pc : {"send", "remove"}, id : Nat]
      BY <3>2 DEF Busy
    <3>4. msgWorker' \in {Idle} \cup [pc : {"send", "remove"}, id : Nat]
      BY <3>1, <3>3, Zenon DEF TypesOK
    <3>5. mainChainTXs' \in Seq(Nat)
      <4>1. mainChainTXs \in Seq(Nat)
        BY DEF TypesOK
      <4>2. Append(mainChainTXs, id) \in Seq(Nat)
        BY <3>2, <4>1
      <4> QED
        BY <3>1, <4>1, <4>2, Zenon
    <3>6. inFlight' \subseteq Nat
      BY <3>1, <3>2 DEF TypesOK
    <3> QED
      BY <3>4, <3>5, <3>6
  <2> QED
    BY <1>3, <2>3, <2>4 DEF Schedule, TypesOK, history
<1>4. CASE Scheduled
  <2>1. /\ State.ActionCounter + Len(State.Actions) \in Nat /\ <<>> \in Seq(Action)
        /\ State \in StateType
    BY DEF TypesOK, StateType
  <2>2. State' \in StateType
    BY <1>4, <2>1 DEF Scheduled, StateType
  <2>3. main' \in [pc : {"decide", "add", "schedule", "load"}, ids : Seq(Nat),
                   havePendingActions : BOOLEAN]
    BY <1>4 DEF Scheduled, TypesOK
  <2> QED
    BY <1>4, <2>2, <2>3 DEF Scheduled, TypesOK, workers, history
<1>5. CASE Loaded
  BY <1>5 DEF Loaded, TypesOK, StateType, workers, history
<1> QED
  BY <1>1, <1>2, <1>3, <1>4, <1>5

LEMMA WorkerTypes ==
    ASSUME TypesOK, Places,
           \/ \E answered \in BOOLEAN : SendMessage(answered)
           \/ \E answered \in BOOLEAN : SendTX(answered)
           \/ MessageSent \/ TakeTX \/ Expire \/ RecordTX \/ PassTX
           \/ \E id \in inFlight, error \in BOOLEAN : TXMined(id, error)
    PROVE  TypesOK'
<1> DEFINE MsgWorker == {Idle} \cup [pc : {"send", "remove"}, id : Nat]
           TxWorker  == {Idle} \cup [pc : {"send", "sent", "pass"}, id : Nat]
           TX        == [id : Nat, HalfStep : Nat,
                         status : {"pending", "success", "reverted"}]
<1>1. /\ msgWorker.pc # "idle" => msgWorker.id \in Nat
      /\ txWorker.pc # "idle" => txWorker.id \in Nat /\ txWorker.id \in DOMAIN ActionMap
      /\ Idle.pc = "idle"
      /\ \A id \in Nat : Busy("remove", id) \in MsgWorker
      /\ \A id \in Nat : /\ Busy("send", id) \in TxWorker /\ Busy("sent", id) \in TxWorker
                         /\ Busy("pass", id) \in TxWorker
  <2>1. Idle.pc = "idle"
    BY DEF Idle
  <2>2. /\ msgWorker.pc # "idle" => msgWorker.id \in Nat
        /\ txWorker.pc # "idle" => txWorker.id \in Nat
    BY <2>1 DEF TypesOK
  <2>3. txWorker.pc # "idle" => txWorker.id \in DOMAIN ActionMap
    BY Zenon DEF Places, Held
  <2>4. \A id \in Nat : Busy("remove", id) \in MsgWorker
    BY DEF Busy
  <2>5. \A id \in Nat : /\ Busy("send", id) \in TxWorker /\ Busy("sent", id) \in TxWorker
                        /\ Busy("pass", id) \in TxWorker
    BY DEF Busy
  <2> QED
    BY <2>1, <2>2, <2>3, <2>4, <2>5
<1>2. ASSUME NEW answered \in BOOLEAN, SendMessage(answered)
      PROVE  TypesOK'
  <2>1. msgWorker.id \in Nat /\ Busy("remove", msgWorker.id) \in MsgWorker
    BY <1>1, <1>2 DEF SendMessage
  <2>2. delivered' \in Seq(Nat)
    BY <1>2, <2>1 DEF SendMessage, TypesOK
  <2>3. msgWorker' \in MsgWorker
    BY <1>2, <2>1 DEF SendMessage, TypesOK
  <2> QED
    BY <1>2, <2>2, <2>3 DEF SendMessage, TypesOK
<1>3. ASSUME NEW answered \in BOOLEAN, SendTX(answered)
      PROVE  TypesOK'
  <2> DEFINE id == txWorker.id
             tx == [id |-> id, HalfStep |-> ActionMap[id].HalfStep, status |-> "pending"]
  <2>1. id \in Nat /\ id \in DOMAIN ActionMap /\ Busy("sent", id) \in TxWorker
    BY <1>1, <1>3 DEF SendTX
  <2>2. ActionMap[id].HalfStep \in Nat
    <3>1. ActionMap[id] \in Action
      BY <2>1 DEF TypesOK, PendingOK, ActionMap
    <3>2. ActionMap[id].type = "tx"
      BY <1>3 DEF SendTX, Places
    <3> QED
      BY <3>1, <3>2, ActionFacts
  <2>3. tx \in TX
    BY <2>1, <2>2
  <2>4. chain' = [chain EXCEPT !.txs = Append(@, tx)]
    BY <1>3 DEF SendTX, ActionMap
  <2> HIDE DEF tx, TX
  <2>5. chain \in [NumExecutionHalfSteps : Nat, txs : Seq(TX)]
    BY DEF TypesOK, TX
  <2>6. /\ chain' \in [NumExecutionHalfSteps : Nat, txs : Seq(TX)]
        /\ chain'.NumExecutionHalfSteps = chain.NumExecutionHalfSteps
    <3> DEFINE txs == Append(chain.txs, tx)
    <3>1. txs \in Seq(TX)
      BY <2>3, <2>5
    <3>2. chain' = [chain EXCEPT !.txs = txs]
      BY <2>4
    <3> HIDE DEF txs
    <3> QED
      BY <2>5, <3>1, <3>2
  <2>7. txWorker' \in TxWorker
    BY <1>3, <2>1 DEF SendTX, TypesOK
  <2> QED
    BY <1>3, <2>6, <2>7 DEF SendTX, TypesOK, TX
<1>4. CASE MessageSent
  BY <1>4, RemoveActionFacts DEF MessageSent, TypesOK, history
<1>5. CASE TakeTX
  <2>1. Head(mainChainTXs) \in Nat /\ Tail(mainChainTXs) \in Seq(Nat)
    BY <1>5 DEF TakeTX, TypesOK
  <2>2. txWorker' \in TxWorker
    BY <1>1, <1>5, <2>1 DEF TakeTX
  <2> QED
    BY <1>5, <2>1, <2>2 DEF TakeTX, TypesOK, history
<1>6. CASE Expire
  BY <1>6, RemoveActionFacts DEF Expire, TypesOK, history
<1>7. CASE RecordTX
  <2>1. txWorker.id \in Nat /\ txWorker.id \in DOMAIN ActionMap
    BY <1>1, <1>7 DEF RecordTX
  <2>2. txWorker' \in TxWorker /\ PendingOK(Pending')
    BY <1>1, <1>7, <2>1, SetMainChainTXHashFacts DEF RecordTX, TypesOK
  <2> QED
    BY <1>7, <2>2 DEF RecordTX, TypesOK, history
<1>8. CASE PassTX
  BY <1>1, <1>8 DEF PassTX, TypesOK, history
<1>9. ASSUME NEW id \in inFlight, NEW error \in BOOLEAN, TXMined(id, error)
      PROVE  TypesOK'
  BY <1>9, RemoveActionFacts DEF TXMined, TypesOK, history
<1> QED
  BY <1>2, <1>3, <1>4, <1>5, <1>6, <1>7, <1>8, <1>9

(* Mining changes the status of one transaction and nothing else.          *)
LEMMA ChainFacts ==
    ASSUME TypesOK,
           OtherExecutes \/ \E success \in BOOLEAN : Mine(success)
    PROVE  /\ TypesOK'
           /\ chain.NumExecutionHalfSteps <= chain'.NumExecutionHalfSteps
           /\ Len(chain'.txs) = Len(chain.txs)
           /\ DOMAIN chain'.txs = DOMAIN chain.txs
           /\ \A i \in DOMAIN chain.txs : chain'.txs[i].id = chain.txs[i].id
<1> DEFINE TX    == [id : Nat, HalfStep : Nat,
                     status : {"pending", "success", "reverted"}]
           Chain == [NumExecutionHalfSteps : Nat, txs : Seq(TX)]
<1>1. chain \in Chain /\ world \in Nat /\ world <= chain.NumExecutionHalfSteps
  BY DEF TypesOK
<1> HIDE DEF TX
<1>2. CASE OtherExecutes
  <2>1. chain' \in Chain /\ chain'.txs = chain.txs
        /\ chain'.NumExecutionHalfSteps = chain.NumExecutionHalfSteps + 1
    BY <1>1, <1>2 DEF OtherExecutes
  <2> QED
    BY <1>1, <1>2, <2>1 DEF OtherExecutes, TypesOK, volatile, history, TX
<1>3. ASSUME NEW success \in BOOLEAN, Mine(success)
      PROVE  /\ TypesOK'
             /\ chain.NumExecutionHalfSteps <= chain'.NumExecutionHalfSteps
             /\ Len(chain'.txs) = Len(chain.txs)
             /\ DOMAIN chain'.txs = DOMAIN chain.txs
             /\ \A i \in DOMAIN chain.txs : chain'.txs[i].id = chain.txs[i].id
  <2> DEFINE status == IF success THEN "success" ELSE "reverted"
             halfSteps == IF success THEN chain.NumExecutionHalfSteps + 1
                                     ELSE chain.NumExecutionHalfSteps
             txs == [chain.txs EXCEPT ![NextTX] = [@ EXCEPT !.status = status]]
  <2>1. chain' = [chain EXCEPT !.txs = txs, !.NumExecutionHalfSteps = halfSteps]
    BY <1>3 DEF Mine
  <2>2. chain.txs \in Seq(TX) /\ halfSteps \in Nat
        /\ chain.NumExecutionHalfSteps <= halfSteps
    BY <1>1
  <2>3. \A tx \in TX : /\ [tx EXCEPT !.status = status] \in TX
                       /\ [tx EXCEPT !.status = status].id = tx.id
    BY DEF TX
  <2> HIDE DEF halfSteps, status
  <2>4. /\ txs \in Seq(TX) /\ Len(txs) = Len(chain.txs)
        /\ DOMAIN txs = DOMAIN chain.txs
        /\ \A i \in DOMAIN chain.txs : txs[i].id = chain.txs[i].id
    <3>1. DOMAIN txs = DOMAIN chain.txs
      OBVIOUS
    <3>2. ASSUME NEW i \in DOMAIN chain.txs
          PROVE  txs[i] \in TX /\ txs[i].id = chain.txs[i].id
      <4>1. chain.txs[i] \in TX
        BY <2>2
      <4>2. txs[i] = chain.txs[i] \/ txs[i] = [chain.txs[i] EXCEPT !.status = status]
        OBVIOUS
      <4> HIDE DEF txs
      <4> QED
        BY <2>3, <4>1, <4>2
    <3>3. txs = [i \in DOMAIN chain.txs |-> txs[i]]
      OBVIOUS
    <3> HIDE DEF txs
    <3>4. txs \in [1 .. Len(chain.txs) -> TX] /\ Len(chain.txs) \in Nat
      BY <2>2, <3>2, <3>3
    <3>5. txs \in Seq(TX) /\ Len(txs) = Len(chain.txs)
      BY <3>4
    <3> QED
      BY <3>1, <3>2, <3>5
  <2> HIDE DEF txs
  <2>5. chain' \in Chain /\ chain'.txs = txs /\ chain'.NumExecutionHalfSteps = halfSteps
    BY <1>1, <2>1, <2>2, <2>4
  <2>6. TypesOK'
    <3>1. world' = world /\ world <= halfSteps
      <4>1. world' = world
        BY <1>3 DEF Mine, history
      <4> HIDE DEF Chain
      <4> QED
        BY <1>1, <2>2, <4>1 DEF TypesOK
    <3>2. chain' \in Chain /\ world' <= chain'.NumExecutionHalfSteps
      BY <2>5, <3>1
    <3>3. UNCHANGED <<volatile, stored, Pending, world, delivered, decided>>
      BY <1>3 DEF Mine, history
    <3> QED
      BY <3>2, <3>3 DEF TypesOK, volatile, TX
  <2> QED
    BY <2>2, <2>4, <2>5, <2>6
<1> QED
  BY <1>2, <1>3

LEMMA CrashTypes ==
    ASSUME TypesOK, CrashAndRestart
    PROVE  TypesOK'
<1>1. SortedIDs \in Seq(Nat)
  BY SortedIDsFacts DEF TypesOK
<1>2. main' \in [pc : {"decide", "add", "schedule", "load"}, ids : Seq(Nat),
                 havePendingActions : BOOLEAN]
  BY <1>1 DEF CrashAndRestart
<1>3. chain.NumExecutionHalfSteps \in Nat
  BY DEF TypesOK
<1> QED
  BY <1>2, <1>3 DEF CrashAndRestart, TypesOK

-----------------------------------------------------------------------------
(* What the steps do to the pending actions, and to the counters.          *)

(* Add numbers the actions that were not added before, with the ids from   *)
(* CurrentID to the number of the actions decided on.                      *)
LEMMA AddEffect ==
    ASSUME TypesOK, Counters, Add
    PROVE  LET new == Pending.CurrentID .. Len(decided) - 1
           IN  /\ Pending'.CurrentID = Len(decided)
               /\ DOMAIN ActionMap' = DOMAIN ActionMap \cup new
               /\ \A id \in DOMAIN ActionMap : ActionMap'[id] = ActionMap[id]
               /\ \A id \in new : ActionMap'[id] = decided[id + 1]
               /\ TXHashes' = TXHashes
               /\ ToSet(main'.ids) = new
               /\ \A i, j \in DOMAIN main'.ids : i < j => main'.ids[i] < main'.ids[j]
<1> DEFINE from == stored.ActionCounter
           actions == stored.Actions
           c == Pending.CurrentID
           n == Len(decided)
           new == c .. n - 1
<1>1. /\ from \in Nat /\ actions \in Seq(Action) /\ c \in Nat /\ n \in Nat
      /\ from <= c /\ c <= n /\ from + Len(actions) = n
  BY DEF TypesOK, StateType, PendingOK, Counters
<1>2. Pending' = AddActions(from, actions)
  BY DEF Add, Counters
<1>3. /\ Pending'.CurrentID = n
      /\ DOMAIN ActionMap' = DOMAIN ActionMap \cup new
      /\ \A id \in DOMAIN ActionMap : ActionMap'[id] = ActionMap[id]
      /\ \A id \in new : ActionMap'[id] = actions[id - from + 1]
      /\ TXHashes' = TXHashes
  <2> DEFINE p == AddActions(from, actions)
  <2>1. PendingOK(Pending) /\ Pending.CurrentID <= from + Len(actions)
    BY <1>1 DEF TypesOK
  <2>2. /\ p.CurrentID = from + Len(actions)
        /\ DOMAIN p.ActionMap = DOMAIN ActionMap
                                   \cup Pending.CurrentID .. from + Len(actions) - 1
        /\ \A id \in DOMAIN ActionMap : p.ActionMap[id] = ActionMap[id]
        /\ \A id \in Pending.CurrentID .. from + Len(actions) - 1 :
              p.ActionMap[id] = actions[id - from + 1]
        /\ p.MainChainTXHashes = TXHashes
    <3> HIDE DEF from, actions, p
    <3> QED
      BY <1>1, <2>1, AddActionsFacts DEF p
  <2>3. Pending' = p /\ ActionMap' = p.ActionMap /\ TXHashes' = p.MainChainTXHashes
    BY <1>2 DEF ActionMap, TXHashes
  <2> HIDE DEF p, from, actions
  <2> QED
    BY <1>1, <2>2, <2>3
<1>4. \A id \in new : actions[id - from + 1] = decided[id + 1]
  <2> SUFFICES ASSUME NEW id \in new
               PROVE  actions[id - from + 1] = decided[id + 1]
    OBVIOUS
  <2>1. id - from + 1 \in DOMAIN actions /\ from + (id - from + 1) = id + 1
    BY <1>1
  <2> QED
    BY <2>1 DEF Counters
<1>5. main'.ids = [i \in 1 .. n - c |-> c + i - 1]
  BY <1>3 DEF Add, TypesOK
<1>6. ToSet(main'.ids) = new
  <2> HIDE DEF c, n
  <2>1. \A id \in c .. n - 1 : id - c + 1 \in 1 .. n - c /\ c + (id - c + 1) - 1 = id
    BY <1>1
  <2>2. \A i \in 1 .. n - c : c + i - 1 \in c .. n - 1
    BY <1>1
  <2> QED
    BY <1>5, <2>1, <2>2 DEF ToSet
<1>7. \A i, j \in DOMAIN main'.ids : i < j => main'.ids[i] < main'.ids[j]
  BY <1>1, <1>5
<1> QED
  BY <1>3, <1>4, <1>6, <1>7

(* RemoveAction, whoever calls it.                                         *)
LEMMA RemoveEffect ==
    ASSUME TypesOK, NEW id, Pending' = RemoveAction(id)
    PROVE  /\ Pending'.CurrentID = Pending.CurrentID
           /\ DOMAIN ActionMap' = DOMAIN ActionMap \ {id}
           /\ \A i \in DOMAIN ActionMap' : ActionMap'[i] = ActionMap[i]
           /\ DOMAIN TXHashes' = DOMAIN TXHashes \ {id}
BY RemoveActionFacts DEF TypesOK, ActionMap, TXHashes

LEMMA RecordEffect ==
    ASSUME TypesOK, Places, RecordTX
    PROVE  /\ Pending'.CurrentID = Pending.CurrentID
           /\ ActionMap' = ActionMap
           /\ DOMAIN TXHashes' = DOMAIN TXHashes \cup {txWorker.id}
<1>1. txWorker.id \in DOMAIN ActionMap
  BY DEF RecordTX, Places, Held
<1> QED
  BY <1>1, SetMainChainTXHashFacts DEF TypesOK, ActionMap, TXHashes, RecordTX

LEMMA CountersStep ==
    ASSUME TypesOK, Counters, Places, [Next]_vars
    PROVE  Counters'
<1>1. ASSUME NEW h \in world .. chain.NumExecutionHalfSteps, NEW m \in 0 .. MaxMessages,
             NEW n \in 0 .. MaxParallel, NEW active \in BOOLEAN,
             DecideAndSave(h, m, n, active)
      PROVE  Counters'
  <2> DEFINE actions == [i \in 1 .. m |-> Message] \o Executions(h, n)
  <2>1. decided \in Seq(Action) /\ State \in StateType
    BY DEF TypesOK
  <2>2. actions \in Seq(Action)
    <3>1. world \in Nat /\ chain.NumExecutionHalfSteps \in Nat
      BY DEF TypesOK
    <3>2. h \in Nat /\ m \in Nat /\ n \in Nat /\ (h + n <= MaxHalfSteps \/ n = 0)
      BY <1>1, <3>1, ConstantsAssumption DEF DecideAndSave
    <3> QED
      BY <3>2, DecisionTypes
  <2> HIDE DEF actions
  <2>3. /\ State'.ActionCounter = State.ActionCounter /\ State'.Actions = actions
        /\ stored'.ActionCounter = State.ActionCounter /\ stored'.Actions = actions
    BY <1>1, <2>1 DEF DecideAndSave, actions, GobCopy, StateType
  <2>4. State.ActionCounter = Len(decided) /\ Pending.CurrentID = Len(decided)
        /\ main.ids = <<>>
    BY <1>1 DEF DecideAndSave, Counters
  <2>5. decided' = decided \o actions /\ Pending' = Pending
        /\ main' = [main EXCEPT !.pc = IF actions = <<>> THEN "decide" ELSE "add"]
    BY <1>1 DEF DecideAndSave, actions
  <2>6. /\ Len(decided') = Len(decided) + Len(actions)
        /\ \A i \in DOMAIN actions : decided'[Len(decided) + i] = actions[i]
        /\ Len(decided) \in Nat /\ Len(actions) \in Nat
        /\ actions = <<>> => Len(actions) = 0
    BY <2>1, <2>2, <2>5
  <2>7. main'.pc = (IF actions = <<>> THEN "decide" ELSE "add") /\ main'.ids = <<>>
    BY <2>4, <2>5 DEF TypesOK
  <2>8. /\ stored'.ActionCounter + Len(stored'.Actions) = Len(decided')
        /\ stored'.ActionCounter <= Pending'.CurrentID
        /\ Pending'.CurrentID <= Len(decided')
        /\ actions = <<>> => Len(decided') = Len(decided)
    BY <2>3, <2>4, <2>5, <2>6
  <2>9. \A i \in DOMAIN stored'.Actions :
          stored'.Actions[i] = decided'[stored'.ActionCounter + i]
    BY <2>3, <2>4, <2>6, Zenon
  <2>10. /\ main'.pc \in {"schedule", "decide"} => actions = <<>>
         /\ main'.pc = "decide" => actions = <<>>
    BY <2>7
  <2>11. Pending'.CurrentID = Len(decided) /\ State'.ActionCounter = Len(decided)
    BY <2>3, <2>4, <2>5
  <2>12. main'.pc \in {"schedule", "decide"} => Pending'.CurrentID = Len(decided')
    BY <2>8, <2>10, <2>11
  <2>13. main'.pc = "decide" => /\ State'.ActionCounter = Len(decided')
                                /\ State'.Actions = <<>>
    BY <2>3, <2>8, <2>10, <2>11
  <2>14. /\ State'.ActionCounter = stored'.ActionCounter
         /\ State'.Actions = stored'.Actions
    BY <2>3
  <2> QED
    BY <2>7, <2>8, <2>9, <2>12, <2>13, <2>14, Zenon DEF Counters
<1>2. CASE Add
  <2>1. Pending'.CurrentID = Len(decided) /\ Len(decided) \in Nat
    BY <1>2, AddEffect DEF TypesOK
  <2>2. main'.pc = "schedule" /\ stored.ActionCounter <= Len(decided)
    BY <1>2 DEF Add, TypesOK, Counters, StateType, PendingOK
  <2> QED
    BY <1>2, <2>1, <2>2 DEF Add, Counters, history
<1>3. CASE Schedule
  <2>1. main'.pc = main.pc /\ main.pc \in {"schedule", "load"}
    BY <1>3 DEF Schedule, TypesOK
  <2> QED
    BY <1>3, <2>1 DEF Schedule, Counters, history
<1>4. CASE Scheduled
  <2>1. main.pc = "schedule" /\ main'.pc = "decide" /\ main'.ids = <<>>
    BY <1>4 DEF Scheduled, TypesOK
  <2>2. State'.ActionCounter = State.ActionCounter + Len(State.Actions)
        /\ State'.Actions = <<>>
    BY <1>4 DEF Scheduled, TypesOK, StateType
  <2> QED
    BY <1>4, <2>1, <2>2 DEF Scheduled, Counters, history
<1>5. CASE Loaded
  <2>1. /\ main.pc = "load" /\ main'.ids = <<>>
        /\ main'.pc = IF State.Actions = <<>> THEN "decide" ELSE "add"
    BY <1>5 DEF Loaded, TypesOK
  <2>2. State'.ActionCounter = State.ActionCounter /\ State'.Actions = State.Actions
    BY <1>5 DEF Loaded, TypesOK, StateType
  <2>3. State.Actions = <<>> => Len(State.Actions) = 0
    OBVIOUS
  <2>4. stored.ActionCounter \in Nat /\ Pending.CurrentID \in Nat /\ Len(decided) \in Nat
    BY DEF TypesOK, StateType, PendingOK
  <2> QED
    BY <1>5, <2>1, <2>2, <2>3, <2>4 DEF Loaded, Counters, history
<1>6. ASSUME NEW answered \in BOOLEAN, SendMessage(answered)
      PROVE  Counters'
  BY <1>6 DEF SendMessage, Counters
<1>7. ASSUME NEW answered \in BOOLEAN, SendTX(answered)
      PROVE  Counters'
  BY <1>7 DEF SendTX, Counters
<1>8. CASE MessageSent
  BY <1>8, RemoveEffect DEF MessageSent, Counters, history
<1>9. CASE TakeTX
  BY <1>9 DEF TakeTX, Counters, history
<1>10. CASE Expire
  BY <1>10, RemoveEffect DEF Expire, Counters, history
<1>11. CASE RecordTX
  BY <1>11, RecordEffect DEF RecordTX, Counters, history
<1>12. CASE PassTX
  BY <1>12 DEF PassTX, Counters, history
<1>13. ASSUME NEW id \in inFlight, NEW error \in BOOLEAN, TXMined(id, error)
       PROVE  Counters'
  BY <1>13, RemoveEffect DEF TXMined, Counters, history
<1>14. CASE OtherExecutes
  BY <1>14 DEF OtherExecutes, Counters, history, volatile
<1>15. ASSUME NEW success \in BOOLEAN, Mine(success)
       PROVE  Counters'
  BY <1>15 DEF Mine, Counters, history, volatile
<1>16. CASE CrashAndRestart
  BY <1>16 DEF CrashAndRestart, Counters
<1>17. CASE UNCHANGED vars
  BY <1>17 DEF vars, Counters
<1> QED
  BY StepKinds, <1>1, <1>2, <1>3, <1>4, <1>5, <1>6, <1>7, <1>8, <1>9, <1>10, <1>11,
     <1>12, <1>13, <1>14, <1>15, <1>16, <1>17

-----------------------------------------------------------------------------
(* Where the ids are.                                                      *)

(* The next id to be scheduled is in no other place, and the later ones    *)
(* are greater.                                                            *)
LEMMA HeadFacts ==
    ASSUME TypesOK, Places, main.ids # <<>>
    PROVE  LET id == Head(main.ids) IN
           /\ id \in Nat /\ id \in DOMAIN ActionMap /\ id \in ToSet(main.ids)
           /\ id \notin Held
           /\ \A held \in Held : held < id
           /\ \A i \in DOMAIN Tail(main.ids) : id < Tail(main.ids)[i]
           /\ ToSet(main.ids) = ToSet(Tail(main.ids)) \cup {id}
           /\ \A i, j \in DOMAIN Tail(main.ids) :
                 i < j => Tail(main.ids)[i] < Tail(main.ids)[j]
<1> DEFINE ids == main.ids
           id == Head(ids)
           t  == Tail(ids)
<1>1. ids \in Seq(Nat) /\ ids # <<>>
  BY DEF TypesOK
<1>2. \A i, j \in DOMAIN ids : i < j => ids[i] < ids[j]
  BY DEF Places
<1>3. id \in Nat /\ id = ids[1] /\ 1 \in DOMAIN ids
  BY <1>1
<1>4. /\ \A i \in DOMAIN t : i \in Nat /\ i + 1 \in DOMAIN ids /\ t[i] = ids[i + 1] /\ 1 < i + 1
      /\ \A i \in DOMAIN ids : i # 1 => i - 1 \in DOMAIN t /\ ids[i] = t[i - 1]
  BY <1>1
<1>5. id \in ToSet(ids)
  BY <1>3 DEF ToSet
<1>6. id \in DOMAIN ActionMap /\ \A held \in Held : held < id
  BY <1>5 DEF Places
<1> HIDE DEF ids, id, t
<1>7. \A i \in DOMAIN t : id < t[i]
  BY <1>2, <1>3, <1>4
<1>8. \A i, j \in DOMAIN t : i < j => t[i] < t[j]
  <2> SUFFICES ASSUME NEW i \in DOMAIN t, NEW j \in DOMAIN t, i < j
               PROVE  t[i] < t[j]
    OBVIOUS
  <2>1. i + 1 < j + 1
    BY <1>4
  <2> QED
    BY <1>2, <1>4, <2>1
<1>9. ToSet(ids) = ToSet(t) \cup {id}
  BY <1>3, <1>4 DEF ToSet
<1>10. id \notin Held
  BY <1>3, <1>6
<1> QED
  BY <1>3, <1>5, <1>6, <1>7, <1>8, <1>9, <1>10 DEF ids, id, t

LEMMA SchedulePlaces ==
    ASSUME TypesOK, Places, Schedule
    PROVE  Places'
<1> DEFINE id == Head(main.ids)
           t  == Tail(main.ids)
<1>1. main.ids # <<>> /\ main'.ids = t /\ t \in Seq(Nat)
  BY DEF Schedule, TypesOK
<1>2. /\ id \in Nat /\ id \in DOMAIN ActionMap /\ id \notin Held
      /\ \A held \in Held : held < id
      /\ \A i \in DOMAIN t : id < t[i]
      /\ ToSet(main.ids) = ToSet(t) \cup {id}
      /\ \A i, j \in DOMAIN t : i < j => t[i] < t[j]
  BY <1>1, HeadFacts
<1>3. /\ Pending' = Pending /\ ActionMap' = ActionMap /\ TXHashes' = TXHashes
      /\ txWorker' = txWorker
  BY DEF Schedule, ActionMap, TXHashes
<1>4. /\ ToSet(t) \subseteq DOMAIN ActionMap
      /\ \A x \in ToSet(t), held \in Held : held < x
      /\ \A x \in ToSet(t) : id < x
  BY <1>2 DEF Places, ToSet
<1>5. mainChainTXs \in Seq(Nat)
  BY DEF TypesOK
<1>6. ActionMap[id].type # "tx" => ActionMap[id] = Message
  BY <1>2, ActionFacts DEF TypesOK, PendingOK, ActionMap
<1> HIDE DEF id, t
<1>7. CASE /\ ActionMap[id].type # "tx" /\ msgWorker.pc = "idle"
           /\ msgWorker' = Busy("send", id)
           /\ UNCHANGED <<mainChainTXs, inFlight>>
  <2>1. msgWorker'.pc = "send" /\ msgWorker'.id = id
    BY <1>7 DEF Busy
  <2>2. Held' = Held \cup {id}
    BY <1>3, <1>7, <2>1 DEF Held
  <2>3. /\ \A x \in ToSet(main'.ids), held \in Held' : held < x
        /\ Held' \subseteq DOMAIN ActionMap'
    BY <1>1, <1>2, <1>3, <1>4, <2>2 DEF Places
  <2> QED
    BY <1>1, <1>2, <1>3, <1>4, <1>6, <1>7, <2>1, <2>3 DEF Places
<1>8. CASE /\ ActionMap[id].type = "tx" /\ id \notin DOMAIN TXHashes
           /\ mainChainTXs' = Append(mainChainTXs, id)
           /\ UNCHANGED <<msgWorker, inFlight>>
  <2>1. ToSet(mainChainTXs') = ToSet(mainChainTXs) \cup {id}
    BY <1>5, <1>8 DEF ToSet
  <2>2. Held' = Held \cup {id}
    BY <1>3, <1>8, <2>1 DEF Held
  <2>3. /\ \A x \in ToSet(main'.ids), held \in Held' : held < x
        /\ Held' \subseteq DOMAIN ActionMap'
    BY <1>1, <1>2, <1>3, <1>4, <2>2 DEF Places
  <2>4. \A i \in DOMAIN mainChainTXs' :
           \/ i \in DOMAIN mainChainTXs /\ mainChainTXs'[i] = mainChainTXs[i]
           \/ i = Len(mainChainTXs) + 1 /\ mainChainTXs'[i] = id
    BY <1>5, <1>8
  <2>5. /\ \A i \in DOMAIN mainChainTXs : mainChainTXs[i] # id
        /\ txWorker.pc # "idle" => txWorker.id # id
    BY <1>2 DEF Held, ToSet
  <2>6. \A i \in DOMAIN mainChainTXs' :
          /\ mainChainTXs'[i] \notin DOMAIN TXHashes
          /\ ActionMap[mainChainTXs'[i]].type = "tx"
          /\ txWorker.pc # "idle" => txWorker.id # mainChainTXs'[i]
          /\ \A j \in DOMAIN mainChainTXs' :
                mainChainTXs'[i] = mainChainTXs'[j] => i = j
    BY <1>8, <2>4, <2>5 DEF Places
  <2> QED
    BY <1>1, <1>2, <1>3, <1>4, <1>8, <2>3, <2>6 DEF Places
<1>9. CASE /\ ActionMap[id].type = "tx" /\ id \in DOMAIN TXHashes
           /\ inFlight' = inFlight \cup {id}
           /\ UNCHANGED <<msgWorker, mainChainTXs>>
  <2>1. Held' = Held \cup {id}
    BY <1>3, <1>9 DEF Held
  <2>2. /\ \A x \in ToSet(main'.ids), held \in Held' : held < x
        /\ Held' \subseteq DOMAIN ActionMap'
    BY <1>1, <1>2, <1>3, <1>4, <2>1 DEF Places
  <2>3. txWorker.pc # "idle" => txWorker.id # id
    BY <1>2 DEF Held
  <2> QED
    BY <1>1, <1>2, <1>3, <1>4, <1>9, <2>2, <2>3 DEF Places
<1> QED
  BY <1>7, <1>8, <1>9 DEF Schedule, ActionMap, TXHashes, id

(* Whoever removes an action held it alone.                                *)
LEMMA RemovePlaces ==
    ASSUME TypesOK, Places, NEW id \in Held, Pending' = RemoveAction(id),
           id \notin Held', Held' \subseteq Held, main' = main,
           mainChainTXs' = mainChainTXs, inFlight' \subseteq inFlight,
           msgWorker' = msgWorker \/ msgWorker' = Idle,
           txWorker' = txWorker \/ txWorker' = Idle
    PROVE  Places'
<1>1. /\ DOMAIN ActionMap' = DOMAIN ActionMap \ {id}
      /\ \A i \in DOMAIN ActionMap' : ActionMap'[i] = ActionMap[i]
      /\ DOMAIN TXHashes' = DOMAIN TXHashes \ {id}
  BY RemoveEffect
<1>2. Idle.pc = "idle"
  BY DEF Idle
<1>3. id \notin ToSet(main.ids)
  <2>1. id \in Nat
    BY DEF Places, TypesOK, PendingOK, ActionMap
  <2> QED
    BY <2>1 DEF Places
<1>4. /\ ToSet(main'.ids) \subseteq DOMAIN ActionMap'
      /\ \A i, j \in DOMAIN main'.ids : i < j => main'.ids[i] < main'.ids[j]
      /\ \A x \in ToSet(main'.ids), held \in Held' : held < x
      /\ Held' \subseteq DOMAIN ActionMap'
  BY <1>1, <1>3 DEF Places
<1>5. /\ msgWorker'.pc # "idle" => msgWorker' = msgWorker /\ msgWorker.id \in Held'
      /\ txWorker'.pc # "idle" => txWorker' = txWorker /\ txWorker.id \in Held'
      /\ \A x \in inFlight' : x \in Held'
      /\ \A i \in DOMAIN mainChainTXs : mainChainTXs[i] \in Held'
  BY <1>2 DEF Held, ToSet
<1>6. /\ \A x \in Held' : x # id /\ ActionMap'[x] = ActionMap[x]
      /\ \A x \in Held' : x \in DOMAIN TXHashes' <=> x \in DOMAIN TXHashes
  BY <1>1, <1>4
<1>7. msgWorker'.pc # "idle" => ActionMap'[msgWorker'.id] = Message
  BY <1>5, <1>6 DEF Places
<1>8. /\ txWorker'.pc # "idle" => ActionMap'[txWorker'.id].type = "tx"
      /\ txWorker'.pc \in {"send", "sent"} => txWorker'.id \notin DOMAIN TXHashes'
      /\ txWorker'.pc = "pass" => /\ txWorker'.id \in DOMAIN TXHashes'
                                  /\ txWorker'.id \notin inFlight'
  BY <1>5, <1>6 DEF Places
<1>9. \A x \in inFlight' : x \in DOMAIN TXHashes' /\ ActionMap'[x].type = "tx"
  BY <1>5, <1>6 DEF Places
<1>10. \A i \in DOMAIN mainChainTXs' :
          /\ mainChainTXs'[i] \notin DOMAIN TXHashes'
          /\ ActionMap'[mainChainTXs'[i]].type = "tx"
          /\ txWorker'.pc # "idle" => txWorker'.id # mainChainTXs'[i]
          /\ \A j \in DOMAIN mainChainTXs' :
                mainChainTXs'[i] = mainChainTXs'[j] => i = j
  BY <1>5, <1>6 DEF Places
<1> QED
  BY <1>4, <1>7, <1>8, <1>9, <1>10 DEF Places

LEMMA TakeTXPlaces ==
    ASSUME TypesOK, Places, TakeTX
    PROVE  Places'
<1> DEFINE id == Head(mainChainTXs)
           t  == Tail(mainChainTXs)
<1>1. /\ mainChainTXs \in Seq(Nat) /\ mainChainTXs # <<>> /\ txWorker.pc = "idle"
      /\ mainChainTXs' = t
  BY DEF TakeTX, TypesOK
<1>2. /\ id = mainChainTXs[1] /\ 1 \in DOMAIN mainChainTXs
      /\ \A i \in DOMAIN t : /\ i + 1 \in DOMAIN mainChainTXs /\ i + 1 # 1
                             /\ t[i] = mainChainTXs[i + 1] /\ i \in Nat
      /\ \A i \in DOMAIN mainChainTXs :
            i # 1 => i - 1 \in DOMAIN t /\ mainChainTXs[i] = t[i - 1]
  BY <1>1
<1>3. txWorker'.pc = "send" /\ txWorker'.id = id
  BY DEF TakeTX, Busy
<1>4. UNCHANGED <<main, ActionMap, TXHashes, msgWorker, inFlight>>
  BY DEF TakeTX, ActionMap, TXHashes
<1> HIDE DEF id, t
<1>5. ToSet(mainChainTXs) = ToSet(t) \cup {id}
  BY <1>2 DEF ToSet
<1>6. Held' = Held
  BY <1>1, <1>3, <1>4, <1>5 DEF Held
<1>7. id \notin DOMAIN TXHashes /\ ActionMap[id].type = "tx"
  BY <1>2 DEF Places
<1>8. \A i \in DOMAIN t : /\ t[i] \notin DOMAIN TXHashes /\ ActionMap[t[i]].type = "tx"
                          /\ id # t[i]
                          /\ \A j \in DOMAIN t : t[i] = t[j] => i = j
  <2> SUFFICES ASSUME NEW i \in DOMAIN t
               PROVE  /\ t[i] \notin DOMAIN TXHashes /\ ActionMap[t[i]].type = "tx"
                      /\ id # t[i]
                      /\ \A j \in DOMAIN t : t[i] = t[j] => i = j
    OBVIOUS
  <2>1. t[i] \notin DOMAIN TXHashes /\ ActionMap[t[i]].type = "tx" /\ id # t[i]
    BY <1>2 DEF Places
  <2>2. \A j \in DOMAIN t : t[i] = t[j] => i + 1 = j + 1
    BY <1>2 DEF Places
  <2> QED
    BY <1>2, <2>1, <2>2
<1> QED
  BY <1>1, <1>3, <1>4, <1>6, <1>7, <1>8 DEF Places

LEMMA RecordTXPlaces ==
    ASSUME TypesOK, Places, RecordTX
    PROVE  Places'
<1> DEFINE id == txWorker.id
<1>1. /\ ActionMap' = ActionMap
      /\ DOMAIN TXHashes' = DOMAIN TXHashes \cup {id}
  BY RecordEffect
<1>2. /\ txWorker.pc = "sent" /\ txWorker'.pc = "pass" /\ txWorker'.id = id
      /\ UNCHANGED <<main, msgWorker, mainChainTXs, inFlight>>
  BY DEF RecordTX, Busy
<1>3. Held' = Held
  BY <1>2 DEF Held
<1>4. /\ id \notin inFlight
      /\ \A i \in DOMAIN mainChainTXs : mainChainTXs[i] # id
  BY <1>2 DEF Places
<1> QED
  BY <1>1, <1>2, <1>3, <1>4 DEF Places

LEMMA PassTXPlaces ==
    ASSUME TypesOK, Places, PassTX
    PROVE  Places'
<1> DEFINE id == txWorker.id
<1>1. /\ txWorker.pc = "pass" /\ txWorker'.pc = "idle"
      /\ inFlight' = inFlight \cup {id}
      /\ UNCHANGED <<main, ActionMap, TXHashes, msgWorker, mainChainTXs>>
  BY DEF PassTX, Idle, ActionMap, TXHashes
<1>2. Held' = Held
  BY <1>1 DEF Held
<1> QED
  BY <1>1, <1>2 DEF Places

LEMMA CrashPlaces ==
    ASSUME TypesOK, CrashAndRestart
    PROVE  Places'
<1>1. main'.ids = SortedIDs /\ UNCHANGED <<ActionMap, TXHashes>>
  BY DEF CrashAndRestart, ActionMap, TXHashes
<1>2. /\ ToSet(SortedIDs) = DOMAIN ActionMap
      /\ \A i, j \in DOMAIN SortedIDs : i < j => SortedIDs[i] < SortedIDs[j]
  BY SortedIDsFacts DEF TypesOK
<1>3. msgWorker'.pc = "idle" /\ txWorker'.pc = "idle" /\ mainChainTXs' = <<>> /\ inFlight' = {}
  BY DEF CrashAndRestart, Idle
<1>4. DOMAIN mainChainTXs' = {} /\ ToSet(mainChainTXs') = {}
  BY <1>3 DEF ToSet
<1>5. Held' = {}
  BY <1>3, <1>4 DEF Held
<1> QED
  BY <1>1, <1>2, <1>3, <1>4, <1>5 DEF Places

(* A step that leaves the actions and the workers where they are.          *)
LEMMA SamePlaces ==
    ASSUME Places, Pending' = Pending, mainChainTXs' = mainChainTXs,
           inFlight' = inFlight, main'.ids = main.ids,
           msgWorker'.pc = "idle" <=> msgWorker.pc = "idle",
           msgWorker.pc # "idle" => msgWorker'.id = msgWorker.id,
           \/ txWorker' = txWorker
           \/ txWorker.pc = "send" /\ txWorker' = Busy("sent", txWorker.id)
    PROVE  Places'
<1>1. /\ txWorker'.pc = "idle" <=> txWorker.pc = "idle"
      /\ txWorker.pc # "idle" => txWorker'.id = txWorker.id
      /\ txWorker'.pc \in {"send", "sent"} => txWorker.pc \in {"send", "sent"}
      /\ txWorker'.pc = "pass" => txWorker.pc = "pass"
  BY DEF Busy
<1>2. UNCHANGED <<Held, ActionMap, TXHashes>>
  BY <1>1 DEF Held, ActionMap, TXHashes
<1> QED
  BY <1>1, <1>2 DEF Places

LEMMA PlacesStep ==
    ASSUME TypesOK, Counters, Places, [Next]_vars
    PROVE  Places'
<1>1. ASSUME NEW h \in world .. chain.NumExecutionHalfSteps, NEW m \in 0 .. MaxMessages,
             NEW n \in 0 .. MaxParallel, NEW active \in BOOLEAN,
             DecideAndSave(h, m, n, active)
      PROVE  Places'
  <2>1. main'.ids = main.ids
    BY <1>1 DEF DecideAndSave, TypesOK
  <2> QED
    BY <1>1, <2>1, SamePlaces DEF DecideAndSave, workers
<1>2. CASE Add
  <2> DEFINE new == Pending.CurrentID .. Len(decided) - 1
  <2>1. /\ DOMAIN ActionMap' = DOMAIN ActionMap \cup new
        /\ \A id \in DOMAIN ActionMap : ActionMap'[id] = ActionMap[id]
        /\ TXHashes' = TXHashes
        /\ ToSet(main'.ids) = new
        /\ \A i, j \in DOMAIN main'.ids : i < j => main'.ids[i] < main'.ids[j]
    BY <1>2, AddEffect
  <2>2. /\ Pending.CurrentID \in Nat /\ Len(decided) \in Nat
        /\ \A id \in DOMAIN ActionMap : id \in Nat /\ id < Pending.CurrentID
    BY DEF TypesOK, PendingOK, ActionMap
  <2>3. UNCHANGED <<msgWorker, txWorker, mainChainTXs, inFlight>>
    BY <1>2 DEF Add, workers
  <2>4. Held' = Held /\ Held \subseteq DOMAIN ActionMap
    BY <2>3 DEF Held, Places
  <2>5. \A id \in new, held \in Held : held < id
    BY <2>2, <2>4
  <2>6. /\ msgWorker.pc # "idle" => msgWorker.id \in DOMAIN ActionMap
        /\ txWorker.pc # "idle" => txWorker.id \in DOMAIN ActionMap
        /\ inFlight \subseteq DOMAIN ActionMap
        /\ \A i \in DOMAIN mainChainTXs : mainChainTXs[i] \in DOMAIN ActionMap
    BY <2>4 DEF Held, ToSet
  <2> HIDE DEF new
  <2>7. ToSet(main'.ids) \subseteq DOMAIN ActionMap' /\ Held' \subseteq DOMAIN ActionMap'
    BY <2>1, <2>4
  <2>8. \A id \in ToSet(main'.ids), held \in Held' : held < id
    BY <2>1, <2>4, <2>5
  <2> QED
    BY <2>1, <2>3, <2>6, <2>7, <2>8 DEF Places
<1>3. CASE Schedule
  BY <1>3, SchedulePlaces
<1>4. CASE Scheduled
  <2>1. main'.ids = main.ids
    BY <1>4 DEF Scheduled, TypesOK
  <2> QED
    BY <1>4, <2>1, SamePlaces DEF Scheduled, workers
<1>5. CASE Loaded
  <2>1. main'.ids = main.ids
    BY <1>5 DEF Loaded, TypesOK
  <2> QED
    BY <1>5, <2>1, SamePlaces DEF Loaded, workers
<1>6. ASSUME NEW answered \in BOOLEAN, SendMessage(answered)
      PROVE  Places'
  <2>1. /\ msgWorker'.pc # "idle" /\ msgWorker.pc # "idle"
        /\ msgWorker'.id = msgWorker.id
    BY <1>6 DEF SendMessage, Busy
  <2> QED
    BY <1>6, <2>1, SamePlaces DEF SendMessage
<1>7. ASSUME NEW answered \in BOOLEAN, SendTX(answered)
      PROVE  Places'
  BY <1>7, SamePlaces DEF SendTX
<1>8. CASE MessageSent
  <2> DEFINE id == msgWorker.id
  <2>1. msgWorker.pc # "idle" /\ msgWorker' = Idle /\ msgWorker'.pc = "idle"
        /\ UNCHANGED <<main, mainChainTXs, inFlight, txWorker>>
    BY <1>8 DEF MessageSent, Idle
  <2>2. id \in Held /\ Held' \subseteq Held
    BY <2>1 DEF Held
  <2>3. id \notin Held'
    <3>1. ActionMap[id] = Message
      BY <2>1 DEF Places
    <3>2. \A x \in ToSet(mainChainTXs) \cup inFlight : ActionMap[x].type = "tx"
      BY DEF Places, ToSet
    <3>3. txWorker.pc # "idle" => ActionMap[txWorker.id].type = "tx"
      BY DEF Places
    <3> HIDE DEF id
    <3> QED
      BY <2>1, <3>1, <3>2, <3>3, ActionFacts DEF Held
  <2> QED
    BY <1>8, <2>1, <2>2, <2>3, RemovePlaces DEF MessageSent
<1>9. CASE TakeTX
  BY <1>9, TakeTXPlaces
<1>10. CASE Expire
  <2> DEFINE id == txWorker.id
  <2>1. txWorker.pc = "send" /\ txWorker' = Idle /\ txWorker'.pc = "idle"
        /\ UNCHANGED <<main, mainChainTXs, inFlight, msgWorker>>
    BY <1>10 DEF Expire, Idle
  <2>2. id \in Held /\ Held' \subseteq Held
    BY <2>1 DEF Held
  <2>3. id \notin Held'
    <3>1. /\ ActionMap[id].type = "tx" /\ id \notin inFlight
          /\ \A i \in DOMAIN mainChainTXs : mainChainTXs[i] # id
      BY <2>1 DEF Places
    <3>2. msgWorker.pc # "idle" => ActionMap[msgWorker.id] = Message
      BY DEF Places
    <3>3. id \notin ToSet(mainChainTXs)
      BY <3>1 DEF ToSet
    <3> HIDE DEF id
    <3> QED
      BY <2>1, <3>1, <3>2, <3>3, ActionFacts DEF Held
  <2> QED
    BY <1>10, <2>1, <2>2, <2>3, RemovePlaces DEF Expire
<1>11. CASE RecordTX
  BY <1>11, RecordTXPlaces
<1>12. CASE PassTX
  BY <1>12, PassTXPlaces
<1>13. ASSUME NEW id \in inFlight, NEW error \in BOOLEAN, TXMined(id, error)
       PROVE  Places'
  <2>1. /\ inFlight' = inFlight \ {id}
        /\ UNCHANGED <<main, mainChainTXs, txWorker, msgWorker>>
    BY <1>13 DEF TXMined
  <2>2. id \in Held /\ Held' \subseteq Held
    BY <2>1 DEF Held
  <2>3. id \notin Held'
    <3>1. /\ ActionMap[id].type = "tx" /\ id \in DOMAIN TXHashes
          /\ \A i \in DOMAIN mainChainTXs : mainChainTXs[i] # id
      BY DEF Places
    <3>2. /\ msgWorker.pc # "idle" => ActionMap[msgWorker.id] = Message
          /\ txWorker.pc \in {"send", "sent"} => txWorker.id # id
          /\ txWorker.pc = "pass" => txWorker.id # id
      BY <3>1 DEF Places
    <3>3. id \notin ToSet(mainChainTXs)
      BY <3>1 DEF ToSet
    <3>4. txWorker.pc \in {"idle", "send", "sent", "pass"}
      BY DEF TypesOK, Idle
    <3> QED
      BY <2>1, <3>1, <3>2, <3>3, <3>4, ActionFacts DEF Held
  <2> QED
    BY <1>13, <2>1, <2>2, <2>3, RemovePlaces DEF TXMined
<1>14. CASE OtherExecutes
  BY <1>14, SamePlaces DEF OtherExecutes, volatile
<1>15. ASSUME NEW success \in BOOLEAN, Mine(success)
       PROVE  Places'
  BY <1>15, SamePlaces DEF Mine, volatile
<1>16. CASE CrashAndRestart
  BY <1>16, CrashPlaces
<1>17. CASE UNCHANGED vars
  BY <1>17, SamePlaces DEF vars
<1> QED
  BY StepKinds, <1>1, <1>2, <1>3, <1>4, <1>5, <1>6, <1>7, <1>8, <1>9, <1>10, <1>11,
     <1>12, <1>13, <1>14, <1>15, <1>16, <1>17

-----------------------------------------------------------------------------
(* What only grows, and what becomes of an action that is removed.         *)

LEMMA Growth ==
    ASSUME TypesOK, Counters, [Next]_vars
    PROVE  /\ \A id : Sent(id) => Sent(id)'
           /\ Len(delivered) <= Len(delivered')
           /\ \A i \in DOMAIN delivered :
                 i \in DOMAIN delivered' /\ delivered'[i] = delivered[i]
           /\ Len(decided) <= Len(decided')
           /\ \A i \in DOMAIN decided : i \in DOMAIN decided' /\ decided'[i] = decided[i]
           /\ chain.NumExecutionHalfSteps <= chain'.NumExecutionHalfSteps
           /\ Pending.CurrentID <= Pending'.CurrentID
<1>1. \A id : Sent(id) => Sent(id)'
  <2>1. ASSUME NEW answered \in BOOLEAN, SendTX(answered)
        PROVE  \A id : Sent(id) => Sent(id)'
    <3>1. chain \in [NumExecutionHalfSteps : Nat,
                     txs : Seq([id : Nat, HalfStep : Nat,
                                status : {"pending", "success", "reverted"}])]
      BY DEF TypesOK
    <3>2. PICK tx : chain' = [chain EXCEPT !.txs = Append(@, tx)]
      BY <2>1 DEF SendTX
    <3>3. chain'.txs = Append(chain.txs, tx)
      BY <3>1, <3>2
    <3>4. Len(chain.txs) \in Nat /\ DOMAIN chain.txs = 1 .. Len(chain.txs)
      BY <3>1
    <3>5. \A i \in DOMAIN chain.txs : i \in DOMAIN chain'.txs /\ chain'.txs[i] = chain.txs[i]
      BY <3>3, <3>4
    <3> QED
      BY <3>5 DEF Sent
  <2>2. ASSUME OtherExecutes \/ \E success \in BOOLEAN : Mine(success)
        PROVE  \A id : Sent(id) => Sent(id)'
    BY <2>2, ChainFacts DEF Sent
  <2>3. ASSUME UNCHANGED chain
        PROVE  \A id : Sent(id) => Sent(id)'
    BY <2>3 DEF Sent
  <2> QED
    BY StepKinds, <2>1, <2>2, <2>3
    DEF DecideAndSave, Add, Schedule, Scheduled, Loaded, SendMessage, MessageSent, TakeTX,
        Expire, RecordTX, PassTX, TXMined, CrashAndRestart, vars
<1>2. /\ Len(delivered) <= Len(delivered')
      /\ \A i \in DOMAIN delivered : i \in DOMAIN delivered' /\ delivered'[i] = delivered[i]
  <2>1. delivered \in Seq(Nat) /\ Len(delivered) \in Nat
    BY DEF TypesOK
  <2>2. delivered' = delivered \/ \E x : delivered' = Append(delivered, x)
    BY StepKinds
    DEF DecideAndSave, Add, Schedule, Scheduled, Loaded, SendMessage, SendTX, MessageSent,
        TakeTX, Expire, RecordTX, PassTX, TXMined, OtherExecutes, Mine, CrashAndRestart,
        vars, history
  <2> QED
    BY <2>1, <2>2
<1>3. /\ Len(decided) <= Len(decided')
      /\ \A i \in DOMAIN decided : i \in DOMAIN decided' /\ decided'[i] = decided[i]
  <2>1. decided \in Seq(Action) /\ Len(decided) \in Nat
    BY DEF TypesOK
  <2>2. ASSUME NEW h \in world .. chain.NumExecutionHalfSteps, NEW m \in 0 .. MaxMessages,
               NEW n \in 0 .. MaxParallel, NEW active \in BOOLEAN,
               DecideAndSave(h, m, n, active)
        PROVE  \E s \in Seq(Action) : decided' = decided \o s
    <3>1. world \in Nat /\ chain.NumExecutionHalfSteps \in Nat
      BY DEF TypesOK
    <3>2. h \in Nat /\ m \in Nat /\ n \in Nat /\ (h + n <= MaxHalfSteps \/ n = 0)
      BY <2>2, <3>1, ConstantsAssumption DEF DecideAndSave
    <3> QED
      BY <2>2, <3>2, DecisionTypes DEF DecideAndSave
  <2>3. decided' = decided \/ \E s \in Seq(Action) : decided' = decided \o s
    BY StepKinds, <2>2
    DEF Add, Schedule, Scheduled, Loaded, SendMessage, SendTX, MessageSent,
        TakeTX, Expire, RecordTX, PassTX, TXMined, OtherExecutes, Mine, CrashAndRestart,
        vars, history
  <2>4. PICK s \in Seq(Action) : decided' = decided \o s
    <3>1. decided = decided \o <<>> /\ <<>> \in Seq(Action)
      BY <2>1
    <3> QED
      BY <2>3, <3>1
  <2> QED
    BY <2>1, <2>4
<1>4. chain.NumExecutionHalfSteps <= chain'.NumExecutionHalfSteps
  <2>1. chain.NumExecutionHalfSteps \in Nat
    BY DEF TypesOK
  <2>2. ASSUME NEW answered \in BOOLEAN, SendTX(answered)
        PROVE  chain'.NumExecutionHalfSteps = chain.NumExecutionHalfSteps
    BY <2>2 DEF SendTX, TypesOK
  <2>3. ASSUME OtherExecutes \/ \E success \in BOOLEAN : Mine(success)
        PROVE  chain.NumExecutionHalfSteps <= chain'.NumExecutionHalfSteps
    BY <2>3, ChainFacts
  <2>4. CASE UNCHANGED chain
    BY <2>1, <2>4
  <2>5. \/ \E answered \in BOOLEAN : SendTX(answered)
        \/ OtherExecutes \/ \E success \in BOOLEAN : Mine(success)
        \/ UNCHANGED chain
    BY StepKinds
    DEF DecideAndSave, Add, Schedule, Scheduled, Loaded, SendMessage, MessageSent, TakeTX,
        Expire, RecordTX, PassTX, TXMined, CrashAndRestart, vars
  <2> QED
    BY <2>1, <2>2, <2>3, <2>4, <2>5
<1>5. Pending.CurrentID <= Pending'.CurrentID
  <2>1. Pending.CurrentID \in Nat /\ Pending.CurrentID <= Len(decided)
    BY DEF TypesOK, PendingOK, Counters
  <2>2. CASE Add
    BY <2>1, <2>2, AddEffect
  <2>3. CASE \/ UNCHANGED Pending
             \/ \E id : Pending' = RemoveAction(id)
    <3>1. Pending'.CurrentID = Pending.CurrentID
      BY <2>3, RemoveEffect
    <3> QED
      BY <2>1, <3>1
  <2>4. CASE RecordTX
    BY <2>1, <2>4 DEF RecordTX, SetMainChainTXHash, TypesOK, PendingOK
  <2> QED
    BY StepKinds, <2>2, <2>3, <2>4
    DEF DecideAndSave, Schedule, Scheduled, Loaded, SendMessage, SendTX, MessageSent,
        TakeTX, Expire, PassTX, TXMined, OtherExecutes, Mine, CrashAndRestart, vars
<1> QED
  BY <1>1, <1>2, <1>3, <1>4, <1>5

(* A message has been delivered, a transaction sent or been overtaken.     *)
LEMMA RemovedAfterTrying ==
    ASSUME TypesOK, Counters, Places, SentFirst, NothingLost, [Next]_vars,
           NEW id \in DOMAIN ActionMap, id \notin DOMAIN ActionMap'
    PROVE  HasBeenTried(id)
<1>1. id \in ActionID /\ decided[id + 1] = ActionMap[id] /\ id + 1 \in DOMAIN decided
  <2>1. /\ id \in Nat /\ id < Pending.CurrentID /\ Pending.CurrentID <= Len(decided)
        /\ Pending.CurrentID \in Nat /\ Len(decided) \in Nat
    BY DEF TypesOK, PendingOK, Counters, ActionMap
  <2>2. id \in ActionID /\ ~(id >= Pending.CurrentID) /\ id + 1 \in DOMAIN decided
    BY <2>1 DEF ActionID
  <2> QED
    BY <2>2 DEF NothingLost, ActionMap
<1>2. ActionMap[id] = Message \/ ActionMap[id].type = "tx"
  BY <1>1, ActionFacts DEF TypesOK, PendingOK, ActionMap
<1>3. CASE MessageSent
  <2>1. id = msgWorker.id /\ msgWorker.pc = "remove"
    BY <1>3, RemoveEffect DEF MessageSent
  <2>2. ActionMap[id] = Message /\ id \in ToSet(delivered)
    BY <2>1 DEF Places, SentFirst
  <2> QED
    BY <1>1, <2>2 DEF HasBeenTried
<1>4. CASE Expire
  <2>1. id = txWorker.id
    <3>1. Pending' = RemoveAction(txWorker.id)
      BY <1>4 DEF Expire
    <3> QED
      BY <3>1, RemoveEffect
  <2>2. ActionMap[id].type = "tx" /\ world > ActionMap[id].HalfStep
    BY <1>4, <2>1 DEF Expire, IsExpired, ActionMap
  <2>3. ActionMap[id].HalfStep \in Nat /\ world \in Nat
        /\ chain.NumExecutionHalfSteps \in Nat /\ world <= chain.NumExecutionHalfSteps
    <3>1. ActionMap[id] \in Action
      BY DEF TypesOK, PendingOK, ActionMap
    <3>2. ActionMap[id].HalfStep \in Nat
      BY <2>2, <3>1, ActionFacts
    <3> QED
      BY <3>2 DEF TypesOK
  <2>4. chain.NumExecutionHalfSteps > ActionMap[id].HalfStep
    BY <2>2, <2>3
  <2> QED
    BY <1>1, <2>2, <2>4 DEF HasBeenTried
<1>5. ASSUME NEW x \in inFlight, NEW error \in BOOLEAN, TXMined(x, error)
      PROVE  HasBeenTried(id)
  <2>1. id = x
    BY <1>5, RemoveEffect DEF TXMined
  <2>2. ActionMap[id].type = "tx" /\ Sent(id)
    BY <2>1 DEF Places, SentFirst
  <2> QED
    BY <1>1, <2>2 DEF HasBeenTried, Sent
<1>6. CASE Add
  BY <1>6, AddEffect
<1>7. CASE RecordTX
  BY <1>7, RecordEffect
<1>8. CASE UNCHANGED Pending
  BY <1>8 DEF ActionMap
<1> QED
  BY StepKinds, <1>3, <1>4, <1>5, <1>6, <1>7, <1>8
  DEF DecideAndSave, Schedule, Scheduled, Loaded, SendMessage, SendTX, TakeTX, PassTX,
      OtherExecutes, Mine, CrashAndRestart, vars

LEMMA TypesStep ==
    ASSUME TypesOK, Counters, Places, [Next]_vars
    PROVE  TypesOK'
<1>1. CASE UNCHANGED vars
  BY <1>1 DEF TypesOK, vars
<1> QED
  BY StepKinds, MainLoopTypes, WorkerTypes, ChainFacts, CrashTypes, <1>1

LEMMA HasBeenTriedStays ==
    ASSUME TypesOK, Counters, Places, [Next]_vars,
           NEW id \in Nat, id + 1 \in DOMAIN decided,
           HasBeenTried(id)
    PROVE  HasBeenTried(id)'
<1>1. /\ decided'[id + 1] = decided[id + 1]
      /\ \A i \in DOMAIN delivered : i \in DOMAIN delivered' /\ delivered'[i] = delivered[i]
      /\ Sent(id) => Sent(id)'
      /\ chain.NumExecutionHalfSteps <= chain'.NumExecutionHalfSteps
  BY Growth
<1>2. CASE decided[id + 1] = Message /\ id \in ToSet(delivered)
  BY <1>1, <1>2 DEF HasBeenTried, ToSet
<1>3. CASE decided[id + 1].type = "tx" /\ Sent(id)
  BY <1>1, <1>3 DEF HasBeenTried, Sent
<1>4. CASE /\ decided[id + 1].type = "tx"
           /\ chain.NumExecutionHalfSteps > decided[id + 1].HalfStep
  <2>1. /\ chain.NumExecutionHalfSteps \in Nat /\ chain'.NumExecutionHalfSteps \in Nat
        /\ decided[id + 1] \in Action
    <3>1. TypesOK'
      BY TypesStep
    <3> QED
      BY <3>1 DEF TypesOK
  <2>2. decided[id + 1].HalfStep \in Nat
    BY <1>4, <2>1, ActionFacts
  <2>3. chain'.NumExecutionHalfSteps > decided[id + 1].HalfStep
    BY <1>1, <1>4, <2>1, <2>2
  <2> QED
    BY <1>1, <1>4, <2>3 DEF HasBeenTried
<1> QED
  BY <1>2, <1>3, <1>4 DEF HasBeenTried, Sent

LEMMA SentFirstStep ==
    ASSUME TypesOK, Counters, Places, SentFirst, [Next]_vars
    PROVE  SentFirst'
<1>1. /\ \A id : Sent(id) => Sent(id)'
      /\ \A i \in DOMAIN delivered : i \in DOMAIN delivered' /\ delivered'[i] = delivered[i]
      /\ Pending.CurrentID <= Pending'.CurrentID
  BY Growth
<1>2. \A id \in ToSet(delivered) : id \in ToSet(delivered')
  BY <1>1 DEF ToSet
<1>3. msgWorker'.pc = "remove" => msgWorker'.id \in ToSet(delivered')
  <2>1. ASSUME NEW answered \in BOOLEAN, SendMessage(answered)
        PROVE  msgWorker'.pc = "remove" => msgWorker'.id \in ToSet(delivered')
    <3>1. delivered' = Append(delivered, msgWorker.id) /\ delivered \in Seq(Nat)
      BY <2>1 DEF SendMessage, TypesOK
    <3>2. msgWorker.id \in ToSet(delivered')
      BY <3>1 DEF ToSet
    <3>3. msgWorker'.id = msgWorker.id
      BY <2>1 DEF SendMessage, Busy
    <3> QED
      BY <3>2, <3>3
  <2>2. CASE msgWorker' = msgWorker
    BY <1>2, <2>2 DEF SentFirst
  <2>3. CASE msgWorker'.pc # "remove"
    BY <2>3
  <2>4. Idle.pc # "remove" /\ \A id : Busy("send", id).pc # "remove"
    BY DEF Idle, Busy
  <2> QED
    BY StepKinds, <2>1, <2>2, <2>3, <2>4
    DEF DecideAndSave, Add, Schedule, Scheduled, Loaded, SendTX, MessageSent, TakeTX,
        Expire, RecordTX, PassTX, TXMined, OtherExecutes, Mine, CrashAndRestart, vars,
        workers, volatile
<1>4. (txWorker.pc \in {"sent", "pass"} => Sent(txWorker.id))'
  <2>1. ASSUME NEW answered \in BOOLEAN, SendTX(answered)
        PROVE  (txWorker.pc \in {"sent", "pass"} => Sent(txWorker.id))'
    <3> DEFINE tx == [id |-> txWorker.id, HalfStep |-> ActionMap[txWorker.id].HalfStep,
                      status |-> "pending"]
    <3>1. chain.txs \in Seq([id : Nat, HalfStep : Nat,
                             status : {"pending", "success", "reverted"}])
      BY DEF TypesOK
    <3>2. chain' = [chain EXCEPT !.txs = Append(@, tx)]
      BY <2>1 DEF SendTX, ActionMap
    <3>3. chain'.txs = Append(chain.txs, tx)
      BY <3>2 DEF TypesOK
    <3>4. tx.id = txWorker.id
      OBVIOUS
    <3> HIDE DEF tx
    <3>5. Len(chain.txs) + 1 \in DOMAIN chain'.txs
          /\ chain'.txs[Len(chain.txs) + 1] = tx
      BY <3>1, <3>3
    <3>6. txWorker'.id = txWorker.id
      BY <2>1 DEF SendTX, Busy
    <3> QED
      BY <3>4, <3>5, <3>6 DEF Sent
  <2>2. CASE RecordTX
    <3>1. txWorker.pc = "sent" /\ txWorker'.id = txWorker.id
      BY <2>2 DEF RecordTX, Busy
    <3>2. Sent(txWorker.id)
      BY <3>1 DEF SentFirst
    <3> QED
      BY <1>1, <3>1, <3>2 DEF Sent
  <2>3. CASE txWorker' = txWorker
    BY <1>1, <2>3 DEF SentFirst, Sent
  <2>4. CASE txWorker'.pc \notin {"sent", "pass"}
    BY <2>4
  <2>5. Idle.pc = "idle" /\ \A id : Busy("send", id).pc = "send"
    BY DEF Idle, Busy
  <2> QED
    BY StepKinds, <2>1, <2>2, <2>3, <2>4, <2>5
    DEF DecideAndSave, Add, Schedule, Scheduled, Loaded, SendMessage, MessageSent, TakeTX,
        Expire, PassTX, TXMined, OtherExecutes, Mine, CrashAndRestart, vars,
        workers, volatile
<1>5. \A id \in DOMAIN TXHashes' : Sent(id)'
  <2>1. CASE RecordTX
    <3>1. Sent(txWorker.id) /\ DOMAIN TXHashes' = DOMAIN TXHashes \cup {txWorker.id}
      BY <2>1, RecordEffect DEF RecordTX, SentFirst
    <3> QED
      BY <1>1, <3>1 DEF SentFirst
  <2>2. CASE Add
    BY <1>1, <2>2, AddEffect DEF SentFirst
  <2>3. CASE \E id : Pending' = RemoveAction(id)
    BY <1>1, <2>3, RemoveEffect DEF SentFirst
  <2>4. CASE UNCHANGED Pending
    BY <1>1, <2>4 DEF SentFirst, TXHashes
  <2> QED
    BY StepKinds, <2>1, <2>2, <2>3, <2>4
    DEF DecideAndSave, Schedule, Scheduled, Loaded, SendMessage, SendTX, MessageSent,
        TakeTX, Expire, PassTX, TXMined, OtherExecutes, Mine, CrashAndRestart, vars
<1>6. \A i \in DOMAIN delivered' : delivered'[i] < Pending'.CurrentID
  <2>1. /\ Pending.CurrentID \in Nat /\ Pending'.CurrentID \in Nat
        /\ delivered \in Seq(Nat) /\ Len(delivered) \in Nat
    <3>1. TypesOK'
      BY TypesStep
    <3> QED
      BY <3>1 DEF TypesOK, PendingOK
  <2>2. \A i \in DOMAIN delivered : delivered[i] < Pending'.CurrentID /\ delivered[i] \in Nat
    BY <1>1, <2>1 DEF SentFirst
  <2>3. ASSUME NEW answered \in BOOLEAN, SendMessage(answered)
        PROVE  \A i \in DOMAIN delivered' : delivered'[i] < Pending'.CurrentID
    <3>1. msgWorker.id \in DOMAIN ActionMap
      BY <2>3 DEF SendMessage, Places, Held
    <3>2. msgWorker.id \in Nat /\ msgWorker.id < Pending'.CurrentID
      BY <1>1, <2>1, <3>1 DEF TypesOK, PendingOK, ActionMap
    <3>3. delivered' = Append(delivered, msgWorker.id)
      BY <2>3 DEF SendMessage
    <3> QED
      BY <2>1, <2>2, <3>2, <3>3
  <2>4. CASE UNCHANGED delivered
    BY <2>2, <2>4
  <2> QED
    BY StepKinds, <2>3, <2>4
    DEF DecideAndSave, Add, Schedule, Scheduled, Loaded, SendTX, MessageSent, TakeTX,
        Expire, RecordTX, PassTX, TXMined, OtherExecutes, Mine, CrashAndRestart, vars,
        history
<1> QED
  BY <1>3, <1>4, <1>5, <1>6 DEF SentFirst

-----------------------------------------------------------------------------
(* The properties.                                                         *)

LEMMA NothingLostStep ==
    ASSUME TypesOK, Counters, Places, SentFirst, NothingLost, [Next]_vars
    PROVE  NothingLost'
<1>1. TypesOK' /\ Counters'
  BY TypesStep, CountersStep
<1>2. /\ Len(decided) \in Nat /\ Len(decided') \in Nat /\ Len(decided) <= Len(decided')
      /\ Pending.CurrentID \in Nat /\ Pending'.CurrentID \in Nat
      /\ Pending.CurrentID <= Len(decided) /\ Pending'.CurrentID <= Len(decided')
      /\ DOMAIN decided = 1 .. Len(decided)
      /\ \A i \in DOMAIN decided : decided'[i] = decided[i]
  <2>1. /\ decided \in Seq(Action) /\ decided' \in Seq(Action)
        /\ Pending.CurrentID \in Nat /\ Pending'.CurrentID \in Nat
    BY <1>1 DEF TypesOK, PendingOK
  <2>2. Pending.CurrentID <= Len(decided) /\ Pending'.CurrentID <= Len(decided')
    BY <1>1 DEF Counters
  <2>3. /\ Len(decided) <= Len(decided')
        /\ \A i \in DOMAIN decided : decided'[i] = decided[i]
    BY Growth
  <2> QED
    BY <2>1, <2>2, <2>3
<1> SUFFICES ASSUME NEW id \in ActionID'
             PROVE  IF id >= Pending'.CurrentID
                      THEN /\ id - stored'.ActionCounter + 1 \in DOMAIN stored'.Actions
                           /\ stored'.Actions[id - stored'.ActionCounter + 1] = decided'[id + 1]
                      ELSE IF id \in DOMAIN Pending'.ActionMap
                             THEN Pending'.ActionMap[id] = decided'[id + 1]
                             ELSE HasBeenTried(id)'
  BY DEF NothingLost
<1>3. id \in Nat /\ id <= Len(decided') - 1
  BY <1>2 DEF ActionID
<1>4. CASE id >= Pending'.CurrentID
  <2> DEFINE from == stored'.ActionCounter
             actions == stored'.Actions
  <2>1. /\ from \in Nat /\ actions \in Seq(Action) /\ from + Len(actions) = Len(decided')
        /\ from <= Pending'.CurrentID
        /\ \A i \in DOMAIN actions : actions[i] = decided'[from + i]
    BY <1>1 DEF TypesOK, StateType, Counters
  <2> HIDE DEF from, actions
  <2>2. id - from + 1 \in DOMAIN actions /\ from + (id - from + 1) = id + 1
    BY <1>2, <1>3, <1>4, <2>1
  <2>3. actions[id - from + 1] = decided'[id + 1]
    BY <2>1, <2>2
  <2> QED
    BY <1>4, <2>2, <2>3 DEF from, actions
<1>5. CASE Pending.CurrentID <= id /\ id < Pending'.CurrentID
  <2>1. CASE Add
    <3>1. id \in Pending.CurrentID .. Len(decided) - 1 /\ decided' = decided
      BY <1>2, <1>3, <1>5, <2>1, AddEffect DEF Add, history
    <3>2. id \in DOMAIN ActionMap' /\ ActionMap'[id] = decided'[id + 1]
      BY <2>1, <3>1, AddEffect
    <3> QED
      BY <1>2, <1>3, <1>5, <3>2 DEF ActionMap
  <2>2. CASE Pending'.CurrentID = Pending.CurrentID
    BY <1>2, <1>3, <1>5, <2>2
  <2> QED
    BY StepKinds, <2>1, <2>2, RemoveEffect, RecordEffect
    DEF DecideAndSave, Schedule, Scheduled, Loaded, SendMessage, SendTX, MessageSent,
        TakeTX, Expire, PassTX, TXMined, OtherExecutes, Mine, CrashAndRestart, vars
<1>6. CASE id < Pending.CurrentID
  <2>1. id \in ActionID /\ id + 1 \in DOMAIN decided /\ decided'[id + 1] = decided[id + 1]
        /\ ~(id >= Pending.CurrentID) /\ ~(id >= Pending'.CurrentID)
    <3>1. Pending.CurrentID <= Pending'.CurrentID
      BY Growth
    <3> QED
      BY <1>2, <1>3, <1>6, <3>1 DEF ActionID
  <2>2. CASE id \notin DOMAIN ActionMap
    <3>1. HasBeenTried(id)'
      BY <1>3, <2>1, <2>2, HasBeenTriedStays DEF NothingLost, ActionMap
    <3>2. id \notin DOMAIN ActionMap'
      <4>1. CASE Add
        BY <1>2, <1>3, <1>6, <2>2, <4>1, AddEffect
      <4>2. CASE ~Add
        BY StepKinds, <2>2, <4>2, RemoveEffect, RecordEffect
        DEF DecideAndSave, Schedule, Scheduled, Loaded, SendMessage, SendTX, MessageSent,
            TakeTX, Expire, PassTX, TXMined, OtherExecutes, Mine, CrashAndRestart, vars,
            ActionMap
      <4> QED
        BY <4>1, <4>2
    <3> QED
      BY <2>1, <3>1, <3>2 DEF ActionMap
  <2>3. CASE id \in DOMAIN ActionMap /\ id \notin DOMAIN ActionMap'
    <3>1. HasBeenTried(id)'
      BY <1>3, <2>1, <2>3, RemovedAfterTrying, HasBeenTriedStays
    <3> QED
      BY <2>1, <2>3, <3>1 DEF ActionMap
  <2>4. CASE id \in DOMAIN ActionMap /\ id \in DOMAIN ActionMap'
    <3>1. ActionMap[id] = decided[id + 1]
      BY <2>1, <2>4 DEF NothingLost, ActionMap
    <3>2. ActionMap'[id] = ActionMap[id]
      BY StepKinds, <2>4, AddEffect, RemoveEffect, RecordEffect
      DEF DecideAndSave, Schedule, Scheduled, Loaded, SendMessage, SendTX, MessageSent,
          TakeTX, Expire, PassTX, TXMined, OtherExecutes, Mine, CrashAndRestart, vars,
          ActionMap
    <3> QED
      BY <2>1, <2>4, <3>1, <3>2 DEF ActionMap
  <2> QED
    BY <2>2, <2>3, <2>4
<1> QED
  BY <1>2, <1>3, <1>4, <1>5, <1>6

LEMMA MessagesInOrderStep ==
    ASSUME TypesOK, Counters, Places, SentFirst, InOrder, MessagesInOrder, [Next]_vars
    PROVE  MessagesInOrder'
<1>1. /\ Len(decided) \in Nat /\ DOMAIN decided = 1 .. Len(decided)
      /\ \A i \in DOMAIN decided : decided'[i] = decided[i]
      /\ Pending.CurrentID <= Len(decided) /\ Pending.CurrentID \in Nat
      /\ delivered \in Seq(Nat) /\ Len(delivered) \in Nat
      /\ DOMAIN delivered = 1 .. Len(delivered)
      /\ \A i \in DOMAIN delivered : delivered'[i] = delivered[i]
  BY Growth DEF TypesOK, PendingOK, Counters
<1>2. ASSUME NEW id \in Nat, NEW x \in Nat, id < x, x < Pending.CurrentID,
             decided'[id + 1] = Message
      PROVE  id \in ActionID /\ decided[id + 1] = Message
  <2>1. id \in 0 .. Len(decided) - 1 /\ id + 1 \in DOMAIN decided
    BY <1>1, <1>2
  <2> QED
    BY <1>1, <1>2, <2>1 DEF ActionID
<1>3. ASSUME NEW i \in DOMAIN delivered, NEW id \in Nat, id < delivered[i],
             decided'[id + 1] = Message
      PROVE  \E j \in 1 .. i - 1 : delivered[j] = id
  <2>1. delivered[i] \in Nat /\ delivered[i] < Pending.CurrentID
    BY <1>1 DEF SentFirst
  <2>2. id \in ActionID /\ decided[id + 1] = Message
    BY <1>2, <1>3, <2>1
  <2> QED
    BY <1>3, <2>2 DEF MessagesInOrder
<1>4. ActionID' \subseteq Nat
  BY DEF ActionID
<1>5. ASSUME NEW answered \in BOOLEAN, SendMessage(answered)
      PROVE  MessagesInOrder'
  <2>1. delivered' = Append(delivered, msgWorker.id) /\ msgWorker.pc = "send"
    BY <1>5 DEF SendMessage
  <2>2. msgWorker.id \in Nat /\ msgWorker.id < Pending.CurrentID
    <3>1. msgWorker.id \in DOMAIN ActionMap
      BY <2>1 DEF Places, Held
    <3> QED
      BY <3>1 DEF TypesOK, PendingOK, ActionMap
  <2>3. DOMAIN delivered' = 1 .. Len(delivered) + 1
        /\ delivered'[Len(delivered) + 1] = msgWorker.id
    BY <1>1, <2>1
  <2> SUFFICES ASSUME NEW i \in DOMAIN delivered', NEW id \in Nat, id < delivered'[i],
                      decided'[id + 1] = Message
               PROVE  \E j \in 1 .. i - 1 : delivered'[j] = id
    BY <1>4 DEF MessagesInOrder
  <2>4. CASE i = Len(delivered) + 1
    <3>1. id \in ActionID /\ decided[id + 1] = Message /\ id < msgWorker.id
      BY <1>2, <2>2, <2>3, <2>4
    <3>2. id \in ToSet(delivered)
      BY <2>1, <3>1 DEF InOrder
    <3>3. PICK j \in DOMAIN delivered : delivered[j] = id
      BY <3>2 DEF ToSet
    <3>4. j \in 1 .. i - 1 /\ delivered'[j] = id
      BY <1>1, <2>4, <3>3
    <3> QED
      BY <3>4
  <2>5. CASE i \in DOMAIN delivered
    <3>1. PICK j \in 1 .. i - 1 : delivered[j] = id
      BY <1>1, <1>3, <2>5
    <3>2. j \in DOMAIN delivered
      BY <1>1, <2>5, <3>1
    <3> QED
      BY <1>1, <3>1, <3>2
  <2> QED
    BY <1>1, <2>3, <2>4, <2>5
<1>6. CASE UNCHANGED delivered
  BY <1>3, <1>4, <1>6 DEF MessagesInOrder
<1> QED
  BY StepKinds, <1>5, <1>6
  DEF DecideAndSave, Add, Schedule, Scheduled, Loaded, SendTX, MessageSent, TakeTX,
      Expire, RecordTX, PassTX, TXMined, OtherExecutes, Mine, CrashAndRestart, vars,
      history

LEMMA InOrderStep ==
    ASSUME TypesOK, Counters, Places, SentFirst, NothingLost, InOrder, [Next]_vars
    PROVE  InOrder'
<1> DEFINE At(id) == \/ id \in ToSet(delivered)
                     \/ id \in ToSet(main.ids)
                     \/ msgWorker.pc # "idle" /\ msgWorker.id = id
           Before(x) == \A id \in Nat : id < x /\ decided[id + 1] = Message =>
                           id \in ToSet(delivered)
           InOrderAll == \A id \in Nat : id < Pending.CurrentID /\ decided[id + 1] = Message =>
                            At(id)
<1>1. /\ decided \in Seq(Action) /\ Len(decided) \in Nat /\ DOMAIN decided = 1 .. Len(decided)
      /\ \A i \in DOMAIN decided : decided'[i] = decided[i]
      /\ Pending.CurrentID <= Len(decided) /\ Pending.CurrentID \in Nat
  <2>1. /\ decided \in Seq(Action) /\ Pending.CurrentID \in Nat
        /\ Pending.CurrentID <= Len(decided)
    BY DEF TypesOK, PendingOK, Counters
  <2>2. \A i \in DOMAIN decided : decided'[i] = decided[i]
    BY Growth
  <2> QED
    BY <2>1, <2>2
<1>2. \A id \in Nat : id < Pending.CurrentID =>
         id \in ActionID /\ id + 1 \in DOMAIN decided /\ decided'[id + 1] = decided[id + 1]
  BY <1>1 DEF ActionID
<1>3. /\ msgWorker.pc # "idle" => /\ msgWorker.id \in DOMAIN ActionMap
                                  /\ msgWorker.id \in Nat
                                  /\ msgWorker.id < Pending.CurrentID
      /\ \A id \in DOMAIN ActionMap : /\ id \in Nat /\ id < Pending.CurrentID
                                      /\ ActionMap[id] = decided[id + 1]
  <2>1. \A id \in DOMAIN ActionMap : id \in Nat /\ id < Pending.CurrentID
    BY DEF TypesOK, PendingOK, ActionMap
  <2>2. \A id \in DOMAIN ActionMap : ActionMap[id] = decided[id + 1]
    BY <1>1, <1>2, <2>1 DEF NothingLost, ActionMap
  <2>3. msgWorker.pc # "idle" => msgWorker.id \in DOMAIN ActionMap
    BY DEF Places, Held
  <2> QED
    BY <2>1, <2>2, <2>3
<1>4. InOrderAll /\ (msgWorker.pc # "idle" => Before(msgWorker.id))
  <2>1. InOrderAll
    BY <1>2 DEF InOrder
  <2>2. msgWorker.pc # "idle" => Before(msgWorker.id)
    <3> SUFFICES ASSUME msgWorker.pc # "idle", NEW id \in Nat, id < msgWorker.id,
                        decided[id + 1] = Message
                 PROVE  id \in ToSet(delivered)
      OBVIOUS
    <3>1. id < Pending.CurrentID
      BY <1>1, <1>3
    <3> QED
      BY <1>2, <3>1 DEF InOrder
  <2> QED
    BY <2>1, <2>2
<1>5. \A id \in ToSet(delivered) : id \in ToSet(delivered')
  BY Growth DEF ToSet
<1>6. ASSUME /\ \A id \in Nat : id < Pending'.CurrentID /\ decided'[id + 1] = Message => At(id)'
             /\ msgWorker'.pc # "idle" =>
                   \A id \in Nat : id < msgWorker'.id /\ decided'[id + 1] = Message =>
                      id \in ToSet(delivered')
      PROVE  InOrder'
  <2>1. ActionID' \subseteq Nat
    BY DEF ActionID
  <2> HIDE DEF At
  <2> QED
    BY <1>6, <2>1 DEF InOrder, At
<1>7. ASSUME Pending'.CurrentID = Pending.CurrentID,
             \A id \in Nat : id < Pending.CurrentID /\ decided[id + 1] = Message /\ At(id) =>
                At(id)',
             \/ msgWorker' = msgWorker
             \/ msgWorker'.pc = "idle"
             \/ msgWorker'.id = msgWorker.id /\ msgWorker.pc # "idle"
      PROVE  InOrder'
  <2>1. \A id \in Nat : id < Pending'.CurrentID /\ decided'[id + 1] = Message => At(id)'
    <3> HIDE DEF At
    <3> QED
      BY <1>2, <1>4, <1>7
  <2>2. ASSUME msgWorker'.pc # "idle", NEW id \in Nat, id < msgWorker'.id,
               decided'[id + 1] = Message
        PROVE  id \in ToSet(delivered')
    <3>1. msgWorker.pc # "idle" /\ msgWorker'.id = msgWorker.id
      BY <1>7, <2>2
    <3>2. id < Pending.CurrentID
      BY <1>1, <1>3, <2>2, <3>1
    <3>3. id \in ToSet(delivered)
      BY <1>2, <1>4, <2>2, <3>1, <3>2
    <3> QED
      BY <1>5, <3>3
  <2> QED
    BY <1>6, <2>1, <2>2
<1>8. CASE Add
  <2> DEFINE new == Pending.CurrentID .. Len(decided) - 1
  <2>1. ToSet(main'.ids) = new /\ Pending'.CurrentID = Len(decided)
    BY <1>8, AddEffect
  <2>2. UNCHANGED <<delivered, decided, msgWorker>> /\ main.ids = <<>>
    BY <1>8 DEF Add, history, workers, Counters
  <2>3. ASSUME NEW id \in Nat, id < Pending'.CurrentID, decided'[id + 1] = Message
        PROVE  At(id)'
    <3>1. CASE id < Pending.CurrentID
      <4>1. id \in ToSet(delivered) \/ (msgWorker.pc # "idle" /\ msgWorker.id = id)
        BY <1>4, <2>2, <2>3, <3>1 DEF ToSet
      <4> QED
        BY <2>2, <4>1
    <3>2. CASE id >= Pending.CurrentID
      <4>1. id \in new
        BY <1>1, <2>1, <2>3, <3>2
      <4> QED
        BY <2>1, <4>1
    <3> QED
      BY <1>1, <3>1, <3>2
  <2> QED
    BY <1>4, <1>6, <2>2, <2>3
<1>9. CASE Schedule
  <2> DEFINE head == Head(main.ids)
             t == Tail(main.ids)
  <2>1. main.ids # <<>> /\ main'.ids = t
    BY <1>9 DEF Schedule, TypesOK
  <2>2. /\ head \in Nat /\ head \in DOMAIN ActionMap
        /\ \A i \in DOMAIN t : head < t[i] /\ t[i] \in Nat
        /\ ToSet(main.ids) = ToSet(t) \cup {head}
    <3>1. \A i \in DOMAIN t : t[i] \in Nat
      BY <2>1 DEF TypesOK
    <3> QED
      BY <2>1, <3>1, HeadFacts
  <2> HIDE DEF head, t
  <2>3. UNCHANGED <<Pending, delivered, decided>>
    BY <1>9 DEF Schedule, history
  <2>4. CASE /\ msgWorker.pc = "idle" /\ msgWorker' = Busy("send", head)
    <3>1. msgWorker'.pc = "send" /\ msgWorker'.id = head
      BY <2>4 DEF Busy
    <3>2. \A id \in Nat : id < Pending'.CurrentID /\ decided'[id + 1] = Message => At(id)'
      BY <1>4, <2>1, <2>2, <2>3, <2>4, <3>1
    <3>3. ASSUME NEW id \in Nat, id < head, decided[id + 1] = Message
          PROVE  id \in ToSet(delivered)
      <4>1. id < Pending.CurrentID
        BY <1>1, <1>3, <2>2, <3>3
      <4>2. id # head /\ id \notin ToSet(t)
        BY <2>2, <3>3 DEF ToSet
      <4> QED
        BY <1>4, <2>2, <2>4, <3>3, <4>1, <4>2
    <3> QED
      BY <1>6, <2>3, <3>1, <3>2, <3>3
  <2>5. CASE ActionMap[head].type = "tx" /\ UNCHANGED msgWorker
    <3>1. decided[head + 1] # Message
      BY <1>3, <2>2, <2>5, ActionFacts
    <3>2. \A id \in Nat : id < Pending.CurrentID /\ decided[id + 1] = Message /\ At(id) => At(id)'
      BY <2>1, <2>2, <2>3, <2>5, <3>1
    <3> QED
      BY <1>7, <2>3, <2>5, <3>2
  <2> QED
    BY <1>9, <2>4, <2>5 DEF Schedule, ActionMap, head
<1>10. ASSUME NEW answered \in BOOLEAN, SendMessage(answered)
       PROVE  InOrder'
  <2>1. /\ msgWorker.pc # "idle" /\ msgWorker'.id = msgWorker.id /\ msgWorker'.pc # "idle"
        /\ main' = main /\ Pending' = Pending
    BY <1>10 DEF SendMessage, Busy
  <2>2. \A id \in Nat : At(id) => At(id)'
    BY <1>5, <2>1
  <2> QED
    BY <1>7, <2>1, <2>2
<1>11. CASE MessageSent
  <2>1. /\ msgWorker.pc = "remove" /\ msgWorker'.pc = "idle"
        /\ UNCHANGED <<main, delivered>> /\ Pending'.CurrentID = Pending.CurrentID
    BY <1>11, RemoveEffect DEF MessageSent, Idle, history
  <2>2. \A id \in Nat : At(id) => At(id)'
    BY <2>1 DEF SentFirst
  <2> QED
    BY <1>7, <2>1, <2>2
<1>12. CASE CrashAndRestart
  <2>1. /\ msgWorker'.pc = "idle" /\ ToSet(main'.ids) = DOMAIN ActionMap
        /\ UNCHANGED <<delivered, decided, Pending>>
    BY <1>12, SortedIDsFacts DEF CrashAndRestart, Idle, TypesOK
  <2>2. ASSUME NEW id \in Nat, id < Pending.CurrentID, decided[id + 1] = Message
        PROVE  At(id)'
    <3>1. CASE id \in DOMAIN ActionMap
      BY <2>1, <3>1
    <3>2. CASE id \notin DOMAIN ActionMap
      <4>1. ~(id >= Pending.CurrentID)
        BY <1>1, <2>2
      <4>2. HasBeenTried(id)
        BY <1>2, <2>2, <3>2, <4>1 DEF NothingLost, ActionMap
      <4>3. id \in ToSet(delivered)
        BY <2>2, <4>2, ActionFacts DEF HasBeenTried
      <4> QED
        BY <2>1, <4>3
    <3> QED
      BY <3>1, <3>2
  <2> QED
    BY <1>7, <2>1, <2>2
<1>13. ASSUME Pending'.CurrentID = Pending.CurrentID, main'.ids = main.ids,
              UNCHANGED <<msgWorker, delivered>>
       PROVE  InOrder'
  BY <1>7, <1>13
<1>14. ASSUME NEW h \in world .. chain.NumExecutionHalfSteps, NEW m \in 0 .. MaxMessages,
              NEW n \in 0 .. MaxParallel, NEW active \in BOOLEAN,
              DecideAndSave(h, m, n, active)
       PROVE  InOrder'
  BY <1>13, <1>14 DEF DecideAndSave, TypesOK, workers
<1>15. CASE Scheduled \/ Loaded
  BY <1>13, <1>15 DEF Scheduled, Loaded, TypesOK, workers, history
<1>16. ASSUME NEW answered \in BOOLEAN, SendTX(answered)
       PROVE  InOrder'
  BY <1>13, <1>16 DEF SendTX
<1>17. CASE TakeTX \/ PassTX \/ OtherExecutes \/ UNCHANGED vars
  BY <1>13, <1>17 DEF TakeTX, PassTX, OtherExecutes, vars, volatile, history
<1>18. CASE Expire
  BY <1>13, <1>18, RemoveEffect DEF Expire, history
<1>19. CASE RecordTX
  BY <1>13, <1>19, RecordEffect DEF RecordTX, history
<1>20. ASSUME NEW id \in inFlight, NEW error \in BOOLEAN, TXMined(id, error)
       PROVE  InOrder'
  BY <1>13, <1>20, RemoveEffect DEF TXMined, history
<1>21. ASSUME NEW success \in BOOLEAN, Mine(success)
       PROVE  InOrder'
  BY <1>13, <1>21 DEF Mine, volatile, history
<1> QED
  BY StepKinds, <1>8, <1>9, <1>10, <1>11, <1>12, <1>14, <1>15, <1>16, <1>17, <1>18,
     <1>19, <1>20, <1>21

LEMMA InitIInv ==
    ASSUME Init
    PROVE  IInv
<1>1. State = [ActionCounter |-> 0, Actions |-> <<>>, PendingHalfStep |-> {}] /\ stored = State
  BY DEF Init
<1>2. /\ DOMAIN Pending = {"ActionMap", "MainChainTXHashes", "CurrentID"}
      /\ DOMAIN ActionMap = {} /\ DOMAIN TXHashes = {} /\ Pending.CurrentID = 0
  BY DEF Init, NoPending, ActionMap, TXHashes
<1>3. main = [pc |-> "decide", ids |-> <<>>, havePendingActions |-> FALSE]
  BY DEF Init
<1>4. /\ msgWorker = Idle /\ txWorker = Idle /\ Idle.pc = "idle"
      /\ mainChainTXs = <<>> /\ inFlight = {} /\ delivered = <<>> /\ decided = <<>>
  BY DEF Init, Idle
<1>5. TypesOK
  <2>1. State \in StateType
    BY <1>1 DEF StateType
  <2>2. PendingOK(Pending)
    BY <1>2 DEF PendingOK, ActionMap, TXHashes
  <2>3. main \in [pc : {"decide", "add", "schedule", "load"}, ids : Seq(Nat),
                  havePendingActions : BOOLEAN]
    BY <1>3
  <2>4. /\ chain \in [NumExecutionHalfSteps : Nat,
                      txs : Seq([id : Nat, HalfStep : Nat,
                                 status : {"pending", "success", "reverted"}])]
        /\ world \in Nat /\ world <= chain.NumExecutionHalfSteps
    BY ConstantsAssumption DEF Init
  <2> QED
    BY <1>1, <1>4, <2>1, <2>2, <2>3, <2>4 DEF TypesOK
<1>6. Counters
  BY <1>1, <1>2, <1>3, <1>4 DEF Counters
<1>7. /\ DOMAIN main.ids = {} /\ DOMAIN mainChainTXs = {} /\ DOMAIN delivered = {}
      /\ ToSet(main.ids) = {} /\ ToSet(mainChainTXs) = {}
  BY <1>3, <1>4 DEF ToSet
<1>8. Places
  BY <1>2, <1>4, <1>7 DEF Places, Held
<1>9. SentFirst
  BY <1>2, <1>4, <1>7 DEF SentFirst
<1>10. ActionID = {}
  BY <1>4 DEF ActionID
<1>11. NothingLost /\ MessagesInOrder /\ InOrder
  BY <1>4, <1>10 DEF NothingLost, MessagesInOrder, InOrder
<1> QED
  BY <1>5, <1>6, <1>8, <1>9, <1>11 DEF IInv

(* runOneStep, runActions, the workers of fx/ and a crash between any two  *)
(* of their steps keep the strengthened invariant.                         *)
THEOREM Invariance == Spec => []IInv
<1>1. Init => IInv
  BY InitIInv
<1>2. IInv /\ [Next]_vars => IInv'
  BY TypesStep, CountersStep, PlacesStep, SentFirstStep, NothingLostStep, InOrderStep,
     MessagesInOrderStep DEF IInv
<1> QED
  BY <1>1, <1>2, PTL DEF Spec

(* At whatever moment a keyper crashes, AddActions (fx/pending.go) gets an *)
(* id it has reached, and every id in a channel or a worker of fx/runenv   *)
(* is a pending action.                                                    *)
THEOREM WorkersFindTheirActions == Spec => []NeverPanics
<1>1. IInv => NeverPanics
  <2> SUFFICES ASSUME IInv
               PROVE  NeverPanics
    OBVIOUS
  <2>1. /\ main.pc = "add" => State.ActionCounter <= Pending.CurrentID
        /\ main.pc = "decide" => State.Actions = <<>>
    BY DEF IInv, Counters
  <2>2. ToSet(main.ids) \cup Held \subseteq DOMAIN ActionMap
    BY DEF IInv, Places
  <2> QED
    BY <2>1, <2>2 DEF NeverPanics, Held, ActionMap
<1> QED
  BY <1>1, Invariance, PTL

(* What a keyper decided on is saved (saveState in keyper/keyper.go), then *)
(* pending (actions.gob), until a worker has brought it to its chain or    *)
(* found it expired.                                                       *)
THEOREM NoActionIsLost == Spec => []NothingLost
<1>1. IInv => NothingLost
  BY DEF IInv
<1> QED
  BY <1>1, Invariance, PTL

(* Shuttermint receives the messages in the order of the decisions: runenv *)
(* has one worker for them and schedules them by SortedIDs after a crash.  *)
THEOREM MessagesArriveInOrder == Spec => []MessagesInOrder
<1>1. IInv => MessagesInOrder
  BY DEF IInv
<1> QED
  BY <1>1, Invariance, PTL

(* A transaction with a recorded hash is only waited for: scheduleAction   *)
(* (fx/runenv.go) passes it to the workers that look for its receipt.      *)
THEOREM RecordedTXsAreNotResent == Spec => NeverResent
<1>1. ASSUME IInv, [Next]_vars, Len(chain'.txs) > Len(chain.txs)
      PROVE  txWorker.id \notin DOMAIN Pending.MainChainTXHashes
  <2>1. Len(chain.txs) \in Nat
    BY <1>1 DEF IInv, TypesOK
  <2>2. ASSUME NEW answered \in BOOLEAN, SendTX(answered)
        PROVE  txWorker.id \notin DOMAIN Pending.MainChainTXHashes
    BY <1>1, <2>2 DEF SendTX, IInv, Places, TXHashes
  <2>3. ASSUME OtherExecutes \/ \E success \in BOOLEAN : Mine(success)
        PROVE  Len(chain'.txs) = Len(chain.txs)
    BY <1>1, <2>3, ChainFacts DEF IInv
  <2>4. \/ \E answered \in BOOLEAN : SendTX(answered)
        \/ OtherExecutes \/ \E success \in BOOLEAN : Mine(success)
        \/ UNCHANGED chain
    BY <1>1, StepKinds
    DEF DecideAndSave, Add, Schedule, Scheduled, Loaded, SendMessage, MessageSent, TakeTX,
        Expire, RecordTX, PassTX, TXMined, CrashAndRestart, vars
  <2> QED
    BY <1>1, <2>1, <2>2, <2>3, <2>4
<1>2. IInv /\ [Next]_vars =>
        [Len(chain'.txs) > Len(chain.txs) =>
           txWorker.id \notin DOMAIN Pending.MainChainTXHashes]_vars
  BY <1>1
<1> QED
  BY <1>2, Invariance, PTL DEF Spec, NeverResent

-----------------------------------------------------------------------------
(* A keyper does not compete with itself.                                  *)

(* A transaction that may still be sent, now or after a crash.  Half step  *)
(* 0 does not count once the keyper has crashed.                           *)
Live(id) ==
    /\ id \in ActionID
    /\ decided[id + 1].type = "tx"
    /\ decided[id + 1].HalfStep # 0 \/ failures = 0
    /\ id >= Pending.CurrentID \/ id \in DOMAIN ActionMap

(* The chain is past it, or the pending half step will tell.               *)
Awaited(id, state) ==
    \/ decided[id + 1].HalfStep < world
    \/ \E p \in state.PendingHalfStep : decided[id + 1].HalfStep <= p

CompetitionInv ==
    /\ failures \in Nat
    /\ main.pc = "load" /\ ~main.havePendingActions => DOMAIN ActionMap = {}
    /\ \A id \in Nat : Live(id) =>
          /\ Awaited(id, State)
          /\ decided[id + 1].HalfStep # 0 => Awaited(id, stored)
    /\ \A i, j \in Nat : Live(i) /\ Live(j) /\ decided[i + 1] = decided[j + 1] => i = j

LEMMA LiveFacts ==
    ASSUME TypesOK, Counters
    PROVE  /\ Len(decided) \in Nat /\ Pending.CurrentID \in Nat
           /\ world \in Nat
           /\ \A id \in Nat : id \in ActionID <=> id < Len(decided)
           /\ \A id : Live(id) => /\ id \in Nat /\ id + 1 \in DOMAIN decided
                                  /\ decided[id + 1].HalfStep \in Nat
<1>1. /\ decided \in Seq(Action) /\ Len(decided) \in Nat /\ Pending.CurrentID \in Nat
      /\ world \in Nat
  BY DEF TypesOK, PendingOK
<1>2. \A id \in Nat : id \in ActionID <=> id < Len(decided)
  BY <1>1 DEF ActionID
<1>3. ASSUME NEW id, Live(id)
      PROVE  id \in Nat /\ id + 1 \in DOMAIN decided /\ decided[id + 1].HalfStep \in Nat
  <2>1. id \in 0 .. Len(decided) - 1 /\ decided[id + 1].type = "tx"
    BY <1>3 DEF Live, ActionID
  <2>2. id \in Nat /\ id + 1 \in DOMAIN decided
    BY <1>1, <2>1
  <2>3. decided[id + 1] \in Action
    BY <1>1, <2>2
  <2> QED
    BY <2>1, <2>2, <2>3, ActionFacts
<1> QED
  BY <1>1, <1>2, <1>3

(* Crashes are not forgotten.                                              *)
LEMMA FailuresStay ==
    ASSUME failures \in Nat, [Next]_vars
    PROVE  failures' \in Nat /\ (failures' = 0 => failures = 0)
<1>1. ASSUME NEW answered \in BOOLEAN, SendMessage(answered) \/ SendTX(answered)
      PROVE  failures' \in {failures, failures + 1}
  BY <1>1 DEF SendMessage, SendTX, Answers
<1>2. CrashAndRestart => failures' = failures + 1
  BY DEF CrashAndRestart
<1>3. ASSUME NEW success \in BOOLEAN, Mine(success)
      PROVE  failures' = failures
  BY <1>3 DEF Mine, history
<1>4. ASSUME NEW id \in inFlight, NEW error \in BOOLEAN, TXMined(id, error)
      PROVE  failures' = failures
  BY <1>4 DEF TXMined, history
<1>5. ASSUME NEW h \in world .. chain.NumExecutionHalfSteps, NEW m \in 0 .. MaxMessages,
             NEW n \in 0 .. MaxParallel, NEW active \in BOOLEAN,
             DecideAndSave(h, m, n, active)
      PROVE  failures' = failures
  BY <1>5 DEF DecideAndSave
<1>6. ASSUME \/ Add \/ Schedule \/ Scheduled \/ Loaded \/ MessageSent \/ TakeTX
             \/ Expire \/ RecordTX \/ PassTX \/ OtherExecutes \/ UNCHANGED vars
      PROVE  failures' = failures
  BY <1>6 DEF Add, Schedule, Scheduled, Loaded, MessageSent, TakeTX, Expire, RecordTX,
              PassTX, OtherExecutes, vars, history
<1>7. failures' \in {failures, failures + 1}
  BY StepKinds, <1>1, <1>2, <1>3, <1>4, <1>5, <1>6
<1> QED
  BY <1>7

(* A step without a decision makes no action live again.                   *)
LEMMA LiveStays ==
    ASSUME TypesOK, Counters, Places, failures \in Nat, [Next]_vars,
           decided' = decided, NEW id \in Nat, Live(id)'
    PROVE  Live(id) /\ decided'[id + 1] = decided[id + 1]
<1>1. /\ id \in ActionID /\ decided[id + 1].type = "tx"
      /\ id >= Pending'.CurrentID \/ id \in DOMAIN ActionMap'
      /\ decided[id + 1].HalfStep # 0 \/ failures = 0
  BY FailuresStay DEF Live, ActionID
<1>2. /\ Pending.CurrentID \in Nat /\ Pending.CurrentID <= Pending'.CurrentID
      /\ Pending.CurrentID <= Len(decided) /\ Len(decided) \in Nat
  BY Growth, LiveFacts DEF Counters
<1>3. CASE Add
  <2>1. /\ Pending'.CurrentID = Len(decided)
        /\ DOMAIN ActionMap' = DOMAIN ActionMap \cup Pending.CurrentID .. Len(decided) - 1
    BY <1>3, AddEffect
  <2> QED
    BY <1>1, <1>2, <2>1 DEF Live
<1>4. CASE ~Add
  <2>1. Pending'.CurrentID = Pending.CurrentID /\ DOMAIN ActionMap' \subseteq DOMAIN ActionMap
    BY StepKinds, <1>4, RemoveEffect, RecordEffect
    DEF DecideAndSave, Schedule, Scheduled, Loaded, SendMessage, SendTX, MessageSent,
        TakeTX, Expire, PassTX, TXMined, OtherExecutes, Mine, CrashAndRestart, vars,
        ActionMap
  <2> QED
    BY <1>1, <2>1 DEF Live
<1> QED
  BY <1>3, <1>4

(* The executions of one decision are of different half steps, the first   *)
(* of which is h.                                                          *)
LEMMA ExecutionsFacts ==
    ASSUME NEW m \in Nat, NEW n \in Nat, NEW h \in Nat
    PROVE  LET actions == [i \in 1 .. m |-> Message] \o Executions(h, n)
           IN  /\ Len(actions) = m + n
               /\ \A k \in 1 .. m + n : actions[k].type = "tx" =>
                     /\ k > m /\ n > 0
                     /\ actions[k].HalfStep = h + (k - m) - 1
<1> DEFINE ms == [i \in 1 .. m |-> Message]
           es == Executions(h, n)
           actions == ms \o es
<1>1. ms \in Seq({Message}) /\ Len(ms) = m
  OBVIOUS
<1>2. \A i \in 1 .. n : /\ es[i] = Execute(h + i - 1)
                        /\ es[i].HalfStep = h + i - 1
  BY DEF Executions, Execute
<1>3. Len(es) = n /\ \E S : es \in Seq(S)
  <2> DEFINE S == {Execute(h + i - 1) : i \in 1 .. n}
  <2>1. es = [i \in 1 .. n |-> es[i]] /\ \A i \in 1 .. n : es[i] \in S
    BY Zenon DEF Executions
  <2> HIDE DEF S, es
  <2>2. es \in [1 .. n -> S]
    BY <2>1
  <2>3. es \in Seq(S) /\ Len(es) = n
    BY <2>2
  <2> QED
    BY <2>3
<1> HIDE DEF ms, es
<1>4. /\ Len(actions) = m + n
      /\ \A k \in 1 .. m : actions[k] = ms[k]
      /\ \A k \in 1 .. m + n : k > m => actions[k] = es[k - m]
  BY <1>1, <1>3
<1>5. \A k \in 1 .. m : actions[k] = Message
  BY <1>4 DEF ms
<1> HIDE DEF actions
<1>6. ASSUME NEW k \in 1 .. m + n, actions[k].type = "tx"
      PROVE  k > m /\ n > 0 /\ actions[k].HalfStep = h + (k - m) - 1
  <2>1. k > m
    <3>1. k \notin 1 .. m
      BY <1>5, <1>6, ActionFacts
    <3> QED
      BY <3>1
  <2>2. k - m \in 1 .. n /\ n > 0
    BY <2>1
  <2> QED
    BY <1>2, <1>4, <2>1, <2>2
<1> QED
  BY <1>4, <1>6 DEF actions, ms, es

(* The half steps decided on before are below h when others are executed,  *)
(* whether they are pending or not.                                        *)
LEMMA DecisionCompetes ==
    ASSUME TypesOK, Counters, CompetitionInv,
           NEW h \in world .. chain.NumExecutionHalfSteps, NEW m \in 0 .. MaxMessages,
           NEW n \in 0 .. MaxParallel, NEW active \in BOOLEAN,
           DecideAndSave(h, m, n, active)
    PROVE  CompetitionInv'
<1> DEFINE actions == [i \in 1 .. m |-> Message] \o Executions(h, n)
           waiting == IF active THEN StillPending(h) ELSE State.PendingHalfStep
           c       == Len(decided)
           New(id) == c <= id /\ id < c + m + n /\ decided'[id + 1].type = "tx"
<1>1. /\ h \in Nat /\ m \in Nat /\ n \in Nat /\ c \in Nat /\ world \in Nat /\ world <= h
      /\ h + n <= MaxHalfSteps \/ n = 0
  <2>1. /\ world \in Nat /\ chain.NumExecutionHalfSteps \in Nat /\ c \in Nat
        /\ MaxMessages \in Nat /\ MaxParallel \in Nat
    BY ConstantsAssumption, LiveFacts DEF TypesOK
  <2>2. n > 0 => h + n <= MaxHalfSteps
    BY DEF DecideAndSave
  <2> QED
    BY <2>1, <2>2 DEF CompetitionInv
<1>2. Pending.CurrentID = c /\ Pending' = Pending /\ ActionMap' = ActionMap
      /\ main.pc = "decide" /\ main'.pc # "load" /\ world' = h
      /\ failures' = failures /\ failures' \in Nat
  <2>1. main'.pc # "load"
    BY DEF DecideAndSave, TypesOK
  <2> QED
    BY <2>1 DEF DecideAndSave, Counters, ActionMap, history, CompetitionInv
<1>3. /\ Len(actions) = m + n
      /\ \A k \in 1 .. m + n : actions[k].type = "tx" =>
            k > m /\ n > 0 /\ actions[k].HalfStep = h + (k - m) - 1
  <2>1. m \in Nat /\ n \in Nat /\ h \in Nat
    BY <1>1
  <2> QED
    BY <2>1, ExecutionsFacts, Zenon
<1>4. /\ decided' = decided \o actions /\ decided \in Seq(Action) /\ actions \in Seq(Action)
  BY <1>1, DecisionTypes DEF DecideAndSave, TypesOK
<1>5. /\ State'.PendingHalfStep = (IF n > 0 THEN {h + n - 1} ELSE waiting)
      /\ stored'.PendingHalfStep = State'.PendingHalfStep \ {0}
      /\ n > 0 => active /\ waiting = {}
  <2>1. State \in StateType
    BY DEF TypesOK
  <2>2. State' = [State EXCEPT !.Actions = actions,
                               !.PendingHalfStep = IF n > 0 THEN {h + n - 1} ELSE waiting]
        /\ stored' = GobCopy(State') /\ (n > 0 => active /\ waiting = {})
    BY DEF DecideAndSave
  <2> HIDE DEF actions, waiting
  <2>3. State'.PendingHalfStep = (IF n > 0 THEN {h + n - 1} ELSE waiting)
        /\ DOMAIN State' = {"ActionCounter", "Actions", "PendingHalfStep"}
    BY <2>1, <2>2 DEF StateType
  <2>4. stored'.PendingHalfStep = State'.PendingHalfStep \ {0}
    BY <2>2, <2>3 DEF GobCopy
  <2> QED
    BY <2>2, <2>3, <2>4
<1>6. State.PendingHalfStep \subseteq Nat
  BY DEF TypesOK, StateType
<1> HIDE DEF actions, c
<1>7. /\ Len(decided') = c + m + n
      /\ \A i \in DOMAIN decided : decided'[i] = decided[i]
      /\ \A id \in Nat : c <= id /\ id < c + m + n =>
            id - c + 1 \in 1 .. m + n /\ decided'[id + 1] = actions[id - c + 1]
  <2>1. /\ Len(actions) = m + n /\ Len(decided') = Len(decided) + Len(actions)
        /\ \A i \in 1 .. Len(decided) : decided'[i] = decided[i]
        /\ \A k \in 1 .. Len(actions) : decided'[Len(decided) + k] = actions[k]
        /\ DOMAIN decided = 1 .. Len(decided)
    <3> DEFINE d == decided
               e == d \o actions
    <3>1. d \in Seq(Action) /\ actions \in Seq(Action) /\ decided' = e
      BY <1>4
    <3> HIDE DEF d
    <3>2. /\ Len(e) = Len(d) + Len(actions) /\ DOMAIN d = 1 .. Len(d)
          /\ \A i \in 1 .. Len(d) : e[i] = d[i]
          /\ \A k \in 1 .. Len(actions) : e[Len(d) + k] = actions[k]
      BY <3>1
    <3> HIDE DEF e
    <3> QED
      BY <1>3, <3>1, <3>2 DEF d
  <2>2. \A id \in Nat : c <= id /\ id < c + m + n =>
           id - c + 1 \in 1 .. m + n /\ c + (id - c + 1) = id + 1
    BY <1>1
  <2>3. ASSUME NEW id \in Nat, c <= id, id < c + m + n
        PROVE  id - c + 1 \in 1 .. m + n /\ decided'[id + 1] = actions[id - c + 1]
    <3> DEFINE k == id - c + 1
    <3>1. k \in 1 .. Len(actions) /\ c + k = id + 1
      BY <2>1, <2>2, <2>3
    <3> HIDE DEF k
    <3>2. decided'[c + k] = actions[k]
      BY <2>1, <3>1 DEF c
    <3> QED
      BY <2>1, <3>1, <3>2 DEF k
  <2> QED
    BY <1>1, <2>1, <2>3 DEF c
<1>8. ASSUME NEW id \in Nat, New(id)
      PROVE  /\ n > 0
             /\ \E k \in 1 .. m + n : /\ c + k = id + 1 /\ k > m
                                     /\ decided'[id + 1].HalfStep = h + (k - m) - 1
  <2> DEFINE k == id - c + 1
  <2>1. k \in 1 .. m + n /\ decided'[id + 1] = actions[k] /\ c + k = id + 1
    BY <1>1, <1>7, <1>8
  <2>2. actions[k].type = "tx"
    BY <1>8, <2>1
  <2> HIDE DEF k
  <2>3. k > m /\ n > 0 /\ actions[k].HalfStep = h + (k - m) - 1
    BY <1>3, <2>1, <2>2
  <2>4. decided'[id + 1].HalfStep = h + (k - m) - 1 /\ k > m /\ n > 0
    BY <2>1, <2>3
  <2> QED
    BY <2>1, <2>4
<1>9. ASSUME NEW id \in Nat, Live(id)'
      PROVE  \/ Live(id) /\ decided'[id + 1] = decided[id + 1]
             \/ New(id)
  <2>1. id \in ActionID' /\ decided'[id + 1].type = "tx"
        /\ (id >= c \/ id \in DOMAIN ActionMap)
        /\ (decided'[id + 1].HalfStep # 0 \/ failures = 0)
    BY <1>2, <1>9 DEF Live
  <2>2. id < c + m + n
    BY <1>1, <1>7, <2>1 DEF ActionID
  <2>3. CASE id >= c
    BY <1>1, <2>1, <2>2, <2>3
  <2>4. CASE id < c
    <3>1. id \in ActionID /\ id + 1 \in DOMAIN decided
      BY <1>1, <1>4, <2>4 DEF ActionID, c
    <3>2. id \in DOMAIN ActionMap
      BY <1>1, <2>1, <2>4
    <3> QED
      BY <1>7, <2>1, <3>1, <3>2 DEF Live
  <2> QED
    BY <1>1, <2>3, <2>4
<1>10. ASSUME NEW id \in Nat, Live(id)
       PROVE  /\ decided[id + 1].HalfStep \in Nat
              /\ n > 0 => decided[id + 1].HalfStep < h
              /\ \/ decided[id + 1].HalfStep < h
                 \/ \E p \in waiting : decided[id + 1].HalfStep <= p
  <2> DEFINE x == decided[id + 1].HalfStep
  <2>1. x \in Nat
    BY <1>10, LiveFacts
  <2>2. x < world \/ \E p \in State.PendingHalfStep : x <= p
    BY <1>10 DEF CompetitionInv, Awaited
  <2> HIDE DEF x
  <2>3. CASE x < world
    BY <1>1, <2>1, <2>3 DEF x
  <2>4. ASSUME NEW p \in State.PendingHalfStep, x <= p
        PROVE  x < h \/ p \in waiting
    <3>1. p \in Nat
      BY <1>6
    <3>2. CASE active /\ p < h
      BY <1>1, <2>1, <2>4, <3>1, <3>2
    <3>3. CASE ~active \/ h <= p
      BY <1>1, <3>1, <3>3 DEF StillPending
    <3> QED
      BY <1>1, <3>1, <3>2, <3>3
  <2>5. x < h \/ \E p \in waiting : x <= p
    BY <2>2, <2>3, <2>4 DEF x
  <2>6. n > 0 => x < h
    BY <1>5, <2>5
  <2> QED
    BY <2>1, <2>5, <2>6 DEF x
<1> HIDE DEF waiting, New
<1>11. ASSUME NEW id \in Nat, Live(id)'
       PROVE  /\ Awaited(id, State)'
              /\ decided'[id + 1].HalfStep # 0 => Awaited(id, stored)'
  <2> DEFINE x == decided'[id + 1].HalfStep
  <2>a. x \in Nat /\ h + n - 1 \in Int /\ State'.PendingHalfStep \subseteq Int
    <3>1. x \in Nat
      <4>1. CASE Live(id) /\ decided'[id + 1] = decided[id + 1]
        BY <1>10, <4>1
      <4>2. CASE New(id)
        BY <1>1, <1>8, <4>2
      <4> QED
        BY <1>9, <1>11, <4>1, <4>2
    <3>2. waiting \subseteq Int
      BY <1>6 DEF StillPending, waiting
    <3> QED
      BY <1>1, <1>5, <3>1, <3>2
  <2> SUFFICES x < h \/ \E p \in State'.PendingHalfStep : x <= p
    <3>1. \A p \in State'.PendingHalfStep : x <= p /\ x # 0 => p # 0
      BY <2>a
    <3>2. world' = h /\ stored'.PendingHalfStep = State'.PendingHalfStep \ {0}
      BY <1>2, <1>5
    <3> HIDE DEF x
    <3>3. \/ x < h
          \/ /\ \E p \in State'.PendingHalfStep : x <= p
             /\ x # 0 => \E p \in stored'.PendingHalfStep : x <= p
      BY <3>1, <3>2
    <3> QED
      BY <3>2, <3>3 DEF Awaited, x
  <2>1. CASE Live(id) /\ decided'[id + 1] = decided[id + 1]
    <3>1. CASE n > 0
      BY <1>10, <2>1, <3>1
    <3>2. CASE ~(n > 0)
      BY <1>5, <1>10, <2>1, <3>2
    <3> QED
      BY <3>1, <3>2
  <2>2. CASE New(id)
    <3>1. n > 0 /\ \E k \in 1 .. m + n : k > m /\ x = h + (k - m) - 1
      BY <1>8, <2>2
    <3> HIDE DEF x
    <3>2. x <= h + n - 1
      BY <1>1, <3>1
    <3>3. State'.PendingHalfStep = {h + n - 1}
      BY <1>5, <3>1
    <3> QED
      BY <3>2, <3>3 DEF x
  <2> QED
    BY <1>9, <1>11, <2>1, <2>2
<1>12. ASSUME NEW i \in Nat, NEW j \in Nat, Live(i)', Live(j)',
              decided'[i + 1] = decided'[j + 1]
       PROVE  i = j
  <2>1. CASE /\ Live(i) /\ decided'[i + 1] = decided[i + 1]
             /\ Live(j) /\ decided'[j + 1] = decided[j + 1]
    BY <1>12, <2>1 DEF CompetitionInv
  <2>2. ASSUME NEW a \in Nat, NEW b \in Nat, Live(a), decided'[a + 1] = decided[a + 1],
               New(b)
        PROVE  decided'[a + 1] # decided'[b + 1]
    <3>1. decided'[a + 1].HalfStep \in Nat /\ decided'[a + 1].HalfStep < h
      BY <1>8, <1>10, <2>2
    <3>2. PICK k \in 1 .. m + n : /\ k > m
                                  /\ decided'[b + 1].HalfStep = h + (k - m) - 1
      BY <1>8, <2>2
    <3>3. h + (k - m) - 1 >= h
      BY <1>1, <3>2
    <3> QED
      BY <1>1, <3>1, <3>2, <3>3
  <2>3. CASE New(i) /\ New(j)
    <3>1. PICK k \in 1 .. m + n : /\ c + k = i + 1
                                  /\ decided'[i + 1].HalfStep = h + (k - m) - 1
      BY <1>8, <2>3
    <3>2. PICK l \in 1 .. m + n : /\ c + l = j + 1
                                  /\ decided'[j + 1].HalfStep = h + (l - m) - 1
      BY <1>8, <2>3
    <3>3. h + (k - m) - 1 = h + (l - m) - 1
      BY <1>12, <3>1, <3>2
    <3> QED
      BY <1>1, <3>1, <3>2, <3>3
  <2> QED
    BY <1>9, <1>12, <2>1, <2>2, <2>3
<1> QED
  BY <1>2, <1>11, <1>12 DEF CompetitionInv

LEMMA CompetitionStep ==
    ASSUME IInv, CompetitionInv, [Next]_vars
    PROVE  CompetitionInv'
<1>1. /\ TypesOK /\ Counters /\ Places
      /\ world \in Nat /\ failures \in Nat /\ failures' \in Nat
  BY FailuresStay DEF IInv, TypesOK, CompetitionInv
<1>2. ASSUME decided' = decided, world' \in Nat, world <= world',
             main'.pc = "load" /\ ~main'.havePendingActions => DOMAIN ActionMap' = {},
             \A id \in Nat : Live(id) =>
                /\ \/ State'.PendingHalfStep = State.PendingHalfStep
                   \/ failures' # 0 /\ State'.PendingHalfStep = stored.PendingHalfStep
                /\ stored'.PendingHalfStep = stored.PendingHalfStep
      PROVE  CompetitionInv'
  <2>1. ASSUME NEW id \in Nat, Live(id)'
        PROVE  /\ Live(id) /\ decided'[id + 1] = decided[id + 1]
               /\ Awaited(id, State)'
               /\ decided'[id + 1].HalfStep # 0 => Awaited(id, stored)'
    <3>1. Live(id) /\ decided'[id + 1] = decided[id + 1] /\ decided[id + 1].HalfStep \in Nat
      BY <1>1, <1>2, <2>1, LiveStays, LiveFacts
    <3>2. /\ Awaited(id, State)
          /\ decided[id + 1].HalfStep # 0 => Awaited(id, stored)
      BY <3>1 DEF CompetitionInv
    <3>4. decided[id + 1].HalfStep # 0 \/ failures' = 0
      BY <1>2, <2>1 DEF Live
    <3>3. decided[id + 1].HalfStep < world => decided'[id + 1].HalfStep < world'
      BY <1>1, <1>2, <3>1
    <3> QED
      BY <1>2, <3>1, <3>2, <3>3, <3>4 DEF Awaited
  <2>2. \A i, j \in Nat : Live(i)' /\ Live(j)' /\ decided'[i + 1] = decided'[j + 1] => i = j
    BY <2>1 DEF CompetitionInv
  <2> QED
    BY <1>1, <1>2, <2>1, <2>2 DEF CompetitionInv
<1>3. ASSUME NEW h \in world .. chain.NumExecutionHalfSteps, NEW m \in 0 .. MaxMessages,
             NEW n \in 0 .. MaxParallel, NEW active \in BOOLEAN,
             DecideAndSave(h, m, n, active)
      PROVE  CompetitionInv'
  BY <1>1, <1>3, DecisionCompetes
<1>4. CASE Add
  <2>1. main'.pc = "schedule"
    BY <1>1, <1>4 DEF Add, TypesOK
  <2> QED
    BY <1>1, <1>2, <1>4, <2>1 DEF Add, history
<1>5. CASE Scheduled
  <2>1. main'.pc = "decide" /\ State'.PendingHalfStep = State.PendingHalfStep
    BY <1>1, <1>5 DEF Scheduled, TypesOK, StateType
  <2> QED
    BY <1>1, <1>2, <1>5, <2>1 DEF Scheduled, history
<1>6. CASE Loaded
  <2>1. main'.pc # "load"
    BY <1>1, <1>6 DEF Loaded, TypesOK
  <2>2. ASSUME ~main.havePendingActions, State.Actions = <<>>, NEW id \in Nat, Live(id)
        PROVE  FALSE
    <3>1. DOMAIN ActionMap = {}
      BY <1>6, <2>2 DEF Loaded, CompetitionInv
    <3>2. Pending.CurrentID = Len(decided)
      <4>1. stored.Actions = <<>> /\ stored.ActionCounter + Len(stored.Actions) = Len(decided)
            /\ stored.ActionCounter <= Pending.CurrentID /\ Pending.CurrentID <= Len(decided)
            /\ stored.ActionCounter \in Nat
        BY <1>1, <1>6, <2>2 DEF Loaded, Counters, TypesOK, StateType
      <4>2. Len(stored.Actions) = 0
        BY <4>1
      <4> QED
        BY <1>1, <4>1, <4>2, LiveFacts
    <3> QED
      BY <1>1, <2>2, <3>1, <3>2, LiveFacts DEF Live
  <2>3. ASSUME NEW id \in Nat, Live(id)
        PROVE  State' = State
    BY <1>6, <2>2, <2>3 DEF Loaded
  <2>4. UNCHANGED <<stored, world, decided>>
    BY <1>6 DEF Loaded, history
  <2>5. world' \in Nat /\ world <= world'
    BY <1>1, <2>4
  <2> QED
    BY <1>2, <2>1, <2>3, <2>4, <2>5
<1>7. CASE CrashAndRestart
  <2>1. /\ world' \in Nat /\ world <= world' /\ failures' # 0
        /\ State' = stored /\ stored' = stored /\ decided' = decided
        /\ main'.havePendingActions = (DOMAIN ActionMap # {}) /\ ActionMap' = ActionMap
    BY <1>1, <1>7 DEF CrashAndRestart, TypesOK, ActionMap
  <2> QED
    BY <1>2, <2>1
<1>8. ASSUME UNCHANGED <<State, stored, world, decided>>,
             main'.pc = main.pc, main'.havePendingActions = main.havePendingActions,
             DOMAIN ActionMap' \subseteq DOMAIN ActionMap
      PROVE  CompetitionInv'
  <2>1. main'.pc = "load" /\ ~main'.havePendingActions => DOMAIN ActionMap' = {}
    BY <1>8 DEF CompetitionInv
  <2> QED
    BY <1>1, <1>2, <1>8, <2>1
<1>9. CASE Schedule
  <2>1. main'.pc = main.pc /\ main'.havePendingActions = main.havePendingActions
    BY <1>1, <1>9 DEF Schedule, TypesOK
  <2> QED
    BY <1>8, <1>9, <2>1 DEF Schedule, history, ActionMap
<1>10. ASSUME NEW answered \in BOOLEAN, SendMessage(answered) \/ SendTX(answered)
       PROVE  CompetitionInv'
  BY <1>8, <1>10 DEF SendMessage, SendTX, ActionMap
<1>11. CASE TakeTX \/ PassTX \/ OtherExecutes \/ UNCHANGED vars
  BY <1>8, <1>11 DEF TakeTX, PassTX, OtherExecutes, vars, volatile, history, ActionMap
<1>12. ASSUME NEW success \in BOOLEAN, Mine(success)
       PROVE  CompetitionInv'
  BY <1>8, <1>12 DEF Mine, volatile, history, ActionMap
<1>13. CASE MessageSent \/ Expire
  BY <1>1, <1>8, <1>13, RemoveEffect DEF MessageSent, Expire, history
<1>14. CASE RecordTX
  BY <1>1, <1>8, <1>14, RecordEffect DEF RecordTX, history
<1>15. ASSUME NEW id \in inFlight, NEW error \in BOOLEAN, TXMined(id, error)
       PROVE  CompetitionInv'
  BY <1>1, <1>8, <1>15, RemoveEffect DEF TXMined, history
<1> QED
  BY StepKinds, <1>3, <1>4, <1>5, <1>6, <1>7, <1>9, <1>10, <1>11, <1>12, <1>13, <1>14, <1>15

(* maybeExecuteBatch (keyper/decide.go) waits for PendingHalfStep, so that *)
(* no two transactions for one half step are under way, though the half    *)
(* step is restored from state.gob after a crash.  gob does not keep a     *)
(* pending half step 0: this one alone may be executed twice, after a      *)
(* crash.                                                                  *)
THEOREM KeyperDoesNotCompete ==
    Spec => []NoCompetingExecutions
<1>1. Init => CompetitionInv
  <2> SUFFICES ASSUME Init
               PROVE  CompetitionInv
    OBVIOUS
  <2>1. main.pc = "decide" /\ failures \in Nat
    BY DEF Init
  <2>2. \A id : ~Live(id)
    BY DEF Init, Live, ActionID
  <2> QED
    BY <2>1, <2>2 DEF CompetitionInv
<1>2. IInv /\ CompetitionInv /\ [Next]_vars => CompetitionInv'
  BY CompetitionStep
<1>3. IInv /\ CompetitionInv => NoCompetingExecutions
  <2> SUFFICES ASSUME IInv, CompetitionInv,
                      NEW i \in DOMAIN ActionMap, NEW j \in DOMAIN ActionMap,
                      ActionMap[i].type = "tx", ActionMap[i] = ActionMap[j],
                      ActionMap[i].HalfStep # 0 \/ ~(failures > 0)
               PROVE  i = j
    BY DEF NoCompetingExecutions, ActionMap
  <2>1. TypesOK /\ Counters /\ NothingLost /\ failures \in Nat
    BY DEF IInv, CompetitionInv
  <2>2. ASSUME NEW id \in DOMAIN ActionMap
        PROVE  id \in Nat /\ id \in ActionID /\ ActionMap[id] = decided[id + 1]
    <3>1. id \in Nat /\ id < Pending.CurrentID /\ Pending.CurrentID <= Len(decided)
      BY <2>1 DEF TypesOK, PendingOK, Counters, ActionMap
    <3>2. id \in ActionID /\ ~(id >= Pending.CurrentID)
      BY <2>1, <3>1, LiveFacts
    <3> QED
      BY <2>1, <3>1, <3>2 DEF NothingLost, ActionMap
  <2>3. Live(i) /\ Live(j) /\ decided[i + 1] = decided[j + 1]
    BY <2>1, <2>2 DEF Live
  <2> QED
    BY <2>2, <2>3 DEF CompetitionInv
<1> QED
  BY <1>1, <1>2, <1>3, Invariance, PTL DEF Spec
=============================================================================
