-------------------------- MODULE ComponentProofs ---------------------------
(***************************************************************************)
(* Proofs about the components that share no state, each for every value of *)
(* its constants: the receivers of a queue, requests that are repeated,    *)
(* AerospikeCache, Integer, splitMessage, the query builder, the server's  *)
(* layers, the aggregators and CRC.                                        *)
(***************************************************************************)
EXTENDS Receiver, Requests, AerospikeCache, Integer, SplitMessage, Query,
        Server, Aggregate, Crc, TLAPS, NaturalsInduction, WellFoundedInduction, SequenceTheorems,
        FiniteSetTheorems

(* Numbers, if there are any, have a least one. *)
LEMMA LeastNumber ==
  ASSUME NEW S \in SUBSET Nat, S # {}  PROVE \E x \in S : \A y \in S : x <= y
<1>1. \E x \in S : \A y \in S : ~ (<<y, x>> \in OpToRel(<, Nat))
  BY NatLessThanWellFounded, WFMin, Zenon
<1>2. PICK x \in S : \A y \in S : ~ (<<y, x>> \in OpToRel(<, Nat))
  BY <1>1
<1>3. ASSUME NEW y \in S  PROVE x <= y
  <2>1. ~ (<<y, x>> \in OpToRel(<, Nat))
    BY <1>2
  <2>2. y < x => <<y, x>> \in OpToRel(<, Nat)
    BY DEF OpToRel
  <2>3. x \in Nat /\ y \in Nat
    OBVIOUS
  <2>4. ~ (y < x)
    BY <2>1, <2>2, Zenon
  <2>. QED  BY <2>3, <2>4
<1>. QED  BY <1>3

(* The least of some numbers, and the greatest if they are bounded.        *)
LEMMA LeastFacts ==
  ASSUME NEW S \in SUBSET Nat, S # {}  PROVE Min(S) \in S /\ \A y \in S : Min(S) <= y
BY LeastNumber DEF Min

LEMMA GreatestFacts ==
  ASSUME NEW n \in Nat, NEW S \in SUBSET (0 .. n), S # {}
  PROVE  Max(S) \in S /\ \A y \in S : y <= Max(S)
<1>. DEFINE T == {n - x : x \in S}
<1>1. T \in SUBSET Nat /\ T # {}
  OBVIOUS
<1>2. Min(T) \in T /\ \A y \in T : Min(T) <= y
  BY <1>1, LeastFacts
<1>. HIDE DEF T
<1>3. PICK x \in S : Min(T) = n - x
  BY <1>2 DEF T
<1>4. ASSUME NEW y \in S  PROVE y <= x
  <2>1. n - y \in T
    BY DEF T
  <2>. QED  BY <1>2, <1>3, <2>1
<1>. QED  BY <1>4 DEF Max

Steps(n, S) == [1 .. n -> [S -> S]]
Recursive(f, n, S, base, step) ==
  f \in [0 .. n -> S] /\ f[0] = base /\ \A i \in 1 .. n : f[i] = step[i][f[i - 1]]

(* What is recursively defined over 0 .. n exists: induction over n is the *)
(* search for a least counterexample.                                      *)
LEMMA RecursionExists ==
  ASSUME NEW n \in Nat, NEW S, NEW base \in S, NEW step \in Steps(n, S)
  PROVE  \E f : Recursive(f, n, S, base, step)
<1>. USE DEF Steps
<1>. DEFINE Upto(m, f) == f[0] = base /\ \A i \in 1 .. m : f[i] = step[i][f[i - 1]]
            Bad == {m \in 0 .. n : ~ \E f \in [0 .. m -> S] : Upto(m, f)}
<1>1. Bad = {}
  <2>. SUFFICES ASSUME Bad # {}  PROVE FALSE
    OBVIOUS
  <2>0. Bad \in SUBSET Nat
    OBVIOUS
  <2>1. PICK m \in Bad : \A y \in Bad : m <= y
    <3>. HIDE DEF Bad
    <3>. QED  BY <2>0, LeastNumber
  <2>2. m # 0
    <3>1. Upto(0, [i \in 0 .. 0 |-> base]) /\ [i \in 0 .. 0 |-> base] \in [0 .. 0 -> S]
      OBVIOUS
    <3>. QED  BY <3>1
  <2>3. m - 1 \in 0 .. n /\ m - 1 \notin Bad
    <3>1. m \in 0 .. n
      BY <2>1
    <3>. HIDE DEF Bad
    <3>. QED  BY <2>1, <2>2, <3>1
  <2>4. PICK f \in [0 .. m - 1 -> S] : Upto(m - 1, f)
    BY <2>3
  <2>. DEFINE g == [i \in 0 .. m |-> IF i = m THEN step[m][f[m - 1]] ELSE f[i]]
  <2>5. m \in 1 .. n /\ f[m - 1] \in S
    BY <2>2
  <2>7. g \in [0 .. m -> S]
    BY <2>5
  <2>8. g[0] = base
    BY <2>4, <2>5
  <2>9. ASSUME NEW i \in 1 .. m  PROVE g[i] = step[i][g[i - 1]]
    <3>1. CASE i = m
      BY <2>5, <3>1
    <3>2. CASE i # m
      <4>1. i \in 1 .. m - 1 /\ g[i] = f[i] /\ g[i - 1] = f[i - 1]
        BY <2>5, <3>2
      <4>. QED  BY <2>4, <4>1
    <3>. QED  BY <3>1, <3>2
  <2>. QED  BY <2>1, <2>7, <2>8, <2>9
<1>2. PICK f \in [0 .. n -> S] : Upto(n, f)
  <2>1. n \in 0 .. n
    OBVIOUS
  <2>. QED  BY <1>1, <2>1
<1>. QED  BY <1>2 DEF Recursive

StepsAgree(f, g, m) == f[0] = g[0] /\ \A i \in 1 .. m : f[i - 1] = g[i - 1] => f[i] = g[i]
Agree(f, g, m) == \A i \in 0 .. m : f[i] = g[i]

(* Nothing else is so defined. *)
LEMMA RecursionUnique ==
  ASSUME NEW m \in Nat, NEW f, NEW g, StepsAgree(f, g, m)
  PROVE  Agree(f, g, m)
<1>. USE DEF StepsAgree, Agree
<1>. DEFINE Bad == {i \in 0 .. m : f[i] # g[i]}
<1>1. SUFFICES ASSUME Bad # {}  PROVE FALSE
  OBVIOUS
<1>2. Bad \in SUBSET Nat
  OBVIOUS
<1>3. PICK i \in Bad : \A y \in Bad : i <= y
  <2>. HIDE DEF Bad
  <2>. QED  BY <1>1, <1>2, LeastNumber
<1>4. i \in 1 .. m /\ i - 1 \in 0 .. m /\ i - 1 \notin Bad
  BY <1>3
<1>. QED  BY <1>4
-----------------------------------------------------------------------------
(***************************************************************************)
(* Receiver: no message leaves the queue unhandled.                        *)
(***************************************************************************)
Loops == [pc : {"idle", "receiving", "handling", "acking", "returned"}, mode : {"stream", "list"},
          connected : BOOLEAN, tags : Seq(Messages), yielded : Nat, ack : Nat, list : SUBSET Messages]

(* The first part of GoneIsHandled.                                        *)
AllKept == Messages \ Pending \subseteq consumed \cup forfeited \cup UNION {receiver[r].list : r \in Receivers}

(* What was dealt with stays so.                                           *)
LEMMA ConsumedFacts ==
  ASSUME ReceiverInv
  PROVE  /\ UNCHANGED times => UNCHANGED consumed
         /\ \A m \in Messages : times' = [times EXCEPT ![m] = @ + 1] =>
              /\ consumed' = consumed \cup {m} /\ times' \in [Messages -> Nat]
              /\ times'[m] = times[m] + 1
              /\ \A n \in Messages \ {m} : times'[n] = times[n]
BY DEF consumed, ReceiverInv, ReceiverTypeOK

LEMMA CountedFacts ==
  ReceiverTypeOK /\ Counted => \A m \in Messages : times[m] <= 1 + troubles
<1>. SUFFICES ASSUME ReceiverTypeOK, Counted, NEW m \in Messages  PROVE times[m] <= 1 + troubles
  OBVIOUS
<1>1. Cardinality(Holders(m)) \in Nat
  BY FS_CardinalityType DEF Counted
<1>2. times[m] \in Nat /\ troubles \in Nat
  BY DEF ReceiverTypeOK
<1>. QED  BY <1>1, <1>2 DEF Counted

LEMMA ReceiverInitInv == ReceiverInit => ReceiverInv
<1>. SUFFICES ASSUME ReceiverInit  PROVE ReceiverInv
  OBVIOUS
<1>1. /\ Disconnected \in Loops /\ Disconnected.tags = <<>> /\ Disconnected.list = {}
      /\ ~ Disconnected.connected
  BY DEF Disconnected, Loops
<1>2. \A r \in Receivers : receiver[r] = Disconnected
  BY DEF ReceiverInit
<1>3. ReceiverTypeOK
  BY <1>1 DEF ReceiverInit, ReceiverTypeOK, Loops
<1>4. \A r \in Receivers : Unacked(r) = {}
  BY <1>1, <1>2 DEF Unacked
<1>5. AllKept /\ ChannelsOK
  BY <1>4 DEF ReceiverInit, AllKept, ChannelsOK, Pending
<1>6. LoopOK(Disconnected)
  BY DEF Disconnected, LoopOK
<1>7. \A r \in Receivers : LoopOK(receiver[r])
  BY <1>2, <1>6
<1>8. \A m \in Messages : Holders(m) = {}
  BY <1>1, <1>2 DEF Holders, MayHandle
<1>9. Counted
  <2>1. \A m \in Messages : times[m] = 0 /\ troubles = 0
    BY DEF ReceiverInit
  <2>. QED  BY <1>8, <2>1, FS_EmptySet DEF Counted
<1>. QED  BY <1>3, <1>5, <1>7, <1>9, CountedFacts DEF ReceiverInv, GoneIsHandled, AllKept

(* In a step of r, whoever deals with a message, or comes to be able to,    *)
(* uses up one who was able to, or a trouble.                              *)
Paid(r) ==
  \A m \in Messages :
    times'[m] + (IF MayHandle(receiver'[r], m) THEN 1 ELSE 0)
              + (IF m \in ready' THEN 1 ELSE 0) + troubles
      <= times[m] + (IF MayHandle(receiver[r], m) THEN 1 ELSE 0)
                  + (IF m \in ready THEN 1 ELSE 0) + troubles'

(* Who may deal with a message changes by one receiver at most in a step   *)
(* of that receiver, and pays for it.                                      *)
LEMMA CountStep ==
  ASSUME ReceiverInv, NEW r \in Receivers, receiver' = [receiver EXCEPT ![r] = receiver'[r]],
         times' \in [Messages -> Nat], troubles' \in Nat,
         Paid(r)
  PROVE  Counted'
<1>. SUFFICES ASSUME NEW m \in Messages
              PROVE  /\ IsFiniteSet(Holders(m)')
                     /\ times'[m] + Cardinality(Holders(m)') + (IF m \in ready' THEN 1 ELSE 0)
                          <= 1 + troubles'
  BY DEF Counted
<1>1. \A o \in Receivers \ {r} : receiver'[o] = receiver[o]
  BY DEF ReceiverInv, ReceiverTypeOK
<1>2. Holders(m)' \ {r} = Holders(m) \ {r}
  BY <1>1 DEF Holders
<1>3. /\ IsFiniteSet(Holders(m))
      /\ times[m] + Cardinality(Holders(m)) + (IF m \in ready THEN 1 ELSE 0) <= 1 + troubles
  BY DEF ReceiverInv, Counted
<1>4. /\ r \in Holders(m) <=> MayHandle(receiver[r], m)
      /\ r \in Holders(m)' <=> MayHandle(receiver'[r], m)
  BY DEF Holders
<1>. DEFINE S == Holders(m)
            T == Holders(m)'
            R == S \ {r}
<1>5. IsFiniteSet(R) /\ Cardinality(S) = Cardinality(R) + (IF r \in S THEN 1 ELSE 0)
  <2>1. IsFiniteSet(R) /\ Cardinality(R) = IF r \in S THEN Cardinality(S) - 1 ELSE Cardinality(S)
    BY <1>3, FS_RemoveElement
  <2>2. Cardinality(S) \in Nat
    BY <1>3, FS_CardinalityType
  <2>. QED  BY <2>1, <2>2
<1>6. IsFiniteSet(T) /\ Cardinality(T) = Cardinality(R) + (IF r \in T THEN 1 ELSE 0)
  <2>1. CASE r \in T
    <3>1. T = R \cup {r} /\ r \notin R
      BY <1>2, <2>1
    <3>2. IsFiniteSet(R \cup {r}) /\ Cardinality(R \cup {r}) = IF r \in R THEN Cardinality(R) ELSE Cardinality(R) + 1
      BY <1>5, FS_AddElement
    <3>. QED  BY <2>1, <3>1, <3>2
  <2>2. CASE r \notin T
    <3>1. T = R
      BY <1>2, <2>2
    <3>2. Cardinality(R) \in Nat
      BY <1>5, FS_CardinalityType
    <3>. QED  BY <1>5, <2>2, <3>1, <3>2
  <2>. QED  BY <2>1, <2>2
<1>7. Cardinality(R) \in Nat /\ times[m] \in Nat /\ times'[m] \in Nat /\ troubles \in Nat
  BY <1>5, FS_CardinalityType DEF ReceiverInv, ReceiverTypeOK
<1>8. /\ r \in S <=> MayHandle(receiver[r], m)
      /\ r \in T <=> MayHandle(receiver'[r], m)
      /\ times[m] + Cardinality(S) + (IF m \in ready THEN 1 ELSE 0) <= 1 + troubles
  BY <1>3, <1>4
<1>. HIDE DEF S, T, R
<1>9. times'[m] + Cardinality(T) + (IF m \in ready' THEN 1 ELSE 0) <= 1 + troubles'
  BY <1>5, <1>6, <1>7, <1>8 DEF Paid
<1>. QED  BY <1>6, <1>9 DEF T

(* What a step of one receiver owes: it takes messages only from the queue *)
(* and from its own channel, and accounts for those that it removes.       *)
LEMMA QueueStepLemma ==
  ASSUME ReceiverInv, NEW r \in Receivers,
         receiver' = [receiver EXCEPT ![r] = receiver'[r]],
         receiver'[r] \in Loops, LoopOK(receiver[r])', times' \in [Messages -> Nat], troubles' \in Nat,
         consumed \subseteq consumed', forfeited \subseteq forfeited', ready' \subseteq Messages,
         ready' \cup Unacked(r)' \subseteq ready \cup Unacked(r),
         ready' \cap Unacked(r)' = {},
         ready \cup Unacked(r) \subseteq
           ready' \cup Unacked(r)' \cup consumed' \cup forfeited' \cup receiver'[r].list,
         receiver[r].list \subseteq
           ready' \cup Unacked(r)' \cup consumed' \cup forfeited' \cup receiver'[r].list
             \cup ListedBesides(r) \cup UNION {Unacked(o) : o \in Receivers \ {r}},
         Paid(r)
  PROVE  ReceiverInv'
<1>1. \A o \in Receivers \ {r} : receiver'[o] = receiver[o]
  BY DEF ReceiverInv, ReceiverTypeOK
<1>2. ReceiverTypeOK'
  BY DEF ReceiverInv, ReceiverTypeOK, Loops
<1>3. ASSUME NEW o \in Receivers \ {r}  PROVE Unacked(o)' = Unacked(o)
  <2>1. receiver'[o] = receiver[o]
    BY <1>1
  <2>. QED  BY <2>1 DEF Unacked, Fetched
<1>4. ASSUME NEW o \in Receivers \ {r}  PROVE LoopOK(receiver[o])'
  BY <1>1 DEF ReceiverInv, LoopOK
<1>5. \A o, s \in Receivers : o # s => Unacked(o)' \cap Unacked(s)' = {}
  BY <1>3 DEF ReceiverInv, ChannelsOK
<1>6. \A o \in Receivers : Unacked(o)' \cap ready' = {}
  BY <1>3 DEF ReceiverInv, ChannelsOK
<1>7. ASSUME NEW m \in Messages, m \notin Pending'
      PROVE  m \in consumed' \cup forfeited' \cup UNION {receiver'[o].list : o \in Receivers}
  <2>1. m \notin ready' /\ \A o \in Receivers : m \notin Unacked(o)'
    BY <1>7 DEF Pending
  <2>2. m \notin UNION {Unacked(o) : o \in Receivers \ {r}}
    BY <1>3, <2>1
  <2>3. CASE m \in ready \cup Unacked(r)
    BY <2>1, <2>3
  <2>4. CASE m \notin ready \cup Unacked(r)
    <3>1. m \notin Pending
      BY <2>2, <2>4 DEF Pending
    <3>2. m \in consumed \cup forfeited \cup UNION {receiver[o].list : o \in Receivers}
      BY <3>1 DEF ReceiverInv, GoneIsHandled
    <3>3. ASSUME NEW o \in Receivers \ {r}, m \in receiver[o].list
          PROVE  m \in UNION {receiver'[q].list : q \in Receivers}
      BY <3>3, <1>1
    <3>4. CASE m \in receiver[r].list
      <4>1. m \in consumed' \cup forfeited' \cup receiver'[r].list \cup ListedBesides(r)
        BY <3>4, <2>1, <2>2
      <4>2. CASE m \in ListedBesides(r)
        <5>1. PICK o \in Receivers \ {r} : m \in receiver[o].list
          BY <4>2 DEF ListedBesides
        <5>. QED  BY <3>3, <5>1
      <4>. QED  BY <4>1, <4>2
    <3>. QED  BY <3>2, <3>3, <3>4
  <2>. QED  BY <2>3, <2>4
<1>8. Counted'
  BY CountStep
<1>9. \A m \in Messages : times'[m] <= 1 + troubles'
  <2>1. (ReceiverTypeOK /\ Counted => \A m \in Messages : times[m] <= 1 + troubles)'
    BY CountedFacts, PTL
  <2>. QED  BY <1>2, <1>8, <2>1
<1>10. GoneIsHandled' /\ ChannelsOK'
  BY <1>5, <1>6, <1>7, <1>9 DEF GoneIsHandled, ChannelsOK
<1>. QED  BY <1>2, <1>4, <1>8, <1>10 DEF ReceiverInv

(* Before a step. *)
LEMMA LoopFacts ==
  ASSUME ReceiverInv, NEW r \in Receivers
  PROVE  /\ receiver[r] \in Loops /\ receiver[r].tags \in Seq(Messages) /\ LoopOK(receiver[r])
         /\ Unacked(r) \subseteq Messages /\ Fetched(r) \subseteq Messages
         /\ ready \subseteq Messages /\ Unacked(r) \cap ready = {}
         /\ times \in [Messages -> Nat] /\ troubles \in Nat
<1>1. receiver[r] \in Loops /\ receiver[r].tags \in Seq(Messages) /\ LoopOK(receiver[r])
  BY DEF ReceiverInv, ReceiverTypeOK, Loops
<1>2. Fetched(r) \subseteq Messages
  BY <1>1 DEF Fetched
<1>. QED  BY <1>1, <1>2 DEF ReceiverInv, ReceiverTypeOK, ChannelsOK, Unacked

(* A step that costs nothing: whoever may deal with a message could before. *)
LEMMA FreeStep ==
  ASSUME ReceiverInv, NEW r \in Receivers, UNCHANGED <<times, troubles>>,
         \A m \in Messages : MayHandle(receiver'[r], m) => MayHandle(receiver[r], m),
         \A m \in Messages : m \in ready' =>
           m \in ready \/ (MayHandle(receiver[r], m) /\ ~ MayHandle(receiver'[r], m))
  PROVE  Paid(r)
<1>. SUFFICES ASSUME NEW m \in Messages
              PROVE  times[m] + (IF MayHandle(receiver'[r], m) THEN 1 ELSE 0)
                              + (IF m \in ready' THEN 1 ELSE 0) + troubles
                       <= times[m] + (IF MayHandle(receiver[r], m) THEN 1 ELSE 0)
                                   + (IF m \in ready THEN 1 ELSE 0) + troubles
  BY DEF Paid
<1>. DEFINE mayNow == MayHandle(receiver[r], m)
            mayThen == MayHandle(receiver'[r], m)
<1>1. /\ times[m] \in Nat /\ troubles \in Nat
      /\ mayThen => mayNow
      /\ m \in ready' => m \in ready \/ (mayNow /\ ~ mayThen)
  BY DEF ReceiverInv, ReceiverTypeOK
<1>. HIDE DEF mayNow, mayThen
<1>. QED  BY <1>1 DEF mayNow, mayThen

(* A trouble pays for one more.                                            *)
LEMMA TroubleStep ==
  ASSUME ReceiverInv, NEW r \in Receivers, UNCHANGED times, troubles' = troubles + 1,
         \A m \in Messages : MayHandle(receiver'[r], m) => MayHandle(receiver[r], m)
  PROVE  Paid(r)
<1>. SUFFICES ASSUME NEW m \in Messages
              PROVE  times[m] + (IF MayHandle(receiver'[r], m) THEN 1 ELSE 0)
                              + (IF m \in ready' THEN 1 ELSE 0) + troubles
                       <= times[m] + (IF MayHandle(receiver[r], m) THEN 1 ELSE 0)
                                   + (IF m \in ready THEN 1 ELSE 0) + (troubles + 1)
  BY DEF Paid
<1>. DEFINE mayNow == MayHandle(receiver[r], m)
            mayThen == MayHandle(receiver'[r], m)
<1>1. times[m] \in Nat /\ troubles \in Nat /\ (mayThen => mayNow)
  BY DEF ReceiverInv, ReceiverTypeOK
<1>. HIDE DEF mayNow, mayThen
<1>. QED  BY <1>1 DEF mayNow, mayThen

(* Dealing with a message that one may deal with uses that up.             *)
LEMMA DealtStep ==
  ASSUME ReceiverInv, NEW r \in Receivers, NEW d \in Messages, times' = [times EXCEPT ![d] = @ + 1],
         UNCHANGED <<ready, troubles>>, MayHandle(receiver[r], d), ~ MayHandle(receiver'[r], d),
         \A m \in Messages : MayHandle(receiver'[r], m) => MayHandle(receiver[r], m)
  PROVE  Paid(r)
<1>. SUFFICES ASSUME NEW m \in Messages
              PROVE  times'[m] + (IF MayHandle(receiver'[r], m) THEN 1 ELSE 0)
                               + (IF m \in ready THEN 1 ELSE 0) + troubles
                       <= times[m] + (IF MayHandle(receiver[r], m) THEN 1 ELSE 0)
                                   + (IF m \in ready THEN 1 ELSE 0) + troubles
  BY DEF Paid
<1>. DEFINE mayNow == MayHandle(receiver[r], m)
            mayThen == MayHandle(receiver'[r], m)
<1>1. /\ times[m] \in Nat /\ troubles \in Nat /\ (mayThen => mayNow)
      /\ m = d => mayNow /\ ~ mayThen /\ times'[m] = times[m] + 1
      /\ m # d => times'[m] = times[m]
  BY ConsumedFacts DEF ReceiverInv, ReceiverTypeOK
<1>. HIDE DEF mayNow, mayThen
<1>. QED  BY <1>1 DEF mayNow, mayThen
-----------------------------------------------------------------------------

LEMMA OpenStep ==
  ASSUME ReceiverInv, NEW r \in Receivers, OpenChannel(r)  PROVE ReceiverInv'
<1>1. PICK mode \in {"stream", "list"} :
        receiver' = [receiver EXCEPT ![r].pc = "receiving", ![r].mode = mode, ![r].connected = TRUE]
  BY DEF OpenChannel
<1>2. receiver[r].pc = "idle" /\ UNCHANGED <<ready, times, forfeited, troubles>>
  BY DEF OpenChannel
<1>3. /\ receiver'[r] = [receiver[r] EXCEPT !.pc = "receiving", !.mode = mode, !.connected = TRUE]
      /\ receiver' = [receiver EXCEPT ![r] = receiver'[r]]
  BY <1>1 DEF ReceiverInv, ReceiverTypeOK
<1>4. /\ receiver'[r] \in Loops /\ receiver'[r].tags = receiver[r].tags
      /\ receiver'[r].list = receiver[r].list /\ receiver'[r].ack = receiver[r].ack
      /\ receiver'[r].yielded = receiver[r].yielded /\ receiver'[r].pc = "receiving"
  BY <1>3, LoopFacts DEF Loops
<1>5. /\ receiver'[r].ack = 0 /\ receiver'[r].yielded = 0 /\ receiver'[r].tags = <<>>
      /\ receiver'[r].list = {} /\ receiver[r].tags = <<>>
  BY <1>2, <1>4, LoopFacts DEF LoopOK, Loops
<1>6. LoopOK(receiver[r])'
  BY <1>4, <1>5 DEF LoopOK
<1>7. Unacked(r)' = {} /\ Unacked(r) = {}
  BY <1>5 DEF Unacked, Fetched
<1>8. Paid(r)
  BY <1>2, <1>4, FreeStep DEF MayHandle
<1>. QED  BY <1>2, <1>3, <1>4, <1>6, <1>7, <1>8, LoopFacts, ConsumedFacts, QueueStepLemma

LEMMA DeliverStep ==
  ASSUME ReceiverInv, NEW r \in Receivers, Deliver(r)  PROVE ReceiverInv'
<1> DEFINE m == Min(ready)
           tags == receiver[r].tags
<1>1. m \in ready /\ m \in Messages
  BY LeastFacts, ReceiverAssumption DEF ReceiverInv, ReceiverTypeOK, Deliver
<1>2. /\ ready' = ready \ {m} /\ receiver[r].pc \in {"receiving", "handling"}
      /\ receiver[r].connected /\ UNCHANGED <<times, forfeited, troubles>>
  BY DEF Deliver
<1> HIDE DEF m
<1>3. /\ receiver'[r] = [receiver[r] EXCEPT !.tags = Append(tags, m)]
      /\ receiver' = [receiver EXCEPT ![r] = receiver'[r]]
  BY DEF Deliver, ReceiverInv, ReceiverTypeOK, m
<1>4. /\ Append(tags, m) \in Seq(Messages) /\ Len(Append(tags, m)) = Len(tags) + 1
      /\ \A i \in DOMAIN tags : i \in DOMAIN Append(tags, m) /\ Append(tags, m)[i] = tags[i]
      /\ \A i \in DOMAIN Append(tags, m) : i \in DOMAIN tags \/ i = Len(tags) + 1
      /\ Len(tags) + 1 \in DOMAIN Append(tags, m) /\ Append(tags, m)[Len(tags) + 1] = m
  <2>1. tags \in Seq(Messages) /\ DOMAIN tags = 1 .. Len(tags) /\ Len(tags) \in Nat
    BY LoopFacts
  <2>2. DOMAIN Append(tags, m) = 1 .. Len(tags) + 1
    BY <1>1, <2>1
  <2>3. \A i \in DOMAIN Append(tags, m) : i \in DOMAIN tags \/ i = Len(tags) + 1
    BY <2>1, <2>2
  <2>. QED  BY <1>1, <2>1, <2>2, <2>3
<1>5. /\ receiver'[r] \in Loops /\ receiver'[r].pc = receiver[r].pc
      /\ receiver'[r].mode = receiver[r].mode /\ receiver'[r].list = receiver[r].list
      /\ receiver'[r].ack = receiver[r].ack /\ receiver'[r].yielded = receiver[r].yielded
      /\ receiver'[r].connected /\ receiver'[r].tags = Append(tags, m)
  <2>1. receiver[r] \in Loops /\ Append(tags, m) \in Seq(Messages)
    BY <1>4, LoopFacts
  <2>. HIDE DEF tags
  <2>2. receiver'[r].connected = receiver[r].connected
    BY <1>3, <2>1 DEF Loops
  <2>. QED  BY <1>2, <1>3, <2>1, <2>2 DEF Loops
<1>6. Fetched(r)' = Fetched(r) \cup {m}
  <2>1. Fetched(r) = {tags[i] : i \in DOMAIN tags}
    BY DEF Fetched
  <2>2. Fetched(r)' = {Append(tags, m)[i] : i \in DOMAIN Append(tags, m)}
    BY <1>5 DEF Fetched
  <2>3. \A i \in DOMAIN tags : tags[i] \in Fetched(r)'
    BY <1>4, <2>2, Zenon
  <2>4. m \in Fetched(r)'
    BY <1>4, <2>2, Zenon
  <2>5. \A i \in DOMAIN Append(tags, m) : Append(tags, m)[i] \in Fetched(r) \cup {m}
    BY <1>4, <2>1, Zenon
  <2>. QED  BY <2>1, <2>2, <2>3, <2>4, <2>5, Zenon
<1>7. Unacked(r)' = Unacked(r) \cup {m} /\ Unacked(r) = Fetched(r)
  BY <1>2, <1>5, <1>6 DEF Unacked
<1>8. \A i \in DOMAIN tags : tags[i] # m
  <2>1. m \notin Fetched(r)
    BY <1>1, <1>7, LoopFacts
  <2>. QED  BY <2>1, Zenon DEF Fetched
<1>9. LoopOK(receiver[r])'
  <2>1. \A i \in 1 .. receiver[r].ack : i \in DOMAIN tags
    BY LoopFacts DEF LoopOK, Loops
  <2>2. LoopOK(receiver[r]) /\ receiver[r] \in Loops
    BY LoopFacts
  <2>3. \A i, j \in DOMAIN Append(tags, m) : Append(tags, m)[i] = Append(tags, m)[j] => i = j
    BY <1>4, <1>8, <2>2 DEF LoopOK
  <2>4. consumed' = consumed
    BY <1>2, ConsumedFacts
  <2>5. \A i \in 1 .. receiver[r].ack : Append(tags, m)[i] = tags[i]
    BY <1>4, <2>1
  <2>6. receiver[r].yielded <= Len(Append(tags, m))
    BY <1>4, <2>2 DEF LoopOK, Loops
  <2>7. /\ receiver[r].pc = "handling" => receiver[r].mode = "stream"
        /\ receiver[r].yielded = (IF receiver[r].pc = "handling" THEN receiver[r].ack + 1 ELSE receiver[r].ack)
        /\ \A i \in 1 .. receiver[r].ack :
             tags[i] \in (IF receiver[r].mode = "stream" THEN consumed ELSE receiver[r].list)
        /\ \A n \in receiver[r].list :
             receiver[r].mode = "list" /\ \E i \in 1 .. receiver[r].ack : tags[i] = n
    BY <1>2, <2>2 DEF LoopOK
  <2>8. \A i \in 1 .. receiver[r].ack :
          Append(tags, m)[i] \in (IF receiver[r].mode = "stream" THEN consumed ELSE receiver[r].list)
    BY <2>5, <2>7
  <2>9. \A n \in receiver[r].list :
          receiver[r].mode = "list" /\ \E i \in 1 .. receiver[r].ack : Append(tags, m)[i] = n
    BY <2>5, <2>7
  <2>. HIDE DEF tags
  <2>10. /\ receiver'[r].pc \notin {"idle", "returned"}
         /\ receiver'[r].tags = Append(tags, m)
    BY <1>2, <1>5
  <2>11. /\ receiver'[r].pc = receiver[r].pc /\ receiver'[r].mode = receiver[r].mode
         /\ receiver'[r].list = receiver[r].list /\ receiver'[r].ack = receiver[r].ack
         /\ receiver'[r].yielded = receiver[r].yielded
    BY <1>5
  <2>. QED  BY <2>3, <2>4, <2>6, <2>7, <2>8, <2>9, <2>10, <2>11 DEF LoopOK
<1>10. Paid(r)
  <2>. SUFFICES ASSUME NEW n \in Messages
                PROVE  times[n] + (IF MayHandle(receiver'[r], n) THEN 1 ELSE 0)
                                + (IF n \in ready' THEN 1 ELSE 0) + troubles
                         <= times[n] + (IF MayHandle(receiver[r], n) THEN 1 ELSE 0)
                                     + (IF n \in ready THEN 1 ELSE 0) + troubles
    BY <1>2 DEF Paid
  <2>. DEFINE mayNow == MayHandle(receiver[r], n)
              mayThen == MayHandle(receiver'[r], n)
  <2>1. mayThen => mayNow \/ n = m
    BY <1>4, <1>5 DEF MayHandle
  <2>2. times[n] \in Nat /\ troubles \in Nat
    BY LoopFacts
  <2>. HIDE DEF mayNow, mayThen
  <2>3. /\ n = m => n \in ready /\ n \notin ready'
        /\ n # m => (n \in ready' => n \in ready)
    BY <1>1, <1>2
  <2>. QED  BY <2>1, <2>2, <2>3 DEF mayNow, mayThen
<1>. QED  BY <1>1, <1>2, <1>3, <1>5, <1>7, <1>9, <1>10, LoopFacts, ConsumedFacts, QueueStepLemma

LEMMA NextDeliveryStep ==
  ASSUME ReceiverInv, NEW r \in Receivers, NextDelivery(r)  PROVE ReceiverInv'
<1> DEFINE own == receiver[r]
           next == own.yielded + 1
           ends == next > Len(own.tags) \/ own.tags[next] \in Empty
<1>1. /\ own.pc = "receiving" /\ UNCHANGED <<ready, times, forfeited, troubles>>
      /\ receiver'[r] = IF ends THEN [own EXCEPT !.pc = "acking"] ELSE Yielded(own, next)
      /\ receiver' = [receiver EXCEPT ![r] = receiver'[r]]
  BY DEF NextDelivery, ReceiverInv, ReceiverTypeOK
<1>2. /\ own \in Loops /\ LoopOK(own) /\ own.yielded \in Nat /\ own.ack = own.yielded
      /\ consumed' = consumed
  BY <1>1, LoopFacts, ConsumedFacts DEF LoopOK, Loops
<1>3. /\ receiver'[r] \in Loops /\ receiver'[r].tags = own.tags /\ own.list \subseteq receiver'[r].list
      /\ receiver'[r].connected = own.connected /\ LoopOK(receiver[r])'
      /\ \A m \in Messages : MayHandle(receiver'[r], m) => MayHandle(own, m)
  <2>1. CASE ends
    <3>1. receiver'[r] = [own EXCEPT !.pc = "acking"]
      BY <1>1, <2>1
    <3>2. /\ receiver'[r] \in Loops /\ receiver'[r].tags = own.tags /\ receiver'[r].list = own.list
          /\ receiver'[r].mode = own.mode /\ receiver'[r].ack = own.ack
          /\ receiver'[r].yielded = own.yielded /\ receiver'[r].pc = "acking"
          /\ receiver'[r].connected = own.connected
      BY <1>2, <3>1 DEF Loops
    <3>3. /\ \A i, j \in DOMAIN own.tags : own.tags[i] = own.tags[j] => i = j
          /\ \A i \in 1 .. own.ack :
               own.tags[i] \in (IF own.mode = "stream" THEN consumed ELSE own.list)
          /\ \A m \in own.list : own.mode = "list" /\ \E i \in 1 .. own.ack : own.tags[i] = m
          /\ own.yielded <= Len(own.tags)
      BY <1>1, <1>2 DEF LoopOK
    <3>4. LoopOK(receiver[r])'
      <4>. HIDE DEF own, ends
      <4>. QED  BY <1>2, <3>2, <3>3 DEF LoopOK
    <3>. QED  BY <3>2, <3>4 DEF MayHandle
  <2>2. CASE ~ ends
    <3>1. next \in Nat /\ next <= Len(own.tags) /\ own.tags[next] \in Messages /\ next \in DOMAIN own.tags
      BY <1>2, <2>2, LoopFacts DEF Loops
    <3>2. CASE own.mode = "stream"
      <4>1. receiver'[r] = [own EXCEPT !.pc = "handling", !.yielded = next]
        BY <1>1, <2>2, <3>2 DEF Yielded
      <4>2. receiver'[r] \in Loops
        BY <1>2, <3>1, <4>1 DEF Loops
      <4>3. /\ receiver'[r].tags = own.tags /\ receiver'[r].list = own.list
            /\ receiver'[r].pc = "handling" /\ receiver'[r].mode = "stream"
            /\ receiver'[r].yielded = next /\ receiver'[r].ack = own.ack
            /\ receiver'[r].connected = own.connected
        BY <1>2, <3>2, <4>1 DEF Loops
      <4>4. LoopOK(receiver[r])'
        BY <1>1, <1>2, <3>1, <3>2, <4>3 DEF LoopOK
      <4>. QED  BY <4>2, <4>3, <4>4 DEF MayHandle
    <3>3. CASE own.mode = "list"
      <4>1. receiver'[r] = [own EXCEPT !.yielded = next, !.ack = next,
                                       !.list = own.list \cup {own.tags[next]}]
        BY <1>1, <2>2, <3>3 DEF Yielded
      <4>2. /\ receiver'[r] \in Loops /\ receiver'[r].tags = own.tags
            /\ receiver'[r].list = own.list \cup {own.tags[next]}
            /\ receiver'[r].ack = next /\ receiver'[r].yielded = next
            /\ receiver'[r].mode = "list" /\ receiver'[r].pc = "receiving"
            /\ receiver'[r].connected = own.connected
        <5>1. own.list \cup {own.tags[next]} \in SUBSET Messages
          BY <1>2, <3>1 DEF Loops
        <5>. QED  BY <1>1, <1>2, <3>1, <3>3, <4>1, <5>1 DEF Loops
      <4>3. \A i \in 1 .. next : own.tags[i] \in own.list \cup {own.tags[next]}
        <5>1. \A i \in 1 .. own.ack : own.tags[i] \in own.list
          BY <1>2, <3>3 DEF LoopOK
        <5>2. \A i \in 1 .. next : i \in 1 .. own.ack \/ i = next
          BY <1>2
        <5>. QED  BY <5>1, <5>2
      <4>4. ASSUME NEW m \in own.list \cup {own.tags[next]}
            PROVE  \E i \in 1 .. next : own.tags[i] = m
        <5>1. m \in own.list => \E i \in 1 .. own.ack : own.tags[i] = m
          BY <1>1, <1>2 DEF LoopOK
        <5>2. next \in 1 .. next /\ \A i \in 1 .. own.ack : i \in 1 .. next
          BY <1>2
        <5>. QED  BY <5>1, <5>2
      <4>5. LoopOK(receiver[r])'
        <5>1. \A i, j \in DOMAIN own.tags : own.tags[i] = own.tags[j] => i = j
          BY <1>2 DEF LoopOK
        <5>. QED  BY <3>1, <4>2, <4>3, <4>4, <5>1 DEF LoopOK
      <4>6. ASSUME NEW m \in Messages, MayHandle(receiver'[r], m)  PROVE MayHandle(own, m)
        <5>1. next > own.ack
          BY <1>2
        <5>2. CASE m = own.tags[next]
          BY <3>1, <5>1, <5>2 DEF MayHandle
        <5>3. CASE m \in own.list
          BY <5>3 DEF MayHandle
        <5>4. ASSUME NEW i \in DOMAIN own.tags, i > next, own.tags[i] = m  PROVE MayHandle(own, m)
          <6>1. i > own.ack
            BY <1>2, <5>4 DEF Loops
          <6>. QED  BY <5>4, <6>1 DEF MayHandle
        <5>. QED  BY <4>2, <4>6, <5>2, <5>3, <5>4 DEF MayHandle
      <4>. QED  BY <4>2, <4>5, <4>6
    <3>. QED  BY <1>2, <3>2, <3>3 DEF Loops
  <2>. QED  BY <2>1, <2>2
<1>4. Unacked(r)' = Unacked(r)
  BY <1>3 DEF Unacked, Fetched
<1>5. Paid(r)
  BY <1>1, <1>3, FreeStep
<1>. QED  BY <1>1, <1>2, <1>3, <1>4, <1>5, LoopFacts, QueueStepLemma

LEMMA HandleStep ==
  ASSUME ReceiverInv, NEW r \in Receivers, Handle(r)  PROVE ReceiverInv'
<1> DEFINE own == receiver[r]
           d == own.tags[own.yielded]
<1>1. /\ own.pc = "handling" /\ UNCHANGED <<ready, forfeited, troubles>>
      /\ times' = [times EXCEPT ![d] = @ + 1]
      /\ receiver'[r] = [own EXCEPT !.pc = "receiving", !.ack = own.yielded]
      /\ receiver' = [receiver EXCEPT ![r] = receiver'[r]]
  BY DEF Handle, Delivery, ReceiverInv, ReceiverTypeOK
<1>2. /\ own \in Loops /\ LoopOK(own) /\ own.mode = "stream" /\ own.yielded = own.ack + 1
      /\ own.yielded \in DOMAIN own.tags /\ d \in Messages /\ own.ack \in Nat
      /\ own.list = {}
  BY <1>1, LoopFacts DEF LoopOK, Loops
<1>3. /\ receiver'[r] \in Loops /\ receiver'[r].tags = own.tags /\ receiver'[r].list = own.list
      /\ receiver'[r].ack = own.yielded /\ receiver'[r].yielded = own.yielded
      /\ receiver'[r].mode = "stream" /\ receiver'[r].pc = "receiving"
      /\ receiver'[r].connected = own.connected
  BY <1>1, <1>2 DEF Loops
<1>4. consumed' = consumed \cup {d} /\ times' \in [Messages -> Nat]
  BY <1>1, <1>2, ConsumedFacts
<1>5. LoopOK(receiver[r])'
  <2>1. \A i \in 1 .. own.yielded : i \in 1 .. own.ack \/ i = own.yielded
    BY <1>2 DEF Loops
  <2>2. \A i \in 1 .. own.yielded : own.tags[i] \in consumed'
    BY <1>2, <1>4, <2>1 DEF LoopOK
  <2>3. \A i, j \in DOMAIN own.tags : own.tags[i] = own.tags[j] => i = j
    BY <1>2 DEF LoopOK
  <2>4. own.yielded <= Len(own.tags)
    BY <1>2 DEF LoopOK
  <2>. QED  BY <1>2, <1>3, <2>2, <2>3, <2>4 DEF LoopOK
<1>6. Unacked(r)' = Unacked(r)
  BY <1>3 DEF Unacked, Fetched
<1>7. Paid(r)
  <2>1. MayHandle(own, d)
    <3>1. own.yielded > own.ack
      BY <1>2
    <3>. QED  BY <1>2, <3>1 DEF MayHandle
  <2>2. ~ MayHandle(receiver'[r], d)
    <3>1. ASSUME NEW i \in DOMAIN own.tags, i > own.yielded, own.tags[i] = d  PROVE FALSE
      <4>1. i = own.yielded
        BY <1>2, <3>1 DEF LoopOK
      <4>. QED  BY <1>2, <3>1, <4>1
    <3>. QED  BY <1>2, <1>3, <3>1 DEF MayHandle
  <2>3. ASSUME NEW m \in Messages, MayHandle(receiver'[r], m)  PROVE MayHandle(own, m)
    <3>1. PICK i \in DOMAIN own.tags : i > own.yielded /\ own.tags[i] = m
      BY <1>2, <1>3, <2>3 DEF MayHandle
    <3>2. i > own.ack
      BY <1>2, <3>1 DEF Loops
    <3>. QED  BY <3>1, <3>2 DEF MayHandle
  <2>. HIDE DEF d
  <2>. QED  BY <1>1, <1>2, <2>1, <2>2, <2>3, DealtStep
<1>8. /\ ready' \cup Unacked(r)' \subseteq ready \cup Unacked(r) /\ ready' \cap Unacked(r)' = {}
      /\ ready' \subseteq Messages /\ consumed \subseteq consumed' /\ forfeited \subseteq forfeited'
      /\ ready \cup Unacked(r) \subseteq
           ready' \cup Unacked(r)' \cup consumed' \cup forfeited' \cup receiver'[r].list
      /\ receiver[r].list \subseteq
           ready' \cup Unacked(r)' \cup consumed' \cup forfeited' \cup receiver'[r].list
             \cup ListedBesides(r) \cup UNION {Unacked(o) : o \in Receivers \ {r}}
  BY <1>1, <1>3, <1>4, <1>6, LoopFacts
<1>. QED  BY <1>1, <1>3, <1>4, <1>5, <1>7, <1>8, LoopFacts, QueueStepLemma
-----------------------------------------------------------------------------
(* A closed channel has no tags; what receiveAll has collected is kept.    *)
LEMMA DisconnectedFacts ==
  ASSUME ReceiverInv, NEW r \in Receivers, receiver' = [receiver EXCEPT ![r] = Disconnected]
  PROVE  /\ receiver' = [receiver EXCEPT ![r] = receiver'[r]]
         /\ receiver'[r] \in Loops /\ receiver'[r].list = {} /\ receiver'[r].tags = <<>>
         /\ ~ receiver'[r].connected /\ receiver'[r].pc = "idle"
         /\ LoopOK(receiver[r])' /\ Unacked(r)' = {}
<1>1. receiver' = [receiver EXCEPT ![r] = receiver'[r]] /\ receiver'[r] = Disconnected
  BY DEF ReceiverInv, ReceiverTypeOK
<1>2. /\ Disconnected.list = {} /\ Disconnected.tags = <<>> /\ Disconnected.ack = 0
      /\ Disconnected.yielded = 0 /\ Disconnected.pc = "idle" /\ Disconnected \in Loops
      /\ ~ Disconnected.connected
  <2>1. <<>> \in Seq(Messages)
    OBVIOUS
  <2>. QED  BY <2>1 DEF Disconnected, Loops
<1>. QED  BY <1>1, <1>2 DEF LoopOK, Unacked

LEMMA ClosedFacts ==
  ASSUME ReceiverInv, NEW r \in Receivers, Closed(r)
  PROVE  /\ receiver' = [receiver EXCEPT ![r] = receiver'[r]]
         /\ receiver'[r] \in Loops /\ receiver'[r].list = receiver[r].list
         /\ receiver'[r].tags = <<>> /\ ~ receiver'[r].connected /\ receiver'[r].pc \in {"idle", "returned"}
         /\ LoopOK(receiver[r])' /\ Unacked(r)' = {}
         /\ \A m \in Messages : MayHandle(receiver'[r], m) <=> m \in receiver[r].list
<1>1. /\ receiver' = [receiver EXCEPT ![r] = receiver'[r]]
      /\ receiver'[r] \in Loops /\ receiver'[r].list = receiver[r].list
      /\ receiver'[r].tags = <<>> /\ ~ receiver'[r].connected /\ receiver'[r].pc \in {"idle", "returned"}
      /\ LoopOK(receiver[r])' /\ Unacked(r)' = {}
  <2>1. CASE receiver[r].list = {}
    BY <2>1, DisconnectedFacts DEF Closed
  <2>2. CASE receiver[r].list # {}
    <3>1. receiver' = [receiver EXCEPT ![r] =
            [Disconnected EXCEPT !.pc = "returned", !.list = receiver[r].list]]
      BY <2>2 DEF Closed
    <3>2. /\ receiver' = [receiver EXCEPT ![r] = receiver'[r]]
          /\ receiver'[r] = [Disconnected EXCEPT !.pc = "returned", !.list = receiver[r].list]
      BY <3>1 DEF ReceiverInv, ReceiverTypeOK
    <3>3. receiver[r].list \in SUBSET Messages /\ <<>> \in Seq(Messages)
      BY LoopFacts DEF Loops
    <3>4. /\ receiver'[r] \in Loops /\ receiver'[r].list = receiver[r].list
          /\ receiver'[r].tags = <<>> /\ receiver'[r].ack = 0 /\ receiver'[r].yielded = 0
          /\ receiver'[r].pc = "returned" /\ ~ receiver'[r].connected
      <4>1. receiver'[r] = [pc |-> "returned", mode |-> "stream", connected |-> FALSE, tags |-> <<>>,
                            yielded |-> 0, ack |-> 0, list |-> receiver[r].list]
        BY <3>2 DEF Disconnected
      <4>. QED  BY <3>3, <4>1 DEF Loops
    <3>. QED  BY <3>2, <3>4 DEF LoopOK, Unacked
  <2>. QED  BY <2>1, <2>2
<1>. QED  BY <1>1 DEF MayHandle

LEMMA HandleListedStep ==
  ASSUME ReceiverInv, NEW r \in Receivers, HandleListed(r)  PROVE ReceiverInv'
<1> DEFINE own == receiver[r]
<1>1. PICK m \in own.list :
        /\ times' = [times EXCEPT ![m] = @ + 1]
        /\ receiver' = [receiver EXCEPT ![r] =
             IF own.list \ {m} = {} THEN Disconnected ELSE [own EXCEPT !.list = own.list \ {m}]]
  BY DEF HandleListed
<1>2. own.pc = "returned" /\ UNCHANGED <<ready, forfeited, troubles>>
  BY DEF HandleListed
<1>3. /\ own \in Loops /\ own.tags = <<>> /\ own.list \subseteq Messages
      /\ own.ack = 0 /\ own.yielded = 0 /\ ~ own.connected
  BY <1>2, LoopFacts DEF LoopOK, Loops
<1>4. /\ receiver' = [receiver EXCEPT ![r] = receiver'[r]] /\ receiver'[r] \in Loops
      /\ receiver'[r].list = own.list \ {m} /\ LoopOK(receiver[r])' /\ Unacked(r)' = {}
      /\ receiver'[r].tags = <<>>
  <2>1. CASE own.list \ {m} = {}
    BY <1>1, <2>1, DisconnectedFacts
  <2>2. CASE own.list \ {m} # {}
    <3>1. /\ receiver'[r] = [own EXCEPT !.list = own.list \ {m}]
          /\ receiver' = [receiver EXCEPT ![r] = receiver'[r]]
      BY <1>1, <2>2 DEF ReceiverInv, ReceiverTypeOK
    <3>2. /\ receiver'[r] \in Loops /\ receiver'[r].list = own.list \ {m} /\ receiver'[r].tags = <<>>
          /\ receiver'[r].ack = 0 /\ receiver'[r].yielded = 0 /\ receiver'[r].pc = "returned"
          /\ ~ receiver'[r].connected
      BY <1>2, <1>3, <3>1 DEF Loops
    <3>. QED  BY <3>1, <3>2 DEF LoopOK, Unacked
  <2>. QED  BY <2>1, <2>2
<1>5. Unacked(r) = {}
  BY <1>3 DEF Unacked
<1>6. consumed' = consumed \cup {m} /\ times' \in [Messages -> Nat]
  BY <1>1, <1>3, ConsumedFacts
<1>7. Paid(r)
  <2>1. /\ m \in Messages /\ MayHandle(own, m) /\ ~ MayHandle(receiver'[r], m)
        /\ \A n \in Messages : MayHandle(receiver'[r], n) => MayHandle(own, n)
    BY <1>1, <1>3, <1>4 DEF MayHandle
  <2>. QED  BY <1>1, <1>2, <2>1, DealtStep
<1>. QED  BY <1>1, <1>2, <1>4, <1>5, <1>6, <1>7, LoopFacts, QueueStepLemma

(* The channel closes and all of its messages go back, for a trouble.      *)
LEMMA AbandonStep ==
  ASSUME ReceiverInv, NEW r \in Receivers, Abandon(r)  PROVE ReceiverInv'
<1>1. /\ receiver' = [receiver EXCEPT ![r] = receiver'[r]] /\ receiver'[r] \in Loops
      /\ receiver'[r].list = receiver[r].list /\ LoopOK(receiver[r])' /\ Unacked(r)' = {}
      /\ \A m \in Messages : MayHandle(receiver'[r], m) => MayHandle(receiver[r], m)
  BY ClosedFacts DEF Abandon, MayHandle
<1>2. ready' = ready \cup Unacked(r) /\ UNCHANGED <<times, forfeited>> /\ troubles' = troubles + 1
  BY DEF Abandon, Trouble
<1>3. Paid(r)
  BY <1>1, <1>2, TroubleStep
<1>. QED  BY <1>1, <1>2, <1>3, LoopFacts, ConsumedFacts, QueueStepLemma

LEMMA NoticeStep ==
  ASSUME ReceiverInv, NEW r \in Receivers, Notice(r)  PROVE ReceiverInv'
<1>1. /\ receiver' = [receiver EXCEPT ![r] = receiver'[r]] /\ receiver'[r] \in Loops
      /\ receiver'[r].list = receiver[r].list /\ LoopOK(receiver[r])' /\ Unacked(r)' = {}
      /\ \A m \in Messages : MayHandle(receiver'[r], m) => MayHandle(receiver[r], m)
  BY ClosedFacts DEF Notice, MayHandle
<1>2. Unacked(r) = {} /\ UNCHANGED <<ready, times, forfeited, troubles>>
  BY DEF Notice, Unacked
<1>3. Paid(r)
  BY <1>1, <1>2, FreeStep
<1>. QED  BY <1>1, <1>2, <1>3, LoopFacts, ConsumedFacts, QueueStepLemma

(* The client keeps what it has fetched, and the queue has it again.       *)
LEMMA DisconnectStep ==
  ASSUME ReceiverInv, NEW r \in Receivers, Disconnect(r)  PROVE ReceiverInv'
<1> DEFINE own == receiver[r]
<1>1. /\ receiver'[r] = [own EXCEPT !.connected = FALSE] /\ own.connected
      /\ receiver' = [receiver EXCEPT ![r] = receiver'[r]]
      /\ ready' = ready \cup Unacked(r) /\ UNCHANGED <<times, forfeited>> /\ troubles' = troubles + 1
  BY DEF Disconnect, Trouble, ReceiverInv, ReceiverTypeOK
<1>2. own \in Loops /\ LoopOK(own) /\ consumed' = consumed
  BY <1>1, LoopFacts, ConsumedFacts
<1>3. /\ receiver'[r] \in Loops /\ receiver'[r].tags = own.tags /\ receiver'[r].list = own.list
      /\ receiver'[r].ack = own.ack /\ receiver'[r].yielded = own.yielded
      /\ receiver'[r].mode = own.mode /\ receiver'[r].pc = own.pc
      /\ ~ receiver'[r].connected
  BY <1>1, <1>2 DEF Loops
<1>4. LoopOK(receiver[r])'
  BY <1>2, <1>3 DEF LoopOK
<1>5. Unacked(r)' = {}
  BY <1>3 DEF Unacked
<1>6. Paid(r)
  BY <1>1, <1>3, TroubleStep DEF MayHandle
<1>7. /\ ready' \cup Unacked(r)' \subseteq ready \cup Unacked(r) /\ ready' \cap Unacked(r)' = {}
      /\ ready' \subseteq Messages /\ consumed \subseteq consumed' /\ forfeited \subseteq forfeited'
      /\ ready \cup Unacked(r) \subseteq
           ready' \cup Unacked(r)' \cup consumed' \cup forfeited' \cup receiver'[r].list
      /\ receiver[r].list \subseteq
           ready' \cup Unacked(r)' \cup consumed' \cup forfeited' \cup receiver'[r].list
             \cup ListedBesides(r) \cup UNION {Unacked(o) : o \in Receivers \ {r}}
  BY <1>1, <1>2, <1>3, <1>5, LoopFacts
<1>8. times' \in [Messages -> Nat] /\ troubles' \in Nat
  BY <1>1, LoopFacts
<1>. HIDE DEF own
<1>. QED  BY <1>1, <1>3, <1>4, <1>6, <1>7, <1>8, QueueStepLemma

LEMMA AcknowledgedFacts ==
  ASSUME ReceiverInv, NEW r \in Receivers
  PROVE  Acknowledged(r) \subseteq consumed \cup receiver[r].list
<1>1. \A i \in 1 .. receiver[r].ack : receiver[r].tags[i] \in consumed \cup receiver[r].list
  BY LoopFacts DEF LoopOK
<1>. QED  BY <1>1, Zenon DEF Acknowledged

LEMMA AcknowledgeStep ==
  ASSUME ReceiverInv, NEW r \in Receivers, Acknowledge(r)  PROVE ReceiverInv'
<1> DEFINE own == receiver[r]
<1>1. /\ own.pc = "acking" /\ own.connected /\ Closed(r)
      /\ ready' = ready \cup (Unacked(r) \ Acknowledged(r))
      /\ UNCHANGED <<times, forfeited, troubles>>
  BY DEF Acknowledge
<1>2. /\ receiver' = [receiver EXCEPT ![r] = receiver'[r]] /\ receiver'[r] \in Loops
      /\ receiver'[r].list = own.list /\ LoopOK(receiver[r])' /\ Unacked(r)' = {}
      /\ \A m \in Messages : MayHandle(receiver'[r], m) <=> m \in own.list
  BY <1>1, ClosedFacts
<1>3. own \in Loops /\ LoopOK(own) /\ Unacked(r) = Fetched(r)
  BY <1>1, LoopFacts DEF Unacked
<1>4. ASSUME NEW m \in Unacked(r), m \notin Acknowledged(r)
      PROVE  MayHandle(own, m) /\ m \notin own.list
  <2>1. PICK i \in DOMAIN own.tags : own.tags[i] = m
    BY <1>3, <1>4 DEF Fetched
  <2>2. ~ (i \in 1 .. own.ack)
    BY <1>4, <2>1 DEF Acknowledged
  <2>3. i \in Nat /\ i > 0 /\ own.ack \in Nat
    BY <1>3, <2>1 DEF Loops
  <2>4. i > own.ack
    BY <2>2, <2>3
  <2>5. m \notin own.list
    <3>1. \A n \in own.list : \E j \in 1 .. own.ack : own.tags[j] = n
      BY <1>1, <1>3 DEF LoopOK
    <3>. QED  BY <1>4, <3>1 DEF Acknowledged
  <2>. QED  BY <2>1, <2>4, <2>5 DEF MayHandle
<1>5. Paid(r)
  <2>1. \A m \in Messages : MayHandle(receiver'[r], m) => MayHandle(own, m)
    BY <1>2 DEF MayHandle
  <2>2. ASSUME NEW m \in Messages, m \in ready'
        PROVE  m \in ready \/ (MayHandle(own, m) /\ ~ MayHandle(receiver'[r], m))
    BY <1>1, <1>2, <1>4, <2>2
  <2>. QED  BY <1>1, <2>1, <2>2, FreeStep
<1>. QED  BY <1>1, <1>2, <1>5, AcknowledgedFacts, LoopFacts, ConsumedFacts, QueueStepLemma

LEMMA CrashStep ==
  ASSUME ReceiverInv, NEW r \in Receivers, Crash(r)  PROVE ReceiverInv'
<1>1. /\ ready' = ready \cup Unacked(r) /\ UNCHANGED times /\ troubles' = troubles + 1
      /\ receiver' = [receiver EXCEPT ![r] = Disconnected]
      /\ forfeited' = forfeited \cup (receiver[r].list \ (Pending \cup consumed \cup ListedBesides(r)))
  BY DEF Crash, Trouble
<1>2. /\ receiver' = [receiver EXCEPT ![r] = receiver'[r]] /\ receiver'[r] \in Loops
      /\ receiver'[r].list = {} /\ LoopOK(receiver[r])' /\ Unacked(r)' = {}
      /\ receiver'[r].tags = <<>>
  BY <1>1, DisconnectedFacts
<1>3. consumed' = consumed
  BY <1>1, ConsumedFacts
<1>4. Pending = ready' \cup UNION {Unacked(o) : o \in Receivers \ {r}}
  BY <1>1 DEF Pending
<1>5. Paid(r)
  BY <1>1, <1>2, TroubleStep DEF MayHandle
<1>6. /\ ready' \cup Unacked(r)' \subseteq ready \cup Unacked(r) /\ ready' \cap Unacked(r)' = {}
      /\ ready' \subseteq Messages /\ consumed \subseteq consumed' /\ forfeited \subseteq forfeited'
      /\ ready \cup Unacked(r) \subseteq
           ready' \cup Unacked(r)' \cup consumed' \cup forfeited' \cup receiver'[r].list
      /\ receiver[r].list \subseteq
           ready' \cup Unacked(r)' \cup consumed' \cup forfeited' \cup receiver'[r].list
             \cup ListedBesides(r) \cup UNION {Unacked(o) : o \in Receivers \ {r}}
  BY <1>1, <1>2, <1>3, <1>4, LoopFacts
<1>7. times' \in [Messages -> Nat] /\ troubles' \in Nat
  BY <1>1, LoopFacts
<1>. QED  BY <1>2, <1>5, <1>6, <1>7, QueueStepLemma
-----------------------------------------------------------------------------
(* ReceiverInv is inductive, so it holds in every state.                   *)
THEOREM ReceiverInvariance == ReceiverSpec => []ReceiverInv
<1>1. ReceiverInv /\ [ReceiverNext]_receiverVars => ReceiverInv'
  <2>. SUFFICES ASSUME ReceiverInv, [ReceiverNext]_receiverVars  PROVE ReceiverInv'
    OBVIOUS
  <2>1. ASSUME NEW r \in Receivers, ReceiverStep(r)  PROVE ReceiverInv'
    BY <2>1, OpenStep, NextDeliveryStep, HandleStep, HandleListedStep, AcknowledgeStep, NoticeStep
       DEF ReceiverStep
  <2>2. ASSUME NEW r \in Receivers, Deliver(r) \/ Abandon(r) \/ Disconnect(r) \/ Crash(r)
        PROVE  ReceiverInv'
    BY <2>2, DeliverStep, AbandonStep, DisconnectStep, CrashStep
  <2>3. CASE UNCHANGED receiverVars
    <3>1. UNCHANGED <<ready, receiver, times, forfeited, troubles>>
      BY <2>3 DEF receiverVars
    <3>2. consumed' = consumed /\ \A r \in Receivers : Unacked(r)' = Unacked(r)
      BY <3>1, ConsumedFacts DEF Unacked, Fetched
    <3>3. ReceiverTypeOK' /\ \A r \in Receivers : LoopOK(receiver[r])'
      BY <3>1, <3>2 DEF ReceiverInv, ReceiverTypeOK, LoopOK
    <3>4. Pending' = Pending
      BY <3>1 DEF Pending, Unacked, Fetched
    <3>5. GoneIsHandled' /\ ChannelsOK'
      BY <3>1, <3>2, <3>4 DEF ReceiverInv, GoneIsHandled, ChannelsOK
    <3>6. Counted'
      BY <3>1 DEF ReceiverInv, Counted, Holders, MayHandle
    <3>. QED  BY <3>3, <3>5, <3>6 DEF ReceiverInv
  <2>. QED  BY <2>1, <2>2, <2>3 DEF ReceiverNext
<1>. QED  BY ReceiverInitInv, <1>1, PTL DEF ReceiverSpec

(* No message leaves the queue before a caller has dealt with it, has it   *)
(* in its list, or was killed with it; and, however often two receivers    *)
(* get the same one, callers deal with a message again at most once for    *)
(* every lost connection, abandoned loop or killed process.                *)
THEOREM GoneIsHandledTheorem == ReceiverSpec => []GoneIsHandled
<1>1. ReceiverInv => GoneIsHandled
  BY DEF ReceiverInv
<1>. QED  BY <1>1, ReceiverInvariance, PTL

(* What is with a caller, and what the other receivers have.               *)
WithCallers == UNION {WithCaller(r) : r \in Receivers}
OtherChannels(r) == UNION {Unacked(o) : o \in Receivers \ {r}}
OtherCallers(r) == UNION {WithCaller(o) : o \in Receivers \ {r}}

(* A step of one receiver leaves the share of the others alone.            *)
LEMMA ShareFacts ==
  ASSUME ReceiverInv, NEW r \in Receivers, receiver' = [receiver EXCEPT ![r] = receiver'[r]]
  PROVE  /\ Pending = ready \cup Unacked(r) \cup OtherChannels(r)
         /\ Pending' = ready' \cup Unacked(r)' \cup OtherChannels(r)
         /\ WithCallers = WithCaller(r) \cup OtherCallers(r)
         /\ WithCallers' = WithCaller(r)' \cup OtherCallers(r)
<1>1. \A o \in Receivers \ {r} : receiver'[o] = receiver[o]
  BY DEF ReceiverInv, ReceiverTypeOK
<1>2. \A o \in Receivers \ {r} : Unacked(o)' = Unacked(o) /\ WithCaller(o)' = WithCaller(o)
  BY <1>1 DEF Unacked, Fetched, WithCaller, Delivery
<1>3. Pending = ready \cup Unacked(r) \cup OtherChannels(r)
  BY DEF Pending, OtherChannels
<1>4. Pending' = ready' \cup Unacked(r)' \cup OtherChannels(r)
  BY <1>2 DEF Pending, OtherChannels
<1>5. WithCallers = WithCaller(r) \cup OtherCallers(r)
  BY DEF WithCallers, OtherCallers
<1>6. WithCallers' = WithCaller(r)' \cup OtherCallers(r)
  BY <1>2 DEF WithCallers, OtherCallers
<1>. QED  BY <1>3, <1>4, <1>5, <1>6

(* What a caller has been handed was fetched for it; a connection that is  *)
(* lost leaves it all that was fetched.                                    *)
LEMMA CallerFacts ==
  ASSUME ReceiverInv, NEW r \in Receivers
  PROVE  /\ receiver[r].connected /\ receiver[r].pc # "handling" => WithCaller(r) = receiver[r].list
         /\ receiver[r].connected => WithCaller(r) \subseteq receiver[r].list \cup Unacked(r)
         /\ ~ receiver[r].connected => WithCaller(r) = receiver[r].list \cup Fetched(r)
         /\ receiver[r].tags = <<>> => Fetched(r) = {}
         /\ receiver[r].list \subseteq WithCaller(r)
         /\ receiver[r].pc = "handling" =>
              /\ Delivery(r) \in WithCaller(r) /\ Delivery(r) \in Fetched(r)
              /\ receiver[r].yielded \in DOMAIN receiver[r].tags
<1>1. ASSUME receiver[r].pc = "handling"
      PROVE  receiver[r].yielded \in DOMAIN receiver[r].tags /\ Delivery(r) \in Fetched(r)
  <2>1. receiver[r].yielded \in DOMAIN receiver[r].tags
    BY <1>1, LoopFacts DEF LoopOK, Loops
  <2>. QED  BY <2>1, Zenon DEF Fetched, Delivery
<1>2. receiver[r].connected => Unacked(r) = Fetched(r)
  BY DEF Unacked
<1>3. receiver[r].tags = <<>> => Fetched(r) = {}
  BY DEF Fetched
<1>. QED  BY <1>1, <1>2, <1>3 DEF WithCaller

(* The steps that give a caller something, or take it back.                *)
LEMMA OpenKeeps ==
  ASSUME ReceiverInv, NEW r \in Receivers, OpenChannel(r)
  PROVE  UNCHANGED <<Pending, WithCallers, consumed, forfeited>>
<1>1. PICK mode \in {"stream", "list"} :
        receiver' = [receiver EXCEPT ![r].pc = "receiving", ![r].mode = mode, ![r].connected = TRUE]
  BY DEF OpenChannel
<1>2. receiver[r].pc = "idle" /\ UNCHANGED <<ready, consumed, forfeited>>
  BY ConsumedFacts DEF OpenChannel
<1>3. /\ receiver'[r] = [receiver[r] EXCEPT !.pc = "receiving", !.mode = mode, !.connected = TRUE]
      /\ receiver' = [receiver EXCEPT ![r] = receiver'[r]]
  BY <1>1 DEF ReceiverInv, ReceiverTypeOK
<1>4. /\ receiver'[r].tags = receiver[r].tags /\ receiver'[r].list = receiver[r].list
      /\ receiver'[r].pc = "receiving" /\ receiver'[r].connected
  BY <1>3, LoopFacts DEF Loops
<1>5. receiver[r].tags = <<>> /\ ~ receiver[r].connected
  BY <1>2, LoopFacts DEF LoopOK
<1>6. Fetched(r) = {} /\ Fetched(r)' = {}
  BY <1>4, <1>5 DEF Fetched
<1>7. Unacked(r)' = Unacked(r) /\ WithCaller(r)' = WithCaller(r)
  BY <1>2, <1>4, <1>5, <1>6 DEF Unacked, WithCaller
<1>. QED  BY <1>2, <1>3, <1>7, ShareFacts

LEMMA DeliverKeeps ==
  ASSUME ReceiverInv, NEW r \in Receivers, Deliver(r)
  PROVE  UNCHANGED <<Pending, WithCallers, consumed, forfeited>>
<1> DEFINE m == Min(ready)
           tags == receiver[r].tags
<1>1. m \in ready /\ m \in Messages
  BY LeastFacts, ReceiverAssumption DEF ReceiverInv, ReceiverTypeOK, Deliver
<1>2. ready' = ready \ {m} /\ receiver[r].connected /\ UNCHANGED <<consumed, forfeited>>
  BY ConsumedFacts DEF Deliver
<1> HIDE DEF m
<1>3. /\ receiver'[r] = [receiver[r] EXCEPT !.tags = Append(tags, m)]
      /\ receiver' = [receiver EXCEPT ![r] = receiver'[r]]
  BY DEF Deliver, ReceiverInv, ReceiverTypeOK, m
<1>4. /\ \A i \in DOMAIN tags : i \in DOMAIN Append(tags, m) /\ Append(tags, m)[i] = tags[i]
      /\ \A i \in DOMAIN Append(tags, m) : i \in DOMAIN tags \/ Append(tags, m)[i] = m
      /\ Len(tags) + 1 \in DOMAIN Append(tags, m) /\ Append(tags, m)[Len(tags) + 1] = m
  BY <1>1, LoopFacts
<1>5. /\ receiver'[r].pc = receiver[r].pc /\ receiver'[r].list = receiver[r].list
      /\ receiver'[r].yielded = receiver[r].yielded /\ receiver'[r].tags = Append(tags, m)
      /\ receiver'[r].connected
  BY <1>2, <1>3, LoopFacts DEF Loops
<1>6. Fetched(r)' = Fetched(r) \cup {m}
  <2>1. Fetched(r) = {tags[i] : i \in DOMAIN tags}
    BY DEF Fetched
  <2>2. Fetched(r)' = {Append(tags, m)[i] : i \in DOMAIN Append(tags, m)}
    BY <1>5 DEF Fetched
  <2>3. \A i \in DOMAIN tags : tags[i] \in Fetched(r)'
    BY <1>4, <2>2, Zenon
  <2>4. m \in Fetched(r)'
    BY <1>4, <2>2, Zenon
  <2>5. \A i \in DOMAIN Append(tags, m) : Append(tags, m)[i] \in Fetched(r) \cup {m}
    BY <1>4, <2>1, Zenon
  <2>. QED  BY <2>1, <2>2, <2>3, <2>4, <2>5, Zenon
<1>7. Unacked(r)' = Unacked(r) \cup {m}
  BY <1>2, <1>5, <1>6 DEF Unacked
<1>8. WithCaller(r)' = WithCaller(r)
  <2>1. receiver[r].pc = "handling" => Append(tags, m)[receiver[r].yielded] = tags[receiver[r].yielded]
    BY <1>4, CallerFacts
  <2>. QED  BY <1>2, <1>5, <2>1 DEF WithCaller, Delivery
<1>9. /\ Pending = ready \cup Unacked(r) \cup OtherChannels(r)
      /\ Pending' = ready' \cup Unacked(r)' \cup OtherChannels(r)
      /\ WithCallers = WithCaller(r) \cup OtherCallers(r)
      /\ WithCallers' = WithCaller(r)' \cup OtherCallers(r)
  BY <1>3, ShareFacts
<1>10. Pending' = Pending
  BY <1>1, <1>2, <1>7, <1>9
<1>. QED  BY <1>2, <1>8, <1>9, <1>10

LEMMA NextDeliveryKeeps ==
  ASSUME ReceiverInv, NEW r \in Receivers, NextDelivery(r)
  PROVE  MessageContract!Fetch
<1> DEFINE own == receiver[r]
           next == own.yielded + 1
           ends == next > Len(own.tags) \/ own.tags[next] \in Empty
           fetched == IF own.connected THEN {} ELSE Fetched(r)
<1>1. /\ own.pc = "receiving" /\ UNCHANGED <<ready, consumed, forfeited>>
      /\ receiver'[r] = IF ends THEN [own EXCEPT !.pc = "acking"] ELSE Yielded(own, next)
      /\ receiver' = [receiver EXCEPT ![r] = receiver'[r]]
  BY ConsumedFacts DEF NextDelivery, ReceiverInv, ReceiverTypeOK
<1>2. own \in Loops /\ own.yielded \in Nat /\ WithCaller(r) = own.list \cup fetched
  BY <1>1, LoopFacts DEF Loops, WithCaller
<1>3. /\ receiver'[r].tags = own.tags /\ receiver'[r].connected = own.connected
      /\ \/ receiver'[r].list = own.list /\ receiver'[r].pc # "handling"
         \/ /\ ~ ends /\ receiver'[r].list = own.list
            /\ receiver'[r].pc = "handling" /\ receiver'[r].yielded = next
         \/ /\ ~ ends /\ receiver'[r].pc # "handling"
            /\ receiver'[r].list = own.list \cup {own.tags[next]}
  <2>1. CASE ends
    <3>1. receiver'[r] = [own EXCEPT !.pc = "acking"]
      BY <1>1, <2>1
    <3>2. /\ receiver'[r].tags = own.tags /\ receiver'[r].list = own.list /\ receiver'[r].pc = "acking"
          /\ receiver'[r].connected = own.connected
      BY <1>2, <3>1 DEF Loops
    <3>. QED  BY <3>2
  <2>2. CASE ~ ends
    <3>1. CASE own.mode = "stream"
      <4>1. receiver'[r] = [own EXCEPT !.pc = "handling", !.yielded = next]
        BY <1>1, <2>2, <3>1 DEF Yielded
      <4>2. /\ receiver'[r].tags = own.tags /\ receiver'[r].list = own.list
            /\ receiver'[r].pc = "handling" /\ receiver'[r].yielded = next
            /\ receiver'[r].connected = own.connected
        BY <1>2, <4>1 DEF Loops
      <4>. QED  BY <2>2, <4>2
    <3>2. CASE own.mode = "list"
      <4>1. receiver'[r] = [own EXCEPT !.yielded = next, !.ack = next,
                                       !.list = own.list \cup {own.tags[next]}]
        BY <1>1, <2>2, <3>2 DEF Yielded
      <4>2. /\ receiver'[r].tags = own.tags /\ receiver'[r].pc = "receiving"
            /\ receiver'[r].list = own.list \cup {own.tags[next]}
            /\ receiver'[r].connected = own.connected
        BY <1>1, <1>2, <4>1 DEF Loops
      <4>. QED  BY <2>2, <4>2
    <3>. QED  BY <1>2, <3>1, <3>2 DEF Loops
  <2>. QED  BY <2>1, <2>2
<1>4. Unacked(r)' = Unacked(r) /\ fetched' = fetched
  BY <1>3 DEF Unacked, Fetched
<1>5. WithCaller(r)' = own.list \cup fetched
        \/ (WithCaller(r)' = own.list \cup {own.tags[next]} \cup fetched /\ ~ ends)
  <2>. DEFINE d == own.tags[next]
  <2>1. receiver'[r].pc # "handling" => WithCaller(r)' = receiver'[r].list \cup fetched
    BY <1>4 DEF WithCaller
  <2>2. receiver'[r].pc = "handling" /\ receiver'[r].yielded = next
          => WithCaller(r)' = receiver'[r].list \cup {d} \cup fetched
    BY <1>3, <1>4 DEF WithCaller, Delivery
  <2>. HIDE DEF d, fetched, next, ends
  <2>. QED  BY <1>3, <2>1, <2>2 DEF d
<1>6. ~ ends => own.tags[next] \in Fetched(r)
  <2>1. ~ ends => next \in DOMAIN own.tags
    BY <1>2 DEF Loops
  <2>. QED  BY <2>1, Zenon DEF Fetched
<1>7. ~ ends => own.tags[next] \in Unacked(r) \cup fetched
  BY <1>6 DEF Unacked
<1>8. /\ Pending = ready \cup Unacked(r) \cup OtherChannels(r)
      /\ Pending' = ready' \cup Unacked(r)' \cup OtherChannels(r)
      /\ WithCallers = WithCaller(r) \cup OtherCallers(r)
      /\ WithCallers' = WithCaller(r)' \cup OtherCallers(r)
  BY <1>1, ShareFacts
<1>9. /\ WithCallers \subseteq WithCallers' /\ WithCallers' \ WithCallers \subseteq Pending
      /\ UNCHANGED <<Pending, consumed, forfeited>>
  <2>. HIDE DEF fetched, next, ends, own
  <2>. QED  BY <1>1, <1>2, <1>4, <1>5, <1>7, <1>8
<1>. QED  BY <1>9 DEF MessageContract!Fetch, WithCallers

LEMMA DisconnectKeeps ==
  ASSUME ReceiverInv, NEW r \in Receivers, Disconnect(r)
  PROVE  MessageContract!Fetch
<1> DEFINE own == receiver[r]
<1>1. /\ receiver'[r] = [own EXCEPT !.connected = FALSE] /\ own.connected
      /\ receiver' = [receiver EXCEPT ![r] = receiver'[r]]
      /\ ready' = ready \cup Unacked(r) /\ UNCHANGED <<consumed, forfeited>>
  BY ConsumedFacts DEF Disconnect, ReceiverInv, ReceiverTypeOK
<1>2. /\ receiver'[r].tags = own.tags /\ receiver'[r].list = own.list
      /\ receiver'[r].yielded = own.yielded /\ receiver'[r].pc = own.pc /\ ~ receiver'[r].connected
  BY <1>1, LoopFacts DEF Loops
<1>3. Unacked(r)' = {} /\ Unacked(r) = Fetched(r)
  BY <1>1, <1>2 DEF Unacked
<1>4. WithCaller(r)' = WithCaller(r) \cup Fetched(r)
  BY <1>1, <1>2 DEF WithCaller, Delivery, Fetched
<1>5. /\ Pending = ready \cup Unacked(r) \cup OtherChannels(r)
      /\ Pending' = ready' \cup Unacked(r)' \cup OtherChannels(r)
      /\ WithCallers = WithCaller(r) \cup OtherCallers(r)
      /\ WithCallers' = WithCaller(r)' \cup OtherCallers(r)
  BY <1>1, ShareFacts
<1>6. /\ WithCallers \subseteq WithCallers' /\ WithCallers' \ WithCallers \subseteq Pending
      /\ UNCHANGED <<Pending, consumed, forfeited>>
  BY <1>1, <1>3, <1>4, <1>5
<1>. QED  BY <1>6 DEF MessageContract!Fetch, WithCallers

(* A caller that deals with a message had it.                              *)
LEMMA HandleKeeps ==
  ASSUME ReceiverInv, NEW r \in Receivers, Handle(r) \/ HandleListed(r)
  PROVE  MessageContract!Handle
<1> DEFINE own == receiver[r]
<1>1. ASSUME NEW m, consumed' = consumed \cup {m}, UNCHANGED <<ready, forfeited>>,
             receiver' = [receiver EXCEPT ![r] = receiver'[r]], Unacked(r)' = Unacked(r),
             m \in WithCaller(r), WithCaller(r) \ {m} \subseteq WithCaller(r)',
             WithCaller(r)' \subseteq WithCaller(r)
      PROVE  MessageContract!Handle
  <2>1. /\ Pending = ready \cup Unacked(r) \cup OtherChannels(r)
        /\ Pending' = ready' \cup Unacked(r)' \cup OtherChannels(r)
        /\ WithCallers = WithCaller(r) \cup OtherCallers(r)
        /\ WithCallers' = WithCaller(r)' \cup OtherCallers(r)
    BY <1>1, ShareFacts
  <2>2. /\ m \in WithCallers /\ UNCHANGED <<Pending, forfeited>>
        /\ WithCallers' \subseteq WithCallers /\ WithCallers \ {m} \subseteq WithCallers'
    BY <1>1, <2>1
  <2>3. WithCallers' \in {WithCallers, WithCallers \ {m}}
    <3>1. CASE m \in WithCallers'
      BY <2>2, <3>1
    <3>2. CASE m \notin WithCallers'
      BY <2>2, <3>2
    <3>. QED  BY <3>1, <3>2
  <2>. QED  BY <1>1, <2>2, <2>3 DEF MessageContract!Handle, WithCallers
<1>2. CASE Handle(r)
  <2>1. /\ own.pc = "handling" /\ UNCHANGED <<ready, forfeited>>
        /\ times' = [times EXCEPT ![Delivery(r)] = @ + 1]
        /\ receiver'[r] = [own EXCEPT !.pc = "receiving", !.ack = own.yielded]
        /\ receiver' = [receiver EXCEPT ![r] = receiver'[r]]
    BY <1>2 DEF Handle, ReceiverInv, ReceiverTypeOK
  <2>2. /\ receiver'[r].tags = own.tags /\ receiver'[r].list = own.list
        /\ receiver'[r].pc = "receiving" /\ receiver'[r].connected = own.connected
    BY <2>1, LoopFacts DEF Loops
  <2>3. /\ Unacked(r)' = Unacked(r) /\ WithCaller(r)' \subseteq WithCaller(r)
        /\ WithCaller(r) \ {Delivery(r)} \subseteq WithCaller(r)'
    BY <2>1, <2>2 DEF Unacked, Fetched, WithCaller
  <2>4. Delivery(r) \in WithCaller(r) /\ Delivery(r) \in Messages
    BY <2>1, CallerFacts, LoopFacts
  <2>5. consumed' = consumed \cup {Delivery(r)}
    BY <2>1, <2>4, ConsumedFacts
  <2>. HIDE DEF own
  <2>. QED  BY <1>1, <2>1, <2>3, <2>4, <2>5
<1>3. CASE HandleListed(r)
  <2>1. PICK m \in own.list :
          /\ times' = [times EXCEPT ![m] = @ + 1]
          /\ receiver' = [receiver EXCEPT ![r] =
               IF own.list \ {m} = {} THEN Disconnected ELSE [own EXCEPT !.list = own.list \ {m}]]
    BY <1>3 DEF HandleListed
  <2>2. own.pc = "returned" /\ UNCHANGED <<ready, forfeited>>
    BY <1>3 DEF HandleListed
  <2>3. own \in Loops /\ own.tags = <<>> /\ ~ own.connected /\ own.list \subseteq Messages
    BY <2>2, LoopFacts DEF LoopOK, Loops
  <2>4. WithCaller(r) = own.list
    BY <2>3, CallerFacts
  <2>5. /\ receiver' = [receiver EXCEPT ![r] = receiver'[r]]
        /\ Unacked(r)' = {} /\ WithCaller(r)' = own.list \ {m}
    <3>1. CASE own.list \ {m} = {}
      <4>1. receiver' = [receiver EXCEPT ![r] = Disconnected]
        BY <2>1, <3>1
      <4>2. /\ receiver' = [receiver EXCEPT ![r] = receiver'[r]] /\ receiver'[r].list = {}
            /\ receiver'[r].tags = <<>> /\ receiver'[r].pc = "idle" /\ Unacked(r)' = {}
        BY <4>1, DisconnectedFacts
      <4>3. WithCaller(r)' = {}
        BY <4>2 DEF WithCaller, Fetched
      <4>. QED  BY <3>1, <4>2, <4>3
    <3>2. CASE own.list \ {m} # {}
      <4>1. /\ receiver'[r] = [own EXCEPT !.list = own.list \ {m}]
            /\ receiver' = [receiver EXCEPT ![r] = receiver'[r]]
        BY <2>1, <3>2 DEF ReceiverInv, ReceiverTypeOK
      <4>2. /\ receiver'[r].list = own.list \ {m} /\ receiver'[r].tags = <<>>
            /\ receiver'[r].pc = "returned" /\ ~ receiver'[r].connected
        BY <2>2, <2>3, <4>1 DEF Loops
      <4>. QED  BY <4>1, <4>2 DEF Unacked, WithCaller, Fetched
    <3>. QED  BY <3>1, <3>2
  <2>6. Unacked(r) = {} /\ consumed' = consumed \cup {m}
    BY <2>1, <2>3, ConsumedFacts DEF Unacked
  <2>. HIDE DEF own
  <2>. QED  BY <1>1, <2>1, <2>2, <2>4, <2>5, <2>6
<1>. QED  BY <1>2, <1>3

(* What is returned to a caller is with it; all else that was fetched is   *)
(* dropped.                                                                *)
LEMMA ClosedKeeps ==
  ASSUME ReceiverInv, NEW r \in Receivers, Closed(r)
  PROVE  /\ Pending = ready \cup Unacked(r) \cup OtherChannels(r)
         /\ Pending' = ready' \cup OtherChannels(r)
         /\ WithCallers = WithCaller(r) \cup OtherCallers(r)
         /\ WithCallers' = receiver[r].list \cup OtherCallers(r)
<1>1. /\ receiver' = [receiver EXCEPT ![r] = receiver'[r]]
      /\ receiver'[r].list = receiver[r].list /\ Unacked(r)' = {}
      /\ receiver'[r].tags = <<>> /\ receiver'[r].pc \in {"idle", "returned"}
  BY ClosedFacts
<1>2. WithCaller(r)' = receiver[r].list
  BY <1>1 DEF WithCaller, Fetched
<1>. QED  BY <1>1, <1>2, ShareFacts

LEMMA AcknowledgeKeeps ==
  ASSUME ReceiverInv, NEW r \in Receivers, Acknowledge(r)
  PROVE  MessageContract!Confirm
<1>1. /\ receiver[r].pc = "acking" /\ receiver[r].connected /\ Closed(r)
      /\ UNCHANGED <<consumed, forfeited>>
      /\ ready' = ready \cup (Unacked(r) \ Acknowledged(r))
  BY ConsumedFacts DEF Acknowledge
<1>2. WithCaller(r) = receiver[r].list
  BY <1>1, CallerFacts
<1>3. /\ Pending = ready \cup Unacked(r) \cup OtherChannels(r)
      /\ Pending' = ready' \cup OtherChannels(r)
      /\ WithCallers = WithCaller(r) \cup OtherCallers(r)
      /\ WithCallers' = receiver[r].list \cup OtherCallers(r)
  BY <1>1, ClosedKeeps
<1>4. /\ UNCHANGED <<WithCallers, consumed, forfeited>>
      /\ Pending' \subseteq Pending /\ Pending \ Pending' \subseteq WithCallers \cup consumed \cup forfeited
  BY <1>1, <1>2, <1>3, AcknowledgedFacts
<1>. QED  BY <1>4 DEF MessageContract!Confirm, WithCallers

(* What nobody has any more is in the queue, was dealt with or forfeited:  *)
(* whoever has dropped it is not missed.                                   *)
LEMMA DroppedKeeps ==
  ASSUME GoneIsHandled', WithCallers' \subseteq WithCallers, WithCallers \subseteq Messages,
         UNCHANGED <<Pending, consumed>>, forfeited \subseteq forfeited',
         forfeited' \subseteq forfeited \cup WithCallers
  PROVE  MessageContract!LetGo
<1>1. UNION {receiver'[r].list : r \in Receivers} \subseteq WithCallers'
  BY DEF WithCallers, WithCaller
<1>2. \A m \in Messages : m \notin Pending' =>
        m \in consumed' \cup forfeited' \cup UNION {receiver'[r].list : r \in Receivers}
  BY DEF GoneIsHandled
<1>3. WithCallers \ WithCallers' \subseteq Pending \cup consumed \cup forfeited'
  BY <1>1, <1>2
<1>. QED  BY <1>3 DEF MessageContract!LetGo, WithCallers

LEMMA CallersFacts == ReceiverInv => WithCallers \subseteq Messages
<1>. SUFFICES ASSUME ReceiverInv, NEW r \in Receivers  PROVE WithCaller(r) \subseteq Messages
  BY DEF WithCallers
<1>1. receiver[r].list \subseteq Messages /\ Fetched(r) \subseteq Messages
  BY LoopFacts DEF Loops
<1>. QED  BY <1>1, CallerFacts DEF WithCaller

LEMMA GiveUpKeeps ==
  ASSUME ReceiverInv, NEW r \in Receivers, Abandon(r) \/ Notice(r)
  PROVE  MessageContract!LetGo
<1>1. /\ Closed(r) /\ ready' \cup OtherChannels(r) = ready \cup Unacked(r) \cup OtherChannels(r)
      /\ UNCHANGED <<consumed, forfeited>>
  BY ConsumedFacts DEF Abandon, Notice, Unacked
<1>2. /\ Pending = ready \cup Unacked(r) \cup OtherChannels(r)
      /\ Pending' = ready' \cup OtherChannels(r)
      /\ WithCallers = WithCaller(r) \cup OtherCallers(r)
      /\ WithCallers' = receiver[r].list \cup OtherCallers(r)
  BY <1>1, ClosedKeeps
<1>3. receiver[r].list \subseteq WithCaller(r)
  BY CallerFacts
<1>4. GoneIsHandled'
  BY AbandonStep, NoticeStep DEF ReceiverInv
<1>. QED  BY <1>1, <1>2, <1>3, <1>4, CallersFacts, DroppedKeeps

LEMMA CrashKeeps ==
  ASSUME ReceiverInv, NEW r \in Receivers, Crash(r)
  PROVE  MessageContract!LetGo
<1>1. /\ ready' = ready \cup Unacked(r) /\ UNCHANGED consumed
      /\ receiver' = [receiver EXCEPT ![r] = Disconnected]
      /\ forfeited \subseteq forfeited' /\ forfeited' \subseteq forfeited \cup receiver[r].list
  BY ConsumedFacts DEF Crash
<1>2. /\ receiver' = [receiver EXCEPT ![r] = receiver'[r]] /\ receiver'[r].list = {}
      /\ receiver'[r].tags = <<>> /\ receiver'[r].pc = "idle" /\ Unacked(r)' = {}
  BY <1>1, DisconnectedFacts
<1>3. WithCaller(r)' = {}
  BY <1>2 DEF WithCaller, Fetched
<1>4. /\ Pending = ready \cup Unacked(r) \cup OtherChannels(r)
      /\ Pending' = ready' \cup Unacked(r)' \cup OtherChannels(r)
      /\ WithCallers = WithCaller(r) \cup OtherCallers(r)
      /\ WithCallers' = WithCaller(r)' \cup OtherCallers(r)
  BY <1>2, ShareFacts
<1>5. receiver[r].list \subseteq WithCaller(r)
  BY CallerFacts
<1>6. GoneIsHandled'
  BY CrashStep DEF ReceiverInv
<1>7. /\ UNCHANGED <<Pending, consumed>> /\ WithCallers' \subseteq WithCallers
      /\ forfeited' \subseteq forfeited \cup WithCallers
  BY <1>1, <1>2, <1>3, <1>4, <1>5
<1>. QED  BY <1>1, <1>6, <1>7, CallersFacts, DroppedKeeps

(* The receivers keep the contract of Delivery: a message leaves the queue *)
(* only when its caller has it or is done with it, and what a caller drops *)
(* is in the queue still, dealt with or forfeited.                         *)
THEOREM KeepsMessagesTheorem == ReceiverSpec => KeepsMessages
<1>1. ReceiverInit => MessageContract!DeliveryInit
  <2>. SUFFICES ASSUME ReceiverInit  PROVE MessageContract!DeliveryInit
    OBVIOUS
  <2>1. \A r \in Receivers : receiver[r] = Disconnected
    BY DEF ReceiverInit
  <2>2. \A r \in Receivers : Unacked(r) = {} /\ WithCaller(r) = {}
    BY <2>1 DEF Unacked, WithCaller, Fetched, Disconnected
  <2>3. consumed = {}
    BY DEF ReceiverInit, consumed
  <2>. QED  BY <2>2, <2>3 DEF ReceiverInit, MessageContract!DeliveryInit, Pending
<1>2. ReceiverInv /\ [ReceiverNext]_receiverVars
        => [MessageContract!DeliveryNext]_(MessageContract!deliveryVars)
  <2>. SUFFICES ASSUME ReceiverInv, [ReceiverNext]_receiverVars
                PROVE  [MessageContract!DeliveryNext]_(MessageContract!deliveryVars)
    OBVIOUS
  <2>1. UNCHANGED <<Pending, WithCallers, consumed, forfeited>> =>
          UNCHANGED MessageContract!deliveryVars
    BY DEF MessageContract!deliveryVars, WithCallers
  <2>2. ASSUME NEW r \in Receivers, OpenChannel(r) \/ Deliver(r)
        PROVE  UNCHANGED MessageContract!deliveryVars
    BY <2>1, <2>2, OpenKeeps, DeliverKeeps
  <2>3. ASSUME NEW r \in Receivers,
               \/ NextDelivery(r) \/ Disconnect(r) \/ Handle(r) \/ HandleListed(r)
               \/ Acknowledge(r) \/ Abandon(r) \/ Notice(r) \/ Crash(r)
        PROVE  MessageContract!DeliveryNext
    BY <2>3, NextDeliveryKeeps, DisconnectKeeps, HandleKeeps, AcknowledgeKeeps, GiveUpKeeps, CrashKeeps
       DEF MessageContract!DeliveryNext
  <2>4. CASE UNCHANGED receiverVars
    BY <2>4 DEF receiverVars, MessageContract!deliveryVars, consumed, Pending, Unacked, Fetched,
                WithCaller, Delivery
  <2>. QED  BY <2>2, <2>3, <2>4 DEF ReceiverNext, ReceiverStep
<1>. QED  BY <1>1, <1>2, ReceiverInvariance, PTL
          DEF ReceiverSpec, KeepsMessages, MessageContract!DeliverySpec
-----------------------------------------------------------------------------
(***************************************************************************)
(* Requests: what was carried out is accounted for.                        *)
(***************************************************************************)
Sends == [client : {"gateway", "email", "telegram"}, pc : {"idle", "waiting", "sleeping", "ended"},
          part : Nat, parts : Nat, try : Nat,
          ending : {"none", "ok", "failed", "cancelled", "ignored", "AttributeError"}]

(* The request p, try t has been sent and its reply is known.              *)
Past(s, p, t) == p < s.part \/ (p = s.part /\ (t < s.try \/ (t = s.try /\ s.pc # "waiting")))

SendOK(s) ==
  /\ s \in Sends /\ s.part \in 1 .. s.parts /\ s.try \in 1 .. Tries
  /\ s.pc = "ended" <=> s.ending # "none"
  /\ s.ending = "ok" => s.part = s.parts

(* Nothing is sent unless the message is for the bot.                      *)
Sending(s) == s.pc # "idle" /\ s.ending \notin {"ignored", "AttributeError"}

AddressOK(s) == s.client = "telegram" /\ Sending(s) => Addressed(message)

(* A request carried out whose reply was definite is the last of its part, *)
(* of a part that is behind, or of the last one of a call that succeeded.  *)
DoneOK(s) ==
  \A p, t \in Nat : <<p, t>> \in performed /\ <<p, t>> \notin doubtful =>
    /\ p < s.part \/ s.ending = "ok"
    /\ \A u \in Nat : <<p, u>> \in performed \cup flying => u <= t

RequestsInv ==
  /\ SendOK(send) /\ AddressOK(send) /\ DoneOK(send)
  /\ performed \subseteq Nat \X Nat /\ doubtful \subseteq Nat \X Nat
  /\ flying \subseteq doubtful
  /\ \A p, t \in Nat : <<p, t>> \in performed \cup doubtful =>
       Sending(send) /\ p \in Nat \ {0} /\ t \in 1 .. Tries /\ Past(send, p, t)
  /\ \A p \in 1 .. send.parts : p < send.part \/ send.ending = "ok" =>
       \E t \in 1 .. Tries : <<p, t>> \in performed

LEMMA RequestsInitInv == RequestsInit => RequestsInv
<1>. SUFFICES ASSUME RequestsInit  PROVE RequestsInv
  OBVIOUS
<1>1. /\ send = [client |-> "gateway", pc |-> "idle", part |-> 1, parts |-> 1, try |-> 1, ending |-> "none"]
      /\ performed = {} /\ doubtful = {} /\ flying = {}
  BY DEF RequestsInit, SendState
<1>. QED  BY <1>1, RequestsAssumption DEF RequestsInv, SendOK, Sends, AddressOK, Sending, DoneOK

LEMMA CallStep == ASSUME RequestsInv, CallClient  PROVE RequestsInv'
<1>1. send.pc = "idle" /\ UNCHANGED <<performed, doubtful, flying>>
  BY DEF CallClient
<1>2. performed = {} /\ doubtful = {} /\ flying = {}
  BY <1>1 DEF RequestsInv, Sending
<1>3. ASSUME NEW client \in {"gateway", "email", "telegram"}, NEW n \in 1 .. MaxParts, NEW pc \in {"waiting", "ended"},
             NEW e \in {"none", "ignored", "AttributeError"}, pc = "ended" <=> e # "none",
             send' = [client |-> client, pc |-> pc, part |-> 1, parts |-> n, try |-> 1, ending |-> e],
             client = "telegram" /\ e = "none" => Addressed(message)'
      PROVE  RequestsInv'
  <2>1. SendOK(send')
    BY <1>3, RequestsAssumption DEF SendOK, Sends
  <2>2. AddressOK(send)'
    BY <1>3 DEF AddressOK, Sending
  <2>. QED  BY <1>1, <1>2, <1>3, <2>1, <2>2 DEF RequestsInv, DoneOK, SendOK
<1>4. 1 \in 1 .. MaxParts /\ MaxParts \in Nat
  BY RequestsAssumption
<1>5. ASSUME NEW bodyless \in BOOLEAN, NEW body \in BOOLEAN, NEW params \in BOOLEAN,
             CallGateway(bodyless, body, params)
      PROVE  RequestsInv'
  <2>1. CASE bodyless /\ params /\ ~ body
    BY <1>3, <1>4, <1>5, <2>1 DEF CallGateway, SendState
  <2>2. CASE ~ (bodyless /\ params /\ ~ body)
    BY <1>3, <1>4, <1>5, <2>2 DEF CallGateway, SendState, Fly
  <2>. QED  BY <2>1, <2>2
<1>6. CASE Fly("email", 1)
  BY <1>3, <1>4, <1>6 DEF SendState, Fly
<1>7. CASE ParseMessage
  <2>1. CASE ~ Addressed(message')
    BY <1>3, <1>4, <1>7, <2>1 DEF ParseMessage, SendState
  <2>2. CASE Addressed(message')
    <3>1. PICK n \in 1 .. MaxParts : Fly("telegram", n)
      BY <1>4, <1>7, <2>2 DEF ParseMessage
    <3>2. Addressed(message)'
      BY <2>2 DEF Addressed
    <3>. QED  BY <1>3, <3>1, <3>2 DEF SendState, Fly
  <2>. QED  BY <2>1, <2>2
<1>. QED  BY <1>5, <1>6, <1>7 DEF CallClient

(* Giving up, waiting again and sleeping leave the record of the call in   *)
(* shape.                                                                  *)
LEMMA NotDoneTyped ==
  ASSUME send \in Sends, send.try + 1 \in Nat,
         \/ \E e \in {"failed", "cancelled"} : EndSend(e)
         \/ send.try # Tries /\ send' = [send EXCEPT !.pc = "waiting", !.try = @ + 1]
         \/ send' = [send EXCEPT !.pc = "sleeping"]
  PROVE  send' \in Sends
<1>1. ASSUME NEW e \in {"failed", "cancelled"}, send' = [send EXCEPT !.pc = "ended", !.ending = e]
      PROVE  send' \in Sends
  BY <1>1 DEF Sends
<1>2. CASE send' = [send EXCEPT !.pc = "waiting", !.try = send.try + 1]
  BY <1>2 DEF Sends
<1>3. CASE send' = [send EXCEPT !.pc = "sleeping"]
  BY <1>3 DEF Sends
<1>. QED  BY <1>1, <1>2, <1>3 DEF EndSend

LEMMA AddressKept ==
  ASSUME RequestsInv, message' = message, send.pc \in {"waiting", "sleeping"},
         send'.client = send.client, send'.pc # "idle",
         send'.ending \notin {"ignored", "AttributeError"}
  PROVE  AddressOK(send)' /\ Sending(send')
<1>1. Addressed(message)' = Addressed(message)
  BY DEF Addressed
<1>2. Sending(send) /\ Sending(send')
  BY DEF RequestsInv, SendOK, Sending
<1>. QED  BY <1>1, <1>2 DEF RequestsInv, AddressOK

(* A try in hand is a new request.                                         *)
LEMMA CurrentIsNew ==
  ASSUME RequestsInv, send.pc = "waiting"
  PROVE  /\ send.part \in Nat /\ send.try \in Nat /\ send.part \in 1 .. send.parts /\ send.try \in 1 .. Tries
         /\ send.parts \in Nat /\ Tries \in Nat /\ send.ending = "none"
         /\ \A p, t \in Nat : <<p, t>> \in performed \cup doubtful \cup flying =>
              p \in Nat \ {0} /\ t \in 1 .. Tries /\ (p < send.part \/ (p = send.part /\ t < send.try))
         /\ \A p, t \in Nat : <<p, t>> \in performed /\ <<p, t>> \notin doubtful => p < send.part
<1>1. /\ send \in Sends /\ send.part \in 1 .. send.parts /\ send.try \in 1 .. Tries /\ send.ending = "none"
  BY DEF RequestsInv, SendOK
<1>2. send.part \in Nat /\ send.try \in Nat /\ send.parts \in Nat /\ Tries \in Nat
  BY <1>1, RequestsAssumption DEF Sends
<1>3. \A p, t \in Nat : <<p, t>> \in performed \cup doubtful \cup flying =>
         p \in Nat \ {0} /\ t \in 1 .. Tries /\ Past(send, p, t)
  BY DEF RequestsInv
<1>4. \A p, t \in Nat : <<p, t>> \in performed /\ <<p, t>> \notin doubtful => p < send.part
  BY <1>1 DEF RequestsInv, DoneOK
<1>. QED  BY <1>1, <1>2, <1>3, <1>4 DEF Past

(* The definite reply "done": the next part, or the end.                   *)
LEMMA DoneStep ==
  ASSUME RequestsInv, send.pc = "waiting", message' = message,
         performed' = performed \cup {Current}, flying' = flying, doubtful' = doubtful,
         \/ send.part < send.parts /\ send' = [send EXCEPT !.part = @ + 1, !.try = 1]
         \/ send.part = send.parts /\ EndSend("ok")
  PROVE  RequestsInv'
<1>. DEFINE a == send.part  b == send.try
<1>1. /\ a \in Nat /\ b \in Nat /\ a \in 1 .. send.parts /\ b \in 1 .. Tries
      /\ send.parts \in Nat /\ Tries \in Nat /\ send.ending = "none"
      /\ \A p, t \in Nat : <<p, t>> \in performed \cup doubtful \cup flying =>
           p \in Nat \ {0} /\ t \in 1 .. Tries /\ (p < a \/ (p = a /\ t < b))
      /\ \A p, t \in Nat : <<p, t>> \in performed /\ <<p, t>> \notin doubtful => p < a
  BY CurrentIsNew
<1>2. /\ performed' = performed \cup {<<a, b>>} /\ performed \subseteq Nat \X Nat
      /\ doubtful \subseteq Nat \X Nat /\ flying \subseteq doubtful
  BY DEF Current, RequestsInv
<1>3. /\ send'.client = send.client /\ send'.pc \in {"waiting", "ended"} /\ send'.parts = send.parts
      /\ \/ a < send.parts /\ send'.part = a + 1 /\ send'.try = 1 /\ send'.pc = "waiting" /\ send'.ending = "none"
         \/ a = send.parts /\ send'.part = a /\ send'.try = b /\ send'.pc = "ended" /\ send'.ending = "ok"
  BY DEF EndSend, RequestsInv, SendOK, Sends
<1>4. SendOK(send')
  <2>1. send' \in Sends
    <3>1. send \in Sends /\ send.part + 1 \in Nat /\ 1 \in Nat
      BY <1>1 DEF RequestsInv, SendOK
    <3>2. CASE send' = [send EXCEPT !.part = send.part + 1, !.try = 1]
      BY <3>1, <3>2 DEF Sends
    <3>3. CASE send' = [send EXCEPT !.pc = "ended", !.ending = "ok"]
      BY <3>1, <3>3 DEF Sends
    <3>. QED  BY <3>2, <3>3 DEF EndSend
  <2>. QED  BY <1>1, <1>3, <2>1, RequestsAssumption DEF SendOK
<1>5. AddressOK(send)'
  BY <1>3, AddressKept
<1>. HIDE DEF a, b
<1>6. DoneOK(send)'
  <2>. SUFFICES ASSUME NEW p \in Nat, NEW t \in Nat, <<p, t>> \in performed', <<p, t>> \notin doubtful
                PROVE  /\ p < send'.part \/ send'.ending = "ok"
                       /\ \A u \in Nat : <<p, u>> \in performed' \cup flying => u <= t
    BY DEF DoneOK
  <2>1. CASE p = a /\ t = b
    BY <1>1, <1>2, <1>3, <2>1
  <2>2. CASE <<p, t>> \in performed
    <3>1. p < a /\ \A u \in Nat : <<p, u>> \in performed \cup flying => u <= t
      BY <1>1, <2>2 DEF RequestsInv, DoneOK
    <3>. QED  BY <1>1, <1>2, <1>3, <3>1
  <2>. QED  BY <1>2, <2>1, <2>2
<1>7. ASSUME NEW p \in Nat, NEW t \in Nat, <<p, t>> \in performed' \cup doubtful
      PROVE  p \in Nat \ {0} /\ t \in 1 .. Tries /\ Past(send', p, t)
  BY <1>1, <1>2, <1>3, <1>7 DEF Past
<1>8. ASSUME NEW p \in 1 .. send'.parts, p < send'.part \/ send'.ending = "ok"
      PROVE  \E t \in 1 .. Tries : <<p, t>> \in performed'
  <2>1. CASE p < a
    <3>1. \E t \in 1 .. Tries : <<p, t>> \in performed
      BY <1>3, <2>1 DEF RequestsInv, a
    <3>. QED  BY <1>2, <3>1
  <2>2. CASE p = a
    BY <1>1, <1>2, <2>2
  <2>. QED  BY <1>1, <1>3, <1>8, <2>1, <2>2
<1>9. Sending(send')
  BY <1>3 DEF Sending
<1>10. performed' \subseteq Nat \X Nat
  BY <1>1, <1>2
<1>11. SendOK(send)'
  BY <1>4 DEF SendOK
<1>. QED  BY <1>2, <1>5, <1>6, <1>7, <1>8, <1>9, <1>10, <1>11 DEF RequestsInv

(* Any other reply: the request is repeated or given up.                   *)
LEMMA NotDoneStep ==
  ASSUME RequestsInv, send.pc = "waiting", message' = message,
         \/ performed' = performed /\ flying' = flying /\ doubtful' = doubtful
         \/ /\ doubtful' = doubtful \cup {Current}
            /\ performed' \in {performed, performed \cup {Current}}
            /\ flying' \in {flying, flying \cup {Current}},
         \/ \E e \in {"failed", "cancelled"} : EndSend(e)
         \/ send.try # Tries /\ send' = [send EXCEPT !.pc = "waiting", !.try = @ + 1]
         \/ send' = [send EXCEPT !.pc = "sleeping"]
  PROVE  RequestsInv'
<1>. DEFINE a == send.part  b == send.try
<1>1. /\ a \in Nat /\ b \in Nat /\ a \in 1 .. send.parts /\ b \in 1 .. Tries
      /\ send.parts \in Nat /\ Tries \in Nat /\ send.ending = "none"
      /\ \A p, t \in Nat : <<p, t>> \in performed \cup doubtful \cup flying =>
           p \in Nat \ {0} /\ t \in 1 .. Tries /\ (p < a \/ (p = a /\ t < b))
      /\ \A p, t \in Nat : <<p, t>> \in performed /\ <<p, t>> \notin doubtful => p < a
  BY CurrentIsNew
<1>2. /\ performed \subseteq performed' /\ performed' \subseteq performed \cup {<<a, b>>}
      /\ flying' \subseteq flying \cup {<<a, b>>}
      /\ doubtful \subseteq doubtful' /\ doubtful' \subseteq doubtful \cup {<<a, b>>}
      /\ <<a, b>> \in performed' \cup flying' => <<a, b>> \in doubtful'
      /\ flying' \subseteq doubtful'
      /\ performed \subseteq Nat \X Nat /\ doubtful \subseteq Nat \X Nat
  <2>1. performed \subseteq Nat \X Nat /\ doubtful \subseteq Nat \X Nat /\ flying \subseteq doubtful
    BY DEF RequestsInv
  <2>2. <<a, b>> \notin performed \cup flying
    BY <1>1
  <2>. QED  BY <2>1, <2>2 DEF Current
<1>3. /\ send'.client = send.client /\ send'.part = a /\ send'.parts = send.parts
      /\ \/ send'.pc = "ended" /\ send'.ending \in {"failed", "cancelled"} /\ send'.try = b
         \/ send'.pc = "waiting" /\ send'.ending = "none" /\ send'.try = b + 1 /\ b # Tries
         \/ send'.pc = "sleeping" /\ send'.ending = "none" /\ send'.try = b
  BY <1>1 DEF EndSend, RequestsInv, SendOK, Sends
<1>4. SendOK(send)'
  <2>1. send' \in Sends
    <3>1. send \in Sends /\ send.try + 1 \in Nat
      BY <1>1 DEF RequestsInv, SendOK
    <3>. QED  BY <3>1, NotDoneTyped
  <2>2. SendOK(send')
    BY <1>1, <1>3, <2>1, RequestsAssumption DEF SendOK
  <2>. QED  BY <2>2 DEF SendOK
<1>5. AddressOK(send)' /\ Sending(send')
  BY <1>3, AddressKept
<1>. HIDE DEF a, b
<1>6. DoneOK(send)'
  <2>. SUFFICES ASSUME NEW p \in Nat, NEW t \in Nat, <<p, t>> \in performed', <<p, t>> \notin doubtful'
                PROVE  /\ p < send'.part \/ send'.ending = "ok"
                       /\ \A u \in Nat : <<p, u>> \in performed' \cup flying' => u <= t
    BY DEF DoneOK
  <2>1. <<p, t>> \in performed /\ <<p, t>> \notin doubtful
    BY <1>2
  <2>2. p < a /\ \A u \in Nat : <<p, u>> \in performed \cup flying => u <= t
    BY <1>1, <2>1 DEF RequestsInv, DoneOK
  <2>. QED  BY <1>1, <1>2, <1>3, <2>2
<1>7. ASSUME NEW p \in Nat, NEW t \in Nat, <<p, t>> \in performed' \cup doubtful'
      PROVE  p \in Nat \ {0} /\ t \in 1 .. Tries /\ Past(send', p, t)
  <2>1. CASE p = a /\ t = b
    BY <1>1, <1>3, <2>1 DEF Past
  <2>2. CASE <<p, t>> \in performed \cup doubtful
    BY <1>1, <1>3, <2>2 DEF Past
  <2>. QED  BY <1>2, <1>7, <2>1, <2>2
<1>8. ASSUME NEW p \in 1 .. send'.parts, p < send'.part \/ send'.ending = "ok"
      PROVE  \E t \in 1 .. Tries : <<p, t>> \in performed'
  BY <1>2, <1>3, <1>8 DEF RequestsInv, a
<1>9. performed' \subseteq Nat \X Nat /\ doubtful' \subseteq Nat \X Nat
  BY <1>1, <1>2
<1>. QED  BY <1>2, <1>4, <1>5, <1>6, <1>7, <1>8, <1>9 DEF RequestsInv

LEMMA AnsweredStep == ASSUME RequestsInv, Answered  PROVE RequestsInv'
<1>1. PICK reply \in Reply :
        /\ reply = "garbled" => send.client # "email"
        /\ Served(reply)
        /\ doubtful' = IF reply \in {"done", "refused"} THEN doubtful ELSE doubtful \cup {Current}
        /\ IF ~ Repeats(reply) THEN Settled(reply)
           ELSE IF send.client = "telegram" THEN Again
           ELSE IF send.client = "gateway" /\ Exhausted THEN EndSend("failed")
           ELSE send' = [send EXCEPT !.pc = "sleeping"]
  BY DEF Answered
<1>2. send.pc = "waiting" /\ message' = message
  BY DEF Answered
<1>3. /\ send.client \in {"gateway", "email", "telegram"}
      /\ send.part \in Nat /\ send.parts \in Nat /\ send.part <= send.parts
  BY DEF RequestsInv, SendOK, Sends
<1>4. CASE reply = "done"
  <2>1. ~ Repeats(reply)
    BY <1>3, <1>4 DEF Repeats
  <2>2. performed' = performed \cup {Current} /\ flying' = flying /\ doubtful' = doubtful
    BY <1>1, <1>4 DEF Served
  <2>3. \/ send.part < send.parts /\ send' = [send EXCEPT !.part = @ + 1, !.try = 1]
        \/ send.part = send.parts /\ EndSend("ok")
    BY <1>1, <1>3, <1>4, <2>1 DEF Settled
  <2>. QED  BY <1>2, <2>2, <2>3, DoneStep
<1>5. CASE reply # "done"
  <2>1. \/ performed' = performed /\ flying' = flying /\ doubtful' = doubtful
        \/ /\ doubtful' = doubtful \cup {Current}
           /\ performed' \in {performed, performed \cup {Current}}
           /\ flying' \in {flying, flying \cup {Current}}
    BY <1>1, <1>5 DEF Served, Reply
  <2>2. \/ \E e \in {"failed", "cancelled"} : EndSend(e)
        \/ send.try # Tries /\ send' = [send EXCEPT !.pc = "waiting", !.try = @ + 1]
        \/ send' = [send EXCEPT !.pc = "sleeping"]
    <3>1. Settled(reply) => \E e \in {"failed", "cancelled"} : EndSend(e)
      BY <1>5 DEF Settled
    <3>2. Again => \/ EndSend("failed")
                   \/ send.try # Tries /\ send' = [send EXCEPT !.pc = "waiting", !.try = @ + 1]
      BY DEF Again, Exhausted
    <3>. QED  BY <1>1, <3>1, <3>2
  <2>. QED  BY <1>2, <2>1, <2>2, NotDoneStep
<1>. QED  BY <1>4, <1>5

LEMMA SleptStep == ASSUME RequestsInv, Slept  PROVE RequestsInv'
<1>1. /\ send.pc = "sleeping" /\ UNCHANGED <<message, performed, doubtful, flying>>
      /\ \/ \E e \in {"failed", "cancelled"} : EndSend(e)
         \/ send.try # Tries /\ send' = [send EXCEPT !.pc = "waiting", !.try = @ + 1]
  BY DEF Slept, Again, Exhausted
<1>2. /\ send \in Sends /\ send.part \in 1 .. send.parts /\ send.try \in 1 .. Tries /\ send.ending = "none"
      /\ send.part \in Nat /\ send.try \in Nat /\ send.parts \in Nat /\ Tries \in Nat
  BY <1>1, RequestsAssumption DEF RequestsInv, SendOK, Sends
<1>3. /\ send'.client = send.client /\ send'.part = send.part /\ send'.parts = send.parts
      /\ \/ send'.pc = "ended" /\ send'.ending \in {"failed", "cancelled"} /\ send'.try = send.try
         \/ send'.pc = "waiting" /\ send'.ending = "none" /\ send'.try = send.try + 1 /\ send.try # Tries
      /\ send' \in Sends
  <2>1. send' \in Sends
    BY <1>1, <1>2, NotDoneTyped
  <2>. QED  BY <1>1, <1>2, <2>1 DEF EndSend, Sends
<1>4. SendOK(send)'
  BY <1>2, <1>3 DEF SendOK
<1>5. AddressOK(send)' /\ Sending(send')
  BY <1>1, <1>3, AddressKept
<1>6. \A p, t \in Nat : Past(send, p, t) => Past(send', p, t)
  BY <1>1, <1>2, <1>3 DEF Past
<1>7. DoneOK(send)'
  BY <1>1, <1>2, <1>3 DEF RequestsInv, DoneOK
<1>8. \A p \in 1 .. send'.parts : p < send'.part \/ send'.ending = "ok" =>
        \E t \in 1 .. Tries : <<p, t>> \in performed'
  BY <1>1, <1>2, <1>3 DEF RequestsInv
<1>. QED  BY <1>1, <1>4, <1>5, <1>6, <1>7, <1>8 DEF RequestsInv

LEMMA LateStep == ASSUME RequestsInv, PerformedLate  PROVE RequestsInv'
<1>1. PICK try \in flying : performed' = performed \cup {try} /\ flying' = flying \ {try}
  BY DEF PerformedLate
<1>2. UNCHANGED <<send, message, doubtful>> /\ try \in doubtful
  BY <1>1 DEF PerformedLate, RequestsInv
<1>3. performed' \cup flying' = performed \cup flying /\ performed' \cup doubtful' = performed \cup doubtful
  BY <1>1, <1>2
<1>4. DoneOK(send)'
  BY <1>1, <1>2, <1>3 DEF RequestsInv, DoneOK
<1>5. SendOK(send)' /\ AddressOK(send)' /\ Sending(send)' = Sending(send)
  BY <1>2 DEF RequestsInv, SendOK, AddressOK, Sending, Addressed
<1>6. \A p, t \in Nat : <<p, t>> \in performed' \cup doubtful' =>
        Sending(send') /\ p \in Nat \ {0} /\ t \in 1 .. Tries /\ Past(send', p, t)
  BY <1>2, <1>3 DEF RequestsInv
<1>7. \A p \in 1 .. send'.parts : p < send'.part \/ send'.ending = "ok" =>
        \E t \in 1 .. Tries : <<p, t>> \in performed'
  BY <1>1, <1>2 DEF RequestsInv
<1>8. performed' \subseteq Nat \X Nat /\ doubtful' \subseteq Nat \X Nat /\ flying' \subseteq doubtful'
  BY <1>1, <1>2 DEF RequestsInv
<1>. QED  BY <1>4, <1>5, <1>6, <1>7, <1>8 DEF RequestsInv

(* Of a message in any number of parts, with any number of tries, only a   *)
(* try without a definite answer is repeated; parts are carried out in     *)
(* order, and a call that succeeds has carried out all of them             *)
(* (telegram:104-169, gateway:57-100, email:47-74).                        *)
THEOREM AccountedTheorem == RequestsSpec => []Accounted
<1>1. RequestsInv /\ [RequestsNext]_requestVars => RequestsInv'
  <2>. SUFFICES ASSUME RequestsInv, [RequestsNext]_requestVars  PROVE RequestsInv'
    OBVIOUS
  <2>1. CASE UNCHANGED requestVars
    BY <2>1 DEF requestVars, RequestsInv, SendOK, AddressOK, Addressed, Sending, DoneOK, Past
  <2>. QED  BY <2>1, CallStep, AnsweredStep, SleptStep, LateStep DEF RequestsNext
<1>2. RequestsInv => Accounted
  <2>. SUFFICES ASSUME RequestsInv  PROVE Accounted
    OBVIOUS
  <2>1. /\ send.part \in Nat /\ send.parts \in Nat /\ Tries \in Nat /\ send.part \in 1 .. send.parts
        /\ send.ending = "ok" => send.part = send.parts
    BY RequestsAssumption DEF RequestsInv, SendOK, Sends
  <2>2. ASSUME NEW one \in performed
        PROVE  /\ one[1] \in Nat \ {0} /\ one[2] \in Nat /\ one = <<one[1], one[2]>>
               /\ Past(send, one[1], one[2]) /\ Sending(send)
               /\ one \notin doubtful =>
                    /\ one[1] < send.part \/ send.ending = "ok"
                    /\ \A u \in Nat : <<one[1], u>> \in performed => u <= one[2]
    <3>1. one[1] \in Nat /\ one[2] \in Nat /\ one = <<one[1], one[2]>>
      BY DEF RequestsInv
    <3>. QED  BY <3>1 DEF RequestsInv, DoneOK
  <2>3. \A p \in 1 .. send.parts : p < send.part \/ send.ending = "ok" =>
          \E t \in 1 .. Tries : <<p, t>> \in performed
    BY DEF RequestsInv
  <2>4. \A one, other \in performed : (one[1] = other[1] /\ one[2] < other[2]) => one \in doubtful
    BY <2>2
  <2>5. ASSUME NEW one \in performed, one[1] > 1
        PROVE  \E t \in 1 .. Tries : <<one[1] - 1, t>> \in performed
    <3>1. one[1] \in Nat /\ one[1] <= send.part
      BY <2>1, <2>2 DEF Past
    <3>2. one[1] - 1 \in 1 .. send.parts /\ one[1] - 1 < send.part
      BY <2>1, <2>5, <3>1
    <3>. QED  BY <2>3, <3>2
  <2>6. send.ending = "failed" => \A one \in performed : one[1] < send.part \/ one \in doubtful
    BY <2>2
  <2>7. send.client = "telegram" /\ performed \cup flying # {} => Addressed(message)
    <3>1. performed \cup flying # {} => Sending(send)
      <4>1. performed \cup flying \subseteq performed \cup doubtful /\ performed \cup doubtful \subseteq Nat \X Nat
        BY DEF RequestsInv
      <4>2. \A one \in performed \cup doubtful : one = <<one[1], one[2]>> /\ one[1] \in Nat /\ one[2] \in Nat
        BY <4>1
      <4>. QED  BY <4>1, <4>2 DEF RequestsInv
    <3>. QED  BY <3>1 DEF RequestsInv, AddressOK
  <2>. QED  BY <2>3, <2>4, <2>5, <2>6, <2>7 DEF Accounted, Addressed
<1>. QED  BY <1>1, <1>2, RequestsInitInv, PTL DEF RequestsSpec
-----------------------------------------------------------------------------
(***************************************************************************)
(* AerospikeCache: the age of an answer is bounded.                        *)
(***************************************************************************)
Types == {"none", "right", "wrong"}

(* A record has its lifetime left when it is put, at most MaxFetch after   *)
(* its data was computed, and the store may give it StoreLag longer.       *)
RecordOK(record) == /\ record \in [type : Types, age : Nat, left : Nat]
                    /\ record.age + record.left <= Lifetime + MaxFetch

EarlierOK(record) == /\ record \in [type : Types, age : Nat, ago : Nat]
                     /\ record.age <= Lifetime + MaxFetch + record.ago /\ record.ago <= StoreLag

CallerOK(s) ==
  /\ s \in [pc : {"idle", "computing", "putting", "answered", "raised"}, age : Nat, type : Types,
            from : {"none", "store", "function"}]
  /\ s.pc \in {"computing", "putting"} => s.age <= MaxFetch
  /\ s.pc = "answered" =>
       IF s.from = "store"
       THEN s.type = "right" /\ s.age <= Lifetime + StoreLag + MaxFetch
       ELSE s.age <= MaxFetch

AerospikeInv ==
  /\ decoration.ttl \in Nat
  /\ decoration = NotDecorated =>
       stored = NoRecord /\ earlier = {} /\ \A c \in Callers : caller[c].pc = "idle"
  /\ RecordOK(stored) /\ \A record \in earlier : EarlierOK(record)
  /\ caller = [c \in Callers |-> caller[c]] /\ \A c \in Callers : CallerOK(caller[c])

LEMMA BoundFacts ==
  AerospikeInv => /\ Lifetime \in Nat /\ StoreLag \in Nat /\ MaxFetch \in Nat /\ Left = Lifetime
                  /\ LocalTTL \in Nat /\ StoreCall \in Nat
BY AerospikeAssumption DEF AerospikeInv, Lifetime, StoreLag, Left

LEMMA NoRecordOK == ASSUME Lifetime \in Nat  PROVE RecordOK(NoRecord)
BY AerospikeAssumption DEF RecordOK, NoRecord, Types

LEMMA AerospikeInitInv == AerospikeInit => AerospikeInv
<1>. SUFFICES ASSUME AerospikeInit  PROVE AerospikeInv
  OBVIOUS
<1>1. decoration.ttl = 0 /\ Lifetime \in Nat
  BY AerospikeAssumption DEF AerospikeInit, NotDecorated, Lifetime
<1>. QED  BY <1>1, NoRecordOK DEF AerospikeInit, AerospikeInv, CallerOK, Types

(* What a step at one moment owes: of one caller at most.                  *)
LEMMA MomentStep ==
  ASSUME AerospikeInv, decoration # NotDecorated, decoration' = decoration, RecordOK(stored'),
         \A record \in earlier' : EarlierOK(record),
         \/ caller' = caller
         \/ \E c \in Callers : \E s : caller' = [caller EXCEPT ![c] = s] /\ CallerOK(s)
  PROVE  AerospikeInv'
<1>1. Lifetime' = Lifetime
  BY DEF Lifetime
<1>2. RecordOK(stored)' /\ \A record \in earlier' : EarlierOK(record)'
  BY <1>1 DEF RecordOK, EarlierOK
<1>3. caller' = [c \in Callers |-> caller'[c]] /\ \A c \in Callers : CallerOK(caller[c])'
  <2>1. CASE caller' = caller
    BY <1>1, <2>1 DEF AerospikeInv, CallerOK
  <2>2. ASSUME NEW c \in Callers, NEW s, caller' = [caller EXCEPT ![c] = s], CallerOK(s)
        PROVE  caller' = [o \in Callers |-> caller'[o]] /\ \A o \in Callers : CallerOK(caller[o])'
    <3>1. \A o \in Callers : caller'[o] = IF o = c THEN s ELSE caller[o]
      BY <2>2 DEF AerospikeInv
    <3>2. \A o \in Callers : CallerOK(caller'[o])
      BY <2>2, <3>1 DEF AerospikeInv
    <3>3. caller' = [o \in Callers |-> caller'[o]]
      BY <2>2 DEF AerospikeInv
    <3>. QED  BY <1>1, <3>2, <3>3 DEF CallerOK
  <2>. QED  BY <2>1, <2>2
<1>4. decoration'.ttl \in Nat /\ decoration' # NotDecorated
  BY DEF AerospikeInv
<1>. QED  BY <1>2, <1>3, <1>4 DEF AerospikeInv

(* Who is at work was decorated.                                           *)
LEMMA DecoratedFacts ==
  ASSUME AerospikeInv, NEW c \in Callers, caller[c].pc # "idle"  PROVE decoration # NotDecorated
BY DEF AerospikeInv

LEMMA RaisedFacts ==
  ASSUME AerospikeInv, NEW c \in Callers, Raises(c)
  PROVE  \E s : caller' = [caller EXCEPT ![c] = s] /\ CallerOK(s)
<1>. DEFINE s == [pc |-> "raised", age |-> 0, type |-> "none", from |-> "none"]
<1>1. CallerOK(s)
  BY DEF CallerOK, Types
<1>. QED  BY <1>1 DEF Raises, Place

(* Who starts to compute has waited no time yet.                           *)
LEMMA ComputingFacts ==
  ASSUME AerospikeInv, NEW c \in Callers, Computing(c)
  PROVE  \E s : caller' = [caller EXCEPT ![c] = s] /\ CallerOK(s)
<1>. DEFINE s == [pc |-> "computing", age |-> 0, type |-> "none", from |-> "none"]
<1>1. CallerOK(s)
  BY AerospikeAssumption DEF CallerOK, Types
<1>. QED  BY <1>1 DEF Computing, Place

(* The standing record becomes an earlier one as it is.                    *)
LEMMA LeavesFacts ==
  ASSUME AerospikeInv  PROVE \A record \in Leaves(stored) : EarlierOK(record) /\ record.ago = 0
<1>1. RecordOK(stored) /\ StoreLag \in Nat /\ Lifetime \in Nat /\ MaxFetch \in Nat
  BY BoundFacts DEF AerospikeInv
<1>. QED  BY <1>1 DEF Leaves, RecordOK, EarlierOK

LEMMA ReplaceFacts ==
  ASSUME AerospikeInv, NEW record, Replace(record)
  PROVE  stored' = record /\ \A r \in earlier' : EarlierOK(r)
BY LeavesFacts DEF Replace, Remember, AerospikeInv

LEMMA GetStep == ASSUME AerospikeInv, NEW c \in Callers, Get(c)  PROVE AerospikeInv'
<1>1. /\ UNCHANGED <<decoration, stored, earlier>> /\ decoration # NotDecorated
      /\ RecordOK(stored') /\ \A record \in earlier' : EarlierOK(record)
  BY DEF Get, AerospikeInv
<1>2. ASSUME NEW record \in earlier \cup Leaves(stored),
             IF Matches(record.type) THEN AnswersWith(c, record.type, record.age, "store") ELSE Computing(c)
      PROVE  AerospikeInv'
  <2>1. CASE Matches(record.type) /\ AnswersWith(c, record.type, record.age, "store")
    <3>. DEFINE s == [pc |-> "answered", age |-> record.age, type |-> record.type, from |-> "store"]
    <3>1. EarlierOK(record)
      BY LeavesFacts DEF AerospikeInv
    <3>2. CallerOK(s)
      BY <2>1, <3>1, BoundFacts DEF CallerOK, EarlierOK, Matches
    <3>3. caller' = [caller EXCEPT ![c] = s]
      BY <2>1 DEF AnswersWith, Place
    <3>. QED  BY <1>1, <3>2, <3>3, MomentStep
  <2>2. CASE Computing(c)
    BY <1>1, <2>2, ComputingFacts, MomentStep
  <2>. QED  BY <1>2, <2>1, <2>2
<1>3. CASE Computing(c)
  BY <1>1, <1>3, ComputingFacts, MomentStep
<1>4. CASE Raises(c)
  BY <1>1, <1>4, RaisedFacts, MomentStep
<1>. QED  BY <1>2, <1>3, <1>4 DEF Get

LEMMA ComputeStep == ASSUME AerospikeInv, NEW c \in Callers, RunFunction(c)  PROVE AerospikeInv'
<1>1. /\ UNCHANGED <<decoration, stored, earlier>> /\ caller[c].pc = "computing"
      /\ RecordOK(stored') /\ \A record \in earlier' : EarlierOK(record)
  BY DEF RunFunction, AerospikeInv
<1>2. /\ CallerOK(caller[c]) /\ caller[c].age <= MaxFetch /\ caller[c].age \in Nat
      /\ decoration # NotDecorated
  BY <1>1, DecoratedFacts DEF AerospikeInv, CallerOK
<1>3. ASSUME NEW type \in {"right", "wrong"},
             caller' = [caller EXCEPT ![c].pc = "putting", ![c].type = type]
      PROVE  AerospikeInv'
  <2>. DEFINE s == [caller[c] EXCEPT !.pc = "putting", !.type = type]
  <2>1. CallerOK(s)
    BY <1>2 DEF CallerOK, Types
  <2>2. caller' = [caller EXCEPT ![c] = s]
    BY <1>3 DEF AerospikeInv
  <2>. QED  BY <1>1, <1>2, <2>1, <2>2, MomentStep
<1>4. ASSUME NEW type \in {"right", "wrong"}, AnswersWith(c, type, caller[c].age, "function")
      PROVE  AerospikeInv'
  <2>. DEFINE s == [pc |-> "answered", age |-> caller[c].age, type |-> type, from |-> "function"]
  <2>1. CallerOK(s)
    BY <1>2 DEF CallerOK, Types
  <2>2. caller' = [caller EXCEPT ![c] = s]
    BY <1>4 DEF AnswersWith, Place
  <2>. QED  BY <1>1, <1>2, <2>1, <2>2, MomentStep
<1>5. CASE Raises(c)
  BY <1>1, <1>2, <1>5, RaisedFacts, MomentStep
<1>. QED  BY <1>3, <1>4, <1>5 DEF RunFunction

LEMMA PutStep == ASSUME AerospikeInv, NEW c \in Callers, Put(c)  PROVE AerospikeInv'
<1>. DEFINE own == caller[c]
            record == [type |-> own.type, age |-> own.age, left |-> Left]
            s == [pc |-> "answered", age |-> own.age, type |-> own.type, from |-> "function"]
<1>1. /\ decoration' = decoration /\ own.pc = "putting"
      /\ \/ Replace(record) /\ (caller' = [caller EXCEPT ![c] = s] \/ Raises(c))
         \/ Raises(c) /\ UNCHANGED <<stored, earlier>>
  BY DEF Put, AnswersWith, Place
<1>2. /\ CallerOK(own) /\ own.age <= MaxFetch /\ own.age \in Nat /\ own.type \in Types
      /\ decoration # NotDecorated
  BY <1>1, DecoratedFacts DEF AerospikeInv, CallerOK
<1>3. RecordOK(record) /\ CallerOK(s)
  BY <1>2, BoundFacts DEF RecordOK, CallerOK
<1>4. RecordOK(stored) /\ \A r \in earlier : EarlierOK(r)
  BY DEF AerospikeInv
<1>. HIDE DEF record, s
<1>5. CASE Replace(record) /\ caller' = [caller EXCEPT ![c] = s]
  BY <1>1, <1>2, <1>3, <1>5, ReplaceFacts, MomentStep
<1>6. CASE Raises(c) /\ (Replace(record) \/ UNCHANGED <<stored, earlier>>)
  <2>1. RecordOK(stored') /\ \A r \in earlier' : EarlierOK(r)
    BY <1>3, <1>4, <1>6, ReplaceFacts
  <2>. QED  BY <1>1, <1>2, <1>6, <2>1, RaisedFacts, MomentStep
<1>. QED  BY <1>1, <1>5, <1>6

LEMMA ReturnsStep == ASSUME AerospikeInv, NEW c \in Callers, Returns(c)  PROVE AerospikeInv'
<1>. DEFINE s == [pc |-> "idle", age |-> 0, type |-> "none", from |-> "none"]
<1>1. /\ UNCHANGED <<decoration, stored, earlier>> /\ caller' = [caller EXCEPT ![c] = s]
      /\ caller[c].pc # "idle"
  BY DEF Returns, Place
<1>2. CallerOK(s) /\ RecordOK(stored') /\ \A record \in earlier' : EarlierOK(record)
  BY <1>1 DEF CallerOK, Types, AerospikeInv
<1>. QED  BY <1>1, <1>2, DecoratedFacts, MomentStep

LEMMA OtherWritesStep == ASSUME AerospikeInv, OtherWrites  PROVE AerospikeInv'
<1>1. PICK record \in {NoRecord} \cup [type : {"right", "wrong"}, age : 0 .. MaxFetch, left : {Left}] :
        Replace(record)
  BY DEF OtherWrites
<1>2. UNCHANGED <<decoration, caller>> /\ decoration # NotDecorated
  BY DEF OtherWrites
<1>3. RecordOK(record)
  BY BoundFacts, NoRecordOK DEF RecordOK, Types
<1>. QED  BY <1>1, <1>2, <1>3, ReplaceFacts, MomentStep

(* Time stands still while a call has its answer in hand.                  *)
LEMMA ClockTicksStep == ASSUME AerospikeInv, ClockTicks  PROVE AerospikeInv'
<1>1. /\ Lifetime' = Lifetime /\ decoration' = decoration /\ decoration.ttl \in Nat
      /\ Lifetime \in Nat /\ StoreLag \in Nat /\ MaxFetch \in Nat
  BY BoundFacts DEF ClockTicks, Lifetime, AerospikeInv
<1>2. RecordOK(stored)'
  <2>1. CASE stored.left = 0
    <3>1. stored' = NoRecord
      BY <2>1 DEF ClockTicks
    <3>. QED  BY <1>1, <3>1, NoRecordOK DEF RecordOK
  <2>2. CASE stored.left # 0
    <3>1. stored' = [stored EXCEPT !.age = @ + 1, !.left = @ - 1] /\ RecordOK(stored)
      BY <2>2 DEF ClockTicks, AerospikeInv
    <3>2. stored \in [type : Types, age : Nat, left : Nat] /\ stored.left - 1 \in Nat
      BY <2>2, <3>1 DEF RecordOK
    <3>3. /\ stored'.type = stored.type /\ stored'.age = stored.age + 1
          /\ stored'.left = stored.left - 1
      BY <3>1, <3>2
    <3>4. stored.type \in Types /\ stored.age + 1 \in Nat
      BY <3>2
    <3>5. stored' = [type |-> stored.type, age |-> stored.age + 1, left |-> stored.left - 1]
      BY <3>1, <3>2
    <3>6. stored' \in [type : Types, age : Nat, left : Nat]
      BY <3>2, <3>4, <3>5
    <3>. QED  BY <1>1, <3>1, <3>2, <3>3, <3>6 DEF RecordOK
  <2>. QED  BY <2>1, <2>2
<1>3. ASSUME NEW record \in earlier'  PROVE EarlierOK(record)'
  <2>1. PICK before \in earlier \cup Leaves(stored) : record = Aged(before) /\ before.ago < StoreLag
    BY <1>3 DEF ClockTicks, Remember
  <2>2. EarlierOK(before)
    BY LeavesFacts DEF AerospikeInv
  <2>3. before \in [type : Types, age : Nat, ago : Nat]
    BY <2>2 DEF EarlierOK
  <2>4. record = [before EXCEPT !.age = @ + 1, !.ago = @ + 1]
    BY <2>1 DEF Aged
  <2>5. record.type = before.type /\ record.age = before.age + 1 /\ record.ago = before.ago + 1
    BY <2>3, <2>4
  <2>6. before.type \in Types /\ before.age + 1 \in Nat /\ before.ago + 1 \in Nat
    BY <2>3
  <2>7. record = [type |-> before.type, age |-> before.age + 1, ago |-> before.ago + 1]
    BY <2>3, <2>4
  <2>8. record \in [type : Types, age : Nat, ago : Nat]
    BY <2>6, <2>7
  <2>. QED  BY <1>1, <2>1, <2>2, <2>3, <2>5, <2>8 DEF EarlierOK
<1>4. ASSUME NEW c \in Callers  PROVE CallerOK(caller[c])'
  <2>1. CallerOK(caller[c])
    BY DEF AerospikeInv
  <2>2. CASE caller[c].pc = "idle"
    <3>1. caller'[c] = caller[c]
      BY <2>2 DEF ClockTicks
    <3>. QED  BY <1>1, <2>1, <3>1 DEF CallerOK
  <2>3. CASE caller[c].pc \in {"computing", "putting"} /\ caller[c].age < MaxFetch
    <3>1. caller'[c] = [caller[c] EXCEPT !.age = @ + 1]
      BY <2>3 DEF ClockTicks
    <3>2. /\ caller'[c] \in [pc : {"idle", "computing", "putting", "answered", "raised"}, age : Nat,
                             type : Types, from : {"none", "store", "function"}]
          /\ caller'[c].pc = caller[c].pc /\ caller'[c].age = caller[c].age + 1
      BY <2>1, <3>1 DEF CallerOK
    <3>3. caller[c].age \in Nat
      BY <2>1 DEF CallerOK
    <3>. QED  BY <1>1, <2>3, <3>2, <3>3 DEF CallerOK
  <2>. QED  BY <2>2, <2>3 DEF ClockTicks
<1>5. decoration = NotDecorated =>
        stored' = NoRecord /\ earlier' = {} /\ \A c \in Callers : caller'[c].pc = "idle"
  <2>. SUFFICES ASSUME decoration = NotDecorated
                PROVE  stored' = NoRecord /\ earlier' = {} /\ \A c \in Callers : caller'[c].pc = "idle"
    OBVIOUS
  <2>1. stored = NoRecord /\ earlier = {} /\ \A c \in Callers : caller[c].pc = "idle"
    BY DEF AerospikeInv
  <2>2. stored' = NoRecord
    BY <2>1 DEF ClockTicks, NoRecord
  <2>3. earlier' = {}
    BY <2>1 DEF ClockTicks, Remember, Leaves, NoRecord
  <2>4. \A c \in Callers : caller'[c] = caller[c]
    BY <2>1 DEF ClockTicks
  <2>. QED  BY <2>1, <2>2, <2>3, <2>4
<1>6. caller' = [c \in Callers |-> caller'[c]]
  BY DEF ClockTicks
<1>. QED  BY <1>1, <1>2, <1>3, <1>4, <1>5, <1>6 DEF AerospikeInv

(* Nothing is stored, and nobody calls, before the function is decorated.  *)
LEMMA DecorateStep == ASSUME AerospikeInv, DecorateCached  PROVE AerospikeInv'
<1>1. /\ UNCHANGED <<stored, earlier, caller>> /\ decoration'.ttl \in Nat
      /\ decoration'.writable \in {"yes", "no"}
      /\ stored = NoRecord /\ earlier = {} /\ \A c \in Callers : caller[c].pc = "idle"
  BY AerospikeAssumption DEF DecorateCached, AerospikeInv
<1>2. decoration' # NotDecorated /\ Lifetime' \in Nat
  BY <1>1, AerospikeAssumption DEF NotDecorated, Lifetime
<1>3. RecordOK(stored)'
  <2>1. NoRecord \in [type : Types, age : Nat, left : Nat] /\ NoRecord.age = 0 /\ NoRecord.left = 0
    BY DEF NoRecord, Types
  <2>2. stored' = NoRecord
    BY <1>1
  <2>3. MaxFetch \in Nat
    BY AerospikeAssumption
  <2>. QED  BY <1>2, <2>1, <2>2, <2>3 DEF RecordOK
<1>4. \A c \in Callers : CallerOK(caller[c])'
  BY <1>1 DEF AerospikeInv, CallerOK
<1>. QED  BY <1>1, <1>2, <1>3, <1>4 DEF AerospikeInv

(* A call of a decorated function returns what was computed at most a      *)
(* lifetime, the store's lag and the time of one fetch ago, with any TTLs, *)
(* callers and other users of the set.                                     *)
THEOREM AnswerBoundedTheorem == AerospikeSpec => []AnswerBounded
<1>1. AerospikeInv /\ [AerospikeNext]_aerospikeVars => AerospikeInv'
  <2>. SUFFICES ASSUME AerospikeInv, [AerospikeNext]_aerospikeVars  PROVE AerospikeInv'
    OBVIOUS
  <2>1. ASSUME NEW c \in Callers, Get(c) \/ RunFunction(c) \/ Put(c) \/ Returns(c)  PROVE AerospikeInv'
    BY <2>1, GetStep, ComputeStep, PutStep, ReturnsStep
  <2>2. CASE UNCHANGED aerospikeVars
    BY <2>2 DEF aerospikeVars, AerospikeInv, RecordOK, EarlierOK, CallerOK, Lifetime
  <2>3. CASE DecorateCached \/ OtherWrites \/ ClockTicks
    BY <2>3, DecorateStep, OtherWritesStep, ClockTicksStep
  <2>. QED  BY <2>1, <2>2, <2>3 DEF AerospikeNext
<1>2. AerospikeInv => AnswerBounded
  BY DEF AerospikeInv, AnswerBounded, CallerOK
<1>. QED  BY <1>1, <1>2, AerospikeInitInv, PTL DEF AerospikeSpec
-----------------------------------------------------------------------------
(***************************************************************************)
(* Integer: what get returns is recent.                                    *)
(***************************************************************************)
Numbers == 0 .. MaxInteger

EntryOK(entry) ==
  \/ entry = NoEntry
  \/ /\ entry \in [value : Numbers, age : 0 .. IntegerTTL + 1]
     /\ entry.age <= IntegerTTL => held[entry.value] <= entry.age + MaxTrip

ProcessOK(s) ==
  /\ s \in [pc : {"idle", "getting", "setting", "answered"}, value : Numbers \cup {Missing},
            age : 0 .. MaxTrip]
  /\ s.pc # "idle" => s.value \in Numbers
  /\ s.pc \in {"getting", "setting"} => held[s.value] <= s.age
  /\ s.pc = "answered" => held[s.value] <= IntegerTTL + MaxTrip

IntegerInv ==
  /\ number \in Numbers \cup {Missing}
  /\ held \in [Numbers -> 0 .. LongAgo]
  /\ number # Missing => held[number] = 0
  /\ local = [p \in Processes |-> local[p]] /\ \A p \in Processes : EntryOK(local[p])
  /\ process = [p \in Processes |-> process[p]] /\ \A p \in Processes : ProcessOK(process[p])

(* The invariant begins to hold.                                           *)
LEMMA IntegerInitInv == IntegerInit => IntegerInv
BY IntegerAssumption
   DEF IntegerInit, IntegerInv, Numbers, EntryOK, ProcessOK, NoEntry, Returned, Missing, LongAgo

(* A write only makes a number recent; nothing else moves a number back.   *)
LEMMA FreshKeeps ==
  ASSUME IntegerInv, held' \in [Numbers -> 0 .. LongAgo], \A n \in Numbers : held'[n] <= held[n]
  PROVE  /\ \A p \in Processes : EntryOK(local[p])' \/ local'[p] # local[p]
         /\ \A p \in Processes : ProcessOK(process[p])' \/ process'[p] # process[p]
<1>1. /\ IntegerTTL \in Nat /\ MaxTrip \in Nat
      /\ \A n \in Numbers : held[n] \in Nat /\ held'[n] \in Nat
  BY IntegerAssumption DEF IntegerInv, LongAgo
<1>2. ASSUME NEW p \in Processes, local'[p] = local[p]  PROVE EntryOK(local[p])'
  <2>1. EntryOK(local[p])
    BY DEF IntegerInv
  <2>2. CASE local[p] = NoEntry
    BY <1>2, <2>2 DEF EntryOK
  <2>3. CASE local[p] # NoEntry
    BY <1>1, <1>2, <2>1, <2>3 DEF EntryOK
  <2>. QED  BY <2>2, <2>3
<1>3. ASSUME NEW p \in Processes, process'[p] = process[p]  PROVE ProcessOK(process[p])'
  <2>1. ProcessOK(process[p])
    BY DEF IntegerInv
  <2>. QED  BY <1>1, <1>3, <2>1 DEF ProcessOK
<1>. QED  BY <1>2, <1>3

LEMMA WriteFacts ==
  ASSUME IntegerInv, NEW n \in Numbers, Write(n)
  PROVE  /\ number' = n /\ held' \in [Numbers -> 0 .. LongAgo] /\ held'[n] = 0
         /\ \A m \in Numbers : held'[m] <= held[m]
BY IntegerAssumption DEF Write, IntegerInv, LongAgo

(* What a step of one process owes.                                        *)
LEMMA ProcessStep ==
  ASSUME IntegerInv, NEW p \in Processes,
         number' \in Numbers \cup {Missing}, number' # Missing => held'[number'] = 0,
         held' \in [Numbers -> 0 .. LongAgo], \A n \in Numbers : held'[n] <= held[n],
         local' = local \/ (local' = [local EXCEPT ![p] = local'[p]] /\ EntryOK(local[p])'),
         process' = process \/ (process' = [process EXCEPT ![p] = process'[p]] /\ ProcessOK(process[p])')
  PROVE  IntegerInv'
<1>1. /\ local' = [o \in Processes |-> local'[o]]
      /\ \A o \in Processes : local'[o] = local[o] \/ EntryOK(local[o])'
  <2>1. CASE local' = local
    BY <2>1 DEF IntegerInv
  <2>2. CASE local' = [local EXCEPT ![p] = local'[p]] /\ EntryOK(local[p])'
    BY <2>2 DEF IntegerInv
  <2>. QED  BY <2>1, <2>2
<1>2. /\ process' = [o \in Processes |-> process'[o]]
      /\ \A o \in Processes : process'[o] = process[o] \/ ProcessOK(process[o])'
  <2>1. CASE process' = process
    BY <2>1 DEF IntegerInv
  <2>2. CASE process' = [process EXCEPT ![p] = process'[p]] /\ ProcessOK(process[p])'
    BY <2>2 DEF IntegerInv
  <2>. QED  BY <2>1, <2>2
<1>3. /\ \A o \in Processes : EntryOK(local[o])'
      /\ \A o \in Processes : ProcessOK(process[o])'
  BY <1>1, <1>2, FreshKeeps
<1>. QED  BY <1>1, <1>2, <1>3 DEF IntegerInv

LEMMA SetNumberStep ==
  ASSUME IntegerInv, NEW p \in Processes, SetNumber(p)  PROVE IntegerInv'
<1>1. PICK n \in Numbers : /\ Write(n) /\ UNCHANGED local
                           /\ UNCHANGED process \/ Goes(p, "setting", n)
  BY DEF SetNumber, Numbers
<1>2. /\ number' = n /\ held' \in [Numbers -> 0 .. LongAgo] /\ held'[n] = 0
      /\ \A m \in Numbers : held'[m] <= held[m]
  BY <1>1, WriteFacts
<1>3. ASSUME Goes(p, "setting", n)
      PROVE  process' = [process EXCEPT ![p] = process'[p]] /\ ProcessOK(process[p])'
  <2>1. /\ process' = [process EXCEPT ![p] = process'[p]]
        /\ process'[p] = [pc |-> "setting", value |-> n, age |-> 0]
    BY <1>3 DEF Goes, IntegerInv
  <2>. QED  BY <1>2, <2>1, IntegerAssumption DEF ProcessOK
<1>. QED  BY <1>1, <1>2, <1>3, ProcessStep

LEMMA IncrementStep ==
  ASSUME IntegerInv, NEW p \in Processes, Increment(p)  PROVE IntegerInv'
<1>1. PICK step \in 1 .. 2 :
        LET n == (IF number = Missing THEN 0 ELSE number) + step IN n <= MaxInteger /\ Write(n)
  BY DEF Increment
<1>2. PICK n \in Numbers : Write(n)
  BY <1>1, IntegerAssumption DEF Numbers, IntegerInv, Missing
<1>. QED  BY <1>2, WriteFacts, ProcessStep DEF Increment

LEMMA GetNumberStep ==
  ASSUME IntegerInv, NEW p \in Processes, GetNumber(p)  PROVE IntegerInv'
<1>. DEFINE entry == Swept(local[p])
<1>1. /\ UNCHANGED <<number, held>> /\ local' = [local EXCEPT ![p] = entry]
      /\ \/ entry.value # Missing /\ Goes(p, "answered", entry.value)
         \/ number # Missing /\ Goes(p, "getting", number)
         \/ UNCHANGED process
  BY DEF GetNumber
<1>2. /\ IntegerTTL \in Nat /\ MaxTrip \in Nat /\ held \in [Numbers -> 0 .. LongAgo]
      /\ LongAgo \in Nat /\ \A n \in Numbers : held[n] \in Nat /\ held'[n] <= held[n]
      /\ EntryOK(local[p])
  BY <1>1, IntegerAssumption DEF IntegerInv, LongAgo
<1>3. /\ EntryOK(entry)
      /\ entry.value # Missing => entry.value \in Numbers /\ held[entry.value] <= IntegerTTL + MaxTrip
  BY <1>2 DEF EntryOK, Swept, NoEntry
<1>4. local' = [local EXCEPT ![p] = local'[p]] /\ EntryOK(local[p])'
  BY <1>1, <1>3 DEF IntegerInv, EntryOK
<1> HIDE DEF entry
<1>5. ASSUME NEW pc, NEW n, Goes(p, pc, n)
      PROVE  /\ process' = [process EXCEPT ![p] = process'[p]]
             /\ process'[p] = [pc |-> pc, value |-> n, age |-> 0]
  BY <1>5 DEF Goes, IntegerInv
<1>6. CASE entry.value # Missing /\ Goes(p, "answered", entry.value)
  <2>1. process'[p] = [pc |-> "answered", value |-> entry.value, age |-> 0]
    BY <1>5, <1>6
  <2>2. ProcessOK(process[p])'
    BY <1>1, <1>2, <1>3, <1>6, <2>1 DEF ProcessOK
  <2>. QED  BY <1>1, <1>2, <1>4, <1>5, <1>6, <2>2, ProcessStep DEF IntegerInv
<1>7. CASE number # Missing /\ Goes(p, "getting", number)
  <2>1. number \in Numbers /\ held[number] = 0
    BY <1>7 DEF IntegerInv
  <2>2. process'[p] = [pc |-> "getting", value |-> number, age |-> 0]
    BY <1>5, <1>7
  <2>3. ProcessOK(process[p])'
    BY <1>1, <1>2, <2>1, <2>2 DEF ProcessOK
  <2>. QED  BY <1>1, <1>2, <1>4, <1>5, <1>7, <2>3, ProcessStep DEF IntegerInv
<1>8. CASE UNCHANGED process
  BY <1>1, <1>2, <1>4, <1>8, ProcessStep DEF IntegerInv
<1>. QED  BY <1>1, <1>6, <1>7, <1>8

LEMMA StoreLocalStep ==
  ASSUME IntegerInv, NEW p \in Processes, StoreLocal(p)  PROVE IntegerInv'
<1>. DEFINE s == process[p]
<1>1. /\ UNCHANGED <<number, held>> /\ s.pc \in {"getting", "setting"}
      /\ local' = [local EXCEPT ![p] = [value |-> s.value, age |-> 0]]
      /\ \/ process' = [process EXCEPT ![p] = [pc |-> "answered", value |-> s.value, age |-> 0]]
         \/ process' = [process EXCEPT ![p] = Returned]
  BY DEF StoreLocal, Goes
<1>2. /\ IntegerTTL \in Nat /\ MaxTrip \in Nat /\ held \in [Numbers -> 0 .. LongAgo]
      /\ \A n \in Numbers : held[n] \in Nat /\ held'[n] <= held[n]
      /\ ProcessOK(s)
  BY <1>1, IntegerAssumption DEF IntegerInv, LongAgo
<1>3. s.value \in Numbers /\ held[s.value] <= MaxTrip
  BY <1>1, <1>2 DEF ProcessOK
<1>4. /\ local' = [local EXCEPT ![p] = local'[p]]
      /\ local'[p] = [value |-> s.value, age |-> 0]
  BY <1>1 DEF IntegerInv
<1>5. EntryOK(local[p])'
  BY <1>1, <1>2, <1>3, <1>4 DEF EntryOK
<1>6. process' = [process EXCEPT ![p] = process'[p]]
  BY <1>1 DEF IntegerInv
<1>7. process'[p] \in {[pc |-> "answered", value |-> s.value, age |-> 0], Returned}
  BY <1>1 DEF IntegerInv
<1>8. ProcessOK(process[p])'
  BY <1>1, <1>2, <1>3, <1>7 DEF ProcessOK, Returned
<1>. QED  BY <1>1, <1>2, <1>4, <1>5, <1>6, <1>8, ProcessStep DEF IntegerInv

LEMMA EndGetStep ==
  ASSUME IntegerInv, NEW p \in Processes, EndGet(p)  PROVE IntegerInv'
<1>1. /\ UNCHANGED <<number, local, held>> /\ process' = [process EXCEPT ![p] = Returned]
  BY DEF EndGet
<1>2. process' = [process EXCEPT ![p] = process'[p]] /\ process'[p] = Returned
  BY <1>1 DEF IntegerInv
<1>3. ProcessOK(process[p])'
  BY <1>2, IntegerAssumption DEF ProcessOK, Returned
<1>4. \A n \in Numbers : held'[n] <= held[n]
  BY <1>1, IntegerAssumption DEF IntegerInv, LongAgo
<1>. QED  BY <1>1, <1>2, <1>3, <1>4, ProcessStep DEF IntegerInv

LEMMA TimePassesStep ==
  ASSUME IntegerInv, TimePasses  PROVE IntegerInv'
<1>1. /\ IntegerTTL \in Nat /\ MaxTrip \in Nat /\ LongAgo = IntegerTTL + MaxTrip + 1
      /\ UNCHANGED number /\ \A n \in Numbers : held[n] \in 0 .. LongAgo
  BY IntegerAssumption DEF IntegerInv, LongAgo, TimePasses
<1>2. /\ held' = [n \in Numbers |-> IF n = number THEN 0 ELSE Older(held[n], LongAgo)]
      /\ \A n \in Numbers : held'[n] \in 0 .. LongAgo /\ held'[n] <= held[n] + 1
  BY <1>1 DEF TimePasses, Older, Numbers
<1>3. ASSUME NEW p \in Processes  PROVE EntryOK(local[p])'
  <2>1. EntryOK(local[p])
    BY DEF IntegerInv
  <2>2. CASE local[p] = NoEntry
    BY <2>2 DEF TimePasses, EntryOK
  <2>3. CASE local[p] # NoEntry
    <3>1. /\ local[p].value \in Numbers /\ local[p].age \in 0 .. IntegerTTL + 1
          /\ local'[p] = [local[p] EXCEPT !.age = Older(local[p].age, IntegerTTL + 1)]
          /\ local[p] \in [value : Numbers, age : 0 .. IntegerTTL + 1]
      BY <2>1, <2>3 DEF TimePasses, EntryOK
    <3>2. /\ local'[p] \in [value : Numbers, age : 0 .. IntegerTTL + 1]
          /\ local'[p].value = local[p].value
          /\ local'[p].age = Older(local[p].age, IntegerTTL + 1)
      BY <1>1, <3>1 DEF Older
    <3>3. held[local[p].value] \in Nat /\ held'[local[p].value] \in Nat
      BY <1>1, <1>2, <3>1
    <3>. QED  BY <1>1, <1>2, <2>1, <2>3, <3>1, <3>2, <3>3 DEF EntryOK, Older
  <2>. QED  BY <2>2, <2>3
<1>4. ASSUME NEW p \in Processes  PROVE ProcessOK(process[p])'
  <2>1. ProcessOK(process[p])
    BY DEF IntegerInv
  <2>2. CASE process[p].pc = "idle"
    BY <1>1, <2>2 DEF TimePasses, ProcessOK, Returned
  <2>3. CASE process[p].pc \in {"getting", "setting"} /\ process[p].age < MaxTrip
    <3>1. process'[p] = [process[p] EXCEPT !.age = process[p].age + 1]
      BY <2>3 DEF TimePasses
    <3>2. /\ process'[p].pc = process[p].pc /\ process'[p].value = process[p].value
          /\ process'[p].age = process[p].age + 1 /\ process[p].value \in Numbers
          /\ process'[p] \in [pc : {"idle", "getting", "setting", "answered"},
                              value : Numbers \cup {Missing}, age : 0 .. MaxTrip]
      BY <1>1, <2>1, <2>3, <3>1 DEF ProcessOK
    <3>. QED  BY <1>1, <1>2, <2>1, <2>3, <3>2 DEF ProcessOK
  <2>. QED  BY <2>2, <2>3 DEF TimePasses
<1>5. number' # Missing => held'[number'] = 0
  BY <1>1, <1>2 DEF IntegerInv
<1>6. local' = [p \in Processes |-> local'[p]] /\ process' = [p \in Processes |-> process'[p]]
  BY DEF TimePasses
<1>. QED  BY <1>1, <1>2, <1>3, <1>4, <1>5, <1>6 DEF IntegerInv

LEMMA NumberExpiresStep == ASSUME IntegerInv, NumberExpires  PROVE IntegerInv'
BY DEF NumberExpires, IntegerInv, EntryOK, ProcessOK

(* An Integer never returns a number that it has not had for the local TTL *)
(* and one trip to the store, with any number of processes.                *)
THEOREM GetIsRecentTheorem == IntegerSpec => []GetIsRecent
<1>1. IntegerInv /\ [IntegerNext]_integerVars => IntegerInv'
  <2>. SUFFICES ASSUME IntegerInv, [IntegerNext]_integerVars  PROVE IntegerInv'
    OBVIOUS
  <2>1. CASE UNCHANGED integerVars
    BY <2>1 DEF integerVars, IntegerInv, EntryOK, ProcessOK
  <2>. QED  BY <2>1, SetNumberStep, GetNumberStep, StoreLocalStep, IncrementStep, EndGetStep,
               TimePassesStep, NumberExpiresStep DEF IntegerNext
<1>2. IntegerInv => GetIsRecent
  <2>. SUFFICES ASSUME IntegerInv, NEW p \in Processes, process[p].pc = "answered"
                PROVE  held[process[p].value] < LongAgo
    BY DEF GetIsRecent
  <2>1. process[p].value \in Numbers /\ held[process[p].value] <= IntegerTTL + MaxTrip
    BY DEF IntegerInv, ProcessOK
  <2>2. held[process[p].value] \in 0 .. LongAgo
    BY <2>1 DEF IntegerInv
  <2>. QED  BY <2>1, <2>2, IntegerAssumption DEF LongAgo
<1>. QED  BY <1>1, <1>2, IntegerInitInv, PTL DEF IntegerSpec
-----------------------------------------------------------------------------
(***************************************************************************)
(* SplitMessage: the messages are the text.                                *)
(***************************************************************************)
(* Parts of a sequence, and parts of what is behind its first elements.    *)
LEMMA PartFacts ==
  ASSUME NEW S, NEW s \in Seq(S), NEW a \in Nat \ {0}, NEW z \in 0 .. Len(s)
  PROVE  /\ SubSeq(s, a, z) \in Seq(S)
         /\ Len(SubSeq(s, a, z)) = IF a <= z THEN z - a + 1 ELSE 0
         /\ \A i \in 1 .. Len(SubSeq(s, a, z)) : SubSeq(s, a, z)[i] = s[a + i - 1]
<1>1. /\ Len(s) \in Nat /\ a \in Int /\ z \in Int
      /\ \A i \in a .. z : i \in 1 .. Len(s)
  BY LenProperties
<1>2. \A i \in a .. z : s[i] \in S
  BY <1>1, ElementOfSeq
<1>3. /\ SubSeq(s, a, z) \in Seq(S)
      /\ Len(SubSeq(s, a, z)) = IF a <= z THEN z - a + 1 ELSE 0
      /\ \A i \in 1 .. z - a + 1 : SubSeq(s, a, z)[i] = s[a + i - 1]
  BY <1>1, <1>2, SubSeqProperties
<1>4. \A i \in 1 .. Len(SubSeq(s, a, z)) : i \in 1 .. z - a + 1
  BY <1>1, <1>3
<1>. QED  BY <1>3, <1>4

LEMMA PartOfRest ==
  ASSUME NEW S, NEW s \in Seq(S), NEW b \in 1 .. Len(s) + 1, NEW t, t = SubSeq(s, b, Len(s)),
         NEW i \in Nat \ {0}, NEW j \in 0 .. Len(t)
  PROVE  SubSeq(t, i, j) = SubSeq(s, b + i - 1, b + j - 1)
<1>1. Len(s) \in Nat /\ b \in Nat \ {0}
  BY LenProperties
<1>2. /\ t \in Seq(S) /\ Len(t) = Len(s) - b + 1
      /\ \A n \in 1 .. Len(t) : t[n] = s[b + n - 1]
  <2>1. Len(s) \in 0 .. Len(s)
    BY <1>1
  <2>. QED  BY <1>1, <2>1, PartFacts
<1>3. b + i - 1 \in Nat \ {0} /\ b + j - 1 \in 0 .. Len(s)
  BY <1>1, <1>2
<1>4. /\ SubSeq(t, i, j) \in Seq(S)
      /\ Len(SubSeq(t, i, j)) = IF i <= j THEN j - i + 1 ELSE 0
      /\ \A n \in 1 .. Len(SubSeq(t, i, j)) : SubSeq(t, i, j)[n] = t[i + n - 1]
  BY <1>2, PartFacts
<1>5. /\ SubSeq(s, b + i - 1, b + j - 1) \in Seq(S)
      /\ Len(SubSeq(s, b + i - 1, b + j - 1)) = IF i <= j THEN j - i + 1 ELSE 0
      /\ \A n \in 1 .. Len(SubSeq(s, b + i - 1, b + j - 1)) :
            SubSeq(s, b + i - 1, b + j - 1)[n] = s[b + i - 1 + n - 1]
  <2>1. /\ SubSeq(s, b + i - 1, b + j - 1) \in Seq(S)
        /\ Len(SubSeq(s, b + i - 1, b + j - 1))
             = IF b + i - 1 <= b + j - 1 THEN (b + j - 1) - (b + i - 1) + 1 ELSE 0
        /\ \A n \in 1 .. Len(SubSeq(s, b + i - 1, b + j - 1)) :
              SubSeq(s, b + i - 1, b + j - 1)[n] = s[b + i - 1 + n - 1]
    BY <1>3, PartFacts
  <2>2. (b + i - 1 <= b + j - 1 <=> i <= j) /\ (b + j - 1) - (b + i - 1) + 1 = j - i + 1
    BY <1>1, <1>2
  <2>. QED  BY <2>1, <2>2
<1>6. ASSUME NEW n \in 1 .. Len(SubSeq(t, i, j))
      PROVE  SubSeq(t, i, j)[n] = SubSeq(s, b + i - 1, b + j - 1)[n]
  <2>1. i <= j /\ n \in 1 .. j - i + 1
    BY <1>4, <1>1, <1>2
  <2>2. i + n - 1 \in 1 .. Len(t) /\ b + (i + n - 1) - 1 = b + i - 1 + n - 1
    BY <1>1, <1>2, <2>1
  <2>3. t[i + n - 1] = s[b + (i + n - 1) - 1]
    BY <1>2, <2>2
  <2>4. SubSeq(t, i, j)[n] = t[i + n - 1]
    BY <1>4
  <2>5. SubSeq(s, b + i - 1, b + j - 1)[n] = s[b + i - 1 + n - 1]
    BY <1>4, <1>5
  <2>. QED  BY <2>2, <2>3, <2>4, <2>5, Zenon
<1>7. Len(SubSeq(t, i, j)) = Len(SubSeq(s, b + i - 1, b + j - 1))
  BY <1>4, <1>5, Zenon
<1>. QED  BY <1>4, <1>5, <1>6, <1>7, SeqEqual, Zenon

Chars == Range(TextBreaks) \cup {"letter"}

(* The place of a break in the first TextLimit characters, counted from 0, *)
(* or 0 if there is none behind the first one.                             *)
LEMMA LastPlaceFacts ==
  ASSUME NEW c
  PROVE  /\ LastPlace(c) \in 0 .. TextLimit - 1
         /\ LastPlace(c) > 0 => text[LastPlace(c) + 1] = c
         /\ \A j \in 2 .. TextLimit : text[j] = c => 0 < LastPlace(c) /\ j <= LastPlace(c) + 1
<1>. DEFINE S == {i - 1 : i \in {j \in 1 .. TextLimit : text[j] = c}} \cup {0}
<1>1. TextLimit \in Nat \ {0} /\ TextLimit - 1 \in Nat
  BY SplitAssumption
<1>2. S \in SUBSET (0 .. TextLimit - 1) /\ S # {}
  BY <1>1
<1>3. Max(S) \in S /\ \A y \in S : y <= Max(S)
  BY <1>1, <1>2, GreatestFacts
<1>4. LastPlace(c) = Max(S)
  BY DEF LastPlace
<1>5. ASSUME NEW y \in S, y > 0  PROVE text[y + 1] = c
  BY <1>1, <1>5
<1>6. ASSUME NEW j \in 2 .. TextLimit, text[j] = c  PROVE j - 1 \in S
  BY <1>6
<1>. HIDE DEF S
<1>7. \A j \in 2 .. TextLimit : text[j] = c => 0 < LastPlace(c) /\ j <= LastPlace(c) + 1
  <2>1. ASSUME NEW j \in 2 .. TextLimit, text[j] = c  PROVE 0 < LastPlace(c) /\ j <= LastPlace(c) + 1
    <3>1. j - 1 <= LastPlace(c)
      BY <1>3, <1>4, <1>6, <2>1
    <3>2. LastPlace(c) \in 0 .. TextLimit - 1
      BY <1>2, <1>3, <1>4
    <3>. QED  BY <1>1, <3>1, <3>2
  <2>. QED  BY <2>1
<1>. QED  BY <1>1, <1>2, <1>3, <1>4, <1>5, <1>7

(* SplitFaithful by itself is nearly inductive: the last message is cut    *)
(* like the others while there is text behind it.                          *)
MessageOK(i) ==
  /\ messages[i] = Message(i)
  /\ Dropped(i) \in {<<>>} \cup {<<TextBreaks[k]>> : k \in DOMAIN TextBreaks}
  /\ original # <<>> => Len(messages[i]) \in 1 .. TextLimit

CutOK(i) ==
  \A j \in 2 .. Len(messages[i]) : \A k \in DOMAIN TextBreaks :
    messages[i][j] = TextBreaks[k] => \E better \in 1 .. k : Dropped(i) = <<TextBreaks[better]>>

SplitInv ==
  /\ splitting \in {"idle", "cutting", "split"}
  /\ original \in Seq(Chars) /\ text \in Seq(Chars) /\ messages \in Seq(Seq(Chars))
  /\ begins \in Seq(Nat \ {0}) /\ Len(begins) = Len(messages) + 1 /\ begins[1] = 1
  /\ splitting = "idle" => original = <<>> /\ text = <<>> /\ messages = <<>>
  /\ splitting # "split" => original = <<>> \/ text # <<>>
  /\ Len(text) + begins[Len(messages) + 1] = Len(original) + 1
  /\ text = SubSeq(original, begins[Len(messages) + 1], Len(original))
  /\ \A i \in DOMAIN messages : MessageOK(i)
  /\ \A i \in 1 .. Len(messages) - (IF splitting = "split" THEN 1 ELSE 0) : CutOK(i)

(* The invariant begins to hold, and when a text is taken.                 *)
LEMMA SplitInitInv == SplitInit => SplitInv
<1>. SUFFICES ASSUME SplitInit  PROVE SplitInv
  OBVIOUS
<1>1. /\ original = <<>> /\ text = <<>> /\ messages = <<>> /\ begins = <<1>> /\ splitting = "idle"
  BY DEF SplitInit
<1>2. begins \in Seq(Nat \ {0}) /\ Len(begins) = 1 /\ begins[1] = 1
  BY <1>1
<1>3. /\ <<>> \in Seq(Chars) /\ <<>> \in Seq(Seq(Chars)) /\ Len(<<>>) = 0 /\ DOMAIN <<>> = {}
      /\ SubSeq(<<>>, 1, 0) = <<>>
  OBVIOUS
<1>. QED  BY <1>1, <1>2, <1>3 DEF SplitInv

LEMMA TakeTextStep == ASSUME SplitInv, SplitMessage  PROVE SplitInv'
<1>1. /\ splitting = "idle" /\ splitting' = "cutting" /\ messages' = <<>> /\ begins' = begins
      /\ text' = original' /\ messages = <<>> /\ Len(messages) = 0 /\ Len(messages') = 0
  BY DEF SplitMessage, SplitInv
<1>2. original' \in Seq(Chars)
  <2>1. PICK n \in 0 .. MaxText : original' \in [1 .. n -> Chars]
    BY DEF SplitMessage, Chars, BoundedSeq, SeqOf
  <2>2. n \in Nat
    BY <2>1, SplitAssumption
  <2>. QED  BY <2>1, <2>2
<1>3. SubSeq(original', 1, Len(original')) = original' /\ Len(original') \in Nat
  BY <1>2
<1>4. begins \in Seq(Nat \ {0}) /\ Len(begins) = 1 /\ begins[1] = 1
  BY <1>1 DEF SplitInv
<1>. QED  BY <1>1, <1>2, <1>3, <1>4 DEF SplitInv

LEMMA OneElement == ASSUME NEW S, NEW s \in Seq(S), Len(s) = 1  PROVE s = <<s[1]>>
OBVIOUS

(* What a message, the break behind it and the new rest are of the text.   *)
CutParts(S, s, b, t, n, m) ==
  /\ SubSeq(t, n + m + 1, Len(t)) \in Seq(S)
  /\ Len(SubSeq(t, n + m + 1, Len(t))) = Len(t) - n - m
  /\ SubSeq(t, n + m + 1, Len(t)) = SubSeq(s, b + n + m, Len(s))
  /\ Len(s) = b + Len(t) - 1
  /\ SubSeq(t, 1, n) \in Seq(S) /\ Len(SubSeq(t, 1, n)) = n
  /\ \A j \in 1 .. n : SubSeq(t, 1, n)[j] = t[j]
  /\ SubSeq(t, 1, n) = SubSeq(s, b, b + n - 1)
  /\ SubSeq(t, n + 1, n + m) = SubSeq(s, b + n, b + n + m - 1)
  /\ SubSeq(t, n + 1, n + m) = IF m = 0 THEN <<>> ELSE <<t[n + 1]>>

LEMMA CutSequences ==
  ASSUME NEW S, NEW s \in Seq(S), NEW b \in 1 .. Len(s) + 1, NEW t, t = SubSeq(s, b, Len(s)),
         NEW n \in Nat, NEW m \in {0, 1}, n + m <= Len(t)
  PROVE  CutParts(S, s, b, t, n, m)
<1>1. Len(s) \in Nat /\ Len(s) \in 0 .. Len(s) /\ b \in Nat \ {0} /\ m \in Nat
  BY LenProperties
<1>2. t \in Seq(S) /\ Len(t) \in Nat /\ Len(s) = b + Len(t) - 1
  <2>1. t \in Seq(S) /\ Len(t) = IF b <= Len(s) THEN Len(s) - b + 1 ELSE 0
    BY <1>1, PartFacts
  <2>. QED  BY <1>1, <2>1
<1>3. n + m + 1 \in Nat \ {0} /\ Len(t) \in 0 .. Len(t) /\ n \in 0 .. Len(t) /\ n + 1 \in Nat \ {0}
      /\ n + m \in 0 .. Len(t) /\ 1 \in Nat \ {0}
  BY <1>1, <1>2
<1>4. SubSeq(t, n + m + 1, Len(t)) \in Seq(S) /\ Len(SubSeq(t, n + m + 1, Len(t))) = Len(t) - n - m
  <2>1. /\ SubSeq(t, n + m + 1, Len(t)) \in Seq(S)
        /\ Len(SubSeq(t, n + m + 1, Len(t))) = IF n + m + 1 <= Len(t) THEN Len(t) - (n + m + 1) + 1 ELSE 0
    BY <1>2, <1>3, PartFacts
  <2>. QED  BY <1>1, <1>2, <2>1
<1>5. SubSeq(t, n + m + 1, Len(t)) = SubSeq(s, b + n + m, Len(s))
  <2>1. SubSeq(t, n + m + 1, Len(t)) = SubSeq(s, b + (n + m + 1) - 1, b + Len(t) - 1)
    BY <1>3, PartOfRest
  <2>2. b + (n + m + 1) - 1 = b + n + m
    BY <1>1
  <2>. QED  BY <1>2, <2>1, <2>2
<1>6. /\ SubSeq(t, 1, n) \in Seq(S) /\ Len(SubSeq(t, 1, n)) = n
      /\ \A j \in 1 .. n : SubSeq(t, 1, n)[j] = t[j]
  <2>1. /\ SubSeq(t, 1, n) \in Seq(S) /\ Len(SubSeq(t, 1, n)) = IF 1 <= n THEN n - 1 + 1 ELSE 0
        /\ \A j \in 1 .. Len(SubSeq(t, 1, n)) : SubSeq(t, 1, n)[j] = t[1 + j - 1]
    BY <1>2, <1>3, PartFacts
  <2>2. Len(SubSeq(t, 1, n)) = n
    BY <2>1
  <2>3. \A j \in 1 .. n : 1 + j - 1 = j
    OBVIOUS
  <2>. QED  BY <2>1, <2>2, <2>3
<1>7. SubSeq(t, 1, n) = SubSeq(s, b, b + n - 1)
  <2>1. SubSeq(t, 1, n) = SubSeq(s, b + 1 - 1, b + n - 1)
    BY <1>3, PartOfRest
  <2>2. b + 1 - 1 = b
    BY <1>1
  <2>. QED  BY <2>1, <2>2
<1>8. SubSeq(t, n + 1, n + m) = SubSeq(s, b + n, b + n + m - 1)
  <2>1. SubSeq(t, n + 1, n + m) = SubSeq(s, b + (n + 1) - 1, b + (n + m) - 1)
    BY <1>3, PartOfRest
  <2>2. b + (n + 1) - 1 = b + n /\ b + (n + m) - 1 = b + n + m - 1
    BY <1>1
  <2>. QED  BY <2>1, <2>2
<1>9. SubSeq(t, n + 1, n + m) = IF m = 0 THEN <<>> ELSE <<t[n + 1]>>
  <2>1. CASE m = 0
    <3>1. n + 1 \in Int /\ n + m \in Int /\ n + m < n + 1
      BY <2>1
    <3>2. SubSeq(t, n + 1, n + m) = <<>>
      BY <3>1, SubSeqEmpty
    <3>. QED  BY <2>1, <3>2
  <2>2. CASE m = 1
    <3>1. n + 1 \in 1 .. Len(t)
      BY <1>2, <2>2
    <3>2. t[n + 1] \in S
      BY <1>2, <3>1, ElementOfSeq
    <3>3. /\ SubSeq(t, n + 1, n + m) \in Seq(S)
          /\ Len(SubSeq(t, n + 1, n + m)) = IF n + 1 <= n + m THEN n + m - (n + 1) + 1 ELSE 0
          /\ \A j \in 1 .. Len(SubSeq(t, n + 1, n + m)) : SubSeq(t, n + 1, n + m)[j] = t[n + 1 + j - 1]
      BY <1>2, <1>3, PartFacts
    <3>4. Len(SubSeq(t, n + 1, n + m)) = 1
      BY <2>2, <3>3
    <3>5. SubSeq(t, n + 1, n + m)[1] = t[n + 1]
      BY <3>3, <3>4
    <3>6. SubSeq(t, n + 1, n + m) = <<SubSeq(t, n + 1, n + m)[1]>>
      BY <3>3, <3>4, OneElement
    <3>. QED  BY <2>2, <3>5, <3>6
  <2>. QED  BY <2>1, <2>2
<1>. QED  BY <1>2, <1>4, <1>5, <1>6, <1>7, <1>8, <1>9 DEF CutParts

(* A message is taken off the front of what is left, and perhaps a break.  *)
CutOff(last, b, n, m) ==
  /\ last = Len(messages) + 1 /\ b = begins[last]
  /\ m \in {0, 1} /\ n + m <= Len(text)
  /\ original # <<>> => n \in 1 .. TextLimit
  /\ m = 1 => \E k \in DOMAIN TextBreaks : text[n + 1] = TextBreaks[k]
  /\ messages' = Append(messages, SubSeq(text, 1, n))
  /\ text' = SubSeq(text, n + m + 1, Len(text)) /\ RestBegins(text')
  /\ original' = original

AfterCut(last, n, m) ==
  /\ text' \in Seq(Chars) /\ messages' \in Seq(Seq(Chars))
  /\ begins' \in Seq(Nat \ {0})
  /\ Len(begins') = Len(messages') + 1 /\ begins'[1] = 1 /\ Len(messages') = last
  /\ Len(text') = Len(text) - n - m
  /\ Len(text') + begins'[last + 1] = Len(original) + 1
  /\ text' = SubSeq(original, begins'[last + 1], Len(original))
  /\ \A i \in DOMAIN messages' : MessageOK(i)'
  /\ splitting # "split" => \A i \in 1 .. Len(messages) : CutOK(i)'
  /\ Len(messages'[last]) = n /\ \A j \in 1 .. n : messages'[last][j] = text[j]
  /\ Dropped(last)' = IF m = 0 THEN <<>> ELSE <<text[n + 1]>>

LEMMA CutLemma ==
  ASSUME SplitInv, NEW last \in Nat, NEW b \in Nat, NEW n \in Nat, NEW m \in {0, 1}, CutOff(last, b, n, m)
  PROVE  AfterCut(last, n, m)
<1>1. /\ original \in Seq(Chars) /\ text \in Seq(Chars) /\ messages \in Seq(Seq(Chars))
      /\ begins \in Seq(Nat \ {0}) /\ Len(begins) = last /\ begins[1] = 1
      /\ Len(text) + b = Len(original) + 1 /\ text = SubSeq(original, b, Len(original))
  BY DEF SplitInv, CutOff
<1>2. last = Len(messages) + 1 /\ b = begins[last] /\ n + m <= Len(text)
  BY DEF CutOff
<1>3. /\ messages' = Append(messages, SubSeq(text, 1, n)) /\ text' = SubSeq(text, n + m + 1, Len(text))
      /\ begins' = Append(begins, Len(original) - Len(text') + 1) /\ original' = original
  BY DEF CutOff, RestBegins
<1>4. Len(text) \in Nat /\ Len(original) \in Nat /\ Len(messages) \in Nat
  BY <1>1, LenProperties
<1>5. b > 0 /\ b \in 1 .. Len(original) + 1
  <2>1. last \in 1 .. Len(begins)
    BY <1>1, <1>2, <1>4
  <2>2. b \in Nat \ {0}
    BY <1>1, <1>2, <2>1, ElementOfSeq
  <2>3. Len(text) + b = Len(original) + 1
    BY <1>1
  <2>. QED  BY <1>4, <2>2, <2>3
<1>6. /\ text' \in Seq(Chars) /\ Len(text') = Len(text) - n - m
      /\ text' = SubSeq(original, b + n + m, Len(original)) /\ Len(original) = b + Len(text) - 1
      /\ SubSeq(text, 1, n) \in Seq(Chars) /\ Len(SubSeq(text, 1, n)) = n
      /\ SubSeq(text, 1, n) = SubSeq(original, b, b + n - 1)
      /\ SubSeq(text, n + 1, n + m) = SubSeq(original, b + n, b + n + m - 1)
      /\ SubSeq(text, n + 1, n + m) = IF m = 0 THEN <<>> ELSE <<text[n + 1]>>
      /\ \A j \in 1 .. n : SubSeq(text, 1, n)[j] = text[j]
  <2>1. original \in Seq(Chars) /\ text = SubSeq(original, b, Len(original))
    BY <1>1
  <2>2. CutParts(Chars, original, b, text, n, m)
    BY <1>2, <1>5, <2>1, CutSequences, Zenon
  <2>. QED  BY <1>3, <2>2, Zenon DEF CutParts
<1>7. begins' = Append(begins, b + n + m) /\ b + n + m \in Nat \ {0}
  <2>1. Len(text') = Len(text) - n - m /\ Len(original) = b + Len(text) - 1
    BY <1>6
  <2>2. Len(original) - Len(text') + 1 = b + n + m /\ b + n + m \in Nat \ {0}
    BY <1>4, <1>5, <2>1
  <2>. QED  BY <1>3, <2>2
<1>8. /\ begins' \in Seq(Nat \ {0}) /\ Len(begins') = last + 1 /\ begins'[last + 1] = b + n + m
      /\ \A i \in 1 .. last : begins'[i] = begins[i]
  <2>1. begins \in Seq(Nat \ {0}) /\ Len(begins) = last
    BY <1>1
  <2>. QED  BY <1>7, <2>1, AppendProperties
<1>9. /\ messages' \in Seq(Seq(Chars)) /\ Len(messages') = last /\ messages'[last] = SubSeq(text, 1, n)
      /\ \A i \in 1 .. Len(messages) : messages'[i] = messages[i]
  <2>1. messages \in Seq(Seq(Chars)) /\ SubSeq(text, 1, n) \in Seq(Chars) /\ last = Len(messages) + 1
        /\ messages' = Append(messages, SubSeq(text, 1, n))
    BY <1>1, <1>2, <1>3, <1>6
  <2>. QED  BY <2>1, AppendProperties
<1>10. Message(last)' = SubSeq(text, 1, n) /\ Dropped(last)' = SubSeq(text, n + 1, n + m)
  <2>1. last \in 1 .. last
    BY <1>2, <1>4
  <2>2. begins'[last] = b
    BY <1>2, <1>8, <2>1
  <2>3. Len(messages'[last]) = n
    BY <1>6, <1>9
  <2>4. Message(last)' = SubSeq(original, b, b + n - 1)
    BY <1>3, <2>2, <2>3 DEF Message
  <2>5. Dropped(last)' = SubSeq(original, b + n, b + n + m - 1)
    <3>1. begins'[last + 1] = b + n + m /\ original' = original
      BY <1>3, <1>8
    <3>2. Dropped(last)' = SubSeq(original', begins'[last] + Len(messages'[last]), begins'[last + 1] - 1)
      BY DEF Dropped
    <3>3. begins'[last] + Len(messages'[last]) = b + n
      BY <2>2, <2>3
    <3>4. begins'[last + 1] - 1 = b + n + m - 1
      BY <3>1
    <3>. QED  BY <3>1, <3>2, <3>3, <3>4
  <2>. QED  BY <1>6, <2>4, <2>5, Zenon
<1>11. Dropped(last)' \in {<<>>} \cup {<<TextBreaks[k]>> : k \in DOMAIN TextBreaks}
  <2>1. CASE m = 0
    BY <1>6, <1>10, <2>1
  <2>2. CASE m = 1
    <3>1. PICK k \in DOMAIN TextBreaks : text[n + 1] = TextBreaks[k]
      BY <2>2 DEF CutOff
    <3>2. Dropped(last)' = <<TextBreaks[k]>>
      BY <1>6, <1>10, <2>2, <3>1
    <3>. QED  BY <3>2
  <2>. QED  BY <2>1, <2>2
<1>12. MessageOK(last)'
  <2>1. messages'[last] = Message(last)'
    BY <1>9, <1>10
  <2>2. Len(messages'[last]) = n
    BY <1>6, <1>9
  <2>3. original' # <<>> => Len(messages'[last]) \in 1 .. TextLimit
    BY <2>2 DEF CutOff
  <2>. QED  BY <1>11, <2>1, <2>3 DEF MessageOK
<1>13. ASSUME NEW i \in 1 .. Len(messages)
       PROVE  /\ messages'[i] = messages[i] /\ Message(i)' = Message(i) /\ Dropped(i)' = Dropped(i)
              /\ MessageOK(i) /\ (splitting # "split" => CutOK(i))
  <2>1. i \in 1 .. last /\ i + 1 \in 1 .. last
    BY <1>2, <1>4
  <2>2. i \in DOMAIN messages
    BY <1>1
  <2>3. messages'[i] = messages[i]
    BY <1>9
  <2>4. begins'[i] = begins[i] /\ begins'[i + 1] = begins[i + 1]
    BY <1>8, <2>1
  <2>5. MessageOK(i)
    BY <2>2 DEF SplitInv
  <2>6. ASSUME splitting # "split"  PROVE CutOK(i)
    <3>1. \A j \in 1 .. Len(messages) - 0 : CutOK(j)
      BY <2>6 DEF SplitInv
    <3>. QED  BY <1>4, <3>1
  <2>7. Message(i)' = Message(i)
    BY <1>3, <2>3, <2>4, Zenon DEF Message
  <2>8. Dropped(i)' = Dropped(i)
    BY <1>3, <2>3, <2>4, Zenon DEF Dropped
  <2>. QED  BY <2>3, <2>5, <2>6, <2>7, <2>8
<1>14. ASSUME NEW i \in DOMAIN messages'  PROVE MessageOK(i)'
  <2>1. i \in 1 .. last
    BY <1>9
  <2>2. i = last \/ i \in 1 .. Len(messages)
    BY <1>2, <1>4, <2>1
  <2>3. CASE i \in 1 .. Len(messages)
    <3>1. messages'[i] = messages[i] /\ Message(i)' = Message(i) /\ Dropped(i)' = Dropped(i) /\ MessageOK(i)
      BY <1>13, <2>3
    <3>. QED  BY <1>3, <3>1 DEF MessageOK
  <2>. QED  BY <1>12, <2>2, <2>3
<1>15. ASSUME NEW i \in 1 .. Len(messages), splitting # "split"  PROVE CutOK(i)'
  <2>1. messages'[i] = messages[i] /\ Dropped(i)' = Dropped(i) /\ CutOK(i)
    BY <1>13, <1>15
  <2>. QED  BY <2>1 DEF CutOK
<1>16. begins'[1] = 1
  <2>1. 1 \in 1 .. last /\ begins[1] = 1
    BY <1>1, <1>2, <1>4
  <2>. QED  BY <1>8, <2>1
<1>17. Len(begins') = Len(messages') + 1 /\ Len(text') + begins'[last + 1] = Len(original) + 1
  <2>1. Len(text') = Len(text) - n - m /\ Len(original) = b + Len(text) - 1
    BY <1>6
  <2>. QED  BY <1>4, <1>8, <1>9, <2>1
<1>18. text' = SubSeq(original, begins'[last + 1], Len(original))
  BY <1>6, <1>8
<1>. QED  BY <1>6, <1>8, <1>9, <1>10, <1>14, <1>15, <1>16, <1>17, <1>18 DEF AfterCut

(* A kind of break that is found has a place in 1 .. TextLimit - 1, and the *)
(* best of them is found at every break of a kind behind the first one.    *)
Kinds == {k \in DOMAIN TextBreaks : LastPlace(TextBreaks[k]) > 0}
Split == IF Kinds = {} THEN TextLimit ELSE LastPlace(TextBreaks[Min(Kinds)])
Width == IF Kinds = {} THEN 0 ELSE 1

LEMMA SplitFacts ==
  /\ Split \in 1 .. TextLimit /\ Width \in {0, 1} /\ Split + Width <= TextLimit
  /\ Width = 1 => \E k \in DOMAIN TextBreaks : text[Split + 1] = TextBreaks[k]
  /\ \A j \in 2 .. Split : \A k \in DOMAIN TextBreaks :
       text[j] = TextBreaks[k]
         => Width = 1 /\ \E better \in 1 .. k : text[Split + 1] = TextBreaks[better]
<1>1. TextLimit \in Nat \ {0}
  BY SplitAssumption
<1>2. Kinds \in SUBSET (Nat \ {0}) /\ DOMAIN TextBreaks = 1 .. Len(TextBreaks) /\ Len(TextBreaks) \in Nat
  BY SplitAssumption DEF Kinds
<1>3. Kinds # {} => Min(Kinds) \in Kinds /\ \A k \in Kinds : Min(Kinds) <= k
  BY <1>2, LeastFacts
<1>4. ASSUME Kinds # {}
      PROVE  /\ Split \in 1 .. TextLimit - 1 /\ Width = 1 /\ Min(Kinds) \in DOMAIN TextBreaks
             /\ text[Split + 1] = TextBreaks[Min(Kinds)]
  <2>1. Min(Kinds) \in DOMAIN TextBreaks /\ LastPlace(TextBreaks[Min(Kinds)]) > 0
    BY <1>3, <1>4 DEF Kinds
  <2>2. Split = LastPlace(TextBreaks[Min(Kinds)]) /\ Width = 1
    BY <1>4 DEF Split, Width
  <2>3. /\ LastPlace(TextBreaks[Min(Kinds)]) \in 0 .. TextLimit - 1
        /\ text[LastPlace(TextBreaks[Min(Kinds)]) + 1] = TextBreaks[Min(Kinds)]
    BY <2>1, LastPlaceFacts
  <2>. QED  BY <1>1, <2>1, <2>2, <2>3
<1>5. Kinds = {} => Split = TextLimit /\ Width = 0
  BY DEF Split, Width
<1>6. Split \in 1 .. TextLimit /\ Width \in {0, 1} /\ Split + Width <= TextLimit
  BY <1>1, <1>4, <1>5
<1>7. ASSUME NEW j \in 2 .. Split, NEW k \in DOMAIN TextBreaks, text[j] = TextBreaks[k]
      PROVE  Width = 1 /\ \E better \in 1 .. k : text[Split + 1] = TextBreaks[better]
  <2>1. j \in 2 .. TextLimit
    BY <1>1, <1>6
  <2>2. 0 < LastPlace(TextBreaks[k]) /\ LastPlace(TextBreaks[k]) \in 0 .. TextLimit - 1
    BY <1>7, <2>1, LastPlaceFacts
  <2>3. k \in Kinds
    BY <1>1, <2>2 DEF Kinds
  <2>4. Kinds # {} /\ Min(Kinds) \in Kinds /\ Min(Kinds) <= k
    BY <1>3, <2>3
  <2>5. Min(Kinds) \in Nat \ {0} /\ k \in Nat
    BY <1>2, <2>3, <2>4
  <2>6. Min(Kinds) \in 1 .. k
    BY <2>4, <2>5
  <2>. QED  BY <1>4, <2>4, <2>6
<1>8. Width = 1 => \E k \in DOMAIN TextBreaks : text[Split + 1] = TextBreaks[k]
  BY <1>4, <1>5
<1>. QED  BY <1>6, <1>7, <1>8

(* A cut takes a message off the front, and the break it is cut at.        *)
LEMMA CutStep == ASSUME SplitInv, Cut  PROVE SplitInv'
<1>1. /\ Len(messages) \in Nat /\ Len(text) \in Nat /\ TextLimit \in Nat \ {0}
      /\ Split \in 1 .. TextLimit /\ Width \in {0, 1} /\ Split + Width <= TextLimit
  BY SplitFacts, SplitAssumption, LenProperties DEF SplitInv
<1>2. PICK last \in Nat, n \in Nat, m \in {0, 1} : last = Len(messages) + 1 /\ n = Split /\ m = Width
  <2>1. Len(messages) + 1 \in Nat
    BY <1>1
  <2>2. Split \in Nat
    BY <1>1
  <2>3. Width \in {0, 1}
    BY <1>1
  <2>. QED  BY <2>1, <2>2, <2>3, Zenon
<1>3. PICK b \in Nat : b = begins[last]
  <2>1. begins \in Seq(Nat \ {0}) /\ Len(begins) = last /\ last \in 1 .. last
    BY <1>1, <1>2 DEF SplitInv
  <2>. QED  BY <2>1, ElementOfSeq
<1>4. /\ splitting = "cutting" /\ Len(text) > TextLimit /\ original' = original /\ splitting' = splitting
      /\ messages' = Append(messages, SubSeq(text, 1, n))
      /\ text' = SubSeq(text, n + m + 1, Len(text)) /\ RestBegins(text')
  <2>1. Len(Splitter(Kinds)) = Width
    BY DEF Splitter, Width
  <2>2. /\ splitting = "cutting" /\ Len(text) > TextLimit /\ original' = original /\ splitting' = splitting
        /\ messages' = Append(messages, SubSeq(text, 1, Split))
        /\ text' = SubSeq(text, Split + Len(Splitter(Kinds)) + 1, Len(text)) /\ RestBegins(text')
    BY Zenon DEF Cut, Split, Kinds
  <2>. QED  BY <1>2, <2>1, <2>2
<1>5. /\ n \in 1 .. TextLimit /\ n + m <= TextLimit /\ n + m < Len(text)
      /\ m = 1 => \E k \in DOMAIN TextBreaks : text[n + 1] = TextBreaks[k]
      /\ \A j \in 2 .. n : \A k \in DOMAIN TextBreaks :
           text[j] = TextBreaks[k] => m = 1 /\ \E better \in 1 .. k : text[n + 1] = TextBreaks[better]
  <2>1. n \in 1 .. TextLimit /\ n + m <= TextLimit /\ n + m < Len(text)
    BY <1>1, <1>2, <1>4
  <2>. QED  BY <1>2, <2>1, SplitFacts
<1>6. AfterCut(last, n, m)
  <2>1. n + m <= Len(text)
    BY <1>1, <1>5
  <2>2. CutOff(last, b, n, m)
    BY <1>2, <1>3, <1>4, <1>5, <2>1 DEF CutOff
  <2>. QED  BY <2>2, CutLemma, Zenon
<1>7. text' # <<>>
  <2>1. Len(text') = Len(text) - n - m
    BY <1>6 DEF AfterCut
  <2>2. Len(text') # 0
    BY <1>1, <1>5, <2>1
  <2>3. Len(<<>>) = 0
    OBVIOUS
  <2>. QED  BY <2>2, <2>3, Zenon
<1>8. ASSUME NEW i, i = last  PROVE CutOK(i)'
  <2>1. /\ Len(messages'[i]) = n /\ \A j \in 1 .. n : messages'[i][j] = text[j]
        /\ Dropped(i)' = IF m = 0 THEN <<>> ELSE <<text[n + 1]>>
    BY <1>6, <1>8 DEF AfterCut
  <2>2. ASSUME NEW j \in 2 .. Len(messages'[i]), NEW k \in DOMAIN TextBreaks,
               messages'[i][j] = TextBreaks[k]
        PROVE  \E better \in 1 .. k : Dropped(i)' = <<TextBreaks[better]>>
    <3>1. j \in 2 .. n /\ j \in 1 .. n
      BY <2>1
    <3>2. text[j] = TextBreaks[k]
      BY <2>1, <2>2, <3>1
    <3>3. m = 1 /\ \E better \in 1 .. k : text[n + 1] = TextBreaks[better]
      BY <1>5, <3>1, <3>2
    <3>. QED  BY <2>1, <3>3
  <2>. QED  BY <2>2, Zenon DEF CutOK
<1>9. ASSUME NEW i \in 1 .. Len(messages')  PROVE CutOK(i)'
  <2>1. Len(messages') = last
    BY <1>6 DEF AfterCut
  <2>2. i = last \/ i \in 1 .. Len(messages)
    BY <1>1, <1>2, <2>1
  <2>3. \A j \in 1 .. Len(messages) : CutOK(j)'
    BY <1>4, <1>6 DEF AfterCut
  <2>. QED  BY <1>8, <2>2, <2>3
<1>10. /\ text' \in Seq(Chars) /\ messages' \in Seq(Seq(Chars)) /\ begins' \in Seq(Nat \ {0})
       /\ Len(begins') = Len(messages') + 1 /\ begins'[1] = 1
       /\ Len(text') + begins'[Len(messages') + 1] = Len(original') + 1
       /\ text' = SubSeq(original', begins'[Len(messages') + 1], Len(original'))
       /\ \A i \in DOMAIN messages' : MessageOK(i)'
  BY <1>4, <1>6, Zenon DEF AfterCut
<1>11. original' \in Seq(Chars) /\ splitting' = "cutting"
  BY <1>4 DEF SplitInv
<1>12. \A i \in 1 .. Len(messages') - (IF splitting' = "split" THEN 1 ELSE 0) : CutOK(i)'
  <2>1. Len(messages') \in Nat
    BY <1>10, LenProperties
  <2>. QED  BY <1>9, <1>11, <2>1
<1>. QED  BY <1>7, <1>10, <1>11, <1>12, Zenon DEF SplitInv

(* The last message is all that is left.                                   *)
LEMMA AppendRestStep == ASSUME SplitInv, AppendRest  PROVE SplitInv'
<1>1. /\ splitting = "cutting" /\ Len(text) <= TextLimit /\ original' = original /\ splitting' = "split"
      /\ messages' = Append(messages, text) /\ text' = <<>> /\ RestBegins(text')
  BY DEF AppendRest
<1>2. text \in Seq(Chars) /\ Len(text) \in Nat /\ Len(messages) \in Nat /\ TextLimit \in Nat
  BY SplitAssumption, LenProperties DEF SplitInv
<1>3. PICK last \in Nat, n \in Nat : last = Len(messages) + 1 /\ n = Len(text)
  BY <1>2
<1>4. PICK b \in Nat : b = begins[last]
  <2>1. begins \in Seq(Nat \ {0}) /\ Len(begins) = last /\ last \in 1 .. last
    BY <1>3, <1>2 DEF SplitInv
  <2>. QED  BY <2>1, ElementOfSeq
<1>5. CutOff(last, b, n, 0)
  <2>1. SubSeq(text, 1, Len(text)) = text
    BY <1>2, SubSeqFull
  <2>2. SubSeq(text, Len(text) + 0 + 1, Len(text)) = <<>>
    <3>1. Len(text) + 0 + 1 \in Int /\ Len(text) \in Int /\ Len(text) < Len(text) + 0 + 1
      BY <1>2
    <3>. QED  BY <3>1, SubSeqEmpty
  <2>3. original # <<>> => Len(text) \in 1 .. TextLimit
    <3>1. original # <<>> => text # <<>>
      BY <1>1 DEF SplitInv
    <3>2. text # <<>> => Len(text) # 0
      BY <1>2, EmptySeq
    <3>. QED  BY <1>1, <1>2, <3>1, <3>2
  <2>4. Len(text) + 0 <= Len(text) /\ 0 \in {0, 1} /\ 0 # 1
    BY <1>2
  <2>. QED  BY <1>3, <1>1, <1>2, <1>4, <2>1, <2>2, <2>3, <2>4 DEF CutOff
<1>6. AfterCut(last, n, 0)
  BY <1>5, CutLemma, Zenon
<1>7. ASSUME NEW i \in 1 .. Len(messages') - 1  PROVE CutOK(i)'
  <2>1. Len(messages') = last /\ last = Len(messages) + 1 /\ \A j \in 1 .. Len(messages) : CutOK(j)'
    BY <1>3, <1>1, <1>6 DEF AfterCut
  <2>. QED  BY <1>2, <2>1
<1>8. /\ text' \in Seq(Chars) /\ messages' \in Seq(Seq(Chars)) /\ begins' \in Seq(Nat \ {0})
      /\ Len(begins') = Len(messages') + 1 /\ begins'[1] = 1
      /\ Len(text') + begins'[Len(messages') + 1] = Len(original') + 1
      /\ text' = SubSeq(original', begins'[Len(messages') + 1], Len(original'))
      /\ \A i \in DOMAIN messages' : MessageOK(i)'
  BY <1>1, <1>6, Zenon DEF AfterCut
<1>9. original' \in Seq(Chars)
  BY <1>1 DEF SplitInv
<1>. QED  BY <1>1, <1>7, <1>8, <1>9 DEF SplitInv

(* SplitInv is inductive, so it holds in every state.                      *)
LEMMA SplitInvariance == SplitSpec => []SplitInv
<1>1. ASSUME SplitInv, [SplitNext]_splitVars  PROVE SplitInv'
  <2>1. CASE SplitMessage
    BY <1>1, <2>1, TakeTextStep
  <2>2. CASE Cut
    BY <1>1, <2>2, CutStep
  <2>3. CASE AppendRest
    BY <1>1, <2>3, AppendRestStep
  <2>4. CASE UNCHANGED splitVars
    BY <1>1, <2>4 DEF splitVars, SplitInv, MessageOK, CutOK, Message, Dropped
  <2>. QED  BY <1>1, <2>1, <2>2, <2>3, <2>4 DEF SplitNext
<1>. QED  BY <1>1, SplitInitInv, PTL DEF SplitSpec

(* splitMessage loses nothing of a text, whatever its length, its breaks   *)
(* and the limit: the messages and what is left are the text in order, one *)
(* break missing behind a message at most, and every cut is at the best    *)
(* kind of break that the front of the text has (telegram:76-100).         *)
THEOREM SplitFaithfulTheorem == SplitSpec => []SplitFaithful
<1>1. SplitInv => SplitFaithful
  <2>. SUFFICES ASSUME SplitInv  PROVE SplitFaithful
    OBVIOUS
  <2>1. /\ begins[1] = 1 /\ text = SubSeq(original, begins[Len(messages) + 1], Len(original))
        /\ messages \in Seq(Seq(Chars)) /\ \A i \in DOMAIN messages : MessageOK(i)
    BY DEF SplitInv
  <2>2. ASSUME NEW i \in 1 .. Len(messages) - 1  PROVE CutOK(i)
    <3>1. Len(messages) \in Nat
      BY <2>1, LenProperties
    <3>2. i \in 1 .. Len(messages) - 1 /\ i \in 1 .. Len(messages) - 0
      BY <3>1
    <3>. QED  BY <3>2 DEF SplitInv
  <2>. QED  BY <2>1, <2>2 DEF SplitFaithful, MessageOK, CutOK
<1>. QED  BY <1>1, SplitInvariance, PTL
-----------------------------------------------------------------------------
(***************************************************************************)
(* Query: text and parameters match.                                       *)
(***************************************************************************)
(* Condition by condition, and so clause by clause, the text's traversal   *)
(* and the parameters' name the same places.                               *)
LEMMA OneCondition ==
  ASSUME NEW where, NEW name, NEW embedded
  PROVE  WhereText(where, name, embedded) = WhereParams(where, name, embedded)
BY DEF WhereText, WhereParams

LEMMA OneClause ==
  ASSUME NEW q, NEW clause, NEW embedded
  PROVE  Clause(q, clause, WhereText, embedded) = Clause(q, clause, WhereParams, embedded)
BY OneCondition, Zenon DEF Clause

LEMMA OneQuery ==
  ASSUME NEW q, NEW embedded  PROVE BuildQuery(q, embedded) = Params(q, embedded)
BY OneClause, Zenon DEF BuildQuery, Params

(* build gives one parameter for each placeholder and in their order, for  *)
(* any number of conditions, joins and embedded queries.                   *)
THEOREM PlaceholdersMatchTheorem == QuerySpec => []PlaceholdersMatch
<1>1. PlaceholdersMatch
  BY OneQuery, Zenon DEF PlaceholdersMatch, TextBuilt, ParamsBuilt
<1>. QED  BY <1>1, PTL
-----------------------------------------------------------------------------
(***************************************************************************)
(* Server: what the layers let through, and what a client is told.         *)
(***************************************************************************)
(* the type of the server's state *)
Apps == [auth : {"none", "optional", "required"}, cors : BOOLEAN, hosts : BOOLEAN]
HttpRequests == [type : {"http", "websocket"}, openapi : BOOLEAN,
                 token : {"good", "absent", "bad", "malformed", "uncaught"},
                 host : BOOLEAN, origin : {"none", "allowed", "foreign"}, preflight : BOOLEAN]
Failures == [kind : {"none", "http", "base", "client", "stated", "bug"}, refid : Nat, status : Nat]
HttpAnswers == [status : Nat, refid : Nat, cors : BOOLEAN]

ServerTypeOK ==
  /\ app \in Apps /\ request \in HttpRequests /\ error \in Failures /\ answer \in HttpAnswers
  /\ at \in {"nowhere", "serving", "auth", "hosts", "cors", "route", "handler", "errors", "leaving", "answered"}
  /\ outcome \in {"pending", "returned", "http", "base", "client", "stated", "bug"}
  /\ logged \subseteq Nat
  /\ agent \in {"writes", "dropped", "raised"}

(* what the layers in front of a place have let through *)
TokenLayer == app.auth = "required" => request.openapi \/ request.token = "good"
HostAdmitted == app.hosts => request.host
OriginAdmitted == app.cors /\ Http => request.origin = "none" \/ (request.origin = "allowed" /\ ~ request.preflight)

PastLayers ==
  /\ request.preflight => Http
  /\ at \in {"hosts", "cors", "route", "handler", "errors", "leaving"} => TokenLayer
  /\ at \in {"cors", "route", "handler", "errors", "leaving"} => HostAdmitted
  /\ at \in {"route", "handler", "errors", "leaving"} => OriginAdmitted
  /\ at \in {"nowhere", "serving", "auth", "hosts", "cors", "route"} => outcome = "pending"
  /\ at \in {"handler", "errors", "leaving"} => outcome # "pending"
  /\ at # "answered" => answer.cors = FALSE

(* what the client is told of an unexpected failure *)
Told(status, refid) ==
  /\ agent = "writes" => refid \in logged
  /\ agent = "raised" \/ refid # NoRefid
  /\ agent = "raised" \/ status \in (CASE outcome = "client" -> {502}
                                       [] outcome = "stated" -> {StatedStatus, 500}
                                       [] OTHER -> {500})

(* an error on its way out is the one raised, or already says what it will *)
Traced ==
  Http /\ outcome \in {"client", "stated", "bug"} =>
    /\ at = "handler" => error.kind = outcome
    /\ at = "errors" =>
         \/ error.kind = outcome /\ error.status = (IF outcome = "stated" THEN StatedStatus ELSE 500)
         \/ error.kind = "bug" /\ agent = "raised"
         \/ error.kind = "http" /\ (error.status = 409 \/ Told(error.status, error.refid))
    /\ at \in {"leaving", "answered"} => answer.status = 409 \/ Told(answer.status, answer.refid)

ServerInv == ServerTypeOK /\ PastLayers /\ Traced /\ LayersGuard

LEMMA ServerInitInv == ServerInit => ServerInv
BY DEF ServerInit, ServerInv, ServerTypeOK, PastLayers, Traced, LayersGuard, Http, NoRefid, Error, Answer,
       Apps, HttpRequests, Failures, HttpAnswers

LEMMA AnswerFacts ==
  ASSUME NEW status \in Nat, NEW refid \in Nat
  PROVE  /\ Answer(status, refid) \in HttpAnswers
         /\ Answer(status, refid).status = status /\ Answer(status, refid).refid = refid
         /\ Answer(status, refid).cors = FALSE
BY DEF Answer, HttpAnswers

LEMMA CorsFacts ==
  ASSUME NEW a \in HttpAnswers, NEW cors \in BOOLEAN
  PROVE  /\ [a EXCEPT !.cors = cors] \in HttpAnswers /\ [a EXCEPT !.cors = cors].cors = cors
         /\ [a EXCEPT !.cors = cors].status = a.status /\ [a EXCEPT !.cors = cors].refid = a.refid
BY DEF HttpAnswers

LEMMA ErrorFacts ==
  ASSUME NEW kind \in {"http", "base", "client", "stated", "bug"}, NEW status \in Nat, NEW refid \in Nat
  PROVE  /\ Error(kind, refid, status) \in Failures
         /\ Error(kind, refid, status).kind = kind /\ Error(kind, refid, status).refid = refid
         /\ Error(kind, refid, status).status = status
BY DEF Error, Failures

LEMMA FieldTypes ==
  ASSUME ServerTypeOK
  PROVE  /\ app.cors \in BOOLEAN /\ answer.status \in Nat /\ answer.refid \in Nat
         /\ request.origin \in {"none", "allowed", "foreign"}
         /\ error.status \in Nat /\ error.refid \in Nat
         /\ error.kind \in {"none", "http", "base", "client", "stated", "bug"}
BY DEF ServerTypeOK, Apps, HttpRequests, Failures, HttpAnswers

LEMMA LogEntryType ==
  ASSUME ServerTypeOK, NEW refid \in Nat, LogEntry(refid)
  PROVE  /\ logged' \subseteq Nat /\ agent' \in {"writes", "dropped", "raised"}
         /\ agent' = "writes" => refid \in logged'
         /\ agent = "raised" => agent' = "raised"
BY DEF LogEntry, ServerTypeOK

LEMMA ServerTypeStep == ServerInv /\ [ServerNext]_serverVars => ServerTypeOK'
<1> SUFFICES ASSUME ServerTypeOK, [ServerNext]_serverVars PROVE ServerTypeOK'
  BY DEF ServerInv
<1> USE DEF NoRefid, StatedStatus
<1> DEFINE Layered == answer' = answer \/ \E status, refid \in Nat : answer' = Answer(status, refid)
           Failed == error' = error \/ \E kind \in {"http", "base", "client", "stated", "bug"}, status, refid \in Nat :
                                         error' = Error(kind, refid, status)
           Logs == logged' \subseteq Nat /\ agent' \in {"writes", "dropped", "raised"}
           Moves == /\ at' \in {"nowhere", "serving", "auth", "hosts", "cors", "route", "handler", "errors",
                                "leaving", "answered"}
                    /\ outcome' \in {"pending", "returned", "http", "base", "client", "stated", "bug"}
<1>a. Layered => answer' \in HttpAnswers
  BY AnswerFacts DEF ServerTypeOK
<1>b. Failed => error' \in Failures
  BY ErrorFacts DEF ServerTypeOK
<1>c. LogEntry(2) \/ LogEntry(3) \/ AgentRaises \/ UNCHANGED <<logged, agent>> => Logs
  BY LogEntryType DEF AgentRaises, ServerTypeOK
<1>1. CASE ServerApp BY <1>1 DEF ServerApp, ServerTypeOK, Apps
<1>2. CASE Arrives BY <1>2 DEF Arrives, ServerTypeOK, HttpRequests
<1>3. CASE AuthLayer
  <2>1. Layered BY <1>3 DEF AuthLayer, Pass, Refuse
  <2> QED BY <1>3, <2>1, <1>a DEF AuthLayer, Pass, Refuse, ServerTypeOK
<1>4. CASE HostLayer
  <2>1. Layered BY <1>4 DEF HostLayer, Pass, Refuse
  <2> QED BY <1>4, <2>1, <1>a DEF HostLayer, Pass, Refuse, ServerTypeOK
<1>5. CASE CorsLayer
  <2>1. at' \in {"route", "answered"} /\ (Layered \/ answer' = [Answer(204, NoRefid) EXCEPT !.cors = TRUE])
    <3>1. CASE Pass("route") BY <3>1 DEF Pass
    <3>2. CASE Refuse(400, 1) BY <3>2 DEF Refuse
    <3> QED BY <1>5, <3>1, <3>2 DEF CorsLayer
  <2>2. Answer(204, NoRefid) \in HttpAnswers
    BY AnswerFacts
  <2>3. answer' \in HttpAnswers
    BY <2>1, <2>2, <1>a, CorsFacts
  <2> QED BY <1>5, <2>1, <2>3 DEF CorsLayer, ServerTypeOK
<1>6. CASE Route
  <2>1. Layered /\ Failed /\ Moves BY <1>6 DEF Route
  <2> QED BY <1>6, <2>1, <1>a, <1>b DEF Route, ServerTypeOK
<1>7. CASE HttpErrorHandler
  <2>1. Failed BY <1>7 DEF HttpErrorHandler, Unexpected
  <2>2. Logs BY <1>7, <1>c DEF HttpErrorHandler, Unexpected
  <2> QED BY <1>7, <2>1, <2>2, <1>b DEF HttpErrorHandler, ServerTypeOK
<1>8. CASE JsonErrorHandler
  <2>1. Layered
    <3>1. CASE ~ Http \/ error.kind \in {"http", "base"}
      <4>1. answer' \in {Answer(500, 0), Answer(error.status, error.refid)}
        BY <1>8, <3>1 DEF JsonErrorHandler, Refuse
      <4> QED BY <4>1, FieldTypes
    <3>2. CASE Http /\ error.kind \notin {"http", "base"}
      <4>1. answer' \in {Answer(502, 3), Answer(error.status, 3), Answer(500, 0)}
        BY <1>8, <3>2 DEF JsonErrorHandler, Refuse
      <4> QED BY <4>1, FieldTypes
    <3> QED BY <3>1, <3>2
  <2>2. Logs BY <1>8, <1>c DEF JsonErrorHandler
  <2>3. at' \in {"leaving", "answered"} BY <1>8 DEF JsonErrorHandler, Refuse
  <2> QED BY <1>8, <2>1, <2>2, <2>3, <1>a DEF JsonErrorHandler, ServerTypeOK
<1>9. CASE Depart
  <2>1. answer' \in HttpAnswers BY <1>9, CorsFacts, FieldTypes DEF Depart, ServerTypeOK
  <2> QED BY <1>9, <2>1 DEF Depart, ServerTypeOK
<1>10. CASE UNCHANGED serverVars BY <1>10 DEF serverVars, ServerTypeOK
<1> QED BY <1>1, <1>2, <1>3, <1>4, <1>5, <1>6, <1>7, <1>8, <1>9, <1>10 DEF ServerNext

LEMMA PastLayersStep ==
  ServerInv /\ ServerTypeOK' /\ [ServerNext]_serverVars => PastLayers' /\ LayersGuard'
<1> SUFFICES ASSUME ServerTypeOK, PastLayers, LayersGuard, ServerTypeOK', [ServerNext]_serverVars
             PROVE  PastLayers' /\ LayersGuard'
  BY DEF ServerInv
<1> USE FieldTypes
    DEF NoRefid, Answer, Error, Http, StatedStatus, PastLayers, LayersGuard, TokenLayer, HostAdmitted, OriginAdmitted
<1>1. CASE ServerApp BY <1>1 DEF ServerApp
<1>2. CASE Arrives BY <1>2 DEF Arrives
<1>3. CASE AuthLayer
  <2> DEFINE Refused == \E status, refid \in Nat : Refuse(status, refid)
             Refusable == ~ Http \/ request.token # "absent" \/ app.auth = "required"
  <2>1. CASE Refused /\ Refusable
    <3>1. at' = "answered" /\ answer'.cors = FALSE /\ outcome' = "pending"
      BY <1>3, <2>1 DEF AuthLayer, Refuse
    <3> QED BY <1>3, <2>1, <3>1 DEF AuthLayer
  <2>2. CASE Pass("hosts") /\ TokenLayer
    BY <1>3, <2>2 DEF AuthLayer, Pass
  <2>3. (Refused /\ Refusable) \/ (Pass("hosts") /\ TokenLayer)
    <3>1. Refuse(400, 1) \/ Refuse(401, 1) \/ Refuse(500, NoRefid) => Refused
      OBVIOUS
    <3> HIDE DEF Refused
    <3>2. CASE app.auth = "none" \/ request.openapi \/ request.token = "good"
      BY <1>3, <3>1, <3>2 DEF AuthLayer
    <3>3. CASE ~ (app.auth = "none" \/ request.openapi \/ request.token = "good")
      BY <1>3, <3>1, <3>3 DEF AuthLayer
    <3> QED BY <3>2, <3>3
  <2> QED BY <2>1, <2>2, <2>3
<1>4. CASE HostLayer
  BY <1>4 DEF HostLayer, Pass, Refuse, ServerTypeOK, HttpAnswers, Failures, HttpRequests, Apps
<1>5. CASE CorsLayer
  <2>1. CASE Pass("route") /\ (app.cors /\ Http => Crosses \in {"same origin", "allowed"})
    BY <1>5, <2>1 DEF CorsLayer, Crosses, Pass
  <2>2. CASE app.cors /\ Http /\ (\/ Crosses = "refused" /\ Refuse(400, 1)
                                 \/ /\ Crosses = "preflight" /\ at' = "answered"
                                    /\ answer' = [Answer(204, NoRefid) EXCEPT !.cors = TRUE])
    BY <1>5, <2>2 DEF CorsLayer, Crosses, Refuse
  <2> QED BY <1>5, <2>1, <2>2 DEF CorsLayer
<1>6. CASE Route BY <1>6 DEF Route, ServerTypeOK, HttpAnswers, Failures, HttpRequests, Apps
<1>7. CASE HttpErrorHandler
  BY <1>7 DEF HttpErrorHandler, ServerTypeOK, HttpAnswers, Failures, HttpRequests, Apps
<1>8. CASE JsonErrorHandler
  BY <1>8
    DEF JsonErrorHandler, AgentRaises, Refuse, ServerTypeOK, HttpAnswers, Failures, HttpRequests, Apps
<1>9. CASE Depart BY <1>9 DEF Depart, ServerTypeOK, HttpAnswers, Failures, HttpRequests, Apps
<1>10. CASE UNCHANGED serverVars BY <1>10 DEF serverVars
<1> QED BY <1>1, <1>2, <1>3, <1>4, <1>5, <1>6, <1>7, <1>8, <1>9, <1>10 DEF ServerNext

LEMMA TracedStep == ServerInv /\ ServerTypeOK' /\ [ServerNext]_serverVars => Traced'
<1> SUFFICES ASSUME ServerTypeOK, PastLayers, Traced, ServerTypeOK', [ServerNext]_serverVars
             PROVE  Traced'
  BY DEF ServerInv
<1> USE FieldTypes DEF NoRefid, Answer, Error, Http, StatedStatus, Traced, Told
<1>1. CASE at' \notin {"handler", "errors", "leaving", "answered"} BY <1>1
<1>2. CASE AuthLayer \/ HostLayer \/ CorsLayer
  BY <1>2 DEF AuthLayer, HostLayer, CorsLayer, PastLayers
<1>3. CASE Route BY <1>3 DEF Route, ServerTypeOK, HttpAnswers, Failures, HttpRequests, Apps
<1>4. CASE HttpErrorHandler
  <2>1. CASE LogEntry(2)
    BY <1>4, <2>1, LogEntryType
       
          DEF HttpErrorHandler, Unexpected, AgentRaises, ServerTypeOK, HttpAnswers, Failures, HttpRequests, Apps
  <2>2. CASE AgentRaises \/ UNCHANGED <<logged, agent>>
    BY <1>4, <2>2
       
          DEF HttpErrorHandler, Unexpected, LogEntry, AgentRaises, ServerTypeOK, HttpAnswers, Failures, HttpRequests, Apps
  <2> QED BY <1>4, <2>1, <2>2 DEF HttpErrorHandler, Unexpected
<1>5. CASE JsonErrorHandler
  <2>1. CASE LogEntry(3)
    BY <1>5, <2>1, LogEntryType
        DEF JsonErrorHandler, AgentRaises, Refuse, ServerTypeOK, HttpAnswers, Failures, HttpRequests, Apps
  <2>2. CASE AgentRaises \/ UNCHANGED <<logged, agent>>
    BY <1>5, <2>2
       
          DEF JsonErrorHandler, LogEntry, AgentRaises, Refuse, ServerTypeOK, HttpAnswers, Failures, HttpRequests, Apps
  <2> QED BY <1>5, <2>1, <2>2 DEF JsonErrorHandler
<1>6. CASE Depart BY <1>6 DEF Depart, ServerTypeOK, HttpAnswers, Failures, HttpRequests, Apps
<1>7. CASE UNCHANGED serverVars BY <1>7 DEF serverVars
<1> QED BY <1>1, <1>2, <1>3, <1>4, <1>5, <1>6, <1>7 DEF ServerNext, ServerApp, Arrives

THEOREM ServerInvTheorem == ServerSpec => []ServerInv
<1>1. ServerInv /\ [ServerNext]_serverVars => ServerInv'
  BY ServerTypeStep, PastLayersStep, TracedStep DEF ServerInv
<1> QED BY ServerInitInv, <1>1, PTL DEF ServerSpec

THEOREM LayersGuardTheorem == ServerSpec => []LayersGuard
<1>1. ServerInv => LayersGuard BY DEF ServerInv
<1> QED BY ServerInvTheorem, <1>1, PTL

THEOREM FailuresTraceableTheorem == ServerSpec => []FailuresTraceable
<1>1. ServerInv => FailuresTraceable BY DEF ServerInv, Traced, Told, FailuresTraceable
<1> QED BY ServerInvTheorem, <1>1, PTL
-----------------------------------------------------------------------------
(***************************************************************************)
(* Aggregate: what the aggregators hold is what the calls gave.            *)
(***************************************************************************)
Sums(f, n, addend) ==
  f \in [0 .. n -> Int] /\ f[0] = 0 /\ \A i \in 1 .. n : f[i] = f[i - 1] + addend[i]

LEMMA SumsExist ==
  ASSUME NEW n \in Nat, NEW addend \in [1 .. n -> Int]
  PROVE  \E f : Sums(f, n, addend)
<1>1. PICK step : step = [i \in 1 .. n |-> [x \in Int |-> x + addend[i]]]
  OBVIOUS
<1>2. step \in Steps(n, Int) /\ 0 \in Int
  BY <1>1 DEF Steps
<1>3. PICK f : Recursive(f, n, Int, 0, step)
  BY <1>2, RecursionExists
<1>4. ASSUME NEW i \in 1 .. n  PROVE f[i] = f[i - 1] + addend[i]
  <2>1. i - 1 \in 0 .. n /\ f \in [0 .. n -> Int]
    BY <1>3 DEF Recursive
  <2>2. f[i - 1] \in Int
    BY <2>1
  <2>. QED  BY <1>1, <1>3, <2>2 DEF Recursive
<1>. QED  BY <1>3, <1>4 DEF Recursive, Sums

LEMMA TotalFacts ==
  ASSUME NEW s \in Seq(Int)
  PROVE  \E f : Sums(f, Len(s), s) /\ Total(s) = f[Len(s)]
<1>. DEFINE Defines(f) == f = [n \in 0 .. Len(s) |-> IF n = 0 THEN 0 ELSE f[n - 1] + s[n]]
            sum == CHOOSE f : Defines(f)
<1>1. Len(s) \in Nat /\ s \in [1 .. Len(s) -> Int]
  OBVIOUS
<1>2. PICK f : Sums(f, Len(s), s)
  BY <1>1, SumsExist
<1>3. Defines(f)
  BY <1>1, <1>2 DEF Sums
<1>4. Defines(sum)
  BY <1>3
<1>5. Total(s) = sum[Len(s)]
  BY DEF Total
<1>. HIDE DEF sum
<1>6. PICK m \in Nat : m = Len(s)
  BY <1>1
<1>7. sum[0] = 0 /\ \A i \in 1 .. m : sum[i] = sum[i - 1] + s[i]
  <2>1. sum = [n \in 0 .. m |-> IF n = 0 THEN 0 ELSE sum[n - 1] + s[n]]
    BY <1>4, <1>6
  <2>. QED  BY <2>1
<1>8. \A i \in 1 .. m : f[i - 1] = sum[i - 1] => f[i] = sum[i]
  BY <1>2, <1>6, <1>7 DEF Sums
<1>9. f[0] = sum[0]
  BY <1>2, <1>7 DEF Sums
<1>10. \A i \in 0 .. m : f[i] = sum[i]
  <2>1. StepsAgree(f, sum, m)
    BY ONLY <1>8, <1>9 DEF StepsAgree
  <2>. QED  BY <2>1, RecursionUnique DEF Agree
<1>11. sum = f
  BY <1>3, <1>4, <1>6, <1>10
<1>. QED  BY <1>2, <1>5, <1>11

LEMMA SumsAgree ==
  ASSUME NEW n \in Nat, NEW m \in Nat, n <= m, NEW a, NEW b, NEW f, NEW g,
         Sums(f, n, a), Sums(g, m, b), \A i \in 1 .. n : a[i] = b[i]
  PROVE  f[n] = g[n]
<1>1. f[0] = g[0]
  BY DEF Sums
<1>2. \A i \in 1 .. n : f[i - 1] = g[i - 1] => f[i] = g[i]
  BY DEF Sums
<1>3. \A i \in 0 .. n : f[i] = g[i]
  <2>1. StepsAgree(f, g, n)
    BY ONLY <1>1, <1>2 DEF StepsAgree
  <2>. QED  BY <2>1, RecursionUnique DEF Agree
<1>. QED  BY <1>3

LEMMA TotalType == ASSUME NEW s \in Seq(Int)  PROVE Total(s) \in Int
<1>1. PICK f : Sums(f, Len(s), s) /\ Total(s) = f[Len(s)]
  BY TotalFacts
<1>. QED  BY <1>1 DEF Sums

LEMMA TotalEmpty == Total(<<>>) = 0
<1>1. <<>> \in Seq(Int) /\ Len(<<>>) = 0
  OBVIOUS
<1>2. PICK f : Sums(f, 0, <<>>) /\ Total(<<>>) = f[0]
  BY <1>1, TotalFacts, Zenon
<1>. QED  BY <1>2 DEF Sums

LEMMA TotalAppend ==
  ASSUME NEW s \in Seq(Int), NEW x \in Int
  PROVE  Total(Append(s, x)) = Total(s) + x
<1>1. PICK t : t = Append(s, x)
  OBVIOUS
<1>2. PICK n \in Nat : n = Len(s)
  OBVIOUS
<1>3. t \in Seq(Int) /\ Len(t) = n + 1 /\ t[n + 1] = x /\ \A i \in 1 .. n : s[i] = t[i]
  BY <1>1, <1>2
<1>4. PICK f : Sums(f, Len(s), s) /\ Total(s) = f[Len(s)]
  BY TotalFacts
<1>5. PICK g : Sums(g, Len(t), t) /\ Total(t) = g[Len(t)]
  BY <1>3, TotalFacts
<1>6. f[n] = g[n]
  <2>1. Sums(f, n, s) /\ Sums(g, n + 1, t) /\ n + 1 \in Nat /\ n <= n + 1
    BY <1>2, <1>3, <1>4, <1>5
  <2>. QED  BY ONLY <1>3, <2>1, n \in Nat, SumsAgree
<1>7. g[n + 1] = g[n] + x
  BY <1>3, <1>5 DEF Sums
<1>. QED  BY <1>1, <1>2, <1>3, <1>4, <1>5, <1>6, <1>7

(* the squares about any addend, from those about 0: the sum of (x - m)^2  *)
LEMMA SquaresAbout ==
  ASSUME NEW s \in Seq(Int), NEW m \in Int
  PROVE  Total(Squares(s, m)) = Total(Squares(s, 0)) - 2 * (m * Total(s)) + Len(s) * (m * m)
<1>1. PICK n \in Nat : n = Len(s)
  OBVIOUS
<1>2. PICK u : u = Squares(s, m)
  OBVIOUS
<1>3. PICK v : v = Squares(s, 0)
  OBVIOUS
<1>4. /\ u \in Seq(Int) /\ Len(u) = n /\ v \in Seq(Int) /\ Len(v) = n
      /\ \A i \in 1 .. n : /\ s[i] \in Int /\ u[i] = (s[i] - m) * (s[i] - m)
                           /\ v[i] = (s[i] - 0) * (s[i] - 0)
  BY <1>1, <1>2, <1>3 DEF Squares
<1>5. PICK f : Sums(f, n, s) /\ Total(s) = f[n]
  BY <1>1, TotalFacts
<1>6. PICK g : Sums(g, n, u) /\ Total(u) = g[n]
  BY <1>4, TotalFacts
<1>7. PICK h : Sums(h, n, v) /\ Total(v) = h[n]
  BY <1>4, TotalFacts
<1>8. PICK e : e = [i \in 0 .. n |-> h[i] - 2 * (m * f[i]) + i * (m * m)]
  OBVIOUS
<1>9. ASSUME NEW i \in 1 .. n, g[i - 1] = e[i - 1]  PROVE g[i] = e[i]
  <2>1. PICK x \in Int : x = s[i]
    BY <1>4
  <2>2. /\ i - 1 \in 0 .. n /\ i \in 0 .. n
        /\ f[i - 1] \in Int /\ g[i - 1] \in Int /\ h[i - 1] \in Int
    BY <1>5, <1>6, <1>7 DEF Sums
  <2>3. /\ f[i] = f[i - 1] + x /\ g[i] = g[i - 1] + (x - m) * (x - m) /\ h[i] = h[i - 1] + (x - 0) * (x - 0)
    BY <1>4, <1>5, <1>6, <1>7, <2>1 DEF Sums
  <2>a. PICK j \in Nat : j = i - 1
    BY <2>2
  <2>b. PICK a \in Int : a = f[i - 1]
    BY <2>2
  <2>c. PICK c \in Int : c = h[i - 1]
    BY <2>2
  <2>4. i = j + 1 /\ h[i] = c + (x - 0) * (x - 0) /\ f[i] = a + x
    BY <2>a, <2>b, <2>c, <2>3
  <2>5. /\ e[i - 1] = c - 2 * (m * a) + j * (m * m)
        /\ e[i] = (c + (x - 0) * (x - 0)) - 2 * (m * (a + x)) + (j + 1) * (m * m)
    BY <1>8, <2>2, <2>a, <2>b, <2>c, <2>4
  <2>6. (c - 2 * (m * a) + j * (m * m)) + (x - m) * (x - m)
          = (c + (x - 0) * (x - 0)) - 2 * (m * (a + x)) + (j + 1) * (m * m)
    BY ONLY j \in Nat, a \in Int, c \in Int, x \in Int, m \in Int
  <2>. QED  BY <1>9, <2>3, <2>5, <2>6
<1>10. g[0] = e[0]
  BY <1>5, <1>6, <1>7, <1>8 DEF Sums
<1>11. \A i \in 0 .. n : g[i] = e[i]
  <2>1. StepsAgree(g, e, n)
    BY ONLY <1>9, <1>10 DEF StepsAgree
  <2>. QED  BY <2>1, RecursionUnique DEF Agree
<1>12. g[n] = h[n] - 2 * (m * f[n]) + n * (m * m)
  BY <1>8, <1>11
<1>. QED  BY <1>1, <1>2, <1>3, <1>5, <1>6, <1>7, <1>12
-----------------------------------------------------------------------------
Calls == [Keys -> (0 .. MaxValue) \cup {Absent}]
AggregatorKinds == {"none", "Sum", "Average", "StandardDeviation"}
Aggregators == [kind : AggregatorKinds, count : Nat, keys : SUBSET Keys, mean : [Keys -> Int], q : [Keys -> Int]]

(* what the aggregator holds for an argument that all the calls gave, n of *)
(* them: Welford's q is the sum of the squares about the mean              *)
Holds(a, given, k) ==
  LET numbers == Measured(given, k)  n == Len(given) IN
  /\ n # 0 => k \in a.keys
  /\ n = 0 => a.mean[k] = 0
  /\ \E whole \in Int : Total(numbers) = Unit * whole
  /\ a.kind = "Sum" => a.mean[k] = Total(numbers)
  /\ a.kind # "Sum" => /\ n * a.mean[k] = Total(numbers)
                       /\ a.q[k] = Total(Squares(numbers, 0)) - n * (a.mean[k] * a.mean[k])

GivenByAll(given, k) == \A i \in 1 .. Len(given) : given[i][k] # Absent

Aggregated(a, given) ==
  /\ a.count = Len(given)
  /\ \A k \in Keys : GivenByAll(given, k) => Holds(a, given, k)

AggregateInv ==
  /\ aggregator \in Aggregators /\ window \in Seq(Calls) /\ spoiled \in BOOLEAN
  /\ aggregator.kind = "none" => window = <<>>
  /\ ~ spoiled => Aggregated(aggregator, window)
  /\ WindowExact

LEMMA MeasuredFacts ==
  ASSUME NEW given \in Seq(Calls), NEW k \in Keys
  PROVE  /\ GivenByAll(given, k) => Measured(given, k) \in Seq(Int)
         /\ Len(Measured(given, k)) = Len(given)
<1>1. Len(given) \in Nat /\ \A i \in 1 .. Len(given) : given[i] \in Calls
  OBVIOUS
<1>2. ASSUME NEW i \in 1 .. Len(given)  PROVE given[i][k] \in Int
  BY <1>1 DEF Calls, Absent
<1>3. Unit \in Nat
  BY AggregateAssumption
<1>. QED  BY <1>1, <1>2, <1>3 DEF Measured

LEMMA MeasuredAppend ==
  ASSUME NEW given \in Seq(Calls), NEW data \in Calls, NEW k \in Keys, GivenByAll(Append(given, data), k)
  PROVE  /\ Measured(Append(given, data), k) = Append(Measured(given, k), Unit * data[k])
         /\ GivenByAll(given, k) /\ data[k] \in 0 .. MaxValue
<1>1. PICK more : more = Append(given, data)
  OBVIOUS
<1>2. PICK n \in Nat : n = Len(given)
  OBVIOUS
<1>3. Len(more) = n + 1 /\ more[n + 1] = data /\ \A i \in 1 .. n : more[i] = given[i]
  BY <1>1, <1>2
<1>4. GivenByAll(given, k) /\ data[k] # Absent
  BY <1>1, <1>2, <1>3 DEF GivenByAll
<1>5. data[k] \in 0 .. MaxValue
  BY <1>4 DEF Calls
<1>6. Measured(given, k) \in Seq(Int) /\ Len(Measured(given, k)) = n
  BY <1>2, <1>4, MeasuredFacts
<1>7. Measured(more, k) = Append(Measured(given, k), Unit * data[k])
  <2>1. PICK s : s = Measured(given, k)
    OBVIOUS
  <2>2. s \in Seq(Int) /\ Len(s) = n /\ \A i \in 1 .. n : s[i] = Unit * given[i][k]
    BY <1>2, <1>6, <2>1 DEF Measured
  <2>3. Append(s, Unit * data[k]) = [i \in 1 .. n + 1 |-> IF i = n + 1 THEN Unit * data[k] ELSE s[i]]
    BY <2>2
  <2>4. Measured(more, k) = [i \in 1 .. n + 1 |-> Unit * more[i][k]]
    BY <1>3 DEF Measured
  <2>5. \A i \in 1 .. n + 1 : Unit * more[i][k] = IF i = n + 1 THEN Unit * data[k] ELSE s[i]
    BY <1>3, <2>2
  <2>. QED  BY <2>1, <2>3, <2>4, <2>5
<1>. QED  BY <1>1, <1>4, <1>5, <1>7

LEMMA SquaresAppend ==
  ASSUME NEW s \in Seq(Int), NEW x \in Int
  PROVE  /\ Squares(Append(s, x), 0) = Append(Squares(s, 0), x * x)
         /\ Squares(s, 0) \in Seq(Int)
<1>1. PICK n \in Nat : n = Len(s)
  OBVIOUS
<1>2. PICK t : t = Append(s, x)
  OBVIOUS
<1>3. t \in Seq(Int) /\ Len(t) = n + 1 /\ t[n + 1] = x /\ \A i \in 1 .. n : t[i] = s[i]
  BY <1>1, <1>2
<1>4. PICK v : v = Squares(s, 0)
  OBVIOUS
<1>5. v \in Seq(Int) /\ Len(v) = n /\ \A i \in 1 .. n : v[i] = (s[i] - 0) * (s[i] - 0)
  <2>1. \A i \in 1 .. n : s[i] \in Int
    BY <1>1
  <2>. QED  BY <1>1, <1>4, <2>1 DEF Squares
<1>6. Append(v, x * x) = [i \in 1 .. n + 1 |-> IF i = n + 1 THEN x * x ELSE v[i]]
  BY <1>5
<1>7. Squares(t, 0) = [i \in 1 .. n + 1 |-> (t[i] - 0) * (t[i] - 0)]
  BY <1>3 DEF Squares
<1>8. \A i \in 1 .. n + 1 : (t[i] - 0) * (t[i] - 0) = IF i = n + 1 THEN x * x ELSE v[i]
  <2>1. (x - 0) * (x - 0) = x * x
    OBVIOUS
  <2>. SUFFICES ASSUME NEW i \in 1 .. n + 1
                PROVE  (t[i] - 0) * (t[i] - 0) = IF i = n + 1 THEN x * x ELSE v[i]
    OBVIOUS
  <2>2. CASE i = n + 1
    BY <1>3, <2>1, <2>2
  <2>3. CASE i # n + 1
    <3>1. i \in 1 .. n
      BY <2>3
    <3>2. t[i] = s[i] /\ v[i] = (s[i] - 0) * (s[i] - 0)
      BY <1>3, <1>5, <3>1
    <3>. QED  BY <2>3, <3>2
  <2>. QED  BY <2>2, <2>3
<1>. QED  BY <1>2, <1>4, <1>5, <1>6, <1>7, <1>8

(* Welford's recurrence keeps q what it is meant to be.                    *)
LEMMA WelfordStep ==
  ASSUME NEW n \in Int, NEW m \in Int, NEW next \in Int, NEW x \in Int, NEW squares \in Int,
         x = n * next - (n - 1) * m
  PROVE  (squares - (n - 1) * (m * m)) + (x - m) * (x - next) = (squares + x * x) - n * (next * next)
OBVIOUS
-----------------------------------------------------------------------------
(* update keeps the aggregator true to the calls *)
LEMMA UpdateType ==
  ASSUME aggregator \in Aggregators, NEW data \in Calls, NEW keys \in SUBSET Keys,
         \A k \in keys : data[k] \in 0 .. MaxValue
  PROVE  Update(data, keys) \in Aggregators /\ Update(data, keys).kind = aggregator.kind
<1>1. aggregator.count + 1 \in Nat /\ aggregator.count + 1 > 0
  BY DEF Aggregators
<1>2. ASSUME NEW k \in keys  PROVE Unit * data[k] \in Int
  BY AggregateAssumption
<1>3. \A a \in Int, n \in Nat : n > 0 => a \div n \in Int
  OBVIOUS
<1>4. PICK mean : mean = [k \in Keys |->
        IF k \notin keys THEN aggregator.mean[k]
        ELSE IF aggregator.kind = "Sum" THEN aggregator.mean[k] + Unit * data[k]
        ELSE aggregator.mean[k] + (Unit * data[k] - aggregator.mean[k]) \div (aggregator.count + 1)]
  OBVIOUS
<1>5. mean \in [Keys -> Int]
  BY <1>1, <1>2, <1>3, <1>4 DEF Aggregators
<1>6. PICK q : q = [k \in Keys |->
        IF k \notin keys THEN aggregator.q[k]
        ELSE aggregator.q[k] + (Unit * data[k] - aggregator.mean[k]) * (Unit * data[k] - mean[k])]
  OBVIOUS
<1>7. q \in [Keys -> Int]
  BY <1>2, <1>5, <1>6 DEF Aggregators
<1>8. Update(data, keys) = [aggregator EXCEPT !.count = aggregator.count + 1, !.keys = aggregator.keys \cup keys,
                                             !.mean = mean, !.q = q]
  BY <1>4, <1>6 DEF Update, Aggregators
<1>. QED  BY <1>1, <1>5, <1>7, <1>8 DEF Aggregators

LEMMA UpdateCounted ==
  ASSUME aggregator \in Aggregators, window \in Seq(Calls), Aggregated(aggregator, window),
         Len(window) < MaxWindow, NEW data \in Calls
  PROVE  Aggregated(Update(data, {k \in Keys : data[k] # Absent}), Append(window, data))
<1>. DEFINE keys == {k \in Keys : data[k] # Absent}
            updated == Update(data, keys)
            n == Len(window) + 1
<1>1. n \in 1 .. MaxWindow /\ Len(window) \in Nat /\ aggregator.count + 1 = n
  BY AggregateAssumption DEF Aggregated
<1>2. Append(window, data) \in Seq(Calls) /\ Len(Append(window, data)) = n
  OBVIOUS
<1>3. updated.count = n
  BY <1>1 DEF Update, Aggregators
<1>4. ASSUME NEW k \in Keys, GivenByAll(Append(window, data), k)
      PROVE  Holds(updated, Append(window, data), k)
  <2>1. PICK numbers : numbers = Measured(window, k)
    OBVIOUS
  <2>2. PICK x : x = Unit * data[k]
    OBVIOUS
  <2>3. /\ Measured(Append(window, data), k) = Append(numbers, x)
        /\ GivenByAll(window, k) /\ data[k] \in 0 .. MaxValue
    BY <1>4, <2>1, <2>2, MeasuredAppend
  <2>4. x \in Int /\ numbers \in Seq(Int) /\ k \in keys
    BY <2>1, <2>2, <2>3, MeasuredFacts, AggregateAssumption DEF Absent
  <2>5. Holds(aggregator, window, k)
    BY <2>3 DEF Aggregated
  <2>6. PICK m \in Int : m = aggregator.mean[k]
    BY DEF Aggregators
  <2>7. PICK q \in Int : q = aggregator.q[k]
    BY DEF Aggregators
  <2>8. PICK next : next = updated.mean[k]
    OBVIOUS
  <2>9. /\ k \in updated.keys /\ updated.kind = aggregator.kind
        /\ next = IF aggregator.kind = "Sum" THEN m + x ELSE m + (x - m) \div n
        /\ updated.q[k] = q + (x - m) * (x - next)
    BY <1>1, <2>2, <2>4, <2>6, <2>7, <2>8 DEF Update, Aggregators
  <2>10. PICK total \in Int : total = Total(numbers)
    BY <2>4, TotalType
  <2>11. Total(Append(numbers, x)) = total + x
    BY <2>4, <2>10, TotalAppend
  <2>12. PICK whole \in Int : total + x = Unit * whole
    <3>1. PICK before \in Int : total = Unit * before
      BY <2>1, <2>5, <2>10 DEF Holds
    <3>2. total + x = Unit * (before + data[k])
      BY <2>2, <2>3, <3>1, AggregateAssumption
    <3>3. before + data[k] \in Int
      BY <2>3, AggregateAssumption
    <3>. QED  BY <3>2, <3>3
  <2>. HIDE DEF updated, keys
  <2>13. CASE aggregator.kind = "Sum"
    <3>1. m = total
      BY <2>1, <2>5, <2>6, <2>10, <2>13 DEF Holds
    <3>. QED  BY <1>1, <1>2, <2>3, <2>8, <2>9, <2>11, <2>12, <2>13, <3>1 DEF Holds
  <2>14. CASE aggregator.kind # "Sum"
    <3>1. (n - 1) * m = total /\ q = Total(Squares(numbers, 0)) - (n - 1) * (m * m)
      BY <1>1, <2>1, <2>5, <2>6, <2>7, <2>10, <2>14 DEF Holds
    <3>2. next \in Int /\ n * next = total + x
      <4>1. next = m + (x - m) \div n
        BY <2>9, <2>14
      <4>a. n \in 1 .. MaxWindow
        BY <1>1
      <4>. HIDE DEF n
      <4>2. PICK d \in Int : Unit = n * d
        <5>1. PICK d \in 1 .. Unit : Unit = n * d
          BY <4>a, AggregateAssumption
        <5>2. d \in Int
          BY AggregateAssumption
        <5>. QED  BY <5>1, <5>2
      <4>3. n \in Nat /\ n > 0
        BY <1>1
      <4>4. PICK mean \in Int : mean = d * whole
        OBVIOUS
      <4>5. n * mean = total + x
        <5>1. n * (d * whole) = (n * d) * whole
          BY ONLY <4>3, d \in Int, whole \in Int
        <5>. QED  BY <2>12, <4>2, <4>4, <5>1
      <4>6. x - m = n * (mean - m)
        <5>1. n * (mean - m) = n * mean - n * m /\ (n - 1) * m = n * m - m
          BY ONLY <4>3, mean \in Int, m \in Int
        <5>. QED  BY <2>4, <3>1, <4>3, <4>5, <5>1
      <4>7. (n * (mean - m)) \div n = mean - m
        BY ONLY <4>3, mean - m \in Int
      <4>8. next = mean
        BY <4>1, <4>6, <4>7
      <4>. QED  BY <4>5, <4>8
    <3>3. PICK squares \in Int : squares = Total(Squares(numbers, 0))
      BY <2>4, TotalType, SquaresAppend
    <3>4. Total(Squares(Append(numbers, x), 0)) = squares + x * x
      <4>1. x * x \in Int
        BY <2>4
      <4>2. Total(Append(Squares(numbers, 0), x * x)) = squares + x * x
        BY <2>4, <3>3, <4>1, TotalAppend, SquaresAppend
      <4>. QED  BY <2>4, <4>2, SquaresAppend
    <3>5. (squares - (n - 1) * (m * m)) + (x - m) * (x - next) = (squares + x * x) - n * (next * next)
      <4>1. n \in Int /\ x = n * next - (n - 1) * m
        BY <1>1, <2>4, <3>1, <3>2
      <4>. HIDE DEF n
      <4>. QED  BY <2>4, <3>2, <4>1, WelfordStep
    <3>6. updated.q[k] = Total(Squares(Append(numbers, x), 0)) - n * (next * next)
      BY <2>9, <3>1, <3>3, <3>4, <3>5
    <3>. QED  BY <1>1, <1>2, <2>3, <2>8, <2>9, <2>11, <2>12, <2>14, <3>2, <3>6 DEF Holds
  <2>. QED  BY <2>13, <2>14
<1>. QED  BY <1>2, <1>3, <1>4 DEF Aggregated

(* what the function is called with *)
LEMMA CountedExact ==
  ASSUME NEW a \in Aggregators, NEW given \in Seq(Calls), given # <<>>, Aggregated(a, given),
         NEW k \in Keys, GivenByAll(given, k)
  PROVE  /\ k \in a.keys
         /\ a.kind = "Sum" => a.mean[k] = Total(Measured(given, k))
         /\ a.kind # "Sum" => /\ Len(given) * a.mean[k] = Total(Measured(given, k))
                              /\ a.q[k] = Total(Squares(Measured(given, k), a.mean[k]))
<1>1. PICK numbers : numbers = Measured(given, k)
  OBVIOUS
<1>2. PICK n \in Nat : n = Len(given) /\ n # 0
  OBVIOUS
<1>3. numbers \in Seq(Int) /\ Len(numbers) = n
  BY <1>1, <1>2, MeasuredFacts
<1>4. PICK m \in Int : m = a.mean[k]
  BY DEF Aggregators
<1>5. PICK total \in Int : total = Total(numbers)
  BY <1>3, TotalType
<1>6. PICK squares \in Int : squares = Total(Squares(numbers, 0))
  BY <1>3, TotalType, SquaresAppend
<1>7. Total(Squares(numbers, m)) = squares - 2 * (m * total) + n * (m * m)
  BY <1>3, <1>5, <1>6, SquaresAbout
<1>8. Holds(a, given, k)
  BY DEF Aggregated
<1>9. CASE a.kind = "Sum"
  BY <1>1, <1>2, <1>8, <1>9 DEF Holds
<1>10. CASE a.kind # "Sum"
  <2>1. n * m = total /\ a.q[k] = squares - n * (m * m)
    BY <1>1, <1>2, <1>4, <1>5, <1>6, <1>8, <1>10 DEF Holds
  <2>2. squares - 2 * (m * (n * m)) + n * (m * m) = squares - n * (m * m)
    BY ONLY n \in Nat, m \in Int, squares \in Int
  <2>. QED  BY <1>1, <1>2, <1>4, <1>5, <1>7, <1>8, <1>10, <2>1, <2>2 DEF Holds
<1>. QED  BY <1>9, <1>10

LEMMA ResetCounted ==
  ASSUME NEW kind \in AggregatorKinds
  PROVE  /\ NewAggregator(kind) \in Aggregators /\ NewAggregator(kind).kind = kind
         /\ Aggregated(NewAggregator(kind), <<>>)
<1>1. NewAggregator(kind) \in Aggregators /\ NewAggregator(kind).kind = kind
  BY DEF NewAggregator, Aggregators
<1>2. ASSUME NEW k \in Keys  PROVE Holds(NewAggregator(kind), <<>>, k)
  <2>1. Measured(<<>>, k) = <<>>
    BY DEF Measured
  <2>2. Squares(<<>>, 0) = <<>>
    BY DEF Squares
  <2>3. Unit * 0 = 0 /\ 0 * 0 = 0 /\ 0 - 0 * (0 * 0) = 0
    BY AggregateAssumption
  <2>. QED  BY <2>1, <2>2, <2>3, TotalEmpty DEF Holds, NewAggregator
<1>3. NewAggregator(kind).count = Len(<<>>)
  BY DEF NewAggregator
<1>. QED  BY <1>1, <1>2, <1>3 DEF Aggregated

LEMMA CalledStep ==
  ASSUME AggregateInv, aggregator.kind # "none", Len(window) < MaxWindow, NEW data \in Calls, Called(data)
  PROVE  AggregateInv'
<1>. DEFINE keys == {k \in Keys : data[k] # Absent}
            updated == Update(data, keys)
<1>1. updated \in Aggregators /\ updated.kind = aggregator.kind
  <2>1. \A k \in keys : data[k] \in 0 .. MaxValue
    BY DEF Calls
  <2>. HIDE DEF keys
  <2>2. keys \in SUBSET Keys
    BY DEF keys
  <2>. QED  BY <2>1, <2>2, UpdateType DEF AggregateInv
<1>2. ~ spoiled => Aggregated(updated, Append(window, data))
  BY UpdateCounted DEF AggregateInv
<1>3. Append(window, data) \in Seq(Calls) /\ Append(window, data) # <<>>
  BY DEF AggregateInv
<1>4. CASE aggregator' = updated /\ window' = Append(window, data) /\ UNCHANGED spoiled /\ result' = NoResult
  <2>. HIDE DEF updated
  <2>. QED  BY <1>1, <1>2, <1>3, <1>4 DEF AggregateInv, WindowExact, NoResult
<1>5. CASE /\ aggregator' = Reset /\ window' = <<>> /\ spoiled' = FALSE
           /\ result' = IF spoiled THEN NoResult ELSE
                [kind |-> aggregator.kind, keys |-> updated.keys, mean |-> updated.mean, q |-> updated.q,
                 divisor |-> updated.count - 1, window |-> Append(window, data)]
  <2>1. /\ aggregator' \in Aggregators /\ aggregator'.kind = aggregator.kind
        /\ window' \in Seq(Calls) /\ Aggregated(aggregator, window)'
    BY <1>5, ResetCounted DEF AggregateInv, Aggregators, Reset, Aggregated
  <2>2. CASE spoiled
    BY <1>5, <2>1, <2>2 DEF AggregateInv, WindowExact, NoResult
  <2>3. CASE ~ spoiled
    <3>. HIDE DEF updated
    <3>1. PICK given : given = Append(window, data)
      OBVIOUS
    <3>2. /\ result'.window = given /\ result'.kind = updated.kind /\ result'.keys = updated.keys
          /\ result'.mean = updated.mean /\ result'.q = updated.q /\ result'.divisor = updated.count - 1
      BY <1>1, <1>5, <2>3, <3>1
    <3>3. updated.count = Len(given)
      BY <1>2, <2>3, <3>1 DEF Aggregated
    <3>4. \A k \in Keys : (\A i \in DOMAIN given : given[i][k] # Absent) => GivenByAll(given, k)
      BY <1>3, <3>1 DEF GivenByAll
    <3>5. \A k \in Keys : GivenByAll(given, k) =>
            /\ k \in updated.keys
            /\ updated.kind = "Sum" => updated.mean[k] = Total(Measured(given, k))
            /\ updated.kind # "Sum" => /\ Len(given) * updated.mean[k] = Total(Measured(given, k))
                                       /\ updated.q[k] = Total(Squares(Measured(given, k), updated.mean[k]))
      BY <1>1, <1>2, <1>3, <2>3, <3>1, CountedExact
    <3>6. WindowExact'
      BY <3>2, <3>3, <3>4, <3>5 DEF WindowExact
    <3>. QED  BY <1>5, <2>1, <3>6 DEF AggregateInv
  <2>. QED  BY <2>2, <2>3
<1>. QED  BY <1>4, <1>5 DEF Called

(* WindowExact holds for windows of any length *)
THEOREM WindowExactTheorem == AggregateSpec => []WindowExact
<1>1. AggregateInit => AggregateInv
  <2>. SUFFICES ASSUME AggregateInit  PROVE AggregateInv
    OBVIOUS
  <2>1. "none" \in AggregatorKinds
    BY DEF AggregatorKinds
  <2>2. /\ NewAggregator("none") \in Aggregators /\ NewAggregator("none").kind = "none"
        /\ Aggregated(NewAggregator("none"), <<>>)
    BY <2>1, ResetCounted
  <2>3. <<>> \in Seq(Calls)
    OBVIOUS
  <2>. QED  BY <2>2, <2>3 DEF AggregateInit, AggregateInv, WindowExact, NoResult
<1>2. AggregateInv /\ [AggregateNext]_aggregateVars => AggregateInv'
  <2>. SUFFICES ASSUME AggregateInv, [AggregateNext]_aggregateVars  PROVE AggregateInv'
    OBVIOUS
  <2>1. CASE Decorate
    <3>1. PICK kind \in {"Sum", "Average", "StandardDeviation"} : aggregator' = NewAggregator(kind)
      BY <2>1 DEF Decorate
    <3>2. kind \in AggregatorKinds
      BY DEF AggregatorKinds
    <3>3. aggregator' \in Aggregators /\ Aggregated(NewAggregator(kind), <<>>) /\ NewAggregator(kind).kind = kind
      BY <3>1, <3>2, ResetCounted
    <3>4. aggregator.kind = "none" /\ UNCHANGED <<window, spoiled, result>>
      BY <2>1 DEF Decorate
    <3>. QED  BY <3>1, <3>3, <3>4 DEF AggregateInv, WindowExact
  <2>2. ASSUME aggregator.kind # "none", Len(window) < MaxWindow, NEW data \in Calls, CalledWithoutNumber(data)
        PROVE  AggregateInv'
    <3>1. PICK bad \in Keys, keys \in SUBSET {k \in Keys : data[k] # Absent} :
               aggregator' = [Update(data, keys) EXCEPT !.keys = @ \cup {bad}]
      BY <2>2 DEF CalledWithoutNumber
    <3>2. keys \in SUBSET Keys /\ \A k \in keys : data[k] \in 0 .. MaxValue
      BY <2>2 DEF Calls
    <3>3. Update(data, keys) \in Aggregators
      BY <3>2, UpdateType DEF AggregateInv
    <3>4. aggregator' \in Aggregators /\ aggregator'.kind = aggregator.kind
      BY <3>1, <3>2, <3>3, UpdateType DEF AggregateInv, Aggregators
    <3>5. window' = Append(window, data) /\ spoiled' = TRUE /\ result' = NoResult
      BY <2>2 DEF CalledWithoutNumber
    <3>. QED  BY <2>2, <3>4, <3>5 DEF AggregateInv, WindowExact, NoResult
  <2>3. CASE UNCHANGED aggregateVars
    BY <2>3 DEF aggregateVars, AggregateInv, WindowExact
  <2>. QED  BY <2>1, <2>2, <2>3, CalledStep DEF AggregateNext, Calls
<1>3. AggregateInv => WindowExact
  BY DEF AggregateInv
<1>. QED  BY <1>1, <1>2, <1>3, PTL DEF AggregateSpec
-----------------------------------------------------------------------------
(***************************************************************************)
(* CRC: a lookup does eight divisions, because division is linear.         *)
(***************************************************************************)
Words == SUBSET Nat
High(p, byte) == Shift(byte, p.bitlength - 8)

(* what is known of the arguments of the constructor *)
ModelOK(p) == /\ p.bitlength \in Nat /\ p.bitlength >= 8 /\ p.polynomial \in Words
              /\ p.init_value \in Words /\ p.xor_out \in Words

LEMMA ModelFacts == ASSUME NEW p \in CrcModels  PROVE ModelOK(p)
BY CrcAssumption DEF ModelOK, Words

LEMMA XorFacts ==
  ASSUME NEW a \in Words, NEW b \in Words
  PROVE  Xor(a, b) \in Words /\ \A bit : bit \in Xor(a, b) <=> ((bit \in a) # (bit \in b))
BY DEF Xor, Words

LEMMA DivideType == ASSUME NEW p, ModelOK(p), NEW r  PROVE Divide(p, r) \in Words
BY DEF Divide, Words, ModelOK

(* dividing is linear *)
LEMMA DivideLinear ==
  ASSUME NEW p, ModelOK(p), NEW a \in Words, NEW b \in Words
  PROVE  Divide(p, Xor(a, b)) = Xor(Divide(p, a), Divide(p, b))
<1>1. ASSUME NEW bit \in 0 .. (p.bitlength - 1)
      PROVE  bit \in Divide(p, Xor(a, b)) <=> bit \in Xor(Divide(p, a), Divide(p, b))
  <2>1. bit \in Divide(p, Xor(a, b)) <=>
          (bit - 1 \in Xor(a, b)) # ((p.bitlength - 1) \in Xor(a, b) /\ bit \in p.polynomial)
    BY DEF Divide
  <2>2. bit \in Divide(p, a) <=> (bit - 1 \in a) # ((p.bitlength - 1) \in a /\ bit \in p.polynomial)
    BY DEF Divide
  <2>3. bit \in Divide(p, b) <=> (bit - 1 \in b) # ((p.bitlength - 1) \in b /\ bit \in p.polynomial)
    BY DEF Divide
  <2>4. \A c : c \in Xor(a, b) <=> ((c \in a) # (c \in b))
    BY XorFacts
  <2>5. bit \in Xor(Divide(p, a), Divide(p, b)) <=> ((bit \in Divide(p, a)) # (bit \in Divide(p, b)))
    BY XorFacts, DivideType
  <2>. QED  BY <2>1, <2>2, <2>3, <2>4, <2>5
<1>2. /\ Divide(p, Xor(a, b)) \subseteq 0 .. (p.bitlength - 1)
      /\ Xor(Divide(p, a), Divide(p, b)) \subseteq 0 .. (p.bitlength - 1)
  BY DEF Divide, Xor
<1>. QED  BY <1>1, <1>2

LEMMA Divide8Type == ASSUME NEW p, ModelOK(p), NEW r  PROVE Divide8(p, r) \in Words
BY DivideType DEF Divide8, Divide4, Divide2

LEMMA Divide8Linear ==
  ASSUME NEW p, ModelOK(p), NEW a \in Words, NEW b \in Words
  PROVE  Divide8(p, Xor(a, b)) = Xor(Divide8(p, a), Divide8(p, b))
<1>1. ASSUME NEW c \in Words, NEW d \in Words
      PROVE  Divide2(p, Xor(c, d)) = Xor(Divide2(p, c), Divide2(p, d)) /\ Divide2(p, c) \in Words
  BY DivideLinear, DivideType DEF Divide2
<1>2. ASSUME NEW c \in Words, NEW d \in Words
      PROVE  Divide4(p, Xor(c, d)) = Xor(Divide4(p, c), Divide4(p, d)) /\ Divide4(p, c) \in Words
  BY <1>1 DEF Divide4
<1>. QED  BY <1>2 DEF Divide8

(* eight divisions and one more, in either order *)
LEMMA Divide8Commutes == ASSUME NEW p, NEW r  PROVE Divide8(p, Divide(p, r)) = Divide(p, Divide8(p, r))
BY DEF Divide8, Divide4, Divide2

(* bits that do not reach the top only move up *)
LEMMA DivideShifts ==
  ASSUME NEW p, ModelOK(p), NEW r \in Words, \A bit \in r : bit < (p.bitlength - 1)
  PROVE  Divide(p, r) = Shift(r, 1)
BY DEF Divide, Shift, Words, ModelOK

LEMMA Shifts ==
  ASSUME NEW r \in Words, NEW m \in Nat, NEW n \in Nat
  PROVE  Shift(Shift(r, m), n) = Shift(r, m + n) /\ Shift(r, m) \in Words
<1>1. Shift(r, m) \in Words
  BY DEF Shift, Words
<1>2. \A bit \in r : bit \in Nat /\ (bit + m) + n = bit + (m + n)
  BY DEF Words
<1>3. ASSUME NEW x \in Shift(Shift(r, m), n)  PROVE x \in Shift(r, m + n)
  BY <1>2, <1>3 DEF Shift
<1>4. ASSUME NEW x \in Shift(r, m + n)  PROVE x \in Shift(Shift(r, m), n)
  BY <1>2, <1>4 DEF Shift
<1>. QED  BY <1>1, <1>3, <1>4

LEMMA ShiftBound ==
  ASSUME NEW r \in Words, NEW m \in Nat, NEW bound \in Int, \A bit \in r : bit < bound
  PROVE  \A bit \in Shift(r, m) : bit < bound + m
BY DEF Shift, Words

LEMMA Divide8Shifts ==
  ASSUME NEW p, ModelOK(p), NEW r \in Words, \A bit \in r : bit < p.bitlength - 8
  PROVE  Divide8(p, r) = Shift(r, 8)
<1>1. p.bitlength - 8 \in Int /\ (p.bitlength - 1) = p.bitlength - 1
  BY DEF ModelOK
<1>2. ASSUME NEW m \in 0 .. 7  PROVE Divide(p, Shift(r, m)) = Shift(r, m + 1)
  <2>1. Shift(r, m) \in Words /\ \A bit \in Shift(r, m) : bit < (p.bitlength - 8) + m
    <3>1. m \in Nat
      OBVIOUS
    <3>2. PICK bound \in Int : bound = p.bitlength - 8
      BY <1>1
    <3>. QED  BY <3>1, <3>2, Shifts, ShiftBound
  <2>2. \A bit \in Shift(r, m) : bit < (p.bitlength - 1)
    BY <1>1, <2>1 DEF ModelOK, Words
  <2>. QED  BY <2>1, <2>2, DivideShifts, Shifts
<1>3. r = Shift(r, 0)
  <2>1. \A bit \in r : bit + 0 = bit
    BY DEF Words
  <2>. QED  BY <2>1 DEF Shift
<1>4. Divide2(p, r) = Shift(r, 2) /\ Divide2(p, Shift(r, 2)) = Shift(r, 4)
      /\ Divide2(p, Shift(r, 4)) = Shift(r, 6) /\ Divide2(p, Shift(r, 6)) = Shift(r, 8)
  BY <1>2, <1>3 DEF Divide2
<1>. QED  BY <1>4 DEF Divide8, Divide4

(* one bit: what eight divisions leave of it is divided on as it moves up *)
LEMMA Divide8One ==
  ASSUME NEW p, ModelOK(p)
  PROVE  /\ \A n \in 0 .. 6 : Divide8(p, {p.bitlength - 8 + n + 1}) = Divide(p, Divide8(p, {p.bitlength - 8 + n}))
         /\ Divide8(p, {p.bitlength - 8}) = Divide(p, {(p.bitlength - 1)})
<1>1. p.bitlength \in Nat /\ p.bitlength >= 8
  BY DEF ModelOK
<1>2. ASSUME NEW b \in Nat, b < (p.bitlength - 1)  PROVE Divide(p, {b}) = {b + 1}
  <2>1. {b} \in Words
    BY DEF Words
  <2>2. Divide(p, {b}) = Shift({b}, 1)
    BY <1>2, <2>1, DivideShifts
  <2>. QED  BY <2>2 DEF Shift
<1>3. ASSUME NEW n \in 0 .. 6
      PROVE  Divide8(p, {p.bitlength - 8 + n + 1}) = Divide(p, Divide8(p, {p.bitlength - 8 + n}))
  <2>1. p.bitlength - 8 + n \in Nat /\ p.bitlength - 8 + n < (p.bitlength - 1)
    BY <1>1
  <2>2. Divide(p, {p.bitlength - 8 + n}) = {p.bitlength - 8 + n + 1}
    BY <1>2, <2>1
  <2>. QED  BY <2>2, Divide8Commutes
<1>4. Divide8(p, {p.bitlength - 8}) = Divide(p, {(p.bitlength - 1)})
  <2>1. PICK b \in Nat : b = p.bitlength - 8
    BY <1>1
  <2>2. (p.bitlength - 1) = b + 7 /\ b + 1 \in Nat /\ b + 2 \in Nat /\ b + 3 \in Nat /\ b + 4 \in Nat
        /\ b + 5 \in Nat /\ b + 6 \in Nat
    BY <1>1, <2>1
  <2>3. /\ (b + 1) + 1 = b + 2 /\ (b + 2) + 1 = b + 3 /\ (b + 3) + 1 = b + 4
        /\ (b + 4) + 1 = b + 5 /\ (b + 5) + 1 = b + 6 /\ (b + 6) + 1 = b + 7
    OBVIOUS
  <2>4. Divide(p, {b}) = {b + 1} /\ Divide(p, {b + 1}) = {b + 2} /\ Divide(p, {b + 2}) = {b + 3}
    BY <1>2, <2>2, <2>3
  <2>5. Divide(p, {b + 3}) = {b + 4} /\ Divide(p, {b + 4}) = {b + 5} /\ Divide(p, {b + 5}) = {b + 6}
        /\ Divide(p, {b + 6}) = {b + 7}
    BY <1>2, <2>2, <2>3
  <2>6. Divide2(p, {b}) = {b + 2} /\ Divide2(p, {b + 2}) = {b + 4} /\ Divide2(p, {b + 4}) = {b + 6}
    BY <2>4, <2>5 DEF Divide2
  <2>7. Divide2(p, {b + 6}) = Divide(p, {(p.bitlength - 1)})
    BY <2>2, <2>5 DEF Divide2
  <2>. QED  BY <2>1, <2>6, <2>7 DEF Divide8, Divide4
<1>. QED  BY <1>3, <1>4

(* only the bits of a word count, and a word is its top byte and the rest *)
LEMMA DivideMask == ASSUME ModelOK(crcModel), NEW r \in Words
    PROVE Divide(crcModel, Mask(r)) = Divide(crcModel, r)
BY DEF Divide, Mask, Words, ModelOK, Msb

Low(r) == {bit \in r : bit < crcModel.bitlength - 8}

LEMMA MaskParts ==
  ASSUME ModelOK(crcModel), NEW r \in Words
  PROVE  /\ Mask(r) = Xor(High(crcModel, Byte(r)), Low(r))
         /\ Byte(r) \in SUBSET (0 .. 7) /\ Low(r) \in Words
         /\ Mask(Shift(r, 8)) = Shift(Low(r), 8)
<1>1. crcModel.bitlength \in Nat /\ crcModel.bitlength >= 8 /\ \A bit \in r : bit \in Nat
  BY DEF ModelOK, Words
<1>2. High(crcModel, Byte(r)) = {bit \in r : crcModel.bitlength - 8 <= bit /\ bit < crcModel.bitlength}
  <2>1. ASSUME NEW x \in High(crcModel, Byte(r))
      PROVE x \in r /\ crcModel.bitlength - 8 <= x /\ x < crcModel.bitlength
    BY <1>1, <2>1 DEF High, Byte, Shift
  <2>2. ASSUME NEW x \in r, crcModel.bitlength - 8 <= x, x < crcModel.bitlength
      PROVE x \in High(crcModel, Byte(r))
    <3>1. /\ x - (crcModel.bitlength - 8) \in 0 .. 7
          /\ (x - (crcModel.bitlength - 8)) + crcModel.bitlength - 8 = x
          /\ (x - (crcModel.bitlength - 8)) + (crcModel.bitlength - 8) = x
      BY <1>1, <2>2
    <3>2. x - (crcModel.bitlength - 8) \in Byte(r)
      BY <2>2, <3>1 DEF Byte
    <3>. QED  BY <3>1, <3>2 DEF High, Shift
  <2>. QED  BY <2>1, <2>2
<1>3. Mask(r) = Xor(High(crcModel, Byte(r)), Low(r))
  BY <1>1, <1>2 DEF Mask, Xor, Low
<1>4. Mask(Shift(r, 8)) = Shift(Low(r), 8)
  BY <1>1 DEF Mask, Shift, Low
<1>. QED  BY <1>3, <1>4 DEF Byte, Low, Words

LEMMA HighFacts ==
  ASSUME NEW p, ModelOK(p), NEW a \in SUBSET (0 .. 7), NEW b \in SUBSET (0 .. 7)
  PROVE  /\ High(p, a) \in Words /\ Xor(a, b) \in SUBSET (0 .. 7)
         /\ High(p, Xor(a, b)) = Xor(High(p, a), High(p, b))
<1>1. p.bitlength \in Nat /\ p.bitlength >= 8
  BY DEF ModelOK
<1>2. \A x, y \in 0 .. 7 : x + (p.bitlength - 8) = y + (p.bitlength - 8) => x = y
  BY <1>1
<1>3. \A c \in SUBSET (0 .. 7) : \A x \in 0 .. 7 : x + (p.bitlength - 8) \in High(p, c) <=> x \in c
  BY <1>2 DEF High, Shift
<1>4. \A c \in SUBSET (0 .. 7) : \A y \in High(p, c) : \E x \in 0 .. 7 : y = x + (p.bitlength - 8)
  BY DEF High, Shift
<1>5. Xor(a, b) \in SUBSET (0 .. 7)
  BY DEF Xor
<1>6. High(p, Xor(a, b)) = Xor(High(p, a), High(p, b))
  <2>1. ASSUME NEW y \in High(p, Xor(a, b))  PROVE y \in Xor(High(p, a), High(p, b))
    <3>1. PICK x \in 0 .. 7 : y = x + (p.bitlength - 8)
      BY <1>4, <1>5, <2>1
    <3>. QED  BY <1>3, <1>5, <2>1, <3>1 DEF Xor
  <2>2. ASSUME NEW y \in Xor(High(p, a), High(p, b))  PROVE y \in High(p, Xor(a, b))
    <3>1. PICK x \in 0 .. 7 : y = x + (p.bitlength - 8)
      BY <1>4, <2>2 DEF Xor
    <3>. QED  BY <1>3, <1>5, <2>2, <3>1 DEF Xor
  <2>. QED  BY <2>1, <2>2
<1>7. High(p, a) \in Words
  BY <1>1 DEF High, Shift, Words
<1>. QED  BY <1>5, <1>6, <1>7

(* one lookup does eight divisions *)
LEMMA LookupDivides ==
  ASSUME ModelOK(crcModel), NEW r \in Words, NEW byte \in SUBSET (0 .. 7)
  PROVE  Divided(crcModel, r, byte) = Xor(Divide8(crcModel, High(crcModel, Xor(byte, Byte(r)))), Mask(Shift(r, 8)))
<1>1. High(crcModel, byte) \in Words /\ Byte(r) \in SUBSET (0 .. 7) /\ Low(r) \in Words /\ Mask(r) \in Words
      /\ High(crcModel, Byte(r)) \in Words
  BY HighFacts, MaskParts DEF Mask, Words
<1>2. Divided(crcModel, r, byte) = Xor(Divide8(crcModel, r), Divide8(crcModel, High(crcModel, byte)))
  BY <1>1, Divide8Linear DEF Divided, High
<1>3. Divide8(crcModel, r) = Divide8(crcModel, Mask(r))
  BY DivideMask DEF Divide8, Divide4, Divide2
<1>4. Divide8(crcModel, Mask(r)) = Xor(Divide8(crcModel, High(crcModel, Byte(r))), Divide8(crcModel, Low(r)))
  BY <1>1, MaskParts, Divide8Linear
<1>5. Divide8(crcModel, Low(r)) = Mask(Shift(r, 8))
  BY <1>1, MaskParts, Divide8Shifts DEF Low
<1>6. Divide8(crcModel, High(crcModel, Xor(byte, Byte(r))))
        = Xor(Divide8(crcModel, High(crcModel, byte)), Divide8(crcModel, High(crcModel, Byte(r))))
  BY <1>1, HighFacts, Divide8Linear
<1>7. \A a, b, c : Xor(Xor(a, b), c) = Xor(Xor(c, a), b)
  BY DEF Xor
<1>. QED  BY <1>2, <1>3, <1>4, <1>5, <1>6, <1>7
-----------------------------------------------------------------------------
RemainderSteps(p, f, bytes) ==
  /\ f \in [0 .. Len(bytes) -> Words] /\ f[0] = p.init_value
  /\ \A n \in 1 .. Len(bytes) : f[n] = Divided(p, f[n - 1], bytes[n])

LEMMA RemainderFacts ==
  ASSUME NEW p, ModelOK(p), NEW bytes \in Seq(SUBSET (0 .. 7))
  PROVE  \E f : RemainderSteps(p, f, bytes) /\ Remainder(p, bytes) = f[Len(bytes)]
<1>. DEFINE Defines(f) == f = [n \in 0 .. Len(bytes) |->
                                IF n = 0 THEN p.init_value ELSE Divided(p, f[n - 1], bytes[n])]
            crc == CHOOSE f : Defines(f)
<1>1. PICK m \in Nat : m = Len(bytes)
  OBVIOUS
<1>2. PICK step : step = [n \in 1 .. m |-> [r \in Words |-> Divided(p, r, bytes[n])]]
  OBVIOUS
<1>3. step \in Steps(m, Words) /\ p.init_value \in Words
  BY <1>2, Divide8Type DEF Steps, ModelOK, Divided
<1>4. PICK f : Recursive(f, m, Words, p.init_value, step)
  BY <1>3, RecursionExists
<1>5. ASSUME NEW n \in 1 .. m  PROVE f[n] = Divided(p, f[n - 1], bytes[n])
  <2>1. n - 1 \in 0 .. m /\ f \in [0 .. m -> Words]
    BY <1>4 DEF Recursive
  <2>2. f[n - 1] \in Words
    BY <2>1
  <2>. QED  BY <1>2, <1>4, <2>2 DEF Recursive
<1>6. RemainderSteps(p, f, bytes)
  BY <1>1, <1>4, <1>5 DEF Recursive, RemainderSteps
<1>7. Defines(f)
  BY <1>6 DEF RemainderSteps
<1>8. Defines(crc)
  BY <1>7
<1>9. Remainder(p, bytes) = crc[Len(bytes)]
  BY DEF Remainder
<1>. HIDE DEF crc
<1>10. f[0] = crc[0]
  BY <1>1, <1>6, <1>8 DEF RemainderSteps
<1>11. \A n \in 1 .. m : f[n - 1] = crc[n - 1] => f[n] = crc[n]
  BY <1>1, <1>5, <1>8
<1>12. \A n \in 0 .. m : f[n] = crc[n]
  <2>1. StepsAgree(f, crc, m)
    BY ONLY <1>10, <1>11 DEF StepsAgree
  <2>. QED  BY <2>1, RecursionUnique DEF Agree
<1>13. crc = f
  BY <1>1, <1>7, <1>8, <1>12
<1>. QED  BY <1>6, <1>9, <1>13

LEMMA RemainderEmpty == ASSUME NEW p, ModelOK(p)  PROVE Remainder(p, <<>>) = p.init_value
<1>1. <<>> \in Seq(SUBSET (0 .. 7)) /\ Len(<<>>) = 0
  OBVIOUS
<1>2. PICK f : RemainderSteps(p, f, <<>>) /\ Remainder(p, <<>>) = f[Len(<<>>)]
  BY <1>1, RemainderFacts
<1>. QED  BY <1>1, <1>2 DEF RemainderSteps

LEMMA RemainderAppend ==
  ASSUME NEW p, ModelOK(p), NEW bytes \in Seq(SUBSET (0 .. 7)), NEW byte \in SUBSET (0 .. 7)
  PROVE  Remainder(p, Append(bytes, byte)) = Divided(p, Remainder(p, bytes), byte)
<1>1. PICK more : more = Append(bytes, byte)
  OBVIOUS
<1>2. PICK m \in Nat : m = Len(bytes)
  OBVIOUS
<1>3. /\ more \in Seq(SUBSET (0 .. 7)) /\ Len(more) = m + 1 /\ more[m + 1] = byte
      /\ \A n \in 1 .. m : bytes[n] = more[n]
  BY <1>1, <1>2
<1>4. PICK f : RemainderSteps(p, f, bytes) /\ Remainder(p, bytes) = f[Len(bytes)]
  BY RemainderFacts
<1>5. PICK g : RemainderSteps(p, g, more) /\ Remainder(p, more) = g[Len(more)]
  BY <1>3, RemainderFacts
<1>6. f[0] = g[0]
  BY <1>4, <1>5 DEF RemainderSteps
<1>7. ASSUME NEW n \in 1 .. m, f[n - 1] = g[n - 1]  PROVE f[n] = g[n]
  <2>1. n \in 1 .. Len(bytes) /\ n \in 1 .. Len(more)
    BY <1>2, <1>3
  <2>. QED  BY <1>3, <1>4, <1>5, <1>7, <2>1 DEF RemainderSteps
<1>a. \A n \in 1 .. m : f[n - 1] = g[n - 1] => f[n] = g[n]
  BY <1>7
<1>8. \A n \in 0 .. m : f[n] = g[n]
  <2>1. StepsAgree(f, g, m)
    BY ONLY <1>6, <1>a DEF StepsAgree
  <2>. QED  BY <2>1, RecursionUnique DEF Agree
<1>9. g[m + 1] = Divided(p, g[m], byte)
  <2>1. m + 1 \in 1 .. Len(more) /\ (m + 1) - 1 = m
    BY <1>3
  <2>. QED  BY <1>3, <1>5, <2>1 DEF RemainderSteps
<1>. QED  BY <1>1, <1>2, <1>3, <1>4, <1>5, <1>8, <1>9
-----------------------------------------------------------------------------
(* the constructor's register is the remainder of the bit doubled last *)
CrcInv ==
  /\ crcModel \in CrcModels \cup {NoModel} /\ filled \in 0 .. 8 /\ value \in Seq(SUBSET (0 .. 7))
  /\ crcModel = NoModel => filled = 0
  /\ filled < 8 => value = <<>>
  /\ crcModel # NoModel =>
       /\ \A byte \in SUBSET (0 .. filled - 1) : table[byte] = Divide8(crcModel, High(crcModel, byte))
       /\ filled = 0 => reg = {Msb}
       /\ filled \in 1 .. 7 => reg = Divide8(crcModel, {crcModel.bitlength - 8 + (filled - 1)})
       /\ filled = 8 => reg \in Words /\ reg = Remainder(crcModel, value)

LEMMA Divide8None == ASSUME NEW p  PROVE Divide8(p, {}) = {}
<1>1. ASSUME NEW bit \in Divide(p, {})  PROVE FALSE
  <2>1. bit - 1 \notin {} /\ p.bitlength - 1 \notin {}
    OBVIOUS
  <2>. QED  BY <1>1, <2>1 DEF Divide
<1>2. Divide(p, {}) = {}
  BY <1>1
<1>. QED  BY <1>2 DEF Divide8, Divide4, Divide2

LEMMA NewCrcStep == ASSUME CrcInv, NewCrc  PROVE CrcInv'
<1>1. crcModel' \in CrcModels /\ filled' = 0 /\ value' = <<>> /\ table' = [byte \in {{}} |-> {}]
      /\ reg' = {Msb'}
  BY DEF NewCrc, CrcInv, Msb
<1>2. Divide8(crcModel', {}) = {}
  BY Divide8None
<1>3. ASSUME NEW byte \in SUBSET (0 .. filled' - 1)
    PROVE table'[byte] = Divide8(crcModel, High(crcModel, byte))'
  <2>1. byte = {}
    BY <1>1
  <2>2. table'[byte] = {} /\ High(crcModel, byte)' = {}
    BY <1>1, <2>1 DEF High, Shift
  <2>. QED  BY <1>2, <2>2
<1>4. filled' \in 0 .. 8 /\ value' \in Seq(SUBSET (0 .. 7)) /\ ~ (filled' \in 1 .. 7) /\ filled' # 8
  BY <1>1
<1>. QED  BY <1>1, <1>3, <1>4 DEF CrcInv

LEMMA ShiftedDivides == ASSUME ModelOK(crcModel), NEW r \in Words  PROVE Shifted(r) = Divide(crcModel, r)
<1>1. crcModel.bitlength \in Nat /\ crcModel.bitlength >= 8 /\ Msb = crcModel.bitlength - 1 /\ \A bit \in r : bit \in Nat
  BY DEF ModelOK, Words, Msb
<1>2. ASSUME NEW bit \in 0 .. Msb  PROVE bit \in Shift(r, 1) <=> bit - 1 \in r
  BY <1>1 DEF Shift
<1>3. ASSUME NEW bit  PROVE bit \in Shifted(r) <=> bit \in 0 .. Msb /\ bit \in Divide(crcModel, r)
  <2>1. bit \in Shift(r, 1) \cup crcModel.polynomial => bit \in Nat
    BY <1>1 DEF Shift, ModelOK, Words
  <2>2. bit \in Shifted(r) => bit \in 0 .. Msb
    BY <1>1, <2>1 DEF Shifted, Mask, Xor
  <2>3. CASE Msb \in r
    BY <1>1, <1>2, <2>2, <2>3 DEF Shifted, Mask, Xor, Divide
  <2>4. CASE Msb \notin r
    BY <1>1, <1>2, <2>2, <2>4 DEF Shifted, Mask, Divide
  <2>. QED  BY <2>3, <2>4
<1>4. Divide(crcModel, r) \subseteq 0 .. Msb
  BY DEF Divide, Msb
<1>. QED  BY <1>3, <1>4

LEMMA DoubleStep == ASSUME CrcInv, DoubleTable  PROVE CrcInv'
<1>1. /\ crcModel \in CrcModels /\ ModelOK(crcModel) /\ filled \in 0 .. 7 /\ filled' = filled + 1
      /\ UNCHANGED <<crcModel, value>> /\ value = <<>>
  BY ModelFacts DEF DoubleTable, CrcInv
<1>2. crcModel.bitlength \in Nat /\ crcModel.bitlength >= 8 /\ Msb = crcModel.bitlength - 1
  BY <1>1 DEF ModelOK, Msb
<1>3. Shifted(reg) = Divide8(crcModel, {crcModel.bitlength - 8 + filled})
  <2>1. CASE filled = 0
    <3>1. reg = {Msb} /\ {Msb} \in Words /\ crcModel.bitlength - 8 + 0 = crcModel.bitlength - 8
      BY <1>1, <1>2, <2>1 DEF CrcInv, DoubleTable, Words
    <3>. QED  BY <1>1, <2>1, <3>1, ShiftedDivides, Divide8One DEF Msb
  <2>2. CASE filled # 0
    <3>1. PICK n \in 0 .. 6 : n = filled - 1
      BY <1>1, <2>2
    <3>2. reg = Divide8(crcModel, {crcModel.bitlength - 8 + n})
      BY <1>1, <2>2, <3>1 DEF CrcInv, DoubleTable
    <3>3. crcModel.bitlength - 8 + n + 1 = crcModel.bitlength - 8 + filled
      BY <1>1, <1>2, <3>1
    <3>. QED  BY <1>1, <3>2, <3>3, Divide8Type, ShiftedDivides, Divide8One
  <2>. QED  BY <2>1, <2>2
<1>4. PICK crc : crc = Shifted(reg)
  OBVIOUS
<1>5. /\ table' = [byte \in SUBSET (0 .. filled) |->
                     IF filled \in byte THEN Xor(crc, table[byte \ {filled}]) ELSE table[byte]]
      /\ reg' = IF filled' = 8 THEN crcModel.init_value ELSE crc
  BY <1>4 DEF DoubleTable
<1>6. ASSUME NEW byte \in SUBSET (0 .. filled)
    PROVE table'[byte] = Divide8(crcModel, High(crcModel, byte))
  <2>1. \A b \in SUBSET (0 .. filled - 1) : table[b] = Divide8(crcModel, High(crcModel, b))
    BY <1>1 DEF CrcInv, DoubleTable
  <2>2. CASE filled \notin byte
    <3>1. byte \in SUBSET (0 .. filled - 1)
      BY <1>1, <2>2
    <3>. QED  BY <1>5, <2>1, <2>2, <3>1
  <2>3. CASE filled \in byte
    <3>1. PICK rest : rest = byte \ {filled}
      OBVIOUS
    <3>2. /\ rest \in SUBSET (0 .. filled - 1) /\ rest \in SUBSET (0 .. 7) /\ {filled} \in SUBSET (0 .. 7)
          /\ byte = Xor({filled}, rest)
      BY <1>1, <2>3, <3>1 DEF Xor
    <3>3. High(crcModel, {filled}) = {crcModel.bitlength - 8 + filled}
      BY <1>1, <1>2 DEF High, Shift
    <3>4. Divide8(crcModel, High(crcModel, byte))
            = Xor(Divide8(crcModel, High(crcModel, {filled})), Divide8(crcModel, High(crcModel, rest)))
      BY <1>1, <3>2, HighFacts, Divide8Linear
    <3>5. table'[byte] = Xor(crc, table[rest])
      BY <1>5, <2>3, <3>1
    <3>. QED  BY <1>3, <1>4, <2>1, <3>2, <3>3, <3>4, <3>5
  <2>. QED  BY <2>2, <2>3
<1>7. \A byte \in SUBSET (0 .. filled' - 1) : table'[byte] = Divide8(crcModel, High(crcModel, byte))
  <2>1. filled' - 1 = filled
    BY <1>1
  <2>. QED  BY <1>6, <2>1
<1>8. filled' = 8 => reg' \in Words /\ reg' = Remainder(crcModel, value)
  BY <1>1, <1>5, RemainderEmpty DEF ModelOK
<1>9. filled' \in 1 .. 7 => reg' = Divide8(crcModel, {crcModel.bitlength - 8 + (filled' - 1)})
  <2>1. filled' - 1 = filled
    BY <1>1
  <2>. QED  BY <1>1, <1>3, <1>4, <1>5, <2>1
<1>10. filled' \in 0 .. 8 /\ filled' # 0 /\ value' \in Seq(SUBSET (0 .. 7)) /\ value' = <<>>
       /\ crcModel # NoModel
  BY <1>1 DEF CrcInv, DoubleTable
<1>11. crcModel' = crcModel /\ value' = value
  BY <1>1
<1>. QED  BY <1>1, <1>7, <1>8, <1>9, <1>10, <1>11 DEF CrcInv

LEMMA NextByteStep == ASSUME CrcInv, NextByte  PROVE CrcInv'
<1>1. /\ filled = 8 /\ filled' = 8 /\ UNCHANGED <<crcModel, table>> /\ crcModel \in CrcModels
      /\ crcModel # NoModel /\ ModelOK(crcModel) /\ reg \in Words /\ reg = Remainder(crcModel, value)
  BY ModelFacts DEF NextByte, CrcInv
<1>2. PICK byte \in CrcBytes : /\ reg' = Xor(table[Xor(byte, Byte(reg))], Mask(Shift(reg, 8)))
                              /\ value' = Append(value, byte)
  BY DEF NextByte
<1>3. byte \in SUBSET (0 .. 7) /\ value \in Seq(SUBSET (0 .. 7)) /\ Byte(reg) \in SUBSET (0 .. 7)
  BY CrcAssumption DEF CrcInv, Byte
<1>4. Xor(byte, Byte(reg)) \in SUBSET (0 .. 7)
  BY <1>3 DEF Xor
<1>5. table[Xor(byte, Byte(reg))] = Divide8(crcModel, High(crcModel, Xor(byte, Byte(reg))))
  <2>1. filled - 1 = 7
    BY <1>1
  <2>. QED  BY <1>1, <1>4, <2>1 DEF CrcInv
<1>6. reg' = Divided(crcModel, reg, byte)
  BY <1>1, <1>2, <1>3, <1>5, LookupDivides
<1>7. reg' = Remainder(crcModel, value') /\ reg' \in Words /\ value' \in Seq(SUBSET (0 .. 7))
  BY <1>1, <1>2, <1>3, <1>6, RemainderAppend, Divide8Type DEF Divided
<1>. QED  BY <1>1, <1>7 DEF CrcInv

THEOREM TableIsCRCTheorem == CrcSpec => []TableIsCRC
<1>1. CrcInit => CrcInv
  BY DEF CrcInit, CrcInv
<1>2. CrcInv /\ [CrcNext]_crcVars => CrcInv'
  <2>1. CASE UNCHANGED crcVars
    BY <2>1 DEF crcVars, CrcInv, Msb
  <2>. QED  BY <2>1, NewCrcStep, DoubleStep, NextByteStep DEF CrcNext
<1>3. CrcInv => TableIsCRC
  <2>. SUFFICES ASSUME CrcInv, filled = 8
                PROVE  /\ \A byte \in SUBSET (0 .. 7) : table[byte] = Divided(crcModel, {}, byte)
                       /\ Checksum = Xor(Remainder(crcModel, value), crcModel.xor_out)
    BY DEF TableIsCRC
  <2>1. crcModel # NoModel /\ filled - 1 = 7
    BY DEF CrcInv
  <2>2. \A a : Xor({}, a) = a
    BY DEF Xor
  <2>. QED  BY <2>1, <2>2 DEF CrcInv, Checksum, Divided, High
<1>. QED  BY <1>1, <1>2, <1>3, PTL DEF CrcSpec
=============================================================================
