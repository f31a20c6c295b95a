--------------------------- MODULE ListenerProofs ---------------------------
(***************************************************************************)
(* Proof that the Listener loses no update of Telegram's except those that *)
(* were queued or in hand when its process was killed, for every number of *)
(* workers, updates, restarts and every size of a reply, and that a        *)
(* session takes each update once and in order.                            *)
(***************************************************************************)
EXTENDS Listener, TLAPS

Elements(s) == {s[i] : i \in DOMAIN s}

(* A queue that grows at its end holds both parts, one that loses its head *)
(* holds the rest.                                                         *)
LEMMA QueueFacts ==
  ASSUME NEW S, NEW s \in Seq(S)
  PROVE  /\ \A t \in Seq(S) : s \o t \in Seq(S) /\ Elements(s \o t) = Elements(s) \cup Elements(t)
         /\ s # << >> => /\ Head(s) \in S /\ Tail(s) \in Seq(S)
                         /\ Elements(s) = {Head(s)} \cup Elements(Tail(s))
<1>1. ASSUME NEW t \in Seq(S)
      PROVE  s \o t \in Seq(S) /\ Elements(s \o t) = Elements(s) \cup Elements(t)
  <2>1. \A i \in DOMAIN (s \o t) : (s \o t)[i] \in Elements(s) \cup Elements(t)
    BY DEF Elements
  <2>2. \A i \in DOMAIN s : i \in DOMAIN (s \o t) /\ (s \o t)[i] = s[i]
    OBVIOUS
  <2>3. \A i \in DOMAIN t : Len(s) + i \in DOMAIN (s \o t) /\ (s \o t)[Len(s) + i] = t[i]
    OBVIOUS
  <2>4. Elements(s \o t) \subseteq Elements(s) \cup Elements(t)
    BY <2>1 DEF Elements
  <2>5. Elements(s) \subseteq Elements(s \o t)
    BY <2>2, Zenon DEF Elements
  <2>6. Elements(t) \subseteq Elements(s \o t)
    <3>1. \A i \in DOMAIN t : t[i] \in Elements(s \o t)
      BY <2>3, Zenon DEF Elements
    <3>. QED  BY <3>1, Zenon DEF Elements
  <2>. QED  BY <2>4, <2>5, <2>6
<1>2. ASSUME s # << >>
      PROVE  /\ Head(s) \in S /\ Tail(s) \in Seq(S)
             /\ Elements(s) = {Head(s)} \cup Elements(Tail(s))
  <2>1. /\ Head(s) \in S /\ Tail(s) \in Seq(S)
        /\ 1 \in DOMAIN s /\ Head(s) = s[1]
    BY <1>2
  <2>2. \A i \in DOMAIN Tail(s) : i + 1 \in DOMAIN s /\ Tail(s)[i] = s[i + 1]
    BY <1>2
  <2>3. \A i \in DOMAIN s : i = 1 \/ (i - 1 \in DOMAIN Tail(s) /\ Tail(s)[i - 1] = s[i])
    BY <1>2
  <2>4. Elements(s) \subseteq {Head(s)} \cup Elements(Tail(s))
    <3>1. \A i \in DOMAIN s : s[i] = Head(s) \/ s[i] \in Elements(Tail(s))
      BY <2>1, <2>3, Zenon DEF Elements
    <3>. QED  BY <3>1, Zenon DEF Elements
  <2>5. Elements(Tail(s)) \subseteq Elements(s)
    BY <2>2, Zenon DEF Elements
  <2>6. Head(s) \in Elements(s)
    BY <2>1, Zenon DEF Elements
  <2>. QED  BY <2>1, <2>4, <2>5, <2>6
<1>. QED  BY <1>1, <1>2

LEMMA InitInv == Init => Inv
BY ListenerAssumption
   DEF Init, Inv, TypeOK, NothingLost, OffsetKnown, ReplyNext, LastBatchKept, InOrder, NewRecv,
       Updates, Queued, InHand, Stopped, Free
-----------------------------------------------------------------------------
(* Each step of Telegram, of recv, of a worker and of the process keeps it. *)

LEMMA ArriveStep ==
  ASSUME Inv, Arrive  PROVE Inv'
BY SMTT(30), ListenerAssumption
   DEF Arrive, Inv, TypeOK, NothingLost, OffsetKnown, ReplyNext, LastBatchKept, InOrder, Updates,
       Queued, InHand

LEMMA ServeStep ==
  ASSUME Inv, Serve  PROVE Inv'
<1> DEFINE forgotten == IF recv.mostrecent - 1 > confirmed THEN recv.mostrecent - 1 ELSE confirmed
           size == IF arrived - forgotten < MaxBatch THEN arrived - forgotten ELSE MaxBatch
           reply == [i \in 1 .. size |-> forgotten + i]
<1>1. /\ recv.pc = "asked" /\ confirmed' = forgotten
      /\ recv' = [recv EXCEPT !.pc = "answered", !.reply = reply]
      /\ UNCHANGED <<arrived, alive, queue, worker, session, taken, handled, lost>>
  BY DEF Serve
<1>2. /\ forgotten \in 0 .. arrived /\ size \in Nat /\ forgotten + size <= arrived
      /\ arrived \in 0 .. MaxUpdates
      /\ forgotten = confirmed \/ forgotten = recv.mostrecent - 1
  BY SMTT(30), ListenerAssumption DEF Inv, TypeOK, OffsetKnown
<1>3. reply \in Seq(Updates) /\ Len(reply) = size
  <2>1. \A i \in 1 .. size : forgotten + i \in Updates
    BY <1>2, ListenerAssumption DEF Updates
  <2>. QED  BY SMTT(30), <1>2, <2>1
<1>4. /\ recv'.pc = "answered" /\ recv'.reply = reply /\ recv'.mostrecent = recv.mostrecent
  BY <1>1 DEF Inv, TypeOK
<1>5. TypeOK'
  BY <1>1, <1>2, <1>3 DEF Inv, TypeOK, Updates
<1>6. NothingLost' /\ OffsetKnown'
  BY <1>1, <1>2, <1>4 DEF Inv, NothingLost, OffsetKnown, Queued, InHand
<1>7. ReplyNext'
  BY <1>1, <1>2, <1>3, <1>4 DEF ReplyNext
<1>8. LastBatchKept'
  BY <1>1, <1>4 DEF Inv, LastBatchKept, Queued
<1>9. InOrder'
  BY <1>1, <1>2, <1>4 DEF Inv, TypeOK, InOrder
<1>. QED  BY <1>5, <1>6, <1>7, <1>8, <1>9 DEF Inv

(* recv goes on without having read anything *)
LEMMA QuietStep ==
  ASSUME Inv, Ask \/ StopPolling \/ PollFails  PROVE Inv'
<1>1. /\ UNCHANGED <<arrived, confirmed, alive, queue, worker, taken, handled, lost>>
      /\ recv'.mostrecent = recv.mostrecent
      /\ recv'.pc \in {"poll", "stopped"} \/ (recv'.pc = "asked" /\ alive)
  BY DEF Inv, TypeOK, Ask, StopPolling, PollFails
<1>2. TypeOK'
  <2>1. << >> \in Seq(Updates)
    OBVIOUS
  <2>2. \E pc \in {"poll", "asked", "stopped"}, reply \in {recv.reply, << >>} :
          recv' = [recv EXCEPT !.pc = pc, !.reply = reply]
    BY DEF Inv, TypeOK, Ask, StopPolling, PollFails
  <2>3. recv' \in [pc : {"poll", "asked", "answered", "stopped"},
                   mostrecent : 0 .. MaxUpdates + 1, reply : Seq(Updates)]
    BY <2>1, <2>2 DEF Inv, TypeOK
  <2>. QED  BY <1>1, <2>3 DEF Inv, TypeOK
<1>3. NothingLost' /\ OffsetKnown' /\ ReplyNext'
  BY <1>1 DEF Inv, NothingLost, OffsetKnown, ReplyNext, Queued, InHand
<1>4. LastBatchKept'
  BY <1>1, ListenerAssumption DEF Inv, LastBatchKept, Queued
<1>5. InOrder'
  BY <1>1 DEF Inv, InOrder
<1>. QED  BY <1>2, <1>3, <1>4, <1>5 DEF Inv

LEMMA ReceiveStep ==
  ASSUME Inv, Receive  PROVE Inv'
<1>1. /\ recv.pc = "answered" /\ queue' = queue \o recv.reply
      /\ UNCHANGED <<arrived, confirmed, alive, worker, session, taken, handled, lost>>
      /\ recv' = [recv EXCEPT !.pc = "poll", !.reply = << >>,
           !.mostrecent = IF recv.reply = << >> THEN @ ELSE recv.reply[Len(recv.reply)] + 1]
  BY DEF Receive
<1>2. /\ recv.reply \in Seq(Updates) /\ queue \in Seq(Updates)
      /\ arrived \in 0 .. MaxUpdates /\ confirmed \in 0 .. arrived
  BY DEF Inv, TypeOK
<1>3. /\ queue' \in Seq(Updates)
      /\ Queued' = Queued \cup Elements(recv.reply)
  <2>1. Queued = Elements(queue) /\ Queued' = Elements(queue')
    BY DEF Queued, Elements
  <2>. QED  BY <1>1, <1>2, <2>1, QueueFacts
<1>4. /\ \A i \in 1 .. Len(recv.reply) : recv.reply[i] = confirmed + i
      /\ confirmed + Len(recv.reply) <= arrived
  BY <1>1, <1>2 DEF Inv, ReplyNext
<1>5. /\ recv'.pc = "poll"
      /\ recv'.mostrecent = IF recv.reply = << >> THEN recv.mostrecent
                            ELSE confirmed + Len(recv.reply) + 1
  BY SMTT(30), <1>1, <1>2, <1>4 DEF Inv, TypeOK
<1>6. TypeOK'
  <2>1. recv'.mostrecent \in 0 .. MaxUpdates + 1
    BY <1>2, <1>4, <1>5, ListenerAssumption DEF Inv, TypeOK
  <2>2. \E n : /\ recv' = [recv EXCEPT !.pc = "poll", !.reply = << >>, !.mostrecent = n]
               /\ n = recv'.mostrecent
    BY <1>1 DEF Inv, TypeOK
  <2>3. << >> \in Seq(Updates)
    OBVIOUS
  <2>4. recv' \in [pc : {"poll", "asked", "answered", "stopped"},
                   mostrecent : 0 .. MaxUpdates + 1, reply : Seq(Updates)]
    BY <2>1, <2>2, <2>3 DEF Inv, TypeOK
  <2>. QED  BY <1>1, <1>3, <2>4 DEF Inv, TypeOK
<1>7. 1 .. confirmed + Len(recv.reply) \subseteq (handled \cup Queued \cup InHand \cup lost)'
  <2>1. \A u \in 1 .. confirmed + Len(recv.reply) :
          u \in 1 .. confirmed \/ u - confirmed \in 1 .. Len(recv.reply)
    BY <1>2
  <2>2. \A i \in 1 .. Len(recv.reply) : confirmed + i \in Elements(recv.reply)
    BY <1>2, <1>4 DEF Elements
  <2>3. \A u \in 1 .. confirmed + Len(recv.reply) : u \in 1 .. confirmed \/ u \in Elements(recv.reply)
    BY <1>2, <2>1, <2>2
  <2>. QED  BY <1>1, <1>3, <2>3 DEF Inv, NothingLost, InHand
<1>8. NothingLost'
  BY <1>1, <1>2, <1>7 DEF NothingLost
<1>9. OffsetKnown'
  <2>1. CASE recv.reply = << >>
    BY <2>1, <1>1, <1>3, <1>5 DEF Inv, OffsetKnown, InHand
  <2>2. CASE recv.reply # << >>
    BY <2>2, <1>1, <1>2, <1>4, <1>5, <1>7 DEF OffsetKnown
  <2>. QED  BY <2>1, <2>2
<1>10. ReplyNext'
  BY <1>5 DEF ReplyNext
<1>11. LastBatchKept'
  <2>1. \A u \in Elements(recv.reply) : u > confirmed
    <3>1. \A i \in DOMAIN recv.reply : recv.reply[i] > confirmed
      BY <1>2, <1>4
    <3>. QED  BY <3>1, Zenon DEF Elements
  <2>. QED  BY <1>1, <1>3, <1>5, <2>1 DEF Inv, LastBatchKept
<1>12. InOrder'
  <2>1. recv.mostrecent <= recv'.mostrecent /\ recv'.mostrecent \in Nat /\ recv.mostrecent \in Nat
    BY <1>1, <1>2, <1>4, <1>5 DEF Inv, TypeOK, InOrder
  <2>2. \A i \in DOMAIN queue' : \/ i \in DOMAIN queue /\ queue'[i] = queue[i]
                                \/ /\ i - Len(queue) \in 1 .. Len(recv.reply) /\ i > Len(queue)
                                   /\ queue'[i] = confirmed + (i - Len(queue))
    BY <1>1, <1>2, <1>4
  <2>3. \A i \in DOMAIN queue : queue[i] \in Nat /\ taken < queue[i] /\ queue[i] < recv.mostrecent
    <3>1. \A i \in DOMAIN queue : queue[i] \in Updates
      BY <1>2
    <3>. QED  BY <3>1, ListenerAssumption DEF Inv, InOrder, Updates
  <2>4. ASSUME NEW k \in 1 .. Len(recv.reply)
        PROVE  /\ taken < confirmed + k /\ confirmed + k < recv'.mostrecent
               /\ recv.mostrecent <= confirmed + k
    <3>1. recv'.mostrecent = confirmed + Len(recv.reply) + 1
      <4>1. recv.reply # << >>
        BY <1>2
      <4>. QED  BY <4>1, <1>5
    <3>2. /\ confirmed \in Nat /\ k \in Nat \ {0} /\ k <= Len(recv.reply) /\ Len(recv.reply) \in Nat
      BY <1>2
    <3>3. recv.mostrecent <= confirmed + 1
      BY <1>1 DEF Inv, InOrder
    <3>4. taken \in Nat /\ (taken < recv.mostrecent \/ taken = 0)
      BY ListenerAssumption DEF Inv, TypeOK, InOrder
    <3>. QED  BY <2>1, <3>1, <3>2, <3>3, <3>4
  <2>5. \A i \in DOMAIN queue' : taken < queue'[i] /\ queue'[i] < recv'.mostrecent
    BY <2>1, <2>2, <2>3, <2>4
  <2>6. \A i, j \in DOMAIN queue' : i < j => queue'[i] < queue'[j]
    <3>1. DOMAIN queue' \subseteq Nat /\ Len(queue) \in Nat /\ confirmed \in Nat
      BY <1>2, <1>3
    <3>2. \A i, j \in DOMAIN queue : i < j => queue[i] < queue[j]
      BY DEF Inv, InOrder
    <3>3. \A i \in DOMAIN queue : i <= Len(queue)
      BY <1>2
    <3>. QED  BY SMTT(30), <2>1, <2>2, <2>3, <2>4, <3>1, <3>2, <3>3
  <2>. QED  BY SMTT(30), <1>1, <1>5, <2>1, <2>5, <2>6 DEF Inv, TypeOK, InOrder
<1>. QED  BY <1>6, <1>8, <1>9, <1>10, <1>11, <1>12 DEF Inv

LEMMA TakeStep ==
  ASSUME Inv, NEW w \in Workers, Take(w)  PROVE Inv'
<1>1. /\ worker[w] = Free /\ queue # << >>
      /\ worker' = [worker EXCEPT ![w] = Head(queue)]
      /\ taken' = Head(queue) /\ queue' = Tail(queue)
      /\ UNCHANGED <<arrived, confirmed, alive, recv, session, handled, lost>>
  BY DEF Take
<1>2. /\ Head(queue) \in Updates /\ queue' \in Seq(Updates)
      /\ Queued = {Head(queue)} \cup Queued'
  <2>1. Queued = Elements(queue) /\ Queued' = Elements(queue')
    BY DEF Queued, Elements
  <2>2. queue \in Seq(Updates)
    BY DEF Inv, TypeOK
  <2>. QED  BY <1>1, <2>1, <2>2, QueueFacts
<1>3. Head(queue) \in 1 .. MaxUpdates
  BY <1>2 DEF Updates
<1>4. TypeOK'
  BY <1>1, <1>2, <1>3, ListenerAssumption DEF Inv, TypeOK
<1>5. worker'[w] = Head(queue) /\ worker'[w] # Stopped /\ worker'[w] # Free
  BY <1>1, <1>3, ListenerAssumption DEF Inv, TypeOK, Stopped, Free
<1>6. InHand' = InHand \cup {Head(queue)}
  <2>1. \A v \in Workers : v # w => worker'[v] = worker[v]
    BY <1>1 DEF Inv, TypeOK
  <2>. QED  BY <1>1, <1>5, <2>1 DEF InHand
<1>7. NothingLost' /\ OffsetKnown'
  BY <1>1, <1>2, <1>6 DEF Inv, NothingLost, OffsetKnown
<1>8. ReplyNext' /\ LastBatchKept'
  BY <1>1, <1>5 DEF Inv, TypeOK, ReplyNext, LastBatchKept
<1>9. InOrder'
  <2>1. \A i \in DOMAIN queue' : i + 1 \in DOMAIN queue /\ queue'[i] = queue[i + 1]
    BY <1>1 DEF Inv, TypeOK
  <2>2. 1 \in DOMAIN queue /\ taken' = queue[1]
    BY <1>1 DEF Inv, TypeOK
  <2>3. \A i \in DOMAIN queue' : i \in Nat /\ 1 < i + 1
    BY <1>2
  <2>. QED  BY <1>1, <1>2, <2>1, <2>2, <2>3 DEF Inv, InOrder
<1>. QED  BY <1>4, <1>7, <1>8, <1>9 DEF Inv

LEMMA FinishStep ==
  ASSUME Inv, NEW w \in Workers, Finish(w)  PROVE Inv'
<1>1. /\ worker[w] > 0 /\ handled' = handled \cup {worker[w]}
      /\ worker' = [worker EXCEPT ![w] = Free]
      /\ UNCHANGED <<arrived, confirmed, alive, recv, queue, session, taken, lost>>
  BY DEF Finish
<1>2. worker[w] \in Updates
  BY <1>1 DEF Inv, TypeOK, Free, Stopped
<1>3. TypeOK'
  BY <1>1, <1>2 DEF Inv, TypeOK
<1>4. worker'[w] # Stopped
  BY <1>1 DEF Inv, TypeOK, Free, Stopped
<1>5. InHand \subseteq InHand' \cup {worker[w]}
  BY <1>1 DEF Inv, TypeOK, InHand
<1>6. NothingLost' /\ OffsetKnown'
  BY <1>1, <1>5 DEF Inv, NothingLost, OffsetKnown, Queued
<1>7. ReplyNext' /\ LastBatchKept'
  BY <1>1, <1>4 DEF Inv, TypeOK, ReplyNext, LastBatchKept
<1>8. InOrder'
  BY <1>1 DEF Inv, InOrder
<1>. QED  BY <1>3, <1>6, <1>7, <1>8 DEF Inv

LEMMA LeaveStep ==
  ASSUME Inv, NEW w \in Workers, Leave(w)  PROVE Inv'
<1>1. /\ worker[w] = Free /\ ~ alive /\ queue = << >>
      /\ worker' = [worker EXCEPT ![w] = Stopped]
      /\ UNCHANGED <<arrived, confirmed, alive, recv, queue, session, taken, handled, lost>>
  BY DEF Leave
<1>2. TypeOK'
  BY <1>1 DEF Inv, TypeOK
<1>3. InHand \subseteq InHand'
  BY <1>1 DEF Inv, TypeOK, InHand, Stopped, Free
<1>4. NothingLost' /\ OffsetKnown' /\ ReplyNext'
  BY <1>1, <1>3 DEF Inv, NothingLost, OffsetKnown, ReplyNext, Queued
<1>5. LastBatchKept'
  BY <1>1 DEF LastBatchKept, Queued
<1>6. InOrder'
  BY <1>1 DEF Inv, InOrder
<1>. QED  BY <1>2, <1>4, <1>5, <1>6 DEF Inv

LEMMA TerminateStep ==
  ASSUME Inv, Terminate  PROVE Inv'
<1>1. /\ alive' = FALSE
      /\ UNCHANGED <<arrived, confirmed, recv, queue, worker, session, taken, handled, lost>>
  BY DEF Terminate
<1>2. TypeOK'
  BY <1>1 DEF Inv, TypeOK
<1>3. NothingLost' /\ OffsetKnown' /\ ReplyNext'
  BY <1>1 DEF Inv, NothingLost, OffsetKnown, ReplyNext, Queued, InHand
<1>4. LastBatchKept'
  BY <1>1 DEF Inv, LastBatchKept, Queued
<1>5. InOrder'
  BY <1>1 DEF Inv, InOrder
<1>. QED  BY <1>2, <1>3, <1>4, <1>5 DEF Inv

(* A run that has returned leaves in its queue only what Telegram still has. *)
LEMMA RestartStep ==
  ASSUME Inv, Restart  PROVE Inv'
<1>1. /\ alive' = TRUE /\ recv' = NewRecv /\ queue' = << >>
      /\ worker' = [w \in Workers |-> Free] /\ taken' = 0
      /\ UNCHANGED <<arrived, confirmed, handled>>
      /\ \/ AllStopped /\ UNCHANGED lost
         \/ lost' = lost \cup Queued \cup InHand
  BY DEF Restart
<1>2. Queued \subseteq Updates /\ InHand \subseteq Updates
  BY DEF Inv, TypeOK, Queued, InHand
<1>3. TypeOK'
  <2>1. << >> \in Seq(Updates)
    OBVIOUS
  <2>2. recv' \in [pc : {"poll", "asked", "answered", "stopped"},
                   mostrecent : 0 .. MaxUpdates + 1, reply : Seq(Updates)]
    BY <1>1, <2>1, ListenerAssumption DEF NewRecv
  <2>3. lost' \subseteq Updates
    BY <1>1, <1>2 DEF Inv, TypeOK
  <2>. QED  BY <1>1, <2>1, <2>2, <2>3, ListenerAssumption DEF Inv, TypeOK
<1>4. 1 .. confirmed \subseteq handled \cup lost'
  <2>1. CASE AllStopped /\ UNCHANGED lost
    <3>1. InHand = {} /\ \A u \in Queued : u > confirmed
      BY <2>1 DEF Inv, LastBatchKept, AllStopped, InHand
    <3>2. \A u \in 1 .. confirmed : u \notin Queued
      BY <3>1 DEF Inv, TypeOK
    <3>. QED  BY <2>1, <3>1, <3>2 DEF Inv, NothingLost
  <2>2. CASE lost' = lost \cup Queued \cup InHand
    BY <2>2 DEF Inv, NothingLost
  <2>. QED  BY <1>1, <2>1, <2>2
<1>5. NothingLost'
  BY <1>1, <1>4 DEF NothingLost
<1>6. OffsetKnown' /\ ReplyNext'
  BY <1>1 DEF Inv, TypeOK, OffsetKnown, ReplyNext, NewRecv
<1>7. LastBatchKept'
  BY <1>1, ListenerAssumption DEF LastBatchKept, Stopped, Free
<1>8. InOrder'
  BY <1>1 DEF InOrder, NewRecv
<1>. QED  BY <1>3, <1>5, <1>6, <1>7, <1>8 DEF Inv
-----------------------------------------------------------------------------
(* Inv is inductive, so it holds in every state of the Listener.           *)
THEOREM Invariance == Spec => []Inv
<1>1. Init => Inv
  BY InitInv
<1>2. Inv /\ [Next]_vars => Inv'
  <2>. SUFFICES ASSUME Inv, [Next]_vars  PROVE Inv'
    OBVIOUS
  <2>1. CASE Arrive  BY <2>1, ArriveStep
  <2>2. CASE Poll  BY <2>2, QuietStep, ServeStep, ReceiveStep DEF Poll
  <2>3. CASE PollFails  BY <2>3, QuietStep
  <2>4. CASE Terminate  BY <2>4, TerminateStep
  <2>5. CASE Restart  BY <2>5, RestartStep
  <2>6. ASSUME NEW w \in Workers, Take(w) \/ Finish(w) \/ Leave(w)  PROVE Inv'
    BY <2>6, TakeStep, FinishStep, LeaveStep
  <2>7. CASE UNCHANGED vars
    BY <2>7 DEF vars, Inv, TypeOK, NothingLost, OffsetKnown, ReplyNext, LastBatchKept,
                InOrder, Queued, InHand
  <2>. QED  BY <2>1, <2>2, <2>3, <2>4, <2>5, <2>6, <2>7 DEF Next
<1>. QED  BY <1>1, <1>2, PTL DEF Spec

(* Every update that Telegram has forgotten was parsed, is queued or in    *)
(* hand, or was so when the process was killed.                            *)
THEOREM NothingLostTheorem == Spec => []NothingLost
<1>1. Inv => NothingLost
  BY DEF Inv
<1>. QED  BY <1>1, Invariance, PTL

(* Within a session updates are taken once and in the order of their       *)
(* numbers: the head of the queue is beyond the last update taken.         *)
THEOREM InOrderOnceTheorem == Spec => InOrderOnce
<1>1. Inv /\ [Next]_vars => [\A w \in Workers : Take(w) => Head(queue) > taken]_vars
  <2>. SUFFICES ASSUME Inv, NEW w \in Workers, Take(w)  PROVE Head(queue) > taken
    OBVIOUS
  <2>1. 1 \in DOMAIN queue /\ Head(queue) = queue[1]
    BY DEF Inv, TypeOK, Take
  <2>2. taken \in Nat /\ queue[1] \in Nat
    BY <2>1, ListenerAssumption DEF Inv, TypeOK, Updates
  <2>. QED  BY <2>1, <2>2 DEF Inv, InOrder
<1>. QED  BY <1>1, Invariance, PTL DEF Spec, InOrderOnce

(* The Listener keeps the contract of Delivery: a reply is fetched, what   *)
(* the offset of a poll covers is confirmed, a worker handles an update,   *)
(* and a restart lets go of what was queued or in hand.                    *)
LEMMA KeepsStep ==
  ASSUME Inv, [Next]_vars
  PROVE  [UpdateContract!DeliveryNext]_(UpdateContract!deliveryVars)
<1> DEFINE kept == Updates \ (1 .. confirmed)
           held == Queued \cup InHand
<1>1. CASE Serve
  <2>1. /\ confirmed' = IF recv.mostrecent - 1 > confirmed THEN recv.mostrecent - 1 ELSE confirmed
        /\ UNCHANGED <<queue, worker, handled, lost>>
    BY <1>1 DEF Serve
  <2>2. confirmed \in Int /\ recv.mostrecent \in Int
    BY ListenerAssumption DEF Inv, TypeOK
  <2>3. kept' \subseteq kept /\ kept \ kept' \subseteq 1 .. recv.mostrecent - 1
    BY <2>1, <2>2 DEF Updates
  <2>4. kept \ kept' \subseteq held \cup handled \cup lost
    BY <2>3 DEF Inv, OffsetKnown
  <2>5. UNCHANGED held
    BY <2>1 DEF Queued, InHand
  <2>. QED  BY <2>1, <2>3, <2>4, <2>5 DEF UpdateContract!DeliveryNext, UpdateContract!Confirm
<1>2. CASE Receive
  <2>1. /\ recv.pc = "answered" /\ queue' = queue \o recv.reply
        /\ UNCHANGED <<arrived, confirmed, worker, handled, lost>>
    BY <1>2 DEF Receive
  <2>2. /\ recv.reply \in Seq(Updates) /\ queue \in Seq(Updates)
        /\ arrived \in 0 .. MaxUpdates /\ confirmed \in 0 .. arrived
    BY DEF Inv, TypeOK
  <2>3. Queued' = Queued \cup Elements(recv.reply)
    <3>1. Queued = Elements(queue) /\ Queued' = Elements(queue')
      BY DEF Queued, Elements
    <3>. QED  BY <2>1, <2>2, <3>1, QueueFacts
  <2>4. Elements(recv.reply) \subseteq kept
    <3>1. \A i \in DOMAIN recv.reply : recv.reply[i] \in Updates /\ recv.reply[i] > confirmed
      BY <2>1, <2>2 DEF Inv, ReplyNext
    <3>2. \A i \in DOMAIN recv.reply : recv.reply[i] \in kept
      BY <2>2, <3>1
    <3>. QED  BY <3>2, Zenon DEF Elements
  <2>5. held' = held \cup Elements(recv.reply)
    BY <2>1, <2>3 DEF InHand
  <2>6. UNCHANGED <<kept, handled, lost>>
    BY <2>1 DEF Updates
  <2>. QED  BY <2>4, <2>5, <2>6 DEF UpdateContract!DeliveryNext, UpdateContract!Fetch
<1>3. ASSUME NEW w \in Workers, Finish(w)
      PROVE  UpdateContract!Handle
  <2>1. /\ worker[w] > 0 /\ handled' = handled \cup {worker[w]}
        /\ worker' = [worker EXCEPT ![w] = Free]
        /\ UNCHANGED <<confirmed, queue, lost>>
    BY <1>3 DEF Finish
  <2>2. worker[w] \in InHand
    BY <2>1 DEF InHand, Stopped, Free
  <2>3. InHand' \in {InHand, InHand \ {worker[w]}}
    BY <2>1 DEF Inv, TypeOK, InHand, Free
  <2>4. Queued' = Queued
    BY <2>1 DEF Queued
  <2>5. held' \in {held, held \ {worker[w]}} \cup {Queued \cup (InHand \ {worker[w]})}
    BY <2>3, <2>4
  <2>6. held' \in {held, held \ {worker[w]}}
    BY <2>2, <2>5
  <2>. QED  BY <2>1, <2>2, <2>6 DEF UpdateContract!Handle, Updates
<1>4. CASE Restart
  <2>1. /\ queue' = << >> /\ worker' = [w \in Workers |-> Free]
        /\ UNCHANGED <<confirmed, handled>>
        /\ \/ AllStopped /\ UNCHANGED lost
           \/ lost' = lost \cup Queued \cup InHand
    BY <1>4 DEF Restart
  <2>2. held' = {}
    BY <2>1 DEF Queued, InHand
  <2>3. /\ held \subseteq kept \cup lost'
        /\ lost \subseteq lost' /\ lost' \subseteq lost \cup held
    <3>1. CASE AllStopped /\ UNCHANGED lost
      <4>1. InHand = {} /\ \A u \in Queued : u > confirmed
        BY <3>1 DEF Inv, LastBatchKept, AllStopped, InHand
      <4>2. Queued \subseteq Updates
        BY DEF Inv, TypeOK, Queued
      <4>3. confirmed \in Int
        BY ListenerAssumption DEF Inv, TypeOK
      <4>4. Queued \subseteq kept
        BY <4>1, <4>2, <4>3 DEF Updates
      <4>. QED  BY <3>1, <4>1, <4>4
    <3>2. CASE lost' = lost \cup Queued \cup InHand
      BY <3>2
    <3>. QED  BY <2>1, <3>1, <3>2
  <2>4. UNCHANGED <<kept, handled>>
    BY <2>1 DEF Updates
  <2>. QED  BY <2>2, <2>3, <2>4 DEF UpdateContract!DeliveryNext, UpdateContract!LetGo
<1>5. CASE Arrive \/ Ask \/ StopPolling \/ PollFails \/ Terminate \/ UNCHANGED vars
  <2>1. UNCHANGED <<confirmed, queue, worker, handled, lost>>
    BY <1>5 DEF Arrive, Ask, StopPolling, PollFails, Terminate, vars
  <2>. QED  BY <2>1 DEF UpdateContract!deliveryVars, Queued, InHand, Updates
<1>6. ASSUME NEW w \in Workers, Take(w)
      PROVE  UNCHANGED <<kept, held, handled, lost>>
  <2>1. /\ worker[w] = Free /\ queue # << >>
        /\ worker' = [worker EXCEPT ![w] = Head(queue)] /\ queue' = Tail(queue)
        /\ UNCHANGED <<confirmed, handled, lost>>
    BY <1>6 DEF Take
  <2>2. /\ Head(queue) \in Updates
        /\ Queued = {Head(queue)} \cup Queued'
    <3>1. Queued = Elements(queue) /\ Queued' = Elements(queue')
      BY DEF Queued, Elements
    <3>2. queue \in Seq(Updates)
      BY DEF Inv, TypeOK
    <3>. QED  BY <2>1, <3>1, <3>2, QueueFacts
  <2>3. worker'[w] = Head(queue) /\ worker'[w] # Stopped /\ worker'[w] # Free
    BY <2>1, <2>2, ListenerAssumption DEF Inv, TypeOK, Stopped, Free, Updates
  <2>4. InHand' = InHand \cup {Head(queue)}
    <3>1. \A v \in Workers : v # w => worker'[v] = worker[v]
      BY <2>1 DEF Inv, TypeOK
    <3>. QED  BY <2>1, <2>3, <3>1 DEF InHand
  <2>5. UNCHANGED held
    BY <2>2, <2>4
  <2>. QED  BY <2>1, <2>5 DEF Updates
<1>7. ASSUME NEW w \in Workers, Leave(w)
      PROVE  UNCHANGED <<kept, held, handled, lost>>
  <2>1. /\ worker[w] = Free /\ worker' = [worker EXCEPT ![w] = Stopped]
        /\ UNCHANGED <<confirmed, queue, handled, lost>>
    BY <1>7 DEF Leave
  <2>2. InHand' = InHand
    BY <2>1 DEF Inv, TypeOK, InHand, Free, Stopped
  <2>. QED  BY <2>1, <2>2 DEF Queued, Updates
<1>8. ASSUME NEW w \in Workers, Take(w) \/ Finish(w) \/ Leave(w)
      PROVE  [UpdateContract!DeliveryNext]_(UpdateContract!deliveryVars)
  BY <1>8, <1>3, <1>6, <1>7 DEF UpdateContract!DeliveryNext, UpdateContract!deliveryVars
<1>. QED  BY <1>1, <1>2, <1>4, <1>5, <1>8 DEF Next, Poll

(* KeepsUpdates: the Listener and Telegram keep the contract of Delivery:  *)
(* nothing but a kill makes everybody forget an update that is not parsed. *)
THEOREM KeepsUpdatesTheorem == Spec => KeepsUpdates
<1>1. Init => UpdateContract!DeliveryInit
  BY DEF Init, UpdateContract!DeliveryInit, Updates, Queued, InHand, Stopped, Free
<1>2. Inv /\ [Next]_vars => [UpdateContract!DeliveryNext]_(UpdateContract!deliveryVars)
  BY KeepsStep
<1>. QED  BY <1>1, <1>2, Invariance, PTL DEF Spec, KeepsUpdates, UpdateContract!DeliverySpec

(* The contract alone is enough: whatever keeps it forgets no update, so   *)
(* NothingLost follows from KeepsUpdates without a look at the Listener.   *)
THEOREM ContractTheorem == UpdateContract!DeliverySpec => []UpdateContract!NothingForgotten
<1>1. UpdateContract!DeliveryInit => UpdateContract!NothingForgotten
  BY DEF UpdateContract!DeliveryInit, UpdateContract!NothingForgotten
<1> DEFINE kept == Updates \ (1 .. confirmed)
           held == Queued \cup InHand
<1>2. ASSUME UpdateContract!NothingForgotten,
             [UpdateContract!DeliveryNext]_(UpdateContract!deliveryVars)
      PROVE  UpdateContract!NothingForgotten'
  <2>1. Updates \ kept \subseteq held \cup handled \cup lost
    BY <1>2 DEF UpdateContract!NothingForgotten
  <2>2. UNCHANGED Updates
    BY DEF Updates
  <2> SUFFICES (Updates \ kept)' \subseteq (held \cup handled \cup lost)'
    BY DEF UpdateContract!NothingForgotten
  <2> HIDE DEF kept, held
  <2>3. CASE UpdateContract!Fetch
    BY <2>1, <2>2, <2>3 DEF UpdateContract!Fetch, kept, held
  <2>4. CASE UpdateContract!Handle
    BY <2>1, <2>2, <2>4 DEF UpdateContract!Handle, kept, held
  <2>5. CASE UpdateContract!Confirm
    BY <2>1, <2>2, <2>5 DEF UpdateContract!Confirm, kept, held
  <2>6. CASE UpdateContract!LetGo
    BY <2>1, <2>2, <2>6 DEF UpdateContract!LetGo, kept, held
  <2>7. CASE UNCHANGED UpdateContract!deliveryVars
    BY <2>1, <2>2, <2>7 DEF UpdateContract!deliveryVars, kept, held
  <2>. QED  BY <1>2, <2>3, <2>4, <2>5, <2>6, <2>7 DEF UpdateContract!DeliveryNext
<1>. QED  BY <1>1, <1>2, PTL DEF UpdateContract!DeliverySpec

(* The variables have the shapes of TypeOK.                                *)
THEOREM TypeCorrect == Spec => []TypeOK
<1>1. Inv => TypeOK
  BY DEF Inv
<1>. QED  BY <1>1, Invariance, PTL
=============================================================================
